----------------------------- MODULE UserTable -----------------------------
(***************************************************************************)
(* parser.py: which MACs of the answer to "show global-user-table list     *)
(* role profiling" become delete targets.  The lines of the answer are     *)
(* read one by one; the MAC selected from a line is the key of an entry,   *)
(* and every line leaves a decision, which the audit file keeps.           *)
(*                                                                         *)
(* A line is the sequence of its tokens.  A token stands for all texts the *)
(* parser treats alike: a MAC is itself, "ip12" is an IPv4 address of      *)
(* twelve digits, which normalize_mac takes for a MAC too.  The role       *)
(* filter is the default, "profiling".  The values of the Type column, the *)
(* user name and the address that an entry also carries decide nothing and *)
(* are left out.                                                           *)
(***************************************************************************)
EXTENDS Integers, Sequences, FiniteSets

CONSTANTS
    Users,    \* MACs of users
    Radios,   \* MACs of access points: BSSIDs and radios
    NoMac,    \* the MAC of a decision that concerns none
    MaxLines  \* bound: lines of an answer

ASSUME TableConstants ==
    /\ NoMac \notin Users \union Radios
    /\ Users \intersect Radios = {}
    /\ MaxLines \in Nat

(* The tokens that are no MAC, and the role of a line without one.          *)
Words == {"ip", "ip12", "kim", "lee", "profiling", "guest", "none", "total", "type", "prompt",
          "20", "12", "N/A", "ap-01", "vlan", "ap", "radio", "monitor", "uplink", ""}

(* A MAC is written in twelve hexadecimal digits, as no word is.            *)
ASSUME MacsAreNoWords == (Users \union Radios) \intersect Words = {}

VARIABLES
    lines,      \* the lines read so far
    decisions,  \* decisions[k]: what became of line k
    entries     \* the keys of entries, in order

tableVars == <<lines, decisions, entries>>

----------------------------------------------------------------------------
(* What the device prints (external; the layouts of tests/fixtures) *)

Role == "profiling"

(* The roles of users that were not asked for.  Nothing keeps a role from   *)
(* being called like a column, a number or an address.                      *)
OtherRoles == {"guest", "vlan", "ap", "20", "ip12"}
UserRoles  == {Role} \union OtherRoles

(* A user's name may be blank, two words, the role's own name, the user's   *)
(* MAC (MAC authentication), begin like the line of totals, or be called    *)
(* like the column of types.                                                *)
NamesOf(u) == {<<>>, <<"kim">>, <<"kim", "lee">>, <<Role>>, <<u>>, <<"total">>, <<"type">>}

Layouts == {"ip first", "name first", "role after mac", "no role"}

Columns(layout, u, role, name, address, radio) ==
    CASE layout = "ip first"       -> <<address, u>> \o name \o <<role, "20", radio, "ap-01">>
      [] layout = "name first"     -> name \o <<u, address, role, "N/A", radio, "ap-01">>
      [] layout = "role after mac" -> name \o <<address, u, role, "20", "ap-01", radio>>
      [] layout = "no role"        -> name \o <<address, u, radio, "ap-01", "12">>

UserLine(layout, u, role, name, address, radio) ==
    [user |-> u, role |-> role, layout |-> layout, name |-> name, address |-> address,
     tokens |-> Columns(layout, u, role, name, address, radio)]

(* Lines that concern no user: access points, totals, a prompt.             *)
OtherLine(tokens) ==
    [user |-> NoMac, role |-> "none", layout |-> "none", name |-> <<>>, address |-> "none",
     tokens |-> tokens]

OtherTokens(b, c) ==
    {<<"total", "20">>, <<"prompt">>, <<"ap-01", "ip", b, "radio">>,
     <<"ap-01", "uplink", b, "radio">>, <<"ap-01", "uplink", b, "radio", "monitor", c, "ap-01">>}

----------------------------------------------------------------------------
(* Reading a line *)

Addresses == {"ip", "ip12"}
Numbers   == {"20", "12"}

(* Words that are taken for a column's title and not for a role: "vlan" is  *)
(* also "role"; "ap" is also "bssid" and "essid", which mark a device too.  *)
Titles  == {"vlan", "ap"}
Markers == {"ap", "radio", "monitor", "uplink"}   \* device_markers

(* normalize_mac: twelve hexadecimal digits, whatever stands between them.  *)
LooksLikeMac(token) == token \in Users \union Radios \union {"ip12"}

Candidates(tokens) == {i \in DOMAIN tokens : LooksLikeMac(tokens[i])}

(* _role_index: the first token that is the role; 0: there is none.         *)
RoleIndex(tokens) ==
    LET found == {i \in DOMAIN tokens : tokens[i] = Role}
    IN  IF found = {} THEN 0 ELSE CHOOSE i \in found : \A j \in found : i <= j

(* Mutant of Primary: one column too far. *)
BuggyPrimary == 1 .. 4

(* Columns in which a MAC may be the user's: of a table without a role      *)
(* column, and at all.                                                      *)
Primary  == 1 .. 3
Identity == 1 .. 4

(* _target_mac_from_tokens: the candidates are looked at in four groups;    *)
(* the first that is not empty decides.                                     *)
Groups(tokens) ==
    LET macs   == Candidates(tokens)
        before == {i \in macs : i < RoleIndex(tokens)}
    IN  <<before \intersect Identity, before, macs \intersect Primary, macs \intersect Identity>>

DecidingGroup(tokens) ==
    LET full == {k \in 1 .. 4 : Groups(tokens)[k] # {}}
    IN  IF full = {} THEN {}
        ELSE Groups(tokens)[CHOOSE k \in full : \A j \in full : k <= j]

(* Mutant of TargetIndex: the last candidate is taken. *)
BuggyTargetIndex(tokens) ==
    LET group == Candidates(tokens)
    IN  IF group = {} THEN 0 ELSE CHOOSE i \in group : \A j \in group : j <= i

(* The position of the user's MAC; 0: none, or more than one.               *)
TargetIndex(tokens) ==
    LET group == DecidingGroup(tokens)
    IN  IF Cardinality(group) = 1 THEN CHOOSE i \in group : TRUE ELSE 0

(* What the parser takes for no role, wherever it stands.                   *)
NoRole == Numbers \union Addresses \union Titles

(* _probable_role_token: the token two columns right of the MAC, unless it  *)
(* can be no role.                                                          *)
ProbableRole(tokens, i) ==
    IF /\ i + 2 <= Len(tokens)
       /\ ~LooksLikeMac(tokens[i + 1])
       /\ ~LooksLikeMac(tokens[i + 2])
       /\ tokens[i + 2] \notin NoRole
    THEN tokens[i + 2]
    ELSE ""

(* _looks_like_device_mac_noise *)
DeviceNoise(tokens, i) == \E j \in i + 1 .. i + 3 : j <= Len(tokens) /\ tokens[j] \in Markers

HasAddress(tokens) == \E i \in 1 .. 6 : i <= Len(tokens) /\ tokens[i] \in Addresses

(* Mutant of RoleVerdict: a role anywhere in the line is looked for first. *)
BuggyRoleVerdict(tokens, i) ==
    IF RoleIndex(tokens) # 0 THEN "selected" ELSE "role_mismatch"

(* _row_matches_role: "selected", or why the line is ignored.               *)
RoleVerdict(tokens, i) ==
    CASE ProbableRole(tokens, i) = Role -> "selected"
      [] ProbableRole(tokens, i) \notin {Role, ""} -> "role_mismatch"
      [] ProbableRole(tokens, i) = "" ->
            IF RoleIndex(tokens) # 0 THEN "selected"
            ELSE IF i \notin Identity \/ ~HasAddress(tokens) THEN "role_not_found"
            ELSE IF DeviceNoise(tokens, i) THEN "device_mac_noise" ELSE "selected"

(* _type_column_spans: a cell of the line is the title "Type". *)
HasTypeCell(tokens) == \E i \in DOMAIN tokens : tokens[i] = "type"

(* A line with such a cell is taken for a header before _skip_reason is     *)
(* asked, which takes one that begins like the totals for a header too.     *)
SkipReason(tokens) ==
    IF HasTypeCell(tokens) \/ tokens[1] = "total" THEN "header_or_command"
    ELSE IF \A i \in DOMAIN tokens : tokens[i] \notin Users \union Radios THEN "no_mac_token"
    ELSE ""

Reasons == {"selected", "header_or_command", "no_mac_token", "no_single_mac", "role_mismatch",
            "role_not_found", "device_mac_noise", "duplicate_user_mac"}

Ignored(reason, mac) == [reason |-> reason, mac |-> mac]

(* Mutant of Decision: a MAC seen before is an entry again. *)
BuggyDecision(tokens) ==
    LET i == TargetIndex(tokens)
    IN  IF SkipReason(tokens) # "" THEN Ignored(SkipReason(tokens), NoMac)
        ELSE IF i = 0 THEN Ignored("no_single_mac", NoMac)
        ELSE [reason |-> RoleVerdict(tokens, i), mac |-> tokens[i]]

(* What becomes of a line, and the MAC that is concerned.                   *)
Decision(tokens) ==
    LET i == TargetIndex(tokens)
    IN  IF SkipReason(tokens) # "" THEN Ignored(SkipReason(tokens), NoMac)
        ELSE IF i = 0 THEN Ignored("no_single_mac", NoMac)
        ELSE IF RoleVerdict(tokens, i) # "selected" THEN Ignored(RoleVerdict(tokens, i), tokens[i])
        ELSE IF \E k \in DOMAIN entries : entries[k] = tokens[i]
             THEN Ignored("duplicate_user_mac", tokens[i])
        ELSE [reason |-> "selected", mac |-> tokens[i]]

(* parse_global_user_table_explained: one turn of its loop. *)
ReadLine(line) ==
    /\ Len(lines) < MaxLines
    /\ lines' = Append(lines, line)
    /\ LET d == Decision(line.tokens)
       IN  /\ decisions' = Append(decisions, d)
           /\ entries' = IF d.reason = "selected" THEN Append(entries, d.mac) ELSE entries

TableInit ==
    /\ lines = <<>>
    /\ decisions = <<>>
    /\ entries = <<>>

(* A table without a role column lists users of the role asked for.         *)
ReadUserLine ==
    \E layout \in Layouts, u \in Users, role \in UserRoles :
       \E name \in NamesOf(u), address \in Addresses, radio \in Radios :
          /\ layout = "no role" => role = Role
          /\ ReadLine(UserLine(layout, u, role, name, address, radio))

ReadOtherLine == \E b, c \in Radios : \E tokens \in OtherTokens(b, c) : ReadLine(OtherLine(tokens))

TableNext == ReadUserLine \/ ReadOtherLine

TableSpec == TableInit /\ [][TableNext]_tableVars

----------------------------------------------------------------------------
(* Properties *)

Selected(k) == decisions[k].reason = "selected"

(* The entries are the MACs of the lines that are selected, in their order, *)
(* and no MAC is an entry twice: the summary counts targets, commands and   *)
(* results by them.                                                         *)
EachMacOnce ==
    /\ DOMAIN decisions = DOMAIN lines
    /\ \A k \in DOMAIN decisions :
          /\ decisions[k].reason \in Reasons
          /\ Selected(k) => \A j \in DOMAIN decisions :
                                Selected(j) /\ decisions[j].mac = decisions[k].mac => j = k
    /\ \E at \in [DOMAIN entries -> {k \in DOMAIN decisions : Selected(k)}] :
          /\ \A i, j \in DOMAIN entries : i < j => at[i] < at[j]
          /\ \A k \in DOMAIN decisions : Selected(k) => \E i \in DOMAIN entries : at[i] = k
          /\ \A i \in DOMAIN entries : entries[i] = decisions[at[i]].mac

(* No BSSID and no MAC of an access point becomes a delete target, in any   *)
(* layout and whatever the user's name and address look like.               *)
NoRadioSelected == \A k \in DOMAIN entries : entries[k] \notin Radios

(* In a table whose role stands two columns right of the MAC, a user of     *)
(* another role with a name of one word is a target only if the role is     *)
(* called like what the parser takes for no role (parser.py:278-284); and   *)
(* if that is the word of a device, only if the user is called like the     *)
(* role asked for.                                                          *)
RoleColumnRespected ==
    \A k \in DOMAIN lines :
        /\ lines[k].layout \in {"ip first", "name first"} /\ Len(lines[k].name) = 1
        /\ lines[k].role # Role /\ Selected(k)
        => /\ lines[k].role \in NoRole
           /\ lines[k].role \in Markers => lines[k].name = <<Role>>

(* Every user of the role whose name is a word and whose address has less   *)
(* than twelve digits becomes a target, in every layout, also one who is    *)
(* called like the role.                                                    *)
PlainUsersFound ==
    \A k \in DOMAIN lines :
        lines[k].role = Role /\ lines[k].address = "ip" /\ lines[k].name \in {<<"kim">>, <<Role>>}
            => \E j \in DOMAIN entries : entries[j] = lines[k].user

(* The comment at the role check says that users of other roles are left    *)
(* alone if the device prints a broader table than it was asked for.        *)
OtherRolesIgnored ==
    \A k \in DOMAIN lines : lines[k].role # Role => ~Selected(k)
============================================================================
