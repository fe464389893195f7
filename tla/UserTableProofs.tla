-------------------------- MODULE UserTableProofs --------------------------
(***************************************************************************)
(* Proofs about the selection of delete targets: for any users and access  *)
(* points, in any answer made of the lines of UserTable.                   *)
(***************************************************************************)
EXTENDS UserTable, FiniteSetTheorems, SequenceTheorems, TLAPS

Tokens == Users \union Radios \union Words

(* What a user's line is made of, but for one BSSID. *)
Plain == Users \union Words

LEMMA MacsApart ==
    /\ \A u \in Users : u \notin Radios /\ u \notin Words
    /\ \A b \in Radios : b \notin Users /\ b \notin Words
BY TableConstants, MacsAreNoWords

----------------------------------------------------------------------------
(* Which candidate is the user's *)

Before(tokens) == {i \in Candidates(tokens) : i < RoleIndex(tokens)}

LEMMA LeastOf ==
    \A S \in SUBSET (1 .. 8) : S # {} => \E m \in S : \A j \in S : m <= j
<1> SUFFICES ASSUME NEW S \in SUBSET (1 .. 8), S # {} PROVE \E m \in S : \A j \in S : m <= j
  OBVIOUS
<1>1. CASE 1 \in S \/ 2 \in S \/ 3 \in S
  BY <1>1
<1>2. CASE {1, 2, 3} \intersect S = {} /\ (4 \in S \/ 5 \in S)
  BY <1>2
<1>3. CASE S \subseteq {6, 7, 8}
  <2>1. CASE 6 \in S
    BY <1>3, <2>1
  <2>2. CASE 6 \notin S /\ 7 \in S
    BY <1>3, <2>2
  <2>3. CASE S = {8}
    BY <2>3
  <2> QED BY <1>3, <2>1, <2>2, <2>3
<1>4. {1, 2, 3, 4, 5} \intersect S = {} => S \subseteq {6, 7, 8}
  OBVIOUS
<1> QED BY <1>1, <1>2, <1>3, <1>4

LEMMA ChosenLeast ==
    ASSUME NEW S \in SUBSET Nat, NEW m \in S, \A j \in S : m <= j
    PROVE  (CHOOSE k \in S : \A j \in S : k <= j) = m
<1> DEFINE c == CHOOSE k \in S : \A j \in S : k <= j
<1>1. c \in S /\ \A j \in S : c <= j
  OBVIOUS
<1> HIDE DEF c
<1>2. c = m
  BY <1>1
<1> QED BY <1>2 DEF c

(* _role_index is the first position of the role, if there is any. *)
LEMMA FirstRole ==
    ASSUME NEW tokens \in Seq(Tokens), Len(tokens) <= 8
    PROVE  \/ RoleIndex(tokens) = 0 /\ \A i \in 1 .. Len(tokens) : tokens[i] # Role
           \/ /\ RoleIndex(tokens) \in 1 .. Len(tokens) /\ tokens[RoleIndex(tokens)] = Role
              /\ \A i \in 1 .. Len(tokens) : tokens[i] = Role => RoleIndex(tokens) <= i
<1> DEFINE found == {i \in DOMAIN tokens : tokens[i] = Role}
<1>1. DOMAIN tokens = 1 .. Len(tokens) /\ Len(tokens) \in Nat
  BY LenProperties
<1>2. CASE found = {}
  BY <1>1, <1>2 DEF RoleIndex
<1>3. CASE found # {}
  <2>1. PICK m \in found : \A j \in found : m <= j
    BY <1>1, <1>3, LeastOf
  <2>2. RoleIndex(tokens) = m
    BY <1>1, <1>3, <2>1, ChosenLeast DEF RoleIndex
  <2> QED BY <1>1, <2>1, <2>2
<1> QED BY <1>2, <1>3

LEMMA RoleMissing ==
    ASSUME NEW tokens \in Seq(Tokens), Len(tokens) <= 8, \A i \in 1 .. Len(tokens) : tokens[i] # Role
    PROVE  RoleIndex(tokens) = 0
BY FirstRole

(* The role is at position k. *)
LEMMA RoleAt ==
    ASSUME NEW tokens \in Seq(Tokens), Len(tokens) <= 8, NEW k \in 1 .. Len(tokens),
           tokens[k] = Role
    PROVE  /\ RoleIndex(tokens) \in 1 .. k /\ tokens[RoleIndex(tokens)] = Role
BY FirstRole

(* The four groups in their order. *)
LEMMA FirstGroup ==
    ASSUME NEW tokens
    PROVE  LET macs == Candidates(tokens)
               before == Before(tokens)
           IN  /\ before \intersect Identity # {} => DecidingGroup(tokens) = before \intersect Identity
               /\ before \intersect Identity = {} /\ before # {} => DecidingGroup(tokens) = before
               /\ before = {} /\ macs \intersect Primary # {} =>
                     DecidingGroup(tokens) = macs \intersect Primary
               /\ before = {} /\ macs \intersect Primary = {} =>
                     DecidingGroup(tokens) = macs \intersect Identity
<1> DEFINE macs == Candidates(tokens)
           before == Before(tokens)
           G == Groups(tokens)
           full == {k \in 1 .. 4 : G[k] # {}}
<1>1. /\ G[1] = before \intersect Identity /\ G[2] = before
      /\ G[3] = macs \intersect Primary /\ G[4] = macs \intersect Identity
  BY DEF Groups, Before
<1>2. DecidingGroup(tokens) =
        IF full = {} THEN {} ELSE G[CHOOSE k \in full : \A j \in full : k <= j]
  BY DEF DecidingGroup
<1> HIDE DEF G, macs, before
<1>3. ASSUME NEW m \in 1 .. 4, G[m] # {}, \A j \in 1 .. 4 : j < m => G[j] = {}
      PROVE  DecidingGroup(tokens) = G[m]
  <2>1. m \in full /\ full \in SUBSET Nat /\ \A j \in full : m <= j
    BY <1>3
  <2>2. (CHOOSE k \in full : \A j \in full : k <= j) = m
    BY <2>1, ChosenLeast
  <2> QED BY <1>2, <2>1, <2>2
<1>4. before \intersect Identity # {} => DecidingGroup(tokens) = before \intersect Identity
  BY <1>1, <1>3
<1>5. before \intersect Identity = {} /\ before # {} => DecidingGroup(tokens) = before
  BY <1>1, <1>3
<1>6. before = {} /\ macs \intersect Primary # {} => DecidingGroup(tokens) = macs \intersect Primary
  BY <1>1, <1>3
<1>7. before = {} /\ macs \intersect Primary = {} => DecidingGroup(tokens) = macs \intersect Identity
  <2>1. CASE macs \intersect Identity # {}
    BY <1>1, <1>3, <2>1
  <2>2. ASSUME macs \intersect Identity = {}, before = {}, macs \intersect Primary = {}
        PROVE  DecidingGroup(tokens) = {}
    <3>1. full = {}
      BY <1>1, <2>2
    <3> QED BY <1>2, <3>1
  <2> QED BY <2>1, <2>2
<1> QED BY <1>4, <1>5, <1>6, <1>7 DEF macs, before

(* A target index is the one member of the group that decides. *)
LEMMA OneDecides ==
    ASSUME NEW tokens \in Seq(Tokens)
    PROVE  /\ DecidingGroup(tokens) \subseteq Candidates(tokens)
           /\ Candidates(tokens) \subseteq 1 .. Len(tokens)
           /\ TargetIndex(tokens) # 0 => DecidingGroup(tokens) = {TargetIndex(tokens)}
           /\ \A i : DecidingGroup(tokens) = {i} => TargetIndex(tokens) = i
<1>1. DOMAIN tokens = 1 .. Len(tokens) /\ Len(tokens) \in Nat
  BY LenProperties
<1>2. Candidates(tokens) \subseteq 1 .. Len(tokens)
  BY <1>1 DEF Candidates
<1>3. DecidingGroup(tokens) \subseteq Candidates(tokens)
  BY FirstGroup DEF Before
<1>4. IsFiniteSet(DecidingGroup(tokens))
  <2>1. IsFiniteSet(1 .. Len(tokens))
    BY <1>1, FS_Interval
  <2> QED BY <1>2, <1>3, <2>1, FS_Subset
<1>5. ASSUME TargetIndex(tokens) # 0 PROVE DecidingGroup(tokens) = {TargetIndex(tokens)}
  <2>1. /\ Cardinality(DecidingGroup(tokens)) = 1
        /\ TargetIndex(tokens) = CHOOSE i \in DecidingGroup(tokens) : TRUE
    BY <1>5 DEF TargetIndex
  <2>2. PICK x : DecidingGroup(tokens) = {x}
    BY <1>4, <2>1, FS_Singleton
  <2> QED BY <2>1, <2>2
<1>6. ASSUME NEW i, DecidingGroup(tokens) = {i} PROVE TargetIndex(tokens) = i
  <2>1. Cardinality(DecidingGroup(tokens)) = 1
    BY <1>6, FS_Singleton
  <2> QED BY <1>6, <2>1 DEF TargetIndex
<1> QED BY <1>2, <1>3, <1>5, <1>6

----------------------------------------------------------------------------
(* A user's line: the user's MAC at p, the access point's at r, right of    *)
(* it and of the role.                                                      *)

Shape(tokens, p, r) ==
    /\ tokens \in Seq(Tokens) /\ Len(tokens) <= 8
    /\ r \in 1 .. Len(tokens) /\ p \in 1 .. r - 1
    /\ p \in Identity /\ (r \in Identity => p \in Primary)
    /\ LooksLikeMac(tokens[p])
    /\ \A i \in 1 .. Len(tokens) : (i # r => tokens[i] \in Plain) /\ (tokens[i] = Role => i < r)

LEMMA ShapeIsSafe ==
    ASSUME NEW tokens, NEW p, NEW r, Shape(tokens, p, r)
    PROVE  TargetIndex(tokens) # 0 => tokens[TargetIndex(tokens)] \in Plain
<1> DEFINE macs == Candidates(tokens)
           group == DecidingGroup(tokens)
<1>1. /\ tokens \in Seq(Tokens) /\ DOMAIN tokens = 1 .. Len(tokens) /\ Len(tokens) \in Nat
      /\ p \in macs /\ p # r /\ p \in Identity
  BY LenProperties DEF Shape, Candidates
<1>2. r \notin Before(tokens)
  <2>1. RoleIndex(tokens) \in Nat /\ RoleIndex(tokens) < r
    BY <1>1, FirstRole DEF Shape
  <2>2. r \in Nat
    BY <1>1 DEF Shape
  <2> QED BY <2>1, <2>2 DEF Before
<1>3. r \in group => p \in group
  <2>1. CASE Before(tokens) # {}
    BY <1>2, <2>1, FirstGroup
  <2>2. CASE Before(tokens) = {} /\ macs \intersect Primary # {}
    <3>1. group = macs \intersect Primary
      BY <2>2, FirstGroup
    <3>2. r \in Primary => p \in Primary
      BY DEF Shape, Primary
    <3> QED BY <1>1, <3>1, <3>2
  <2>3. CASE Before(tokens) = {} /\ macs \intersect Primary = {}
    <3>1. group = macs \intersect Identity
      BY <2>3, FirstGroup
    <3> QED BY <1>1, <3>1
  <2> QED BY <2>1, <2>2, <2>3
<1>4. SUFFICES ASSUME TargetIndex(tokens) # 0 PROVE tokens[TargetIndex(tokens)] \in Plain
  OBVIOUS
<1>5. group = {TargetIndex(tokens)} /\ TargetIndex(tokens) \in 1 .. Len(tokens)
  BY <1>1, <1>4, OneDecides
<1>6. TargetIndex(tokens) # r
  BY <1>1, <1>3, <1>5
<1> QED BY <1>5, <1>6 DEF Shape

(* The columns of a line whose name stands in the middle. *)
LEMMA Joined ==
    ASSUME NEW T, NEW s \in Seq(T), NEW n \in Seq(T), NEW e \in Seq(T)
    PROVE  /\ s \o n \o e \in Seq(T) /\ n \o e \in Seq(T)
           /\ Len(s) \in Nat /\ Len(n) \in Nat /\ Len(e) \in Nat
           /\ Len(s \o n \o e) = Len(s) + Len(n) + Len(e) /\ Len(n \o e) = Len(n) + Len(e)
           /\ \A i \in 1 .. Len(s) + Len(n) + Len(e) :
                 (s \o n \o e)[i] = IF i <= Len(s) THEN s[i]
                                    ELSE IF i <= Len(s) + Len(n) THEN n[i - Len(s)]
                                    ELSE e[i - (Len(s) + Len(n))]
           /\ \A i \in 1 .. Len(n) + Len(e) :
                 (n \o e)[i] = IF i <= Len(n) THEN n[i] ELSE e[i - Len(n)]
<1>1. Len(s) \in Nat /\ Len(n) \in Nat /\ Len(e) \in Nat
  BY LenProperties
<1>2. n \o e \in Seq(T) /\ Len(n \o e) = Len(n) + Len(e)
      /\ \A i \in 1 .. Len(n) + Len(e) : (n \o e)[i] = IF i <= Len(n) THEN n[i] ELSE e[i - Len(n)]
  BY ConcatProperties
<1>3. s \o n \in Seq(T) /\ Len(s \o n) = Len(s) + Len(n)
      /\ \A i \in 1 .. Len(s) + Len(n) : (s \o n)[i] = IF i <= Len(s) THEN s[i] ELSE n[i - Len(s)]
  BY ConcatProperties
<1>4. /\ s \o n \o e \in Seq(T) /\ Len(s \o n \o e) = Len(s \o n) + Len(e)
      /\ \A i \in 1 .. Len(s \o n) + Len(e) :
            (s \o n \o e)[i] = IF i <= Len(s \o n) THEN (s \o n)[i] ELSE e[i - Len(s \o n)]
  BY <1>3, ConcatProperties
<1> QED BY <1>1, <1>2, <1>3, <1>4

LEMMA AfterName ==
    ASSUME NEW T, NEW n \in Seq(T), NEW e \in Seq(T), NEW i \in 1 .. Len(e)
    PROVE  (n \o e)[Len(n) + i] = e[i]
<1>1. Len(n) \in Nat /\ Len(e) \in Nat
  BY LenProperties
<1>2. Len(n) + i \in 1 .. Len(n) + Len(e) /\ ~(Len(n) + i <= Len(n)) /\ Len(n) + i - Len(n) = i
  BY <1>1
<1> QED BY <1>2, Joined

LEMMA NameWords ==
    ASSUME NEW u \in Users, NEW name \in NamesOf(u)
    PROVE  /\ name \in Seq(Tokens) /\ Len(name) \in 0 .. 2
           /\ \A i \in 1 .. Len(name) : name[i] \in Plain
<1>1. u \in Plain /\ u \in Tokens /\ Words \subseteq Tokens /\ Words \subseteq Plain
      /\ {"kim", "lee", Role, "total", "type"} \subseteq Words
  BY DEF Plain, Tokens, Words, Role
<1>2. CASE name = <<>>
  BY <1>2
<1>3. ASSUME NEW w \in Tokens, w \in Plain, name = <<w>>
      PROVE  name \in Seq(Tokens) /\ Len(name) \in 0 .. 2 /\ \A i \in 1 .. Len(name) : name[i] \in Plain
  BY <1>3
<1>4. CASE name = <<"kim", "lee">>
  BY <1>1, <1>4
<1> QED BY <1>1, <1>2, <1>3, <1>4 DEF NamesOf

LEMMA LineShape ==
    ASSUME NEW s \in Seq(Tokens), NEW name \in Seq(Tokens), NEW e \in Seq(Tokens),
           NEW j \in 1 .. Len(e), Len(s) + Len(name) + Len(e) <= 8,
           \A i \in 1 .. Len(s) : s[i] \in Plain,
           \A i \in 1 .. Len(name) : name[i] \in Plain,
           \A i \in 1 .. Len(e) : (i # j => e[i] \in Plain) /\ (e[i] = Role => i < j),
           NEW p \in 1 .. Len(s) + Len(name) + j - 1, p \in Identity,
           Len(s) + Len(name) + j \in Identity => p \in Primary,
           LooksLikeMac((s \o name \o e)[p])
    PROVE  Shape(s \o name \o e, p, Len(s) + Len(name) + j)
<1> DEFINE tokens == s \o name \o e
           k == Len(s)
           m == Len(name)
           l == Len(e)
           r == k + m + j
<1>1. /\ k \in Nat /\ m \in Nat /\ l \in Nat /\ tokens \in Seq(Tokens) /\ Len(tokens) = k + m + l
      /\ \A i \in 1 .. k + m + l : tokens[i] = IF i <= k THEN s[i]
                                               ELSE IF i <= k + m THEN name[i - k] ELSE e[i - (k + m)]
  BY Joined
<1> HIDE DEF tokens, k, m, l
<1>0. k \in Nat /\ m \in Nat /\ l \in Nat /\ Len(tokens) = k + m + l
  BY <1>1
<1>2. \A i \in 1 .. l : (i # j => e[i] \in Plain) /\ (e[i] = Role => i < j)
  BY DEF l
<1>3. j \in 1 .. l /\ k + m + l <= 8
  BY DEF k, m, l
<1>4. ASSUME NEW i \in 1 .. k + m + l
      PROVE  (i # r => tokens[i] \in Plain) /\ (tokens[i] = Role => i < r)
  <2>1. CASE i <= k
    <3>1. tokens[i] = s[i] /\ i \in 1 .. k
      BY <1>1, <2>1
    <3>2. i < r
      BY <1>1, <1>3, <2>1
    <3> QED BY <3>1, <3>2 DEF k
  <2>2. CASE k < i /\ i <= k + m
    <3>1. tokens[i] = name[i - k] /\ i - k \in 1 .. m
      BY <1>1, <2>2
    <3>2. i < r
      BY <1>1, <1>3, <2>2
    <3> QED BY <3>1, <3>2 DEF m
  <2>3. CASE k + m < i
    <3>0. ~(i <= k) /\ ~(i <= k + m) /\ i - (k + m) \in 1 .. l
      BY <1>0, <2>3
    <3>1. tokens[i] = e[i - (k + m)]
      BY <1>1, <3>0
    <3>2. (i # r => i - (k + m) # j) /\ (i - (k + m) < j => i < r)
      BY <1>1, <1>3
    <3> QED BY <1>2, <3>0, <3>1, <3>2
  <2> QED BY <1>1, <2>1, <2>2, <2>3
<1>5. r \in 1 .. Len(tokens) /\ p \in 1 .. r - 1
  <2>1. r \in 1 .. Len(tokens)
    BY <1>1, <1>3
  <2> QED BY <2>1 DEF k, m
<1>6. p \in Identity /\ (r \in Identity => p \in Primary) /\ LooksLikeMac(tokens[p])
  BY DEF k, m, tokens
<1>7. Shape(tokens, p, r)
  BY <1>1, <1>3, <1>4, <1>5, <1>6 DEF Shape
<1> QED BY <1>7 DEF tokens, k, m

LEMMA UserShape ==
    ASSUME NEW layout \in Layouts, NEW u \in Users, NEW role \in UserRoles,
           NEW name \in NamesOf(u), NEW address \in Addresses, NEW radio \in Radios
    PROVE  \E p, r : Shape(Columns(layout, u, role, name, address, radio), p, r)
<1>1. /\ name \in Seq(Tokens) /\ Len(name) \in 0 .. 2
      /\ \A i \in 1 .. Len(name) : name[i] \in Plain
  BY NameWords
<1>2. /\ u \in Plain /\ u \in Tokens /\ LooksLikeMac(u) /\ u # Role /\ radio \in Tokens /\ radio # Role
      /\ address \in Plain /\ address \in Tokens /\ address # Role
      /\ role \in Plain /\ role \in Tokens
      /\ \A w \in {"20", "12", "N/A", "ap-01"} : w \in Plain /\ w \in Tokens /\ w # Role
  BY MacsApart DEF Plain, Tokens, Words, Role, UserRoles, OtherRoles, Addresses, LooksLikeMac
<1>3. <<>> \in Seq(Tokens) /\ Len(<<>>) = 0 /\ <<>> \o name = name
  BY <1>1, ConcatEmptySeq
<1> DEFINE n == Len(name)
<1>4. CASE layout = "ip first"
  <2> DEFINE s == <<address, u>>
             e == <<role, "20", radio, "ap-01">>
  <2>1. /\ s \in Seq(Tokens) /\ Len(s) = 2 /\ s[1] = address /\ s[2] = u
        /\ e \in Seq(Tokens) /\ Len(e) = 4 /\ e[1] = role /\ e[2] = "20" /\ e[3] = radio /\ e[4] = "ap-01"
    BY <1>2
  <2>2. Columns(layout, u, role, name, address, radio) = s \o name \o e
    BY <1>4 DEF Columns
  <2> HIDE DEF s, e
  <2>3. (s \o name \o e)[2] = u
    BY <1>1, <2>1, Joined
  <2>4. \A i \in 1 .. Len(e) : (i # 3 => e[i] \in Plain) /\ (e[i] = Role => i < 3)
    BY <1>2, <2>1
  <2>5. /\ 2 \in 1 .. Len(s) + Len(name) + 3 - 1 /\ 2 \in Identity /\ 3 \in 1 .. Len(e)
        /\ Len(s) + Len(name) + 3 \in Identity => 2 \in Primary
        /\ Len(s) + Len(name) + Len(e) <= 8
    BY <1>1, <1>3, <2>1 DEF Identity, Primary
  <2>6. \A i \in 1 .. Len(s) : s[i] \in Plain
    BY <1>2, <1>3, <2>1
  <2>7. Shape(s \o name \o e, 2, Len(s) + Len(name) + 3)
    BY <1>1, <1>2, <1>3, <2>1, <2>3, <2>4, <2>5, <2>6, LineShape
  <2> QED BY <2>2, <2>7
<1>5. CASE layout = "name first"
  <2> DEFINE e == <<u, address, role, "N/A", radio, "ap-01">>
  <2>1. /\ e \in Seq(Tokens) /\ Len(e) = 6 /\ e[1] = u /\ e[2] = address /\ e[3] = role /\ e[4] = "N/A"
        /\ e[5] = radio /\ e[6] = "ap-01"
    BY <1>2
  <2>2. Columns(layout, u, role, name, address, radio) = <<>> \o name \o e
    BY <1>3, <1>5 DEF Columns
  <2> HIDE DEF e
  <2>3. (<<>> \o name \o e)[n + 1] = u
    <3>1. \A i \in 1 .. Len(e) : (name \o e)[Len(name) + i] = e[i]
      <4>1. name \in Seq(Tokens) /\ e \in Seq(Tokens)
        BY <1>1, <2>1
      <4> QED BY <4>1, AfterName
    <3>2. 1 \in 1 .. Len(e)
      BY <2>1
    <3> QED BY <1>3, <2>1, <3>1, <3>2
  <2>4. \A i \in 1 .. Len(e) : (i # 5 => e[i] \in Plain) /\ (e[i] = Role => i < 5)
    BY <1>2, <2>1
  <2>5. /\ n + 1 \in 1 .. Len(<<>>) + Len(name) + 5 - 1 /\ n + 1 \in Identity /\ 5 \in 1 .. Len(e)
        /\ Len(<<>>) + Len(name) + 5 \in Identity => n + 1 \in Primary
        /\ Len(<<>>) + Len(name) + Len(e) <= 8
    BY <1>1, <1>3, <2>1 DEF Identity, Primary
  <2>6. \A i \in 1 .. Len(<<>>) : <<>>[i] \in Plain
    BY <1>2, <1>3, <2>1
  <2>7. Shape(<<>> \o name \o e, n + 1, Len(<<>>) + Len(name) + 5)
    BY <1>1, <1>2, <1>3, <2>1, <2>3, <2>4, <2>5, <2>6, LineShape
  <2> QED BY <2>2, <2>7
<1>6. CASE layout = "role after mac"
  <2> DEFINE e == <<address, u, role, "20", "ap-01", radio>>
  <2>1. /\ e \in Seq(Tokens) /\ Len(e) = 6 /\ e[1] = address /\ e[2] = u /\ e[3] = role /\ e[4] = "20"
        /\ e[5] = "ap-01" /\ e[6] = radio
    BY <1>2
  <2>2. Columns(layout, u, role, name, address, radio) = <<>> \o name \o e
    BY <1>3, <1>6 DEF Columns
  <2> HIDE DEF e
  <2>3. (<<>> \o name \o e)[n + 2] = u
    <3>1. \A i \in 1 .. Len(e) : (name \o e)[Len(name) + i] = e[i]
      <4>1. name \in Seq(Tokens) /\ e \in Seq(Tokens)
        BY <1>1, <2>1
      <4> QED BY <4>1, AfterName
    <3>2. 2 \in 1 .. Len(e)
      BY <2>1
    <3> QED BY <1>3, <2>1, <3>1, <3>2
  <2>4. \A i \in 1 .. Len(e) : (i # 6 => e[i] \in Plain) /\ (e[i] = Role => i < 6)
    BY <1>2, <2>1
  <2>5. /\ n + 2 \in 1 .. Len(<<>>) + Len(name) + 6 - 1 /\ n + 2 \in Identity /\ 6 \in 1 .. Len(e)
        /\ Len(<<>>) + Len(name) + 6 \in Identity => n + 2 \in Primary
        /\ Len(<<>>) + Len(name) + Len(e) <= 8
    BY <1>1, <1>3, <2>1 DEF Identity, Primary
  <2>6. \A i \in 1 .. Len(<<>>) : <<>>[i] \in Plain
    BY <1>2, <1>3, <2>1
  <2>7. Shape(<<>> \o name \o e, n + 2, Len(<<>>) + Len(name) + 6)
    BY <1>1, <1>2, <1>3, <2>1, <2>3, <2>4, <2>5, <2>6, LineShape
  <2> QED BY <2>2, <2>7
<1>7. CASE layout = "no role"
  <2> DEFINE e == <<address, u, radio, "ap-01", "12">>
  <2>1. /\ e \in Seq(Tokens) /\ Len(e) = 5 /\ e[1] = address /\ e[2] = u /\ e[3] = radio
        /\ e[4] = "ap-01" /\ e[5] = "12"
    BY <1>2
  <2>2. Columns(layout, u, role, name, address, radio) = <<>> \o name \o e
    BY <1>3, <1>7 DEF Columns
  <2> HIDE DEF e
  <2>3. (<<>> \o name \o e)[n + 2] = u
    <3>1. \A i \in 1 .. Len(e) : (name \o e)[Len(name) + i] = e[i]
      <4>1. name \in Seq(Tokens) /\ e \in Seq(Tokens)
        BY <1>1, <2>1
      <4> QED BY <4>1, AfterName
    <3>2. 2 \in 1 .. Len(e)
      BY <2>1
    <3> QED BY <1>3, <2>1, <3>1, <3>2
  <2>4. \A i \in 1 .. Len(e) : (i # 3 => e[i] \in Plain) /\ (e[i] = Role => i < 3)
    BY <1>2, <2>1
  <2>5. /\ n + 2 \in 1 .. Len(<<>>) + Len(name) + 3 - 1 /\ n + 2 \in Identity /\ 3 \in 1 .. Len(e)
        /\ Len(<<>>) + Len(name) + 3 \in Identity => n + 2 \in Primary
        /\ Len(<<>>) + Len(name) + Len(e) <= 8
    BY <1>1, <1>3, <2>1 DEF Identity, Primary
  <2>6. \A i \in 1 .. Len(<<>>) : <<>>[i] \in Plain
    BY <1>2, <1>3, <2>1
  <2>7. Shape(<<>> \o name \o e, n + 2, Len(<<>>) + Len(name) + 3)
    BY <1>1, <1>2, <1>3, <2>1, <2>3, <2>4, <2>5, <2>6, LineShape
  <2> QED BY <2>2, <2>7
<1> QED BY <1>4, <1>5, <1>6, <1>7 DEF Layouts

LEMMA OneOfFour == \A i \in 1 .. 4 : i = 1 \/ i = 2 \/ i = 3 \/ i = 4
OBVIOUS

LEMMA OneOfSeven == \A i \in 1 .. 7 : i = 1 \/ i = 2 \/ i = 3 \/ i = 4 \/ i = 5 \/ i = 6 \/ i = 7
OBVIOUS

(* What a line whose name is one word reads like. *)
Reads(t, layout, u, role, w, address, radio) ==
    /\ t \in Seq(Tokens)
    /\ layout = "ip first" =>
          /\ Len(t) = 7 /\ t[1] = address /\ t[2] = u /\ t[3] = w /\ t[4] = role
          /\ t[5] = "20" /\ t[6] = radio /\ t[7] = "ap-01"
    /\ layout = "name first" =>
          /\ Len(t) = 7 /\ t[1] = w /\ t[2] = u /\ t[3] = address /\ t[4] = role
          /\ t[5] = "N/A" /\ t[6] = radio /\ t[7] = "ap-01"
    /\ layout = "role after mac" =>
          /\ Len(t) = 7 /\ t[1] = w /\ t[2] = address /\ t[3] = u /\ t[4] = role
          /\ t[5] = "20" /\ t[6] = "ap-01" /\ t[7] = radio
    /\ layout = "no role" =>
          /\ Len(t) = 6 /\ t[1] = w /\ t[2] = address /\ t[3] = u /\ t[4] = radio
          /\ t[5] = "ap-01" /\ t[6] = "12"

LEMMA OneWordLine ==
    ASSUME NEW layout \in Layouts, NEW u \in Users, NEW role \in UserRoles, NEW w \in Plain,
           NEW address \in Addresses, NEW radio \in Radios,
           NEW t, t = Columns(layout, u, role, <<w>>, address, radio)
    PROVE  Reads(t, layout, u, role, w, address, radio)
<1>1. /\ u \in Tokens /\ radio \in Tokens /\ address \in Tokens /\ role \in Tokens /\ w \in Tokens
      /\ \A word \in {"20", "12", "N/A", "ap-01"} : word \in Tokens
  BY DEF Plain, Tokens, Words, UserRoles, OtherRoles, Role, Addresses
<1> DEFINE name == <<w>>
<1>2. name \in Seq(Tokens) /\ Len(name) = 1 /\ name[1] = w
  BY <1>1
<1>3. t = Columns(layout, u, role, name, address, radio)
  OBVIOUS
<1> HIDE DEF name
<1>4. ASSUME NEW e \in Seq(Tokens), t = name \o e
      PROVE  /\ t \in Seq(Tokens) /\ Len(t) = 1 + Len(e) /\ t[1] = w
             /\ \A i \in 1 .. Len(e) : t[i + 1] = e[i]
  <2>1. Len(e) \in Nat
    BY LenProperties
  <2>2. t[1] = w
    <3>1. \A i \in 1 .. Len(name) + Len(e) :
             (name \o e)[i] = IF i <= Len(name) THEN name[i] ELSE e[i - Len(name)]
      BY <1>2, ConcatProperties
    <3>2. 1 \in 1 .. Len(name) + Len(e) /\ 1 <= Len(name)
      BY <1>2, <2>1
    <3>3. (name \o e)[1] = name[1]
      BY <3>1, <3>2
    <3> QED BY <1>2, <1>4, <3>3
  <2>3. ASSUME NEW i \in 1 .. Len(e) PROVE t[i + 1] = e[i]
    <3>1. (name \o e)[Len(name) + i] = e[i]
      BY <1>2, AfterName
    <3>2. Len(name) + i = i + 1
      BY <1>2, <2>1
    <3> QED BY <1>4, <3>1, <3>2
  <2>4. t \in Seq(Tokens) /\ Len(t) = 1 + Len(e)
    <3>1. name \o e \in Seq(Tokens) /\ Len(name \o e) = Len(name) + Len(e)
      BY <1>2, ConcatProperties
    <3> QED BY <1>2, <1>4, <3>1
  <2> QED BY <2>2, <2>3, <2>4
<1>5. CASE layout = "ip first"
  <2> DEFINE s == <<address, u>>
             e == <<role, "20", radio, "ap-01">>
  <2>1. /\ s \in Seq(Tokens) /\ Len(s) = 2 /\ s[1] = address /\ s[2] = u
        /\ e \in Seq(Tokens) /\ Len(e) = 4 /\ e[1] = role /\ e[2] = "20" /\ e[3] = radio /\ e[4] = "ap-01"
    BY <1>1
  <2>2. t = s \o name \o e
    BY <1>3, <1>5 DEF Columns
  <2> HIDE DEF s, e
  <2>3. /\ t \in Seq(Tokens) /\ Len(t) = Len(s) + Len(name) + Len(e)
        /\ \A i \in 1 .. Len(s) + Len(name) + Len(e) :
              t[i] = IF i <= Len(s) THEN s[i]
                     ELSE IF i <= Len(s) + Len(name) THEN name[i - Len(s)]
                     ELSE e[i - (Len(s) + Len(name))]
    <3>1. s \in Seq(Tokens) /\ name \in Seq(Tokens) /\ e \in Seq(Tokens)
      BY <1>2, <2>1
    <3>2. /\ s \o name \o e \in Seq(Tokens) /\ Len(s \o name \o e) = Len(s) + Len(name) + Len(e)
          /\ \A i \in 1 .. Len(s) + Len(name) + Len(e) :
                (s \o name \o e)[i] = IF i <= Len(s) THEN s[i]
                                      ELSE IF i <= Len(s) + Len(name) THEN name[i - Len(s)]
                                      ELSE e[i - (Len(s) + Len(name))]
      BY <3>1, Joined
    <3> QED BY <2>2, <3>2
  <2>4. Len(t) = 7 /\ \A i \in 1 .. 7 : t[i] = IF i <= 2 THEN s[i] ELSE IF i <= 3 THEN name[i - 2] ELSE e[i - 3]
    BY <1>2, <2>1, <2>3
  <2>5. t[1] = address /\ t[2] = u /\ t[3] = w
    BY <1>2, <2>1, <2>4
  <2>6. t[4] = role /\ t[5] = "20" /\ t[6] = radio /\ t[7] = "ap-01"
    BY <2>1, <2>4
  <2> QED BY <1>5, <2>3, <2>4, <2>5, <2>6 DEF Reads
<1>6. CASE layout = "name first"
  <2> DEFINE e == <<u, address, role, "N/A", radio, "ap-01">>
  <2>1. /\ e \in Seq(Tokens) /\ Len(e) = 6 /\ e[1] = u /\ e[2] = address /\ e[3] = role /\ e[4] = "N/A"
        /\ e[5] = radio /\ e[6] = "ap-01"
    BY <1>1
  <2>2. t = name \o e
    BY <1>3, <1>6 DEF Columns
  <2> HIDE DEF e
  <2>3. t \in Seq(Tokens) /\ Len(t) = 1 + Len(e) /\ t[1] = w /\ \A i \in 1 .. Len(e) : t[i + 1] = e[i]
    BY <1>4, <2>1, <2>2
  <2>4. Len(t) = 7 /\ t[1] = w /\ \A i \in 1 .. 6 : t[i + 1] = e[i]
    BY <2>1, <2>3
  <2>5. t[2] = u /\ t[3] = address /\ t[4] = role /\ t[5] = "N/A" /\ t[6] = radio /\ t[7] = "ap-01"
    BY <2>1, <2>4
  <2> QED BY <1>6, <2>3, <2>4, <2>5 DEF Reads
<1>7. CASE layout = "role after mac"
  <2> DEFINE e == <<address, u, role, "20", "ap-01", radio>>
  <2>1. /\ e \in Seq(Tokens) /\ Len(e) = 6 /\ e[1] = address /\ e[2] = u /\ e[3] = role /\ e[4] = "20"
        /\ e[5] = "ap-01" /\ e[6] = radio
    BY <1>1
  <2>2. t = name \o e
    BY <1>3, <1>7 DEF Columns
  <2> HIDE DEF e
  <2>3. t \in Seq(Tokens) /\ Len(t) = 1 + Len(e) /\ t[1] = w /\ \A i \in 1 .. Len(e) : t[i + 1] = e[i]
    BY <1>4, <2>1, <2>2
  <2>4. Len(t) = 7 /\ t[1] = w /\ \A i \in 1 .. 6 : t[i + 1] = e[i]
    BY <2>1, <2>3
  <2>5. t[2] = address /\ t[3] = u /\ t[4] = role /\ t[5] = "20" /\ t[6] = "ap-01" /\ t[7] = radio
    BY <2>1, <2>4
  <2> QED BY <1>7, <2>3, <2>4, <2>5 DEF Reads
<1>8. CASE layout = "no role"
  <2> DEFINE e == <<address, u, radio, "ap-01", "12">>
  <2>1. /\ e \in Seq(Tokens) /\ Len(e) = 5 /\ e[1] = address /\ e[2] = u /\ e[3] = radio
        /\ e[4] = "ap-01" /\ e[5] = "12"
    BY <1>1
  <2>2. t = name \o e
    BY <1>3, <1>8 DEF Columns
  <2> HIDE DEF e
  <2>3. t \in Seq(Tokens) /\ Len(t) = 1 + Len(e) /\ t[1] = w /\ \A i \in 1 .. Len(e) : t[i + 1] = e[i]
    BY <1>4, <2>1, <2>2
  <2>4. Len(t) = 6 /\ t[1] = w /\ \A i \in 1 .. 5 : t[i + 1] = e[i]
    BY <2>1, <2>3
  <2>5. t[2] = address /\ t[3] = u /\ t[4] = radio /\ t[5] = "ap-01" /\ t[6] = "12"
    BY <2>1, <2>4
  <2> QED BY <1>8, <2>3, <2>4, <2>5 DEF Reads
<1> QED BY <1>5, <1>6, <1>7, <1>8 DEF Layouts

----------------------------------------------------------------------------
(* What a decision says *)

LEMMA Verdicts ==
    ASSUME NEW tokens, NEW i
    PROVE  LET role == ProbableRole(tokens, i)
           IN  /\ RoleVerdict(tokens, i) \in
                     {"selected", "role_mismatch", "role_not_found", "device_mac_noise"}
               /\ role = Role => RoleVerdict(tokens, i) = "selected"
               /\ role \notin {Role, ""} => RoleVerdict(tokens, i) = "role_mismatch"
               /\ role = "" =>
                     RoleVerdict(tokens, i) =
                        IF RoleIndex(tokens) # 0 THEN "selected"
                        ELSE IF i \notin Identity \/ ~HasAddress(tokens) THEN "role_not_found"
                        ELSE IF DeviceNoise(tokens, i) THEN "device_mac_noise" ELSE "selected"
<1> DEFINE role == ProbableRole(tokens, i)
<1>1. RoleVerdict(tokens, i) =
        CASE role = Role -> "selected"
          [] role \notin {Role, ""} -> "role_mismatch"
          [] role = "" ->
                IF RoleIndex(tokens) # 0 THEN "selected"
                ELSE IF i \notin Identity \/ ~HasAddress(tokens) THEN "role_not_found"
                ELSE IF DeviceNoise(tokens, i) THEN "device_mac_noise" ELSE "selected"
  BY DEF RoleVerdict
<1> HIDE DEF role
<1>2. Role # ""
  BY DEF Role
<1>3. CASE role = Role
  BY <1>1, <1>2, <1>3 DEF role
<1>4. CASE role = ""
  BY <1>1, <1>2, <1>4 DEF role
<1>5. CASE role \notin {Role, ""}
  BY <1>1, <1>5 DEF role
<1> QED BY <1>3, <1>4, <1>5

LEMMA Decisions ==
    ASSUME NEW tokens \in Seq(Tokens)
    PROVE  LET i == TargetIndex(tokens)
               d == Decision(tokens)
           IN  /\ d \in [reason : Reasons, mac : Tokens \union {NoMac}]
               /\ d.reason = "selected" <=>
                     /\ SkipReason(tokens) = "" /\ i # 0 /\ RoleVerdict(tokens, i) = "selected"
                     /\ \A k \in DOMAIN entries : entries[k] # tokens[i]
               /\ d.reason = "selected" => d.mac = tokens[i] /\ d.mac \in Tokens
<1> DEFINE i == TargetIndex(tokens)
           d == Decision(tokens)
           v == RoleVerdict(tokens, i)
           skip == SkipReason(tokens)
<1>1. v \in {"selected", "role_mismatch", "role_not_found", "device_mac_noise"}
  BY Verdicts
<1>2. skip \in {"", "header_or_command", "no_mac_token"}
  BY DEF SkipReason, HasTypeCell
<1>3. i # 0 => tokens[i] \in Tokens
  <2>1. i # 0 => i \in 1 .. Len(tokens)
    BY OneDecides
  <2>2. \A k \in 1 .. Len(tokens) : tokens[k] \in Tokens
    BY ElementOfSeq
  <2> QED BY <2>1, <2>2
<1>4. d = IF skip # "" THEN Ignored(skip, NoMac)
          ELSE IF i = 0 THEN Ignored("no_single_mac", NoMac)
          ELSE IF v # "selected" THEN Ignored(v, tokens[i])
          ELSE IF \E k \in DOMAIN entries : entries[k] = tokens[i]
               THEN Ignored("duplicate_user_mac", tokens[i])
          ELSE [reason |-> "selected", mac |-> tokens[i]]
  BY DEF Decision
<1> DEFINE Good == /\ d \in [reason : Reasons, mac : Tokens \union {NoMac}]
                   /\ d.reason = "selected" <=>
                         /\ skip = "" /\ i # 0 /\ v = "selected"
                         /\ \A k \in DOMAIN entries : entries[k] # tokens[i]
                   /\ d.reason = "selected" => d.mac = tokens[i] /\ d.mac \in Tokens
<1> SUFFICES Good
  OBVIOUS
<1> HIDE DEF i, d, v, skip
<1>5. CASE skip # ""
  BY <1>2, <1>4, <1>5 DEF Ignored, Reasons
<1>6. CASE skip = "" /\ i = 0
  BY <1>4, <1>6 DEF Ignored, Reasons
<1>7. CASE skip = "" /\ i # 0 /\ v # "selected"
  BY <1>1, <1>3, <1>4, <1>7 DEF Ignored, Reasons
<1>8. CASE skip = "" /\ i # 0 /\ v = "selected" /\ \E k \in DOMAIN entries : entries[k] = tokens[i]
  BY <1>3, <1>4, <1>8 DEF Ignored, Reasons
<1>9. CASE skip = "" /\ i # 0 /\ v = "selected" /\ ~ \E k \in DOMAIN entries : entries[k] = tokens[i]
  BY <1>3, <1>4, <1>9 DEF Ignored, Reasons
<1> QED BY <1>5, <1>6, <1>7, <1>8, <1>9

(* The lines of no user are not selected. *)
LEMMA OthersIgnored ==
    ASSUME NEW b \in Radios, NEW c \in Radios, NEW tokens \in OtherTokens(b, c)
    PROVE  tokens \in Seq(Tokens) /\ Decision(tokens).reason # "selected"
<1>1. /\ b \in Tokens /\ c \in Tokens /\ b # Role /\ c # Role /\ LooksLikeMac(b) /\ LooksLikeMac(c)
      /\ \A w \in {"total", "20", "prompt", "ap-01", "ip", "radio", "uplink", "monitor"} :
            w \in Tokens /\ w # Role /\ w # "type" /\ ~LooksLikeMac(w) /\ w \notin Users \union Radios
  BY MacsApart DEF Tokens, Words, Role, LooksLikeMac
<1>2. CASE tokens = <<"total", "20">>
  <2>1. tokens \in Seq(Tokens) /\ tokens[1] = "total"
    BY <1>1, <1>2
  <2>2. SkipReason(tokens) # ""
    BY <2>1 DEF SkipReason, HasTypeCell
  <2> QED BY <2>1, <2>2, Decisions
<1>3. CASE tokens = <<"prompt">>
  <2>1. tokens \in Seq(Tokens) /\ tokens[1] = "prompt" /\ DOMAIN tokens = 1 .. 1
    BY <1>1, <1>3
  <2>2. SkipReason(tokens) = "no_mac_token"
    BY <1>1, <2>1 DEF SkipReason, HasTypeCell
  <2> QED BY <2>1, <2>2, Decisions
<1>4. ASSUME tokens \in Seq(Tokens), Len(tokens) = 4, tokens[1] = "ap-01", tokens[2] \in {"ip", "uplink"},
             tokens[3] = b, tokens[4] = "radio"
      PROVE  Decision(tokens).reason # "selected"
  <2> DEFINE i == TargetIndex(tokens)
  <2>1. DOMAIN tokens = 1 .. 4
    BY <1>4, LenProperties
  <2>2. Candidates(tokens) = {3}
    BY <1>1, <1>4, <2>1 DEF Candidates
  <2>3. i # 0 => i = 3
    BY <1>4, <2>2, OneDecides
  <2>4. RoleIndex(tokens) = 0
    <3>1. \A k \in 1 .. 4 : tokens[k] # Role
      BY <1>1, <1>4
    <3>2. tokens \in Seq(Tokens) /\ Len(tokens) <= 8 /\ \A k \in 1 .. Len(tokens) : tokens[k] # Role
      BY <1>4, <3>1
    <3> QED BY <3>2, RoleMissing
  <2>5. ProbableRole(tokens, 3) = ""
    BY <1>4 DEF ProbableRole
  <2>6. DeviceNoise(tokens, 3)
    BY <1>4 DEF DeviceNoise, Markers
  <2>7. RoleVerdict(tokens, 3) # "selected"
    BY <2>4, <2>5, <2>6, Verdicts
  <2> QED BY <1>4, <2>3, <2>7, Decisions
<1>5. CASE tokens \in {<<"ap-01", "ip", b, "radio">>, <<"ap-01", "uplink", b, "radio">>}
  <2>1. /\ tokens \in Seq(Tokens) /\ Len(tokens) = 4 /\ tokens[1] = "ap-01"
        /\ tokens[2] \in {"ip", "uplink"} /\ tokens[3] = b /\ tokens[4] = "radio"
    <3>1. CASE tokens = <<"ap-01", "ip", b, "radio">>
      BY <1>1, <3>1
    <3>2. CASE tokens = <<"ap-01", "uplink", b, "radio">>
      BY <1>1, <3>2
    <3> QED BY <1>5, <3>1, <3>2
  <2> QED BY <1>4, <2>1
<1>6. CASE tokens = <<"ap-01", "uplink", b, "radio", "monitor", c, "ap-01">>
  <2> DEFINE i == TargetIndex(tokens)
  <2>1. /\ tokens \in Seq(Tokens) /\ Len(tokens) = 7 /\ DOMAIN tokens = 1 .. 7
        /\ tokens[1] = "ap-01" /\ tokens[2] = "uplink" /\ tokens[3] = b /\ tokens[4] = "radio"
        /\ tokens[5] = "monitor" /\ tokens[6] = c /\ tokens[7] = "ap-01"
    BY <1>1, <1>6
  <2>2. Candidates(tokens) = {3, 6}
    BY <1>1, <2>1 DEF Candidates
  <2>3. i # 0 => i \in {3, 6}
    BY <2>1, <2>2, OneDecides
  <2>4. RoleIndex(tokens) = 0
    <3>1. \A k \in 1 .. 7 : tokens[k] # Role
      BY <1>1, <2>1
    <3>2. tokens \in Seq(Tokens) /\ Len(tokens) <= 8 /\ \A k \in 1 .. Len(tokens) : tokens[k] # Role
      BY <2>1, <3>1
    <3> QED BY <3>2, RoleMissing
  <2>5. ProbableRole(tokens, 3) = "monitor"
    BY <1>1, <2>1 DEF ProbableRole, NoRole, Numbers, Addresses, Titles
  <2>6. RoleVerdict(tokens, 3) # "selected"
    <3>1. "monitor" \notin {Role, ""}
      BY DEF Role
    <3> QED BY <2>5, <3>1, Verdicts
  <2>7. ProbableRole(tokens, 6) = ""
    BY <2>1 DEF ProbableRole
  <2>8. RoleVerdict(tokens, 6) # "selected"
    <3>1. 6 \notin Identity
      BY DEF Identity
    <3> QED BY <2>4, <2>7, <3>1, Verdicts
  <2> QED BY <2>1, <2>3, <2>6, <2>8, Decisions
<1> QED BY <1>2, <1>3, <1>5, <1>6 DEF OtherTokens

(* The only candidate of a group that decides is the target. *)
LEMMA TargetIs ==
    ASSUME NEW tokens \in Seq(Tokens), NEW i, i \in DecidingGroup(tokens), TargetIndex(tokens) # 0
    PROVE  TargetIndex(tokens) = i
BY OneDecides

(* The MAC stands in the second column, the asked role is read only beside  *)
(* it: if the line has a target at all, it is that MAC.                     *)
LEMMA SecondIsTarget ==
    ASSUME NEW tokens \in Seq(Tokens), Len(tokens) = 7, tokens[2] \in Users,
           \A i \in 1 .. 7 : tokens[i] = Role => i = 1 \/ i = 3, TargetIndex(tokens) # 0
    PROVE  TargetIndex(tokens) = 2 /\ ~LooksLikeMac(tokens[3])
<1>1. RoleIndex(tokens) \in {0, 1, 3} /\ (RoleIndex(tokens) = 3 => tokens[3] = Role)
  <2>1. Len(tokens) <= 8
    OBVIOUS
  <2>2. \/ RoleIndex(tokens) = 0
        \/ RoleIndex(tokens) \in 1 .. 7 /\ tokens[RoleIndex(tokens)] = Role
    BY <2>1, FirstRole
  <2> QED BY <2>2
<1>2. DOMAIN tokens = 1 .. 7
  BY LenProperties
<1>3. 2 \in Candidates(tokens) /\ (LooksLikeMac(tokens[3]) => 3 \in Candidates(tokens))
  BY <1>2 DEF Candidates, LooksLikeMac
<1>4. ~LooksLikeMac(Role)
  BY MacsApart DEF LooksLikeMac, Role, Words
<1>5. TargetIndex(tokens) = 2 /\ ~LooksLikeMac(tokens[3])
  <2>1. CASE RoleIndex(tokens) = 3
    <3>1. 2 \in Before(tokens) \intersect Identity
      BY <1>3, <2>1 DEF Before, Identity
    <3>2. DecidingGroup(tokens) = Before(tokens) \intersect Identity
      BY <3>1, FirstGroup
    <3> QED BY <1>1, <1>4, <2>1, <3>1, <3>2, TargetIs
  <2>2. CASE RoleIndex(tokens) \in {0, 1}
    <3>1. Candidates(tokens) \subseteq 1 .. 7
      BY <1>2 DEF Candidates
    <3>2. Before(tokens) = {}
      BY <2>2, <3>1 DEF Before
    <3>3. 2 \in Candidates(tokens) \intersect Primary
          /\ (LooksLikeMac(tokens[3]) => 3 \in Candidates(tokens) \intersect Primary)
      BY <1>3 DEF Primary
    <3>4. DecidingGroup(tokens) = Candidates(tokens) \intersect Primary
      BY <3>2, <3>3, FirstGroup
    <3>5. TargetIndex(tokens) = 2
      BY <3>3, <3>4, TargetIs
    <3>6. LooksLikeMac(tokens[3]) => TargetIndex(tokens) = 3
      BY <3>3, <3>4, TargetIs
    <3> QED BY <3>5, <3>6
  <2> QED BY <1>1, <2>1, <2>2
<1> QED BY <1>5

(* A role two columns right of the MAC that can be one decides. *)
LEMMA GuestColumn ==
    ASSUME NEW tokens \in Seq(Tokens), Len(tokens) = 7, tokens[4] = "guest", ~LooksLikeMac(tokens[3])
    PROVE  RoleVerdict(tokens, 2) # "selected"
<1>1. ~LooksLikeMac("guest") /\ "guest" \notin {Role, ""} /\ "guest" \notin NoRole
  BY MacsApart DEF LooksLikeMac, Words, Role, NoRole, Numbers, Addresses, Titles
<1>2. 2 + 2 <= Len(tokens) /\ tokens[2 + 1] = tokens[3] /\ tokens[2 + 2] = "guest"
  OBVIOUS
<1>3. ProbableRole(tokens, 2) = "guest"
  BY <1>1, <1>2 DEF ProbableRole
<1>4. RoleVerdict(tokens, 2) = "role_mismatch"
  BY <1>1, <1>3, Verdicts
<1> QED BY <1>4

(* A role called like an access point is read as the mark of a device. *)
LEMMA DeviceColumn ==
    ASSUME NEW tokens \in Seq(Tokens), Len(tokens) = 7, tokens[4] = "ap",
           \A i \in 1 .. 7 : tokens[i] # Role
    PROVE  RoleVerdict(tokens, 2) # "selected"
<1>1. RoleIndex(tokens) = 0
  <2>1. Len(tokens) <= 8 /\ \A i \in 1 .. Len(tokens) : tokens[i] # Role
    OBVIOUS
  <2> QED BY <2>1, RoleMissing
<1>2. ProbableRole(tokens, 2) = ""
  <2>1. tokens[2 + 2] \in NoRole
    BY DEF NoRole, Titles
  <2> QED BY <2>1 DEF ProbableRole
<1>3. DeviceNoise(tokens, 2)
  <2>1. 4 \in 2 + 1 .. 2 + 3 /\ 4 <= Len(tokens) /\ tokens[4] \in Markers
    BY DEF Markers
  <2> QED BY <2>1 DEF DeviceNoise
<1>4. RoleVerdict(tokens, 2) \in {"role_not_found", "device_mac_noise"}
  BY <1>1, <1>2, <1>3, Verdicts
<1> QED BY <1>4

(* A user of another role beside a role column: no target, unless the role  *)
(* is called like what is taken for no role.                                *)
LEMMA OtherRoleIgnored ==
    ASSUME NEW layout \in {"ip first", "name first"}, NEW u \in Users, NEW role \in OtherRoles,
           NEW w \in Plain, NEW address \in Addresses, NEW radio \in Radios,
           role \notin NoRole \/ (role \in Markers /\ w # Role)
    PROVE  Decision(Columns(layout, u, role, <<w>>, address, radio)).reason # "selected"
<1>1. PICK t : t = Columns(layout, u, role, <<w>>, address, radio)
  OBVIOUS
<1>2. /\ t \in Seq(Tokens) /\ Len(t) = 7 /\ t[2] = u /\ t[4] = role
      /\ t[5] \in {"20", "N/A"} /\ t[6] = radio /\ t[7] = "ap-01"
      /\ (t[1] = address /\ t[3] = w) \/ (t[1] = w /\ t[3] = address)
  <2>1. layout \in Layouts /\ role \in UserRoles
    BY DEF Layouts, UserRoles
  <2>2. Reads(t, layout, u, role, w, address, radio)
    BY <1>1, <2>1, OneWordLine
  <2>3. CASE layout = "ip first"
    BY <2>2, <2>3 DEF Reads
  <2>4. CASE layout = "name first"
    BY <2>2, <2>4 DEF Reads
  <2> QED BY <2>3, <2>4
<1>3. /\ u # Role /\ radio # Role /\ "ap-01" # Role /\ "20" # Role /\ "N/A" # Role /\ role # Role
      /\ address # Role
  BY MacsApart DEF Role, Words, OtherRoles, Addresses
<1>4. ASSUME NEW i \in 1 .. 7, t[i] = Role PROVE (i = 1 \/ i = 3) /\ w = Role
  <2>1. i = 1 \/ i = 2 \/ i = 3 \/ i = 4 \/ i = 5 \/ i = 6 \/ i = 7
    BY OneOfSeven
  <2> QED BY <1>2, <1>3, <1>4, <2>1
<1>5. ASSUME TargetIndex(t) # 0 PROVE RoleVerdict(t, TargetIndex(t)) # "selected"
  <2>1. TargetIndex(t) = 2 /\ ~LooksLikeMac(t[3])
    BY <1>2, <1>4, <1>5, SecondIsTarget
  <2>2. CASE role \notin NoRole
    <3>1. role = "guest"
      BY <2>2 DEF OtherRoles, NoRole, Numbers, Addresses, Titles
    <3> QED BY <1>2, <2>1, <3>1, GuestColumn
  <2>3. CASE role \in Markers /\ w # Role
    <3>1. role = "ap"
      BY <2>3 DEF OtherRoles, Markers
    <3>2. \A i \in 1 .. 7 : t[i] # Role
      BY <1>4, <2>3
    <3> QED BY <1>2, <2>1, <3>1, <3>2, DeviceColumn
  <2> QED BY <2>2, <2>3
<1> QED BY <1>1, <1>2, <1>5, Decisions

(* A user of the role with a plain name and address is selected, unless the *)
(* MAC is an entry already.                                                 *)
LEMMA PlainFound ==
    ASSUME NEW layout \in Layouts, NEW u \in Users, NEW w \in {"kim", Role}, NEW radio \in Radios
    PROVE  LET d == Decision(Columns(layout, u, Role, <<w>>, "ip", radio))
           IN  \/ d.reason = "selected" /\ d.mac = u
               \/ \E k \in DOMAIN entries : entries[k] = u
<1>1. PICK t : t = Columns(layout, u, Role, <<w>>, "ip", radio)
  OBVIOUS
<1>2. /\ w \in Plain /\ "ip" \in Addresses /\ ~LooksLikeMac(w) /\ ~LooksLikeMac("ip")
      /\ LooksLikeMac(u) /\ LooksLikeMac(radio) /\ u # Role /\ radio # Role
      /\ ~LooksLikeMac(Role) /\ u # "total" /\ w # "total" /\ Role \notin NoRole
      /\ \A word \in {"ip", "20", "N/A", "ap-01", "12"} : word # Role /\ ~LooksLikeMac(word)
      /\ \A word \in {u, w, radio, Role, "ip", "20", "N/A", "ap-01", "12"} : word # "type"
  BY MacsApart DEF Plain, Words, Role, Addresses, Numbers, Titles, NoRole, LooksLikeMac
<1>3. Reads(t, layout, u, Role, w, "ip", radio) /\ t \in Seq(Tokens)
  <2>1. Role \in UserRoles
    BY DEF UserRoles
  <2>2. Reads(t, layout, u, Role, w, "ip", radio)
    BY <1>1, <1>2, <2>1, OneWordLine
  <2> QED BY <2>2 DEF Reads
<1>4. DOMAIN t = 1 .. Len(t)
  BY <1>3, LenProperties
<1>5. ASSUME NEW i \in {2, 3}, t[i] = u, i \in 1 .. Len(t), t[1] # "total",
             \A j \in 1 .. Len(t) : t[j] # "type",
             \A j \in 1 .. i : j # i => ~LooksLikeMac(t[j]),
             i < RoleIndex(t) \/ (Before(t) = {} /\ \A j \in 1 .. 3 : j \in 1 .. Len(t) /\ LooksLikeMac(t[j]) => j = i),
             \A j \in 1 .. Len(t) : j < RoleIndex(t) /\ LooksLikeMac(t[j]) => j = i,
             RoleVerdict(t, i) = "selected"
      PROVE  \/ Decision(t).reason = "selected" /\ Decision(t).mac = u
             \/ \E k \in DOMAIN entries : entries[k] = u
  <2>1. i \in Candidates(t)
    BY <1>2, <1>4, <1>5 DEF Candidates
  <2>2. DecidingGroup(t) = {i}
    <3>1. CASE i < RoleIndex(t)
      <4>1. Before(t) = {i}
        BY <1>4, <1>5, <2>1, <3>1 DEF Before, Candidates
      <4>2. i \in Identity
        BY DEF Identity
      <4>3. Before(t) \intersect Identity = {i}
        BY <4>1, <4>2
      <4> QED BY <4>3, FirstGroup
    <3>2. CASE Before(t) = {} /\ \A j \in 1 .. 3 : j \in 1 .. Len(t) /\ LooksLikeMac(t[j]) => j = i
      <4>1. Candidates(t) \intersect Primary = {i}
        BY <1>4, <2>1, <3>2 DEF Candidates, Primary
      <4> QED BY <3>2, <4>1, FirstGroup
    <3> QED BY <1>5, <3>1, <3>2
  <2>3. TargetIndex(t) = i
    BY <1>3, <2>2, OneDecides
  <2>4. SkipReason(t) = ""
    <3>1. t[i] \in Users \union Radios /\ i \in DOMAIN t
      BY <1>4, <1>5
    <3> QED BY <1>4, <1>5, <3>1 DEF SkipReason, HasTypeCell
  <2>5. i # 0
    OBVIOUS
  <2> QED BY <1>3, <1>5, <2>3, <2>4, <2>5, Decisions
<1>6. ASSUME Len(t) >= 4, t[4] = Role, Len(t) <= 8
      PROVE  RoleIndex(t) \in {1, 2, 3, 4} /\ t[RoleIndex(t)] = Role
  <2>1. 4 \in 1 .. Len(t)
    BY <1>3, <1>6, LenProperties
  <2>2. RoleIndex(t) \in 1 .. 4 /\ t[RoleIndex(t)] = Role
    BY <1>3, <1>6, <2>1, RoleAt
  <2> QED BY <2>2, OneOfFour
<1>7. CASE layout = "ip first"
  <2>1. /\ Len(t) = 7 /\ t[1] = "ip" /\ t[2] = u /\ t[3] = w /\ t[4] = Role
        /\ t[5] = "20" /\ t[6] = radio /\ t[7] = "ap-01"
    BY <1>3, <1>7 DEF Reads
  <2>2. RoleIndex(t) \in {3, 4}
    <3>1. RoleIndex(t) \in {1, 2, 3, 4} /\ t[RoleIndex(t)] = Role
      BY <1>6, <2>1
    <3> QED BY <1>2, <2>1, <3>1
  <2>3. ProbableRole(t, 2) = Role
    <3>1. 2 + 1 = 3 /\ 2 + 2 = 4
      OBVIOUS
    <3>2. 2 + 2 <= Len(t) /\ t[2 + 1] = w /\ t[2 + 2] = Role
      BY <2>1, <3>1
    <3> QED BY <1>2, <3>2 DEF ProbableRole
  <2>4. RoleVerdict(t, 2) = "selected"
    BY <2>3, Verdicts
  <2>5. \A j \in 1 .. 2 : j # 2 => ~LooksLikeMac(t[j])
    BY <1>2, <2>1
  <2>6. 2 < RoleIndex(t) \/ (Before(t) = {} /\ \A j \in 1 .. 3 : j \in 1 .. Len(t) /\ LooksLikeMac(t[j]) => j = 2)
    BY <2>2
  <2>7. \A j \in 1 .. Len(t) : j < RoleIndex(t) /\ LooksLikeMac(t[j]) => j = 2
    BY <1>2, <2>1, <2>2
  <2>8. 2 \in {2, 3} /\ t[2] = u /\ 2 \in 1 .. Len(t) /\ t[1] # "total"
        /\ \A j \in 1 .. Len(t) : t[j] # "type"
    BY <1>2, <2>1
  <2> QED BY <1>1, <1>5, <2>4, <2>5, <2>6, <2>7, <2>8
<1>8. CASE layout = "name first"
  <2>1. /\ Len(t) = 7 /\ t[1] = w /\ t[2] = u /\ t[3] = "ip" /\ t[4] = Role
        /\ t[5] = "N/A" /\ t[6] = radio /\ t[7] = "ap-01"
    BY <1>3, <1>8 DEF Reads
  <2>2. RoleIndex(t) \in {1, 4}
    <3>1. RoleIndex(t) \in {1, 2, 3, 4} /\ t[RoleIndex(t)] = Role
      BY <1>6, <2>1
    <3> QED BY <1>2, <2>1, <3>1
  <2>3. ProbableRole(t, 2) = Role
    <3>1. 2 + 1 = 3 /\ 2 + 2 = 4
      OBVIOUS
    <3>2. 2 + 2 <= Len(t) /\ t[2 + 1] = "ip" /\ t[2 + 2] = Role
      BY <2>1, <3>1
    <3> QED BY <1>2, <3>2 DEF ProbableRole
  <2>4. RoleVerdict(t, 2) = "selected"
    BY <2>3, Verdicts
  <2>5. \A j \in 1 .. 2 : j # 2 => ~LooksLikeMac(t[j])
    BY <1>2, <2>1
  <2>6. 2 < RoleIndex(t) \/ (Before(t) = {} /\ \A j \in 1 .. 3 : j \in 1 .. Len(t) /\ LooksLikeMac(t[j]) => j = 2)
    <3>1. CASE RoleIndex(t) = 4
      BY <3>1
    <3>2. CASE RoleIndex(t) = 1
      <4>1. Before(t) = {}
        BY <1>4, <2>1, <3>2 DEF Before, Candidates
      <4>2. \A j \in 1 .. 3 : LooksLikeMac(t[j]) => j = 2
        BY <1>2, <2>1
      <4> QED BY <4>1, <4>2
    <3> QED BY <2>2, <3>1, <3>2
  <2>7. \A j \in 1 .. Len(t) : j < RoleIndex(t) /\ LooksLikeMac(t[j]) => j = 2
    BY <1>2, <2>1, <2>2
  <2>8. 2 \in {2, 3} /\ t[2] = u /\ 2 \in 1 .. Len(t) /\ t[1] # "total"
        /\ \A j \in 1 .. Len(t) : t[j] # "type"
    BY <1>2, <2>1
  <2> QED BY <1>1, <1>5, <2>4, <2>5, <2>6, <2>7, <2>8
<1>9. CASE layout = "role after mac"
  <2>1. /\ Len(t) = 7 /\ t[1] = w /\ t[2] = "ip" /\ t[3] = u /\ t[4] = Role
        /\ t[5] = "20" /\ t[6] = "ap-01" /\ t[7] = radio
    BY <1>3, <1>9 DEF Reads
  <2>2. RoleIndex(t) \in {1, 4}
    <3>1. RoleIndex(t) \in {1, 2, 3, 4} /\ t[RoleIndex(t)] = Role
      BY <1>6, <2>1
    <3> QED BY <1>2, <2>1, <3>1
  <2>3. ProbableRole(t, 3) = ""
    <3>1. t[3 + 2] \in NoRole
      BY <2>1 DEF NoRole, Numbers
    <3> QED BY <3>1 DEF ProbableRole
  <2>4. RoleVerdict(t, 3) = "selected"
    <3>1. RoleIndex(t) # 0
      BY <2>2
    <3> QED BY <2>3, <3>1, Verdicts
  <2>5. \A j \in 1 .. 3 : j # 3 => ~LooksLikeMac(t[j])
    BY <1>2, <2>1
  <2>6. 3 < RoleIndex(t) \/ (Before(t) = {} /\ \A j \in 1 .. 3 : j \in 1 .. Len(t) /\ LooksLikeMac(t[j]) => j = 3)
    <3>1. CASE RoleIndex(t) = 4
      BY <3>1
    <3>2. CASE RoleIndex(t) = 1
      <4>1. Before(t) = {}
        BY <1>4, <2>1, <3>2 DEF Before, Candidates
      <4>2. \A j \in 1 .. 3 : LooksLikeMac(t[j]) => j = 3
        BY <1>2, <2>1
      <4> QED BY <4>1, <4>2
    <3> QED BY <2>2, <3>1, <3>2
  <2>7. \A j \in 1 .. Len(t) : j < RoleIndex(t) /\ LooksLikeMac(t[j]) => j = 3
    BY <1>2, <2>1, <2>2
  <2>8. 3 \in {2, 3} /\ t[3] = u /\ 3 \in 1 .. Len(t) /\ t[1] # "total"
        /\ \A j \in 1 .. Len(t) : t[j] # "type"
    BY <1>2, <2>1
  <2> QED BY <1>1, <1>5, <2>4, <2>5, <2>6, <2>7, <2>8
<1>10. CASE layout = "no role"
  <2>1. /\ Len(t) = 6 /\ t[1] = w /\ t[2] = "ip" /\ t[3] = u /\ t[4] = radio
        /\ t[5] = "ap-01" /\ t[6] = "12"
    BY <1>3, <1>10 DEF Reads
  <2>2. RoleIndex(t) \in {0, 1}
    <3>1. Len(t) <= 8
      BY <2>1
    <3>2. \/ RoleIndex(t) = 0
          \/ RoleIndex(t) \in 1 .. 6 /\ t[RoleIndex(t)] = Role
      BY <1>3, <2>1, <3>1, FirstRole
    <3>3. RoleIndex(t) \in 1 .. 6 => RoleIndex(t) \in {1, 2, 3, 4, 5, 6}
      BY OneOfSeven
    <3> QED BY <1>2, <2>1, <3>2, <3>3
  <2>3. ProbableRole(t, 3) = ""
    <3>1. LooksLikeMac(t[3 + 1])
      BY <1>2, <2>1
    <3> QED BY <3>1 DEF ProbableRole
  <2>4. RoleVerdict(t, 3) = "selected"
    <3>1. 3 \in Identity /\ HasAddress(t)
      BY <1>2, <2>1 DEF Identity, HasAddress
    <3>2. ~DeviceNoise(t, 3)
      <4>1. radio \notin Markers /\ "ap-01" \notin Markers /\ "12" \notin Markers
        BY MacsApart DEF Markers, Words
      <4>2. 3 + 1 = 4 /\ 3 + 3 = 6 /\ \A j \in 4 .. 6 : j \in {4, 5, 6}
        OBVIOUS
      <4> QED BY <2>1, <4>1, <4>2 DEF DeviceNoise
    <3> QED BY <2>3, <3>1, <3>2, Verdicts
  <2>5. \A j \in 1 .. 3 : j # 3 => ~LooksLikeMac(t[j])
    BY <1>2, <2>1
  <2>6. 3 < RoleIndex(t) \/ (Before(t) = {} /\ \A j \in 1 .. 3 : j \in 1 .. Len(t) /\ LooksLikeMac(t[j]) => j = 3)
    <3>2. CASE RoleIndex(t) \in {0, 1}
      <4>1. Before(t) = {}
        BY <1>4, <2>1, <3>2 DEF Before, Candidates
      <4>2. \A j \in 1 .. 3 : LooksLikeMac(t[j]) => j = 3
        BY <1>2, <2>1
      <4> QED BY <4>1, <4>2
    <3> QED BY <2>2, <3>2
  <2>7. \A j \in 1 .. Len(t) : j < RoleIndex(t) /\ LooksLikeMac(t[j]) => j = 3
    BY <1>2, <2>1, <2>2
  <2>8. 3 \in {2, 3} /\ t[3] = u /\ 3 \in 1 .. Len(t) /\ t[1] # "total"
        /\ \A j \in 1 .. Len(t) : t[j] # "type"
    BY <1>2, <2>1
  <2> QED BY <1>1, <1>5, <2>4, <2>5, <2>6, <2>7, <2>8
<1> QED BY <1>1, <1>7, <1>8, <1>9, <1>10 DEF Layouts

----------------------------------------------------------------------------
(* The invariant *)

Lines == [user : Users \union {NoMac}, role : UserRoles \union {"none"}, layout : Layouts \union {"none"},
          name : Seq(Tokens), address : Addresses \union {"none"}, tokens : Seq(Tokens)]

TypesInv ==
    /\ lines \in Seq(Lines)
    /\ decisions \in Seq([reason : Reasons, mac : Tokens \union {NoMac}])
    /\ entries \in Seq(Tokens)
    /\ Len(decisions) = Len(lines)

(* The entries are the selected MACs in their order; no MAC twice. *)
Orders(at, macs, decided) ==
    /\ at \in [DOMAIN macs -> {k \in DOMAIN decided : decided[k].reason = "selected"}]
    /\ \A i, j \in DOMAIN macs : i < j => at[i] < at[j]
    /\ \A k \in DOMAIN decided : decided[k].reason = "selected" => \E i \in DOMAIN macs : at[i] = k
    /\ \A i \in DOMAIN macs : macs[i] = decided[at[i]].mac

EntryOrder == \E at : Orders(at, entries, decisions)

EntriesApart == \A i, j \in DOMAIN entries : entries[i] = entries[j] => i = j

TableInv ==
    /\ TypesInv
    /\ EntryOrder
    /\ EntriesApart
    /\ NoRadioSelected
    /\ RoleColumnRespected
    /\ PlainUsersFound

(* The role is called like what is taken for no role. *)
RoleUnreadable(line) ==
    /\ line.role \in NoRole
    /\ line.role \in Markers => line.name = <<Role>>

(* What is known of a line that is read. *)
Sound(line) ==
    LET d == Decision(line.tokens)
    IN  /\ line \in Lines
        /\ d.reason = "selected" => d.mac \notin Radios
        /\ /\ line.layout \in {"ip first", "name first"} /\ Len(line.name) = 1
           /\ line.role # Role /\ d.reason = "selected"
           => RoleUnreadable(line)
        /\ line.role = Role /\ line.address = "ip" /\ line.name \in {<<"kim">>, <<Role>>} =>
              \/ d.reason = "selected" /\ d.mac = line.user
              \/ \E k \in DOMAIN entries : entries[k] = line.user

LEMMA OneWordName ==
    ASSUME NEW u \in Users, NEW name \in NamesOf(u), Len(name) = 1
    PROVE  \E w \in Plain : name = <<w>>
<1>1. name # <<>>
  OBVIOUS
<1>2. name # <<"kim", "lee">>
  OBVIOUS
<1>3. name \in {<<"kim">>, <<Role>>, <<u>>, <<"total">>, <<"type">>}
  BY <1>1, <1>2 DEF NamesOf
<1>4. "kim" \in Plain /\ Role \in Plain /\ u \in Plain /\ "total" \in Plain /\ "type" \in Plain
  BY DEF Plain, Words, Role
<1> QED BY <1>3, <1>4

LEMMA UserLineSound ==
    ASSUME NEW layout \in Layouts, NEW u \in Users, NEW role \in UserRoles,
           NEW name \in NamesOf(u), NEW address \in Addresses, NEW radio \in Radios
    PROVE  Sound(UserLine(layout, u, role, name, address, radio))
<1> DEFINE line == UserLine(layout, u, role, name, address, radio)
           t == Columns(layout, u, role, name, address, radio)
           d == Decision(t)
<1>1. /\ line.user = u /\ line.role = role /\ line.layout = layout /\ line.name = name
      /\ line.address = address /\ line.tokens = t
  BY DEF UserLine
<1>2. PICK p, r : Shape(t, p, r)
  BY UserShape
<1>3. t \in Seq(Tokens)
  BY <1>2 DEF Shape
<1>4. line \in Lines
  <2>1. name \in Seq(Tokens)
    BY NameWords
  <2> HIDE DEF t
  <2>2. line = [user |-> u, role |-> role, layout |-> layout, name |-> name, address |-> address,
                tokens |-> t]
    BY DEF UserLine, t
  <2> QED BY <1>3, <2>1, <2>2 DEF Lines
<1>5. d.reason = "selected" => d.mac \notin Radios
  <2>1. TargetIndex(t) # 0 => t[TargetIndex(t)] \in Plain
    BY <1>2, ShapeIsSafe
  <2>2. d.reason = "selected" => d.mac = t[TargetIndex(t)] /\ TargetIndex(t) # 0
    BY <1>3, Decisions
  <2>3. \A x \in Plain : x \notin Radios
    BY MacsApart DEF Plain
  <2> QED BY <2>1, <2>2, <2>3
<1>6. ASSUME layout \in {"ip first", "name first"}, Len(name) = 1, role # Role,
             d.reason = "selected"
      PROVE  role \in NoRole /\ (role \in Markers => name = <<Role>>)
  <2>1. PICK w \in Plain : name = <<w>>
    BY <1>6, OneWordName
  <2>2. role \in OtherRoles
    BY <1>6 DEF UserRoles
  <2>3. ~(role \notin NoRole \/ (role \in Markers /\ w # Role))
    BY <1>6, <2>1, <2>2, OtherRoleIgnored
  <2> QED BY <2>1, <2>3
<1>7. ASSUME role = Role, address = "ip", name \in {<<"kim">>, <<Role>>}
      PROVE  \/ d.reason = "selected" /\ d.mac = u
             \/ \E k \in DOMAIN entries : entries[k] = u
  <2>1. PICK w \in {"kim", Role} : name = <<w>>
    BY <1>7
  <2> QED BY <1>7, <2>1, PlainFound
<1> HIDE DEF line, t, d
<1>8. Sound(line)
  BY <1>1, <1>4, <1>5, <1>6, <1>7 DEF Sound, RoleUnreadable, d
<1> QED BY <1>8 DEF line

LEMMA OtherLineSound ==
    ASSUME NEW b \in Radios, NEW c \in Radios, NEW tokens \in OtherTokens(b, c)
    PROVE  Sound(OtherLine(tokens))
<1> DEFINE line == OtherLine(tokens)
<1>1. line.role = "none" /\ line.layout = "none" /\ line.address = "none" /\ line.tokens = tokens
  BY DEF OtherLine
<1>2. tokens \in Seq(Tokens) /\ Decision(tokens).reason # "selected"
  BY OthersIgnored
<1>3. line \in Lines
  <2>1. <<>> \in Seq(Tokens)
    OBVIOUS
  <2> QED BY <1>2, <2>1 DEF OtherLine, Lines
<1> HIDE DEF line
<1>4. Sound(line)
  BY <1>1, <1>2, <1>3 DEF Sound
<1> QED BY <1>4 DEF line

LEMMA ReadKeeps ==
    ASSUME TableInv, NEW line, Sound(line), ReadLine(line)
    PROVE  TableInv'
<1> DEFINE d == Decision(line.tokens)
           n == Len(lines)
           m == Len(entries)
<1>1. line \in Lines /\ line.tokens \in Seq(Tokens)
  BY DEF Sound, Lines
<1>2. /\ d \in [reason : Reasons, mac : Tokens \union {NoMac}]
      /\ d.reason = "selected" => d.mac \in Tokens /\ \A k \in DOMAIN entries : entries[k] # d.mac
  BY <1>1, Decisions
<1>3. /\ lines' = Append(lines, line) /\ decisions' = Append(decisions, d)
      /\ entries' = IF d.reason = "selected" THEN Append(entries, d.mac) ELSE entries
  BY DEF ReadLine
<1>4. /\ n \in Nat /\ m \in Nat /\ Len(decisions) = n
      /\ DOMAIN lines = 1 .. n /\ DOMAIN decisions = 1 .. n /\ DOMAIN entries = 1 .. m
  BY LenProperties DEF TableInv, TypesInv
<1> HIDE DEF d, n, m
<1>5. /\ lines' \in Seq(Lines) /\ Len(lines') = n + 1 /\ DOMAIN lines' = 1 .. n + 1
      /\ \A k \in 1 .. n : lines'[k] = lines[k]
      /\ lines'[n + 1] = line
  BY <1>1, <1>3, <1>4, AppendProperties DEF TableInv, TypesInv, n
<1>6. /\ decisions' \in Seq([reason : Reasons, mac : Tokens \union {NoMac}])
      /\ Len(decisions') = n + 1 /\ DOMAIN decisions' = 1 .. n + 1
      /\ \A k \in 1 .. n : decisions'[k] = decisions[k]
      /\ decisions'[n + 1] = d
  BY <1>2, <1>3, <1>4, AppendProperties DEF TableInv, TypesInv
<1>7. d.reason = "selected" =>
        /\ entries' \in Seq(Tokens) /\ Len(entries') = m + 1 /\ DOMAIN entries' = 1 .. m + 1
        /\ \A k \in 1 .. m : entries'[k] = entries[k]
        /\ entries'[m + 1] = d.mac
  BY <1>2, <1>3, <1>4, AppendProperties DEF TableInv, TypesInv, m
<1>8. d.reason # "selected" => entries' = entries
  BY <1>3
<1>9. TypesInv'
  BY <1>3, <1>5, <1>6, <1>7 DEF TableInv, TypesInv
<1>10. EntryOrder'
  <2>1. PICK at : Orders(at, entries, decisions)
    BY DEF TableInv, EntryOrder
  <2>2. /\ at \in [1 .. m -> {k \in 1 .. n : decisions[k].reason = "selected"}]
        /\ \A i \in 1 .. m : at[i] \in 1 .. n /\ decisions[at[i]].reason = "selected"
    BY <1>4, <2>1 DEF Orders
  <2>3. \A k \in 1 .. n : decisions[k].reason = "selected" => \E i \in 1 .. m : at[i] = k
    BY <1>4, <2>1 DEF Orders
  <2>4. /\ \A i, j \in 1 .. m : i < j => at[i] < at[j]
        /\ \A i \in 1 .. m : entries[i] = decisions[at[i]].mac
    BY <1>4, <2>1 DEF Orders
  <2>5. CASE d.reason = "selected"
    <3> DEFINE new == [i \in 1 .. m + 1 |-> IF i = m + 1 THEN n + 1 ELSE at[i]]
    <3>1. new[m + 1] = n + 1 /\ \A i \in 1 .. m : new[i] = at[i]
      BY <1>4
    <3>2. \A i \in 1 .. m + 1 : i \in 1 .. m \/ i = m + 1
      BY <1>4
    <3>3. \A i \in 1 .. m + 1 : new[i] \in 1 .. n + 1 /\ decisions'[new[i]].reason = "selected"
      <4>1. ASSUME NEW i \in 1 .. m PROVE at[i] \in 1 .. n + 1 /\ decisions'[at[i]].reason = "selected"
        BY <1>4, <1>6, <2>2
      <4>2. n + 1 \in 1 .. n + 1
        BY <1>4
      <4> HIDE DEF new
      <4> QED BY <1>6, <2>5, <3>1, <3>2, <4>1, <4>2
    <3>4. new \in [1 .. m + 1 -> {k \in 1 .. n + 1 : decisions'[k].reason = "selected"}]
      BY <3>3
    <3> HIDE DEF new
    <3>5. ASSUME NEW i \in 1 .. m + 1, NEW j \in 1 .. m + 1, i < j PROVE new[i] < new[j]
      <4>1. i \in 1 .. m
        BY <1>4, <3>5
      <4>2. at[i] \in 1 .. n
        BY <2>2, <4>1
      <4>3. CASE j = m + 1
        BY <1>4, <3>1, <4>1, <4>2, <4>3
      <4>4. CASE j \in 1 .. m
        BY <2>4, <3>1, <3>5, <4>1, <4>4
      <4> QED BY <3>2, <4>3, <4>4
    <3>6. ASSUME NEW k \in 1 .. n + 1, decisions'[k].reason = "selected"
          PROVE  \E i \in 1 .. m + 1 : new[i] = k
      <4>1. CASE k = n + 1
        <5>1. m + 1 \in 1 .. m + 1
          BY <1>4
        <5> QED BY <3>1, <4>1, <5>1
      <4>2. CASE k \in 1 .. n
        <5>1. PICK i \in 1 .. m : at[i] = k
          BY <1>6, <2>3, <3>6, <4>2
        <5>2. i \in 1 .. m + 1
          BY <1>4
        <5> QED BY <3>1, <5>1, <5>2
      <4>3. k \in 1 .. n \/ k = n + 1
        BY <1>4
      <4> QED BY <4>1, <4>2, <4>3
    <3>7. ASSUME NEW i \in 1 .. m + 1 PROVE entries'[i] = decisions'[new[i]].mac
      <4>1. CASE i = m + 1
        BY <1>6, <1>7, <2>5, <3>1, <4>1
      <4>2. CASE i \in 1 .. m
        BY <1>6, <1>7, <2>2, <2>4, <2>5, <3>1, <4>2
      <4> QED BY <3>2, <4>1, <4>2
    <3>8. DOMAIN entries' = 1 .. m + 1 /\ DOMAIN decisions' = 1 .. n + 1
      BY <1>6, <1>7, <2>5
    <3>9. Orders(new, entries', decisions')
      BY <3>4, <3>5, <3>6, <3>7, <3>8 DEF Orders
    <3> QED BY <3>9 DEF EntryOrder
  <2>6. CASE d.reason # "selected"
    <3>1. entries' = entries /\ DOMAIN entries' = 1 .. m /\ DOMAIN decisions' = 1 .. n + 1
      BY <1>4, <1>6, <1>8, <2>6
    <3>2. \A i \in 1 .. m : at[i] \in 1 .. n + 1 /\ at[i] \in 1 .. n /\ decisions'[at[i]] = decisions[at[i]]
      BY <1>4, <1>6, <2>2
    <3>3. at \in [1 .. m -> {k \in 1 .. n + 1 : decisions'[k].reason = "selected"}]
      BY <2>2, <3>2
    <3>4. ASSUME NEW k \in 1 .. n + 1, decisions'[k].reason = "selected" PROVE \E i \in 1 .. m : at[i] = k
      <4>1. k \in 1 .. n \/ k = n + 1
        BY <1>4
      <4>2. k \in 1 .. n
        BY <1>6, <2>6, <3>4, <4>1
      <4> QED BY <1>6, <2>3, <3>4, <4>2
    <3>5. \A i \in 1 .. m : entries'[i] = decisions'[at[i]].mac
      BY <2>4, <3>1, <3>2
    <3>6. Orders(at, entries', decisions')
      BY <2>4, <3>1, <3>3, <3>4, <3>5 DEF Orders
    <3> QED BY <3>6 DEF EntryOrder
  <2> QED BY <2>5, <2>6
<1>11. EntriesApart'
  <2>1. CASE d.reason = "selected"
    <3> SUFFICES ASSUME NEW i \in 1 .. m + 1, NEW j \in 1 .. m + 1, entries'[i] = entries'[j]
                 PROVE  i = j
      BY <1>7, <2>1 DEF EntriesApart
    <3>1. CASE i \in 1 .. m /\ j \in 1 .. m
      BY <1>4, <1>7, <2>1, <3>1 DEF TableInv, EntriesApart
    <3>2. \A k \in 1 .. m : entries'[k] # entries'[m + 1]
      BY <1>2, <1>4, <1>7, <2>1
    <3>3. \A k \in 1 .. m + 1 : k \in 1 .. m \/ k = m + 1
      BY <1>4
    <3> QED BY <3>1, <3>2, <3>3
  <2>2. CASE d.reason # "selected"
    BY <1>8, <2>2 DEF TableInv, EntriesApart
  <2> QED BY <2>1, <2>2
<1>12. NoRadioSelected'
  <2>1. CASE d.reason = "selected"
    <3>1. d.mac \notin Radios
      BY <2>1 DEF Sound, d
    <3>2. \A k \in 1 .. m + 1 : k \in 1 .. m \/ k = m + 1
      BY <1>4
    <3>3. \A k \in 1 .. m : entries[k] \notin Radios
      BY <1>4 DEF TableInv, NoRadioSelected
    <3> QED BY <1>7, <2>1, <3>1, <3>2, <3>3 DEF NoRadioSelected
  <2>2. CASE d.reason # "selected"
    BY <1>8, <2>2 DEF TableInv, NoRadioSelected
  <2> QED BY <2>1, <2>2
<1>13. \A k \in 1 .. n + 1 : k \in 1 .. n \/ k = n + 1
  BY <1>4
<1>14. RoleColumnRespected'
  <2> SUFFICES ASSUME NEW k \in 1 .. n + 1, lines'[k].layout \in {"ip first", "name first"},
                      Len(lines'[k].name) = 1, lines'[k].role # Role,
                      decisions'[k].reason = "selected"
               PROVE  RoleUnreadable(lines'[k])
    BY <1>5 DEF RoleColumnRespected, RoleUnreadable, Selected
  <2>1. CASE k \in 1 .. n
    BY <1>4, <1>5, <1>6, <2>1 DEF TableInv, RoleColumnRespected, RoleUnreadable, Selected
  <2>2. CASE k = n + 1
    BY <1>5, <1>6, <2>2 DEF Sound, d
  <2> QED BY <1>13, <2>1, <2>2
<1>15. PlainUsersFound'
  <2> SUFFICES ASSUME NEW k \in 1 .. n + 1, lines'[k].role = Role, lines'[k].address = "ip",
                      lines'[k].name \in {<<"kim">>, <<Role>>}
               PROVE  \E j \in DOMAIN entries' : entries'[j] = lines'[k].user
    BY <1>5 DEF PlainUsersFound
  <2>1. \A j \in DOMAIN entries : j \in DOMAIN entries' /\ entries'[j] = entries[j]
    BY <1>4, <1>7, <1>8
  <2>2. CASE k \in 1 .. n
    BY <1>4, <1>5, <2>1, <2>2 DEF TableInv, PlainUsersFound
  <2>3. CASE k = n + 1
    <3>1. \/ d.reason = "selected" /\ d.mac = line.user
          \/ \E j \in DOMAIN entries : entries[j] = line.user
      BY <1>5, <2>3 DEF Sound, d
    <3>2. d.reason = "selected" => m + 1 \in DOMAIN entries'
      BY <1>4, <1>7
    <3> QED BY <1>5, <1>7, <2>1, <2>3, <3>1, <3>2
  <2> QED BY <1>13, <2>2, <2>3
<1> QED BY <1>9, <1>10, <1>11, <1>12, <1>14, <1>15 DEF TableInv

(* parse_global_user_table_explained: the invariant holds for answers of    *)
(* any length, whatever lines they are made of.                             *)
THEOREM TableInvariant == TableSpec => []TableInv
<1>1. TableInit => TableInv
  <2> SUFFICES ASSUME TableInit PROVE TableInv
    OBVIOUS
  <2>1. lines = <<>> /\ decisions = <<>> /\ entries = <<>>
    BY DEF TableInit
  <2>2. DOMAIN lines = {} /\ DOMAIN decisions = {} /\ DOMAIN entries = {}
    BY <2>1
  <2>3. Orders(<<>>, entries, decisions)
    BY <2>1, <2>2 DEF Orders
  <2>4. EntryOrder
    BY <2>3 DEF EntryOrder
  <2>5. TypesInv
    BY <2>1 DEF TypesInv
  <2> QED BY <2>2, <2>4, <2>5 DEF TableInv, EntriesApart, NoRadioSelected, RoleColumnRespected,
                                PlainUsersFound
<1>2. TableInv /\ [TableNext]_tableVars => TableInv'
  <2> SUFFICES ASSUME TableInv, [TableNext]_tableVars PROVE TableInv'
    OBVIOUS
  <2>1. CASE ReadUserLine
    <3>1. PICK layout \in Layouts, u \in Users, role \in UserRoles :
             \E name \in NamesOf(u), address \in Addresses, radio \in Radios :
                ReadLine(UserLine(layout, u, role, name, address, radio))
      BY <2>1 DEF ReadUserLine
    <3>2. PICK name \in NamesOf(u), address \in Addresses, radio \in Radios :
             ReadLine(UserLine(layout, u, role, name, address, radio))
      BY <3>1
    <3>3. Sound(UserLine(layout, u, role, name, address, radio))
      BY UserLineSound
    <3> QED BY <3>2, <3>3, ReadKeeps
  <2>2. CASE ReadOtherLine
    <3>1. PICK b \in Radios, c \in Radios : \E tokens \in OtherTokens(b, c) : ReadLine(OtherLine(tokens))
      BY <2>2 DEF ReadOtherLine
    <3>2. PICK tokens \in OtherTokens(b, c) : ReadLine(OtherLine(tokens))
      BY <3>1
    <3>3. Sound(OtherLine(tokens))
      BY OtherLineSound
    <3> QED BY <3>2, <3>3, ReadKeeps
  <2>3. CASE UNCHANGED tableVars
    BY <2>3 DEF tableVars, TableInv, TypesInv, EntryOrder, EntriesApart, NoRadioSelected,
                RoleColumnRespected, PlainUsersFound, Selected
  <2> QED BY <2>1, <2>2, <2>3 DEF TableNext
<1> QED BY <1>1, <1>2, PTL DEF TableSpec

(* _target_mac_from_tokens and _row_matches_role: whatever a user is called *)
(* and whatever the address looks like, no BSSID and no MAC of an access    *)
(* point is a delete target, in an answer of any length.                    *)
THEOREM NoRadioEverSelected == TableSpec => []NoRadioSelected
<1>1. TableInv => NoRadioSelected
  BY DEF TableInv
<1> QED BY <1>1, TableInvariant, PTL

(* _row_matches_role: beside a role column a user of another role with a    *)
(* name of one word, even the role's own name, is no target, unless the     *)
(* role is called like what _probable_role_token takes for no role; one     *)
(* called like a device's word is a target only under the role's own name.  *)
THEOREM RoleColumnAlwaysRespected == TableSpec => []RoleColumnRespected
<1>1. TableInv => RoleColumnRespected
  BY DEF TableInv
<1> QED BY <1>1, TableInvariant, PTL

(* parse_global_user_table_explained: a user of the role with a plain name  *)
(* and address is a target in every layout.                                 *)
THEOREM PlainUsersAlwaysFound == TableSpec => []PlainUsersFound
<1>1. TableInv => PlainUsersFound
  BY DEF TableInv
<1> QED BY <1>1, TableInvariant, PTL

(* parse_global_user_table_explained: the entries are the MACs of the       *)
(* selected lines in their order, and no MAC is selected twice.             *)
THEOREM EachMacAlwaysOnce == TableSpec => []EachMacOnce
<1>1. TableInv => EachMacOnce
  <2> SUFFICES ASSUME TableInv PROVE EachMacOnce
    OBVIOUS
  <2>1. /\ DOMAIN decisions = DOMAIN lines
        /\ \A k \in DOMAIN decisions : decisions[k].reason \in Reasons
    <3>1. Len(decisions) = Len(lines) /\ DOMAIN decisions = 1 .. Len(decisions)
          /\ DOMAIN lines = 1 .. Len(lines)
      BY LenProperties DEF TableInv, TypesInv
    <3>2. \A k \in 1 .. Len(decisions) : decisions[k] \in [reason : Reasons, mac : Tokens \union {NoMac}]
      BY ElementOfSeq DEF TableInv, TypesInv
    <3> QED BY <3>1, <3>2
  <2>2. PICK at : Orders(at, entries, decisions)
    BY DEF TableInv, EntryOrder
  <2>3. ASSUME NEW k \in DOMAIN decisions, NEW j \in DOMAIN decisions, Selected(k), Selected(j),
               decisions[j].mac = decisions[k].mac
        PROVE  j = k
    <3>1. PICK i \in DOMAIN entries : at[i] = k
      BY <2>2, <2>3 DEF Orders, Selected
    <3>2. PICK h \in DOMAIN entries : at[h] = j
      BY <2>2, <2>3 DEF Orders, Selected
    <3>3. entries[i] = entries[h]
      BY <2>2, <2>3, <3>1, <3>2 DEF Orders
    <3>4. i = h
      BY <3>3 DEF TableInv, EntriesApart
    <3> QED BY <3>1, <3>2, <3>4
  <2>4. \E f \in [DOMAIN entries -> {k \in DOMAIN decisions : Selected(k)}] :
           /\ \A i, j \in DOMAIN entries : i < j => f[i] < f[j]
           /\ \A k \in DOMAIN decisions : Selected(k) => \E i \in DOMAIN entries : f[i] = k
           /\ \A i \in DOMAIN entries : entries[i] = decisions[f[i]].mac
    <3>1. at \in [DOMAIN entries -> {k \in DOMAIN decisions : Selected(k)}]
      BY <2>2 DEF Orders, Selected
    <3> WITNESS at \in [DOMAIN entries -> {k \in DOMAIN decisions : Selected(k)}]
    <3> QED BY <2>2 DEF Orders, Selected
  <2> QED BY <2>1, <2>3, <2>4 DEF EachMacOnce
<1> QED BY <1>1, TableInvariant, PTL
============================================================================
