---------------------------- MODULE KnownHosts ----------------------------
(***************************************************************************)
(* The application's own known_hosts file, hostkeys.py, and the connection *)
(* that trusts it, connection.py.  connect_to_mm probes the key a server   *)
(* presents, looks it up, has an unknown one confirmed by an operator,     *)
(* stores it, and then connects strictly against the file.                 *)
(*                                                                         *)
(* A KnownHostStore reads and replaces the whole file under its own lock,  *)
(* which is a lock of one process; several processes may use the file, and *)
(* the servers may change their keys at any time.                          *)
(***************************************************************************)
EXTENDS Integers

CONSTANTS
    Users,       \* threads that connect or approve
    NoUser,
    Stores,      \* KnownHostStore objects on the same file
    StoreOf,     \* StoreOf[u]: the store u uses
    Endpoints,   \* host:port names of the file
    Keys,        \* keys servers present, with their type
    NoKey

ASSUME HostsConstants ==
    /\ NoUser \notin Users
    /\ StoreOf \in [Users -> Stores]
    /\ NoKey \notin Keys

VARIABLES
    server,   \* server[e]: the key e presents
    file,     \* file[e]: the key the known_hosts file holds for e
    lock,     \* lock[s]: the user inside KnownHostStore s
    at,       \* at[u]: how far u is
    seen,     \* seen[u]: the HostKeyObservation u works on
    copy,     \* copy[u]: the HostKeys u has loaded to add one
    peer      \* peer[u]: the key of the server u is connected to

(* Observation: the keys an operator has confirmed. No action reads it. *)
VARIABLE confirmed

hostsVars == <<server, file, lock, at, seen, copy, peer, confirmed>>

Places == {"away", "observed", "asking", "approving", "saving", "pinned", "connected"}
Files  == [Endpoints -> Keys \union {NoKey}]
Empty  == [e \in Endpoints |-> NoKey]

(* What the file says of the key u has seen. *)
Stored(u)  == file[seen[u].endpoint]
Free(u)    == lock[StoreOf[u]] = NoUser
Goto(u, p) == at' = [at EXCEPT ![u] = p]

----------------------------------------------------------------------------
(* External: a server is reinstalled, or another one answers. *)
KeyChanges(e) ==
    /\ \E k \in Keys : server' = [server EXCEPT ![e] = k]
    /\ UNCHANGED <<file, lock, at, seen, copy, peer, confirmed>>

(* probe_host_key: a connection of its own, which only takes the key.       *)
Probe(u) ==
    /\ at[u] = "away"
    /\ \E e \in Endpoints :
          seen' = [seen EXCEPT ![u] = [endpoint |-> e, key |-> server[e]]]
    /\ Goto(u, "observed")
    /\ UNCHANGED <<server, file, lock, copy, peer, confirmed>>

(* KnownHostStore.check: trusted, unknown or changed.                       *)
Check(u) ==
    /\ at[u] = "observed"
    /\ Free(u)
    /\ Goto(u, IF Stored(u) = seen[u].key THEN "pinned"
               ELSE IF Stored(u) = NoKey THEN "asking" ELSE "away")
    /\ UNCHANGED <<server, file, lock, seen, copy, peer, confirmed>>

(* The operator confirms the fingerprint: in a callback of the thread that  *)
(* connects, or later by a request of its own.                              *)
Confirm(u) ==
    /\ at[u] = "asking"
    /\ confirmed' = confirmed \union {seen[u]}
    /\ Goto(u, "approving")
    /\ UNCHANGED <<server, file, lock, seen, copy, peer>>

(* Mutant of ApproveLoads: the key is stored whatever the file holds now. *)
BuggyApproveLoads(u) ==
    /\ at[u] = "approving"
    /\ Free(u)
    /\ lock' = [lock EXCEPT ![StoreOf[u]] = u]
    /\ copy' = [copy EXCEPT ![u] = file]
    /\ Goto(u, "saving")
    /\ UNCHANGED <<server, file, seen, peer, confirmed>>

(* KnownHostStore.approve: the file is loaded and asked again, since it may *)
(* have changed while the operator thought.                                 *)
ApproveLoads(u) ==
    /\ at[u] = "approving"
    /\ Free(u)
    /\ Stored(u) = NoKey
    /\ lock' = [lock EXCEPT ![StoreOf[u]] = u]
    /\ copy' = [copy EXCEPT ![u] = file]
    /\ Goto(u, "saving")
    /\ UNCHANGED <<server, file, seen, peer, confirmed>>

AlreadyStored(u) ==
    /\ at[u] = "approving"
    /\ Free(u)
    /\ Stored(u) # NoKey
    /\ Goto(u, IF Stored(u) = seen[u].key THEN "pinned" ELSE "away")
    /\ UNCHANGED <<server, file, lock, seen, copy, peer, confirmed>>

Leave(u) == lock' = [lock EXCEPT ![StoreOf[u]] = NoUser]

(* Mutants of Save: the key the server has now is stored, not the one that  *)
(* was confirmed; only the new key is written.                              *)
BuggySave(u) ==
    /\ at[u] = "saving"
    /\ file' = [copy[u] EXCEPT ![seen[u].endpoint] = server[seen[u].endpoint]]
    /\ Leave(u)
    /\ Goto(u, "pinned")
    /\ UNCHANGED <<server, seen, copy, peer, confirmed>>

ForgettingSave(u) ==
    /\ at[u] = "saving"
    /\ file' = [Empty EXCEPT ![seen[u].endpoint] = seen[u].key]
    /\ Leave(u)
    /\ Goto(u, "pinned")
    /\ UNCHANGED <<server, seen, copy, peer, confirmed>>

(* _save replaces the file by the loaded keys and the new one.              *)
Save(u) ==
    /\ at[u] = "saving"
    /\ file' = [copy[u] EXCEPT ![seen[u].endpoint] = seen[u].key]
    /\ Leave(u)
    /\ Goto(u, "pinned")
    /\ UNCHANGED <<server, seen, copy, peer, confirmed>>

(* Mutant of SaveFails: the lock is kept. *)
BuggySaveFails(u) ==
    /\ at[u] = "saving"
    /\ Goto(u, "away")
    /\ UNCHANGED <<server, file, lock, seen, copy, peer, confirmed>>

(* The temporary file cannot be written or renamed.                         *)
SaveFails(u) ==
    /\ at[u] = "saving"
    /\ Leave(u)
    /\ Goto(u, "away")
    /\ UNCHANGED <<server, file, seen, copy, peer, confirmed>>

(* Mutant of Connect: the second connection is not strict. *)
BuggyConnect(u) ==
    /\ at[u] = "pinned"
    /\ peer' = [peer EXCEPT ![u] = server[seen[u].endpoint]]
    /\ Goto(u, "connected")
    /\ UNCHANGED <<server, file, lock, seen, copy, confirmed>>

(* ConnectHandler, ssh_strict with the file as its only known hosts: the    *)
(* server must present the stored key this time too.                        *)
Connect(u) ==
    /\ at[u] = "pinned"
    /\ server[seen[u].endpoint] = Stored(u)
    /\ peer' = [peer EXCEPT ![u] = server[seen[u].endpoint]]
    /\ Goto(u, "connected")
    /\ UNCHANGED <<server, file, lock, seen, copy, confirmed>>

(* A refusal of the operator, an unreadable file, an exchange that fails or *)
(* a web request that only stores the key; and the end of a connection.     *)
GiveUp(u) ==
    /\ at[u] \notin {"away", "saving"}
    /\ at[u] # "approving" \/ Free(u)
    /\ Goto(u, "away")
    /\ peer' = [peer EXCEPT ![u] = NoKey]
    /\ UNCHANGED <<server, file, lock, seen, copy, confirmed>>

(* The process of a store is killed. *)
Kill(s) ==
    /\ at'   = [u \in Users |-> IF StoreOf[u] = s THEN "away" ELSE at[u]]
    /\ peer' = [u \in Users |-> IF StoreOf[u] = s THEN NoKey ELSE peer[u]]
    /\ lock' = [lock EXCEPT ![s] = NoUser]
    /\ UNCHANGED <<server, file, seen, copy, confirmed>>

HostsInit ==
    /\ server \in [Endpoints -> Keys]
    /\ file = Empty
    /\ lock = [s \in Stores |-> NoUser]
    /\ at = [u \in Users |-> "away"]
    /\ seen \in [Users -> [endpoint : Endpoints, key : {NoKey}]]
    /\ copy = [u \in Users |-> Empty]
    /\ peer = [u \in Users |-> NoKey]
    /\ confirmed = {}

Approve(u) == ApproveLoads(u) \/ AlreadyStored(u) \/ Save(u) \/ SaveFails(u)

UserStep(u) ==
    \/ Probe(u) \/ Check(u) \/ Confirm(u)
    \/ Approve(u)
    \/ Connect(u) \/ GiveUp(u)

HostsNext ==
    \/ \E u \in Users : UserStep(u)
    \/ \E e \in Endpoints : KeyChanges(e)
    \/ \E s \in Stores : Kill(s)

(* KnownHostStore.approve waits for nobody but the lock of its store, and   *)
(* for that only as long as another approval takes.                         *)
HostsSpec ==
    HostsInit /\ [][HostsNext]_hostsVars /\ \A u \in Users : SF_hostsVars(Approve(u))

----------------------------------------------------------------------------
(* Properties *)

(* Types of the file, the servers and the users' progress. *)
HostsTypeOK ==
    /\ server \in [Endpoints -> Keys]
    /\ file \in Files
    /\ lock \in [Stores -> Users \union {NoUser}]
    /\ at \in [Users -> Places]
    /\ seen \in [Users -> [endpoint : Endpoints, key : Keys \union {NoKey}]]
    /\ copy \in [Users -> Files]
    /\ peer \in [Users -> Keys \union {NoKey}]
    /\ confirmed \in SUBSET [endpoint : Endpoints, key : Keys]

(* Whatever key the file holds, an operator confirmed it, for that endpoint: *)
(* neither a server that changes its key while the operator is asked nor    *)
(* another approval slips one in.                                           *)
StoredIsConfirmed ==
    \A e \in Endpoints : file[e] # NoKey => [endpoint |-> e, key |-> file[e]] \in confirmed

(* Every connection is to a server that holds the key stored for it, also   *)
(* when the server changed between the probe and the connection.            *)
PeerIsPinned ==
    \A u \in Users : at[u] = "connected" => peer[u] # NoKey /\ peer[u] = Stored(u)

(* The threads of one process share a store. *)
OneStore == \A u, v \in Users : StoreOf[u] = StoreOf[v]

(* A stored key is never replaced and never lost, whoever approves others   *)
(* at the same time: a changed server stays blocked.                        *)
KeyStays == \A e \in Endpoints : file[e] # NoKey => file'[e] = file[e]

StoredKeyStays == [][KeyStays]_hostsVars

(* A confirmation is answered: the key is stored or the approval fails.     *)
ApprovalEnds ==
    \A u \in Users : at[u] = "approving" ~> at[u] \in {"pinned", "connected", "away"}
============================================================================
