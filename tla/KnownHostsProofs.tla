------------------------- MODULE KnownHostsProofs -------------------------
(***************************************************************************)
(* Proofs about KnownHosts.  What the file holds was confirmed, however    *)
(* many processes use it; that stored keys stay and connections are to     *)
(* them is proved for the threads of one process.                          *)
(***************************************************************************)
EXTENDS KnownHosts, TLAPS

Confirmed(e, k) == k # NoKey => [endpoint |-> e, key |-> k] \in confirmed

(* The key u works on is one, and it is confirmed before it is stored. *)
SeenKey ==
    \A u \in Users : at[u] # "away" => seen[u].key \in Keys

SavedIsConfirmed ==
    \A u \in Users : at[u] \in {"approving", "saving"} => seen[u] \in confirmed

CopyConfirmed ==
    \A u \in Users : at[u] = "saving" =>
        \A e \in Endpoints : Confirmed(e, copy[u][e])

ConfirmInv ==
    /\ HostsTypeOK
    /\ SeenKey
    /\ SavedIsConfirmed
    /\ CopyConfirmed
    /\ StoredIsConfirmed

(* Who saves holds the lock, and nothing has changed since it loaded. *)
SaverExclusive ==
    \A u \in Users : at[u] = "saving" =>
        /\ lock[StoreOf[u]] = u
        /\ copy[u] = file
        /\ Stored(u) = NoKey

PinInv ==
    /\ ConfirmInv
    /\ SaverExclusive
    /\ PeerIsPinned

LEMMA ConfirmInitially == HostsInit => ConfirmInv
BY HostsConstants
   DEF HostsInit, ConfirmInv, HostsTypeOK, SeenKey, SavedIsConfirmed, CopyConfirmed,
       StoredIsConfirmed, Empty, Files, Places

(* Every step keeps the types. *)
LEMMA TypeStep == HostsTypeOK /\ SeenKey /\ [HostsNext]_hostsVars => HostsTypeOK'
<1> SUFFICES ASSUME HostsTypeOK, SeenKey, [HostsNext]_hostsVars
             PROVE  HostsTypeOK'
    OBVIOUS
<1> USE HostsConstants DEF HostsTypeOK, Files, Places, Goto, Stored, Free, Leave
<1>1. ASSUME NEW u \in Users, Probe(u) PROVE HostsTypeOK'
  BY <1>1 DEF Probe
<1>2. ASSUME NEW u \in Users, Check(u) PROVE HostsTypeOK'
  BY <1>2 DEF Check
<1>3. ASSUME NEW u \in Users, Confirm(u) PROVE HostsTypeOK'
  <2>1. seen[u] \in [endpoint : Endpoints, key : Keys]
    BY <1>3 DEF Confirm, SeenKey
  <2> QED BY <1>3, <2>1 DEF Confirm
<1>4. ASSUME NEW u \in Users, ApproveLoads(u) PROVE HostsTypeOK'
  BY <1>4 DEF ApproveLoads
<1>5. ASSUME NEW u \in Users, AlreadyStored(u) PROVE HostsTypeOK'
  BY <1>5 DEF AlreadyStored
<1>6. ASSUME NEW u \in Users, Save(u) PROVE HostsTypeOK'
  BY <1>6 DEF Save
<1>7. ASSUME NEW u \in Users, SaveFails(u) PROVE HostsTypeOK'
  BY <1>7 DEF SaveFails
<1>8. ASSUME NEW u \in Users, Connect(u) PROVE HostsTypeOK'
  BY <1>8 DEF Connect
<1>9. ASSUME NEW u \in Users, GiveUp(u) PROVE HostsTypeOK'
  BY <1>9 DEF GiveUp
<1>10. ASSUME NEW e \in Endpoints, KeyChanges(e) PROVE HostsTypeOK'
  BY <1>10 DEF KeyChanges
<1>11. ASSUME NEW s \in Stores, Kill(s) PROVE HostsTypeOK'
  BY <1>11 DEF Kill
<1>12. CASE UNCHANGED hostsVars
  BY <1>12 DEF hostsVars
<1> QED
  BY <1>1, <1>2, <1>3, <1>4, <1>5, <1>6, <1>7, <1>8, <1>9, <1>10, <1>11, <1>12
     DEF HostsNext, UserStep, Approve

(* Every step keeps the keys seen, copied and stored confirmed. *)
LEMMA ConfirmStep == ConfirmInv /\ [HostsNext]_hostsVars => ConfirmInv'
<1> SUFFICES ASSUME ConfirmInv, [HostsNext]_hostsVars
             PROVE  ConfirmInv'
    OBVIOUS
<1>0. HostsTypeOK'
  BY TypeStep DEF ConfirmInv
<1>a. HostsTypeOK
  BY DEF ConfirmInv
<1> DEFINE Rest == SeenKey /\ SavedIsConfirmed /\ CopyConfirmed /\ StoredIsConfirmed
<1> USE <1>0, <1>a, HostsConstants
    DEF HostsTypeOK, Files, Places, Goto, Stored, Free, Leave, ConfirmInv, Confirmed,
        SeenKey, SavedIsConfirmed, CopyConfirmed, StoredIsConfirmed
<1>1. ASSUME NEW u \in Users, Probe(u) PROVE Rest'
  BY <1>1 DEF Probe
<1>2. ASSUME NEW u \in Users, Check(u) PROVE Rest'
  BY <1>2 DEF Check
<1>3. ASSUME NEW u \in Users, Confirm(u) PROVE Rest'
  BY <1>3 DEF Confirm
<1>4. ASSUME NEW u \in Users, ApproveLoads(u) PROVE Rest'
  BY <1>4 DEF ApproveLoads
<1>5. ASSUME NEW u \in Users, AlreadyStored(u) PROVE Rest'
  BY <1>5 DEF AlreadyStored
<1>6. ASSUME NEW u \in Users, Save(u) PROVE Rest'
  <2>1. SeenKey' /\ SavedIsConfirmed' /\ CopyConfirmed'
    BY <1>6 DEF Save
  <2>2. ASSUME NEW e \in Endpoints PROVE Confirmed(e, file[e])'
    <3>1. CASE e = seen[u].endpoint
      <4>1. seen[u] = [endpoint |-> e, key |-> seen[u].key]
        BY <3>1
      <4> QED BY <1>6, <3>1, <4>1 DEF Save
    <3>2. CASE e # seen[u].endpoint
      BY <1>6, <3>2 DEF Save
    <3> QED BY <3>1, <3>2
  <2> QED BY <2>1, <2>2
<1>7. ASSUME NEW u \in Users, SaveFails(u) PROVE Rest'
  BY <1>7 DEF SaveFails
<1>8. ASSUME NEW u \in Users, Connect(u) PROVE Rest'
  BY <1>8 DEF Connect
<1>9. ASSUME NEW u \in Users, GiveUp(u) PROVE Rest'
  BY <1>9 DEF GiveUp
<1>10. ASSUME NEW e \in Endpoints, KeyChanges(e) PROVE Rest'
  BY <1>10 DEF KeyChanges
<1>11. ASSUME NEW s \in Stores, Kill(s) PROVE Rest'
  BY <1>11 DEF Kill
<1>12. ASSUME UNCHANGED hostsVars PROVE Rest'
  BY <1>12 DEF hostsVars
<1>13. Rest'
  BY <1>1, <1>2, <1>3, <1>4, <1>5, <1>6, <1>7, <1>8, <1>9, <1>10, <1>11, <1>12
     DEF HostsNext, UserStep, Approve
<1> QED BY <1>0, <1>13

(* What is loaded, saved and stored was confirmed, in every state.          *)
THEOREM ConfirmInvariant == HostsSpec => []ConfirmInv
<1> QED BY ConfirmInitially, ConfirmStep, PTL DEF HostsSpec

(* KnownHosts keeps its types, for any number of processes, users, servers. *)
THEOREM HostsTypes == HostsSpec => []HostsTypeOK
<1>1. ConfirmInv => HostsTypeOK
  BY DEF ConfirmInv
<1> QED BY ConfirmInvariant, <1>1, PTL

(* Every key in known_hosts was confirmed for its endpoint by an operator,  *)
(* whichever processes replace the file under each other.                   *)
THEOREM OnlyConfirmed == HostsSpec => []StoredIsConfirmed
<1>1. ConfirmInv => StoredIsConfirmed
  BY DEF ConfirmInv
<1> QED BY ConfirmInvariant, <1>1, PTL

LEMMA PinInitially == HostsInit => PinInv
BY ConfirmInitially DEF HostsInit, PinInv, SaverExclusive, PeerIsPinned

(* Every step of the threads of one process keeps the saver exclusive and   *)
(* the connections pinned.                                                  *)
LEMMA PinStep == OneStore /\ PinInv /\ [HostsNext]_hostsVars => PinInv'
<1> SUFFICES ASSUME OneStore, PinInv, [HostsNext]_hostsVars
             PROVE  PinInv'
    OBVIOUS
<1>0. ConfirmInv /\ ConfirmInv'
  BY ConfirmStep DEF PinInv
<1>a. HostsTypeOK /\ HostsTypeOK' /\ SeenKey
  BY <1>0 DEF ConfirmInv
<1> DEFINE Rest == SaverExclusive /\ PeerIsPinned
<1>r. Rest
  BY DEF PinInv
<1> USE <1>a, <1>r, HostsConstants
    DEF HostsTypeOK, Files, Places, Goto, Stored, Free, Leave, SaverExclusive, PeerIsPinned
<1>1. ASSUME NEW u \in Users, Probe(u) PROVE Rest'
  BY <1>1 DEF Probe
<1>2. ASSUME NEW u \in Users, Check(u) PROVE Rest'
  BY <1>2 DEF Check
<1>3. ASSUME NEW u \in Users, Confirm(u) PROVE Rest'
  BY <1>3 DEF Confirm
<1>4. ASSUME NEW u \in Users, ApproveLoads(u) PROVE Rest'
  BY <1>4 DEF ApproveLoads, OneStore
<1>5. ASSUME NEW u \in Users, AlreadyStored(u) PROVE Rest'
  BY <1>5 DEF AlreadyStored
<1>6. ASSUME NEW u \in Users, Save(u) PROVE Rest'
  <2>1. \A v \in Users : at[v] = "saving" => v = u
    BY <1>6 DEF Save, OneStore
  <2>2. SaverExclusive'
    BY <1>6, <2>1 DEF Save
  <2>3. copy[u] = file /\ Stored(u) = NoKey
    BY <1>6 DEF Save
  <2>4. ASSUME NEW v \in Users, at'[v] = "connected"
        PROVE  (peer[v] # NoKey /\ peer[v] = Stored(v))'
    <3>1. at[v] = "connected" /\ seen' = seen /\ peer' = peer
      BY <1>6, <2>4 DEF Save
    <3>2. seen[v].endpoint # seen[u].endpoint
      BY <2>3, <3>1
    <3> QED BY <1>6, <2>3, <3>1, <3>2 DEF Save
  <2> QED BY <2>2, <2>4
<1>7. ASSUME NEW u \in Users, SaveFails(u) PROVE Rest'
  BY <1>7 DEF SaveFails, OneStore
<1>8. ASSUME NEW u \in Users, Connect(u) PROVE Rest'
  BY <1>8 DEF Connect
<1>9. ASSUME NEW u \in Users, GiveUp(u) PROVE Rest'
  BY <1>9 DEF GiveUp
<1>10. ASSUME NEW e \in Endpoints, KeyChanges(e) PROVE Rest'
  BY <1>10 DEF KeyChanges
<1>11. ASSUME NEW s \in Stores, Kill(s) PROVE Rest'
  BY <1>11 DEF Kill
<1>12. ASSUME UNCHANGED hostsVars PROVE Rest'
  BY <1>12 DEF hostsVars
<1>13. Rest'
  BY <1>1, <1>2, <1>3, <1>4, <1>5, <1>6, <1>7, <1>8, <1>9, <1>10, <1>11, <1>12
     DEF HostsNext, UserStep, Approve
<1> QED BY <1>0, <1>13 DEF PinInv

(* With one store, what PinInv says of the saver and of the connections     *)
(* always holds.                                                            *)
THEOREM PinInvariant == ASSUME OneStore PROVE HostsSpec => []PinInv
<1>1. PinInv /\ [HostsNext]_hostsVars => PinInv'
  BY PinStep, OneStore
<1> QED BY PinInitially, <1>1, PTL DEF HostsSpec

(* Connections of one process are to servers that hold the stored key.      *)
THEOREM Pinned == ASSUME OneStore PROVE HostsSpec => []PeerIsPinned
<1>1. PinInv => PeerIsPinned
  BY DEF PinInv
<1> QED BY PinInvariant, <1>1, PTL

(* A step that adds a key keeps those already there. *)
LEMMA KeysStayStep == PinInv /\ [HostsNext]_hostsVars => [KeyStays]_hostsVars
<1> SUFFICES ASSUME PinInv, HostsNext PROVE KeyStays
    BY DEF KeyStays, hostsVars
<1>0. HostsTypeOK /\ SaverExclusive
  BY DEF PinInv, ConfirmInv
<1>1. ASSUME NEW u \in Users, Save(u) PROVE KeyStays
  BY <1>0, <1>1 DEF Save, KeyStays, SaverExclusive, Stored, HostsTypeOK, Files
<1>2. CASE file' = file
  BY <1>2 DEF KeyStays
<1>3. (\E u \in Users : Save(u)) \/ file' = file
  BY DEF HostsNext, UserStep, Approve, Probe, Check, Confirm, ApproveLoads, AlreadyStored,
         SaveFails, Connect, GiveUp, KeyChanges, Kill
<1> QED BY <1>1, <1>2, <1>3

(* Stored keys stay as long as the file belongs to one process.             *)
THEOREM KeysStay == ASSUME OneStore PROVE HostsSpec => StoredKeyStays
<1>1. PinInv /\ [HostsNext]_hostsVars => [KeyStays]_hostsVars
  BY KeysStayStep
<1> QED BY PinInvariant, <1>1, PTL DEF HostsSpec, StoredKeyStays
============================================================================
