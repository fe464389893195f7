-------------------------- MODULE MmSessionProofs --------------------------
(***************************************************************************)
(* Proofs about the session, for any numbers of threads, configurations    *)
(* and MACs.                                                               *)
(***************************************************************************)
EXTENDS MmSession, TLAPS

(* The inductive invariant.  ConnectionAccounted and OnlyVerifiedIsKept are *)
(* not inductive alone: a call that holds the lock must be known to find    *)
(* the connection in the state its place in the code implies, and only the  *)
(* holder of the lock may be there (LockCoversCall).                        *)
CallFindsConnection ==
    \A t \in Threads :
        /\ call[t].pc = "paging"   => connection = "raw" /\ config = call[t].cfg
        /\ call[t].pc = "identity" => connection = "unpaged" /\ config = call[t].cfg
        /\ call[t].pc = "ensure"   => connection \in {"none", "verified"}
        /\ call[t].pc = "send"     => connection = "verified" /\ config = call[t].cfg
        /\ call[t].pc = "closing"  => connection \in {"none", "verified"}

(* A delete command has not been sent before the call's one send, and a     *)
(* query at most once.                                                      *)
SendsSoFar ==
    \A t \in Threads :
        /\ call[t].pc \in {"idle", "enter"} => call[t].sends = 0
        /\ call[t].pc \in {"idle", "closing"} => call[t].op = "close"
        /\ call[t].op = "close" =>
              call[t].sends = 0 /\ call[t].pc \in {"idle", "enter", "closing", "return"}
        /\ call[t].op # "close" => call[t].cfg \in Configs
        /\ call[t].op = "delete" => call[t].mac \in Macs
        /\ call[t].op = "delete" /\ call[t].pc # "return" => call[t].sends = 0
        /\ call[t].op = "query" /\ call[t].pc # "return" => call[t].sends \in {0, 1}

(* A delete call comes back with the class of an answer, or raised. *)
AnswersFit ==
    \A t \in Threads :
        call[t].pc = "return" /\ call[t].op = "delete"
            => call[t].reply \in {"deleted", "failed", "unknown", "raised"}

SessionInv ==
    /\ SessionTypeOK
    /\ LockCoversCall
    /\ ConnectionAccounted
    /\ OnlyVerifiedIsKept
    /\ CallFindsConnection
    /\ SendsSoFar
    /\ AnswersFit
    /\ SendsBounded

----------------------------------------------------------------------------
(* Return leaves a well-formed call behind. *)
LEMMA CallReturns ==
    ASSUME call \in [Threads -> Calls], NEW t \in Threads, NEW r \in Replies, Return(t, r)
    PROVE  call' \in [Threads -> Calls]
<1>1. [call[t] EXCEPT !.pc = "return", !.reply = r] \in Calls
  BY DEF Calls, Pcs
<1> QED
  BY <1>1 DEF Return

(* Every step keeps the types. *)
LEMMA TypeStep ==
    ASSUME SessionTypeOK, [SessionNext]_sessionVars
    PROVE  SessionTypeOK'
<1> USE DEF SessionTypeOK, Calls, IdleCall
<1>0. /\ Pcs = {"idle", "enter", "return", "closing", "ensure", "paging", "identity", "send"}
      /\ \A r \in {"none", "rows", "paged", "deleted", "failed", "unknown", "raised", "closed"} :
             r \in Replies
      /\ \A o \in {"query", "delete", "close"} : o \in Ops
  BY DEF Pcs, HeldPcs, Replies, Ops
<1>1. ASSUME NEW t \in Threads, NEW op \in Ops, NEW m \in Macs \union {NoMac},
            NEW c \in Configs \union {NoConfig}, Invoke(t, op, m, c)
     PROVE  SessionTypeOK'
  BY <1>0, <1>1 DEF Invoke
<1>2. ASSUME NEW t \in Threads, Consume(t)
     PROVE  SessionTypeOK'
  BY <1>0, <1>2 DEF Consume
<1>3. ASSUME NEW t \in Threads, Acquire(t)
     PROVE  SessionTypeOK'
  BY <1>0, <1>3 DEF Acquire, Goto
<1>4. ASSUME NEW t \in Threads, Close(t)
     PROVE  SessionTypeOK'
  <2>1. Return(t, "closed")
    BY <1>4 DEF Close
  <2>2. call' \in [Threads -> Calls]
    BY <1>0, <2>1, CallReturns
  <2> QED
    BY <1>4, <2>1, <2>2 DEF Close, Disconnect, Return
<1>5. ASSUME NEW t \in Threads, Reuse(t)
     PROVE  SessionTypeOK'
  BY <1>0, <1>5 DEF Reuse, Goto
<1>6. ASSUME NEW t \in Threads, DropChanged(t)
     PROVE  SessionTypeOK'
  BY <1>0, <1>6 DEF DropChanged, Disconnect
<1>7. ASSUME NEW t \in Threads, Connect(t)
     PROVE  SessionTypeOK'
  BY <1>0, <1>7 DEF Connect, Goto
<1>8. ASSUME NEW t \in Threads, ConnectFails(t)
     PROVE  SessionTypeOK'
  <2>1. Return(t, "raised")
    BY <1>8 DEF ConnectFails
  <2>2. call' \in [Threads -> Calls]
    BY <1>0, <2>1, CallReturns
  <2> QED
    BY <1>8, <2>1, <2>2 DEF ConnectFails, Return
<1>9. ASSUME NEW t \in Threads, DisablePaging(t)
     PROVE  SessionTypeOK'
  BY <1>0, <1>9 DEF DisablePaging, Goto
<1>10. ASSUME NEW t \in Threads, VerifyIdentity(t)
     PROVE  SessionTypeOK'
  BY <1>0, <1>10 DEF VerifyIdentity, Goto
<1>11. ASSUME NEW t \in Threads, GateFails(t)
     PROVE  SessionTypeOK'
  <2>1. Return(t, "raised")
    BY <1>11 DEF GateFails
  <2>2. call' \in [Threads -> Calls]
    BY <1>0, <2>1, CallReturns
  <2> QED
    BY <1>11, <2>1, <2>2 DEF GateFails, Disconnect, Return
<1>12. ASSUME NEW t \in Threads, AnswerQuery(t)
     PROVE  SessionTypeOK'
  BY <1>0, <1>12 DEF AnswerQuery
<1>13. ASSUME NEW t \in Threads, AnswerDelete(t)
     PROVE  SessionTypeOK'
  BY <1>0, <1>13 DEF AnswerDelete, DeviceExecutes
<1>14. ASSUME NEW t \in Threads, SendFails(t)
     PROVE  SessionTypeOK'
  BY <1>0, <1>14 DEF SendFails, DeviceExecutes, Disconnect, RetryOnce
<1>15. ASSUME Churn
     PROVE  SessionTypeOK'
  BY <1>0, <1>15 DEF Churn, UserJoins, UserLeaves
<1>16. ASSUME UNCHANGED sessionVars
     PROVE  SessionTypeOK'
  BY <1>0, <1>16 DEF sessionVars
<1> QED
  BY <1>1, <1>2, <1>3, <1>4, <1>5, <1>6, <1>7, <1>8, <1>9, <1>10, <1>11, <1>12, <1>13, <1>14, <1>15, <1>16, <1>0 DEF SessionNext, Client, SessionStep

(* Every step keeps the rest of the inductive invariant. *)
LEMMA InvStep ==
    ASSUME SessionInv, [SessionNext]_sessionVars
    PROVE  SessionInv'
<1>0. SessionTypeOK'
  BY TypeStep DEF SessionInv
<1> USE <1>0, SessionConstants DEF SessionInv, SessionTypeOK, LockCoversCall, ConnectionAccounted,
        OnlyVerifiedIsKept, CallFindsConnection, SendsSoFar, AnswersFit, SendsBounded, HeldPcs
<1>1. ASSUME NEW t \in Threads, NEW c \in Configs, Invoke(t, "query", NoMac, c)
     PROVE  SessionInv'
  BY <1>1 DEF Invoke, IdleCall
<1>2. ASSUME NEW t \in Threads, NEW c \in Configs, NEW m \in Macs, Invoke(t, "delete", m, c)
     PROVE  SessionInv'
  BY <1>2 DEF Invoke, IdleCall
<1>3. ASSUME NEW t \in Threads, Invoke(t, "close", NoMac, NoConfig)
     PROVE  SessionInv'
  BY <1>3 DEF Invoke, IdleCall
<1>4. ASSUME NEW t \in Threads, Consume(t)
     PROVE  SessionInv'
  BY <1>4 DEF Consume, IdleCall
<1>5. ASSUME NEW t \in Threads, Acquire(t)
     PROVE  SessionInv'
  BY <1>5 DEF Acquire, Goto
<1>6. ASSUME NEW t \in Threads, Close(t)
     PROVE  SessionInv'
  BY <1>6 DEF Close, Disconnect, Return
<1>7. ASSUME NEW t \in Threads, Reuse(t)
     PROVE  SessionInv'
  BY <1>7 DEF Reuse, Goto
<1>8. ASSUME NEW t \in Threads, DropChanged(t)
     PROVE  SessionInv'
  BY <1>8 DEF DropChanged, Disconnect
<1>9. ASSUME NEW t \in Threads, Connect(t)
     PROVE  SessionInv'
  BY <1>9 DEF Connect, Goto
<1>10. ASSUME NEW t \in Threads, ConnectFails(t)
     PROVE  SessionInv'
  BY <1>10 DEF ConnectFails, Return
<1>11. ASSUME NEW t \in Threads, DisablePaging(t)
     PROVE  SessionInv'
  BY <1>11 DEF DisablePaging, Goto
<1>12. ASSUME NEW t \in Threads, VerifyIdentity(t)
     PROVE  SessionInv'
  BY <1>12 DEF VerifyIdentity, Goto
<1>13. ASSUME NEW t \in Threads, GateFails(t)
     PROVE  SessionInv'
  BY <1>13 DEF GateFails, Disconnect, Return
<1>14. ASSUME NEW t \in Threads, AnswerQuery(t)
     PROVE  SessionInv'
  BY <1>14 DEF AnswerQuery
<1>15. ASSUME NEW t \in Threads, AnswerDelete(t)
     PROVE  SessionInv'
  BY <1>15 DEF AnswerDelete, DeviceExecutes
<1>16. ASSUME NEW t \in Threads, SendFails(t)
     PROVE  SessionInv'
  <2>1. lock = t /\ connection = "verified" /\ connection' = "none" /\ config' = NoConfig /\ live' = 0
    BY <1>16 DEF SendFails, Disconnect
  <2>2. \A u \in Threads : u # t => call'[u] = call[u] /\ call[u].pc \notin HeldPcs
    BY <1>16, <2>1 DEF SendFails
  <2>3. call[t].pc = "send" /\ call[t].op \in {"query", "delete"} /\ call[t].sends \in Nat
    BY <1>16 DEF SendFails, Calls, Ops
  <2>4. CASE RetryOnce(call[t].op) /\ call[t].sends = 0
    <3>1. /\ call'[t].pc = "ensure" /\ call'[t].sends = 1 /\ lock' = t
          /\ call'[t].op = "query" /\ call'[t].cfg = call[t].cfg /\ call'[t].mac = call[t].mac
      BY <1>16, <2>4 DEF SendFails, RetryOnce, Calls
    <3> QED
      BY <2>1, <2>2, <2>3, <2>4, <3>1 DEF RetryOnce
  <2>5. CASE ~(RetryOnce(call[t].op) /\ call[t].sends = 0)
    <3>1. /\ call'[t].pc = "return" /\ call'[t].sends = call[t].sends + 1 /\ lock' = NoThread
          /\ call'[t].op = call[t].op /\ call'[t].cfg = call[t].cfg /\ call'[t].mac = call[t].mac
          /\ call'[t].reply = "raised"
      BY <1>16, <2>5 DEF SendFails, Calls
    <3>2. call'[t].sends <= (IF call[t].op = "query" THEN 2 ELSE 1)
      BY <2>3, <2>5, <3>1, <1>16 DEF SendFails, RetryOnce
    <3> QED
      BY <2>1, <2>2, <2>3, <3>1, <3>2
  <2> QED
    BY <2>4, <2>5
<1>17. ASSUME Churn
     PROVE  SessionInv'
  BY <1>17 DEF Churn, UserJoins, UserLeaves
<1>18. ASSUME UNCHANGED sessionVars
     PROVE  SessionInv'
  BY <1>18 DEF sessionVars
<1> QED
  BY <1>1, <1>2, <1>3, <1>4, <1>5, <1>6, <1>7, <1>8, <1>9, <1>10, <1>11, <1>12, <1>13, <1>14, <1>15, <1>16, <1>17, <1>18 DEF SessionNext, Client, SessionStep

LEMMA InvInit == SessionInit => SessionInv
  BY SessionConstants
  DEF SessionInit, SessionInv, SessionTypeOK, LockCoversCall, ConnectionAccounted,
      OnlyVerifiedIsKept, CallFindsConnection, SendsSoFar, AnswersFit, SendsBounded,
      Calls, Pcs, HeldPcs, Ops, Replies, IdleCall

(* The inductive invariant holds in every state the session reaches. *)
THEOREM SessionInvariant == SessionSpec => []SessionInv
<1>1. SessionInv /\ [SessionNext]_sessionVars => SessionInv'
  BY InvStep
<1> QED
  BY InvInit, <1>1, PTL DEF SessionSpec

----------------------------------------------------------------------------
(* The session's types hold throughout. *)
THEOREM SessionTypes == SessionSpec => []SessionTypeOK
<1>1. SessionInv => SessionTypeOK
  BY DEF SessionInv
<1> QED
  BY <1>1, SessionInvariant, PTL

(* No two threads' commands ever interleave on the connection. *)
THEOREM Exclusive == SessionSpec => []LockCoversCall
<1>1. SessionInv => LockCoversCall
  BY DEF SessionInv
<1> QED
  BY <1>1, SessionInvariant, PTL

(* No connection is leaked or forgotten. *)
THEOREM NoLeak == SessionSpec => []ConnectionAccounted
<1>1. SessionInv => ConnectionAccounted
  BY DEF SessionInv
<1> QED
  BY <1>1, SessionInvariant, PTL

(* A connection that survives a call has passed both gates. *)
THEOREM KeptIsVerified == SessionSpec => []OnlyVerifiedIsKept
<1>1. SessionInv => OnlyVerifiedIsKept
  BY DEF SessionInv
<1> QED
  BY <1>1, SessionInvariant, PTL

(* A delete command is never sent twice by one call. *)
THEOREM DeleteSentOnce == SessionSpec => []SendsBounded
<1>1. SessionInv => SendsBounded
  BY DEF SessionInv
<1> QED
  BY <1>1, SessionInvariant, PTL

(* No command leaves on a connection whose gates have not passed, or that   *)
(* was made for another configuration, whoever the clients are.             *)
LEMMA GatedSteps == SessionInit /\ [][SessionNext]_sessionVars => CommandsGated
<1> DEFINE Sends == \A t \in Threads :
                call'[t].sends > call[t].sends
                    => connection = "verified" /\ config = call[t].cfg
<1>1. ASSUME SessionInv, [SessionNext]_sessionVars
      PROVE  [Sends]_sessionVars
  <2> SUFFICES ASSUME NEW u \in Threads, SessionNext, call'[u].sends > call[u].sends
               PROVE  connection = "verified" /\ config = call[u].cfg
    BY <1>1
  <2> USE <1>1 DEF SessionInv, SessionTypeOK, Calls
  <2>1. ASSUME NEW t \in Threads, Client(t)
        PROVE  call'[u].sends <= call[u].sends
    <3>1. ASSUME NEW o, NEW m, NEW c, Invoke(t, o, m, c)
          PROVE  call'[u].sends \in {0, call[u].sends}
      BY <3>1 DEF Invoke, IdleCall
    <3>2. ASSUME Consume(t)
          PROVE  call'[u].sends \in {0, call[u].sends}
      BY <3>2 DEF Consume, IdleCall
    <3>3. call'[u].sends \in {0, call[u].sends} /\ call[u].sends \in Nat
      BY <2>1, <3>1, <3>2 DEF Client
    <3> QED
      BY <3>3
  <2>2. ASSUME NEW t \in Threads, SessionStep(t), call[t].pc # "send"
        PROVE  call'[u].sends = call[u].sends
    <3>1. ASSUME NEW pc, Goto(t, pc) PROVE call'[u].sends = call[u].sends
      BY <3>1 DEF Goto
    <3>2. ASSUME NEW r, Return(t, r) PROVE call'[u].sends = call[u].sends
      BY <3>2 DEF Return
    <3>3. ~AnswerQuery(t) /\ ~AnswerDelete(t) /\ ~SendFails(t)
      BY <2>2 DEF AnswerQuery, AnswerDelete, SendFails
    <3> QED
      BY <2>2, <3>1, <3>2, <3>3
      DEF SessionStep, Acquire, Close, Reuse, DropChanged, Connect, ConnectFails,
          DisablePaging, VerifyIdentity, GateFails
  <2>3. ASSUME NEW t \in Threads, SessionStep(t), t # u
        PROVE  call'[u].sends = call[u].sends
    BY <2>3 DEF SessionStep, Acquire, Close, Reuse, DropChanged, Connect, ConnectFails,
                DisablePaging, VerifyIdentity, GateFails, AnswerQuery, AnswerDelete,
                SendFails, Goto, Return
  <2>4. ASSUME Churn
        PROVE  call'[u].sends = call[u].sends
    BY <2>4 DEF Churn, UserJoins, UserLeaves
  <2>5. call[u].sends \in Nat /\ call'[u].sends \in Nat
    BY TypeStep
  <2>6. call[u].pc = "send"
    BY <2>1, <2>2, <2>3, <2>4, <2>5 DEF SessionNext
  <2> QED
    BY <2>6 DEF CallFindsConnection
<1>2. SessionInv /\ [SessionNext]_sessionVars => SessionInv'
  BY InvStep
<1> QED
  BY <1>1, <1>2, InvInit, PTL DEF CommandsGated

(* The session sends no command but through both gates of the connection    *)
(* it was asked for.                                                        *)
THEOREM Gated == SessionSpec => CommandsGated
BY GatedSteps, PTL DEF SessionSpec
============================================================================
