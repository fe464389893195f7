-------------------------- MODULE CleanupRunProofs --------------------------
(***************************************************************************)
(* Proofs about the runner composed with the session, for any numbers of   *)
(* threads, configurations and MACs, any delay and either session mode.    *)
(***************************************************************************)
EXTENDS CleanupRun, MmSessionProofs

(* A thread outside the run only ever closes the session. *)
OutsidersOnlyClose ==
    \A t \in Threads : runLock # t => call[t].op = "close"

(* The lock is held exactly while a run is under way, and the call its      *)
(* thread is making is the one its phase is about.                          *)
PhaseMatchesCall ==
    /\ runLock = NoThread <=> phase = "idle"
    /\ \A t \in Threads : runLock = t =>
          /\ phase \in {"query", "verify"} => call[t].op = "query"
          /\ phase = "deleting" => call[t].op \in {"close", "delete"}
          /\ phase = "deleting" /\ call[t].op = "close" => call[t].pc = "idle"
          /\ phase \notin {"query", "verify", "deleting"} => call[t].op = "close"
          /\ phase \notin {"query", "verify", "deleting", "closing"} => call[t].pc = "idle"

(* Before the delete loop nothing was sent; in it, nothing for the MACs it  *)
(* has not reached, nor for the one whose command is still on its way.      *)
SentSoFar ==
    /\ phase \in {"query", "approval", "countdown"} => \A m \in Macs : sent[m] = 0
    /\ phase = "deleting" => \A m \in todo : sent[m] = 0
    /\ \A t \in Threads : runLock = t /\ phase = "deleting" /\ call[t].op = "delete" =>
          /\ call[t].mac \notin todo
          /\ call[t].pc # "return" => sent[call[t].mac] = 0

(* What the loop works on was approved. *)
LoopWithinApproval ==
    /\ phase = "countdown" => approved = summary.targets
    /\ phase = "deleting" => todo \subseteq approved /\ approved = summary.targets
    /\ \A t \in Threads :
          runLock = t /\ phase = "deleting" /\ call[t].op = "delete" => call[t].mac \in approved

(* A run has a configuration. *)
ConfigChosen == phase # "idle" => runConfig \in Configs

RunInv ==
    /\ TypeOK
    /\ SessionInv
    /\ ConfigChosen
    /\ OutsidersOnlyClose
    /\ PhaseMatchesCall
    /\ SentSoFar
    /\ LoopWithinApproval
    /\ AtMostOneDelete
    /\ OnlyApprovedDeleted

----------------------------------------------------------------------------
(* A session step advances one call that is under way; it neither ends it   *)
(* for the caller nor changes what it is about, nor any other call.         *)
LEMMA CallFrame ==
    ASSUME SessionTypeOK, NEW t \in Threads, SessionStep(t)
    PROVE  /\ call[t].pc \notin {"idle", "return"}
           /\ call'[t].pc # "idle"
           /\ call'[t].op = call[t].op
           /\ call'[t].mac = call[t].mac
           /\ \A u \in Threads : u # t => call'[u] = call[u]
<1> USE DEF SessionTypeOK, Calls
<1>1. ASSUME NEW pc, Goto(t, pc), pc # "idle", call[t].pc # "idle"
      PROVE  /\ call'[t].pc # "idle"
             /\ call'[t].op = call[t].op
             /\ call'[t].mac = call[t].mac
             /\ \A u \in Threads : u # t => call'[u] = call[u]
  BY <1>1 DEF Goto
<1>2. ASSUME NEW r, Return(t, r), call[t].pc # "idle"
      PROVE  /\ call'[t].pc # "idle"
             /\ call'[t].op = call[t].op
             /\ call'[t].mac = call[t].mac
             /\ \A u \in Threads : u # t => call'[u] = call[u]
  BY <1>2 DEF Return
<1>3. CASE Acquire(t)
  BY <1>3, <1>1 DEF Acquire
<1>4. CASE Close(t) \/ ConnectFails(t) \/ GateFails(t)
  BY <1>4, <1>2 DEF Close, ConnectFails, GateFails
<1>5. CASE Reuse(t) \/ DropChanged(t) \/ Connect(t) \/ DisablePaging(t) \/ VerifyIdentity(t)
  BY <1>5, <1>1 DEF Reuse, DropChanged, Connect, DisablePaging, VerifyIdentity
<1>6. CASE AnswerQuery(t)
  BY <1>6 DEF AnswerQuery
<1>7. CASE AnswerDelete(t)
  BY <1>7 DEF AnswerDelete
<1>8. CASE SendFails(t)
  BY <1>8 DEF SendFails
<1> QED
  BY <1>3, <1>4, <1>5, <1>6, <1>7, <1>8 DEF SessionStep

(* The runner and the other threads touch the session only by its calls. *)
LEMMA OnlySessionCalls ==
    ASSUME [Next]_vars, TypeOK, ConfigChosen
    PROVE  [SessionNext]_sessionVars
<1>1. ASSUME NEW t \in Threads, Consume(t)
      PROVE  SessionNext
  BY <1>1 DEF SessionNext, Client
<1>2. ASSUME NEW t \in Threads, NEW c \in Configs, Invoke(t, "query", NoMac, c)
      PROVE  SessionNext
  BY <1>2 DEF SessionNext, Client
<1>3. ASSUME NEW t \in Threads, NEW c \in Configs, NEW m \in Macs, Invoke(t, "delete", m, c)
      PROVE  SessionNext
  BY <1>3 DEF SessionNext, Client
<1>4. ASSUME NEW t \in Threads, Invoke(t, "close", NoMac, NoConfig)
      PROVE  SessionNext
  BY <1>4 DEF SessionNext, Client
<1>5. ASSUME NEW t \in Threads, NEW k, NEW c \in Configs, Start(t, k, c)
      PROVE  SessionNext
  BY <1>5, <1>2 DEF Start
<1>6. ASSUME NEW t \in Threads, RunStep(t)
      PROVE  SessionNext \/ UNCHANGED sessionVars
  <2>1. CASE QueryReturned(t) \/ DeleteReturned(t) \/ VerificationReturned(t) \/ SessionClosed(t)
    BY <2>1, <1>1 DEF QueryReturned, DeleteReturned, VerificationReturned, SessionClosed
  <2>2. CASE DeleteNext(t)
    <3>1. PICK m \in todo : Invoke(t, "delete", m, runConfig)
      BY <2>2 DEF DeleteNext
    <3>2. m \in Macs /\ runConfig \in Configs
      BY <2>2, <3>1 DEF DeleteNext, At, TypeOK, ConfigChosen
    <3> QED
      BY <3>1, <3>2, <1>3
  <2>3. CASE StartVerification(t)
    <3>1. runConfig \in Configs /\ Invoke(t, "query", NoMac, runConfig)
      BY <2>3 DEF StartVerification, At, ConfigChosen
    <3> QED
      BY <3>1, <1>2
  <2>4. CASE CloseSession(t)
    BY <2>4, <1>4 DEF CloseSession
  <2>5. ASSUME \/ Approve(t) \/ Deny(t) \/ CountdownCanceled(t) \/ CountdownTick(t)
               \/ CountdownDone(t) \/ DeleteLoopEnds(t) \/ CancelNotSeenAfterLoop(t)
               \/ SkipVerification(t) \/ KeepSession(t) \/ WriteAudit(t)
               \/ AppendHistory(t) \/ Release(t)
        PROVE  UNCHANGED sessionVars
    BY <2>5 DEF Approve, Deny, CountdownCanceled, CountdownTick, CountdownDone,
                DeleteLoopEnds, CancelNotSeenAfterLoop, SkipVerification, KeepSession,
                WriteAudit, AppendHistory, Release
  <2> QED
    BY <1>6, <2>1, <2>2, <2>3, <2>4, <2>5 DEF RunStep
<1>7. ASSUME NEW t \in Threads, CallStep(t)
      PROVE  SessionNext
  BY <1>7 DEF CallStep, SessionNext
<1>8. ASSUME NEW t \in Threads, CloseFromOutside(t) \/ OutsideClosed(t)
      PROVE  SessionNext
  BY <1>8, <1>1, <1>4 DEF CloseFromOutside, OutsideClosed
<1>9. ASSUME RequestCancel \/ UNCHANGED vars
      PROVE  UNCHANGED sessionVars
  BY <1>9 DEF RequestCancel, vars
<1>10. ASSUME Environment
       PROVE  SessionNext
  BY <1>10 DEF Environment, SessionNext
<1> QED
  BY <1>5, <1>6, <1>7, <1>8, <1>9, <1>10 DEF Next

----------------------------------------------------------------------------
(* What the result operators give is well formed. *)
LEMMA ResultTypes ==
    /\ \A reply \in {"deleted", "failed", "unknown", "raised"} : DeleteResult(reply) \in Results
    /\ \A r \in Results, m \in Macs, rows \in SUBSET Macs : Verified(r, m, rows) \in Results
    /\ \A r \in Results : HistoryLabel(r) \in Labels
    /\ NoResult \in Results
<1>1. \A reply \in {"deleted", "failed", "unknown", "raised"} : DeleteResult(reply) \in Results
  BY DEF DeleteResult, Results, Statuses
<1>2. \A r \in Results, m \in Macs, rows \in SUBSET Macs : Verified(r, m, rows) \in Results
  BY DEF Verified, Results, Statuses
<1>3. \A r \in Results : HistoryLabel(r) \in Labels
  BY DEF HistoryLabel, Success, Results, Statuses, Labels
<1>4. NoResult \in Results
  BY DEF NoResult, Results, Statuses
<1> QED
  BY <1>1, <1>2, <1>3, <1>4

(* Counting one more command keeps the counters natural numbers. *)
LEMMA CountOneMore ==
    ASSUME NEW f \in [Macs -> Nat], NEW x
    PROVE  [f EXCEPT ![x] = @ + 1] \in [Macs -> Nat]
<1>1. \A y \in Macs : [f EXCEPT ![x] = @ + 1][y] \in Nat
  <2> TAKE y \in Macs
  <2>1. f[y] \in Nat /\ f[y] + 1 \in Nat
    OBVIOUS
  <2>2. [f EXCEPT ![x] = @ + 1][y] = IF y = x THEN f[y] + 1 ELSE f[y]
    OBVIOUS
  <2> QED
    BY <2>1, <2>2
<1> QED
  BY <1>1

(* Every step keeps the types. *)
LEMMA RunTypeStep ==
    ASSUME TypeOK, SessionInv, ConfigChosen, PhaseMatchesCall, [Next]_vars
    PROVE  TypeOK'
<1>0. SessionTypeOK'
  BY OnlySessionCalls, TypeStep DEF TypeOK
<1> USE RunConstants, <1>0 DEF TypeOK, Summaries, observations, runnerVars
<1>1. ASSUME NEW t \in Threads, NEW k \in {"run", "preview"}, NEW c \in Configs, Start(t, k, c)
     PROVE  TypeOK'
  BY <1>1 DEF Start, EmptySummary, Results, Statuses, Labels, NoResult
<1>2. ASSUME NEW t \in Threads, QueryReturned(t)
     PROVE  TypeOK'
  <2>1. call[t].rows \in SUBSET Macs
    BY DEF SessionTypeOK, Calls
  <2> QED
    BY <1>2, <2>1 DEF QueryReturned, At, FinishWith
<1>3. ASSUME NEW t \in Threads, Approve(t)
     PROVE  TypeOK'
  BY <1>3 DEF Approve, At
<1>4. ASSUME NEW t \in Threads, Deny(t)
     PROVE  TypeOK'
  BY <1>4 DEF Deny, At, FinishWith, CanceledBefore
<1>5. ASSUME NEW t \in Threads, CountdownCanceled(t)
     PROVE  TypeOK'
  BY <1>5 DEF CountdownCanceled, At, FinishWith, CanceledBefore
<1>6. ASSUME NEW t \in Threads, CountdownTick(t)
     PROVE  TypeOK'
  BY <1>6 DEF CountdownTick, At
<1>7. ASSUME NEW t \in Threads, CountdownDone(t)
     PROVE  TypeOK'
  BY <1>7 DEF CountdownDone, At
<1>8. ASSUME NEW t \in Threads, DeleteNext(t)
     PROVE  TypeOK'
  BY <1>8 DEF DeleteNext, At
<1>9. ASSUME NEW t \in Threads, DeleteReturned(t)
     PROVE  TypeOK'
  <2>1. call[t].pc = "return" /\ call[t].op = "delete"
    BY <1>9 DEF DeleteReturned, At, Consume, PhaseMatchesCall, SessionTypeOK, Calls, Ops
  <2>2. DeleteResult(call[t].reply) \in Results
    BY <2>1, ResultTypes DEF SessionInv, AnswersFit
  <2> QED
    BY <1>9, <2>2 DEF DeleteReturned, At
<1>10. ASSUME NEW t \in Threads, DeleteLoopEnds(t)
     PROVE  TypeOK'
  BY <1>10 DEF DeleteLoopEnds, At
<1>11. ASSUME NEW t \in Threads, CancelNotSeenAfterLoop(t)
     PROVE  TypeOK'
  BY <1>11 DEF CancelNotSeenAfterLoop, At
<1>12. ASSUME NEW t \in Threads, SkipVerification(t)
     PROVE  TypeOK'
  BY <1>12 DEF SkipVerification, At, FinishWith, Counted, Attempted
<1>13. ASSUME NEW t \in Threads, StartVerification(t)
     PROVE  TypeOK'
  BY <1>13 DEF StartVerification, At
<1>14. ASSUME NEW t \in Threads, VerificationReturned(t)
     PROVE  TypeOK'
  <2> DEFINE rows == call[t].rows
             checked == [m \in Macs |-> IF summary.results[m] = NoResult THEN NoResult
                                        ELSE Verified(summary.results[m], m, rows)]
  <2>1. rows \in SUBSET Macs
    BY DEF SessionTypeOK, Calls
  <2>2. checked \in [Macs -> Results]
    BY <2>1, ResultTypes
  <2>3. summary' \in Summaries
    <3>1. CASE call[t].reply = "rows"
      <4>1. summary' = [Counted([summary EXCEPT !.results = checked]) EXCEPT
                !.remaining = rows,
                !.reappeared = {m \in Macs : checked[m].status = "reappeared"}]
        BY <1>14, <3>1 DEF VerificationReturned, FinishWith
      <4> HIDE DEF checked, rows
      <4> QED
        BY <4>1, <2>1, <2>2 DEF Counted, Attempted
    <3>2. CASE call[t].reply # "rows"
      BY <1>14, <3>2 DEF VerificationReturned, FinishWith
    <3> QED
      BY <3>1, <3>2
  <2> QED
    BY <1>14, <2>3 DEF VerificationReturned, At, FinishWith
<1>15. ASSUME NEW t \in Threads, KeepSession(t)
     PROVE  TypeOK'
  BY <1>15 DEF KeepSession, At, Recording
<1>16. ASSUME NEW t \in Threads, CloseSession(t)
     PROVE  TypeOK'
  BY <1>16 DEF CloseSession, At
<1>17. ASSUME NEW t \in Threads, SessionClosed(t)
     PROVE  TypeOK'
  BY <1>17 DEF SessionClosed, At, Recording
<1>18. ASSUME NEW t \in Threads, WriteAudit(t)
     PROVE  TypeOK'
  BY <1>18 DEF WriteAudit, At
<1>19. ASSUME NEW t \in Threads, AppendHistory(t)
     PROVE  TypeOK'
  <2>1. PICK lines \in {[m \in Macs |-> HistoryLabel(summary.results[m])], EmptySummary.history} :
            summary' = [summary EXCEPT !.history = lines]
    BY <1>19 DEF AppendHistory
  <2>2. EmptySummary.history \in [Macs -> Labels]
    BY DEF EmptySummary, Labels
  <2>3. [m \in Macs |-> HistoryLabel(summary.results[m])] \in [Macs -> Labels]
    BY ResultTypes
  <2>4. lines \in [Macs -> Labels]
    BY <2>2, <2>3
  <2> QED
    BY <1>19, <2>1, <2>4 DEF AppendHistory, At
<1>20. ASSUME NEW t \in Threads, Release(t)
     PROVE  TypeOK'
  BY <1>20 DEF Release, At
<1>21. ASSUME NEW t \in Threads, CallStep(t)
     PROVE  TypeOK'
  <2>1. table \in SUBSET Macs
    BY DEF SessionTypeOK
  <2>2. sent' \in [Macs -> Nat] /\ lateDeletes' \in Nat
    <3>1. CASE Transmits(t)
      <4>1. sent' = [sent EXCEPT ![call[t].mac] = @ + 1]
        BY <1>21, <3>1 DEF CallStep
      <4>2. sent' \in [Macs -> Nat]
        BY <4>1, CountOneMore DEF TypeOK
      <4>3. lateDeletes' \in Nat
        BY <1>21 DEF CallStep
      <4> QED
        BY <4>2, <4>3
    <3>2. CASE ~Transmits(t)
      BY <1>21, <3>2 DEF CallStep
    <3> QED
      BY <3>1, <3>2
  <2>3. removed' \in SUBSET Macs /\ answered' \in SUBSET Macs
    BY <1>21, <2>1 DEF CallStep
  <2> QED
    BY <1>21, <2>2, <2>3 DEF CallStep
<1>22. ASSUME NEW t \in Threads, CloseFromOutside(t) \/ OutsideClosed(t)
     PROVE  TypeOK'
  BY <1>22 DEF CloseFromOutside, OutsideClosed
<1>23. ASSUME RequestCancel \/ Environment \/ UNCHANGED vars
     PROVE  TypeOK'
  BY <1>23 DEF RequestCancel, Environment, vars
<1> QED
  BY <1>1, <1>2, <1>3, <1>4, <1>5, <1>6, <1>7, <1>8, <1>9, <1>10, <1>11, <1>12, <1>13, <1>14, <1>15, <1>16, <1>17, <1>18, <1>19, <1>20, <1>21, <1>22, <1>23 DEF Next, RunStep

----------------------------------------------------------------------------
(* Every step keeps the control part of the inductive invariant. *)
LEMMA RunControlStep ==
    ASSUME RunInv, [Next]_vars
    PROVE  ConfigChosen' /\ OutsidersOnlyClose' /\ PhaseMatchesCall'
<1> DEFINE Goal == ConfigChosen' /\ OutsidersOnlyClose' /\ PhaseMatchesCall'
<1> USE SessionConstants DEF RunInv, ConfigChosen, OutsidersOnlyClose, PhaseMatchesCall,
        TypeOK, SessionTypeOK, At
<1>1. ASSUME NEW t \in Threads, NEW k \in {"run", "preview"}, NEW c \in Configs, Start(t, k, c)
     PROVE  Goal
  BY <1>1 DEF Start, Invoke, IdleCall
<1>2. ASSUME NEW t \in Threads, QueryReturned(t)
     PROVE  Goal
  BY <1>2 DEF QueryReturned, FinishWith, Consume, IdleCall
<1>3. ASSUME NEW t \in Threads, Approve(t)
     PROVE  Goal
  BY <1>3 DEF Approve, sessionVars
<1>4. ASSUME NEW t \in Threads, Deny(t)
     PROVE  Goal
  BY <1>4 DEF Deny, FinishWith, sessionVars
<1>5. ASSUME NEW t \in Threads, CountdownCanceled(t)
     PROVE  Goal
  BY <1>5 DEF CountdownCanceled, FinishWith, sessionVars
<1>6. ASSUME NEW t \in Threads, CountdownTick(t)
     PROVE  Goal
  BY <1>6 DEF CountdownTick, sessionVars
<1>7. ASSUME NEW t \in Threads, CountdownDone(t)
     PROVE  Goal
  BY <1>7 DEF CountdownDone, sessionVars
<1>8. ASSUME NEW t \in Threads, DeleteNext(t)
     PROVE  Goal
  BY <1>8 DEF DeleteNext, Invoke, IdleCall
<1>9. ASSUME NEW t \in Threads, DeleteReturned(t)
     PROVE  Goal
  BY <1>9 DEF DeleteReturned, Consume, IdleCall
<1>10. ASSUME NEW t \in Threads, DeleteLoopEnds(t)
     PROVE  Goal
  BY <1>10 DEF DeleteLoopEnds, sessionVars, SessionInv, SendsSoFar
<1>11. ASSUME NEW t \in Threads, CancelNotSeenAfterLoop(t)
     PROVE  Goal
  BY <1>11 DEF CancelNotSeenAfterLoop, sessionVars
<1>12. ASSUME NEW t \in Threads, SkipVerification(t)
     PROVE  Goal
  BY <1>12 DEF SkipVerification, FinishWith, sessionVars
<1>13. ASSUME NEW t \in Threads, StartVerification(t)
     PROVE  Goal
  BY <1>13 DEF StartVerification, Invoke, IdleCall
<1>14. ASSUME NEW t \in Threads, VerificationReturned(t)
     PROVE  Goal
  BY <1>14 DEF VerificationReturned, FinishWith, Consume, IdleCall
<1>15. ASSUME NEW t \in Threads, KeepSession(t)
     PROVE  Goal
  BY <1>15 DEF KeepSession, Recording, sessionVars
<1>16. ASSUME NEW t \in Threads, CloseSession(t)
     PROVE  Goal
  BY <1>16 DEF CloseSession, Invoke, IdleCall
<1>17. ASSUME NEW t \in Threads, SessionClosed(t)
     PROVE  Goal
  BY <1>17 DEF SessionClosed, Recording, Consume, IdleCall
<1>18. ASSUME NEW t \in Threads, WriteAudit(t)
     PROVE  Goal
  BY <1>18 DEF WriteAudit, sessionVars
<1>19. ASSUME NEW t \in Threads, AppendHistory(t)
     PROVE  Goal
  BY <1>19 DEF AppendHistory, sessionVars
<1>20. ASSUME NEW t \in Threads, Release(t)
     PROVE  Goal
  BY <1>20 DEF Release, sessionVars
<1>21. ASSUME NEW t \in Threads, CallStep(t)
     PROVE  Goal
  BY <1>21, CallFrame DEF CallStep, runnerVars
<1>22. ASSUME NEW t \in Threads, CloseFromOutside(t) \/ OutsideClosed(t)
     PROVE  Goal
  <2>1. /\ runLock # t /\ call'[t].op = "close"
        /\ UNCHANGED <<runLock, phase, runConfig>>
        /\ \A u \in Threads : u # t => call'[u] = call[u]
    <3>1. CASE CloseFromOutside(t)
      BY <3>1 DEF CloseFromOutside, Invoke, IdleCall
    <3>2. CASE OutsideClosed(t)
      BY <3>2 DEF OutsideClosed, Consume, IdleCall, runnerVars
    <3> QED
      BY <1>22, <3>1, <3>2
  <2> QED
    BY <2>1
<1>23. ASSUME RequestCancel \/ Environment \/ UNCHANGED vars
     PROVE  Goal
  BY <1>23 DEF RequestCancel, Environment, vars, Churn, UserJoins, UserLeaves, sessionVars, runnerVars
<1> QED
  BY <1>1, <1>2, <1>3, <1>4, <1>5, <1>6, <1>7, <1>8, <1>9, <1>10, <1>11, <1>12, <1>13, <1>14, <1>15, <1>16, <1>17, <1>18, <1>19, <1>20, <1>21, <1>22, <1>23 DEF Next, RunStep

(* The delete loop sends each approved MAC at most one command. *)
LEMMA RunDataStep ==
    ASSUME RunInv, [Next]_vars, TypeOK', SessionInv'
    PROVE  SentSoFar' /\ LoopWithinApproval' /\ AtMostOneDelete' /\ OnlyApprovedDeleted'
<1> DEFINE Goal == SentSoFar' /\ LoopWithinApproval' /\ AtMostOneDelete' /\ OnlyApprovedDeleted'
<1> USE SessionConstants DEF RunInv, SentSoFar, LoopWithinApproval, AtMostOneDelete,
        OnlyApprovedDeleted, TypeOK, At
<1>1. ASSUME NEW t \in Threads, NEW k \in {"run", "preview"}, NEW c \in Configs, Start(t, k, c)
     PROVE  Goal
  BY <1>1 DEF Start
<1>2. ASSUME NEW t \in Threads, QueryReturned(t)
     PROVE  Goal
  BY <1>2 DEF QueryReturned, FinishWith, Consume, IdleCall, PhaseMatchesCall, SessionTypeOK, observations, sessionVars
<1>3. ASSUME NEW t \in Threads, Approve(t)
     PROVE  Goal
  BY <1>3 DEF Approve, PhaseMatchesCall, SessionTypeOK, observations, sessionVars
<1>4. ASSUME NEW t \in Threads, Deny(t)
     PROVE  Goal
  BY <1>4 DEF Deny, FinishWith, PhaseMatchesCall, SessionTypeOK, observations, sessionVars
<1>5. ASSUME NEW t \in Threads, CountdownCanceled(t)
     PROVE  Goal
  BY <1>5 DEF CountdownCanceled, FinishWith, PhaseMatchesCall, SessionTypeOK, observations, sessionVars
<1>6. ASSUME NEW t \in Threads, CountdownTick(t)
     PROVE  Goal
  BY <1>6 DEF CountdownTick, PhaseMatchesCall, SessionTypeOK, observations, sessionVars
<1>7. ASSUME NEW t \in Threads, CountdownDone(t)
     PROVE  Goal
  BY <1>7 DEF CountdownDone, PhaseMatchesCall, SessionTypeOK, observations, sessionVars
<1>8. ASSUME NEW t \in Threads, DeleteNext(t)
     PROVE  Goal
  BY <1>8 DEF DeleteNext, Invoke, IdleCall, PhaseMatchesCall, SessionTypeOK, observations, sessionVars
<1>9. ASSUME NEW t \in Threads, DeleteReturned(t)
     PROVE  Goal
  BY <1>9 DEF DeleteReturned, Consume, IdleCall, PhaseMatchesCall, SessionTypeOK, observations, sessionVars
<1>10. ASSUME NEW t \in Threads, DeleteLoopEnds(t)
     PROVE  Goal
  BY <1>10 DEF DeleteLoopEnds, PhaseMatchesCall, SessionTypeOK, observations, sessionVars
<1>11. ASSUME NEW t \in Threads, CancelNotSeenAfterLoop(t)
     PROVE  Goal
  BY <1>11 DEF CancelNotSeenAfterLoop, PhaseMatchesCall, SessionTypeOK, observations, sessionVars
<1>12. ASSUME NEW t \in Threads, SkipVerification(t)
     PROVE  Goal
  BY <1>12 DEF SkipVerification, FinishWith, PhaseMatchesCall, SessionTypeOK, observations, sessionVars
<1>13. ASSUME NEW t \in Threads, StartVerification(t)
     PROVE  Goal
  BY <1>13 DEF StartVerification, Invoke, IdleCall, PhaseMatchesCall, SessionTypeOK, observations, sessionVars
<1>14. ASSUME NEW t \in Threads, VerificationReturned(t)
     PROVE  Goal
  BY <1>14 DEF VerificationReturned, FinishWith, Consume, IdleCall, PhaseMatchesCall, SessionTypeOK, observations, sessionVars
<1>15. ASSUME NEW t \in Threads, KeepSession(t)
     PROVE  Goal
  BY <1>15 DEF KeepSession, Recording, PhaseMatchesCall, SessionTypeOK, observations, sessionVars
<1>16. ASSUME NEW t \in Threads, CloseSession(t)
     PROVE  Goal
  BY <1>16 DEF CloseSession, Invoke, IdleCall, PhaseMatchesCall, SessionTypeOK, observations, sessionVars
<1>17. ASSUME NEW t \in Threads, SessionClosed(t)
     PROVE  Goal
  BY <1>17 DEF SessionClosed, Recording, Consume, IdleCall, PhaseMatchesCall, SessionTypeOK, observations, sessionVars
<1>18. ASSUME NEW t \in Threads, WriteAudit(t)
     PROVE  Goal
  BY <1>18 DEF WriteAudit, PhaseMatchesCall, SessionTypeOK, observations, sessionVars
<1>19. ASSUME NEW t \in Threads, AppendHistory(t)
     PROVE  Goal
  BY <1>19 DEF AppendHistory, PhaseMatchesCall, SessionTypeOK, observations, sessionVars
<1>20. ASSUME NEW t \in Threads, Release(t)
     PROVE  Goal
  BY <1>20 DEF Release, PhaseMatchesCall, SessionTypeOK, observations, sessionVars
<1>21. ASSUME NEW t \in Threads, CallStep(t)
     PROVE  Goal
  <2>1. /\ call[t].pc # "return"
        /\ call'[t].op = call[t].op
        /\ call'[t].mac = call[t].mac
        /\ \A u \in Threads : u # t => call'[u] = call[u]
    BY <1>21, CallFrame DEF CallStep
  <2>2. UNCHANGED <<runLock, phase, todo, summary, approved>>
    BY <1>21 DEF CallStep, runnerVars
  <2>3. CASE ~Transmits(t)
    <3>1. sent' = sent
      BY <1>21, <2>3 DEF CallStep
    <3> QED
      BY <2>1, <2>2, <3>1
  <2>4. CASE Transmits(t)
    <3> DEFINE mac == call[t].mac
    <3>1. call[t].op = "delete" /\ call'[t].sends > call[t].sends
      BY <2>4 DEF Transmits
    <3>2. runLock = t /\ phase = "deleting"
      BY <3>1 DEF OutsidersOnlyClose, PhaseMatchesCall
    <3>3. mac \notin todo /\ mac \in approved /\ sent[mac] = 0 /\ mac \in Macs
      BY <2>1, <3>1, <3>2
    <3>4. sent' = [sent EXCEPT ![mac] = 1]
      BY <1>21, <2>4, <3>3 DEF CallStep
    <3>5. call'[t].pc = "return"
      BY <2>1, <3>1 DEF SessionInv, SendsSoFar, SessionTypeOK, Calls
    <3> HIDE DEF mac
    <3> QED
      BY <2>1, <2>2, <3>1, <3>2, <3>3, <3>4, <3>5 DEF mac
  <2> QED
    BY <2>3, <2>4
<1>22. ASSUME NEW t \in Threads, CloseFromOutside(t) \/ OutsideClosed(t)
     PROVE  Goal
  <2>1. /\ runLock # t
        /\ UNCHANGED <<runLock, phase, todo, summary, sent, approved>>
        /\ \A u \in Threads : u # t => call'[u] = call[u]
    <3>1. CASE CloseFromOutside(t)
      BY <3>1 DEF CloseFromOutside, Invoke, SessionTypeOK, observations
    <3>2. CASE OutsideClosed(t)
      BY <3>2 DEF OutsideClosed, Consume, SessionTypeOK, runnerVars, observations
    <3> QED
      BY <1>22, <3>1, <3>2
  <2> QED
    BY <2>1
<1>23. ASSUME RequestCancel \/ Environment \/ UNCHANGED vars
     PROVE  Goal
  BY <1>23 DEF RequestCancel, Environment, vars, Churn, UserJoins, UserLeaves, sessionVars, runnerVars, observations
<1> QED
  BY <1>1, <1>2, <1>3, <1>4, <1>5, <1>6, <1>7, <1>8, <1>9, <1>10, <1>11, <1>12, <1>13, <1>14, <1>15, <1>16, <1>17, <1>18, <1>19, <1>20, <1>21, <1>22, <1>23 DEF Next, RunStep

----------------------------------------------------------------------------
(* The invariant holds at the start and every step keeps it. *)
LEMMA RunInit ==
    ASSUME Init
    PROVE  RunInv
<1>1. SessionInv
  BY InvInit DEF Init
<1>2. TypeOK
  <2>1. EmptySummary \in Summaries
    BY DEF EmptySummary, Summaries, Results, Statuses, Labels, NoResult
  <2> QED
    BY <1>1, <2>1 DEF Init, TypeOK, SessionInv
<1>3. OutsidersOnlyClose /\ PhaseMatchesCall /\ ConfigChosen
  BY SessionConstants DEF Init, SessionInit, IdleCall, OutsidersOnlyClose, PhaseMatchesCall,
     ConfigChosen
<1>4. SentSoFar /\ LoopWithinApproval /\ AtMostOneDelete /\ OnlyApprovedDeleted
  BY DEF Init, SentSoFar, LoopWithinApproval, AtMostOneDelete, OnlyApprovedDeleted
<1> QED
  BY <1>1, <1>2, <1>3, <1>4 DEF RunInv

LEMMA RunInvStep ==
    ASSUME RunInv, [Next]_vars
    PROVE  RunInv'
<1>1. [SessionNext]_sessionVars
  BY OnlySessionCalls DEF RunInv
<1>2. SessionInv'
  BY <1>1, InvStep DEF RunInv
<1>3. TypeOK'
  BY RunTypeStep DEF RunInv
<1>4. ConfigChosen' /\ OutsidersOnlyClose' /\ PhaseMatchesCall'
  BY RunControlStep
<1>5. SentSoFar' /\ LoopWithinApproval' /\ AtMostOneDelete' /\ OnlyApprovedDeleted'
  BY <1>2, <1>3, RunDataStep
<1> QED
  BY <1>2, <1>3, <1>4, <1>5 DEF RunInv

(* In every reachable state the inductive invariant holds. *)
THEOREM RunInvariant == Spec => []RunInv
<1>1. Init => RunInv
  BY RunInit
<1>2. RunInv /\ [Next]_vars => RunInv'
  BY RunInvStep
<1> QED
  BY <1>1, <1>2, PTL DEF Spec

(* The runner's state and the observations always have their types. *)
THEOREM RunTypes == Spec => []TypeOK
<1>1. RunInv => TypeOK
  BY DEF RunInv
<1> QED
  BY <1>1, RunInvariant, PTL

(* No MAC ever gets a second delete command in a run, whatever is lost, how *)
(* often the session reconnects and whoever closes it meanwhile.            *)
THEOREM DeletedOnce == Spec => []AtMostOneDelete
<1>1. RunInv => AtMostOneDelete
  BY DEF RunInv
<1> QED
  BY <1>1, RunInvariant, PTL

(* No delete command is ever sent for a MAC outside the approved snapshot.  *)
THEOREM ApprovedOnly == Spec => []OnlyApprovedDeleted
<1>1. RunInv => OnlyApprovedDeleted
  BY DEF RunInv
<1> QED
  BY <1>1, RunInvariant, PTL

(* Composition: the runner is a client of the session, so what holds of the *)
(* session under any clients holds in every run.                            *)
THEOREM RunnerUsesSession == Spec => UsesSession
<1>1. Init => SessionInit
  BY DEF Init
<1>2. RunInv /\ [Next]_vars => [SessionNext]_sessionVars
  BY OnlySessionCalls DEF RunInv
<1> QED
  BY <1>1, <1>2, RunInvariant, PTL DEF Spec, UsesSession

(* A run's session leaks no connection, keeps only verified ones and sends  *)
(* no delete twice for one call.                                            *)
THEOREM RunKeepsSession ==
    Spec => [](ConnectionAccounted /\ OnlyVerifiedIsKept /\ SendsBounded)
<1>1. RunInv => ConnectionAccounted /\ OnlyVerifiedIsKept /\ SendsBounded
  BY DEF RunInv, SessionInv
<1> QED
  BY <1>1, RunInvariant, PTL

(* Every command of a run goes out through both gates, on a connection made *)
(* for the run's own configuration.                                         *)
THEOREM RunIsGated == Spec => CommandsGated
BY RunnerUsesSession, GatedSteps, PTL DEF UsesSession

----------------------------------------------------------------------------
(* Late deletes: while no cancellation is requested there are none, and     *)
(* after the one that was under way no other can be.                        *)
CancelSoFar ==
    /\ lateDeletes \in {0, 1}
    /\ ~cancel => lateDeletes = 0
    /\ lateDeletes = 1 => \A t \in Threads : call[t].op = "delete" => call[t].pc = "return"

LEMMA CancelStep ==
    ASSUME RunInv, RunInv', CancelSoFar, [Next]_vars
    PROVE  CancelSoFar'
<1> USE DEF CancelSoFar, RunInv, TypeOK, SessionTypeOK
<1>1. ASSUME NEW t \in Threads, NEW k \in {"run", "preview"}, NEW c \in Configs, Start(t, k, c)
      PROVE  CancelSoFar'
  BY <1>1 DEF Start
<1>2. ASSUME NEW t \in Threads, RunStep(t), UNCHANGED sessionVars
      PROVE  CancelSoFar'
  BY <1>2 DEF sessionVars, observations, RunStep, QueryReturned, Approve, Deny,
     CountdownCanceled, CountdownTick, CountdownDone, DeleteNext, DeleteReturned,
     DeleteLoopEnds, CancelNotSeenAfterLoop, SkipVerification, StartVerification,
     VerificationReturned, KeepSession, CloseSession, SessionClosed, WriteAudit,
     AppendHistory, Release
<1>3. ASSUME NEW t \in Threads, UNCHANGED <<cancel, lateDeletes>>, Consume(t)
      PROVE  CancelSoFar'
  BY <1>3 DEF Consume, IdleCall
<1>4. ASSUME NEW t \in Threads, UNCHANGED <<cancel, lateDeletes>>, NEW o, NEW m, NEW c,
             Invoke(t, o, m, c), o # "delete" \/ ~cancel
      PROVE  CancelSoFar'
  BY <1>4 DEF Invoke, IdleCall
<1>5. ASSUME NEW t \in Threads, RunStep(t)
      PROVE  CancelSoFar'
  <2>1. CASE QueryReturned(t) \/ DeleteReturned(t) \/ VerificationReturned(t) \/ SessionClosed(t)
    BY <2>1, <1>3 DEF QueryReturned, DeleteReturned, VerificationReturned, SessionClosed,
                      observations
  <2>2. CASE DeleteNext(t)
    BY <2>2, <1>4 DEF DeleteNext, observations
  <2>3. CASE StartVerification(t) \/ CloseSession(t)
    BY <2>3, <1>4 DEF StartVerification, CloseSession, observations
  <2>4. ASSUME \/ Approve(t) \/ Deny(t) \/ CountdownCanceled(t) \/ CountdownTick(t)
               \/ CountdownDone(t) \/ DeleteLoopEnds(t) \/ CancelNotSeenAfterLoop(t)
               \/ SkipVerification(t) \/ KeepSession(t) \/ WriteAudit(t)
               \/ AppendHistory(t) \/ Release(t)
        PROVE  UNCHANGED sessionVars
    BY <2>4 DEF Approve, Deny, CountdownCanceled, CountdownTick, CountdownDone,
                DeleteLoopEnds, CancelNotSeenAfterLoop, SkipVerification, KeepSession,
                WriteAudit, AppendHistory, Release
  <2> QED
    BY <1>2, <1>5, <2>1, <2>2, <2>3, <2>4 DEF RunStep
<1>6. ASSUME NEW t \in Threads, CallStep(t)
      PROVE  CancelSoFar'
  <2>1. /\ call[t].pc # "return"
        /\ call'[t].op = call[t].op
        /\ \A u \in Threads : u # t => call'[u] = call[u]
        /\ cancel' = cancel
    BY <1>6, CallFrame DEF CallStep, runnerVars
  <2>2. CASE ~Transmits(t) \/ ~cancel
    <3>1. lateDeletes' = lateDeletes
      BY <1>6, <2>2 DEF CallStep
    <3> QED
      BY <2>1, <3>1
  <2>3. CASE Transmits(t) /\ cancel
    <3>1. call[t].op = "delete" /\ call'[t].sends > call[t].sends
      BY <2>3 DEF Transmits
    <3>2. lateDeletes = 0
      BY <2>1, <3>1
    <3>3. lateDeletes' = 1
      BY <1>6, <2>3, <3>2 DEF CallStep
    <3>4. call'[t].pc = "return"
      BY <2>1, <3>1 DEF SessionInv, SendsSoFar, Calls
    <3>5. ASSUME NEW u \in Threads, u # t
          PROVE  call'[u].op # "delete"
      <4>1. runLock = t
        BY <3>1 DEF OutsidersOnlyClose
      <4> QED
        BY <2>1, <3>5, <4>1 DEF OutsidersOnlyClose
    <3> QED
      BY <2>3, <2>1, <3>3, <3>4, <3>5
  <2> QED
    BY <2>2, <2>3
<1>7. ASSUME NEW t \in Threads, CloseFromOutside(t) \/ OutsideClosed(t)
      PROVE  CancelSoFar'
  <2>1. CASE CloseFromOutside(t)
    BY <2>1, <1>4 DEF CloseFromOutside, observations
  <2>2. CASE OutsideClosed(t)
    BY <2>2, <1>3 DEF OutsideClosed, runnerVars, observations
  <2> QED
    BY <1>7, <2>1, <2>2
<1>8. ASSUME RequestCancel \/ Environment \/ UNCHANGED vars
      PROVE  CancelSoFar'
  BY <1>8 DEF RequestCancel, Environment, vars, Churn, UserJoins, UserLeaves, sessionVars,
     runnerVars, observations
<1> QED
  BY <1>1, <1>5, <1>6, <1>7, <1>8 DEF Next

(* Once cancellation is requested at most one more delete command leaves.   *)
THEOREM CancelTakesHold == Spec => []CancelBoundsDeletes
<1>1. Init => CancelSoFar
  BY DEF Init, CancelSoFar
<1>2. RunInv /\ RunInv' /\ CancelSoFar /\ [Next]_vars => CancelSoFar'
  BY CancelStep
<1>3. CancelSoFar => CancelBoundsDeletes
  BY DEF CancelSoFar, CancelBoundsDeletes
<1> QED
  BY <1>1, <1>2, <1>3, RunInvariant, PTL DEF Spec

----------------------------------------------------------------------------
(* The refinement: each step is a step of ApprovedCleanup or a stutter.     *)
LEMMA PromiseStep ==
    ASSUME RunInv, [Next]_vars
    PROVE  [Promise!AbstractNext]_(Promise!abstractVars)
<1> DEFINE Same == UNCHANGED <<StageOf, summary.targets, sent>>
           Goal == Promise!AbstractNext \/ Same
<1> USE DEF RunInv, TypeOK, SessionTypeOK, At, StageOf
<1>1. ASSUME NEW t \in Threads, NEW k \in {"run", "preview"}, NEW c \in Configs, Start(t, k, c)
      PROVE  Promise!Begin
  BY <1>1 DEF Start, EmptySummary, PhaseMatchesCall, Promise!Begin
<1>2. ASSUME NEW t \in Threads, QueryReturned(t)
      PROVE  Goal
  <2>1. CASE call[t].reply = "rows" /\ kind = "run" /\ call[t].rows # {}
    <3>1. call[t].rows \in (SUBSET Macs) \ {{}}
      BY <2>1 DEF Calls
    <3>2. Promise!Propose(call[t].rows)
      BY <1>2, <2>1 DEF QueryReturned, Promise!Propose, Summaries, observations
    <3> QED
      BY <3>1, <3>2 DEF Promise!AbstractNext
  <2>2. CASE ~(call[t].reply = "rows" /\ kind = "run" /\ call[t].rows # {})
    <3>1. Promise!End
      BY <1>2, <2>2 DEF QueryReturned, FinishWith, Promise!End, Summaries, observations
    <3> QED
      BY <3>1 DEF Promise!AbstractNext
  <2> QED
    BY <2>1, <2>2
<1>3. ASSUME NEW t \in Threads, Approve(t)
      PROVE  Promise!Agree
  BY <1>3 DEF Approve, Promise!Agree
<1>4. ASSUME NEW t \in Threads,
             Deny(t) \/ CountdownCanceled(t) \/ SkipVerification(t)
      PROVE  Promise!End
  BY <1>4 DEF Deny, CountdownCanceled, SkipVerification, FinishWith, CanceledBefore, Counted,
     Attempted, Summaries, observations, Promise!End
<1>5. ASSUME NEW t \in Threads, VerificationReturned(t)
      PROVE  Promise!End
  <2>1. summary'.targets = summary.targets
    BY <1>5 DEF VerificationReturned, FinishWith, Counted, Attempted, Summaries
  <2> QED
    BY <1>5, <2>1 DEF VerificationReturned, FinishWith, observations, Promise!End
<1>6. ASSUME NEW t \in Threads,
             \/ CountdownTick(t) \/ CountdownDone(t) \/ DeleteNext(t) \/ DeleteLoopEnds(t)
             \/ CancelNotSeenAfterLoop(t) \/ StartVerification(t)
      PROVE  Same
  BY <1>6 DEF CountdownTick, CountdownDone, DeleteNext, DeleteLoopEnds,
     CancelNotSeenAfterLoop, StartVerification, observations
<1>7. ASSUME NEW t \in Threads, DeleteReturned(t)
      PROVE  Same
  BY <1>7 DEF DeleteReturned, observations, Summaries
<1>8. ASSUME NEW t \in Threads, KeepSession(t) \/ CloseSession(t) \/ SessionClosed(t) \/ Release(t)
      PROVE  Same
  BY <1>8 DEF KeepSession, CloseSession, SessionClosed, Release, Recording, observations
<1>9. ASSUME NEW t \in Threads, WriteAudit(t) \/ AppendHistory(t)
      PROVE  Same
  BY <1>9 DEF WriteAudit, AppendHistory, observations, Summaries
<1>10. ASSUME NEW t \in Threads, CallStep(t)
       PROVE  Goal
  <2>1. UNCHANGED <<phase, summary, runLock>>
    BY <1>10 DEF CallStep, runnerVars
  <2>2. CASE ~Transmits(t)
    BY <1>10, <2>1, <2>2 DEF CallStep
  <2>3. CASE Transmits(t)
    <3> DEFINE mac == call[t].mac
    <3>1. call[t].op = "delete" /\ call[t].pc # "return"
      BY <1>10, <2>3, CallFrame DEF CallStep, Transmits
    <3>2. runLock = t /\ phase = "deleting"
      BY <3>1 DEF OutsidersOnlyClose, PhaseMatchesCall
    <3>3. mac \in approved /\ sent[mac] = 0 /\ mac \in Macs
      BY <3>1, <3>2 DEF LoopWithinApproval, SentSoFar
    <3>4. approved \subseteq summary.targets
      BY <3>2 DEF LoopWithinApproval
    <3>5. sent' = [sent EXCEPT ![mac] = 1]
      BY <1>10, <2>3, <3>3 DEF CallStep
    <3> HIDE DEF mac
    <3>6. Promise!Transmit(mac)
      BY <2>1, <3>2, <3>3, <3>4, <3>5 DEF Promise!Transmit
    <3> QED
      BY <3>3, <3>6 DEF Promise!AbstractNext
  <2> QED
    BY <2>2, <2>3
<1>11. ASSUME NEW t \in Threads, CloseFromOutside(t) \/ OutsideClosed(t)
       PROVE  Same
  BY <1>11 DEF CloseFromOutside, OutsideClosed, runnerVars, observations
<1>12. ASSUME RequestCancel \/ Environment \/ UNCHANGED vars
       PROVE  Same
  BY <1>12 DEF RequestCancel, Environment, vars, runnerVars, observations
<1>13. Goal
  <2>1. ASSUME NEW t \in Threads, RunStep(t)
        PROVE  Goal
    BY <2>1, <1>2, <1>3, <1>4, <1>5, <1>6, <1>7, <1>8, <1>9 DEF RunStep, Promise!AbstractNext
  <2> QED
    BY <2>1, <1>1, <1>10, <1>11, <1>12 DEF Next, Promise!AbstractNext
<1> QED
  BY <1>13 DEF Promise!abstractVars

(* A run implements ApprovedCleanup: whatever the threads, the connection   *)
(* and the device do, the operator sees look, ask, delete what was agreed   *)
(* at most once each, stop.                                                 *)
THEOREM RunKeepsPromise == Spec => KeepsPromise
<1>1. Init => Promise!AbstractInit
  BY DEF Init, EmptySummary, StageOf, Promise!AbstractInit
<1>2. RunInv /\ [Next]_vars => [Promise!AbstractNext]_(Promise!abstractVars)
  BY PromiseStep
<1> QED
  BY <1>1, <1>2, RunInvariant, PTL DEF Spec, KeepsPromise, Promise!AbstractSpec

----------------------------------------------------------------------------
(* The report.  ReportHonest, EveryDeleteReported and ReportConsistent are  *)
(* about a run that is over; the inductive invariant says how far the       *)
(* report is at each place of the run, and what may still come.             *)

(* A MAC the loop has not reached, or whose command is on its way, has no   *)
(* result yet; an answer that has come back tells what the device did.      *)
ResultsSoFar ==
    /\ phase \in {"query", "approval", "countdown"} =>
          removed = {} /\ \A m \in Macs : summary.results[m] = NoResult
    /\ phase \in {"query", "approval"} => approved = {}
    /\ phase = "query" => summary.targets = {}
    /\ phase = "deleting" => \A m \in todo : m \notin removed /\ summary.results[m] = NoResult
    /\ \A t \in Threads : runLock = t /\ phase = "deleting" /\ call[t].op = "delete" =>
          /\ summary.results[call[t].mac] = NoResult
          /\ call[t].pc # "return" => call[t].mac \notin removed
          /\ call[t].pc = "return" /\ call[t].reply = "deleted" => call[t].mac \in removed
          /\ call[t].pc = "return" /\ call[t].reply = "failed" => call[t].mac \notin removed

(* What a result says of the device's answer is what the device did. *)
ResultsHonest ==
    \A m \in Macs :
        /\ summary.results[m].response = "deleted" => m \in removed
        /\ summary.results[m].response = "failed" => m \notin removed
        /\ Success(summary.results[m]) => summary.results[m].response = "deleted"
        /\ summary.results[m] # NoResult => m \in approved

(* Each approved MAC is yet to come, under way or has its result; when the  *)
(* loop is left with MACs to come, the run is to be canceled.               *)
BatchAccounted ==
    /\ phase = "deleting" => \A m \in approved :
          \/ m \in todo
          \/ summary.results[m] # NoResult
          \/ \E t \in Threads : runLock = t /\ call[t].op = "delete" /\ call[t].mac = m
    /\ phase \in {"deleted", "recheck", "verify"} =>
          /\ approved = summary.targets
          /\ \A m \in Macs : sent[m] > 0 => summary.results[m] # NoResult
          /\ todo = {} => \A m \in approved : summary.results[m] # NoResult
    /\ phase = "deleted" => todo = {} \/ cancel
    /\ phase \in {"recheck", "verify"} => todo = {}

Over == {"finalize", "closing", "audit", "history", "release", "idle"}

(* What the summary of a finished run says; of a verified run, all of it.   *)
ReportComplete ==
    /\ phase \in Over => \A m \in Macs :
          sent[m] > 0 \/ (m \in approved /\ ~summary.canceled) => summary.results[m] # NoResult
    /\ phase \in Over /\ summary.targets # {} /\ ~summary.canceled => approved = summary.targets
    /\ phase \in Over /\ kind = "run" /\ approved # {} /\ ~summary.error /\ ~summary.canceled =>
          /\ summary.succeeded \intersect summary.unsuccess = {}
          /\ summary.succeeded \union summary.unsuccess = summary.targets
          /\ summary.succeeded \intersect summary.remaining = {}
          /\ summary.reappeared = summary.remaining \intersect
                  {m \in Macs : summary.results[m].response = "deleted"}
          /\ \A m \in summary.targets :
                  summary.results[m].absent = "no" <=> m \in summary.remaining
          /\ \A m \in summary.succeeded : summary.results[m].status = "verified_deleted"
    /\ phase \in {"history", "release", "idle"} /\ kind = "run" => summary.audit # "none"

ReportInv == ResultsSoFar /\ ResultsHonest /\ BatchAccounted /\ ReportComplete

(* A runner that does not keep its session has closed it, and nobody opens  *)
(* it again, from the return of that close to the end of the run.           *)
ReleasedSoFar ==
    ~persistent =>
        /\ phase \in {"audit", "history", "release", "idle"} => connection = "none"
        /\ phase = "closing" =>
              \A t \in Threads : runLock = t /\ call[t].pc = "return" => connection = "none"

----------------------------------------------------------------------------
(* Only a delete call that comes back has changed the device's table, by    *)
(* its MAC; and its answer, if clear, says whether it has.                  *)
LEMMA DeviceFrame ==
    ASSUME SessionTypeOK, SessionInv, NEW t \in Threads, SessionStep(t)
    PROVE  /\ call[t].op # "delete" \/ call'[t].pc # "return" => table' = table
           /\ call[t].op = "delete" /\ call'[t].pc = "return" =>
                 /\ table' \in {table, table \ {call[t].mac}}
                 /\ call'[t].reply = "deleted" => call[t].mac \in table \ table'
                 /\ call'[t].reply = "failed" => table' = table
<1> USE DEF SessionTypeOK, Calls
<1>1. CASE AnswerDelete(t)
  <2>1. PICK done \in BOOLEAN, reply \in {"deleted", "failed", "unknown"} :
          /\ reply = "deleted" => done
          /\ reply = "failed" => ~done
          /\ DeviceExecutes(t, done)
          /\ call' = [call EXCEPT ![t].pc = "return", ![t].reply = reply, ![t].sends = @ + 1]
    BY <1>1 DEF AnswerDelete
  <2>2. call'[t].reply = reply /\ call'[t].pc = "return" /\ call[t].op = "delete"
    BY <1>1, <2>1 DEF AnswerDelete
  <2> QED
    BY <2>1, <2>2 DEF DeviceExecutes
<1>2. CASE SendFails(t)
  <2>1. PICK done \in BOOLEAN : DeviceExecutes(t, done)
    BY <1>2 DEF SendFails
  <2>2. call[t].op = "delete" => call'[t].pc = "return" /\ call'[t].reply = "raised"
    BY <1>2 DEF SendFails, RetryOnce
  <2> QED
    BY <2>1, <2>2 DEF DeviceExecutes
<1>3. CASE Close(t) \/ AnswerQuery(t) \/ Acquire(t) \/ Reuse(t) \/ DropChanged(t) \/ Connect(t)
           \/ DisablePaging(t) \/ VerifyIdentity(t)
  <2>1. table' = table
    BY <1>3 DEF Close, AnswerQuery, Acquire, Reuse, DropChanged, Connect, DisablePaging,
       VerifyIdentity
  <2>2. call[t].op = "delete" => call'[t].pc # "return"
    BY <1>3 DEF SessionInv, SendsSoFar, Close, AnswerQuery, Acquire, Goto, Reuse, DropChanged,
       Connect, DisablePaging, VerifyIdentity
  <2> QED
    BY <2>1, <2>2
<1>4. CASE ConnectFails(t) \/ GateFails(t)
  <2>1. table' = table /\ call'[t].reply = "raised"
    BY <1>4 DEF ConnectFails, GateFails, Return
  <2> QED
    BY <2>1
<1> QED
  BY <1>1, <1>2, <1>3, <1>4 DEF SessionStep

(* What a step of a session call means to the run and its observer. *)
LEMMA CallEffect ==
    ASSUME RunInv, NEW t \in Threads, CallStep(t)
    PROVE  /\ UNCHANGED <<runnerVars, approved>>
           /\ call[t].pc \notin {"idle", "return"}
           /\ call'[t].op = call[t].op
           /\ call'[t].mac = call[t].mac
           /\ \A u \in Threads : u # t => call'[u] = call[u]
           /\ call[t].op # "delete" => sent' = sent /\ removed' = removed
           /\ call[t].op = "delete" =>
                 /\ runLock = t /\ phase = "deleting" /\ call[t].mac \in Macs
                 /\ \A m \in Macs : m # call[t].mac => sent'[m] = sent[m]
                 /\ removed' \in {removed, removed \union {call[t].mac}}
                 /\ call'[t].pc # "return" => removed' = removed
                 /\ call'[t].pc = "return" /\ call'[t].reply = "deleted" => call[t].mac \in removed'
                 /\ call'[t].pc = "return" /\ call'[t].reply = "failed" => removed' = removed
<1> USE DEF RunInv, TypeOK
<1>1. /\ call[t].pc \notin {"idle", "return"}
      /\ call'[t].op = call[t].op
      /\ call'[t].mac = call[t].mac
      /\ \A u \in Threads : u # t => call'[u] = call[u]
  BY CallFrame DEF CallStep
<1>2. UNCHANGED <<runnerVars, approved>>
  BY DEF CallStep
<1>3. removed' = removed \union (table \ table') /\ SessionStep(t)
  BY DEF CallStep
<1>4. ASSUME call[t].op # "delete"
      PROVE  sent' = sent /\ removed' = removed
  <2>1. table' = table
    BY <1>3, <1>4, DeviceFrame
  <2>2. sent' = sent
    BY <1>4 DEF CallStep, Transmits
  <2> QED
    BY <1>3, <2>1, <2>2
<1>5. ASSUME call[t].op = "delete"
      PROVE  /\ runLock = t /\ phase = "deleting" /\ call[t].mac \in Macs
             /\ \A m \in Macs : m # call[t].mac => sent'[m] = sent[m]
             /\ removed' \in {removed, removed \union {call[t].mac}}
             /\ call'[t].pc # "return" => removed' = removed
             /\ call'[t].pc = "return" /\ call'[t].reply = "deleted" => call[t].mac \in removed'
             /\ call'[t].pc = "return" /\ call'[t].reply = "failed" => removed' = removed
  <2>1. runLock = t /\ phase = "deleting" /\ call[t].mac \in Macs
    BY <1>5 DEF OutsidersOnlyClose, PhaseMatchesCall, SessionInv, SendsSoFar
  <2>2. \A m \in Macs : m # call[t].mac => sent'[m] = sent[m]
    BY DEF CallStep
  <2>3. /\ call'[t].pc # "return" => table' = table
        /\ call'[t].pc = "return" =>
                 /\ table' \in {table, table \ {call[t].mac}}
                 /\ call'[t].reply = "deleted" => call[t].mac \in table \ table'
                 /\ call'[t].reply = "failed" => table' = table
    BY <1>3, <1>5, DeviceFrame
  <2> QED
    BY <1>3, <2>1, <2>2, <2>3
<1> QED
  BY <1>1, <1>2, <1>4, <1>5


(* _apply_verification: a promotion needs the device's own word and the     *)
(* absence of the MAC; every other answer keeps its class.                  *)
LEMMA VerifiedResult ==
    ASSUME NEW r \in Results, NEW mac, NEW rows
    PROVE  LET v == Verified(r, mac, rows)
           IN  /\ v # NoResult
               /\ v.response = r.response
               /\ Success(v) => v.response = "deleted" /\ v.status = "verified_deleted" /\ mac \notin rows
               /\ v.status = "reappeared" <=> mac \in rows /\ v.response = "deleted"
               /\ v.absent = "no" <=> mac \in rows
BY DEF Verified, Success, NoResult, Results

(* What a verification that was answered leaves in the summary. *)
LEMMA VerifiedSummary ==
    ASSUME TypeOK, NEW t \in Threads, VerificationReturned(t), call[t].reply = "rows"
    PROVE  LET rows == call[t].rows
               checked == [m \in Macs |-> IF summary.results[m] = NoResult THEN NoResult
                                          ELSE Verified(summary.results[m], m, rows)]
               good == {m \in Attempted(checked) : Success(checked[m])}
           IN  /\ summary'.results = checked
               /\ summary'.targets = summary.targets
               /\ summary'.succeeded = good
               /\ summary'.unsuccess = Attempted(checked) \ good
               /\ summary'.remaining = rows
               /\ summary'.reappeared = {m \in Macs : checked[m].status = "reappeared"}
<1> DEFINE rows == call[t].rows
           checked == [m \in Macs |-> IF summary.results[m] = NoResult THEN NoResult
                                      ELSE Verified(summary.results[m], m, rows)]
           again == {m \in Macs : checked[m].status = "reappeared"}
           good == {m \in Attempted(checked) : Success(checked[m])}
           before == [summary EXCEPT !.results = checked]
<1>1. summary' = [Counted(before) EXCEPT !.remaining = rows, !.reappeared = again]
  BY DEF VerificationReturned, FinishWith
<1>2. before.results = checked /\ before.targets = summary.targets
  BY DEF TypeOK, Summaries
<1>3. Counted(before) = [before EXCEPT !.succeeded = good, !.unsuccess = Attempted(checked) \ good]
  BY <1>2 DEF Counted
<1>4. DOMAIN before = DOMAIN summary
  OBVIOUS
<1>5. DOMAIN summary = {"targets", "results", "succeeded", "unsuccess", "remaining", "reappeared",
                        "canceled", "skipped", "error", "audit", "history"}
  BY DEF TypeOK, Summaries
<1> HIDE DEF checked, again, good, rows, before
<1>6. QED
  BY <1>1, <1>2, <1>3, <1>4, <1>5 DEF checked, again, good, rows

(* The environment and the cancel button touch neither calls nor report. *)
LEMMA OthersKeepReport ==
    ASSUME RequestCancel \/ Environment \/ UNCHANGED vars
    PROVE  /\ UNCHANGED <<connection, call, persistent, runLock, phase, kind, todo, summary>>
           /\ UNCHANGED observations
           /\ cancel => cancel'
BY DEF RequestCancel, Environment, vars, Churn, UserJoins, UserLeaves, sessionVars, runnerVars

(* A run that is refused or canceled before its loop has no results. *)
LEMMA CanceledBeforeKeeps ==
    ASSUME TypeOK, NEW t \in Threads, Deny(t) \/ CountdownCanceled(t)
    PROVE  /\ phase \in {"approval", "countdown"} /\ phase' = "finalize"
           /\ summary'.results = summary.results
           /\ summary'.targets = summary.targets
           /\ summary'.canceled = TRUE
           /\ UNCHANGED observations
BY DEF Deny, CountdownCanceled, At, FinishWith, CanceledBefore, TypeOK, Summaries

(* Results come one by one, as the commands return. *)
LEMMA ResultsSoFarStep ==
    ASSUME RunInv, ReportInv, [Next]_vars
    PROVE  ResultsSoFar'
<1> USE SessionConstants DEF RunInv, TypeOK, SessionTypeOK, PhaseMatchesCall, At, Summaries,
        ReportInv, ResultsSoFar, ResultsHonest, BatchAccounted, ReportComplete, Over, Results,
        SentSoFar, LoopWithinApproval, OnlyApprovedDeleted, OutsidersOnlyClose
<1>1. ASSUME NEW t \in Threads, NEW k \in {"run", "preview"}, NEW c \in Configs, Start(t, k, c)
      PROVE  ResultsSoFar'
  BY <1>1 DEF Start, EmptySummary, NoResult, Success, Invoke, IdleCall, observations
<1>2. ASSUME NEW t \in Threads, QueryReturned(t)
      PROVE  ResultsSoFar'
  BY <1>2 DEF QueryReturned, FinishWith, Consume, IdleCall, observations
<1>3. ASSUME NEW t \in Threads, Approve(t)
      PROVE  ResultsSoFar'
  BY <1>3 DEF Approve, sessionVars, observations
<1>4. ASSUME NEW t \in Threads, Deny(t)
      PROVE  ResultsSoFar'
  BY <1>4 DEF Deny, FinishWith, CanceledBefore, sessionVars, observations
<1>5. ASSUME NEW t \in Threads, CountdownCanceled(t)
      PROVE  ResultsSoFar'
  BY <1>5 DEF CountdownCanceled, FinishWith, CanceledBefore, sessionVars, observations
<1>6. ASSUME NEW t \in Threads,
             \/ CountdownTick(t) \/ CountdownDone(t)
      PROVE  ResultsSoFar'
  BY <1>6 DEF CountdownTick, sessionVars, CountdownDone, observations
<1>7. ASSUME NEW t \in Threads, DeleteNext(t)
      PROVE  ResultsSoFar'
  BY <1>7 DEF DeleteNext, Invoke, IdleCall, observations
<1>8. ASSUME NEW t \in Threads, DeleteReturned(t)
      PROVE  ResultsSoFar'
  BY <1>8 DEF DeleteReturned, Consume, IdleCall, DeleteResult, observations
<1>9. ASSUME NEW t \in Threads, DeleteLoopEnds(t)
      PROVE  ResultsSoFar'
  BY <1>9 DEF DeleteLoopEnds, sessionVars, observations
<1>10. ASSUME NEW t \in Threads, CancelNotSeenAfterLoop(t)
      PROVE  ResultsSoFar'
  BY <1>10 DEF CancelNotSeenAfterLoop, sessionVars, observations
<1>11. ASSUME NEW t \in Threads, SkipVerification(t)
      PROVE  ResultsSoFar'
  BY <1>11 DEF SkipVerification, FinishWith, Counted, Attempted, sessionVars, observations
<1>12. ASSUME NEW t \in Threads, StartVerification(t)
      PROVE  ResultsSoFar'
  BY <1>12 DEF StartVerification, Invoke, IdleCall, observations
<1>13. ASSUME NEW t \in Threads, VerificationReturned(t)
      PROVE  ResultsSoFar'
  BY <1>13 DEF VerificationReturned, FinishWith, Consume, IdleCall, observations
<1>14. ASSUME NEW t \in Threads, KeepSession(t)
      PROVE  ResultsSoFar'
  BY <1>14 DEF KeepSession, Recording, sessionVars, observations
<1>15. ASSUME NEW t \in Threads, CloseSession(t)
      PROVE  ResultsSoFar'
  BY <1>15 DEF CloseSession, Invoke, IdleCall, observations
<1>16. ASSUME NEW t \in Threads, SessionClosed(t)
      PROVE  ResultsSoFar'
  BY <1>16 DEF SessionClosed, Recording, Consume, IdleCall, observations
<1>17. ASSUME NEW t \in Threads,
             \/ WriteAudit(t) \/ AppendHistory(t)
      PROVE  ResultsSoFar'
  BY <1>17 DEF WriteAudit, sessionVars, AppendHistory, observations
<1>18. ASSUME NEW t \in Threads, Release(t)
      PROVE  ResultsSoFar'
  BY <1>18 DEF Release, sessionVars, observations
<1>19. ASSUME NEW t \in Threads, CallStep(t)
      PROVE  ResultsSoFar'
  <2> HIDE DEF Results
  <2> QED
    BY <1>19, CallEffect DEF runnerVars
<1>20. ASSUME NEW t \in Threads, CloseFromOutside(t) \/ OutsideClosed(t)
      PROVE  ResultsSoFar'
  BY <1>20 DEF CloseFromOutside, OutsideClosed, Invoke, Consume, IdleCall, runnerVars,
       observations
<1>21. ASSUME RequestCancel \/ Environment \/ UNCHANGED vars
      PROVE  ResultsSoFar'
  BY <1>21, OthersKeepReport DEF observations
<1> HIDE DEF RunInv, ReportInv, ResultsSoFar, ResultsHonest, BatchAccounted, ReportComplete
<1> QED
  BY <1>1, <1>2, <1>3, <1>4, <1>5, <1>6, <1>7, <1>8, <1>9, <1>10, <1>11, <1>12, <1>13, <1>14,
       <1>15, <1>16, <1>17, <1>18, <1>19, <1>20, <1>21 DEF Next, RunStep

(* A result is as sure as the device's answer; verification only weakens or *)
(* confirms it.                                                             *)
LEMMA ResultsHonestStep ==
    ASSUME RunInv, ReportInv, [Next]_vars
    PROVE  ResultsHonest'
<1> USE SessionConstants DEF RunInv, TypeOK, SessionTypeOK, PhaseMatchesCall, At, Summaries,
        ReportInv, ResultsSoFar, ResultsHonest, BatchAccounted, ReportComplete, Over, Results,
        SentSoFar, LoopWithinApproval, OnlyApprovedDeleted, OutsidersOnlyClose
<1>1. ASSUME NEW t \in Threads, NEW k \in {"run", "preview"}, NEW c \in Configs, Start(t, k, c)
      PROVE  ResultsHonest'
  BY <1>1 DEF Start, EmptySummary, NoResult, Success, Invoke, IdleCall, observations
<1>2. ASSUME NEW t \in Threads, QueryReturned(t)
      PROVE  ResultsHonest'
  BY <1>2 DEF QueryReturned, FinishWith, Consume, IdleCall, observations
<1>3. ASSUME NEW t \in Threads, Approve(t)
      PROVE  ResultsHonest'
  BY <1>3 DEF Approve, sessionVars, observations
<1>4. ASSUME NEW t \in Threads, Deny(t)
      PROVE  ResultsHonest'
  <2>1. summary'.results = summary.results /\ UNCHANGED <<removed, approved>>
    BY <1>4, CanceledBeforeKeeps DEF observations
  <2> HIDE DEF TypeOK, Summaries, Results, SessionTypeOK
  <2> QED
    BY <2>1
<1>5. ASSUME NEW t \in Threads, CountdownCanceled(t)
      PROVE  ResultsHonest'
  <2>1. summary'.results = summary.results /\ UNCHANGED <<removed, approved>>
    BY <1>5, CanceledBeforeKeeps DEF observations
  <2> HIDE DEF TypeOK, Summaries, Results, SessionTypeOK
  <2> QED
    BY <2>1
<1>6. ASSUME NEW t \in Threads,
             \/ CountdownTick(t) \/ CountdownDone(t)
      PROVE  ResultsHonest'
  BY <1>6 DEF CountdownTick, sessionVars, CountdownDone, observations
<1>7. ASSUME NEW t \in Threads, DeleteNext(t)
      PROVE  ResultsHonest'
  BY <1>7 DEF DeleteNext, Invoke, IdleCall, observations
<1>8. ASSUME NEW t \in Threads, DeleteReturned(t)
      PROVE  ResultsHonest'
  <2> DEFINE mac == call[t].mac
             r == DeleteResult(call[t].reply)
  <2>1. /\ runLock = t /\ phase = "deleting" /\ call[t].pc = "return"
        /\ UNCHANGED <<removed, approved>>
        /\ summary' = [summary EXCEPT !.results[mac] = r]
    BY <1>8 DEF DeleteReturned, Consume, observations
  <2>2. call[t].op = "delete" /\ mac \in Macs /\ call[t].reply \in {"deleted", "failed", "unknown", "raised"}
    BY <2>1 DEF SessionInv, AnswersFit, SendsSoFar
  <2>3. /\ r.response = "deleted" => mac \in removed
        /\ r.response = "failed" => mac \notin removed
        /\ Success(r) => r.response = "deleted"
        /\ mac \in approved
    BY <2>1, <2>2 DEF DeleteResult, Success
  <2>4. summary'.results[mac] = r /\ \A m \in Macs : m # mac => summary'.results[m] = summary.results[m]
    BY <2>1, <2>2
  <2> HIDE DEF mac, r
  <2> QED
    BY <2>1, <2>2, <2>3, <2>4
<1>9. ASSUME NEW t \in Threads, DeleteLoopEnds(t)
      PROVE  ResultsHonest'
  BY <1>9 DEF DeleteLoopEnds, sessionVars, observations
<1>10. ASSUME NEW t \in Threads, CancelNotSeenAfterLoop(t)
      PROVE  ResultsHonest'
  BY <1>10 DEF CancelNotSeenAfterLoop, sessionVars, observations
<1>11. ASSUME NEW t \in Threads, SkipVerification(t)
      PROVE  ResultsHonest'
  BY <1>11 DEF SkipVerification, FinishWith, Counted, Attempted, sessionVars, observations
<1>12. ASSUME NEW t \in Threads, StartVerification(t)
      PROVE  ResultsHonest'
  BY <1>12 DEF StartVerification, Invoke, IdleCall, observations
<1>13. ASSUME NEW t \in Threads, VerificationReturned(t)
      PROVE  ResultsHonest'
  <2> DEFINE rows == call[t].rows
             checked == [m \in Macs |-> IF summary.results[m] = NoResult THEN NoResult
                                        ELSE Verified(summary.results[m], m, rows)]
             good == {m \in Attempted(checked) : Success(checked[m])}
             again == {m \in Macs : checked[m].status = "reappeared"}
  <2>1. /\ phase = "verify" /\ phase' = "finalize"
        /\ UNCHANGED <<removed, approved, sent, kind>>
    BY <1>13 DEF VerificationReturned, FinishWith, observations
  <2>2. CASE call[t].reply # "rows"
    <3>1. summary'.results = summary.results
      BY <1>13, <2>2 DEF VerificationReturned, FinishWith
    <3> QED
      BY <2>1, <3>1
  <2>3. CASE call[t].reply = "rows"
    <3>1. summary'.results = checked
      BY <1>13, <2>3, VerifiedSummary
    <3>2. ASSUME NEW m \in Macs, summary.results[m] # NoResult
          PROVE  /\ checked[m].response = summary.results[m].response
                 /\ Success(checked[m]) => checked[m].response = "deleted"
      BY <3>2, VerifiedResult
    <3>3. \A m \in Macs : summary.results[m] = NoResult => checked[m] = summary.results[m]
      OBVIOUS
    <3> HIDE DEF checked
    <3> QED
      BY <2>1, <3>1, <3>2, <3>3
  <2> QED
    BY <2>2, <2>3
<1>14. ASSUME NEW t \in Threads, KeepSession(t)
      PROVE  ResultsHonest'
  BY <1>14 DEF KeepSession, Recording, sessionVars, observations
<1>15. ASSUME NEW t \in Threads, CloseSession(t)
      PROVE  ResultsHonest'
  BY <1>15 DEF CloseSession, Invoke, IdleCall, observations
<1>16. ASSUME NEW t \in Threads, SessionClosed(t)
      PROVE  ResultsHonest'
  BY <1>16 DEF SessionClosed, Recording, Consume, IdleCall, observations
<1>17. ASSUME NEW t \in Threads, WriteAudit(t)
      PROVE  ResultsHonest'
  BY <1>17 DEF WriteAudit, sessionVars, observations
<1>18. ASSUME NEW t \in Threads, AppendHistory(t)
      PROVE  ResultsHonest'
  BY <1>18 DEF AppendHistory, sessionVars, observations
<1>19. ASSUME NEW t \in Threads, Release(t)
      PROVE  ResultsHonest'
  BY <1>19 DEF Release, sessionVars, observations
<1>20. ASSUME NEW t \in Threads, CallStep(t)
      PROVE  ResultsHonest'
  <2>1. UNCHANGED <<summary, approved>>
    BY <1>20, CallEffect DEF runnerVars
  <2>2. CASE call[t].op # "delete"
    <3>1. removed' = removed
      BY <1>20, <2>2, CallEffect
    <3> QED
      BY <2>1, <3>1
  <2>3. CASE call[t].op = "delete"
    <3>1. /\ runLock = t /\ phase = "deleting"
          /\ removed' \in {removed, removed \union {call[t].mac}}
      BY <1>20, <2>3, CallEffect
    <3>2. summary.results[call[t].mac] = NoResult
      BY <2>3, <3>1
    <3>3. NoResult.response = "none"
      BY DEF NoResult
    <3> QED
      BY <2>1, <3>1, <3>2, <3>3
  <2> QED
    BY <2>2, <2>3
<1>21. ASSUME NEW t \in Threads, CloseFromOutside(t) \/ OutsideClosed(t)
      PROVE  ResultsHonest'
  BY <1>21 DEF CloseFromOutside, OutsideClosed, Invoke, Consume, IdleCall, runnerVars,
       observations
<1>22. ASSUME RequestCancel \/ Environment \/ UNCHANGED vars
      PROVE  ResultsHonest'
  BY <1>22, OthersKeepReport DEF observations
<1> HIDE DEF RunInv, ReportInv, ResultsSoFar, ResultsHonest, BatchAccounted, ReportComplete
<1> QED
  BY <1>1, <1>2, <1>3, <1>4, <1>5, <1>6, <1>7, <1>8, <1>9, <1>10, <1>11, <1>12, <1>13, <1>14,
       <1>15, <1>16, <1>17, <1>18, <1>19, <1>20, <1>21, <1>22 DEF Next, RunStep

(* The loop loses no MAC. *)
LEMMA BatchAccountedStep ==
    ASSUME RunInv, ReportInv, [Next]_vars
    PROVE  BatchAccounted'
<1> USE SessionConstants DEF RunInv, TypeOK, SessionTypeOK, PhaseMatchesCall, At, Summaries,
        ReportInv, ResultsSoFar, ResultsHonest, BatchAccounted, ReportComplete, Over, Results,
        SentSoFar, LoopWithinApproval, OnlyApprovedDeleted, OutsidersOnlyClose
<1>1. ASSUME NEW t \in Threads, NEW k \in {"run", "preview"}, NEW c \in Configs, Start(t, k, c)
      PROVE  BatchAccounted'
  BY <1>1 DEF Start, EmptySummary, NoResult, Success, Invoke, IdleCall, observations
<1>2. ASSUME NEW t \in Threads, QueryReturned(t)
      PROVE  BatchAccounted'
  BY <1>2 DEF QueryReturned, FinishWith, Consume, IdleCall, observations
<1>3. ASSUME NEW t \in Threads, Approve(t)
      PROVE  BatchAccounted'
  BY <1>3 DEF Approve, sessionVars, observations
<1>4. ASSUME NEW t \in Threads, Deny(t)
      PROVE  BatchAccounted'
  BY <1>4 DEF Deny, FinishWith, CanceledBefore, sessionVars, observations
<1>5. ASSUME NEW t \in Threads, CountdownCanceled(t)
      PROVE  BatchAccounted'
  BY <1>5 DEF CountdownCanceled, FinishWith, CanceledBefore, sessionVars, observations
<1>6. ASSUME NEW t \in Threads,
             \/ CountdownTick(t) \/ CountdownDone(t)
      PROVE  BatchAccounted'
  BY <1>6 DEF CountdownTick, sessionVars, CountdownDone, observations
<1>7. ASSUME NEW t \in Threads, DeleteNext(t)
      PROVE  BatchAccounted'
  <2>1. PICK mac \in todo : todo' = todo \ {mac} /\ Invoke(t, "delete", mac, runConfig)
    BY <1>7 DEF DeleteNext
  <2>2. /\ runLock = t /\ phase = "deleting"
        /\ UNCHANGED <<runLock, phase, summary, approved>>
        /\ call[t].pc = "idle"
    BY <1>7, <2>1 DEF DeleteNext, Invoke, observations
  <2>3. call'[t].op = "delete" /\ call'[t].mac = mac
    BY <2>1 DEF Invoke, IdleCall
  <2>4. \A u \in Threads : runLock = u /\ call[u].op = "delete" => FALSE
    BY <2>2 DEF SessionInv, SendsSoFar
  <2> QED
    BY <2>1, <2>2, <2>3, <2>4
<1>8. ASSUME NEW t \in Threads, DeleteReturned(t)
      PROVE  BatchAccounted'
  <2> DEFINE mac == call[t].mac
             r == DeleteResult(call[t].reply)
  <2>1. /\ runLock = t /\ phase = "deleting" /\ call[t].pc = "return"
        /\ UNCHANGED <<runLock, phase, todo, approved>>
        /\ summary' = [summary EXCEPT !.results[mac] = r]
    BY <1>8 DEF DeleteReturned, Consume, observations
  <2>2. call[t].op = "delete" /\ mac \in Macs /\ call[t].reply # "none"
    BY <2>1 DEF SessionInv, AnswersFit, SendsSoFar
  <2>3. r # NoResult
    BY <2>2 DEF DeleteResult, NoResult
  <2>4. summary'.results[mac] = r /\ \A m \in Macs : m # mac => summary'.results[m] = summary.results[m]
    BY <2>1, <2>2
  <2> HIDE DEF mac, r
  <2>5. ASSUME NEW m \in approved
        PROVE  m \in todo \/ m = mac \/ summary.results[m] # NoResult
    BY <2>1, <2>5 DEF mac
  <2> QED
    BY <2>1, <2>2, <2>3, <2>4, <2>5
<1>9. ASSUME NEW t \in Threads, DeleteLoopEnds(t)
      PROVE  BatchAccounted'
  <2>1. /\ runLock = t /\ phase = "deleting" /\ phase' = "deleted"
        /\ UNCHANGED <<todo, approved, summary, sent, cancel>>
        /\ call[t].pc = "idle"
        /\ todo = {} \/ cancel
    BY <1>9 DEF DeleteLoopEnds, observations
  <2>2. call[t].op # "delete"
    BY <2>1 DEF SessionInv, SendsSoFar
  <2>3. \A m \in approved : m \in todo \/ summary.results[m] # NoResult
    BY <2>1, <2>2
  <2>4. \A m \in Macs : sent[m] > 0 => m \in approved /\ m \notin todo
    BY <2>1
  <2> QED
    BY <2>1, <2>3, <2>4
<1>10. ASSUME NEW t \in Threads, CancelNotSeenAfterLoop(t)
      PROVE  BatchAccounted'
  BY <1>10 DEF CancelNotSeenAfterLoop, sessionVars, observations
<1>11. ASSUME NEW t \in Threads, SkipVerification(t)
      PROVE  BatchAccounted'
  BY <1>11 DEF SkipVerification, FinishWith, Counted, Attempted, sessionVars, observations
<1>12. ASSUME NEW t \in Threads, StartVerification(t)
      PROVE  BatchAccounted'
  BY <1>12 DEF StartVerification, Invoke, IdleCall, observations
<1>13. ASSUME NEW t \in Threads, VerificationReturned(t)
      PROVE  BatchAccounted'
  BY <1>13 DEF VerificationReturned, FinishWith, Consume, IdleCall, observations
<1>14. ASSUME NEW t \in Threads, KeepSession(t)
      PROVE  BatchAccounted'
  BY <1>14 DEF KeepSession, Recording, sessionVars, observations
<1>15. ASSUME NEW t \in Threads, CloseSession(t)
      PROVE  BatchAccounted'
  BY <1>15 DEF CloseSession, Invoke, IdleCall, observations
<1>16. ASSUME NEW t \in Threads, SessionClosed(t)
      PROVE  BatchAccounted'
  BY <1>16 DEF SessionClosed, Recording, Consume, IdleCall, observations
<1>17. ASSUME NEW t \in Threads,
             \/ WriteAudit(t) \/ AppendHistory(t)
      PROVE  BatchAccounted'
  BY <1>17 DEF WriteAudit, sessionVars, AppendHistory, observations
<1>18. ASSUME NEW t \in Threads, Release(t)
      PROVE  BatchAccounted'
  BY <1>18 DEF Release, sessionVars, observations
<1>19. ASSUME NEW t \in Threads, CallStep(t)
      PROVE  BatchAccounted'
  <2>1. /\ UNCHANGED <<runnerVars, approved>>
        /\ \A u \in Threads : call'[u].op = call[u].op /\ call'[u].mac = call[u].mac
        /\ phase # "deleting" => sent' = sent
    BY <1>19, CallEffect
  <2> QED
    BY <2>1 DEF runnerVars
<1>20. ASSUME NEW t \in Threads, CloseFromOutside(t) \/ OutsideClosed(t)
      PROVE  BatchAccounted'
  BY <1>20 DEF CloseFromOutside, OutsideClosed, Invoke, Consume, IdleCall, runnerVars,
       observations
<1>21. ASSUME RequestCancel \/ Environment \/ UNCHANGED vars
      PROVE  BatchAccounted'
  BY <1>21, OthersKeepReport DEF observations
<1> HIDE DEF RunInv, ReportInv, ResultsSoFar, ResultsHonest, BatchAccounted, ReportComplete
<1> QED
  BY <1>1, <1>2, <1>3, <1>4, <1>5, <1>6, <1>7, <1>8, <1>9, <1>10, <1>11, <1>12, <1>13, <1>14,
       <1>15, <1>16, <1>17, <1>18, <1>19, <1>20, <1>21 DEF Next, RunStep

(* What every way to the end of a run leaves in the summary. *)
LEMMA ReportCompleteStep ==
    ASSUME RunInv, ReportInv, [Next]_vars
    PROVE  ReportComplete'
<1> USE SessionConstants DEF RunInv, TypeOK, SessionTypeOK, PhaseMatchesCall, At, Summaries,
        ReportInv, ResultsSoFar, ResultsHonest, BatchAccounted, ReportComplete, Over, Results,
        SentSoFar, LoopWithinApproval, OnlyApprovedDeleted, OutsidersOnlyClose
<1>1. ASSUME NEW t \in Threads, NEW k \in {"run", "preview"}, NEW c \in Configs, Start(t, k, c)
      PROVE  ReportComplete'
  BY <1>1 DEF Start, EmptySummary, NoResult, Success, Invoke, IdleCall, observations
<1>2. ASSUME NEW t \in Threads, QueryReturned(t)
      PROVE  ReportComplete'
  <2>1. phase = "query" /\ UNCHANGED <<approved, sent>>
    BY <1>2 DEF QueryReturned, observations
  <2>2. CASE call[t].reply = "rows" /\ kind = "run" /\ call[t].rows # {}
    <3>1. phase' = "approval"
      BY <1>2, <2>2 DEF QueryReturned
    <3> QED
      BY <3>1
  <2>3. CASE ~(call[t].reply = "rows" /\ kind = "run" /\ call[t].rows # {})
    <3>1. phase' = "finalize" /\ summary'.targets = summary.targets
      BY <1>2, <2>3 DEF QueryReturned, FinishWith
    <3>2. approved = {} /\ summary.targets = {} /\ \A m \in Macs : sent[m] = 0
      BY <2>1
    <3> QED
      BY <2>1, <3>1, <3>2
  <2> QED
    BY <2>2, <2>3
<1>3. ASSUME NEW t \in Threads, Approve(t)
      PROVE  ReportComplete'
  BY <1>3 DEF Approve, sessionVars, observations
<1>4. ASSUME NEW t \in Threads, Deny(t)
      PROVE  ReportComplete'
  <2>1. /\ phase \in {"approval", "countdown"} /\ phase' = "finalize"
        /\ summary'.canceled = TRUE /\ UNCHANGED sent
    BY <1>4, CanceledBeforeKeeps DEF observations
  <2>2. \A m \in Macs : sent'[m] = 0
    BY <2>1
  <2> HIDE DEF TypeOK, Summaries, Results, SessionTypeOK
  <2> QED
    BY <2>1, <2>2
<1>5. ASSUME NEW t \in Threads, CountdownCanceled(t)
      PROVE  ReportComplete'
  <2>1. /\ phase \in {"approval", "countdown"} /\ phase' = "finalize"
        /\ summary'.canceled = TRUE /\ UNCHANGED sent
    BY <1>5, CanceledBeforeKeeps DEF observations
  <2>2. \A m \in Macs : sent'[m] = 0
    BY <2>1
  <2> HIDE DEF TypeOK, Summaries, Results, SessionTypeOK
  <2> QED
    BY <2>1, <2>2
<1>6. ASSUME NEW t \in Threads,
             \/ CountdownTick(t) \/ CountdownDone(t)
      PROVE  ReportComplete'
  BY <1>6 DEF CountdownTick, sessionVars, CountdownDone, observations
<1>7. ASSUME NEW t \in Threads, DeleteNext(t)
      PROVE  ReportComplete'
  BY <1>7 DEF DeleteNext, Invoke, IdleCall, observations
<1>8. ASSUME NEW t \in Threads, DeleteReturned(t)
      PROVE  ReportComplete'
  BY <1>8 DEF DeleteReturned, Consume, IdleCall, DeleteResult, observations
<1>9. ASSUME NEW t \in Threads, DeleteLoopEnds(t)
      PROVE  ReportComplete'
  BY <1>9 DEF DeleteLoopEnds, sessionVars, observations
<1>10. ASSUME NEW t \in Threads, CancelNotSeenAfterLoop(t)
      PROVE  ReportComplete'
  BY <1>10 DEF CancelNotSeenAfterLoop, sessionVars, observations
<1>11. ASSUME NEW t \in Threads, SkipVerification(t)
      PROVE  ReportComplete'
  BY <1>11 DEF SkipVerification, FinishWith, Counted, Attempted, sessionVars, observations
<1>12. ASSUME NEW t \in Threads, StartVerification(t)
      PROVE  ReportComplete'
  BY <1>12 DEF StartVerification, Invoke, IdleCall, observations
<1>13. ASSUME NEW t \in Threads, VerificationReturned(t)
      PROVE  ReportComplete'
  <2> DEFINE rows == call[t].rows
             checked == [m \in Macs |-> IF summary.results[m] = NoResult THEN NoResult
                                        ELSE Verified(summary.results[m], m, rows)]
             good == {m \in Attempted(checked) : Success(checked[m])}
             again == {m \in Macs : checked[m].status = "reappeared"}
  <2>1. /\ phase = "verify" /\ phase' = "finalize"
        /\ UNCHANGED <<removed, approved, sent, kind>>
    BY <1>13 DEF VerificationReturned, FinishWith, observations
  <2>2. CASE call[t].reply # "rows"
    <3>1. summary' = [summary EXCEPT !.error = TRUE]
      BY <1>13, <2>2 DEF VerificationReturned, FinishWith
    <3> QED
      BY <2>1, <3>1
  <2>3. CASE call[t].reply = "rows"
    <3>1. /\ summary'.results = checked
          /\ summary'.targets = summary.targets
          /\ summary'.succeeded = good
          /\ summary'.unsuccess = Attempted(checked) \ good
          /\ summary'.remaining = rows
          /\ summary'.reappeared = again
      BY <1>13, <2>3, VerifiedSummary
    <3>2. \A m \in Macs : checked[m] = NoResult <=> summary.results[m] = NoResult
      BY VerifiedResult
    <3>3. Attempted(checked) = summary.targets
      BY <2>1, <3>2 DEF Attempted
    <3>4. ASSUME NEW m \in Macs, summary.results[m] # NoResult
          PROVE  /\ checked[m].status = "reappeared" <=> m \in rows /\ checked[m].response = "deleted"
                 /\ checked[m].absent = "no" <=> m \in rows
                 /\ Success(checked[m]) => checked[m].status = "verified_deleted" /\ m \notin rows
      BY <3>4, VerifiedResult
    <3>5. ASSUME NEW m \in Macs, summary.results[m] = NoResult
          PROVE  checked[m].status = "none" /\ checked[m].response = "none"
      BY <3>5 DEF NoResult
    <3>6. again = rows \intersect {m \in Macs : checked[m].response = "deleted"}
      BY <3>4, <3>5 DEF Calls
    <3>7. good \subseteq summary.targets
      BY <3>3
    <3>8. good \intersect rows = {} /\ \A m \in good : checked[m].status = "verified_deleted"
      BY <3>2, <3>4 DEF Attempted
    <3>9. \A m \in summary.targets : checked[m].absent = "no" <=> m \in rows
      BY <2>1, <3>4
    <3>10. \A m \in Macs : sent'[m] > 0 \/ m \in approved' => checked[m] # NoResult
      BY <2>1, <3>2
    <3> HIDE DEF checked, good, again, rows
    <3> QED
      BY <2>1, <3>1, <3>3, <3>6, <3>7, <3>8, <3>9, <3>10
  <2> QED
    BY <2>2, <2>3
<1>14. ASSUME NEW t \in Threads, KeepSession(t)
      PROVE  ReportComplete'
  BY <1>14 DEF KeepSession, Recording, sessionVars, observations
<1>15. ASSUME NEW t \in Threads, CloseSession(t)
      PROVE  ReportComplete'
  BY <1>15 DEF CloseSession, Invoke, IdleCall, observations
<1>16. ASSUME NEW t \in Threads, SessionClosed(t)
      PROVE  ReportComplete'
  BY <1>16 DEF SessionClosed, Recording, Consume, IdleCall, observations
<1>17. ASSUME NEW t \in Threads, WriteAudit(t)
      PROVE  ReportComplete'
  BY <1>17 DEF WriteAudit, sessionVars, observations
<1>18. ASSUME NEW t \in Threads, AppendHistory(t)
      PROVE  ReportComplete'
  BY <1>18 DEF AppendHistory, sessionVars, observations
<1>19. ASSUME NEW t \in Threads, Release(t)
      PROVE  ReportComplete'
  BY <1>19 DEF Release, sessionVars, observations
<1>20. ASSUME NEW t \in Threads, CallStep(t)
      PROVE  ReportComplete'
  <2>1. /\ UNCHANGED <<runnerVars, approved>>
        /\ phase # "deleting" => sent' = sent
    BY <1>20, CallEffect
  <2> QED
    BY <2>1 DEF runnerVars
<1>21. ASSUME NEW t \in Threads, CloseFromOutside(t) \/ OutsideClosed(t)
      PROVE  ReportComplete'
  BY <1>21 DEF CloseFromOutside, OutsideClosed, Invoke, Consume, IdleCall, runnerVars,
       observations
<1>22. ASSUME RequestCancel \/ Environment \/ UNCHANGED vars
      PROVE  ReportComplete'
  BY <1>22, OthersKeepReport DEF observations
<1> HIDE DEF RunInv, ReportInv, ResultsSoFar, ResultsHonest, BatchAccounted, ReportComplete
<1> QED
  BY <1>1, <1>2, <1>3, <1>4, <1>5, <1>6, <1>7, <1>8, <1>9, <1>10, <1>11, <1>12, <1>13, <1>14,
       <1>15, <1>16, <1>17, <1>18, <1>19, <1>20, <1>21, <1>22 DEF Next, RunStep

(* Nothing but a query or a delete command opens a connection, and a close  *)
(* leaves none.                                                             *)
LEMMA OnlyCommandsConnect ==
    ASSUME SessionTypeOK, SessionInv, NEW t \in Threads, SessionStep(t), call[t].op = "close"
    PROVE  /\ connection' \in {connection, "none"}
           /\ call'[t].pc = "return" => connection' = "none"
<1>1. call[t].pc \in {"enter", "closing"}
  BY CallFrame DEF SessionInv, SendsSoFar
<1>2. CASE Acquire(t)
  BY <1>2 DEF Acquire, Goto, SessionTypeOK, Calls
<1>3. CASE Close(t)
  BY <1>3 DEF Close, Disconnect
<1> QED
  BY <1>1, <1>2, <1>3 DEF SessionStep, Reuse, DropChanged, Connect, ConnectFails, DisablePaging,
     VerifyIdentity, GateFails, AnswerQuery, AnswerDelete, SendFails

LEMMA ReleasedStep ==
    ASSUME RunInv, ReleasedSoFar, [Next]_vars
    PROVE  ReleasedSoFar'
<1> USE SessionConstants DEF ReleasedSoFar, RunInv, TypeOK, SessionTypeOK, PhaseMatchesCall, At,
        OutsidersOnlyClose
<1>1. ASSUME NEW t \in Threads, NEW k \in {"run", "preview"}, NEW c \in Configs, Start(t, k, c)
      PROVE  ReleasedSoFar'
  BY <1>1 DEF Start, EmptySummary, NoResult, Success, Invoke, IdleCall, observations
<1>2. ASSUME NEW t \in Threads, QueryReturned(t)
      PROVE  ReleasedSoFar'
  BY <1>2 DEF QueryReturned, FinishWith, Consume, IdleCall, observations
<1>3. ASSUME NEW t \in Threads, Approve(t)
      PROVE  ReleasedSoFar'
  BY <1>3 DEF Approve, sessionVars, observations
<1>4. ASSUME NEW t \in Threads, Deny(t)
      PROVE  ReleasedSoFar'
  BY <1>4 DEF Deny, FinishWith, CanceledBefore, sessionVars, observations
<1>5. ASSUME NEW t \in Threads, CountdownCanceled(t)
      PROVE  ReleasedSoFar'
  BY <1>5 DEF CountdownCanceled, FinishWith, CanceledBefore, sessionVars, observations
<1>6. ASSUME NEW t \in Threads,
             \/ CountdownTick(t) \/ CountdownDone(t)
      PROVE  ReleasedSoFar'
  BY <1>6 DEF CountdownTick, sessionVars, CountdownDone, observations
<1>7. ASSUME NEW t \in Threads, DeleteNext(t)
      PROVE  ReleasedSoFar'
  BY <1>7 DEF DeleteNext, Invoke, IdleCall, observations
<1>8. ASSUME NEW t \in Threads, DeleteReturned(t)
      PROVE  ReleasedSoFar'
  BY <1>8 DEF DeleteReturned, Consume, IdleCall, DeleteResult, observations
<1>9. ASSUME NEW t \in Threads, DeleteLoopEnds(t)
      PROVE  ReleasedSoFar'
  BY <1>9 DEF DeleteLoopEnds, sessionVars, observations
<1>10. ASSUME NEW t \in Threads, CancelNotSeenAfterLoop(t)
      PROVE  ReleasedSoFar'
  BY <1>10 DEF CancelNotSeenAfterLoop, sessionVars, observations
<1>11. ASSUME NEW t \in Threads, SkipVerification(t)
      PROVE  ReleasedSoFar'
  BY <1>11 DEF SkipVerification, FinishWith, Counted, Attempted, sessionVars, observations
<1>12. ASSUME NEW t \in Threads, StartVerification(t)
      PROVE  ReleasedSoFar'
  BY <1>12 DEF StartVerification, Invoke, IdleCall, observations
<1>13. ASSUME NEW t \in Threads, VerificationReturned(t)
      PROVE  ReleasedSoFar'
  BY <1>13 DEF VerificationReturned, FinishWith, Consume, IdleCall, observations
<1>14. ASSUME NEW t \in Threads, KeepSession(t)
      PROVE  ReleasedSoFar'
  BY <1>14 DEF KeepSession, Recording, sessionVars, observations
<1>15. ASSUME NEW t \in Threads, CloseSession(t)
      PROVE  ReleasedSoFar'
  BY <1>15 DEF CloseSession, Invoke, IdleCall, observations
<1>16. ASSUME NEW t \in Threads, SessionClosed(t)
      PROVE  ReleasedSoFar'
  BY <1>16 DEF SessionClosed, Recording, Consume, IdleCall, observations
<1>17. ASSUME NEW t \in Threads,
             \/ WriteAudit(t) \/ AppendHistory(t)
      PROVE  ReleasedSoFar'
  BY <1>17 DEF WriteAudit, sessionVars, AppendHistory, observations
<1>18. ASSUME NEW t \in Threads, Release(t)
      PROVE  ReleasedSoFar'
  BY <1>18 DEF Release, sessionVars, observations
<1>19. ASSUME NEW t \in Threads, CallStep(t)
      PROVE  ReleasedSoFar'
  <2>1. /\ UNCHANGED <<persistent, runLock, phase>>
        /\ \A u \in Threads : u # t => call'[u] = call[u]
        /\ SessionStep(t)
    BY <1>19, CallEffect DEF CallStep, runnerVars
  <2>2. CASE call[t].op = "close"
    <3>1. /\ connection' \in {connection, "none"}
          /\ call'[t].pc = "return" => connection' = "none"
      BY <2>1, <2>2, OnlyCommandsConnect
    <3> QED
      BY <2>1, <3>1
  <2>3. CASE call[t].op # "close"
    BY <2>1, <2>3
  <2> QED
    BY <2>2, <2>3
<1>20. ASSUME NEW t \in Threads, CloseFromOutside(t) \/ OutsideClosed(t)
      PROVE  ReleasedSoFar'
  BY <1>20 DEF CloseFromOutside, OutsideClosed, Invoke, Consume, IdleCall, runnerVars,
       observations
<1>21. ASSUME RequestCancel \/ Environment \/ UNCHANGED vars
      PROVE  ReleasedSoFar'
  BY <1>21, OthersKeepReport DEF observations
<1> HIDE DEF RunInv, ReleasedSoFar
<1> QED
  BY <1>1, <1>2, <1>3, <1>4, <1>5, <1>6, <1>7, <1>8, <1>9, <1>10, <1>11, <1>12, <1>13, <1>14,
       <1>15, <1>16, <1>17, <1>18, <1>19, <1>20, <1>21 DEF Next, RunStep

----------------------------------------------------------------------------
LEMMA ReportInit ==
    ASSUME Init
    PROVE  ReportInv
BY DEF Init, EmptySummary, NoResult, Success, ReportInv, ResultsSoFar, ResultsHonest,
   BatchAccounted, ReportComplete

LEMMA ReportInvStep ==
    ASSUME RunInv, ReportInv, [Next]_vars
    PROVE  ReportInv'
BY ResultsSoFarStep, ResultsHonestStep, BatchAccountedStep, ReportCompleteStep DEF ReportInv

(* In every reachable state the report is as far as the run is. *)
THEOREM ReportInvariant == Spec => []ReportInv
<1>1. Init => ReportInv
  BY ReportInit
<1>2. RunInv /\ ReportInv /\ [Next]_vars => ReportInv'
  BY ReportInvStep
<1> QED
  BY <1>1, <1>2, RunInvariant, PTL DEF Spec

(* _apply_verification and classify_delete_response together never report a *)
(* success the device did not perform, nor a failure where it removed the   *)
(* user, whatever answers are lost and whoever joins the table meanwhile.   *)
THEOREM HonestReport == Spec => []ReportHonest
<1>1. ReportInv => ReportHonest
  BY DEF ReportInv, ResultsHonest, ReportHonest
<1> QED
  BY <1>1, ReportInvariant, PTL

(* However the delete loop is left, _finalize_summary finds a result for    *)
(* every command that was sent, and for every approved MAC of a run that    *)
(* was not canceled.                                                        *)
THEOREM NoDeleteUnreported == Spec => []EveryDeleteReported
<1>1. ReportInv => EveryDeleteReported
  BY DEF ReportInv, ReportComplete, Over, EveryDeleteReported
<1> QED
  BY <1>1, ReportInvariant, PTL

(* _count_delete_results and the lists of a verified run agree with one     *)
(* another and with the results.                                            *)
THEOREM ConsistentReport == Spec => []ReportConsistent
<1>1. ReportInv => ReportConsistent
  BY DEF ReportInv, ReportComplete, Over, ReportConsistent
<1> QED
  BY <1>1, ReportInvariant, PTL

(* However a run or preview ends, the session of a runner that does not     *)
(* keep it is closed when the run lock is free again.                       *)
THEOREM NoSessionLeftBehind == Spec => []SessionReleased
<1>1. Init => ReleasedSoFar
  BY DEF Init, SessionInit, ReleasedSoFar
<1>2. RunInv /\ ReleasedSoFar /\ [Next]_vars => ReleasedSoFar'
  BY ReleasedStep
<1>3. RunInv /\ ReleasedSoFar => SessionReleased
  BY DEF RunInv, SessionInv, ConnectionAccounted, PhaseMatchesCall, ReleasedSoFar, SessionReleased
<1> QED
  BY <1>1, <1>2, <1>3, RunInvariant, PTL DEF Spec
============================================================================
