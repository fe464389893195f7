----------------------------- MODULE GuiProofs -----------------------------
(***************************************************************************)
(* Proofs about the desktop application: what its workers may do to the    *)
(* device and what its window shows, for any number of workers, runs and   *)
(* MACs.  The theorems hold for an operator who presses start whenever the *)
(* buttons let him (Hasty or not), but for those on the totals and on the  *)
(* loop's controls, which say that they assume ~Hasty.                     *)
(***************************************************************************)
EXTENDS Gui, FiniteSetTheorems, SequenceTheorems, TLAPS

(* A run that has been approved and may delete. *)
Approved == {"countdown", "delete", "send", "check"}

(* The types the argument needs.  Threads beyond the last start are not     *)
(* alive, so a new worker never takes the place of one.                     *)
WorkerTypes ==
    /\ starts \in 0 .. MaxStarts
    /\ runs \in 0 .. MaxRuns
    /\ pc \in [Threads -> Places]
    /\ number \in [Threads -> 0 .. MaxRuns]
    /\ lock \in Threads \cup {NoThread}
    /\ \A t \in Threads : t > starts => pc[t] = "off"

(* runner_lock is held exactly by the thread inside a run. *)
LockCoversRun == \A t \in Threads : pc[t] \in InRun <=> lock = t

(* A stop the operator has not taken back is still set.  Only a start       *)
(* clears the stop event; a cycle that begins clears the cancel event,      *)
(* which is why the cancel event does not do.                               *)
StopIsSet == stopped => stopEvent

ControlInv == WorkerTypes /\ LockCoversRun /\ ConsentIsOwn /\ StopIsSet

----------------------------------------------------------------------------
LEMMA ControlInit == GuiInit => ControlInv
BY GuiConstants
   DEF GuiInit, ControlInv, WorkerTypes, LockCoversRun, ConsentIsOwn, StopIsSet,
       Threads, NoThread, Places, InRun

(* A step of thread t within its run: it keeps the lock and the number of   *)
(* the run, and gets past the approval only with its own answer.            *)
LEMMA StepInRun ==
    ASSUME ControlInv, NEW t \in Threads, NEW p \in InRun,
           pc[t] \in InRun, pc' = [pc EXCEPT ![t] = p],
           p \in Approved => pc[t] \in Approved \/ Request(t, "targets") \in yes,
           UNCHANGED <<starts, runs, number, lock, yes, stopped, stopEvent>>
    PROVE  ControlInv'
<1> USE DEF ControlInv
<1>1. pc' \in [Threads -> Places] /\ t <= starts
  BY DEF WorkerTypes, Places, InRun, Threads
<1>2. WorkerTypes' /\ StopIsSet'
  BY <1>1 DEF WorkerTypes, StopIsSet, Threads
<1>3. LockCoversRun'
  BY DEF WorkerTypes, LockCoversRun
<1>4. ConsentIsOwn'
  BY DEF WorkerTypes, ConsentIsOwn, Approved, Request
<1> QED
  BY <1>2, <1>3, <1>4

(* A step of thread t outside a run, with no new run. *)
LEMMA StepOutside ==
    ASSUME ControlInv, NEW t \in Threads, NEW p \in Places \ InRun,
           pc[t] \in Places \ InRun, pc[t] # "off", pc' = [pc EXCEPT ![t] = p],
           UNCHANGED <<starts, runs, number, lock, yes, stopped, stopEvent>>
    PROVE  ControlInv'
<1> USE DEF ControlInv
<1>1. WorkerTypes' /\ StopIsSet'
  BY DEF WorkerTypes, StopIsSet, Threads
<1>2. LockCoversRun'
  BY DEF WorkerTypes, LockCoversRun
<1>3. ConsentIsOwn'
  BY DEF WorkerTypes, ConsentIsOwn, Request, InRun
<1> QED
  BY <1>1, <1>2, <1>3

(* A thread gets a place outside runs and maybe the number of a new run:    *)
(* what the others do and may do stays.                                     *)
LEMMA NewNumber ==
    ASSUME ControlInv, NEW t \in Threads, NEW p \in Places \ InRun,
           pc[t] \notin InRun, pc' = [pc EXCEPT ![t] = p],
           NextRun(t) \/ UNCHANGED <<runs, number>>,
           starts' \in 0 .. MaxStarts, t <= starts', starts <= starts',
           UNCHANGED <<lock, yes>>, StopIsSet'
    PROVE  ControlInv'
<1> USE DEF ControlInv
<1>1. runs' \in 0 .. MaxRuns /\ number' \in [Threads -> 0 .. MaxRuns]
  BY GuiConstants DEF WorkerTypes, NextRun
<1>2. WorkerTypes'
  BY <1>1 DEF WorkerTypes, Threads
<1>3. LockCoversRun'
  BY DEF WorkerTypes, LockCoversRun
<1>4. ASSUME NEW u \in Threads, pc'[u] \in Approved
      PROVE  pc[u] = pc'[u] /\ number'[u] = number[u]
  BY <1>4 DEF WorkerTypes, NextRun, Approved, InRun
<1>5. ConsentIsOwn'
  BY <1>4 DEF ConsentIsOwn, Request, Approved
<1> QED
  BY <1>2, <1>3, <1>5

(* Everything the Tk thread does but starting a worker. *)
LEMMA TkOnly ==
    ASSUME ControlInv, yes \subseteq yes',
           UNCHANGED <<starts, runs, pc, number, lock>>, StopIsSet'
    PROVE  ControlInv'
BY DEF ControlInv, WorkerTypes, LockCoversRun, ConsentIsOwn, Request

----------------------------------------------------------------------------
(* The steps of a worker. *)
LEMMA WorkerKeeps ==
    ASSUME ControlInv, NEW t \in Threads, WorkerStep(t)
    PROVE  ControlInv'
<1> USE DEF At, Goto, Tell, TkUnchanged, workerVars, answerVars, Connected
<1>0. /\ InRun \cap {"off", "loop", "cycle", "lock", "report", "end", "wait", "exit"} = {}
      /\ {"loop", "cycle", "lock", "report", "end", "wait", "exit", "off"}
             \subseteq Places \ InRun
      /\ {"connect", "ask_key", "query", "ask_targets", "countdown", "delete", "send",
          "check", "release"} \subseteq InRun
      /\ t <= starts \/ pc[t] = "off"
      /\ starts \in 0 .. MaxStarts
      /\ pc \in [Threads -> Places]
  BY DEF InRun, Places, ControlInv, WorkerTypes, Threads
<1>1. CASE LoopHead(t)
  <2>1. StopIsSet'
    BY <1>1 DEF LoopHead, ControlInv, StopIsSet
  <2>2. PICK p \in {"exit", "cycle"} : pc' = [pc EXCEPT ![t] = p]
    BY <1>1 DEF LoopHead
  <2>3. UNCHANGED <<starts, lock, yes>> /\ pc[t] = "loop"
    BY <1>1 DEF LoopHead
  <2>4. NextRun(t) \/ UNCHANGED <<runs, number>>
    BY <1>1 DEF LoopHead
  <2>5. starts' \in 0 .. MaxStarts /\ t <= starts' /\ starts <= starts'
    BY <1>0, <2>3
  <2>6. p \in Places \ InRun /\ pc[t] \notin InRun
    BY <2>3 DEF Places, InRun
  <2>7. UNCHANGED <<lock, yes>>
    BY <2>3
  <2> QED
    BY <2>1, <2>2, <2>4, <2>5, <2>6, <2>7, NewNumber
<1>2. CASE BeginCycle(t)
  <2>1. /\ pc' = [pc EXCEPT ![t] = "lock"] /\ pc[t] = "cycle"
        /\ UNCHANGED <<starts, runs, number, lock, yes, stopped, stopEvent>>
    BY <1>2 DEF BeginCycle
  <2>2. /\ "lock" \in Places \ InRun /\ pc[t] \in Places \ InRun
        /\ pc[t] # "off"
    BY <2>1 DEF Places, InRun
  <2> QED
    BY <2>1, <2>2, StepOutside
<1>3. CASE TakeLock(t)
  <2>1. /\ pc[t] = "lock" /\ pc' = [pc EXCEPT ![t] = "connect"]
        /\ lock = NoThread /\ lock' = t
        /\ UNCHANGED <<starts, runs, number, yes, stopped, stopEvent>>
    BY <1>3 DEF TakeLock
  <2>2. WorkerTypes' /\ StopIsSet'
    BY <1>0, <2>1 DEF ControlInv, WorkerTypes, StopIsSet, Threads, Places, InRun
  <2>3. LockCoversRun'
    BY <1>0, <2>1 DEF ControlInv, LockCoversRun, WorkerTypes, Threads, NoThread
  <2>4. ConsentIsOwn'
    BY <1>0, <2>1 DEF ControlInv, ConsentIsOwn, WorkerTypes, Request
  <2> QED
    BY <2>2, <2>3, <2>4 DEF ControlInv
<1>4. CASE AskHostKey(t)
  BY <1>0, <1>4, StepInRun DEF AskHostKey, Approved
<1>5. CASE KeyAnswered(t)
  BY <1>0, <1>5, StepInRun DEF KeyAnswered, Approved
<1>6. CASE Query(t)
  <2>1. PICK p \in {"release", "ask_targets"} : pc' = [pc EXCEPT ![t] = p]
    BY <1>6 DEF Query
  <2>2. UNCHANGED <<starts, runs, number, lock, yes, stopped, stopEvent>>
    BY <1>6 DEF Query
  <2>3. pc[t] \in {"connect", "query"}
    BY <1>6 DEF Query
  <2> QED
    BY <1>0, <2>1, <2>2, <2>3, StepInRun DEF Approved
<1>7. CASE QueryFails(t)
  BY <1>0, <1>7, StepInRun DEF QueryFails, Approved
<1>8. CASE TargetsAnswered(t)
  BY <1>0, <1>8, StepInRun DEF TargetsAnswered, Approved, Approval
<1>9. CASE GiveUp(t)
  BY <1>0, <1>9, StepInRun DEF GiveUp, Approved
<1>10. CASE Countdown(t)
  BY <1>0, <1>10, StepInRun DEF Countdown, Approved
<1>11. CASE DeleteNext(t)
  BY <1>0, <1>11, StepInRun DEF DeleteNext, Approved
<1>12. CASE DeleteLoopEnds(t)
  BY <1>0, <1>12, StepInRun DEF DeleteLoopEnds, Approved
<1>13. CASE SendDelete(t)
  BY <1>0, <1>13, StepInRun DEF SendDelete, Approved
<1>14. CASE CancelBeforeVerify(t)
  BY <1>0, <1>14, StepInRun DEF CancelBeforeVerify, Approved
<1>15. CASE Verify(t)
  BY <1>0, <1>15, StepInRun DEF Verify, Approved
<1>16. CASE VerifyFails(t)
  BY <1>0, <1>16, StepInRun DEF VerifyFails, Approved
<1>17. CASE ReleaseLock(t)
  <2>1. /\ pc[t] = "release" /\ pc' = [pc EXCEPT ![t] = "report"]
        /\ lock' = NoThread
        /\ UNCHANGED <<starts, runs, number, yes, stopped, stopEvent>>
    BY <1>17 DEF ReleaseLock
  <2>2. WorkerTypes' /\ StopIsSet'
    BY <1>0, <2>1 DEF ControlInv, WorkerTypes, StopIsSet, Threads, Places, InRun
  <2>3. LockCoversRun'
    BY <1>0, <2>1 DEF ControlInv, LockCoversRun, WorkerTypes, Threads, NoThread
  <2>4. ConsentIsOwn'
    BY <1>0, <2>1 DEF ControlInv, ConsentIsOwn, WorkerTypes, Request
  <2> QED
    BY <2>2, <2>3, <2>4 DEF ControlInv
<1>18. CASE Report(t)
  BY <1>0, <1>18, StepOutside DEF Report
<1>19. CASE EndRun(t)
  BY <1>0, <1>19, StepOutside DEF EndRun
<1>20. CASE WaitEnds(t)
  BY <1>0, <1>20, StepOutside DEF WaitEnds
<1>21. CASE LoopExits(t)
  BY <1>0, <1>21, StepOutside DEF LoopExits
<1> QED
  BY <1>1, <1>2, <1>3, <1>4, <1>5, <1>6, <1>7, <1>8, <1>9, <1>10, <1>11, <1>12, <1>13,
     <1>14, <1>15, <1>16, <1>17, <1>18, <1>19, <1>20, <1>21 DEF WorkerStep

(* The steps of the Tk thread. *)
LEMMA TkKeeps ==
    ASSUME ControlInv, TkStep
    PROVE  ControlInv'
<1> USE DEF workerVars, answerVars, flagVars, ghostVars, StopIsSet, ControlInv
<1>1. CASE StartManualRun
  <2>1. CASE UNCHANGED workerVars
    BY <1>1, <2>1, TkOnly DEF StartManualRun, Pressed
  <2>2. CASE StartThread("manual", "lock") /\ NextRun(starts + 1)
    <3>1. /\ starts + 1 \in Threads /\ pc[starts + 1] = "off"
          /\ "lock" \in Places \ InRun /\ "off" \notin InRun
      BY <1>1, GuiConstants DEF StartManualRun, WorkerTypes, Threads, Places, InRun
    <3>2. starts' = starts + 1 /\ starts' \in 0 .. MaxStarts /\ starts <= starts'
      BY <1>1, <2>2, GuiConstants DEF StartManualRun, StartThread, WorkerTypes
    <3>3. UNCHANGED <<lock, yes>> /\ StopIsSet'
      BY <1>1 DEF StartManualRun, Pressed
    <3>4. pc' = [pc EXCEPT ![starts + 1] = "lock"]
      BY <2>2 DEF StartThread
    <3>5. starts + 1 <= starts'
      BY <3>2
    <3> HIDE DEF StopIsSet, ControlInv
    <3> QED
      BY <2>2, <3>1, <3>2, <3>3, <3>4, <3>5, NewNumber
  <2> QED
    BY <1>1, <2>1, <2>2 DEF StartManualRun
<1>2. CASE StartScheduler
  <2>1. CASE UNCHANGED workerVars
    BY <1>2, <2>1, TkOnly DEF StartScheduler, Pressed
  <2>2. CASE StartThread("scheduler", "loop") /\ UNCHANGED <<runs, number, run>>
    <3>1. /\ starts + 1 \in Threads /\ pc[starts + 1] = "off"
          /\ "loop" \in Places \ InRun /\ "off" \notin InRun
      BY <1>2, GuiConstants DEF StartScheduler, WorkerTypes, Threads, Places, InRun
    <3>2. starts' = starts + 1 /\ starts' \in 0 .. MaxStarts /\ starts <= starts'
      BY <1>2, <2>2, GuiConstants DEF StartScheduler, StartThread, WorkerTypes
    <3>3. UNCHANGED <<lock, yes>> /\ StopIsSet'
      BY <1>2 DEF StartScheduler, Pressed
    <3>4. pc' = [pc EXCEPT ![starts + 1] = "loop"]
      BY <2>2 DEF StartThread
    <3>5. starts + 1 <= starts'
      BY <3>2
    <3> HIDE DEF StopIsSet, ControlInv
    <3> QED
      BY <2>2, <3>1, <3>2, <3>3, <3>4, <3>5, NewNumber
  <2> QED
    BY <1>2, <2>1, <2>2 DEF StartScheduler
<1>3. CASE StopScheduler
  BY <1>3, TkOnly DEF StopScheduler
<1>4. CASE DisconnectSession
  BY <1>4, TkOnly DEF DisconnectSession
<1>5. CASE CloseWindow
  BY <1>5, TkOnly DEF CloseWindow
<1>6. CASE Drain
  <2>1. UNCHANGED <<yes, starts, runs, pc, number, lock, stopped, stopEvent>>
    BY <1>6 DEF Drain
  <2> QED
    BY <2>1, TkOnly
<1>7. CASE DrainEnds
  BY <1>7, TkOnly DEF DrainEnds
<1>8. CASE AnswerDialog
  <2>1. yes \subseteq yes' /\ UNCHANGED <<starts, runs, pc, number, lock, stopped, stopEvent>>
    BY <1>8 DEF AnswerDialog
  <2> QED
    BY <2>1, TkOnly
<1> QED
  BY <1>1, <1>2, <1>3, <1>4, <1>5, <1>6, <1>7, <1>8 DEF TkStep

LEMMA ControlStep == ControlInv /\ [GuiNext]_vars => ControlInv'
<1> SUFFICES ASSUME ControlInv, [GuiNext]_vars PROVE ControlInv'
  OBVIOUS
<1> USE DEF vars, workerVars, answerVars, flagVars, ghostVars
<1>1. CASE UNCHANGED <<starts, runs, pc, number, lock, yes, stopped, stopEvent>>
  BY <1>1, TkOnly DEF ControlInv, StopIsSet
<1>2. CASE CloserStep
  BY <1>1, <1>2 DEF CloserStep
<1>3. CASE TkStep
  BY <1>3, TkKeeps
<1>4. ASSUME NEW t \in Threads, WorkerStep(t) PROVE ControlInv'
  BY <1>4, WorkerKeeps
<1>5. CASE Ended \/ UNCHANGED vars
  BY <1>1, <1>5 DEF Ended
<1> QED
  BY <1>2, <1>3, <1>4, <1>5 DEF GuiNext

(* The invariant holds in every reachable state. *)
THEOREM ControlInvariant == GuiSpec => []ControlInv
<1>1. GuiInit => ControlInv
  BY ControlInit
<1>2. ControlInv /\ [GuiNext]_vars => ControlInv'
  BY ControlStep
<1> QED
  BY <1>1, <1>2, PTL DEF GuiSpec

(* No run gets past its approval without the operator's yes to its own      *)
(* request, however late other dialogs are answered (_request_approval).    *)
THEOREM ConsentIsOwnAlways == GuiSpec => []ConsentIsOwn
<1>1. ControlInv => ConsentIsOwn
  BY DEF ControlInv
<1> QED
  BY <1>1, ControlInvariant, PTL

(* Only one worker at a time is inside the runner (_run_summary). *)
THEOREM RunsExclude == GuiSpec => []LockCoversRun
<1>1. ControlInv => LockCoversRun
  BY DEF ControlInv
<1> QED
  BY <1>1, ControlInvariant, PTL

(* After stop no run begins another delete until the operator starts        *)
(* something again (stop_scheduler, on_close, _should_cancel_run).          *)
THEOREM StopHoldsAlways == GuiSpec => StopHolds
<1>1. ASSUME ControlInv, [GuiNext]_vars, stopped, NEW t \in Threads, pc[t] # "send"
      PROVE  pc'[t] # "send"
  <2> USE DEF vars, workerVars, ghostVars
  <2>0. stopEvent /\ pc \in [Threads -> Places]
    BY <1>1 DEF ControlInv, StopIsSet, WorkerTypes
  <2>1. CASE TkStep
    BY <1>1, <2>0, <2>1, GuiConstants
       DEF TkStep, StartManualRun, StartScheduler, StartThread, StopScheduler,
           DisconnectSession, CloseWindow, Drain, DrainEnds, AnswerDialog, Threads
  <2>2. CASE CloserStep \/ Ended \/ UNCHANGED vars
    BY <1>1, <2>2 DEF CloserStep, Ended
  <2>3. ASSUME NEW u \in Threads, WorkerStep(u) PROVE pc'[t] # "send"
    <3>1. PICK p : pc' = [pc EXCEPT ![u] = p] /\ p # "send"
      BY <2>0, <2>3
         DEF WorkerStep, LoopHead, BeginCycle, TakeLock, AskHostKey, KeyAnswered, Query,
             QueryFails, TargetsAnswered, GiveUp, Countdown, DeleteNext, DeleteLoopEnds,
             SendDelete, CancelBeforeVerify, Verify, VerifyFails, ReleaseLock, Report,
             EndRun, WaitEnds, LoopExits, Tell, Goto, ShouldCancel
    <3> QED
      BY <1>1, <2>0, <3>1
  <2> QED
    BY <1>1, <2>1, <2>2, <2>3 DEF GuiNext
<1>2. ControlInv /\ [GuiNext]_vars =>
          [stopped /\ stopped' => \A t \in Threads : pc[t] # "send" => pc'[t] # "send"]_vars
  BY <1>1
<1> QED
  BY <1>2, ControlInvariant, PTL DEF GuiSpec, StopHolds

----------------------------------------------------------------------------
(* The workers implement ApprovedCleanup *)

(* Where a thread holds no part of a run: before its query, and after its   *)
(* summary was queued.                                                      *)
Fresh == Places \ {"ask_targets", "countdown", "delete", "send", "check", "release", "report"}

(* What the delete loop has not reached is targeted and was sent nothing.   *)
Fits(r) == r.todo \subseteq r.targets /\ \A m \in r.todo : r.results[m] = "none"

RunsFit ==
    /\ run \in [Threads -> Runs]
    /\ \A t \in Threads : Fits(run[t]) /\ (pc[t] \in Fresh => run[t] = NewRun)

PromiseInv == ControlInv /\ RunsFit

LEMMA NewRunFits == NewRun \in Runs /\ Fits(NewRun)
BY DEF NewRun, Runs, Responses, Fits

LEMMA PromiseInit == GuiInit => PromiseInv
BY ControlInit, NewRunFits DEF GuiInit, PromiseInv, RunsFit

(* A step that moves t and changes no run. *)
LEMMA SameRuns ==
    ASSUME ControlInv, RunsFit, NEW t \in Threads, NEW p \in Places,
           pc' = [pc EXCEPT ![t] = p], UNCHANGED run,
           p \in Fresh => pc[t] \in Fresh \/ run[t] = NewRun
    PROVE  RunsFit'
BY DEF ControlInv, WorkerTypes, RunsFit, Fits

(* A step that moves t on and changes its run only. *)
LEMMA OwnRun ==
    ASSUME ControlInv, RunsFit, NEW t \in Threads, NEW p \in Places, NEW r \in Runs,
           pc' = [pc EXCEPT ![t] = p], run' = [run EXCEPT ![t] = r],
           Fits(r), p \in Fresh => r = NewRun
    PROVE  RunsFit'
BY DEF ControlInv, WorkerTypes, RunsFit, Fits

LEMMA RunsFitStep == ControlInv /\ RunsFit /\ [GuiNext]_vars => RunsFit'
<1> SUFFICES ASSUME ControlInv, RunsFit, [GuiNext]_vars PROVE RunsFit'
  OBVIOUS
<1> USE DEF vars, workerVars, ghostVars, countVars
<1>0. pc \in [Threads -> Places] /\ run \in [Threads -> Runs]
  BY DEF ControlInv, WorkerTypes, RunsFit
<1>1. CASE UNCHANGED <<pc, run>>
  BY <1>1 DEF RunsFit, Fits
<1>2. CASE TkStep
  <2>1. CASE StartManualRun \/ StartScheduler
    <3>1. CASE UNCHANGED workerVars
      BY <1>1, <3>1
    <3>2. CASE UNCHANGED run /\ (StartThread("manual", "lock") \/ StartThread("scheduler", "loop"))
      <4>a. starts < MaxStarts
        BY <2>1 DEF StartManualRun, StartScheduler
      <4>1. starts + 1 \in Threads /\ pc[starts + 1] = "off"
        BY <4>a, GuiConstants DEF ControlInv, WorkerTypes, Threads
      <4>2. PICK p \in {"lock", "loop"} : pc' = [pc EXCEPT ![starts + 1] = p]
        BY <3>2 DEF StartThread
      <4>3. {"lock", "loop", "off"} \subseteq Places /\ {"lock", "loop", "off"} \subseteq Fresh
        BY DEF Places, InRun, Fresh
      <4> QED BY <3>2, <4>1, <4>2, <4>3, SameRuns
    <3> QED BY <2>1, <3>1, <3>2 DEF StartManualRun, StartScheduler
  <2>2. CASE StopScheduler \/ DisconnectSession \/ CloseWindow \/ Drain \/ DrainEnds \/ AnswerDialog
    BY <1>1, <2>2 DEF StopScheduler, DisconnectSession, CloseWindow, Drain, DrainEnds, AnswerDialog
  <2> QED BY <1>2, <2>1, <2>2 DEF TkStep
<1>3. ASSUME NEW t \in Threads, WorkerStep(t) PROVE RunsFit'
  <2> USE DEF At, Goto, Tell, Connected
  <2>0. /\ {"exit", "cycle", "lock", "connect", "ask_key", "query", "ask_targets", "countdown",
            "delete", "send", "check", "release", "report", "end", "off", "wait", "loop"}
               \subseteq Places
        /\ {"loop", "cycle", "lock", "connect", "ask_key", "query", "end", "wait", "exit", "off"}
               \subseteq Fresh
        /\ {"ask_targets", "countdown", "delete", "send", "check", "release", "report"}
               \cap Fresh = {}
        /\ run[t] \in Runs /\ Fits(run[t]) /\ (pc[t] \in Fresh => run[t] = NewRun)
    BY <1>0 DEF Places, InRun, Fresh, RunsFit
  <2>1. CASE Query(t)
    <3>1. PICK macs \in SUBSET Macs : 
            run' = [run EXCEPT ![t].targets = macs, ![t].todo = macs, ![t].counted = (macs = {})]
      BY <2>1 DEF Query
    <3>2. run[t] = NewRun
      BY <2>0, <2>1 DEF Query
    <3> DEFINE r == [NewRun EXCEPT !.targets = macs, !.todo = macs, !.counted = (macs = {})]
    <3>3. run' = [run EXCEPT ![t] = r]
      BY <1>0, <3>1, <3>2
    <3>4. r \in Runs /\ Fits(r)
      BY NewRunFits DEF NewRun, Runs, Fits
    <3>5. PICK p \in {"release", "ask_targets"} : pc' = [pc EXCEPT ![t] = p]
      BY <2>1 DEF Query
    <3> HIDE DEF r
    <3> QED BY <2>0, <3>3, <3>4, <3>5, OwnRun
  <2>2. CASE SendDelete(t)
    <3>1. PICK mac \in run[t].todo, answer \in Responses \ {"none"} :
            run' = [run EXCEPT ![t].todo = @ \ {mac}, ![t].results[mac] = answer]
      BY <2>2 DEF SendDelete
    <3> DEFINE r == [run[t] EXCEPT !.todo = @ \ {mac}, !.results[mac] = answer]
    <3>2. run' = [run EXCEPT ![t] = r]
      BY <1>0, <3>1
    <3>3. r \in Runs /\ Fits(r)
      BY <2>0 DEF Runs, Fits
    <3>4. pc' = [pc EXCEPT ![t] = "delete"]
      BY <2>2 DEF SendDelete
    <3> HIDE DEF r
    <3> QED BY <2>0, <3>2, <3>3, <3>4, OwnRun
  <2>3. CASE Verify(t)
    <3>1. PICK again \in SUBSET Macs :
            run' = [run EXCEPT ![t].again = again, ![t].counted = TRUE]
      BY <2>3, <2>0 DEF Verify, Deleted
    <3> DEFINE r == [run[t] EXCEPT !.again = again, !.counted = TRUE]
    <3>2. run' = [run EXCEPT ![t] = r]
      BY <1>0, <3>1
    <3>3. r \in Runs /\ Fits(r)
      BY <2>0 DEF Runs, Fits
    <3>4. pc' = [pc EXCEPT ![t] = "release"]
      BY <2>3 DEF Verify
    <3> HIDE DEF r
    <3> QED BY <2>0, <3>2, <3>3, <3>4, OwnRun
  <2>4. CASE Report(t)
    <3>1. run' = [run EXCEPT ![t] = NewRun] /\ pc' = [pc EXCEPT ![t] = "end"]
      BY <2>4 DEF Report
    <3> QED BY <2>0, <3>1, NewRunFits, OwnRun
  <2>5. CASE LoopHead(t) \/ BeginCycle(t) \/ TakeLock(t) \/ AskHostKey(t) \/ KeyAnswered(t)
             \/ QueryFails(t) \/ EndRun(t) \/ WaitEnds(t) \/ LoopExits(t)
    <3>1. PICK p \in {"exit", "cycle", "lock", "connect", "ask_key", "query", "release", "off", "wait",
                      "loop"} : pc' = [pc EXCEPT ![t] = p]
      BY <2>5 DEF LoopHead, BeginCycle, TakeLock, AskHostKey, KeyAnswered, QueryFails, EndRun,
                  WaitEnds, LoopExits
    <3>2. UNCHANGED run /\ pc[t] \in Fresh
      BY <2>0, <2>5 DEF LoopHead, BeginCycle, TakeLock, AskHostKey, KeyAnswered, QueryFails, EndRun,
                  WaitEnds, LoopExits
    <3> QED BY <2>0, <3>1, <3>2, SameRuns
  <2>6. CASE TargetsAnswered(t) \/ GiveUp(t) \/ Countdown(t) \/ DeleteNext(t) \/ DeleteLoopEnds(t)
             \/ CancelBeforeVerify(t) \/ VerifyFails(t) \/ ReleaseLock(t)
    <3>1. PICK p \in {"countdown", "release", "delete", "send", "check", "report"} :
             pc' = [pc EXCEPT ![t] = p]
      BY <2>6 DEF TargetsAnswered, GiveUp, Countdown, DeleteNext, DeleteLoopEnds,
                  CancelBeforeVerify, VerifyFails, ReleaseLock
    <3>2. UNCHANGED run
      BY <2>6 DEF TargetsAnswered, GiveUp, Countdown, DeleteNext, DeleteLoopEnds,
                  CancelBeforeVerify, VerifyFails, ReleaseLock
    <3> QED BY <2>0, <3>1, <3>2, SameRuns
  <2> QED BY <1>3, <2>1, <2>2, <2>3, <2>4, <2>5, <2>6 DEF WorkerStep
<1>4. CASE CloserStep \/ Ended \/ UNCHANGED vars
  BY <1>1, <1>4 DEF CloserStep, Ended
<1> QED BY <1>2, <1>3, <1>4 DEF GuiNext

(* What ApprovedCleanup sees depends on the thread that holds the lock.     *)
LEMMA SameView ==
    ASSUME lock' = lock, lock # NoThread => pc'[lock] = pc[lock] /\ run'[lock] = run[lock]
    PROVE  UNCHANGED Promise!abstractVars
BY DEF Promise!abstractVars, Stage, Snapshot, Transmitted

(* The run of the lock's holder moves on within a stage. *)
LEMMA SameStage ==
    ASSUME NEW t \in Threads, lock = t, lock' = t, Stage' = Stage, run'[t] = run[t]
    PROVE  UNCHANGED Promise!abstractVars
BY DEF Promise!abstractVars, Snapshot, Transmitted

(* The run of the lock's holder is over. *)
LEMMA RunIsOver ==
    ASSUME NEW t \in Threads, lock' = t, pc'[t] = "release", Stage # "idle"
    PROVE  Promise!End
<1>1. Stage' = "idle"
  BY DEF Stage, Threads, NoThread
<1> QED BY <1>1 DEF Promise!End, Snapshot, Transmitted

(* A step of the lock's holder t is a step of ApprovedCleanup or none.      *)
LEMMA HolderPromise ==
    ASSUME PromiseInv, NEW t \in Threads, lock = t, WorkerStep(t)
    PROVE  Promise!AbstractNext \/ UNCHANGED Promise!abstractVars
<1> USE DEF At, Goto, Tell, Connected
<1>0. /\ pc \in [Threads -> Places] /\ run \in [Threads -> Runs] /\ t # NoThread
      /\ pc[t] \in InRun /\ Fits(run[t]) /\ (pc[t] \in Fresh => run[t] = NewRun)
  BY DEF PromiseInv, ControlInv, WorkerTypes, LockCoversRun, RunsFit, Threads, NoThread
<1>1. CASE ReleaseLock(t)
  <2>1. Stage = "idle" /\ Stage' = "idle"
    BY <1>0, <1>1 DEF ReleaseLock, Stage
  <2> QED BY <2>1 DEF Promise!abstractVars, Snapshot, Transmitted
<1>2. CASE Query(t)
  <2>1. PICK macs \in SUBSET Macs :
          /\ run' = [run EXCEPT ![t].targets = macs, ![t].todo = macs, ![t].counted = (macs = {})]
          /\ pc' = [pc EXCEPT ![t] = IF macs = {} THEN "release" ELSE "ask_targets"]
          /\ lock' = lock
    BY <1>2 DEF Query
  <2>2. Stage = "looking" /\ run[t] = NewRun
    BY <1>0, <1>2 DEF Query, Stage, Fresh, Places, InRun
  <2>3. CASE macs = {}
    BY <1>0, <2>1, <2>2, <2>3, RunIsOver DEF Promise!AbstractNext
  <2>4. CASE macs # {}
    <3>1. run'[t].targets = macs /\ run'[t].results = run[t].results
      BY <1>0, <2>1, <2>2 DEF NewRun, Runs
    <3>2. Stage' = "asking"
      BY <1>0, <2>1, <2>4 DEF Stage
    <3>3. Snapshot' = macs /\ Transmitted' = Transmitted
      BY <2>1, <2>2, <3>1, <3>2 DEF Snapshot, Transmitted
    <3> QED BY <2>2, <2>4, <3>2, <3>3 DEF Promise!AbstractNext, Promise!Propose
  <2> QED BY <2>3, <2>4
<1>3. CASE SendDelete(t)
  <2>1. PICK mac \in run[t].todo, answer \in Responses \ {"none"} :
          /\ run' = [run EXCEPT ![t].todo = @ \ {mac}, ![t].results[mac] = answer]
          /\ pc' = [pc EXCEPT ![t] = "delete"] /\ pc[t] = "send"
          /\ lock' = lock
    BY <1>3 DEF SendDelete
  <2>2. mac \in run[t].targets /\ mac \in Macs /\ run[t].results[mac] = "none"
    BY <1>0, <2>1 DEF Fits, Runs
  <2>3. Stage = "deleting" /\ Stage' = "deleting"
    BY <1>0, <2>1 DEF Stage
  <2>4. /\ run'[t].targets = run[t].targets
        /\ run'[t].results = [run[t].results EXCEPT ![mac] = answer]
    BY <1>0, <2>1 DEF Runs
  <2>5. Snapshot = run[t].targets /\ Snapshot' = Snapshot
    BY <2>1, <2>3, <2>4 DEF Snapshot
  <2>6. run[t].results \in [Macs -> Responses] /\ answer # "none"
    BY <1>0, <2>1 DEF Runs
  <2>7. Transmitted = [m \in Macs |-> IF run[t].results[m] = "none" THEN 0 ELSE 1]
    BY <2>3 DEF Transmitted
  <2>8. Transmitted' = [m \in Macs |-> IF run'[t].results[m] = "none" THEN 0 ELSE 1]
    BY <2>1, <2>3 DEF Transmitted
  <2>9. Transmitted[mac] = 0 /\ Transmitted' = [Transmitted EXCEPT ![mac] = 1]
    BY <2>2, <2>4, <2>6, <2>7, <2>8
  <2> QED BY <2>2, <2>3, <2>5, <2>9 DEF Promise!AbstractNext, Promise!Transmit
<1>4. CASE AskHostKey(t) \/ DeleteNext(t) \/ DeleteLoopEnds(t)
  <2>1. lock' = t /\ run' = run
    BY <1>4 DEF AskHostKey, DeleteNext, DeleteLoopEnds
  <2>2. Stage' = Stage
    BY <1>0, <1>4 DEF AskHostKey, DeleteNext, DeleteLoopEnds, Stage
  <2> QED BY <2>1, <2>2, SameStage
<1>5. CASE QueryFails(t) \/ GiveUp(t) \/ CancelBeforeVerify(t) \/ Verify(t) \/ VerifyFails(t)
  <2>1. lock' = t /\ pc'[t] = "release"
    BY <1>0, <1>5 DEF QueryFails, GiveUp, CancelBeforeVerify, Verify, VerifyFails
  <2>2. Stage # "idle"
    BY <1>0, <1>5 DEF QueryFails, GiveUp, CancelBeforeVerify, Verify, VerifyFails, Stage
  <2> QED BY <2>1, <2>2, RunIsOver DEF Promise!AbstractNext
<1>6. CASE KeyAnswered(t) \/ TargetsAnswered(t) \/ Countdown(t)
  <2>1. lock' = t /\ run' = run
    BY <1>6 DEF KeyAnswered, TargetsAnswered, Countdown
  <2>2. CASE pc'[t] = "release"
    <3>1. Stage # "idle"
      BY <1>0, <1>6 DEF KeyAnswered, TargetsAnswered, Countdown, Stage
    <3> QED BY <2>1, <2>2, <3>1, RunIsOver DEF Promise!AbstractNext
  <2>3. CASE pc'[t] # "release" /\ ~TargetsAnswered(t)
    <3>1. Stage' = Stage
      BY <1>0, <1>6, <2>1, <2>3 DEF KeyAnswered, Countdown, Stage
    <3> QED BY <2>1, <3>1, SameStage
  <2>4. CASE pc'[t] # "release" /\ TargetsAnswered(t)
    <3>1. Stage = "asking" /\ Stage' = "deleting"
      BY <1>0, <2>1, <2>4 DEF TargetsAnswered, Stage
    <3>2. Snapshot' = Snapshot /\ Transmitted' = Transmitted
      BY <2>1, <3>1 DEF Snapshot, Transmitted
    <3> QED BY <3>1, <3>2 DEF Promise!AbstractNext, Promise!Agree
  <2> QED BY <2>2, <2>3, <2>4
<1>7. ~(LoopHead(t) \/ BeginCycle(t) \/ TakeLock(t) \/ Report(t) \/ EndRun(t) \/ WaitEnds(t)
          \/ LoopExits(t))
  BY <1>0 DEF LoopHead, BeginCycle, TakeLock, Report, EndRun, WaitEnds, LoopExits, InRun
<1> QED BY <1>1, <1>2, <1>3, <1>4, <1>5, <1>6, <1>7 DEF WorkerStep

(* Every step is one of ApprovedCleanup or changes nothing it sees.         *)
LEMMA PromiseStep == PromiseInv /\ [GuiNext]_vars => [Promise!AbstractNext]_(Promise!abstractVars)
<1> SUFFICES ASSUME PromiseInv, [GuiNext]_vars
             PROVE  Promise!AbstractNext \/ UNCHANGED Promise!abstractVars
  OBVIOUS
<1> USE DEF vars, workerVars, ghostVars, countVars
<1>0. /\ pc \in [Threads -> Places] /\ run \in [Threads -> Runs]
      /\ lock \in Threads \cup {NoThread} /\ NoThread \notin Threads
      /\ \A t \in Threads : pc[t] \in InRun <=> lock = t
  BY DEF PromiseInv, ControlInv, WorkerTypes, LockCoversRun, RunsFit, Threads, NoThread
<1>1. CASE UNCHANGED <<pc, run, lock>>
  BY <1>1, SameView
<1>2. CASE TkStep
  <2>1. CASE StartManualRun \/ StartScheduler
    <3>1. CASE UNCHANGED workerVars
      BY <1>1, <2>1, <3>1 DEF StartManualRun, StartScheduler
    <3>2. CASE UNCHANGED run /\ (StartThread("manual", "lock") \/ StartThread("scheduler", "loop"))
      <4>a. starts < MaxStarts /\ lock' = lock
        BY <2>1 DEF StartManualRun, StartScheduler
      <4>1. starts + 1 \in Threads /\ pc[starts + 1] = "off"
        BY <4>a, GuiConstants DEF PromiseInv, ControlInv, WorkerTypes, Threads
      <4>2. PICK p : pc' = [pc EXCEPT ![starts + 1] = p]
        BY <3>2 DEF StartThread
      <4>3. lock # starts + 1
        BY <1>0, <4>1 DEF InRun
      <4> QED BY <1>0, <3>2, <4>a, <4>2, <4>3, SameView
    <3> QED BY <2>1, <3>1, <3>2 DEF StartManualRun, StartScheduler
  <2>2. CASE StopScheduler \/ DisconnectSession \/ CloseWindow \/ Drain \/ DrainEnds \/ AnswerDialog
    BY <1>1, <2>2 DEF StopScheduler, DisconnectSession, CloseWindow, Drain, DrainEnds, AnswerDialog
  <2> QED BY <1>2, <2>1, <2>2 DEF TkStep
<1>3. ASSUME NEW t \in Threads, WorkerStep(t)
      PROVE  Promise!AbstractNext \/ UNCHANGED Promise!abstractVars
  <2>1. CASE lock = t
    BY <1>3, <2>1, HolderPromise
  <2>2. CASE lock # t /\ TakeLock(t)
    <3>1. /\ lock = NoThread /\ lock' = t /\ run' = run /\ run[t] = NewRun
          /\ pc'[t] = "connect"
      BY <1>0, <2>2 DEF TakeLock, At, Tell, Goto, PromiseInv, RunsFit, Fresh, Places, InRun
    <3>2. Stage = "idle" /\ Stage' = "looking"
      BY <1>0, <3>1 DEF Stage
    <3>3. Snapshot' = {} /\ Transmitted' = [m \in Macs |-> 0]
      BY <3>1, <3>2 DEF Snapshot, Transmitted, NewRun
    <3> QED BY <3>2, <3>3 DEF Promise!AbstractNext, Promise!Begin
  <2>3. CASE lock # t /\ ~TakeLock(t)
    <3>1. pc[t] \notin InRun
      BY <1>0, <2>3
    <3>2. LoopHead(t) \/ BeginCycle(t) \/ Report(t) \/ EndRun(t) \/ WaitEnds(t) \/ LoopExits(t)
      BY <1>3, <2>3, <3>1
         DEF WorkerStep, AskHostKey, KeyAnswered, Query, QueryFails, Connected, TargetsAnswered,
             GiveUp, Countdown, DeleteNext, DeleteLoopEnds, SendDelete, CancelBeforeVerify,
             Verify, VerifyFails, ReleaseLock, At, InRun
    <3>3. lock' = lock /\ \A u \in Threads : u # t => pc'[u] = pc[u] /\ run'[u] = run[u]
      BY <1>0, <3>2 DEF LoopHead, BeginCycle, Report, EndRun, WaitEnds, LoopExits, Tell, Goto
    <3> QED BY <1>0, <2>3, <3>3, SameView
  <2> QED BY <2>1, <2>2, <2>3
<1>4. CASE CloserStep \/ Ended \/ UNCHANGED vars
  BY <1>1, <1>4 DEF CloserStep, Ended
<1> QED BY <1>2, <1>3, <1>4 DEF GuiNext

(* All workers together do one approved cleanup after the other, however    *)
(* runs of buttons and loops, answers and stops interleave.                 *)
THEOREM WorkersKeepPromise == GuiSpec => GuiKeepsPromise
<1>1. PromiseInv /\ [GuiNext]_vars => PromiseInv'
  BY ControlStep, RunsFitStep DEF PromiseInv
<1>2. GuiInit => Promise!AbstractInit
  BY DEF GuiInit, Promise!AbstractInit, Stage, Snapshot, Transmitted
<1>3. GuiSpec => []PromiseInv
  BY PromiseInit, <1>1, PTL DEF GuiSpec
<1> QED BY <1>2, <1>3, PromiseStep, PTL DEF GuiSpec, GuiKeepsPromise, Promise!AbstractSpec

----------------------------------------------------------------------------
(* Types of everything else *)

(* Where a thread has the number of the run it begins or is in. *)
Numbered == {"cycle", "lock"} \cup InRun

(* What ControlInv and RunsFit leave open of GuiTypeOK, with the number a   *)
(* request is told by: an open dialog belongs to a request.                 *)
ViewTypes ==
    /\ main \in {"idle", "drain", "dialog"}
    /\ dialog \in Requests \cup {NoRequest}
    /\ main = "dialog" => dialog \in Requests
    /\ {isRunning, schedulerRunning, startButtons, stopButton, queryCounted,
        deleteCounted, closing, cancelEvent, stopEvent, closer, stopped}
            \subseteq BOOLEAN
    /\ table \in [Macs -> RowStates]
    /\ {queriedTotal, deletedTotal, found, gone} \subseteq Nat
    /\ queue \in Seq(Events)
    /\ done \subseteq Requests /\ yes \subseteq done
    /\ job \in [Threads -> {"manual", "scheduler"}]
    /\ \A t \in Threads : pc[t] \in Numbered => number[t] \in 1 .. MaxRuns

TypesInv == PromiseInv /\ ViewTypes

LEMMA CountsAreNat == \A S \in SUBSET Macs : Cardinality(S) \in Nat
BY GuiConstants, FS_Subset, FS_CardinalityType

LEMMA ViewTypesInit == GuiInit => ViewTypes
<1> SUFFICES ASSUME GuiInit PROVE ViewTypes
  OBVIOUS
<1>1. queue \in Seq(Events)
  BY EmptySeq DEF GuiInit
<1>2. {isRunning, schedulerRunning, startButtons, stopButton, queryCounted, deleteCounted,
       closing, cancelEvent, stopEvent, closer, stopped} \subseteq BOOLEAN
  BY DEF GuiInit
<1>3. \A t \in Threads : pc[t] \notin Numbered
  BY DEF GuiInit, Numbered, InRun
<1> QED BY <1>1, <1>2, <1>3 DEF GuiInit, ViewTypes, NoRequest, RowStates

(* No scheduler loop tells in these events that it ended. *)
NoStop(events) == \A i \in 1 .. Len(events) : events[i].type # "scheduler_stopped"

(* What is queued stays a sequence of events. *)
LEMMA EnqueueTyped ==
    ASSUME queue \in Seq(Events), NEW events \in Seq(Events), Enqueue(events)
    PROVE  queue' \in Seq(Events) /\ (NoStop(queue) /\ NoStop(events) => NoStop(queue'))
<1>1. CASE closing
  BY <1>1 DEF Enqueue
<1>2. CASE ~closing
  <2>1. queue' = queue \o events
    BY <1>2 DEF Enqueue
  <2>2. /\ queue' \in Seq(Events) /\ Len(queue') = Len(queue) + Len(events)
        /\ \A i \in 1 .. Len(queue) + Len(events) :
              queue'[i] = IF i <= Len(queue) THEN queue[i] ELSE events[i - Len(queue)]
    BY <2>1, ConcatProperties
  <2> QED BY <2>2, LenProperties DEF NoStop
<1> QED BY <1>1, <1>2

(* The sequences the workers queue. *)
LEMMA ToldTyped ==
    /\ <<>> \in Seq(Events) /\ NoStop(<<>>)
    /\ \A e \in Events : /\ <<e>> \in Seq(Events)
                         /\ e.type # "scheduler_stopped" => NoStop(<<e>>)
    /\ \A d, e \in Events :
          /\ <<d, e>> \in Seq(Events)
          /\ d.type # "scheduler_stopped" /\ e.type # "scheduler_stopped" => NoStop(<<d, e>>)
BY DEF NoStop

(* The events of a worker. *)
LEMMA WorkerEvents ==
    /\ \A b \in BOOLEAN : [type |-> "running", on |-> b] \in Events
    /\ \A S \in SUBSET Macs : [type |-> "query", macs |-> S] \in Events
    /\ \A m \in Macs, s \in RowStates : [type |-> "row", mac |-> m, status |-> s] \in Events
    /\ \A S \in SUBSET Macs : [type |-> "reappeared", macs |-> S] \in Events
    /\ \A r \in Runs : [type |-> "summary", run |-> r] \in Events
    /\ \A r \in Requests : [type |-> "ask", request |-> r] \in Events
    /\ [type |-> "delete_canceled"] \in Events
    /\ [type |-> "scheduler_stopped"] \in Events
BY DEF Events

(* What each step of a worker queues are events; only LoopExits tells that  *)
(* a loop ended.                                                            *)
LEMMA WorkerQueue ==
    ASSUME TypesInv, NEW t \in Threads, WorkerStep(t)
    PROVE  queue' \in Seq(Events) /\ (NoStop(queue) /\ ~LoopExits(t) => NoStop(queue'))
<1> USE DEF At, Goto, Tell, Connected
<1>0. queue \in Seq(Events) /\ run[t] \in Runs /\ number[t] \in 0 .. MaxRuns
  BY DEF TypesInv, ViewTypes, PromiseInv, RunsFit, ControlInv, WorkerTypes
<1>1. pc[t] \in Numbered => \A k \in {"host_key", "targets"} : Request(t, k) \in Requests
  BY DEF TypesInv, ViewTypes, Request, Requests
<1>2. CASE Query(t)
  <2>1. PICK macs \in SUBSET Macs :
          \/ Enqueue(<<[type |-> "query", macs |-> macs]>>)
          \/ Enqueue(<<[type |-> "query", macs |-> macs],
                       [type |-> "ask", request |-> Request(t, "targets")]>>)
    BY <1>2 DEF Query
  <2>2. Request(t, "targets") \in Requests
    BY <1>1, <1>2 DEF Query, Numbered, InRun
  <2> QED BY <1>0, <2>1, <2>2, WorkerEvents, ToldTyped, EnqueueTyped
<1>3. CASE SendDelete(t)
  <2>1. PICK mac \in run[t].todo, answer \in Responses \ {"none"} :
          Enqueue(<<[type |-> "row", mac |-> mac, status |-> "deleting"],
                    [type |-> "row", mac |-> mac, status |-> answer]>>)
    BY <1>3 DEF SendDelete
  <2>2. mac \in Macs /\ {"deleting", answer} \subseteq RowStates
    BY <1>0, <2>1 DEF Runs, Responses, RowStates
  <2> QED BY <1>0, <2>1, <2>2, WorkerEvents, ToldTyped, EnqueueTyped
<1>4. CASE Verify(t)
  <2>1. PICK rows \in SUBSET Macs :
          \/ Enqueue(<<[type |-> "query", macs |-> rows]>>)
          \/ Enqueue(<<[type |-> "query", macs |-> rows],
                       [type |-> "reappeared", macs |-> Deleted(run[t]) \cap rows]>>)
    BY <1>4 DEF Verify
  <2>2. Deleted(run[t]) \cap rows \in SUBSET Macs
    OBVIOUS
  <2> QED BY <1>0, <2>1, <2>2, WorkerEvents, ToldTyped, EnqueueTyped
<1>5. CASE Report(t)
  BY <1>0, <1>5, WorkerEvents, ToldTyped, EnqueueTyped DEF Report
<1>6. CASE AskHostKey(t)
  <2>1. Request(t, "host_key") \in Requests
    BY <1>1, <1>6 DEF AskHostKey, Numbered, InRun
  <2> QED BY <1>0, <1>6, <2>1, WorkerEvents, ToldTyped, EnqueueTyped DEF AskHostKey
<1>7. CASE LoopHead(t)
  BY <1>0, <1>7 DEF LoopHead
<1>8. CASE BeginCycle(t) \/ EndRun(t) \/ Countdown(t) \/ DeleteLoopEnds(t)
           \/ CancelBeforeVerify(t)
  BY <1>0, <1>8, WorkerEvents, ToldTyped, EnqueueTyped
     DEF BeginCycle, EndRun, Countdown, DeleteLoopEnds, CancelBeforeVerify
<1>10. CASE LoopExits(t)
  BY <1>0, <1>10, WorkerEvents, ToldTyped, EnqueueTyped DEF LoopExits
<1>9. CASE TakeLock(t) \/ KeyAnswered(t) \/ QueryFails(t) \/ TargetsAnswered(t) \/ GiveUp(t)
           \/ DeleteNext(t) \/ VerifyFails(t) \/ ReleaseLock(t) \/ WaitEnds(t)
  BY <1>0, <1>9, ToldTyped, EnqueueTyped
     DEF TakeLock, KeyAnswered, QueryFails, TargetsAnswered, GiveUp, DeleteNext, VerifyFails,
         ReleaseLock, WaitEnds
<1> QED
  BY <1>2, <1>3, <1>4, <1>5, <1>6, <1>7, <1>8, <1>9, <1>10 DEF WorkerStep

(* A thread that begins a run has a number for it, and keeps it. *)
LEMMA WorkerNumber ==
    ASSUME TypesInv, NEW t \in Threads, WorkerStep(t)
    PROVE  \A u \in Threads : pc'[u] \in Numbered => number'[u] \in 1 .. MaxRuns
<1> USE DEF At, Goto, Tell, Connected
<1>0. /\ pc \in [Threads -> Places] /\ number \in [Threads -> 0 .. MaxRuns] /\ runs \in 0 .. MaxRuns
      /\ \A u \in Threads : pc[u] \in Numbered => number[u] \in 1 .. MaxRuns
  BY DEF TypesInv, ViewTypes, PromiseInv, ControlInv, WorkerTypes
<1>1. CASE LoopHead(t)
  BY <1>0, <1>1, GuiConstants DEF LoopHead, NextRun, Numbered, InRun
<1>2. CASE ~LoopHead(t)
  <2>1. PICK p : pc' = [pc EXCEPT ![t] = p]
                 /\ (p \in Numbered => pc[t] \in Numbered) /\ number' = number
    BY <1>2
       DEF WorkerStep, BeginCycle, TakeLock, AskHostKey, KeyAnswered, Query,
           QueryFails, TargetsAnswered, GiveUp, Countdown, DeleteNext, DeleteLoopEnds,
           SendDelete, CancelBeforeVerify, Verify, VerifyFails, ReleaseLock, Report,
           EndRun, WaitEnds, LoopExits, Numbered, InRun
  <2> QED BY <1>0, <2>1
<1> QED BY <1>1, <1>2

(* Handling an event keeps the types of what the window shows. *)
LEMMA DrainTypes ==
    ASSUME TypesInv, Drain
    PROVE  ViewTypes'
<1> DEFINE e == Head(queue)
<1>0. queue # <<>> /\ queue \in Seq(Events)
  BY DEF Drain, TypesInv, ViewTypes
<1>1. e \in Events /\ queue' \in Seq(Events)
  BY <1>0, HeadTailProperties DEF Drain
<1>2. /\ isRunning \in BOOLEAN /\ schedulerRunning \in BOOLEAN /\ startButtons \in BOOLEAN
      /\ stopButton \in BOOLEAN /\ queryCounted \in BOOLEAN /\ deleteCounted \in BOOLEAN
      /\ dialog \in Requests \cup {NoRequest}
      /\ table \in [Macs -> RowStates] /\ queriedTotal \in Nat /\ deletedTotal \in Nat
  BY DEF TypesInv, ViewTypes
<1> USE DEF buttonVars, viewVars
<1> DEFINE Goal ==
      /\ isRunning' \in BOOLEAN /\ schedulerRunning' \in BOOLEAN /\ startButtons' \in BOOLEAN
      /\ stopButton' \in BOOLEAN /\ queryCounted' \in BOOLEAN /\ deleteCounted' \in BOOLEAN
      /\ dialog' \in Requests \cup {NoRequest}
      /\ e.type = "ask" => dialog' \in Requests
      /\ table' \in [Macs -> RowStates] /\ queriedTotal' \in Nat /\ deletedTotal' \in Nat
<1>3. ASSUME HandleRunning(e) PROVE Goal
  <2>1. e.on \in BOOLEAN
    BY <1>1, <1>3 DEF HandleRunning, Events
  <2> QED BY <1>2, <1>3, <2>1 DEF HandleRunning, SetRunning, Kept
<1>4. ASSUME HandleQuery(e) PROVE Goal
  <2>1. e.macs \in SUBSET Macs
    BY <1>1, <1>4 DEF HandleQuery, Events
  <2>2. table' \in [Macs -> RowStates]
    BY <1>4 DEF HandleQuery, RowStates
  <2>3. queriedTotal' \in Nat /\ queryCounted' = TRUE
    BY <1>2, <1>4, <2>1, CountsAreNat DEF HandleQuery, CountQuery
  <2> QED BY <1>2, <1>4, <2>2, <2>3 DEF HandleQuery, buttonVars
<1>5. ASSUME HandleRows(e) PROVE Goal
  <2>1. CASE e.type = "row" /\ table' = [table EXCEPT ![e.mac] = IF @ = "none" THEN @ ELSE e.status]
    <3>1. e.mac \in Macs /\ e.status \in RowStates
      BY <1>1, <2>1 DEF Events
    <3> QED BY <1>2, <1>5, <2>1, <3>1 DEF HandleRows, buttonVars
  <2>2. CASE e.type # "row"
    <3>1. table' \in [Macs -> RowStates]
      BY <1>2, <1>5, <2>2 DEF HandleRows, Reappeared, RowStates
    <3> QED BY <1>2, <1>5, <3>1 DEF HandleRows, buttonVars
  <2> QED BY <1>5, <2>1, <2>2 DEF HandleRows
<1>6. ASSUME HandleSummary(e) PROVE Goal
  <2>1. e.run \in Runs
    BY <1>1, <1>6 DEF HandleSummary, Events
  <2>2. e.run.targets \in SUBSET Macs /\ Deleted(e.run) \in SUBSET Macs /\ e.run.counted \in BOOLEAN
    BY <2>1 DEF Runs, Deleted
  <2>3. queriedTotal' \in Nat /\ deletedTotal' \in Nat /\ queryCounted' = TRUE /\ deleteCounted' = TRUE
    BY <1>2, <1>6, <2>2, CountsAreNat DEF HandleSummary, CountQuery
  <2>4. table' \in [Macs -> RowStates]
    BY <1>2, <1>6 DEF HandleSummary, Reappeared, RowStates
  <2> QED BY <1>2, <1>6, <2>3, <2>4 DEF HandleSummary, buttonVars
<1>7. ASSUME HandleStopped(e) PROVE Goal
  BY <1>2, <1>7 DEF HandleStopped, viewVars
<1>8. ASSUME HandleRequest(e) PROVE Goal
  <2>1. e.request \in Requests
    BY <1>1, <1>8 DEF HandleRequest, Events
  <2> QED BY <1>2, <1>8, <2>1 DEF HandleRequest, buttonVars, viewVars
<1>9. Goal /\ main' = (IF e.type = "ask" THEN "dialog" ELSE "drain")
      /\ UNCHANGED <<flagVars, answerVars, workerVars, closer, ghostVars>>
  BY <1>3, <1>4, <1>5, <1>6, <1>7, <1>8 DEF Drain, HandleRunning, HandleQuery, HandleRows,
     HandleSummary, HandleStopped
<1> HIDE DEF Goal
<1>10. {isRunning', schedulerRunning', startButtons', stopButton', queryCounted', deleteCounted',
        closing', cancelEvent', stopEvent', closer', stopped'} \subseteq BOOLEAN
  BY <1>9 DEF Goal, TypesInv, ViewTypes, flagVars, ghostVars
<1>11. /\ main' \in {"idle", "drain", "dialog"}
       /\ dialog' \in Requests \cup {NoRequest}
       /\ main' = "dialog" => dialog' \in Requests
       /\ table' \in [Macs -> RowStates]
       /\ {queriedTotal', deletedTotal', found', gone'} \subseteq Nat
  BY <1>9 DEF Goal, TypesInv, ViewTypes, ghostVars, countVars
<1>12. UNCHANGED <<done, yes, job, pc, number>>
  BY <1>9 DEF answerVars, workerVars
<1> QED BY <1>1, <1>10, <1>11, <1>12 DEF TypesInv, ViewTypes

(* The operator's other steps. *)
LEMMA TkTypes ==
    ASSUME TypesInv, TkStep
    PROVE  ViewTypes'
<1> USE DEF buttonVars, viewVars, flagVars, answerVars, workerVars, ghostVars, countVars
<1>0. ViewTypes /\ WorkerTypes
  BY DEF TypesInv, PromiseInv, ControlInv
<1>1. CASE StartManualRun \/ StartScheduler
  <2>1. /\ UNCHANGED <<main, dialog, table, queriedTotal, deletedTotal, found, gone, queue, closing,
                       done, yes, closer>>
        /\ {isRunning', schedulerRunning', startButtons', stopButton', queryCounted', deleteCounted',
            cancelEvent', stopEvent', stopped'} \subseteq BOOLEAN
    BY <1>0, <1>1 DEF StartManualRun, StartScheduler, Pressed, Kept, ViewTypes
  <2>2. CASE UNCHANGED workerVars
    BY <1>0, <2>1, <2>2 DEF ViewTypes
  <2>3. CASE /\ StartThread("manual", "lock") \/ StartThread("scheduler", "loop")
             /\ pc'[starts + 1] \in Numbered => NextRun(starts + 1)
             /\ NextRun(starts + 1) \/ UNCHANGED number
    <3>1. job' \in [Threads -> {"manual", "scheduler"}]
      BY <1>0, <2>3 DEF ViewTypes, StartThread
    <3>2. \A u \in Threads : u # starts + 1 => pc'[u] = pc[u] /\ number'[u] = number[u]
      BY <1>0, <2>3 DEF WorkerTypes, StartThread, NextRun
    <3>3. starts + 1 \in Threads /\ NextRun(starts + 1) => number'[starts + 1] \in 1 .. MaxRuns
      BY <1>0, <2>3, GuiConstants DEF WorkerTypes, NextRun
    <3>4. \A u \in Threads : pc'[u] \in Numbered => number'[u] \in 1 .. MaxRuns
      BY <1>0, <2>3, <3>2, <3>3 DEF ViewTypes
    <3> QED BY <1>0, <2>1, <3>1, <3>4 DEF ViewTypes
  <2>4. "loop" \notin Numbered
    BY DEF Numbered, InRun
  <2>5. CASE StartManualRun
    BY <2>2, <2>3, <2>5 DEF StartManualRun
  <2>6. CASE StartScheduler
    <3>1. StartThread("scheduler", "loop") => pc'[starts + 1] = "loop"
      BY <1>0, <2>6, GuiConstants DEF StartScheduler, StartThread, WorkerTypes, Threads
    <3> QED BY <2>2, <2>3, <2>4, <2>6, <3>1 DEF StartScheduler
  <2> QED BY <1>1, <2>5, <2>6
<1>2. CASE StopScheduler \/ DisconnectSession \/ CloseWindow \/ DrainEnds
  <2>1. UNCHANGED <<dialog, table, queriedTotal, deletedTotal, found, gone, done, yes, job, pc, number>>
    BY <1>2 DEF StopScheduler, DisconnectSession, CloseWindow, DrainEnds
  <2>2. /\ main' \in {"idle", "drain", "dialog"} /\ main' # "dialog" 
        /\ queue' = queue \/ queue' = <<>>
        /\ {isRunning', schedulerRunning', startButtons', stopButton', queryCounted', deleteCounted',
            closing', cancelEvent', stopEvent', closer', stopped'} \subseteq BOOLEAN
    BY <1>0, <1>2 DEF StopScheduler, DisconnectSession, CloseWindow, DrainEnds, StartSessionClose,
       Idle, ViewTypes
  <2>3. queue' \in Seq(Events)
    BY <1>0, <2>2, EmptySeq DEF ViewTypes
  <2> QED BY <1>0, <2>1, <2>2, <2>3 DEF ViewTypes
<1>3. CASE Drain
  BY <1>3, DrainTypes
<1>4. CASE AnswerDialog
  <2>1. /\ UNCHANGED <<isRunning, schedulerRunning, startButtons, stopButton, queryCounted,
                       deleteCounted, closing, cancelEvent, stopEvent, closer, stopped, table,
                       queriedTotal, deletedTotal, found, gone, queue, job, pc, number>>
        /\ main' = "drain" /\ dialog' = NoRequest
    BY <1>4 DEF AnswerDialog
  <2>2. done' \subseteq Requests /\ yes' \subseteq done'
    BY <1>0, <1>4 DEF AnswerDialog, ViewTypes
  <2> QED BY <1>0, <2>1, <2>2 DEF ViewTypes
<1> QED BY <1>1, <1>2, <1>3, <1>4 DEF TkStep

LEMMA TypesStep == TypesInv /\ [GuiNext]_vars => ViewTypes'
<1> SUFFICES ASSUME TypesInv, [GuiNext]_vars PROVE ViewTypes'
  OBVIOUS
<1> USE DEF buttonVars, viewVars, flagVars, answerVars, workerVars, ghostVars, countVars
<1>0. ViewTypes /\ run \in [Threads -> Runs]
  BY DEF TypesInv, PromiseInv, RunsFit
<1>1. CASE TkStep
  BY <1>1, TkTypes
<1>2. ASSUME NEW t \in Threads, WorkerStep(t)
      PROVE  ViewTypes'
  <2> USE DEF Tell, TkUnchanged
  <2>1. /\ UNCHANGED <<main, dialog, isRunning, schedulerRunning, startButtons, stopButton, table,
                       queriedTotal, deletedTotal, queryCounted, deleteCounted, closing, stopEvent,
                       job, closer, stopped, done, yes>>
        /\ cancelEvent' \in {FALSE, cancelEvent}
    BY <1>2
       DEF WorkerStep, LoopHead, BeginCycle, TakeLock, AskHostKey, KeyAnswered, Query,
           QueryFails, TargetsAnswered, GiveUp, Countdown, DeleteNext, DeleteLoopEnds,
           SendDelete, CancelBeforeVerify, Verify, VerifyFails, ReleaseLock, Report,
           EndRun, WaitEnds, LoopExits
  <2>2. found' \in Nat /\ gone' \in Nat
    <3>1. CASE Query(t)
      BY <1>0, <3>1, CountsAreNat DEF Query, ViewTypes
    <3>2. CASE Verify(t)
      <4>1. \A rows : Deleted(run[t]) \ rows \in SUBSET Macs
        BY DEF Deleted
      <4> QED BY <1>0, <3>2, <4>1, CountsAreNat DEF Verify, ViewTypes
    <3>3. CASE ~Query(t) /\ ~Verify(t)
      <4>1. found' = found /\ gone' = gone
        BY <1>2, <3>3
           DEF WorkerStep, LoopHead, BeginCycle, TakeLock, AskHostKey, KeyAnswered,
               QueryFails, TargetsAnswered, GiveUp, Countdown, DeleteNext, DeleteLoopEnds,
               SendDelete, CancelBeforeVerify, VerifyFails, ReleaseLock, Report,
               EndRun, WaitEnds, LoopExits
      <4> QED BY <1>0, <4>1 DEF ViewTypes
    <3> QED BY <3>1, <3>2, <3>3
  <2>3. queue' \in Seq(Events)
    BY <1>2, WorkerQueue
  <2>4. \A u \in Threads : pc'[u] \in Numbered => number'[u] \in 1 .. MaxRuns
    BY <1>2, WorkerNumber
  <2>5. {isRunning', schedulerRunning', startButtons', stopButton', queryCounted', deleteCounted',
         closing', cancelEvent', stopEvent', closer', stopped'} \subseteq BOOLEAN
    BY <1>0, <2>1 DEF ViewTypes
  <2> QED BY <1>0, <2>1, <2>2, <2>3, <2>4, <2>5 DEF ViewTypes
<1>3. CASE CloserStep
  BY <1>0, <1>3 DEF CloserStep, ViewTypes
<1>4. CASE Ended \/ UNCHANGED vars
  BY <1>0, <1>4 DEF Ended, vars, ViewTypes
<1> QED BY <1>1, <1>2, <1>3, <1>4 DEF GuiNext

(* Every variable of the application keeps its type.                        *)
THEOREM TypesInvariant == GuiSpec => []TypesInv
<1>1. GuiInit => TypesInv
  BY PromiseInit, ViewTypesInit DEF TypesInv
<1>2. TypesInv /\ [GuiNext]_vars => TypesInv'
  BY ControlStep, RunsFitStep, TypesStep DEF TypesInv, PromiseInv
<1> QED BY <1>1, <1>2, PTL DEF GuiSpec

(* All variables keep their types, and the runner's lock is held exactly by *)
(* the thread inside a run, whatever the operator presses.                  *)
THEOREM GuiTypes == GuiSpec => []GuiTypeOK
<1>1. TypesInv => GuiTypeOK
  BY DEF TypesInv, PromiseInv, ControlInv, WorkerTypes, LockCoversRun, RunsFit, ViewTypes, GuiTypeOK
<1> QED BY <1>1, TypesInvariant, PTL

----------------------------------------------------------------------------
(* What the window shows when the workers are done.  An operator who starts *)
(* the next worker only when nothing runs and no event is left (~Hasty) has *)
(* one worker at a time, the last one started.                              *)

OneWorker == \A t \in Threads : Alive(t) => t = starts

(* Where the last worker is, and what it knows of its run. *)
Place  == IF starts = 0 THEN "off" ELSE pc[starts]
Record == IF starts = 0 THEN NewRun ELSE run[starts]

(* Between its two queries a run has nothing to count yet. *)
NothingToCount ==
    \A t \in Threads :
        pc[t] \in {"ask_targets", "countdown", "delete", "send", "check"} =>
            ~run[t].counted /\ run[t].again = {}

(* What of the window depends on the order of the events. *)
Screen == [running : BOOLEAN, queried : Nat, deleted : Nat, asked : BOOLEAN, over : BOOLEAN]
OnScreen == [running |-> isRunning, queried |-> queriedTotal, deleted |-> deletedTotal,
             asked |-> queryCounted, over |-> deleteCounted]

(* The screen after an event, as Drain handles it. *)
Queried(s, macs) ==
    [s EXCEPT !.queried = IF s.asked THEN @ ELSE @ + Cardinality(macs), !.asked = TRUE]
Summed(s, r) ==
    [s EXCEPT !.deleted = IF s.over \/ ~r.counted THEN @ ELSE @ + Cardinality(Deleted(r)),
              !.over = TRUE]
After(s, e) ==
    CASE e.type = "running" ->
           [s EXCEPT !.running = e.on, !.asked = Kept(@, e.on), !.over = Kept(@, e.on)]
      [] e.type = "query" -> Queried(s, e.macs)
      [] e.type = "summary" -> Summed(Queried(s, e.run.targets), e.run)
      [] OTHER -> s

(* Handling the events q one by one leads from s to z: a function tells the *)
(* screen after each.                                                       *)
Leads(q, s, z) ==
    \E f \in [0 .. Len(q) -> Screen] :
        f[0] = s /\ f[Len(q)] = z /\ \A i \in 1 .. Len(q) : f[i] = After(f[i - 1], q[i])

(* The screen that goes with a worker at place p with run r. *)
Expected(s, p, r) ==
    /\ s.running <=> p \in {"lock", "report", "end"} \cup InRun
    /\ p \in {"lock", "connect", "ask_key", "query"} => ~s.asked
    /\ p \in {"ask_targets", "countdown", "delete", "send", "check"} => s.asked
    /\ p \in {"release", "report"} => s.asked \/ r.targets = {}
    /\ p \in {"lock", "report"} \cup InRun => ~s.over
    /\ s.queried = found
    /\ gone = s.deleted + (IF r.counted THEN Cardinality(Deleted(r)) ELSE 0)

(* The events left in the queue lead to the screen the worker's place calls *)
(* for: until the window closes nothing is lost and nothing counted twice.  *)
ScreenInv == ~closing => \E s \in Screen : Leads(queue, OnScreen, s) /\ Expected(s, Place, Record)

(* The scheduler's flag: a loop that was not told to stop is shown, for the *)
(* event that takes the flag away comes after the loop's end.               *)
LoopAlive == Place # "off" /\ job[starts] = "scheduler"
LoopShown ==
    /\ LoopAlive /\ ~stopEvent => schedulerRunning
    /\ ~NoStop(queue) => Place = "off"

(* The buttons follow the two flags. *)
ButtonsFollow ==
    /\ startButtons <=> ~(isRunning \/ schedulerRunning)
    /\ stopButton <=> schedulerRunning
    /\ closing => stopEvent

WindowInv ==
    TypesInv /\ NothingToCount /\ OneWorker /\ ScreenInv /\ LoopShown /\ ButtonsFollow

(* Sequences of events and the screens they lead to. *)
LEMMA QueriedTyped ==
    ASSUME NEW s \in Screen, NEW macs, Cardinality(macs) \in Nat
    PROVE  /\ Queried(s, macs) \in Screen
           /\ Queried(s, macs).asked = TRUE /\ Queried(s, macs).over = s.over
           /\ Queried(s, macs).running = s.running /\ Queried(s, macs).deleted = s.deleted
           /\ Queried(s, macs).queried = IF s.asked THEN s.queried ELSE s.queried + Cardinality(macs)
<1> DEFINE n == IF s.asked THEN s.queried ELSE s.queried + Cardinality(macs)
<1>1. n \in Nat
  BY DEF Screen
<1>2. Queried(s, macs) = [s EXCEPT !.queried = n, !.asked = TRUE]
  BY DEF Queried
<1> HIDE DEF n
<1>3. [s EXCEPT !.queried = n, !.asked = TRUE] \in Screen
  BY <1>1 DEF Screen
<1>4. Queried(s, macs).queried = n
  BY <1>2 DEF Screen
<1> QED BY <1>2, <1>3, <1>4 DEF Screen, n

LEMMA SummedTyped ==
    ASSUME NEW s \in Screen, NEW r, Cardinality(Deleted(r)) \in Nat
    PROVE  /\ Summed(s, r) \in Screen
           /\ Summed(s, r).over = TRUE /\ Summed(s, r).asked = s.asked
           /\ Summed(s, r).running = s.running /\ Summed(s, r).queried = s.queried
           /\ Summed(s, r).deleted = IF s.over \/ ~r.counted THEN s.deleted
                                     ELSE s.deleted + Cardinality(Deleted(r))
<1> DEFINE n == IF s.over \/ ~r.counted THEN s.deleted ELSE s.deleted + Cardinality(Deleted(r))
<1>1. n \in Nat
  BY DEF Screen
<1>2. Summed(s, r) = [s EXCEPT !.deleted = n, !.over = TRUE]
  BY DEF Summed
<1> HIDE DEF n
<1>3. [s EXCEPT !.deleted = n, !.over = TRUE] \in Screen
  BY <1>1 DEF Screen
<1>4. Summed(s, r).deleted = n
  BY <1>2 DEF Screen
<1> QED BY <1>2, <1>3, <1>4 DEF Screen, n

LEMMA AfterTyped == \A s \in Screen, e \in Events : After(s, e) \in Screen
<1> SUFFICES ASSUME NEW s \in Screen, NEW e \in Events PROVE After(s, e) \in Screen
  OBVIOUS
<1>1. CASE e.type = "running"
  <2>1. e.on \in BOOLEAN
    BY <1>1 DEF Events
  <2> QED BY <1>1, <2>1 DEF After, Screen, Kept
<1>2. CASE e.type = "query"
  <2>1. Cardinality(e.macs) \in Nat
    BY <1>2, CountsAreNat DEF Events
  <2> QED BY <1>2, <2>1, QueriedTyped DEF After
<1>3. CASE e.type = "summary"
  <2>1. e.run \in Runs
    BY <1>3 DEF Events
  <2>2. Cardinality(e.run.targets) \in Nat /\ Cardinality(Deleted(e.run)) \in Nat
    BY <2>1, CountsAreNat DEF Runs, Deleted
  <2>3. Queried(s, e.run.targets) \in Screen
    BY <2>2, QueriedTyped
  <2>4. Summed(Queried(s, e.run.targets), e.run) \in Screen
    BY <2>2, <2>3, SummedTyped
  <2> QED BY <1>3, <2>4 DEF After
<1>4. CASE e.type \notin {"running", "query", "summary"}
  BY <1>4 DEF After
<1> QED BY <1>1, <1>2, <1>3, <1>4

LEMMA LeadsNowhere == \A s \in Screen : Leads(<<>>, s, s)
<1> SUFFICES ASSUME NEW s \in Screen PROVE Leads(<<>>, s, s)
  OBVIOUS
<1> DEFINE f == [i \in 0 .. 0 |-> s]
<1>1. f \in [0 .. 0 -> Screen] /\ f[0] = s
  OBVIOUS
<1>2. Len(<<>>) = 0 /\ 1 .. 0 = {}
  OBVIOUS
<1> HIDE DEF f
<1> QED BY <1>1, <1>2 DEF Leads

LEMMA NothingLeads == \A s, z \in Screen : Leads(<<>>, s, z) => z = s
BY EmptySeq DEF Leads

LEMMA LeadsAppend ==
    ASSUME NEW q \in Seq(Events), NEW s \in Screen, NEW z \in Screen, Leads(q, s, z),
           NEW e \in Events
    PROVE  Leads(Append(q, e), s, After(z, e))
<1>0. Len(q) \in Nat
  BY LenProperties
<1>1. PICK f \in [0 .. Len(q) -> Screen] :
        f[0] = s /\ f[Len(q)] = z /\ \A i \in 1 .. Len(q) : f[i] = After(f[i - 1], q[i])
  BY DEF Leads
<1> DEFINE n == Len(q) + 1
           g == [i \in 0 .. n |-> IF i = n THEN After(z, e) ELSE f[i]]
<1>2. /\ Append(q, e) \in Seq(Events) /\ Len(Append(q, e)) = n /\ Append(q, e)[n] = e
      /\ \A i \in 1 .. Len(q) : Append(q, e)[i] = q[i]
  BY <1>0
<1>3. g \in [0 .. n -> Screen]
  BY <1>0, AfterTyped
<1>4. g[0] = s /\ g[n] = After(z, e)
  BY <1>0, <1>1
<1>5. \A i \in 1 .. n : g[i] = After(g[i - 1], Append(q, e)[i])
  <2> SUFFICES ASSUME NEW i \in 1 .. n PROVE g[i] = After(g[i - 1], Append(q, e)[i])
    OBVIOUS
  <2>1. CASE i = n
    <3>1. g[i - 1] = z /\ g[i] = After(z, e)
      BY <1>0, <1>1, <2>1
    <3> QED BY <1>2, <2>1, <3>1
  <2>2. CASE i # n
    <3>1. i \in 1 .. Len(q) /\ g[i] = f[i] /\ g[i - 1] = f[i - 1]
      BY <1>0, <2>2
    <3> QED BY <1>1, <1>2, <3>1
  <2> QED BY <2>1, <2>2
<1> HIDE DEF g
<1> QED BY <1>2, <1>3, <1>4, <1>5 DEF Leads

LEMMA LeadsTail ==
    ASSUME NEW q \in Seq(Events), q # <<>>, NEW s \in Screen, NEW z \in Screen, Leads(q, s, z)
    PROVE  Leads(Tail(q), After(s, Head(q)), z)
<1>1. PICK f \in [0 .. Len(q) -> Screen] :
        f[0] = s /\ f[Len(q)] = z /\ \A i \in 1 .. Len(q) : f[i] = After(f[i - 1], q[i])
  BY DEF Leads
<1>2. /\ Len(q) \in Nat \ {0} /\ Len(Tail(q)) = Len(q) - 1 /\ Head(q) = q[1]
      /\ \A i \in 1 .. Len(q) - 1 : Tail(q)[i] = q[i + 1]
  BY HeadTailProperties, EmptySeq
<1> DEFINE n == Len(q) - 1
           g == [i \in 0 .. n |-> f[i + 1]]
<1>3. g \in [0 .. n -> Screen]
  BY <1>2
<1>4. g[0] = After(s, Head(q)) /\ g[n] = z
  BY <1>1, <1>2
<1>5. \A i \in 1 .. n : g[i] = After(g[i - 1], Tail(q)[i])
  <2> SUFFICES ASSUME NEW i \in 1 .. n PROVE g[i] = After(g[i - 1], Tail(q)[i])
    OBVIOUS
  <2>1. i + 1 \in 1 .. Len(q) /\ g[i] = f[i + 1] /\ g[i - 1] = f[i] /\ (i + 1) - 1 = i
    BY <1>2
  <2>2. f[i + 1] = After(f[(i + 1) - 1], q[i + 1])
    BY <1>1, <2>1
  <2> QED BY <1>2, <2>1, <2>2
<1> HIDE DEF g
<1> QED BY <1>2, <1>3, <1>4, <1>5 DEF Leads

(* A worker's step is one of the last worker, which stays the only one. *)
LEMMA LastWorker ==
    ASSUME TypesInv, OneWorker, NEW t \in Threads, WorkerStep(t)
    PROVE  /\ starts = t /\ starts' = t /\ t # 0
           /\ Place = pc[t] /\ Place' = pc'[t] /\ Record = run[t] /\ Record' = run'[t]
           /\ OneWorker'
<1>1. /\ pc[t] # "off" /\ starts' = starts
      /\ \A u \in Threads : u # t => pc'[u] = pc[u]
  BY DEF WorkerStep, LoopHead, BeginCycle, TakeLock, AskHostKey, KeyAnswered, Query,
         QueryFails, TargetsAnswered, GiveUp, Countdown, DeleteNext, DeleteLoopEnds,
         SendDelete, CancelBeforeVerify, Verify, VerifyFails, ReleaseLock, Report,
         EndRun, WaitEnds, LoopExits, At, Goto, Tell, Connected, TkUnchanged,
         TypesInv, PromiseInv, ControlInv, WorkerTypes
<1>2. t = starts /\ t # 0
  BY <1>1 DEF OneWorker, Alive, Threads
<1>3. OneWorker'
  BY <1>1, <1>2 DEF OneWorker, Alive
<1> QED BY <1>1, <1>2, <1>3 DEF Place, Record

LEMMA NothingToCountStep == TypesInv /\ NothingToCount /\ [GuiNext]_vars => NothingToCount'
<1> SUFFICES ASSUME TypesInv, NothingToCount, [GuiNext]_vars PROVE NothingToCount'
  OBVIOUS
<1> DEFINE Mid == {"ask_targets", "countdown", "delete", "send", "check"}
<1>0. /\ pc \in [Threads -> Places] /\ run \in [Threads -> Runs]
      /\ \A u \in Threads : pc[u] \in Fresh => run[u] = NewRun
  BY DEF TypesInv, PromiseInv, ControlInv, WorkerTypes, RunsFit
<1>1. CASE UNCHANGED <<pc, run>>
  BY <1>1 DEF NothingToCount
<1>2. ASSUME NEW t \in Threads, NEW p, pc' = [pc EXCEPT ![t] = p], p \in Mid => pc[t] \in Mid,
             \A u \in Threads : u # t => run'[u] = run[u],
             p \in Mid => run'[t].counted = run[t].counted /\ run'[t].again = run[t].again
      PROVE  NothingToCount'
  BY <1>0, <1>2 DEF NothingToCount
<1>3. CASE TkStep
  <2>1. CASE UNCHANGED workerVars
    BY <1>1, <2>1 DEF workerVars
  <2>2. CASE (StartManualRun \/ StartScheduler) /\ ~UNCHANGED workerVars
    <3>1. UNCHANGED run /\ \E p \in {"lock", "loop"} : pc' = [pc EXCEPT ![starts + 1] = p]
      BY <2>2 DEF StartManualRun, StartScheduler, StartThread
    <3>2. starts < MaxStarts
      BY <2>2 DEF StartManualRun, StartScheduler
    <3>3. starts + 1 \in Threads
      BY <3>2, GuiConstants DEF TypesInv, PromiseInv, ControlInv, WorkerTypes, Threads
    <3> QED BY <1>2, <3>3, <3>1, <3>2
  <2>3. CASE StopScheduler \/ DisconnectSession \/ CloseWindow \/ Drain \/ DrainEnds \/ AnswerDialog
    BY <2>1, <2>3
       DEF StopScheduler, DisconnectSession, CloseWindow, Drain, DrainEnds, AnswerDialog
  <2> QED BY <1>3, <2>1, <2>2, <2>3 DEF TkStep
<1>4. ASSUME NEW t \in Threads, WorkerStep(t) PROVE NothingToCount'
  <2> USE DEF At, Goto, Tell, Connected
  <2>1. CASE Query(t)
    <3>1. PICK macs \in SUBSET Macs :
             /\ run' = [run EXCEPT ![t].targets = macs, ![t].todo = macs, ![t].counted = (macs = {})]
             /\ pc' = [pc EXCEPT ![t] = IF macs = {} THEN "release" ELSE "ask_targets"]
      BY <2>1 DEF Query
    <3>2. run[t] = NewRun
      BY <1>0, <2>1 DEF Query, Fresh, Places, InRun
    <3>3. run'[t].counted = (macs = {}) /\ run'[t].again = {}
      BY <1>0, <3>1, <3>2 DEF NewRun, Runs
    <3> QED BY <1>0, <3>1, <3>3 DEF NothingToCount
  <2>2. CASE SendDelete(t)
    <3>1. PICK mac \in run[t].todo, answer \in Responses \ {"none"} :
             run' = [run EXCEPT ![t].todo = @ \ {mac}, ![t].results[mac] = answer]
      BY <2>2 DEF SendDelete
    <3>2. /\ \A u \in Threads : u # t => run'[u] = run[u]
          /\ run'[t].counted = run[t].counted /\ run'[t].again = run[t].again
      BY <1>0, <3>1 DEF Runs
    <3> QED BY <1>2, <2>2, <3>2 DEF SendDelete
  <2>3. CASE Verify(t) \/ Report(t)
    <3>1. \A u \in Threads : u # t => run'[u] = run[u]
      BY <1>0, <2>3 DEF Verify, Report
    <3>2. PICK p \in {"release", "end"} : pc' = [pc EXCEPT ![t] = p]
      BY <2>3 DEF Verify, Report
    <3> QED BY <1>2, <3>1, <3>2
  <2>4. CASE ~Query(t) /\ ~SendDelete(t) /\ ~Verify(t) /\ ~Report(t)
    <3>1. UNCHANGED run /\ \E p : pc' = [pc EXCEPT ![t] = p] /\ (p \in Mid => pc[t] \in Mid)
      BY <1>4, <2>4
         DEF WorkerStep, LoopHead, BeginCycle, TakeLock, AskHostKey, KeyAnswered,
             QueryFails, TargetsAnswered, GiveUp, Countdown, DeleteNext, DeleteLoopEnds,
             CancelBeforeVerify, VerifyFails, ReleaseLock, EndRun, WaitEnds, LoopExits
    <3> QED BY <1>2, <3>1
  <2> QED BY <2>1, <2>2, <2>3, <2>4
<1>5. CASE CloserStep \/ Ended \/ UNCHANGED vars
  BY <1>1, <1>5 DEF CloserStep, Ended, vars, workerVars
<1> QED BY <1>3, <1>4, <1>5 DEF GuiNext

(* The buttons follow the flags in every handler, hasty or not. *)
LEMMA ButtonsStep == TypesInv /\ ButtonsFollow /\ [GuiNext]_vars => ButtonsFollow'
<1> SUFFICES ASSUME TypesInv, ButtonsFollow, [GuiNext]_vars PROVE ButtonsFollow'
  OBVIOUS
<1> USE DEF ButtonsFollow, buttonVars, flagVars
<1>1. CASE UNCHANGED <<buttonVars, closing, stopEvent>>
  BY <1>1
<1>2. CASE StartManualRun
  <2>1. \/ isRunning' = TRUE /\ startButtons' = FALSE
        \/ isRunning' = isRunning /\ startButtons' = startButtons
    BY <1>2 DEF StartManualRun
  <2>2. ~closing /\ closing' = closing /\ schedulerRunning' = schedulerRunning
          /\ stopButton' = stopButton
    BY <1>2 DEF StartManualRun, Idle
  <2> QED BY <2>1, <2>2
<1>7. CASE StartScheduler
  <2>1. \/ schedulerRunning' = TRUE /\ startButtons' = FALSE /\ stopButton' = TRUE
        \/ schedulerRunning' = schedulerRunning /\ startButtons' = startButtons /\ stopButton' = FALSE
    BY <1>7 DEF StartScheduler
  <2>2. ~closing /\ closing' = closing /\ isRunning' = isRunning /\ ~schedulerRunning
    BY <1>7 DEF StartScheduler, Idle
  <2> QED BY <2>1, <2>2
<1>8. CASE StopScheduler
  BY <1>8 DEF StopScheduler, Idle
<1>3. CASE DisconnectSession \/ CloseWindow \/ DrainEnds \/ AnswerDialog
  BY <1>3 DEF DisconnectSession, CloseWindow, DrainEnds, AnswerDialog
<1>4. CASE Drain
  <2>1. UNCHANGED <<closing, stopEvent>>
    BY <1>4 DEF Drain
  <2>2. \/ UNCHANGED buttonVars
        \/ \E on : SetRunning(on) /\ UNCHANGED <<schedulerRunning, stopButton>>
        \/ schedulerRunning' = FALSE /\ startButtons' = ~isRunning /\ stopButton' = FALSE
             /\ isRunning' = isRunning
    BY <1>4 DEF Drain, HandleRunning, HandleQuery, HandleRows, HandleSummary, HandleStopped,
       HandleRequest
  <2>3. CASE UNCHANGED buttonVars
    BY <2>1, <2>3
  <2>4. ASSUME NEW on, SetRunning(on), UNCHANGED <<schedulerRunning, stopButton>>
        PROVE  ButtonsFollow'
    BY <2>1, <2>4 DEF SetRunning
  <2>5. CASE schedulerRunning' = FALSE /\ startButtons' = ~isRunning /\ stopButton' = FALSE
               /\ isRunning' = isRunning
    BY <2>1, <2>5
  <2> QED BY <2>2, <2>3, <2>4, <2>5
<1>5. ASSUME NEW t \in Threads, WorkerStep(t)
      PROVE  UNCHANGED <<buttonVars, closing, stopEvent>>
  BY <1>5
     DEF WorkerStep, LoopHead, BeginCycle, TakeLock, AskHostKey, KeyAnswered, Query,
         QueryFails, TargetsAnswered, GiveUp, Countdown, DeleteNext, DeleteLoopEnds,
         SendDelete, CancelBeforeVerify, Verify, VerifyFails, ReleaseLock, Report,
         EndRun, WaitEnds, LoopExits, Tell, TkUnchanged
<1>6. CASE CloserStep \/ Ended \/ UNCHANGED vars
  BY <1>1, <1>6 DEF CloserStep, Ended, vars
<1> QED BY <1>1, <1>2, <1>3, <1>4, <1>5, <1>6, <1>7, <1>8 DEF GuiNext, TkStep

(* A start that is not hasty finds nothing running and nothing queued.      *)
LEMMA StartFresh ==
    ASSUME ~Hasty, TypesInv, StartManualRun \/ StartScheduler
    PROVE  /\ queue = <<>> /\ queue' = <<>> /\ ~closing /\ ~closing'
           /\ Place = "off" /\ Record = NewRun /\ Record' = NewRun /\ OneWorker'
           /\ \/ Place' = "off" /\ UNCHANGED isRunning
              \/ StartManualRun /\ Place' = "lock" /\ job'[starts'] = "manual" /\ isRunning' = TRUE
              \/ StartScheduler /\ Place' = "loop" /\ job'[starts'] = "scheduler"
                   /\ schedulerRunning' = TRUE
<1>1. /\ Settled /\ queue' = queue /\ ~closing /\ closing' = closing /\ run' = run
      /\ starts < MaxStarts
  BY DEF StartManualRun, StartScheduler, Pressed, Idle, workerVars
<1>2. /\ starts \in 0 .. MaxStarts /\ pc \in [Threads -> Places]
      /\ job \in [Threads -> {"manual", "scheduler"}]
      /\ \A t \in Threads : pc[t] = "off" /\ run[t] = NewRun
  BY <1>1 DEF Settled, Alive, TypesInv, PromiseInv, ControlInv, WorkerTypes, RunsFit, ViewTypes,
     Fresh, Places, InRun
<1>3. starts # 0 => starts \in Threads
  BY <1>2, GuiConstants DEF Threads
<1>4. Place = "off" /\ Record = NewRun
  BY <1>2, <1>3 DEF Place, Record
<1>5. CASE UNCHANGED workerVars
  <2>1. Place' = Place /\ Record' = Record /\ OneWorker'
    BY <1>2, <1>5 DEF workerVars, Place, Record, OneWorker, Alive
  <2>2. UNCHANGED isRunning
    <3>1. starts' # starts + 1
      BY <1>2, <1>5 DEF workerVars
    <3> QED BY <3>1 DEF StartManualRun, StartScheduler, StartThread
  <2> QED BY <1>1, <1>4, <2>1, <2>2 DEF Settled
<1>6. CASE ~UNCHANGED workerVars
  <2>1. \/ StartManualRun /\ StartThread("manual", "lock") /\ isRunning' = TRUE
        \/ StartScheduler /\ StartThread("scheduler", "loop") /\ schedulerRunning' = TRUE
    BY <1>6 DEF StartManualRun, StartScheduler
  <2>2. starts + 1 \in Threads /\ starts + 1 # 0
    BY <1>1, <1>2, GuiConstants DEF Threads
  <2>3. /\ starts' = starts + 1
        /\ \A t \in Threads : t # starts + 1 => pc'[t] = "off"
    BY <1>2, <2>1 DEF StartThread
  <2>4. \/ StartManualRun /\ pc'[starts'] = "lock" /\ job'[starts'] = "manual" /\ isRunning' = TRUE
        \/ StartScheduler /\ pc'[starts'] = "loop" /\ job'[starts'] = "scheduler"
             /\ schedulerRunning' = TRUE
    BY <1>2, <2>1, <2>2, <2>3 DEF StartThread
  <2>5. Record' = NewRun /\ Place' = pc'[starts'] /\ OneWorker'
    BY <1>1, <1>2, <2>2, <2>3 DEF Record, Place, OneWorker, Alive
  <2> QED BY <1>1, <1>4, <2>4, <2>5 DEF Settled
<1> QED BY <1>5, <1>6

(* All other steps of the Tk thread leave the workers where they are. *)
LEMMA TkLeavesWorkers ==
    ASSUME StopScheduler \/ DisconnectSession \/ CloseWindow \/ Drain \/ DrainEnds \/ AnswerDialog
             \/ CloserStep \/ Ended \/ UNCHANGED vars
    PROVE  /\ UNCHANGED <<workerVars, found, gone, Place, Record>>
           /\ OneWorker => OneWorker'
<1>1. UNCHANGED <<workerVars, found, gone>>
  BY DEF StopScheduler, DisconnectSession, CloseWindow, Drain, DrainEnds, AnswerDialog, CloserStep,
     Ended, vars, ghostVars, countVars
<1> QED BY <1>1 DEF workerVars, Place, Record, OneWorker, Alive

LEMMA LoopShownStep ==
    ASSUME ~Hasty, TypesInv, OneWorker, LoopShown, [GuiNext]_vars
    PROVE  LoopShown'
<1> USE DEF LoopAlive
<1>0. queue \in Seq(Events)
  BY DEF TypesInv, ViewTypes
<1>1. NoStop(<<>>)
  BY EmptySeq DEF NoStop
<1>2. CASE StartManualRun \/ StartScheduler
  <2>1. CASE StartManualRun
    <3>1. ~schedulerRunning'
      BY <2>1 DEF StartManualRun
    <3>2. Place' = "off" \/ job'[starts'] = "manual" \/ schedulerRunning' = TRUE
      BY <2>1, StartFresh
    <3> QED BY <1>1, <2>1, <3>1, <3>2, StartFresh DEF LoopShown
  <2>2. CASE StartScheduler
    <3>1. \/ schedulerRunning' = schedulerRunning /\ ~schedulerRunning
          \/ schedulerRunning' = TRUE /\ StartThread("scheduler", "loop")
      BY <2>2 DEF StartScheduler
    <3>2. CASE Place' = "off"
      <4>1. ~StartThread("scheduler", "loop")
        <5>1. starts + 1 \in Threads /\ starts + 1 # 0 /\ pc \in [Threads -> Places]
          BY <2>2, GuiConstants DEF StartScheduler, TypesInv, PromiseInv, ControlInv, WorkerTypes, Threads
        <5> QED BY <3>2, <5>1 DEF StartThread, Place
      <4> QED BY <1>1, <2>2, <3>1, <3>2, <4>1, StartFresh DEF LoopShown
    <3>3. CASE Place' # "off"
      <4>1. Place' = "loop" /\ job'[starts'] = "scheduler" /\ schedulerRunning' = TRUE
        BY <2>2, <3>3, StartFresh DEF StartScheduler, Idle, StartManualRun
      <4> QED BY <1>1, <2>2, <4>1, StartFresh DEF LoopShown
    <3> QED BY <3>2, <3>3
  <2> QED BY <1>2, <2>1, <2>2
<1>3. CASE StopScheduler \/ DisconnectSession \/ CloseWindow \/ DrainEnds \/ AnswerDialog
             \/ CloserStep \/ Ended \/ UNCHANGED vars
  <2>1. UNCHANGED <<starts, job, Place>>
    BY <1>3, TkLeavesWorkers DEF workerVars
  <2>2. \/ UNCHANGED <<queue, schedulerRunning, stopEvent, closing>>
        \/ UNCHANGED <<queue, closing>> /\ schedulerRunning' = FALSE /\ stopEvent' = TRUE
        \/ queue' = <<>> /\ closing' = TRUE /\ stopEvent' = TRUE
    BY <1>3 DEF StopScheduler, DisconnectSession, CloseWindow, DrainEnds, AnswerDialog, CloserStep,
       Ended, vars, flagVars, buttonVars
  <2>3. CASE UNCHANGED <<queue, schedulerRunning, stopEvent, closing>>
    BY <2>1, <2>3 DEF LoopShown, NoStop
  <2>4. CASE UNCHANGED <<queue, closing>> /\ schedulerRunning' = FALSE /\ stopEvent' = TRUE
    BY <2>1, <2>4 DEF LoopShown, NoStop
  <2>5. CASE queue' = <<>> /\ closing' = TRUE /\ stopEvent' = TRUE
    BY <1>1, <2>1, <2>5 DEF LoopShown
  <2> QED BY <2>2, <2>3, <2>4, <2>5
<1>4. CASE Drain
  <2>1. UNCHANGED <<starts, job, Place>>
    BY <1>4, TkLeavesWorkers DEF workerVars
  <2>2. /\ queue # <<>> /\ queue' = Tail(queue) /\ UNCHANGED <<closing, stopEvent>> /\ ~closing
        /\ \/ Head(queue).type = "scheduler_stopped" /\ schedulerRunning' = FALSE
           \/ Head(queue).type # "scheduler_stopped" /\ schedulerRunning' = schedulerRunning
    BY <1>4 DEF Drain, HandleRunning, SetRunning, HandleQuery, HandleRows, HandleSummary,
       HandleStopped, HandleRequest, buttonVars, flagVars
  <2>3. /\ Head(queue) = queue[1] /\ Len(queue) \in Nat \ {0} /\ Len(Tail(queue)) = Len(queue) - 1
        /\ \A i \in 1 .. Len(queue) - 1 : Tail(queue)[i] = queue[i + 1]
    BY <1>0, <2>2, HeadTailProperties, EmptySeq
  <2>4. NoStop(queue) => NoStop(Tail(queue))
    BY <2>3 DEF NoStop
  <2>5. CASE Head(queue).type = "scheduler_stopped" /\ schedulerRunning' = FALSE
    <3>1. ~NoStop(queue)
      BY <2>3, <2>5 DEF NoStop
    <3> QED BY <2>1, <2>2, <2>5, <3>1 DEF LoopShown
  <2>6. CASE Head(queue).type # "scheduler_stopped" /\ schedulerRunning' = schedulerRunning
    <3>1. NoStop(Tail(queue)) => NoStop(queue)
      <4> SUFFICES ASSUME NoStop(Tail(queue)), NEW i \in 1 .. Len(queue)
                   PROVE  queue[i].type # "scheduler_stopped"
        BY DEF NoStop
      <4>1. CASE i = 1
        BY <2>3, <2>6, <4>1
      <4>2. CASE i # 1
        <5>1. i - 1 \in 1 .. Len(queue) - 1 /\ (i - 1) + 1 = i
          BY <2>3, <4>2
        <5> QED BY <2>3, <5>1 DEF NoStop
      <4> QED BY <4>1, <4>2
    <3> QED BY <2>1, <2>2, <2>4, <2>6, <3>1 DEF LoopShown
  <2> QED BY <2>2, <2>5, <2>6
<1>5. ASSUME NEW t \in Threads, WorkerStep(t) PROVE LoopShown'
  <2> USE DEF At, Goto, Tell
  <2>1. /\ starts = t /\ starts' = t /\ Place = pc[t] /\ Place' = pc'[t] /\ pc \in [Threads -> Places]
        /\ UNCHANGED <<schedulerRunning, job, stopEvent, closing>> /\ pc[t] # "off"
    BY <1>5, LastWorker
       DEF WorkerStep, LoopHead, BeginCycle, TakeLock, AskHostKey, KeyAnswered, Query,
           QueryFails, TargetsAnswered, GiveUp, Countdown, DeleteNext, DeleteLoopEnds,
           SendDelete, CancelBeforeVerify, Verify, VerifyFails, ReleaseLock, Report,
           EndRun, WaitEnds, LoopExits, Connected, TkUnchanged, buttonVars,
           TypesInv, PromiseInv, ControlInv, WorkerTypes
  <2>2. NoStop(queue)
    BY <2>1 DEF LoopShown
  <2>3. CASE LoopExits(t)
    <3>1. pc'[t] = "off"
      BY <2>1, <2>3 DEF LoopExits
    <3>2. CASE ~closing
      <4> DEFINE e == [type |-> "scheduler_stopped"]
      <4>1. queue' = queue \o <<e>> /\ e \in Events /\ <<e>> \in Seq(Events)
        BY <2>3, <3>2, WorkerEvents, ToldTyped DEF LoopExits, Enqueue
      <4>2. Len(queue') = Len(queue) + 1 /\ queue'[Len(queue) + 1] = e
        BY <1>0, <4>1, LenProperties
      <4>3. ~NoStop(queue')
        BY <1>0, <4>2, LenProperties DEF NoStop
      <4> QED BY <2>1, <3>1, <4>3 DEF LoopShown
    <3>3. CASE closing
      BY <2>1, <3>1, <3>3 DEF LoopShown
    <3> QED BY <3>2, <3>3
  <2>4. CASE ~LoopExits(t)
    <3>1. NoStop(queue')
      BY <1>5, <2>2, <2>4, WorkerQueue
    <3>2. pc'[t] = "off" => job[t] = "manual"
      BY <1>5, <2>1, <2>4
         DEF WorkerStep, LoopHead, BeginCycle, TakeLock, AskHostKey, KeyAnswered, Query,
             QueryFails, TargetsAnswered, GiveUp, Countdown, DeleteNext, DeleteLoopEnds,
             SendDelete, CancelBeforeVerify, Verify, VerifyFails, ReleaseLock, Report,
             EndRun, WaitEnds
    <3> QED BY <2>1, <2>2, <3>1, <3>2 DEF LoopShown
  <2> QED BY <2>3, <2>4
<1> QED BY <1>2, <1>3, <1>4, <1>5 DEF GuiNext, TkStep

(* Events that change nothing that is counted. *)
Neutral(e) == e.type \notin {"running", "query", "summary"}

(* The screen a worker's events lead to. *)
LEMMA EnqueueLeads ==
    ASSUME queue \in Seq(Events), ~closing, NEW s \in Screen, NEW z \in Screen, Leads(queue, s, z)
    PROVE  /\ Enqueue(<<>>) => Leads(queue', s, z)
           /\ \A e \in Events : Enqueue(<<e>>) => Leads(queue', s, After(z, e))
           /\ \A e \in Events, d \in Events :
                 Enqueue(<<e, d>>) => Leads(queue', s, After(After(z, e), d))
<1>1. Enqueue(<<>>) => Leads(queue', s, z)
  <2>1. Enqueue(<<>>) => queue' = queue
    BY ConcatEmptySeq DEF Enqueue
  <2> QED BY <2>1
<1>2. ASSUME NEW e \in Events, Enqueue(<<e>>) PROVE Leads(queue', s, After(z, e))
  <2>1. queue' = Append(queue, e)
    BY <1>2, AppendIsConcat DEF Enqueue
  <2> QED BY <2>1, LeadsAppend
<1>3. ASSUME NEW e \in Events, NEW d \in Events, Enqueue(<<e, d>>)
      PROVE  Leads(queue', s, After(After(z, e), d))
  <2>1. queue' = Append(Append(queue, e), d)
    BY <1>3 DEF Enqueue
  <2>2. Append(queue, e) \in Seq(Events) /\ After(z, e) \in Screen
    BY AfterTyped, AppendProperties
  <2>3. Leads(Append(queue, e), s, After(z, e))
    BY LeadsAppend
  <2> QED BY <2>1, <2>2, <2>3, LeadsAppend
<1> QED BY <1>1, <1>2, <1>3

(* Each step of the worker queues what leads to the screen of its next      *)
(* place.                                                                   *)
LEMMA ScreenWorker ==
    ASSUME TypesInv, NothingToCount, OneWorker, ScreenInv, NEW t \in Threads, WorkerStep(t), ~closing
    PROVE  ScreenInv'
<1> USE DEF At, Goto, Tell, Connected
<1>0. /\ queue \in Seq(Events) /\ run[t] \in Runs /\ pc \in [Threads -> Places]
      /\ run \in [Threads -> Runs] /\ found \in Nat /\ gone \in Nat
      /\ (pc[t] \in Fresh => run[t] = NewRun)
      /\ (pc[t] \in Numbered => \A k \in {"host_key", "targets"} : Request(t, k) \in Requests)
  BY DEF TypesInv, ViewTypes, PromiseInv, ControlInv, WorkerTypes, RunsFit, Request, Requests
<1>1. PICK s \in Screen : Leads(queue, OnScreen, s) /\ Expected(s, Place, Record)
  BY DEF ScreenInv
<1>2. /\ Place = pc[t] /\ Place' = pc'[t] /\ Record = run[t] /\ Record' = run'[t]
      /\ OnScreen' = OnScreen /\ ~closing' /\ OnScreen \in Screen
  <2>1. UNCHANGED <<closing, viewVars, isRunning>>
    BY DEF WorkerStep, LoopHead, BeginCycle, TakeLock, AskHostKey, KeyAnswered, Query,
           QueryFails, TargetsAnswered, GiveUp, Countdown, DeleteNext, DeleteLoopEnds,
           SendDelete, CancelBeforeVerify, Verify, VerifyFails, ReleaseLock, Report,
           EndRun, WaitEnds, LoopExits, TkUnchanged, buttonVars
  <2>2. OnScreen \in Screen
    BY DEF OnScreen, Screen, TypesInv, ViewTypes
  <2> QED BY <2>1, <2>2, LastWorker DEF OnScreen, viewVars
<1>3. ASSUME NEW z \in Screen, Leads(queue', OnScreen, z), Expected(z, pc[t], run[t])'
      PROVE  ScreenInv'
  BY <1>2, <1>3 DEF ScreenInv
<1>y. /\ Enqueue(<<>>) => Leads(queue', OnScreen, s)
      /\ \A e \in Events : Enqueue(<<e>>) => Leads(queue', OnScreen, After(s, e))
      /\ \A e \in Events, d \in Events :
            Enqueue(<<e, d>>) => Leads(queue', OnScreen, After(After(s, e), d))
  BY <1>0, <1>1, <1>2, EnqueueLeads
<1>x. \A z \in Screen, e \in Events : Neutral(e) => After(z, e) = z
  BY DEF Neutral, After
<1>4. s.running \in BOOLEAN /\ s.asked \in BOOLEAN /\ s.over \in BOOLEAN
      /\ s.queried \in Nat /\ s.deleted \in Nat
  BY DEF Screen
<1>5. ASSUME \/ Enqueue(<<>>)
             \/ \E e \in Events : Neutral(e) /\ Enqueue(<<e>>)
             \/ \E e, d \in Events : Neutral(e) /\ Neutral(d) /\ Enqueue(<<e, d>>),
             (Expected(s, pc[t], run[t]))'
      PROVE  ScreenInv'
  <2>1. CASE Enqueue(<<>>)
    BY <1>3, <1>5, <1>y, <2>1
  <2>2. CASE \E e \in Events : Neutral(e) /\ Enqueue(<<e>>)
    <3>1. PICK e \in Events : Neutral(e) /\ Enqueue(<<e>>)
      BY <2>2
    <3>2. After(s, e) = s
      BY <1>x, <3>1
    <3>3. Leads(queue', OnScreen, s)
      BY <1>y, <3>1, <3>2
    <3> QED BY <1>3, <1>5, <3>3
  <2>3. CASE \E e, d \in Events : Neutral(e) /\ Neutral(d) /\ Enqueue(<<e, d>>)
    <3>1. PICK e \in Events, d \in Events : Neutral(e) /\ Neutral(d) /\ Enqueue(<<e, d>>)
      BY <2>3
    <3>2. After(s, e) = s /\ After(s, d) = s
      BY <1>x, <3>1
    <3>3. Leads(queue', OnScreen, s)
      BY <1>y, <3>1, <3>2
    <3> QED BY <1>3, <1>5, <3>3
  <2> QED BY <1>5, <2>1, <2>2, <2>3
<1>6. CASE LoopHead(t)
  <2>1. Leads(queue', OnScreen, s)
    BY <1>1, <1>6 DEF LoopHead
  <2>2. pc[t] = "loop" /\ pc'[t] \in {"exit", "cycle"} /\ UNCHANGED <<run, found, gone>>
    BY <1>0, <1>6 DEF LoopHead, countVars
  <2>3. Expected(s, pc[t], run[t])'
    BY <1>1, <1>2, <2>2 DEF Expected, InRun
  <2> QED BY <1>3, <2>1, <2>3
<1>7. CASE BeginCycle(t)
  <2> DEFINE e == [type |-> "running", on |-> TRUE]
             z == [s EXCEPT !.running = TRUE, !.asked = FALSE, !.over = FALSE]
  <2>1. e \in Events /\ After(s, e) = z /\ z \in Screen
    BY <1>4, WorkerEvents DEF After, Kept, Screen
  <2>2. Leads(queue', OnScreen, z)
    BY <1>7, <1>y, <2>1 DEF BeginCycle
  <2>3. pc[t] = "cycle" /\ pc'[t] = "lock" /\ UNCHANGED <<run, found, gone>>
    BY <1>0, <1>7 DEF BeginCycle, countVars
  <2>4. z.running = TRUE /\ z.asked = FALSE /\ z.over = FALSE /\ z.queried = s.queried /\ z.deleted = s.deleted
    BY DEF Screen
  <2>5. Expected(z, pc[t], run[t])'
    BY <1>1, <1>2, <2>3, <2>4 DEF Expected, InRun
  <2> QED BY <1>3, <2>1, <2>2, <2>5
<1>8. CASE Query(t)
  <2>0. run[t] = NewRun /\ pc[t] \in {"connect", "query"}
    BY <1>0, <1>8 DEF Query, Fresh, Places, InRun
  <2>1. PICK macs \in SUBSET Macs :
          /\ run' = [run EXCEPT ![t].targets = macs, ![t].todo = macs, ![t].counted = (macs = {})]
          /\ pc' = [pc EXCEPT ![t] = IF macs = {} THEN "release" ELSE "ask_targets"]
          /\ found' = found + Cardinality(macs) /\ gone' = gone
          /\ IF macs = {} THEN Enqueue(<<[type |-> "query", macs |-> macs]>>)
             ELSE Enqueue(<<[type |-> "query", macs |-> macs],
                            [type |-> "ask", request |-> Request(t, "targets")]>>)
    BY <1>8 DEF Query
  <2> DEFINE e == [type |-> "query", macs |-> macs]
             d == [type |-> "ask", request |-> Request(t, "targets")]
  <2>2. PICK z \in Screen :
          /\ z = Queried(s, macs) /\ z.asked = TRUE /\ z.over = s.over
          /\ z.running = s.running /\ z.deleted = s.deleted
          /\ z.queried = IF s.asked THEN s.queried ELSE s.queried + Cardinality(macs)
    <3>1. /\ Queried(s, macs) \in Screen /\ Queried(s, macs).asked = TRUE
          /\ Queried(s, macs).over = s.over /\ Queried(s, macs).running = s.running
          /\ Queried(s, macs).deleted = s.deleted
          /\ Queried(s, macs).queried = IF s.asked THEN s.queried
                                        ELSE s.queried + Cardinality(macs)
      BY CountsAreNat, QueriedTyped
    <3> Queried(s, macs) \in Screen
      BY <3>1
    <3> WITNESS Queried(s, macs) \in Screen
    <3> QED BY <3>1
  <2>3. e \in Events /\ d \in Events /\ After(s, e) = z /\ Neutral(d)
    BY <1>0, <2>0, <2>2, WorkerEvents DEF After, Neutral, Numbered, InRun
  <2>4. After(z, d) = z
    BY <1>x, <2>2, <2>3
  <2>5. Leads(queue', OnScreen, z)
    <3>1. Enqueue(<<e>>) \/ Enqueue(<<e, d>>)
      BY <2>1
    <3>2. CASE Enqueue(<<e>>)
      BY <1>y, <2>3, <3>2
    <3>3. CASE Enqueue(<<e, d>>)
      <4>1. Leads(queue', OnScreen, After(After(s, e), d))
        BY <1>y, <2>3, <3>3
      <4> QED BY <2>3, <2>4, <4>1
    <3> QED BY <3>1, <3>2, <3>3
  <2>6. /\ run'[t].targets = macs /\ run'[t].counted = (macs = {}) /\ Deleted(run'[t]) = {}
        /\ run[t].counted = FALSE
    BY <1>0, <2>0, <2>1 DEF NewRun, Runs, Deleted
  <2>7. pc'[t] = (IF macs = {} THEN "release" ELSE "ask_targets") /\ Cardinality({}) = 0
    BY <1>0, <2>1, FS_EmptySet
  <2>8. s.running /\ ~s.asked /\ ~s.over /\ s.queried = found /\ gone = s.deleted
    BY <1>1, <1>2, <1>4, <2>0, <2>6 DEF Expected, InRun
  <2>9. z.queried = found' /\ gone' = z.deleted + 0 /\ z.asked /\ ~z.over /\ z.running
    BY <1>4, <2>1, <2>2, <2>8
  <2>10. Expected(z, pc[t], run[t])'
    <3>1. (IF run'[t].counted THEN Cardinality(Deleted(run'[t])) ELSE 0) = 0
      BY <2>6, <2>7
    <3>2. pc'[t] \in {"release", "ask_targets"}
      BY <2>7
    <3> QED BY <2>9, <3>1, <3>2 DEF Expected, InRun
  <2> QED BY <1>3, <2>5, <2>10
<1>9. CASE Verify(t)
  <2>0. /\ pc[t] = "check" /\ run[t].counted = FALSE /\ run[t].again = {}
    BY <1>0, <1>9 DEF Verify, NothingToCount, Runs
  <2>1. PICK rows \in SUBSET Macs :
          LET again == Deleted(run[t]) \cap rows
          IN  /\ run' = [run EXCEPT ![t].again = again, ![t].counted = TRUE]
              /\ gone' = gone + Cardinality(Deleted(run[t]) \ rows) /\ found' = found
              /\ pc' = [pc EXCEPT ![t] = "release"]
              /\ \/ Enqueue(<<[type |-> "query", macs |-> rows]>>)
                 \/ Enqueue(<<[type |-> "query", macs |-> rows],
                              [type |-> "reappeared", macs |-> again]>>)
    BY <1>9 DEF Verify
  <2> DEFINE e == [type |-> "query", macs |-> rows]
             d == [type |-> "reappeared", macs |-> Deleted(run[t]) \cap rows]
  <2>2. s.running /\ s.asked /\ ~s.over /\ s.queried = found /\ gone = s.deleted
    BY <1>1, <1>2, <1>4, <2>0 DEF Expected, InRun
  <2>3. e \in Events /\ d \in Events /\ Neutral(d)
    BY WorkerEvents DEF Neutral
  <2>4. After(s, e) = s /\ After(s, d) = s
    BY <1>4, <1>x, <2>2, <2>3 DEF After, Queried, Screen
  <2>5. Leads(queue', OnScreen, s)
    <3>1. CASE Enqueue(<<e>>)
      <4>1. Leads(queue', OnScreen, After(s, e))
        BY <1>y, <2>3, <3>1
      <4> QED BY <2>4, <4>1
    <3>2. CASE Enqueue(<<e, d>>)
      <4>1. Leads(queue', OnScreen, After(After(s, e), d))
        BY <1>y, <2>3, <3>2
      <4> QED BY <2>4, <4>1
    <3> QED BY <2>1, <3>1, <3>2
  <2>6. run'[t].counted = TRUE /\ Deleted(run'[t]) = Deleted(run[t]) \ rows
    BY <1>0, <2>0, <2>1 DEF Runs, Deleted
  <2>7. pc'[t] = "release"
    BY <1>0, <2>1
  <2>8. Expected(s, pc[t], run[t])'
    BY <2>1, <2>2, <2>6, <2>7 DEF Expected, InRun
  <2> QED BY <1>3, <2>5, <2>8
<1>10. CASE Report(t)
  <2>0. pc[t] = "report" /\ pc'[t] = "end" /\ run'[t] = NewRun /\ UNCHANGED <<found, gone>>
    BY <1>0, <1>10 DEF Report, countVars
  <2> DEFINE e == [type |-> "summary", run |-> run[t]]
  <2>1. /\ Cardinality(run[t].targets) \in Nat /\ Cardinality(Deleted(run[t])) \in Nat
        /\ run[t].counted \in BOOLEAN
    BY <1>0, CountsAreNat DEF Runs, Deleted
  <2>2. s.running /\ (s.asked \/ run[t].targets = {}) /\ ~s.over /\ s.queried = found
        /\ gone = s.deleted + (IF run[t].counted THEN Cardinality(Deleted(run[t])) ELSE 0)
    BY <1>1, <1>2, <1>4, <2>0 DEF Expected, InRun
  <2>3. PICK y \in Screen :
          /\ y = Queried(s, run[t].targets) /\ y.over = s.over /\ y.running = s.running
          /\ y.deleted = s.deleted
          /\ y.queried = IF s.asked THEN s.queried ELSE s.queried + Cardinality(run[t].targets)
    <3>1. /\ Queried(s, run[t].targets) \in Screen
          /\ Queried(s, run[t].targets).over = s.over
          /\ Queried(s, run[t].targets).running = s.running
          /\ Queried(s, run[t].targets).deleted = s.deleted
          /\ Queried(s, run[t].targets).queried =
                IF s.asked THEN s.queried ELSE s.queried + Cardinality(run[t].targets)
      BY <2>1, QueriedTyped
    <3> Queried(s, run[t].targets) \in Screen
      BY <3>1
    <3> WITNESS Queried(s, run[t].targets) \in Screen
    <3> QED BY <3>1
  <2>4. y.queried = found
    <3>1. CASE s.asked
      BY <2>2, <2>3, <3>1
    <3>2. CASE run[t].targets = {}
      <4>1. Cardinality(run[t].targets) = 0
        BY <3>2, FS_EmptySet
      <4> QED BY <1>4, <2>2, <2>3, <4>1
    <3> QED BY <2>2, <3>1, <3>2
  <2>5. PICK z \in Screen :
          /\ z = Summed(y, run[t]) /\ z.over = TRUE /\ z.running = y.running
          /\ z.queried = y.queried
          /\ z.deleted = IF y.over \/ ~run[t].counted THEN y.deleted
                         ELSE y.deleted + Cardinality(Deleted(run[t]))
    BY <2>1, SummedTyped
  <2>6. e \in Events /\ After(s, e) = z
    BY <1>0, <2>3, <2>5, WorkerEvents DEF After
  <2>7. Leads(queue', OnScreen, z)
    BY <1>10, <1>y, <2>6 DEF Report
  <2>8. z.deleted = gone /\ z.queried = found /\ z.running
    BY <1>4, <2>1, <2>2, <2>3, <2>4, <2>5
  <2>9. gone = z.deleted + 0 /\ NewRun.counted = FALSE
    BY <1>0, <2>8 DEF NewRun
  <2>10. Expected(z, pc[t], run[t])'
    BY <2>0, <2>8, <2>9 DEF Expected, InRun
  <2> QED BY <1>3, <2>7, <2>10
<1>11. CASE AskHostKey(t) \/ GiveUp(t) \/ KeyAnswered(t) \/ TargetsAnswered(t) \/ QueryFails(t)
            \/ TakeLock(t)
  <2>1. /\ UNCHANGED <<run, found, gone>>
        /\ \/ pc[t] = "lock" /\ pc'[t] = "connect" /\ Enqueue(<<>>)
           \/ /\ pc[t] = "connect" /\ pc'[t] = "ask_key"
              /\ Enqueue(<<[type |-> "ask", request |-> Request(t, "host_key")]>>)
           \/ pc[t] = "ask_key" /\ pc'[t] = "query" /\ Enqueue(<<>>)
           \/ pc[t] = "ask_targets" /\ pc'[t] = "countdown" /\ Enqueue(<<>>)
           \/ /\ pc[t] \in {"connect", "ask_key", "query", "ask_targets"}
              /\ pc'[t] = "release" /\ Enqueue(<<>>)
    BY <1>0, <1>11
       DEF AskHostKey, GiveUp, KeyAnswered, TargetsAnswered, QueryFails, TakeLock, countVars
  <2>2. pc[t] \in {"connect", "ask_key", "query"} => run[t].targets = {}
    BY <1>0 DEF Fresh, NewRun, Places, InRun
  <2>3. Expected(s, pc[t], run[t])'
    BY <1>1, <1>2, <2>1, <2>2 DEF Expected, InRun
  <2>4. \/ Enqueue(<<>>)
        \/ \E e \in Events : Neutral(e) /\ Enqueue(<<e>>)
    BY <1>0, <2>1, WorkerEvents DEF Neutral, Numbered, InRun
  <2> QED BY <1>5, <2>3, <2>4
<1>12. CASE Countdown(t) \/ DeleteNext(t) \/ DeleteLoopEnds(t) \/ CancelBeforeVerify(t)
            \/ VerifyFails(t) \/ ReleaseLock(t)
  <2>1. /\ UNCHANGED <<run, found, gone>>
        /\ Enqueue(<<>>) \/ Enqueue(<<[type |-> "delete_canceled"]>>)
        /\ \/ pc[t] \in {"countdown", "check"} /\ pc'[t] = "release"
           \/ pc[t] = "countdown" /\ pc'[t] = "delete"
           \/ pc[t] = "delete" /\ pc'[t] \in {"send", "check"}
           \/ pc[t] = "release" /\ pc'[t] = "report"
    BY <1>0, <1>12
       DEF Countdown, DeleteNext, DeleteLoopEnds, CancelBeforeVerify, VerifyFails, ReleaseLock,
           countVars
  <2>2. Expected(s, pc[t], run[t])'
    BY <1>1, <1>2, <2>1 DEF Expected, InRun
  <2>3. \/ Enqueue(<<>>)
        \/ \E e \in Events : Neutral(e) /\ Enqueue(<<e>>)
    BY <2>1, WorkerEvents DEF Neutral
  <2> QED BY <1>5, <2>2, <2>3
<1>13. CASE SendDelete(t)
  <2>1. PICK mac \in run[t].todo, answer \in Responses \ {"none"} :
          /\ run' = [run EXCEPT ![t].todo = @ \ {mac}, ![t].results[mac] = answer]
          /\ pc' = [pc EXCEPT ![t] = "delete"]
          /\ Enqueue(<<[type |-> "row", mac |-> mac, status |-> "deleting"],
                       [type |-> "row", mac |-> mac, status |-> answer]>>)
    BY <1>13 DEF SendDelete
  <2>2. pc[t] = "send" /\ pc'[t] = "delete" /\ UNCHANGED <<found, gone>> /\ ~run[t].counted
    BY <1>0, <1>13, <2>1 DEF SendDelete, countVars, NothingToCount
  <2>3. ~run'[t].counted
    BY <1>0, <2>1, <2>2 DEF Runs
  <2>4. Expected(s, pc[t], run[t])'
    BY <1>1, <1>2, <2>2, <2>3 DEF Expected, InRun
  <2> DEFINE e == [type |-> "row", mac |-> mac, status |-> "deleting"]
             d == [type |-> "row", mac |-> mac, status |-> answer]
  <2>5. mac \in Macs /\ answer \in RowStates /\ "deleting" \in RowStates
    BY <1>0 DEF Runs, Responses, RowStates
  <2>6. e \in Events /\ d \in Events /\ Neutral(e) /\ Neutral(d)
    BY <2>5, WorkerEvents DEF Neutral
  <2> QED BY <1>5, <2>1, <2>4, <2>6
<1>14. CASE EndRun(t)
  <2> DEFINE e == [type |-> "running", on |-> FALSE]
  <2>1. /\ pc[t] = "end" /\ pc'[t] \in {"off", "wait"} /\ UNCHANGED <<run, found, gone>>
        /\ Enqueue(<<e>>)
    BY <1>0, <1>14 DEF EndRun, countVars
  <2>2. PICK z \in Screen :
          /\ z = [s EXCEPT !.running = FALSE]
          /\ z.running = FALSE /\ z.queried = s.queried /\ z.deleted = s.deleted
    <3> [s EXCEPT !.running = FALSE] \in Screen
      BY DEF Screen
    <3> WITNESS [s EXCEPT !.running = FALSE] \in Screen
    <3> QED BY DEF Screen
  <2>3. e \in Events /\ After(s, e) = z
    BY <1>4, <2>2, WorkerEvents DEF After, Kept, Screen
  <2>4. Leads(queue', OnScreen, z)
    BY <1>y, <2>1, <2>3
  <2>5. Expected(z, pc[t], run[t])'
    BY <1>1, <1>2, <2>1, <2>2 DEF Expected, InRun
  <2> QED BY <1>3, <2>4, <2>5
<1>15. CASE WaitEnds(t) \/ LoopExits(t)
  <2>1. /\ UNCHANGED <<run, found, gone>>
        /\ \/ pc[t] = "wait" /\ pc'[t] = "loop" /\ Enqueue(<<>>)
           \/ pc[t] = "exit" /\ pc'[t] = "off" /\ Enqueue(<<[type |-> "scheduler_stopped"]>>)
    BY <1>0, <1>15 DEF WaitEnds, LoopExits, countVars
  <2>2. Expected(s, pc[t], run[t])'
    BY <1>1, <1>2, <2>1 DEF Expected, InRun
  <2>3. \/ Enqueue(<<>>)
        \/ \E e \in Events : Neutral(e) /\ Enqueue(<<e>>)
    BY <2>1, WorkerEvents DEF Neutral
  <2> QED BY <1>5, <2>2, <2>3
<1> QED BY <1>6, <1>7, <1>8, <1>9, <1>10, <1>11, <1>12, <1>13, <1>14, <1>15 DEF WorkerStep

(* Handling the first event is the step Drain takes. *)
LEMMA SameScreen ==
    ASSUME NEW a \in Screen, NEW b \in Screen, a.running <=> b.running,
           a.queried = b.queried, a.deleted = b.deleted, a.asked <=> b.asked, a.over <=> b.over
    PROVE  a = b
BY DEF Screen

LEMMA DrainAfter ==
    ASSUME TypesInv, Drain
    PROVE  /\ Head(queue) \in Events /\ OnScreen \in Screen /\ OnScreen' \in Screen
           /\ After(OnScreen, Head(queue)) = OnScreen'
<1> DEFINE e == Head(queue)
           n == After(OnScreen, e)
<1>1. e \in Events
  BY HeadTailProperties DEF Drain, TypesInv, ViewTypes
<1>2. /\ isRunning \in BOOLEAN /\ queriedTotal \in Nat /\ deletedTotal \in Nat
      /\ queryCounted \in BOOLEAN /\ deleteCounted \in BOOLEAN
      /\ isRunning' \in BOOLEAN /\ queriedTotal' \in Nat /\ deletedTotal' \in Nat
      /\ queryCounted' \in BOOLEAN /\ deleteCounted' \in BOOLEAN
  BY DrainTypes DEF TypesInv, ViewTypes
<1>3. OnScreen \in Screen /\ OnScreen' \in Screen /\ n \in Screen
  BY <1>1, <1>2, AfterTyped DEF OnScreen, Screen
<1>4. /\ OnScreen.running = isRunning /\ OnScreen.queried = queriedTotal
      /\ OnScreen.deleted = deletedTotal /\ OnScreen.asked = queryCounted
      /\ OnScreen.over = deleteCounted
      /\ OnScreen'.running = isRunning' /\ OnScreen'.queried = queriedTotal'
      /\ OnScreen'.deleted = deletedTotal' /\ OnScreen'.asked = queryCounted'
      /\ OnScreen'.over = deleteCounted'
  BY DEF OnScreen
<1>5. CASE HandleRunning(e)
  <2>1. /\ e.type = "running" /\ e.on \in BOOLEAN
        /\ n = [OnScreen EXCEPT !.running = e.on, !.asked = Kept(@, e.on), !.over = Kept(@, e.on)]
    BY <1>1, <1>5 DEF HandleRunning, Events, After
  <2>2. /\ n.running = e.on /\ (n.asked <=> OnScreen.asked /\ ~e.on)
        /\ (n.over <=> OnScreen.over /\ ~e.on)
        /\ n.queried = OnScreen.queried /\ n.deleted = OnScreen.deleted
    BY <1>2, <1>3, <1>4, <2>1 DEF Screen, Kept
  <2>3. /\ isRunning' = e.on /\ (queryCounted' <=> queryCounted /\ ~e.on)
        /\ (deleteCounted' <=> deleteCounted /\ ~e.on)
        /\ queriedTotal' = queriedTotal /\ deletedTotal' = deletedTotal
    BY <1>2, <1>5, <2>1 DEF HandleRunning, SetRunning, Kept
  <2> HIDE DEF n
  <2> QED BY <1>1, <1>2, <1>3, <1>4, <2>2, <2>3, SameScreen DEF n
<1>6. CASE HandleQuery(e)
  <2>1. e.type = "query" /\ Cardinality(e.macs) \in Nat /\ n = Queried(OnScreen, e.macs)
    BY <1>1, <1>6, CountsAreNat DEF HandleQuery, Events, After
  <2>2. /\ n.asked = TRUE /\ n.over = OnScreen.over
        /\ n.running = OnScreen.running /\ n.deleted = OnScreen.deleted
        /\ n.queried = IF OnScreen.asked THEN OnScreen.queried
                       ELSE OnScreen.queried + Cardinality(e.macs)
    <3>1. PICK s, macs : s \in Screen /\ s = OnScreen /\ macs = e.macs
      BY <1>3
    <3>2. /\ Queried(s, macs).asked = TRUE /\ Queried(s, macs).over = s.over
          /\ Queried(s, macs).running = s.running /\ Queried(s, macs).deleted = s.deleted
          /\ Queried(s, macs).queried = IF s.asked THEN s.queried
                                        ELSE s.queried + Cardinality(macs)
      BY <2>1, <3>1, QueriedTyped
    <3> HIDE DEF n
    <3> QED BY <2>1, <3>1, <3>2
  <2>3. /\ queryCounted' = TRUE /\ UNCHANGED <<isRunning, deletedTotal, deleteCounted>>
        /\ queriedTotal' = IF queryCounted THEN queriedTotal
                           ELSE queriedTotal + Cardinality(e.macs)
    BY <1>6 DEF HandleQuery, CountQuery, buttonVars
  <2> HIDE DEF n
  <2> QED BY <1>1, <1>2, <1>3, <1>4, <2>2, <2>3, SameScreen DEF n
<1>7. CASE HandleSummary(e)
  <2>1. /\ e.type = "summary" /\ e.run \in Runs
        /\ Cardinality(e.run.targets) \in Nat /\ Cardinality(Deleted(e.run)) \in Nat
    BY <1>1, <1>7, CountsAreNat DEF HandleSummary, Events, Runs, Deleted
  <2>2. PICK s, r : s \in Screen /\ s = OnScreen /\ r = e.run
    BY <1>3
  <2>3. PICK y :
          /\ y \in Screen
          /\ y = Queried(s, r.targets) /\ y.over = s.over /\ y.running = s.running
          /\ y.deleted = s.deleted /\ y.asked = TRUE
          /\ y.queried = IF s.asked THEN s.queried ELSE s.queried + Cardinality(r.targets)
    <3>1. /\ Queried(s, r.targets) \in Screen /\ Queried(s, r.targets).asked = TRUE
          /\ Queried(s, r.targets).over = s.over
          /\ Queried(s, r.targets).running = s.running
          /\ Queried(s, r.targets).deleted = s.deleted
          /\ Queried(s, r.targets).queried =
                IF s.asked THEN s.queried ELSE s.queried + Cardinality(r.targets)
      BY <2>1, <2>2, QueriedTyped
    <3> WITNESS Queried(s, r.targets)
    <3> QED BY <3>1
  <2>4. /\ n.over = TRUE /\ n.asked = y.asked /\ n.running = y.running /\ n.queried = y.queried
        /\ n.deleted = IF y.over \/ ~e.run.counted THEN y.deleted
                       ELSE y.deleted + Cardinality(Deleted(e.run))
    <3>1. n = Summed(y, r)
      BY <2>1, <2>2, <2>3 DEF After
    <3>2. Cardinality(Deleted(r)) \in Nat
      BY <2>1, <2>2
    <3>3. y \in Screen
      BY <2>3
    <3>4. /\ Summed(y, r).over = TRUE /\ Summed(y, r).asked = y.asked
          /\ Summed(y, r).running = y.running /\ Summed(y, r).queried = y.queried
          /\ Summed(y, r).deleted = IF y.over \/ ~r.counted THEN y.deleted
                                    ELSE y.deleted + Cardinality(Deleted(r))
      BY <3>2, <3>3, SummedTyped
    <3> HIDE DEF n
    <3> QED BY <2>2, <3>1, <3>4
  <2>5. /\ queryCounted' = TRUE /\ deleteCounted' = TRUE /\ UNCHANGED isRunning
        /\ queriedTotal' = IF queryCounted THEN queriedTotal
                           ELSE queriedTotal + Cardinality(e.run.targets)
        /\ deletedTotal' = IF deleteCounted \/ ~e.run.counted THEN deletedTotal
                           ELSE deletedTotal + Cardinality(Deleted(e.run))
    BY <1>7 DEF HandleSummary, CountQuery, buttonVars
  <2> HIDE DEF n
  <2>6. n.queried = queriedTotal' /\ n.deleted = deletedTotal'
    BY <1>4, <2>2, <2>3, <2>4, <2>5
  <2> QED BY <1>1, <1>2, <1>3, <1>4, <2>2, <2>3, <2>4, <2>5, <2>6, SameScreen DEF n
<1>8. CASE HandleRows(e) \/ HandleStopped(e) \/ HandleRequest(e)
  <2>1. e.type \notin {"running", "query", "summary"}
    BY <1>8 DEF HandleRows, HandleStopped, HandleRequest
  <2>2. UNCHANGED <<isRunning, queriedTotal, deletedTotal, queryCounted, deleteCounted>>
    BY <1>8 DEF HandleRows, HandleStopped, HandleRequest, buttonVars, viewVars
  <2> QED BY <1>1, <1>3, <2>1, <2>2 DEF After, OnScreen
<1> HIDE DEF n
<1> QED BY <1>1, <1>3, <1>5, <1>6, <1>7, <1>8 DEF Drain, n

(* The steps of the Tk thread handle what is queued, or leave the screen    *)
(* and the worker alone, or start a worker that has nothing on the screen.  *)
LEMMA ScreenTk ==
    ASSUME ~Hasty, TypesInv, ScreenInv, TkStep \/ CloserStep \/ Ended \/ UNCHANGED vars
    PROVE  ScreenInv'
<1>1. CASE CloseWindow \/ closing'
  BY <1>1 DEF CloseWindow, ScreenInv
<1>2. CASE ~closing' /\ (StartManualRun \/ StartScheduler)
  <2>1. PICK s \in Screen : Leads(queue, OnScreen, s) /\ Expected(s, Place, Record)
    BY <1>2, StartFresh DEF ScreenInv
  <2>2. OnScreen \in Screen
    BY DEF OnScreen, Screen, TypesInv, ViewTypes
  <2>3. s = OnScreen /\ Place = "off" /\ Record = NewRun /\ Record' = NewRun /\ queue' = <<>>
    BY <1>2, <2>1, <2>2, StartFresh, NothingLeads
  <2>4. ~isRunning /\ queriedTotal = found /\ gone = deletedTotal + 0 /\ NewRun.counted = FALSE
    BY <2>1, <2>3 DEF Expected, OnScreen, InRun, NewRun
  <2>5. UNCHANGED <<queriedTotal, deletedTotal, found, gone>>
    BY <1>2 DEF StartManualRun, StartScheduler, Pressed, viewVars, countVars
  <2>6. PICK z \in Screen :
          /\ z = OnScreen' /\ z.running = isRunning' /\ z.queried = queriedTotal'
          /\ z.deleted = deletedTotal' /\ z.asked = queryCounted' /\ z.over = deleteCounted'
    <3> OnScreen' \in Screen
      BY <1>2, TkTypes DEF OnScreen, Screen, TypesInv, ViewTypes, TkStep
    <3> WITNESS OnScreen' \in Screen
    <3> QED BY DEF OnScreen
  <2>7. \/ Place' = "off" /\ ~isRunning'
        \/ Place' = "loop" /\ ~isRunning'
        \/ Place' = "lock" /\ isRunning' /\ ~queryCounted' /\ ~deleteCounted'
    <3>1. CASE StartManualRun
      <4>1. ~queryCounted' /\ ~deleteCounted'
        BY <3>1 DEF StartManualRun, Kept
      <4>2. ~StartScheduler \/ Place' # "loop" \/ ~isRunning'
        BY <2>4 DEF StartScheduler
      <4> QED BY <1>2, <2>4, <3>1, <4>1, <4>2, StartFresh
    <3>2. CASE StartScheduler
      <4>1. ~isRunning'
        BY <2>4, <3>2 DEF StartScheduler
      <4> QED BY <1>2, <3>2, <4>1, StartFresh
    <3> QED BY <1>2, <3>1, <3>2
  <2>8. Expected(z, Place, Record)'
    BY <2>3, <2>4, <2>5, <2>6, <2>7 DEF Expected, InRun
  <2>9. Leads(queue', OnScreen', z)
    BY <2>3, <2>6, LeadsNowhere
  <2> QED BY <2>8, <2>9 DEF ScreenInv
<1>3. CASE ~closing' /\ Drain
  <2>1. PICK s \in Screen : Leads(queue, OnScreen, s) /\ Expected(s, Place, Record)
    BY <1>3 DEF ScreenInv, Drain
  <2>2. UNCHANGED <<found, gone, Place, Record>>
    BY <1>3, TkLeavesWorkers
  <2>3. queue \in Seq(Events) /\ queue # <<>> /\ queue' = Tail(queue)
    BY <1>3 DEF Drain, TypesInv, ViewTypes
  <2>4. Leads(queue', OnScreen', s)
    <3>1. OnScreen \in Screen /\ After(OnScreen, Head(queue)) = OnScreen'
      BY <1>3, DrainAfter
    <3> QED BY <2>1, <2>3, <3>1, LeadsTail
  <2>5. Expected(s, Place, Record)'
    BY <2>1, <2>2 DEF Expected
  <2> QED BY <2>4, <2>5 DEF ScreenInv
<1>4. CASE ~closing' /\ (StopScheduler \/ DisconnectSession \/ DrainEnds \/ AnswerDialog
                           \/ CloserStep \/ Ended \/ UNCHANGED vars)
  <2>1. UNCHANGED <<queue, closing, OnScreen>>
    BY <1>4 DEF StopScheduler, DisconnectSession, DrainEnds, AnswerDialog, CloserStep, Ended, vars,
       flagVars, buttonVars, viewVars, OnScreen
  <2>2. UNCHANGED <<found, gone, Place, Record>>
    BY <1>4, TkLeavesWorkers
  <2>3. PICK s \in Screen : Leads(queue, OnScreen, s) /\ Expected(s, Place, Record)
    BY <1>4, <2>1 DEF ScreenInv
  <2>4. Leads(queue', OnScreen', s)
    BY <2>1, <2>3
  <2>5. Expected(s, Place, Record)'
    BY <2>2, <2>3 DEF Expected
  <2> QED BY <2>4, <2>5 DEF ScreenInv
<1> QED BY <1>1, <1>2, <1>3, <1>4 DEF TkStep

LEMMA WindowInit == GuiInit => WindowInv
<1> SUFFICES ASSUME GuiInit PROVE WindowInv
  OBVIOUS
<1>1. TypesInv
  BY PromiseInit, ViewTypesInit DEF TypesInv
<1>2. Place = "off" /\ Record = NewRun /\ OneWorker /\ NothingToCount /\ queue = <<>>
  BY DEF GuiInit, Place, Record, OneWorker, Alive, NothingToCount
<1>3. ScreenInv
  <2>1. PICK z \in Screen : z = OnScreen /\ z.running = FALSE /\ z.queried = 0 /\ z.deleted = 0
    <3> OnScreen \in Screen
      BY DEF GuiInit, OnScreen, Screen
    <3> WITNESS OnScreen \in Screen
    <3> QED BY DEF GuiInit, OnScreen
  <2>2. Leads(queue, OnScreen, z)
    BY <1>2, <2>1, LeadsNowhere
  <2>3. found = 0 /\ gone = 0 /\ NewRun.counted = FALSE
    BY DEF GuiInit, NewRun
  <2>4. Expected(z, Place, Record)
    BY <1>2, <2>1, <2>3 DEF Expected, InRun
  <2> QED BY <2>2, <2>4 DEF ScreenInv
<1>4. LoopShown /\ ButtonsFollow
  <2>1. NoStop(queue)
    BY <1>2, EmptySeq DEF NoStop
  <2> QED BY <2>1, <1>2 DEF GuiInit, LoopShown, LoopAlive, ButtonsFollow
<1> QED BY <1>1, <1>2, <1>3, <1>4 DEF WindowInv

LEMMA WindowStep ==
    ASSUME ~Hasty, WindowInv, [GuiNext]_vars
    PROVE  WindowInv'
<1>1. TypesInv' /\ NothingToCount' /\ LoopShown' /\ ButtonsFollow'
  BY ControlStep, RunsFitStep, TypesStep, NothingToCountStep, LoopShownStep, ButtonsStep
     DEF WindowInv, TypesInv, PromiseInv
<1>2. CASE TkStep \/ CloserStep \/ Ended \/ UNCHANGED vars
  <2>1. OneWorker'
    BY <1>2, StartFresh, TkLeavesWorkers DEF WindowInv, TkStep
  <2> QED BY <1>1, <1>2, <2>1, ScreenTk DEF WindowInv
<1>3. ASSUME NEW t \in Threads, WorkerStep(t) PROVE WindowInv'
  <2>1. OneWorker'
    BY <1>3, LastWorker DEF WindowInv
  <2>2. UNCHANGED closing
    BY <1>3
       DEF WorkerStep, LoopHead, BeginCycle, TakeLock, AskHostKey, KeyAnswered, Query,
           QueryFails, TargetsAnswered, GiveUp, Countdown, DeleteNext, DeleteLoopEnds,
           SendDelete, CancelBeforeVerify, Verify, VerifyFails, ReleaseLock, Report,
           EndRun, WaitEnds, LoopExits, Connected, At, Goto, Tell, TkUnchanged
  <2>3. ScreenInv'
    <3>1. CASE closing
      BY <2>2, <3>1 DEF ScreenInv
    <3>2. CASE ~closing
      BY <1>3, <3>2, ScreenWorker DEF WindowInv
    <3> QED BY <3>1, <3>2
  <2> QED BY <1>1, <2>1, <2>3 DEF WindowInv
<1> QED BY <1>2, <1>3 DEF GuiNext

(* What WindowInv says of the one worker, the queue and the screen always   *)
(* holds when nothing is started before earlier events are drained.         *)
THEOREM WindowInvariant ==
    ASSUME ~Hasty
    PROVE  GuiSpec => []WindowInv
<1>1. WindowInv /\ [GuiNext]_vars => WindowInv'
  BY WindowStep
<1> QED BY <1>1, WindowInit, PTL DEF GuiSpec

(* Of an operator who waits for the window to settle before each start: a   *)
(* settled window has counted each run once, for any number of runs and     *)
(* MACs.                                                                    *)
THEOREM CountersAlwaysExact ==
    ASSUME ~Hasty
    PROVE  GuiSpec => []CountersExact
<1>1. ASSUME WindowInv PROVE CountersExact
  <2> SUFFICES ASSUME ~closing, Settled PROVE queriedTotal = found /\ deletedTotal = gone
    BY DEF CountersExact
  <2>1. Place = "off" /\ Record = NewRun /\ queue = <<>> /\ NewRun.counted = FALSE
    <3>1. /\ starts \in 0 .. MaxStarts /\ pc \in [Threads -> Places]
          /\ \A t \in Threads : pc[t] \in Fresh => run[t] = NewRun
      BY <1>1 DEF WindowInv, TypesInv, PromiseInv, ControlInv, WorkerTypes, RunsFit
    <3>2. starts # 0 => starts \in Threads
      BY <3>1, GuiConstants DEF Threads
    <3>3. "off" \in Fresh
      BY DEF Fresh, Places
    <3> QED BY <3>1, <3>2, <3>3 DEF Settled, Alive, Place, Record, NewRun
  <2>2. OnScreen \in Screen /\ deletedTotal \in Nat
    BY <1>1 DEF OnScreen, Screen, WindowInv, TypesInv, ViewTypes
  <2>3. PICK s \in Screen : Leads(queue, OnScreen, s) /\ Expected(s, Place, Record)
    BY <1>1 DEF WindowInv, ScreenInv
  <2>4. s = OnScreen
    BY <2>1, <2>2, <2>3, NothingLeads
  <2>5. queriedTotal = found /\ gone = deletedTotal + 0
    BY <2>1, <2>3, <2>4 DEF Expected, OnScreen
  <2> QED BY <2>2, <2>5
<1> QED BY <1>1, WindowInvariant, PTL

(* Of the same operator: a loop that goes on always has its stop button,    *)
(* and no manual run can be started beside it.                              *)
THEOREM LoopAlwaysControllable ==
    ASSUME ~Hasty
    PROVE  GuiSpec => []LoopHasItsControls
<1>1. ASSUME WindowInv PROVE LoopHasItsControls
  <2> SUFFICES ASSUME NEW t \in Threads, job[t] = "scheduler", Alive(t), ~stopEvent
               PROVE  schedulerRunning /\ stopButton /\ ~startButtons
    BY DEF LoopHasItsControls
  <2>1. t = starts /\ starts # 0
    BY <1>1 DEF WindowInv, OneWorker, Threads
  <2>2. LoopAlive
    BY <2>1 DEF LoopAlive, Place, Alive
  <2> QED BY <1>1, <2>2 DEF WindowInv, LoopShown, ButtonsFollow
<1> QED BY <1>1, WindowInvariant, PTL

(* Hasty or not, the start buttons work exactly when the window shows no    *)
(* run and no loop, and the stop button exactly while it shows a loop.      *)
THEOREM ButtonsAlwaysFollow == GuiSpec => []ButtonsFollow
<1>1. GuiInit => ButtonsFollow
  BY DEF GuiInit, ButtonsFollow
<1>2. TypesInv /\ TypesInv' /\ ButtonsFollow /\ [GuiNext]_vars => ButtonsFollow'
  BY ButtonsStep
<1> QED BY <1>1, <1>2, TypesInvariant, PTL DEF GuiSpec

----------------------------------------------------------------------------
(* When everything has ended.  This holds of a hasty operator as well, with *)
(* several workers whose events are mixed in the queue.                     *)

(* The queue's last word on running is yes; it has no word on it. *)
SaysRunning(q) ==
    \E i \in 1 .. Len(q) : /\ q[i].type = "running" /\ q[i].on
                           /\ \A j \in i + 1 .. Len(q) : q[j].type # "running"
NoRunning(q) == \A i \in 1 .. Len(q) : q[i].type # "running"

(* Where a worker is when it has told, or the start has shown, that it runs.*)
Busy == {"lock", "report", "end"} \cup InRun

(* What the window shows, or will show after the queue, is true of a worker.*)
RunShown ==
    ~closing /\ (SaysRunning(queue) \/ (isRunning /\ NoRunning(queue))) =>
        \E t \in Threads : pc[t] \in Busy
LoopKnown ==
    ~closing /\ schedulerRunning =>
        ~NoStop(queue) \/ \E t \in Threads : Alive(t) /\ job[t] = "scheduler"

QuietInv == TypesInv /\ ButtonsFollow /\ RunShown /\ LoopKnown

LEMMA EnqueueSays ==
    ASSUME queue \in Seq(Events), NEW events \in Seq(Events), Enqueue(events)
    PROVE  /\ NoStop(queue') => NoStop(queue)
           /\ NoRunning(events) => /\ SaysRunning(queue') => SaysRunning(queue)
                                   /\ NoRunning(queue') => NoRunning(queue)
           /\ ~closing /\ Len(events) = 1 /\ events[1].type = "scheduler_stopped" => ~NoStop(queue')
           /\ ~closing /\ Len(events) = 1 /\ events[1].type = "running" /\ ~events[1].on =>
                 ~SaysRunning(queue') /\ ~NoRunning(queue')
<1>1. CASE closing
  BY <1>1 DEF Enqueue
<1>2. CASE ~closing
  <2>1. queue' = queue \o events
    BY <1>2 DEF Enqueue
  <2>2. /\ Len(queue') = Len(queue) + Len(events)
        /\ Len(queue) \in Nat /\ Len(events) \in Nat
        /\ \A i \in 1 .. Len(queue) + Len(events) :
              queue'[i] = IF i <= Len(queue) THEN queue[i] ELSE events[i - Len(queue)]
    BY <2>1, ConcatProperties, LenProperties
  <2>3. NoStop(queue') => NoStop(queue)
    BY <2>2 DEF NoStop
  <2>4. NoRunning(queue') => NoRunning(queue)
    BY <2>2 DEF NoRunning
  <2>5. ASSUME NoRunning(events), SaysRunning(queue') PROVE SaysRunning(queue)
    <3>1. PICK i \in 1 .. Len(queue') :
            /\ queue'[i].type = "running" /\ queue'[i].on
            /\ \A j \in i + 1 .. Len(queue') : queue'[j].type # "running"
      BY <2>5 DEF SaysRunning
    <3>2. i <= Len(queue)
      <4> SUFFICES ASSUME ~(i <= Len(queue)) PROVE FALSE
        OBVIOUS
      <4>1. i - Len(queue) \in 1 .. Len(events) /\ queue'[i] = events[i - Len(queue)]
        BY <2>2, <3>1
      <4> QED BY <2>5, <3>1, <4>1 DEF NoRunning
    <3>3. \A j \in i + 1 .. Len(queue) : queue[j].type # "running"
      BY <2>2, <3>1
    <3>4. i \in 1 .. Len(queue) /\ queue'[i] = queue[i]
      BY <2>2, <3>2
    <3> QED BY <3>1, <3>3, <3>4 DEF SaysRunning
  <2>6. ASSUME Len(events) = 1
        PROVE  /\ Len(queue) + 1 \in 1 .. Len(queue') /\ Len(queue') = Len(queue) + 1
               /\ queue'[Len(queue) + 1] = events[1]
    BY <2>2, <2>6
  <2>7. Len(events) = 1 /\ events[1].type = "scheduler_stopped" => ~NoStop(queue')
    BY <2>6 DEF NoStop
  <2>8. ASSUME Len(events) = 1, events[1].type = "running", ~events[1].on, SaysRunning(queue')
        PROVE  FALSE
    <3>1. PICK i \in 1 .. Len(queue') :
            /\ queue'[i].type = "running" /\ queue'[i].on
            /\ \A j \in i + 1 .. Len(queue') : queue'[j].type # "running"
      BY <2>8 DEF SaysRunning
    <3>2. CASE i = Len(queue')
      BY <2>6, <2>8, <3>1, <3>2
    <3>3. CASE i # Len(queue')
      <4>1. Len(queue') \in i + 1 .. Len(queue')
        BY <2>2, <3>3
      <4> QED BY <2>6, <2>8, <3>1, <4>1
    <3> QED BY <3>2, <3>3
  <2>9. Len(events) = 1 /\ events[1].type = "running" => ~NoRunning(queue')
    BY <2>6 DEF NoRunning
  <2> QED BY <2>3, <2>4, <2>5, <2>7, <2>8, <2>9
<1> QED BY <1>1, <1>2

LEMMA ToldRunning ==
    /\ NoRunning(<<>>)
    /\ \A e \in Events : /\ Len(<<e>>) = 1 /\ <<e>>[1] = e
                         /\ e.type # "running" => NoRunning(<<e>>)
    /\ \A d, e \in Events :
          d.type # "running" /\ e.type # "running" => NoRunning(<<d, e>>)
BY DEF NoRunning

(* What a step of a worker adds to the queue's words. *)
LEMMA WorkerSays ==
    ASSUME TypesInv, NEW t \in Threads, WorkerStep(t)
    PROVE  /\ NoStop(queue') => NoStop(queue)
           /\ ~BeginCycle(t) /\ ~EndRun(t) => /\ SaysRunning(queue') => SaysRunning(queue)
                                              /\ NoRunning(queue') => NoRunning(queue)
           /\ EndRun(t) /\ ~closing => ~SaysRunning(queue') /\ ~NoRunning(queue')
           /\ LoopExits(t) /\ ~closing => ~NoStop(queue')
<1> USE DEF At, Goto, Tell, Connected
<1>0. /\ queue \in Seq(Events) /\ run[t] \in Runs /\ pc \in [Threads -> Places]
      /\ (pc[t] \in Numbered => \A k \in {"host_key", "targets"} : Request(t, k) \in Requests)
  BY DEF TypesInv, ViewTypes, PromiseInv, ControlInv, WorkerTypes, RunsFit, Request, Requests
<1>1. CASE BeginCycle(t)
  <2>1. PICK es \in Seq(Events) : Enqueue(es)
    BY <1>1, WorkerEvents, ToldTyped DEF BeginCycle
  <2> QED BY <1>0, <1>1, <2>1, EnqueueSays DEF BeginCycle, EndRun, LoopExits
<1>2. CASE EndRun(t)
  <2> DEFINE e == [type |-> "running", on |-> FALSE]
  <2>1. Enqueue(<<e>>) /\ <<e>> \in Seq(Events) /\ Len(<<e>>) = 1 /\ <<e>>[1] = e
    BY <1>2, WorkerEvents, ToldTyped DEF EndRun
  <2> QED BY <1>0, <1>2, <2>1, EnqueueSays DEF BeginCycle, EndRun, LoopExits
<1>3. CASE LoopExits(t)
  <2> DEFINE e == [type |-> "scheduler_stopped"]
  <2>1. /\ Enqueue(<<e>>) /\ <<e>> \in Seq(Events) /\ Len(<<e>>) = 1 /\ <<e>>[1] = e
        /\ NoRunning(<<e>>)
    BY <1>3, WorkerEvents, ToldTyped, ToldRunning DEF LoopExits
  <2> QED BY <1>0, <1>3, <2>1, EnqueueSays DEF BeginCycle, EndRun, LoopExits
<1>4. CASE LoopHead(t)
  BY <1>0, <1>4 DEF LoopHead, EndRun, LoopExits
<1>5. ASSUME pc[t] \notin {"end", "exit"},
             NEW es \in Seq(Events), Enqueue(es), NoRunning(es)
      PROVE  /\ NoStop(queue') => NoStop(queue)
             /\ SaysRunning(queue') => SaysRunning(queue)
             /\ NoRunning(queue') => NoRunning(queue)
             /\ ~EndRun(t) /\ ~LoopExits(t)
  BY <1>0, <1>5, EnqueueSays DEF EndRun, LoopExits
<1>6. CASE Query(t)
  <2>1. PICK macs \in SUBSET Macs :
          \/ Enqueue(<<[type |-> "query", macs |-> macs]>>)
          \/ Enqueue(<<[type |-> "query", macs |-> macs],
                       [type |-> "ask", request |-> Request(t, "targets")]>>)
    BY <1>6 DEF Query
  <2>2. Request(t, "targets") \in Requests /\ pc[t] \in {"connect", "query"}
    BY <1>0, <1>6 DEF Query, Numbered, InRun
  <2> DEFINE e == [type |-> "query", macs |-> macs]
             d == [type |-> "ask", request |-> Request(t, "targets")]
  <2>3. /\ <<e>> \in Seq(Events) /\ <<e, d>> \in Seq(Events)
        /\ NoRunning(<<e>>) /\ NoRunning(<<e, d>>)
    BY <2>2, WorkerEvents, ToldTyped, ToldRunning
  <2> QED BY <1>5, <2>1, <2>2, <2>3
<1>7. CASE SendDelete(t)
  <2>1. PICK mac \in run[t].todo, answer \in Responses \ {"none"} :
          Enqueue(<<[type |-> "row", mac |-> mac, status |-> "deleting"],
                    [type |-> "row", mac |-> mac, status |-> answer]>>)
    BY <1>7 DEF SendDelete
  <2>2. mac \in Macs /\ answer \in RowStates /\ "deleting" \in RowStates /\ pc[t] = "send"
    BY <1>0, <1>7, <2>1 DEF SendDelete, Runs, Responses, RowStates
  <2> DEFINE e == [type |-> "row", mac |-> mac, status |-> "deleting"]
             d == [type |-> "row", mac |-> mac, status |-> answer]
  <2>3. <<e, d>> \in Seq(Events) /\ NoRunning(<<e, d>>)
    BY <2>2, WorkerEvents, ToldTyped, ToldRunning
  <2> QED BY <1>5, <2>1, <2>2, <2>3
<1>8. CASE Verify(t)
  <2>1. PICK rows \in SUBSET Macs :
          \/ Enqueue(<<[type |-> "query", macs |-> rows]>>)
          \/ Enqueue(<<[type |-> "query", macs |-> rows],
                       [type |-> "reappeared", macs |-> Deleted(run[t]) \cap rows]>>)
    BY <1>8 DEF Verify
  <2> DEFINE e == [type |-> "query", macs |-> rows]
             d == [type |-> "reappeared", macs |-> Deleted(run[t]) \cap rows]
  <2>2. /\ <<e>> \in Seq(Events) /\ <<e, d>> \in Seq(Events)
        /\ NoRunning(<<e>>) /\ NoRunning(<<e, d>>) /\ pc[t] = "check"
    BY <1>8, WorkerEvents, ToldTyped, ToldRunning DEF Verify
  <2> QED BY <1>5, <2>1, <2>2
<1>9. CASE Report(t) \/ AskHostKey(t)
  <2>1. PICK e \in Events : e.type # "running" /\ Enqueue(<<e>>) /\ pc[t] \in {"report", "connect"}
    BY <1>0, <1>9, WorkerEvents DEF Report, AskHostKey, Numbered, InRun
  <2> QED BY <1>5, <2>1, ToldTyped, ToldRunning
<1>10. CASE Countdown(t) \/ DeleteLoopEnds(t) \/ CancelBeforeVerify(t)
            \/ TakeLock(t) \/ KeyAnswered(t) \/ QueryFails(t) \/ TargetsAnswered(t) \/ GiveUp(t)
            \/ DeleteNext(t) \/ VerifyFails(t) \/ ReleaseLock(t) \/ WaitEnds(t)
  <2>1. /\ Enqueue(<<>>) \/ Enqueue(<<[type |-> "delete_canceled"]>>)
        /\ pc[t] \notin {"end", "exit"}
    BY <1>10 DEF Countdown, DeleteLoopEnds, CancelBeforeVerify, TakeLock, KeyAnswered, QueryFails,
       TargetsAnswered, GiveUp, DeleteNext, VerifyFails, ReleaseLock, WaitEnds
  <2> QED BY <1>5, <2>1, WorkerEvents, ToldTyped, ToldRunning
<1> QED
  BY <1>1, <1>2, <1>3, <1>4, <1>6, <1>7, <1>8, <1>9, <1>10 DEF WorkerStep

(* What handling an event takes from the queue's words, the screen gets.    *)
LEMMA DrainSays ==
    ASSUME TypesInv, Drain
    PROVE  /\ SaysRunning(queue') \/ (isRunning' /\ NoRunning(queue')) =>
                 SaysRunning(queue) \/ (isRunning /\ NoRunning(queue))
           /\ schedulerRunning' => schedulerRunning /\ (NoStop(queue') => NoStop(queue))
<1> DEFINE e == Head(queue)
<1>1. queue \in Seq(Events) /\ queue # <<>> /\ queue' = Tail(queue)
  BY DEF Drain, TypesInv, ViewTypes
<1>2. /\ Len(queue) \in Nat \ {0} /\ Len(queue') = Len(queue) - 1 /\ e = queue[1]
      /\ \A i \in 1 .. Len(queue) - 1 : queue'[i] = queue[i + 1]
  BY <1>1, HeadTailProperties, EmptySeq
<1>3. \/ e.type = "running" /\ (isRunning' <=> e.on) /\ schedulerRunning' = schedulerRunning
      \/ e.type = "scheduler_stopped" /\ isRunning' = isRunning /\ schedulerRunning' = FALSE
      \/ /\ e.type \notin {"running", "scheduler_stopped"} /\ isRunning' = isRunning
         /\ schedulerRunning' = schedulerRunning
  BY DEF Drain, HandleRunning, SetRunning, HandleQuery, HandleRows, HandleSummary,
     HandleStopped, HandleRequest, buttonVars
<1>4. \A j \in 2 .. Len(queue) : j - 1 \in 1 .. Len(queue') /\ queue[j] = queue'[j - 1]
  <2> TAKE j \in 2 .. Len(queue)
  <2>1. j - 1 \in 1 .. Len(queue) - 1 /\ (j - 1) + 1 = j
    BY <1>2
  <2> QED BY <1>2, <2>1
<1>5. SaysRunning(queue') => SaysRunning(queue)
  <2> SUFFICES ASSUME SaysRunning(queue') PROVE SaysRunning(queue)
    OBVIOUS
  <2>1. PICK i \in 1 .. Len(queue') :
          /\ queue'[i].type = "running" /\ queue'[i].on
          /\ \A j \in i + 1 .. Len(queue') : queue'[j].type # "running"
    BY DEF SaysRunning
  <2>2. i + 1 \in 1 .. Len(queue) /\ queue[i + 1] = queue'[i]
    BY <1>2
  <2>3. \A j \in (i + 1) + 1 .. Len(queue) : queue[j].type # "running"
    <3> TAKE j \in (i + 1) + 1 .. Len(queue)
    <3>1. j \in 2 .. Len(queue) /\ j - 1 \in i + 1 .. Len(queue')
      BY <1>2
    <3> QED BY <1>4, <2>1, <3>1
  <2> QED BY <2>1, <2>2, <2>3 DEF SaysRunning
<1>6. isRunning' /\ NoRunning(queue') => SaysRunning(queue) \/ (isRunning /\ NoRunning(queue))
  <2> SUFFICES ASSUME isRunning', NoRunning(queue')
               PROVE  SaysRunning(queue) \/ (isRunning /\ NoRunning(queue))
    OBVIOUS
  <2>1. \A j \in 2 .. Len(queue) : queue[j].type # "running"
    BY <1>4 DEF NoRunning
  <2>2. CASE e.type = "running"
    <3>0. e.on
      <4>1. isRunning' <=> e.on
        BY <1>3, <2>2
      <4> QED BY <4>1
    <3>1. 1 \in 1 .. Len(queue) /\ queue[1].on /\ queue[1].type = "running"
      BY <1>2, <2>2, <3>0
    <3>2. \A j \in 1 + 1 .. Len(queue) : queue[j].type # "running"
      BY <2>1
    <3> QED BY <3>1, <3>2 DEF SaysRunning
  <2>3. CASE e.type # "running"
    <3>1. \A i \in 1 .. Len(queue) : i = 1 \/ i \in 2 .. Len(queue)
      BY <1>2
    <3>2. NoRunning(queue)
      BY <1>2, <2>1, <2>3, <3>1 DEF NoRunning
    <3> QED BY <1>3, <2>3, <3>2
  <2> QED BY <2>2, <2>3
<1>7. schedulerRunning' => schedulerRunning /\ (NoStop(queue') => NoStop(queue))
  <2> SUFFICES ASSUME schedulerRunning', NoStop(queue') PROVE schedulerRunning /\ NoStop(queue)
    BY <1>3
  <2>1. \A j \in 2 .. Len(queue) : queue[j].type # "scheduler_stopped"
    BY <1>4 DEF NoStop
  <2>2. \A i \in 1 .. Len(queue) : i = 1 \/ i \in 2 .. Len(queue)
    BY <1>2
  <2>3. schedulerRunning /\ e.type # "scheduler_stopped"
    BY <1>3
  <2> QED BY <1>2, <2>1, <2>2, <2>3 DEF NoStop
<1> QED BY <1>5, <1>6, <1>7

LEMMA QuietStep ==
    ASSUME TypesInv, ButtonsFollow, RunShown, LoopKnown, [GuiNext]_vars
    PROVE  RunShown' /\ LoopKnown'
<1>0. /\ pc \in [Threads -> Places] /\ job \in [Threads -> {"manual", "scheduler"}]
      /\ starts \in 0 .. MaxStarts /\ \A t \in Threads : t > starts => pc[t] = "off"
  BY DEF TypesInv, PromiseInv, ControlInv, WorkerTypes, ViewTypes
<1>1. CASE /\ UNCHANGED <<pc, job>> /\ (~closing' => ~closing)
           /\ SaysRunning(queue') \/ (isRunning' /\ NoRunning(queue')) =>
                 SaysRunning(queue) \/ (isRunning /\ NoRunning(queue))
           /\ schedulerRunning' => schedulerRunning /\ (NoStop(queue') => NoStop(queue))
  BY <1>1 DEF RunShown, LoopKnown, Alive
<1>2. CASE StopScheduler \/ DisconnectSession \/ DrainEnds \/ AnswerDialog \/ CloserStep \/ Ended
             \/ UNCHANGED vars
  <2>1. /\ UNCHANGED <<pc, job, queue, isRunning, closing>>
        /\ schedulerRunning' => schedulerRunning
    BY <1>2 DEF StopScheduler, DisconnectSession, DrainEnds, AnswerDialog, CloserStep, Ended, vars,
       flagVars, buttonVars, workerVars
  <2>2. /\ NoStop(queue') => NoStop(queue)
        /\ SaysRunning(queue') => SaysRunning(queue)
        /\ NoRunning(queue') => NoRunning(queue)
    BY <2>1
  <2> QED BY <1>1, <2>1, <2>2
<1>3. CASE CloseWindow
  BY <1>3 DEF CloseWindow, RunShown, LoopKnown
<1>4. CASE Drain
  <2>1. UNCHANGED <<pc, job, closing>>
    BY <1>4 DEF Drain, workerVars, flagVars
  <2> QED BY <1>1, <1>4, <2>1, DrainSays
<1>5. CASE StartManualRun \/ StartScheduler
  <2>1. /\ ~closing /\ UNCHANGED queue /\ starts < MaxStarts
        /\ ~isRunning /\ ~schedulerRunning
    BY <1>5 DEF StartManualRun, StartScheduler, Idle
  <2>2. starts + 1 \in Threads /\ pc[starts + 1] = "off"
    <3>1. starts + 1 \in Threads /\ starts + 1 > starts
      BY <1>0, <2>1, GuiConstants DEF Threads
    <3> QED BY <1>0, <3>1
  <2>3. CASE StartThread("manual", "lock") /\ schedulerRunning' = schedulerRunning
    <3>1. pc'[starts + 1] \in Busy
      BY <1>0, <2>2, <2>3 DEF StartThread, Busy
    <3> QED BY <2>1, <2>2, <2>3, <3>1 DEF RunShown, LoopKnown
  <2>4. CASE StartThread("scheduler", "loop") /\ isRunning' = isRunning
    <3>1. /\ pc'[starts + 1] = "loop" /\ job'[starts + 1] = "scheduler"
          /\ \A t \in Threads : pc[t] \in Busy => pc'[t] = pc[t]
      BY <1>0, <2>2, <2>4 DEF StartThread, Busy, InRun
    <3>2. LoopKnown'
      BY <2>2, <3>1 DEF LoopKnown, Alive
    <3>3. /\ SaysRunning(queue') => SaysRunning(queue)
          /\ NoRunning(queue') => NoRunning(queue)
      BY <2>1
    <3>4. RunShown'
      BY <2>1, <2>4, <3>1, <3>3 DEF RunShown
    <3> QED BY <3>2, <3>4
  <2>5. CASE UNCHANGED <<pc, job, isRunning, schedulerRunning>>
    <3>1. /\ SaysRunning(queue') => SaysRunning(queue)
          /\ NoRunning(queue') => NoRunning(queue)
      BY <2>1
    <3> QED BY <1>1, <2>1, <2>5, <3>1
  <2> QED BY <1>5, <2>3, <2>4, <2>5 DEF StartManualRun, StartScheduler, workerVars
<1>6. ASSUME NEW t \in Threads, WorkerStep(t) PROVE RunShown' /\ LoopKnown'
  <2> USE DEF At, Goto, Tell
  <2>1. /\ UNCHANGED <<job, closing, isRunning, schedulerRunning>> /\ pc[t] # "off"
        /\ \A u \in Threads : u # t => pc'[u] = pc[u]
        /\ pc[t] \in Busy /\ ~EndRun(t) => pc'[t] \in Busy
        /\ BeginCycle(t) => pc'[t] \in Busy
        /\ pc'[t] = "off" => job[t] = "manual" \/ LoopExits(t)
    BY <1>0, <1>6
       DEF WorkerStep, LoopHead, BeginCycle, TakeLock, AskHostKey, KeyAnswered, Query,
           QueryFails, TargetsAnswered, GiveUp, Countdown, DeleteNext, DeleteLoopEnds,
           SendDelete, CancelBeforeVerify, Verify, VerifyFails, ReleaseLock, Report,
           EndRun, WaitEnds, LoopExits, Connected, TkUnchanged, buttonVars, Busy, InRun
  <2>2. /\ NoStop(queue') => NoStop(queue)
        /\ ~BeginCycle(t) /\ ~EndRun(t) => /\ SaysRunning(queue') => SaysRunning(queue)
                                           /\ NoRunning(queue') => NoRunning(queue)
        /\ EndRun(t) /\ ~closing => ~SaysRunning(queue') /\ ~NoRunning(queue')
        /\ LoopExits(t) /\ ~closing => ~NoStop(queue')
    BY <1>6, WorkerSays
  <2>3. RunShown'
    <3>1. CASE BeginCycle(t)
      BY <2>1, <3>1 DEF RunShown
    <3>2. CASE EndRun(t)
      BY <2>1, <2>2, <3>2 DEF RunShown
    <3>3. CASE ~BeginCycle(t) /\ ~EndRun(t)
      <4>1. \A u \in Threads : pc[u] \in Busy => pc'[u] \in Busy
        BY <2>1, <3>3
      <4> QED BY <2>1, <2>2, <3>3, <4>1 DEF RunShown
    <3> QED BY <3>1, <3>2, <3>3
  <2>4. LoopKnown'
    <3>1. CASE LoopExits(t)
      BY <2>1, <2>2, <3>1 DEF LoopKnown
    <3>2. CASE ~LoopExits(t)
      <4>1. \A u \in Threads : Alive(u) /\ job[u] = "scheduler" => Alive(u)' /\ job'[u] = "scheduler"
        BY <2>1, <3>2 DEF Alive
      <4> QED BY <2>1, <2>2, <4>1 DEF LoopKnown
    <3> QED BY <3>1, <3>2
  <2> QED BY <2>3, <2>4
<1> QED BY <1>2, <1>3, <1>4, <1>5, <1>6 DEF GuiNext, TkStep

(* What QuietInv says of the buttons and of the queue's last word on a run  *)
(* always holds, hasty starts included.                                     *)
THEOREM QuietInvariant == GuiSpec => []QuietInv
<1>1. GuiInit => QuietInv
  <2> SUFFICES ASSUME GuiInit PROVE QuietInv
    OBVIOUS
  <2>1. Len(queue) = 0 /\ ~isRunning /\ ~schedulerRunning
    BY EmptySeq DEF GuiInit
  <2>2. RunShown /\ LoopKnown
    BY <2>1 DEF RunShown, LoopKnown, SaysRunning
  <2>3. TypesInv /\ ButtonsFollow
    BY PromiseInit, ViewTypesInit DEF TypesInv, GuiInit, ButtonsFollow
  <2> QED BY <2>2, <2>3 DEF QuietInv
<1>2. QuietInv /\ [GuiNext]_vars => QuietInv'
  BY ControlStep, RunsFitStep, TypesStep, ButtonsStep, QuietStep DEF QuietInv, TypesInv, PromiseInv
<1> QED BY <1>1, <1>2, PTL DEF GuiSpec

(* When nothing runs and no event is left the window is ready for the next  *)
(* start, hasty or not, in whatever order the events of several workers     *)
(* were queued.                                                             *)
THEOREM QuietWindowReady == GuiSpec => []QuietMeansReady
<1>1. ASSUME QuietInv PROVE QuietMeansReady
  <2> SUFFICES ASSUME ~closing, Settled
               PROVE  startButtons /\ ~stopButton /\ ~isRunning /\ ~schedulerRunning
    BY DEF QuietMeansReady
  <2>1. NoStop(queue) /\ NoRunning(queue)
    <3>1. Len(queue) = 0
      BY EmptySeq DEF Settled
    <3> QED BY <3>1 DEF NoStop, NoRunning
  <2>2. \A t \in Threads : ~Alive(t) /\ pc[t] \notin Busy
    BY DEF Settled, Alive, Busy, InRun
  <2>3. ~isRunning /\ ~schedulerRunning
    BY <1>1, <2>1, <2>2 DEF QuietInv, RunShown, LoopKnown
  <2> QED BY <1>1, <2>3 DEF QuietInv, ButtonsFollow
<1> QED BY <1>1, QuietInvariant, PTL
=============================================================================
