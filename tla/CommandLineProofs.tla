------------------------- MODULE CommandLineProofs -------------------------
(***************************************************************************)
(* Proofs about the command line: what its exit code says of the run, for  *)
(* any threads that close its session, any MACs and any delay.             *)
(***************************************************************************)
EXTENDS CommandLine, CleanupRunProofs

(* While main() works it moves as the runner does, so the runner's          *)
(* invariants hold until the process is gone; the run it made is a run,     *)
(* not a preview, and before it nothing was approved.                       *)
MainRuns ==
    stage # "ended" =>
        /\ RunInv
        /\ ReportInv
        /\ exit = "none"
        /\ stage = "run" => kind = "run"
        /\ stage # "run" => runLock = NoThread /\ approved = {}

(* What must hold of the run even after the process is gone: an interrupt   *)
(* may leave a command on its way that the device still executes.           *)
DeletesJustified == AtMostOneDelete /\ OnlyApprovedDeleted /\ ReportHonest

CliInv ==
    /\ stage \in {"arguments", "passwords", "run", "ended"}
    /\ MainRuns
    /\ ExitHonest
    /\ DeletesJustified

----------------------------------------------------------------------------
(* Until the process ends, a step of main() or around it is a step of the   *)
(* runner and its environment.                                              *)
LEMMA MovesAsRunner ==
    ASSUME [CliNext]_cliVars, stage' # "ended"
    PROVE  [Next]_vars
<1> USE CliConstants
<1>1. CASE AskPasswords
  BY <1>1 DEF AskPasswords
<1>2. CASE StartRun
  BY <1>2 DEF StartRun, Next
<1>3. CASE AnswerPrompt
  BY <1>3 DEF AnswerPrompt, Next, RunStep
<1>4. CASE Work
  BY <1>4 DEF Work, Next
<1>5. CASE Elsewhere
  BY <1>5 DEF Elsewhere, Next
<1>6. CASE RejectArguments \/ GiveUp \/ Finish \/ Interrupt
  BY <1>6 DEF RejectArguments, GiveUp, Finish, Interrupt, Quit
<1>7. CASE UNCHANGED cliVars
  BY <1>7 DEF cliVars
<1> QED
  BY <1>1, <1>2, <1>3, <1>4, <1>5, <1>6, <1>7 DEF CliNext

(* Ending the process changes nothing of what was reported or sent, and the *)
(* process stays ended.                                                     *)
LEMMA EndedStays ==
    ASSUME stage = "ended", [CliNext]_cliVars
    PROVE  UNCHANGED cliVars
BY DEF CliNext, RejectArguments, AskPasswords, GiveUp, StartRun, AnswerPrompt, Work, Finish,
   Interrupt, Elsewhere

(* The kind of the run and what was approved, before and in the run.        *)
LEMMA RunKindStep ==
    ASSUME CliInv, [CliNext]_cliVars, stage' # "ended"
    PROVE  /\ stage' \in {"arguments", "passwords", "run"}
           /\ exit' = "none"
           /\ stage' = "run" => kind' = "run"
           /\ stage' # "run" => runLock' = NoThread /\ approved' = {}
<1>0. stage # "ended" /\ exit = "none"
  BY EndedStays DEF CliInv, MainRuns, cliVars
<1> USE <1>0 DEF CliInv, MainRuns
<1>1. CASE AskPasswords
  BY <1>1 DEF AskPasswords, vars, runnerVars, observations
<1>2. CASE StartRun
  BY <1>2 DEF StartRun, Start
<1>3. CASE AnswerPrompt
  BY <1>3 DEF AnswerPrompt, Approve, Deny
<1>4. CASE Work
  <2>1. kind' = kind
    BY <1>4 DEF Work, RunStep, QueryReturned, Approve, Deny, CountdownCanceled, CountdownTick,
       CountdownDone, DeleteNext, DeleteReturned, DeleteLoopEnds, CancelNotSeenAfterLoop,
       SkipVerification, StartVerification, VerificationReturned, KeepSession, CloseSession,
       SessionClosed, WriteAudit, AppendHistory, Release, CallStep, runnerVars
  <2> QED
    BY <1>4, <2>1 DEF Work
<1>5. CASE Elsewhere
  BY <1>5 DEF Elsewhere, CloseFromOutside, OutsideClosed, CallStep, Environment, runnerVars
<1>6. CASE RejectArguments \/ GiveUp \/ Finish \/ Interrupt
  BY <1>6 DEF RejectArguments, GiveUp, Finish, Interrupt, Quit
<1>7. CASE UNCHANGED cliVars
  BY <1>7 DEF cliVars, vars, runnerVars, observations
<1> QED
  BY <1>1, <1>2, <1>3, <1>4, <1>5, <1>6, <1>7 DEF CliNext

(* While the process runs it has promised nothing yet. *)
LEMMA HonestWhileRunning ==
    ASSUME exit = "none"
    PROVE  ExitHonest
BY DEF ExitHonest

(* The exit code of a run that is over is honest. *)
LEMMA FinishHonest ==
    ASSUME CliInv, Finish
    PROVE  ExitHonest'
<1>1. /\ RunInv /\ ReportInv /\ kind = "run"
      /\ phase = "idle"
      /\ exit' = ExitCode
      /\ UNCHANGED <<summary, approved, sent, removed>>
  BY DEF CliInv, MainRuns, Finish, Quit, ProcessGone, RunInv, PhaseMatchesCall
<1>2. ASSUME ExitCode = "0", NEW m \in summary.targets
      PROVE  summary.results[m].status = "verified_deleted" /\ m \in removed \intersect approved
  <2>1. /\ ~summary.error /\ ~summary.canceled
        /\ summary.unsuccess = {} /\ summary.reappeared = {}
    BY <1>2 DEF ExitCode
  <2>2. approved = summary.targets
    BY <1>1, <1>2, <2>1 DEF ReportInv, ReportComplete, Over
  <2>3. m \in summary.succeeded /\ m \in Macs
    BY <1>1, <1>2, <2>1, <2>2 DEF ReportInv, ReportComplete, Over, RunInv, TypeOK
  <2>4. summary.results[m].status = "verified_deleted"
    BY <1>1, <1>2, <2>1, <2>2, <2>3 DEF ReportInv, ReportComplete, Over
  <2>5. m \in removed
    BY <1>1, <2>3, <2>4 DEF ReportInv, ResultsHonest, Success
  <2> QED
    BY <1>2, <2>2, <2>4, <2>5
<1>3. ASSUME NEW m \in Macs, sent[m] > 0
      PROVE  summary.results[m] # NoResult /\ summary.audit # "none"
  BY <1>1, <1>3 DEF ReportInv, ReportComplete, Over
<1> QED
  BY <1>1, <1>2, <1>3 DEF ExitHonest

(* A program that ends before its run has sent nothing. *)
LEMMA NothingSentBefore ==
    ASSUME CliInv, stage \in {"arguments", "passwords"}
    PROVE  \A m \in Macs : sent[m] = 0
BY DEF CliInv, MainRuns, RunInv, OnlyApprovedDeleted, TypeOK

(* The runner's invariants give it while the process runs. *)
LEMMA JustifiedWhileRunning ==
    ASSUME RunInv, ReportInv
    PROVE  DeletesJustified
BY DEF RunInv, ReportInv, ResultsHonest, ReportHonest, DeletesJustified

(* A MAC whose command was on its way when Ctrl+C came has no result, so    *)
(* none becomes wrong when the device removes it.                           *)
LEMMA InterruptJustified ==
    ASSUME CliInv, Interrupt
    PROVE  DeletesJustified'
<1> USE CliConstants
<1>1. /\ RunInv /\ ReportInv
      /\ UNCHANGED <<summary, approved, sent>>
      /\ removed' = removed \union (table \ table')
  BY DEF Interrupt, ProcessGone, CliInv, MainRuns
<1>2. PICK done \in BOOLEAN : (done => call[Main].pc = "send") /\ DeviceExecutes(Main, done)
  BY DEF Interrupt
<1>3. CASE ~done
  <2>1. removed' = removed
    BY <1>1, <1>2, <1>3 DEF DeviceExecutes
  <2> QED
    BY <1>1, <2>1, JustifiedWhileRunning DEF DeletesJustified, AtMostOneDelete,
       OnlyApprovedDeleted, ReportHonest
<1>4. CASE done
  <2>1. call[Main].op = "delete" /\ runLock = Main /\ phase = "deleting"
    BY <1>1, <1>2, <1>4 DEF DeviceExecutes, RunInv, OutsidersOnlyClose, PhaseMatchesCall
  <2>2. summary.results[call[Main].mac] = NoResult
    BY <1>1, <2>1 DEF ReportInv, ResultsSoFar
  <2>3. removed' \subseteq removed \union {call[Main].mac} /\ removed \subseteq removed'
    BY <1>1, <1>2 DEF DeviceExecutes
  <2>4. NoResult.response = "none"
    BY DEF NoResult
  <2>5. ReportHonest'
    BY <1>1, <2>2, <2>3, <2>4, JustifiedWhileRunning DEF DeletesJustified, ReportHonest
  <2> QED
    BY <1>1, <2>5, JustifiedWhileRunning DEF DeletesJustified, AtMostOneDelete,
       OnlyApprovedDeleted
<1> QED
  BY <1>3, <1>4

LEMMA CliInvStep ==
    ASSUME CliInv, [CliNext]_cliVars
    PROVE  CliInv'
<1>1. CASE stage = "ended"
  <2>1. UNCHANGED cliVars
    BY <1>1, EndedStays
  <2> QED
    BY <1>1, <2>1 DEF cliVars, CliInv, MainRuns, ExitHonest, DeletesJustified, AtMostOneDelete,
       OnlyApprovedDeleted, ReportHonest, vars, runnerVars, observations
<1>2. CASE stage' # "ended"
  <2>1. RunInv /\ ReportInv /\ stage # "ended"
    BY <1>2, EndedStays DEF CliInv, MainRuns, cliVars
  <2>2. [Next]_vars
    BY <1>2, MovesAsRunner
  <2>3. RunInv'
    BY <2>1, <2>2, RunInvStep
  <2>4. ReportInv'
    BY <2>1, <2>2, ReportInvStep
  <2>5. exit' = "none" => ExitHonest'
    BY DEF ExitHonest
  <2>6. DeletesJustified'
    BY <2>3, <2>4 DEF RunInv, ReportInv, ResultsHonest, ReportHonest, DeletesJustified
  <2> QED
    BY <1>2, <2>3, <2>4, <2>5, <2>6, RunKindStep DEF CliInv, MainRuns
<1>3. CASE stage # "ended" /\ stage' = "ended"
  <2>1. CASE RejectArguments \/ GiveUp
    <3>1. stage \in {"arguments", "passwords"} /\ exit' # "0" /\ sent' = sent
      BY <2>1 DEF RejectArguments, GiveUp, Quit, vars, observations
    <3>2. \A m \in Macs : sent'[m] = 0
      BY <3>1, NothingSentBefore
    <3>3. DeletesJustified'
      BY <2>1 DEF RejectArguments, GiveUp, vars, runnerVars, observations, CliInv,
         DeletesJustified, AtMostOneDelete, OnlyApprovedDeleted, ReportHonest
    <3> QED
      BY <1>3, <3>1, <3>2, <3>3 DEF CliInv, MainRuns, ExitHonest
  <2>2. CASE Finish
    <3>1. DeletesJustified'
      BY <2>2 DEF Finish, ProcessGone, CliInv, DeletesJustified, AtMostOneDelete,
         OnlyApprovedDeleted, ReportHonest
    <3> QED
      BY <1>3, <2>2, <3>1, FinishHonest DEF CliInv, MainRuns
  <2>3. CASE Interrupt
    BY <1>3, <2>3, InterruptJustified DEF Interrupt, Quit, CliInv, MainRuns, ExitHonest
  <2>4. CASE AskPasswords \/ StartRun \/ AnswerPrompt \/ Work \/ Elsewhere \/ UNCHANGED cliVars
    BY <1>3, <2>4 DEF AskPasswords, StartRun, AnswerPrompt, Work, Elsewhere, cliVars
  <2> QED
    BY <2>1, <2>2, <2>3, <2>4 DEF CliNext
<1> QED
  BY <1>1, <1>2, <1>3

LEMMA CliInvInit ==
    ASSUME CliInit
    PROVE  CliInv
<1>1. RunInv /\ ReportInv
  BY RunInit, ReportInit DEF CliInit
<1> QED
  BY <1>1, JustifiedWhileRunning DEF CliInit, Init, CliInv, MainRuns, ExitHonest

(* Until the program ends, the runner's invariants hold in it: no delete    *)
(* without approval, none twice, an honest report.                          *)
THEOREM CommandLineInvariant == CliSpec => []CliInv
<1>1. CliInit => CliInv
  BY CliInvInit
<1>2. CliInv /\ [CliNext]_cliVars => CliInv'
  BY CliInvStep
<1> QED
  BY <1>1, <1>2, PTL DEF CliSpec

(* main() returns 0 only for a run whose every target was approved, removed *)
(* and found gone; 0 and 1 only when every command sent has its result and  *)
(* a record was attempted.                                                  *)
THEOREM ExitCodeHonest == CliSpec => []ExitHonest
<1>1. CliInv => ExitHonest
  BY DEF CliInv
<1> QED
  BY <1>1, CommandLineInvariant, PTL
(* Ctrl+C included, a process deletes only what its operator approved, each *)
(* MAC at most once, and what it has reported by then stays true.           *)
THEOREM ProcessDeletesJustified == CliSpec => []DeletesJustified
<1>1. CliInv => DeletesJustified
  BY DEF CliInv
<1> QED
  BY <1>1, CommandLineInvariant, PTL
============================================================================
