---------------------------- MODULE CleanupRun ----------------------------
(***************************************************************************)
(* MmCleanupRunner of cleanup.py on top of the session of MmSession: one   *)
(* run queries the users of a role, has the snapshot approved, deletes its *)
(* MACs one command each, verifies by a second query and records what      *)
(* happened.  A preview (query_users) is the first query alone.            *)
(*                                                                         *)
(* Threads share the runner; run_once and query_users take its lock        *)
(* without waiting, so one runs at a time and a second is refused (which   *)
(* changes nothing and is not an action).  Any other thread may close the  *)
(* session at any time, also between two commands of a batch, and the      *)
(* operator may cancel at any time.                                        *)
(*                                                                         *)
(* Counts of a summary are kept as the sets they count: the parser lists a *)
(* MAC at most once, so the counts are the cardinalities of these sets.    *)
(***************************************************************************)
EXTENDS MmSession

CONSTANTS
    DeleteDelay,  \* CleanupSettings.delete_delay_seconds
    MaxCloses     \* bound: session closes other threads make in a run

ASSUME RunConstants ==
    /\ DeleteDelay \in Nat
    /\ MaxCloses \in Nat

VARIABLES
    persistent, \* MmCleanupRunner.persistent_session, given once
    runLock,    \* holder of MmCleanupRunner._run_lock, or NoThread
    phase,      \* where the run is in its code
    kind,       \* "run" (run_once) or "preview" (query_users)
    runConfig,  \* the configuration of the run
    ticks,      \* seconds of the countdown that remain
    todo,       \* targets the delete loop has not reached
    summary,    \* CleanupRunSummary of the run
    cancel,     \* what should_cancel answers
    closes      \* closes other threads made in this run (MaxCloses)

(* Observations: what an observer saw in this run; no action reads them. *)
VARIABLES
    approved,     \* the snapshot whose approval callback returned True
    sent,         \* sent[m]: delete commands transmitted for m
    removed,      \* MACs the device removed on a delete command
    lateDeletes,  \* delete commands transmitted after the cancel request
    answered      \* the device's table when it last answered a query

runnerVars   == <<persistent, runLock, phase, kind, runConfig, ticks, todo, summary, cancel,
                  closes>>
observations == <<approved, sent, removed, lateDeletes, answered>>
vars         == <<sessionVars, runnerVars, observations>>

----------------------------------------------------------------------------
(* Results and the summary *)

Statuses == {"none", "deleted", "failed", "unknown", "verified_deleted", "reappeared"}
Labels   == {"none", "deleted", "failed", "check_needed", "seen_again"}

(* DeleteResult: status, response_status and verified_absent. *)
Results == [status   : Statuses,
            response : {"none", "deleted", "failed", "unknown"},
            absent   : {"unknown", "yes", "no"}]

NoResult == [status |-> "none", response |-> "none", absent |-> "unknown"]

(* The result of one delete call: the class of the answer, and "unknown"    *)
(* when the call raised.                                                    *)
DeleteResult(reply) ==
    LET class == IF reply = "raised" THEN "unknown" ELSE reply
    IN  [status |-> class, response |-> class, absent |-> "unknown"]

(* DeleteResult.success. *)
Success(r) == r.status \in {"deleted", "verified_deleted"}

(* Mutant of Verified: an uncertain answer is promoted when the MAC is gone. *)
BuggyVerified(r, mac, rows) ==
    IF mac \in rows
    THEN [r EXCEPT !.status = IF r.response = "deleted" THEN "reappeared" ELSE r.response,
                   !.absent = "no"]
    ELSE [r EXCEPT !.status = "verified_deleted", !.absent = "yes"]

(* _apply_verification on one result, with the rows the second query gave. *)
Verified(r, mac, rows) ==
    [r EXCEPT !.status = IF r.response # "deleted" THEN r.response
                         ELSE IF mac \in rows THEN "reappeared" ELSE "verified_deleted",
              !.absent = IF mac \in rows THEN "no" ELSE "yes"]

(* _history_result_label: the label the deletion history gets. *)
HistoryLabel(r) ==
    CASE r.status = "none"       -> "none"
      [] r.status = "reappeared" -> "seen_again"
      [] r.status = "unknown"    -> "check_needed"
      [] Success(r)              -> "deleted"
      [] OTHER                   -> "failed"

Summaries == [targets    : SUBSET Macs,
              results    : [Macs -> Results],
              succeeded  : SUBSET Macs,     \* delete_success_count
              unsuccess  : SUBSET Macs,     \* delete_failure_count
              remaining  : SUBSET Macs,     \* remaining_count
              reappeared : SUBSET Macs,
              canceled   : BOOLEAN,
              skipped    : BOOLEAN,         \* verification_skipped
              error      : BOOLEAN,
              audit      : {"none", "saved", "failed"},
              history    : [Macs -> Labels]]

EmptySummary == [targets |-> {}, results |-> [m \in Macs |-> NoResult],
                 succeeded |-> {}, unsuccess |-> {}, remaining |-> {},
                 reappeared |-> {}, canceled |-> FALSE, skipped |-> FALSE,
                 error |-> FALSE, audit |-> "none",
                 history |-> [m \in Macs |-> "none"]]

Attempted(results) == {m \in Macs : results[m] # NoResult}

(* _count_delete_results, as the two sets it counts. *)
Counted(s) ==
    LET good == {m \in Attempted(s.results) : Success(s.results[m])}
    IN  [s EXCEPT !.succeeded = good,
                  !.unsuccess = Attempted(s.results) \ good]

----------------------------------------------------------------------------
(* The steps of a run, by the thread that holds the runner's lock *)

At(t, p) == runLock = t /\ phase = p

(* End the body of the run: go on to _finalize_summary. *)
FinishWith(s) ==
    /\ summary' = s
    /\ phase' = "finalize"

Start(t, k, c) ==
    /\ runLock = NoThread
    /\ Invoke(t, "query", NoMac, c)
    /\ runLock' = t
    /\ phase' = "query"
    /\ kind' = k
    /\ runConfig' = c
    /\ summary' = EmptySummary
    /\ cancel' = FALSE
    /\ closes' = 0
    /\ approved' = {}
    /\ sent' = [m \in Macs |-> 0]
    /\ removed' = {}
    /\ lateDeletes' = 0
    /\ answered' = {}
    /\ UNCHANGED <<persistent, ticks, todo>>

(* The first query: an error or paged output ends the run, and so does an   *)
(* empty answer; otherwise its MACs become the plan that is put up for      *)
(* approval.                                                                *)
QueryReturned(t) ==
    /\ At(t, "query")
    /\ Consume(t)
    /\ LET ok == call[t].reply = "rows"
       IN  IF ok /\ kind = "run" /\ call[t].rows # {}
           THEN /\ summary' = [summary EXCEPT !.targets = call[t].rows]
                /\ phase' = "approval"
           ELSE FinishWith([summary EXCEPT !.error = ~ok])
    /\ UNCHANGED <<persistent, runLock, kind, runConfig, ticks, todo, cancel, closes,
                   observations>>

Approve(t) ==
    /\ At(t, "approval")
    /\ approved' = summary.targets
    /\ phase' = "countdown"
    /\ ticks' = DeleteDelay
    /\ UNCHANGED <<sessionVars, persistent, runLock, kind, runConfig, todo, summary,
                   cancel, closes, sent, removed, lateDeletes, answered>>

CanceledBefore == [summary EXCEPT !.canceled = TRUE, !.remaining = summary.targets]

(* Mutant of Deny: the refusal is noted, and the run goes on. *)
BuggyDeny(t) ==
    /\ At(t, "approval")
    /\ summary' = CanceledBefore
    /\ phase' = "countdown"
    /\ ticks' = DeleteDelay
    /\ UNCHANGED <<sessionVars, persistent, runLock, kind, runConfig, todo, cancel,
                   closes, observations>>

(* No callback, one that raised, or one that did not return True. *)
Deny(t) ==
    /\ At(t, "approval")
    /\ FinishWith(CanceledBefore)
    /\ UNCHANGED <<sessionVars, persistent, runLock, kind, runConfig, ticks, todo,
                   cancel, closes, observations>>

(* _countdown: should_cancel is asked each second, and once more at zero. *)
CountdownCanceled(t) ==
    /\ At(t, "countdown")
    /\ cancel
    /\ FinishWith(CanceledBefore)
    /\ UNCHANGED <<sessionVars, persistent, runLock, kind, runConfig, ticks, todo,
                   cancel, closes, observations>>

CountdownTick(t) ==
    /\ At(t, "countdown")
    /\ ~cancel
    /\ ticks > 0
    /\ ticks' = ticks - 1
    /\ UNCHANGED <<sessionVars, persistent, runLock, phase, kind, runConfig, todo,
                   summary, cancel, closes, observations>>

(* Mutant of CountdownDone: the loop works on what the device lists now. *)
BuggyCountdownDone(t) ==
    /\ At(t, "countdown")
    /\ ~cancel
    /\ ticks = 0
    /\ todo' = table
    /\ phase' = "deleting"
    /\ UNCHANGED <<sessionVars, persistent, runLock, kind, runConfig, ticks, summary,
                   cancel, closes, observations>>

CountdownDone(t) ==
    /\ At(t, "countdown")
    /\ ~cancel
    /\ ticks = 0
    /\ todo' = summary.targets
    /\ phase' = "deleting"
    /\ UNCHANGED <<sessionVars, persistent, runLock, kind, runConfig, ticks, summary,
                   cancel, closes, observations>>

(* Mutant of DeleteNext: cancellation is not looked at inside the loop. *)
BuggyDeleteNext(t) ==
    /\ At(t, "deleting")
    /\ \E m \in todo :
          /\ todo' = todo \ {m}
          /\ Invoke(t, "delete", m, runConfig)
    /\ UNCHANGED <<persistent, runLock, phase, kind, runConfig, ticks, summary, cancel,
                   closes, observations>>

(* _delete_macs: ask should_cancel, then send the next MAC's command. *)
DeleteNext(t) ==
    /\ At(t, "deleting")
    /\ ~cancel
    /\ \E m \in todo :
          /\ todo' = todo \ {m}
          /\ Invoke(t, "delete", m, runConfig)
    /\ UNCHANGED <<persistent, runLock, phase, kind, runConfig, ticks, summary, cancel,
                   closes, observations>>

(* Mutant of DeleteReturned: a call that raised leaves no result. *)
BuggyDeleteReturned(t) ==
    /\ At(t, "deleting")
    /\ Consume(t)
    /\ summary' = IF call[t].reply = "raised" THEN summary
                  ELSE [summary EXCEPT !.results[call[t].mac] = DeleteResult(call[t].reply)]
    /\ UNCHANGED <<persistent, runLock, phase, kind, runConfig, ticks, todo, cancel,
                   closes, observations>>

(* Mutant of DeleteReturned: a MAC with an uncertain outcome is tried again. *)
RetryingDeleteReturned(t) ==
    /\ At(t, "deleting")
    /\ Consume(t)
    /\ IF call[t].reply = "raised"
       THEN /\ todo' = todo \union {call[t].mac}
            /\ UNCHANGED summary
       ELSE /\ summary' = [summary EXCEPT !.results[call[t].mac] = DeleteResult(call[t].reply)]
            /\ UNCHANGED todo
    /\ UNCHANGED <<persistent, runLock, phase, kind, runConfig, ticks, cancel, closes,
                   observations>>

(* A failed call does not stop the loop: the next MAC reconnects. *)
DeleteReturned(t) ==
    /\ At(t, "deleting")
    /\ Consume(t)
    /\ summary' = [summary EXCEPT !.results[call[t].mac] = DeleteResult(call[t].reply)]
    /\ UNCHANGED <<persistent, runLock, phase, kind, runConfig, ticks, todo, cancel,
                   closes, observations>>

DeleteLoopEnds(t) ==
    /\ At(t, "deleting")
    /\ call[t].pc = "idle"
    /\ todo = {} \/ cancel
    /\ phase' = "deleted"
    /\ UNCHANGED <<sessionVars, persistent, runLock, kind, runConfig, ticks, todo,
                   summary, cancel, closes, observations>>

(* should_cancel is asked twice between the loop and the verification. *)
CancelNotSeenAfterLoop(t) ==
    /\ At(t, "deleted")
    /\ ~cancel
    /\ phase' = "recheck"
    /\ UNCHANGED <<sessionVars, persistent, runLock, kind, runConfig, ticks, todo,
                   summary, cancel, closes, observations>>

SkipVerification(t) ==
    /\ At(t, "deleted") \/ At(t, "recheck")
    /\ cancel
    /\ LET s == Counted(summary)
       IN  FinishWith([s EXCEPT !.canceled = TRUE, !.skipped = TRUE,
                                !.remaining = s.targets \ s.succeeded])
    /\ UNCHANGED <<sessionVars, persistent, runLock, kind, runConfig, ticks, todo,
                   cancel, closes, observations>>

StartVerification(t) ==
    /\ At(t, "recheck")
    /\ ~cancel
    /\ Invoke(t, "query", NoMac, runConfig)
    /\ phase' = "verify"
    /\ UNCHANGED <<persistent, runLock, kind, runConfig, ticks, todo, summary, cancel,
                   closes, observations>>

(* Mutant of VerificationReturned: counts are taken before verification. *)
BuggyVerificationReturned(t) ==
    /\ At(t, "verify")
    /\ Consume(t)
    /\ LET rows == call[t].rows
           checked == [m \in Macs |-> IF summary.results[m] = NoResult THEN NoResult
                                      ELSE Verified(summary.results[m], m, rows)]
       IN  IF call[t].reply = "rows"
           THEN FinishWith([Counted(summary) EXCEPT
                    !.results = checked,
                    !.remaining = rows,
                    !.reappeared = {m \in Macs : checked[m].status = "reappeared"}])
           ELSE FinishWith([summary EXCEPT !.error = TRUE])
    /\ UNCHANGED <<persistent, runLock, kind, runConfig, ticks, todo, cancel, closes,
                   observations>>

(* The verification query: its rows decide every result; if it fails the    *)
(* results stay as the delete loop left them and no count is taken.         *)
VerificationReturned(t) ==
    /\ At(t, "verify")
    /\ Consume(t)
    /\ LET rows == call[t].rows
           checked == [m \in Macs |-> IF summary.results[m] = NoResult THEN NoResult
                                      ELSE Verified(summary.results[m], m, rows)]
       IN  IF call[t].reply = "rows"
           THEN FinishWith([Counted([summary EXCEPT !.results = checked]) EXCEPT
                    !.remaining = rows,
                    !.reappeared = {m \in Macs : checked[m].status = "reappeared"}])
           ELSE FinishWith([summary EXCEPT !.error = TRUE])
    /\ UNCHANGED <<persistent, runLock, kind, runConfig, ticks, todo, cancel, closes,
                   observations>>

(* _finalize_summary: close the session unless it persists, write the audit *)
(* file, append the history.  A preview only closes.                        *)
Recording == IF kind = "run" THEN "audit" ELSE "release"

(* Mutant of KeepSession: a run that failed skips the close. *)
BuggyKeepSession(t) ==
    /\ At(t, "finalize")
    /\ persistent \/ summary.error
    /\ phase' = Recording
    /\ UNCHANGED <<sessionVars, persistent, runLock, kind, runConfig, ticks, todo,
                   summary, cancel, closes, observations>>

KeepSession(t) ==
    /\ At(t, "finalize")
    /\ persistent
    /\ phase' = Recording
    /\ UNCHANGED <<sessionVars, persistent, runLock, kind, runConfig, ticks, todo,
                   summary, cancel, closes, observations>>

CloseSession(t) ==
    /\ At(t, "finalize")
    /\ ~persistent
    /\ Invoke(t, "close", NoMac, NoConfig)
    /\ phase' = "closing"
    /\ UNCHANGED <<persistent, runLock, kind, runConfig, ticks, todo, summary, cancel,
                   closes, observations>>

SessionClosed(t) ==
    /\ At(t, "closing")
    /\ Consume(t)
    /\ phase' = Recording
    /\ UNCHANGED <<persistent, runLock, kind, runConfig, ticks, todo, summary, cancel,
                   closes, observations>>

WriteAudit(t) ==
    /\ At(t, "audit")
    /\ \E outcome \in {"saved", "failed"} : summary' = [summary EXCEPT !.audit = outcome]
    /\ phase' = "history"
    /\ UNCHANGED <<sessionVars, persistent, runLock, kind, runConfig, ticks, todo,
                   cancel, closes, observations>>

(* A failed append leaves no line of this run. *)
AppendHistory(t) ==
    /\ At(t, "history")
    /\ \E lines \in {[m \in Macs |-> HistoryLabel(summary.results[m])],
                     EmptySummary.history} :
          summary' = [summary EXCEPT !.history = lines]
    /\ phase' = "release"
    /\ UNCHANGED <<sessionVars, persistent, runLock, kind, runConfig, ticks, todo,
                   cancel, closes, observations>>

Release(t) ==
    /\ At(t, "release")
    /\ runLock' = NoThread
    /\ phase' = "idle"
    /\ UNCHANGED <<sessionVars, persistent, kind, runConfig, ticks, todo, summary,
                   cancel, closes, observations>>

RunStep(t) ==
    \/ QueryReturned(t)
    \/ Approve(t)
    \/ Deny(t)
    \/ CountdownCanceled(t)
    \/ CountdownTick(t)
    \/ CountdownDone(t)
    \/ DeleteNext(t)
    \/ DeleteReturned(t)
    \/ DeleteLoopEnds(t)
    \/ CancelNotSeenAfterLoop(t)
    \/ SkipVerification(t)
    \/ StartVerification(t)
    \/ VerificationReturned(t)
    \/ KeepSession(t)
    \/ CloseSession(t)
    \/ SessionClosed(t)
    \/ WriteAudit(t)
    \/ AppendHistory(t)
    \/ Release(t)

----------------------------------------------------------------------------
(* Everything else that moves *)

(* close_session from another thread: a disconnect button, a shutdown. *)
CloseFromOutside(t) ==
    /\ runLock # t
    /\ closes < MaxCloses
    /\ Invoke(t, "close", NoMac, NoConfig)
    /\ closes' = closes + 1
    /\ UNCHANGED <<persistent, runLock, phase, kind, runConfig, ticks, todo, summary,
                   cancel, observations>>

OutsideClosed(t) ==
    /\ runLock # t
    /\ Consume(t)
    /\ UNCHANGED <<runnerVars, observations>>

RequestCancel ==
    /\ runLock # NoThread
    /\ ~cancel
    /\ cancel' = TRUE
    /\ UNCHANGED <<sessionVars, persistent, runLock, phase, kind, runConfig, ticks,
                   todo, summary, closes, observations>>

(* A step of a session call, with what it lets an observer see. *)
Transmits(t) == call'[t].sends > call[t].sends /\ call[t].op = "delete"

CallStep(t) ==
    /\ SessionStep(t)
    /\ sent' = IF Transmits(t) THEN [sent EXCEPT ![call[t].mac] = @ + 1] ELSE sent
    /\ removed' = removed \union (table \ table')
    /\ lateDeletes' = IF Transmits(t) /\ cancel THEN lateDeletes + 1 ELSE lateDeletes
    /\ answered' = IF call'[t].reply = "rows" THEN table ELSE answered
    /\ UNCHANGED <<runnerVars, approved>>

Environment == Churn /\ UNCHANGED <<runnerVars, observations>>

Init ==
    /\ SessionInit
    /\ persistent \in BOOLEAN
    /\ runLock = NoThread
    /\ phase = "idle"
    /\ kind = "preview"
    /\ runConfig = NoConfig
    /\ ticks = 0
    /\ todo = {}
    /\ summary = EmptySummary
    /\ cancel = FALSE
    /\ closes = 0
    /\ approved = {}
    /\ sent = [m \in Macs |-> 0]
    /\ removed = {}
    /\ lateDeletes = 0
    /\ answered = {}

Next ==
    \/ \E t \in Threads :
          \/ \E k \in {"run", "preview"}, c \in Configs : Start(t, k, c)
          \/ RunStep(t)
          \/ CallStep(t)
          \/ CloseFromOutside(t)
          \/ OutsideClosed(t)
    \/ RequestCancel
    \/ Environment

(* A run and the calls it makes go on: every exchange has a timeout, the    *)
(* front ends' approval callbacks return (the GUI's gives up after 300 s).  *)
Fairness == \A t \in Threads : WF_vars(RunStep(t)) /\ WF_vars(CallStep(t))

Spec == Init /\ [][Next]_vars /\ Fairness

----------------------------------------------------------------------------
(* Properties *)

(* Types of the runner's state and of the observations. *)
TypeOK ==
    /\ SessionTypeOK
    /\ persistent \in BOOLEAN
    /\ runLock \in Threads \union {NoThread}
    /\ phase \in {"idle", "query", "approval", "countdown", "deleting", "deleted",
                  "recheck", "verify", "finalize", "closing", "audit", "history",
                  "release"}
    /\ kind \in {"run", "preview"}
    /\ runConfig \in Configs \union {NoConfig}
    /\ ticks \in Nat
    /\ todo \in SUBSET Macs
    /\ summary \in Summaries
    /\ cancel \in BOOLEAN
    /\ closes \in Nat
    /\ approved \in SUBSET Macs
    /\ sent \in [Macs -> Nat]
    /\ removed \in SUBSET Macs
    /\ lateDeletes \in Nat
    /\ answered \in SUBSET Macs

(* No MAC gets a second delete command in a run: not after a lost answer, a *)
(* reconnect, a close from another thread, nor when it reappears.           *)
AtMostOneDelete == \A m \in Macs : sent[m] <= 1

(* Every delete command of a run is for a MAC of the snapshot that was      *)
(* approved in this run; none leaves before an approval or in a preview.    *)
OnlyApprovedDeleted == \A m \in Macs : sent[m] > 0 => m \in approved

(* Once cancellation is requested at most one further delete command leaves *)
(* the program: the one whose check had already passed.                     *)
CancelBoundsDeletes == lateDeletes <= 1

(* No result is surer than what happened: a result of success means the     *)
(* device removed the user on this run's command, a response of failure     *)
(* that it did not.                                                         *)
ReportHonest ==
    \A m \in Macs :
        /\ Success(summary.results[m]) => m \in removed
        /\ summary.results[m].response = "failed" => m \notin removed

(* When a run has ended, each MAC a command was sent for has a result, even *)
(* if its answer was lost; and unless the run was canceled so has every     *)
(* approved MAC: one failed command does not cost the rest of the batch.    *)
EveryDeleteReported ==
    phase \in {"audit", "history", "release", "idle"} =>
        \A m \in Macs :
            sent[m] > 0 \/ (m \in approved /\ ~summary.canceled)
                => summary.results[m] # NoResult

(* A run that was verified reports one consistent story: the counts split   *)
(* the targets, the reappeared MACs are those the device said it deleted    *)
(* and still listed, and success means gone from the verification.          *)
ReportConsistent ==
    (phase \in {"audit", "history", "release"} /\ kind = "run" /\ approved # {}
        /\ ~summary.error /\ ~summary.canceled) =>
      /\ summary.succeeded \intersect summary.unsuccess = {}
      /\ summary.succeeded \union summary.unsuccess = summary.targets
      /\ summary.succeeded \intersect summary.remaining = {}
      /\ summary.reappeared = summary.remaining \intersect
              {m \in Macs : summary.results[m].response = "deleted"}
      /\ \A m \in summary.targets :
              summary.results[m].absent = "no" <=> m \in summary.remaining

(* A runner that does not keep its session leaves no connection behind when *)
(* its run or preview is over, however it ended.                            *)
SessionReleased ==
    ~persistent /\ runLock = NoThread => connection = "none" /\ live = 0

(* The README (section 4) and the change log say only a MAC that a          *)
(* verification query found gone is recorded as deleted.                    *)
HistoryOnlyVerified ==
    \A m \in Macs :
        summary.history[m] = "deleted" => summary.results[m].absent = "yes"

(* ... and that "verified" means the user was not in the device's table     *)
(* when the verification query was answered.                                *)
VerifiedMeansAbsent ==
    phase = "audit" => \A m \in Macs :
        summary.results[m].status = "verified_deleted" => m \notin answered

----------------------------------------------------------------------------
(* The runner and the other threads use the session only through its calls, *)
(* so all that MmSession guarantees for any callers holds in every run.     *)
UsesSession == SessionInit /\ [][SessionNext]_sessionVars

(* What a run promises: ApprovedCleanup under this mapping. *)

StageOf ==
    CASE phase = "query" -> "looking"
      [] phase = "approval" -> "asking"
      [] phase \in {"countdown", "deleting", "deleted", "recheck", "verify"} -> "deleting"
      [] OTHER -> "idle"

Promise == INSTANCE ApprovedCleanup WITH
    stage <- StageOf,
    snapshot <- summary.targets,
    transmitted <- sent

(* A run does nothing the operator did not agree to: every behaviour of the *)
(* runner and the session is one of ApprovedCleanup.                        *)
KeepsPromise == Promise!AbstractSpec
============================================================================
