-------------------------------- MODULE Gui --------------------------------
(***************************************************************************)
(* The desktop application of gui_app.py: the Tk thread, the workers it    *)
(* starts and what they share.                                             *)
(*                                                                         *)
(* A manual run or a scheduler loop is a thread of its own.  It reports by *)
(* putting events on event_queue, which the Tk thread drains every 150 ms, *)
(* and it obeys two events, cancel_event and scheduler_stop_event, that    *)
(* the Tk thread sets and clears.  To have something approved a worker     *)
(* queues a request and waits for it; the Tk thread shows the dialog when  *)
(* it drains the request, maybe long after the worker gave up.             *)
(*                                                                         *)
(* What a run of the runner does with the device is CleanupRun; here it is *)
(* what its callbacks see: the queries, the delete calls, the summary.     *)
(* Texts, timers, the log and the history list are left out; so is         *)
(* cancel_current_delete, whose button is enabled by a countdown of more   *)
(* than zero seconds (1129) while _read_inputs sets the delay to 0 (909).  *)
(***************************************************************************)
EXTENDS Naturals, Sequences, FiniteSets

CONSTANTS
    Macs,       \* the MACs of the users
    MaxStarts,  \* bound: workers the operator starts
    MaxRuns,    \* bound: runs all these workers begin
    Hasty       \* bound: the operator may press start while an earlier worker
                \* lives or an event of it is queued

ASSUME GuiConstants ==
    /\ IsFiniteSet(Macs)
    /\ MaxStarts \in Nat
    /\ MaxRuns \in Nat
    /\ Hasty \in BOOLEAN

Threads  == 1 .. MaxStarts
NoThread == 0

(* The Tk thread. *)
VARIABLES
    main,              \* "idle", "drain" or "dialog": what it does
    dialog,            \* the request whose dialog is open, or NoRequest
    isRunning,         \* is_running
    schedulerRunning,  \* scheduler_running
    startButtons,      \* manual_button and schedule_button are normal
    stopButton,        \* stop_schedule_button is normal
    table,             \* status of the row of each MAC, "none": no row
    queriedTotal,      \* cumulative_queried_count
    deletedTotal,      \* cumulative_deleted_count
    queryCounted,      \* current_run_query_counted
    deleteCounted      \* current_run_delete_counted

(* What the threads share. *)
VARIABLES
    queue,        \* event_queue
    closing,      \* closing
    cancelEvent,  \* cancel_event
    stopEvent,    \* scheduler_stop_event
    lock,         \* holder of runner_lock, or NoThread
    done,         \* requests whose done event is set
    yes           \* requests whose approved is True

(* The workers. *)
VARIABLES
    starts,    \* threads started so far
    runs,      \* runs begun so far
    job,       \* job[t]: "manual" or "scheduler"
    pc,        \* pc[t]: where thread t is in its code, "off": not alive
    number,    \* number[t]: number of the run thread t is in
    run,       \* run[t]: the run of thread t, as its summary will tell it
    closer     \* session_close_worker is alive: it waits for runner_lock

(* Observations: no action reads them. *)
VARIABLES
    stopped,      \* stop or close was pressed after the last start
    found,        \* MACs all first queries found, counted per run
    gone          \* verified deletes of all completed runs

buttonVars == <<isRunning, schedulerRunning, startButtons, stopButton>>
viewVars   == <<table, queriedTotal, deletedTotal, queryCounted, deleteCounted>>
flagVars   == <<closing, cancelEvent, stopEvent>>
answerVars == <<done, yes>>
workerVars == <<starts, runs, job, pc, number, run>>
countVars  == <<found, gone>>
ghostVars  == <<stopped, countVars>>
vars == <<main, dialog, buttonVars, viewVars, queue, flagVars, lock, answerVars,
          workerVars, closer, ghostVars>>

----------------------------------------------------------------------------
(* Requests, runs and events *)

(* _ApprovalRequest: each is an object of its own. *)
Requests == [number : 1 .. MaxRuns, kind : {"host_key", "targets"}]
NoRequest == [number |-> 0, kind |-> "targets"]

Request(t, k) == [number |-> number[t], kind |-> k]

Responses == {"none", "deleted", "failed", "unknown"}
Runs == [targets  : SUBSET Macs,
         todo     : SUBSET Macs,          \* not reached by the delete loop
         results  : [Macs -> Responses],  \* answers to its delete commands
         again    : SUBSET Macs,          \* reappeared_macs
         counted  : BOOLEAN]              \* no error, not canceled, verified

NewRun == [targets |-> {}, todo |-> {}, results |-> [m \in Macs |-> "none"],
           again |-> {}, counted |-> FALSE]

(* delete_success_count of a summary. *)
Deleted(r) == {m \in Macs : r.results[m] = "deleted"} \ r.again

RowStates == {"none", "target", "deleting", "deleted", "failed", "unknown",
              "seen_again", "canceled"}

Events ==
    [type : {"running"}, on : BOOLEAN] \cup [type : {"query"}, macs : SUBSET Macs]
    \cup [type : {"row"}, mac : Macs, status : RowStates]
    \cup [type : {"reappeared"}, macs : SUBSET Macs]
    \cup [type : {"summary"}, run : Runs] \cup [type : {"ask"}, request : Requests]
    \cup [type : {"delete_canceled", "scheduler_stopped"}]

(* _enqueue_event: nothing is queued once the window is closing. *)
Enqueue(events) == queue' = IF closing THEN queue ELSE queue \o events

Alive(t) == pc[t] # "off"

----------------------------------------------------------------------------
(* The operator's buttons: handlers of the Tk thread between two drains *)

Idle == main = "idle" /\ ~closing

(* No worker is alive and nothing of one is left in the queue. *)
Settled == queue = <<>> /\ \A t \in Threads : ~Alive(t)

(* Mutant of Kept: a run that begins keeps the flags of the last one. *)
BuggyKept(flag, on) == flag

(* _reset_run_counters: a run that begins has counted nothing. *)
Kept(flag, on) == flag /\ ~on

(* Mutant of SetRunning: the buttons follow the run, not the scheduler. *)
BuggySetRunning(on) ==
    /\ isRunning' = on
    /\ startButtons' = ~on
    /\ queryCounted' = Kept(queryCounted, on)
    /\ deleteCounted' = Kept(deleteCounted, on)

(* _set_running *)
SetRunning(on) ==
    /\ isRunning' = on
    /\ startButtons' = ~(on \/ schedulerRunning)
    /\ queryCounted' = Kept(queryCounted, on)
    /\ deleteCounted' = Kept(deleteCounted, on)

StartThread(kind, at) ==
    /\ starts' = starts + 1
    /\ job' = [job EXCEPT ![starts + 1] = kind]
    /\ pc' = [pc EXCEPT ![starts + 1] = at]

(* Thread t begins the next run. *)
NextRun(t) ==
    /\ runs < MaxRuns
    /\ runs' = runs + 1
    /\ number' = [number EXCEPT ![t] = runs + 1]

(* Observation of a start, and its bound. *)
Pressed ==
    /\ Hasty \/ Settled
    /\ stopped' = FALSE
    /\ UNCHANGED countVars

(* start_manual_run; the thread may fail to start. *)
StartManualRun ==
    /\ Idle
    /\ startButtons /\ ~isRunning /\ ~schedulerRunning
    /\ starts < MaxStarts
    /\ cancelEvent' = FALSE
    /\ stopEvent' = FALSE
    /\ queryCounted' = Kept(queryCounted, TRUE)
    /\ deleteCounted' = Kept(deleteCounted, TRUE)
    /\ \/ /\ StartThread("manual", "lock")
          /\ NextRun(starts + 1)
          /\ UNCHANGED run
          /\ isRunning' = TRUE
          /\ startButtons' = FALSE
       \/ UNCHANGED <<workerVars, isRunning, startButtons>>
    /\ Pressed
    /\ UNCHANGED <<main, dialog, schedulerRunning, stopButton, table, queriedTotal,
                   deletedTotal, queue, closing, lock, answerVars, closer>>

(* start_scheduler; when the thread fails to start everything is undone but *)
(* the stop event, which stays set.                                         *)
StartScheduler ==
    /\ Idle
    /\ startButtons /\ ~isRunning /\ ~schedulerRunning
    /\ starts < MaxStarts
    /\ \/ /\ StartThread("scheduler", "loop")
          /\ UNCHANGED <<runs, number, run>>
          /\ stopEvent' = FALSE
          /\ schedulerRunning' = TRUE
          /\ startButtons' = FALSE
          /\ stopButton' = TRUE
       \/ /\ stopEvent' = TRUE
          /\ stopButton' = FALSE
          /\ UNCHANGED <<workerVars, schedulerRunning, startButtons>>
    /\ Pressed
    /\ UNCHANGED <<main, dialog, isRunning, viewVars, queue, closing, cancelEvent,
                   lock, answerVars, closer>>

(* stop_scheduler *)
StopScheduler ==
    /\ Idle /\ stopButton
    /\ stopEvent' = TRUE
    /\ cancelEvent' = TRUE
    /\ schedulerRunning' = FALSE
    /\ startButtons' = ~isRunning
    /\ stopButton' = FALSE
    /\ stopped' = TRUE
    /\ UNCHANGED <<main, dialog, isRunning, viewVars, queue, closing, lock,
                   answerVars, workerVars, closer, countVars>>

(* _start_session_close: one closing thread at a time, and it may fail to   *)
(* start.                                                                   *)
StartSessionClose == closer' \in {TRUE, closer}

(* disconnect_session *)
DisconnectSession ==
    /\ Idle /\ ~isRunning
    /\ StartSessionClose
    /\ UNCHANGED <<main, dialog, buttonVars, viewVars, queue, flagVars, lock,
                   answerVars, workerVars, ghostVars>>

(* on_close: from now on nothing is queued and nothing is drained, so what   *)
(* is queued is dropped here.  After SHUTDOWN_GRACE_MS _destroy_window ends  *)
(* the process, and its threads take no more steps.                          *)
CloseWindow ==
    /\ Idle
    /\ closing' = TRUE
    /\ queue' = <<>>
    /\ stopEvent' = TRUE
    /\ cancelEvent' = TRUE
    /\ StartSessionClose
    /\ stopped' = TRUE
    /\ UNCHANGED <<main, dialog, buttonVars, viewVars, lock, answerVars, workerVars,
                   countVars>>

----------------------------------------------------------------------------
(* _drain_events: one event after the other until the queue is empty *)

CountQuery(n) ==
    /\ queriedTotal' = IF queryCounted THEN queriedTotal ELSE queriedTotal + n
    /\ queryCounted' = TRUE

(* _mark_reappeared_rows *)
Reappeared(macs) == [m \in Macs |-> IF m \in macs THEN "seen_again" ELSE table[m]]

HandleRunning(e) ==
    /\ e.type = "running"
    /\ SetRunning(e.on)
    /\ UNCHANGED <<dialog, schedulerRunning, stopButton, table, queriedTotal,
                   deletedTotal>>

(* query_done: the rows of the table are replaced. *)
HandleQuery(e) ==
    /\ e.type = "query"
    /\ CountQuery(Cardinality(e.macs))
    /\ table' = [m \in Macs |-> IF m \in e.macs THEN "target" ELSE "none"]
    /\ UNCHANGED <<dialog, buttonVars, deletedTotal, deleteCounted>>

(* delete_start, delete_done, delete_error, delete_unknown, reappeared_macs *)
(* and delete_canceled: rows that exist get another status.                 *)
HandleRows(e) ==
    /\ \/ /\ e.type = "row"
          /\ table' = [table EXCEPT ![e.mac] = IF @ = "none" THEN @ ELSE e.status]
       \/ /\ e.type = "reappeared"
          /\ table' = Reappeared(e.macs)
       \/ /\ e.type = "delete_canceled"
          /\ table' = [m \in Macs |-> IF table[m] \in {"target", "deleting"}
                                      THEN "canceled" ELSE table[m]]
    /\ UNCHANGED <<dialog, buttonVars, queriedTotal, deletedTotal, queryCounted,
                   deleteCounted>>

(* _handle_summary *)
HandleSummary(e) ==
    /\ e.type = "summary"
    /\ CountQuery(Cardinality(e.run.targets))
    /\ deletedTotal' = IF deleteCounted \/ ~e.run.counted THEN deletedTotal
                       ELSE deletedTotal + Cardinality(Deleted(e.run))
    /\ deleteCounted' = TRUE
    /\ table' = Reappeared(e.run.again)
    /\ UNCHANGED <<dialog, buttonVars>>

HandleStopped(e) ==
    /\ e.type = "scheduler_stopped"
    /\ schedulerRunning' = FALSE
    /\ startButtons' = ~isRunning
    /\ stopButton' = FALSE
    /\ UNCHANGED <<dialog, isRunning, viewVars>>

(* _handle_approval_request opens a modal dialog; the drain waits in it. *)
HandleRequest(e) ==
    /\ e.type = "ask"
    /\ dialog' = e.request
    /\ UNCHANGED <<buttonVars, viewVars>>

Drain ==
    /\ main \in {"idle", "drain"} /\ ~closing
    /\ queue # <<>>
    /\ LET e == Head(queue)
       IN  /\ \/ HandleRunning(e) \/ HandleQuery(e) \/ HandleRows(e)
              \/ HandleSummary(e) \/ HandleStopped(e) \/ HandleRequest(e)
           /\ main' = IF e.type = "ask" THEN "dialog" ELSE "drain"
    /\ queue' = Tail(queue)
    /\ UNCHANGED <<flagVars, lock, answerVars, workerVars, closer, ghostVars>>

DrainEnds ==
    /\ main = "drain" /\ queue = <<>>
    /\ main' = "idle"
    /\ UNCHANGED <<dialog, buttonVars, viewVars, queue, flagVars, lock, answerVars,
                   workerVars, closer, ghostVars>>

(* The operator ends the dialog: yes, or the exact phrase, approves. *)
AnswerDialog ==
    /\ main = "dialog"
    /\ main' = "drain"
    /\ dialog' = NoRequest
    /\ done' = done \cup {dialog}
    /\ \E approved \in BOOLEAN : yes' = IF approved THEN yes \cup {dialog} ELSE yes
    /\ UNCHANGED <<buttonVars, viewVars, queue, flagVars, lock, workerVars,
                   closer, ghostVars>>

----------------------------------------------------------------------------
(* A worker: _scheduler_loop or _run_once_worker, and _run_summary *)

(* _should_cancel_run *)
ShouldCancel == cancelEvent \/ stopEvent \/ closing

(* What no step of a worker changes. *)
TkUnchanged == UNCHANGED <<main, dialog, buttonVars, viewVars, closing, stopEvent,
                           starts, job, closer, stopped>>

(* Handlers touch nothing a worker reads, so a worker takes no step between  *)
(* two events of a drain; while a dialog is open it does.                    *)
At(t, p) == main # "drain" /\ pc[t] = p
Goto(t, p) == pc' = [pc EXCEPT ![t] = p]

(* A step that only moves on and queues these events. *)
Tell(t, p, events) ==
    /\ Goto(t, p)
    /\ Enqueue(events)
    /\ TkUnchanged
    /\ UNCHANGED <<cancelEvent, answerVars, runs, number>>

(* The head of the loop of _scheduler_loop looks at the stop event. *)
LoopHead(t) ==
    /\ At(t, "loop")
    /\ IF stopEvent THEN Goto(t, "exit") /\ UNCHANGED <<runs, number>>
                    ELSE Goto(t, "cycle") /\ NextRun(t)
    /\ TkUnchanged
    /\ UNCHANGED <<queue, cancelEvent, answerVars, run, lock, countVars>>

(* Mutant of BeginCycle: the next cycle clears the stop request as well. *)
BuggyBeginCycle(t) ==
    /\ At(t, "cycle")
    /\ cancelEvent' = FALSE
    /\ stopEvent' = FALSE
    /\ Goto(t, "lock")
    /\ Enqueue(<<[type |-> "running", on |-> TRUE]>>)
    /\ UNCHANGED <<main, dialog, buttonVars, viewVars, closing, starts, job, closer,
                   stopped, answerVars, runs, number, run, lock,
                   countVars>>

(* A cycle forgets the cancel request of the one before. *)
BeginCycle(t) ==
    /\ At(t, "cycle")
    /\ cancelEvent' = FALSE
    /\ Goto(t, "lock")
    /\ Enqueue(<<[type |-> "running", on |-> TRUE]>>)
    /\ TkUnchanged
    /\ UNCHANGED <<answerVars, runs, number, run, lock, countVars>>

(* with self.runner_lock *)
TakeLock(t) ==
    /\ At(t, "lock") /\ lock = NoThread
    /\ lock' = t
    /\ Tell(t, "connect", <<>>)
    /\ UNCHANGED <<run, countVars>>

(* _confirm_host_key_from_worker, when the key of the device is not known. *)
AskHostKey(t) ==
    /\ At(t, "connect")
    /\ Tell(t, "ask_key", <<[type |-> "ask", request |-> Request(t, "host_key")]>>)
    /\ UNCHANGED <<run, lock, countVars>>

(* Mutant of Approval: any approval so far will do. *)
BuggyApproval(r) == yes # {}

(* _request_approval returns request.approved once its done event is set. *)
Approval(r) == r \in yes

KeyAnswered(t) ==
    /\ At(t, "ask_key")
    /\ Request(t, "host_key") \in done
    /\ Tell(t, IF Approval(Request(t, "host_key")) THEN "query" ELSE "release", <<>>)
    /\ UNCHANGED <<run, lock, countVars>>

(* The connection stands: the key was known, or has just been approved. *)
Connected(t) == At(t, "connect") \/ At(t, "query")

(* Mutant of Query: the loop goes on with the consent of an earlier cycle. *)
BuggyQuery(t) ==
    /\ Connected(t)
    /\ \E macs \in SUBSET Macs :
        /\ run' = [run EXCEPT ![t].targets = macs, ![t].todo = macs,
                              ![t].counted = (macs = {})]
        /\ found' = found + Cardinality(macs)
        /\ Tell(t, IF macs = {} THEN "release"
                   ELSE IF yes = {} THEN "ask_targets" ELSE "countdown",
                <<[type |-> "query", macs |-> macs],
                  [type |-> "ask", request |-> Request(t, "targets")]>>)
    /\ UNCHANGED <<lock, gone>>

(* The first query: its rows, or an error that ends the run. *)
Query(t) ==
    /\ Connected(t)
    /\ \E macs \in SUBSET Macs :
        /\ run' = [run EXCEPT ![t].targets = macs, ![t].todo = macs,
                              ![t].counted = (macs = {})]
        /\ found' = found + Cardinality(macs)
        /\ IF macs = {}
           THEN Tell(t, "release", <<[type |-> "query", macs |-> macs]>>)
           ELSE Tell(t, "ask_targets",
                     <<[type |-> "query", macs |-> macs],
                       [type |-> "ask", request |-> Request(t, "targets")]>>)
    /\ UNCHANGED <<lock, gone>>

QueryFails(t) ==
    /\ Connected(t)
    /\ Tell(t, "release", <<>>)
    /\ UNCHANGED <<run, lock, countVars>>

TargetsAnswered(t) ==
    /\ At(t, "ask_targets")
    /\ Request(t, "targets") \in done
    /\ Tell(t, IF Approval(Request(t, "targets")) THEN "countdown" ELSE "release", <<>>)
    /\ UNCHANGED <<run, lock, countVars>>

(* Mutant of GiveUp: the worker waits until it is answered or canceled. *)
BuggyGiveUp(t) ==
    /\ ShouldCancel
    /\ \/ At(t, "ask_key") /\ Request(t, "host_key") \notin done
       \/ At(t, "ask_targets") /\ Request(t, "targets") \notin done
    /\ Tell(t, "release", <<>>)
    /\ UNCHANGED <<run, lock, countVars>>

(* _request_approval gives up: on cancel, stop or close within 0.1 second, *)
(* after 300 seconds in any case.  The dialog may still be open.           *)
GiveUp(t) ==
    /\ \/ At(t, "ask_key") /\ Request(t, "host_key") \notin done
       \/ At(t, "ask_targets") /\ Request(t, "targets") \notin done
    /\ Tell(t, "release", <<>>)
    /\ UNCHANGED <<run, lock, countVars>>

(* _countdown of no seconds: the flags are looked at once. *)
Countdown(t) ==
    /\ At(t, "countdown")
    /\ IF ShouldCancel THEN Tell(t, "release", <<[type |-> "delete_canceled"]>>)
                       ELSE Tell(t, "delete", <<>>)
    /\ UNCHANGED <<run, lock, countVars>>

(* The head of the delete loop: the next MAC, or the batch ends. *)
DeleteNext(t) ==
    /\ At(t, "delete") /\ run[t].todo # {} /\ ~ShouldCancel
    /\ Tell(t, "send", <<>>)
    /\ UNCHANGED <<run, lock, countVars>>

DeleteLoopEnds(t) ==
    /\ At(t, "delete")
    /\ \/ run[t].todo = {} /\ Tell(t, "check", <<>>)
       \/ /\ run[t].todo # {} /\ ShouldCancel
          /\ Tell(t, "check", <<[type |-> "delete_canceled"]>>)
    /\ UNCHANGED <<run, lock, countVars>>

(* delete_start, the command and the event of its answer. *)
SendDelete(t) ==
    /\ At(t, "send")
    /\ \E mac \in run[t].todo, answer \in Responses \ {"none"} :
        /\ run' = [run EXCEPT ![t].todo = @ \ {mac}, ![t].results[mac] = answer]
        /\ Tell(t, "delete", <<[type |-> "row", mac |-> mac, status |-> "deleting"],
                               [type |-> "row", mac |-> mac, status |-> answer]>>)
    /\ UNCHANGED <<lock, countVars>>

(* A cancel request skips the verification query. *)
CancelBeforeVerify(t) ==
    /\ At(t, "check") /\ ShouldCancel
    /\ Tell(t, "release", <<[type |-> "delete_canceled"]>>)
    /\ UNCHANGED <<run, lock, countVars>>

(* The second query: its rows, or an error. *)
Verify(t) ==
    /\ At(t, "check") /\ ~ShouldCancel
    /\ \E rows \in SUBSET Macs :
        LET again == Deleted(run[t]) \cap rows
        IN  /\ run' = [run EXCEPT ![t].again = again, ![t].counted = TRUE]
            /\ gone' = gone + Cardinality(Deleted(run[t]) \ rows)
            /\ Tell(t, "release",
                    IF again = {} THEN <<[type |-> "query", macs |-> rows]>>
                    ELSE <<[type |-> "query", macs |-> rows],
                           [type |-> "reappeared", macs |-> again]>>)
    /\ UNCHANGED <<lock, found>>

(* Mutant of VerifyFails: the run returns without giving the lock back. *)
BuggyVerifyFails(t) ==
    /\ At(t, "check") /\ ~ShouldCancel
    /\ Tell(t, "report", <<>>)
    /\ UNCHANGED <<run, lock, countVars>>

VerifyFails(t) ==
    /\ At(t, "check") /\ ~ShouldCancel
    /\ Tell(t, "release", <<>>)
    /\ UNCHANGED <<run, lock, countVars>>

(* run_once has returned: the lock is free before the summary is queued. *)
ReleaseLock(t) ==
    /\ At(t, "release")
    /\ lock' = NoThread
    /\ Tell(t, "report", <<>>)
    /\ UNCHANGED <<run, countVars>>

Report(t) ==
    /\ At(t, "report")
    /\ Tell(t, "end", <<[type |-> "summary", run |-> run[t]]>>)
    /\ run' = [run EXCEPT ![t] = NewRun]
    /\ UNCHANGED <<lock, countVars>>

(* Mutant of EndRun: a loop that was stopped ends without the event. *)
BuggyEndRun(t) ==
    /\ At(t, "end")
    /\ Tell(t, IF job[t] = "manual" THEN "off" ELSE "wait",
            IF ShouldCancel THEN <<>> ELSE <<[type |-> "running", on |-> FALSE]>>)
    /\ UNCHANGED <<run, lock, countVars>>

(* The finally clause of both kinds of worker. *)
EndRun(t) ==
    /\ At(t, "end")
    /\ Tell(t, IF job[t] = "manual" THEN "off" ELSE "wait",
            <<[type |-> "running", on |-> FALSE]>>)
    /\ UNCHANGED <<run, lock, countVars>>

(* The wait for the next cycle ends: the interval is over, or stop is set;  *)
(* the head of the loop looks at the stop event once more.                  *)
WaitEnds(t) ==
    /\ At(t, "wait")
    /\ Tell(t, "loop", <<>>)
    /\ UNCHANGED <<run, lock, countVars>>

LoopExits(t) ==
    /\ At(t, "exit")
    /\ Tell(t, "off", <<[type |-> "scheduler_stopped"]>>)
    /\ UNCHANGED <<run, lock, countVars>>

(* _close_runner_session: it waits for a run, and never disturbs one. *)
CloserStep ==
    /\ main # "drain"
    /\ closer /\ lock = NoThread
    /\ closer' = FALSE
    /\ UNCHANGED <<main, dialog, buttonVars, viewVars, queue, flagVars, lock, answerVars,
                   workerVars, ghostVars>>

----------------------------------------------------------------------------
(* Specification *)

GuiInit ==
    /\ main = "idle" /\ dialog = NoRequest
    /\ isRunning = FALSE /\ schedulerRunning = FALSE
    /\ startButtons = TRUE /\ stopButton = FALSE
    /\ table = [m \in Macs |-> "none"]
    /\ queriedTotal = 0 /\ deletedTotal = 0
    /\ queryCounted = FALSE /\ deleteCounted = FALSE
    /\ queue = <<>>
    /\ closing = FALSE /\ cancelEvent = FALSE /\ stopEvent = FALSE
    /\ lock = NoThread
    /\ done = {} /\ yes = {}
    /\ starts = 0 /\ runs = 0
    /\ job = [t \in Threads |-> "manual"]
    /\ pc = [t \in Threads |-> "off"]
    /\ number = [t \in Threads |-> 0]
    /\ run = [t \in Threads |-> NewRun]
    /\ closer = FALSE
    /\ stopped = FALSE
    /\ found = 0 /\ gone = 0

TkStep ==
    \/ StartManualRun \/ StartScheduler \/ StopScheduler
    \/ DisconnectSession \/ CloseWindow
    \/ Drain \/ DrainEnds \/ AnswerDialog

WorkerStep(t) ==
    \/ LoopHead(t) \/ BeginCycle(t) \/ TakeLock(t)
    \/ AskHostKey(t) \/ KeyAnswered(t) \/ Query(t) \/ QueryFails(t)
    \/ TargetsAnswered(t) \/ GiveUp(t)
    \/ Countdown(t) \/ DeleteNext(t) \/ DeleteLoopEnds(t) \/ SendDelete(t)
    \/ CancelBeforeVerify(t) \/ Verify(t) \/ VerifyFails(t)
    \/ ReleaseLock(t) \/ Report(t) \/ EndRun(t) \/ WaitEnds(t) \/ LoopExits(t)

(* The window is closed and its workers have ended. *)
Ended == closing /\ (\A t \in Threads : ~Alive(t)) /\ UNCHANGED vars

GuiNext == TkStep \/ CloserStep \/ Ended \/ \E t \in Threads : WorkerStep(t)

(* Threads run, every call of the runner returns (timeouts), and a waiting   *)
(* thread gets the runner's lock when it stays free.  A drain that has begun *)
(* goes on to its end or to a dialog; nothing is assumed of when a drain     *)
(* begins, and nothing of the operator.                                      *)
GuiFairness ==
    /\ WF_vars(main = "drain" /\ (Drain \/ DrainEnds))
    /\ WF_vars(CloserStep)
    /\ \A t \in Threads : WF_vars(WorkerStep(t))

GuiSpec == GuiInit /\ [][GuiNext]_vars /\ GuiFairness

----------------------------------------------------------------------------
(* Properties *)

InRun  == {"connect", "ask_key", "query", "ask_targets", "countdown", "delete",
           "send", "check", "release"}
Places == InRun \cup {"off", "loop", "cycle", "lock", "report", "end", "wait", "exit"}

(* Types of all variables, and runner_lock is held exactly by the thread    *)
(* that is inside a run of the runner.                                      *)
GuiTypeOK ==
    /\ main \in {"idle", "drain", "dialog"}
    /\ dialog \in Requests \cup {NoRequest}
    /\ {isRunning, schedulerRunning, startButtons, stopButton, queryCounted,
        deleteCounted, closing, cancelEvent, stopEvent, closer, stopped}
            \subseteq BOOLEAN
    /\ table \in [Macs -> RowStates]
    /\ {queriedTotal, deletedTotal, found, gone} \subseteq Nat
    /\ \A i \in DOMAIN queue : queue[i] \in Events
    /\ done \subseteq Requests /\ yes \subseteq done
    /\ starts \in 0 .. MaxStarts
    /\ job \in [Threads -> {"manual", "scheduler"}]
    /\ pc \in [Threads -> Places]
    /\ runs \in 0 .. MaxRuns
    /\ number \in [Threads -> 0 .. MaxRuns]
    /\ run \in [Threads -> Runs]
    /\ lock \in Threads \cup {NoThread}
    /\ \A t \in Threads : pc[t] \in InRun <=> lock = t

(* A run is past its approval, on its way to delete, only if the operator   *)
(* approved its own targets in its own dialog.  A dialog that outlived the  *)
(* run it asked for, because the worker gave up, approves nothing else.     *)
ConsentIsOwn ==
    \A t \in Threads :
        pc[t] \in {"countdown", "delete", "send", "check"} =>
            Request(t, "targets") \in yes

(* The run under the runner's lock, as ApprovedCleanup sees it.             *)
Stage ==
    IF lock = NoThread THEN "idle"
    ELSE CASE pc[lock] \in {"connect", "ask_key", "query"} -> "looking"
           [] pc[lock] = "ask_targets" -> "asking"
           [] pc[lock] \in {"countdown", "delete", "send", "check"} -> "deleting"
           [] OTHER -> "idle"

Snapshot == IF Stage = "idle" THEN {} ELSE run[lock].targets

Transmitted ==
    [m \in Macs |-> IF Stage = "idle" \/ run[lock].results[m] = "none" THEN 0 ELSE 1]

Promise == INSTANCE ApprovedCleanup WITH
    stage <- Stage, snapshot <- Snapshot, transmitted <- Transmitted

(* All workers together do one approved cleanup after the other: the runs   *)
(* of buttons and loops never overlap, each looks and asks before it        *)
(* deletes, and deletes once what it asked about.                           *)
GuiKeepsPromise == Promise!AbstractSpec

(* Once stop or the window's close button is pressed no run begins another  *)
(* delete command, whatever the scheduler loop does to the cancel event     *)
(* meanwhile, until the operator starts something again.                    *)
StopHolds ==
    [][stopped /\ stopped' => \A t \in Threads : pc[t] # "send" => pc'[t] # "send"]_vars

(* When nothing runs and no event is left, the window shows so: the start   *)
(* buttons work and the stop button does not, in whatever order the events  *)
(* of the workers were drained.                                             *)
QuietMeansReady ==
    main = "idle" /\ ~closing /\ Settled =>
        startButtons /\ ~stopButton /\ ~isRunning /\ ~schedulerRunning

(* The totals of the window count the MACs of every run once: those its     *)
(* first query found and those a verification saw gone.                     *)
CountersExact ==
    main = "idle" /\ ~closing /\ Settled =>
        queriedTotal = found /\ deletedTotal = gone

(* A scheduler loop that goes on can be stopped: its stop button works and  *)
(* manual runs are locked out, also while it waits for its next run.        *)
LoopHasItsControls ==
    \A t \in Threads :
        job[t] = "scheduler" /\ Alive(t) /\ ~stopEvent =>
            schedulerRunning /\ stopButton /\ ~startButtons

(* A manual run ends, and a scheduler loop that is told to stop ends unless *)
(* a new start takes the request back, even if the operator leaves a dialog *)
(* open for ever.                                                           *)
WorkersEnd ==
    \A t \in Threads :
        Alive(t) /\ (job[t] = "manual" \/ stopEvent)
            ~> ~Alive(t) \/ (job[t] = "scheduler" /\ ~stopEvent)

(* What the guide says of the table: after a run, a MAC whose delete failed *)
(* or whose outcome is uncertain is shown as such.                          *)
FailuresShown ==
    [][queue # <<>> /\ queue' = Tail(queue) /\ Head(queue).type = "summary" =>
        LET results == Head(queue).run.results
        IN  \A m \in Macs : results[m] \in {"failed", "unknown"} =>
                table'[m] = results[m]]_vars
=============================================================================
