# Aruba MM Session Cleanup: TLA+ models, checks and proofs

The program logs in to an Aruba Mobility Master over SSH, lists the users of a
role, shows an operator the MAC addresses found, and, once the operator has
approved exactly that list, sends `aaa user delete mac <mac>` for each of them,
looks at the user table again and reports what happened. Deleting the wrong
user, deleting twice or reporting a deletion nobody verified are what must not
happen. This directory models that program from its source, model-checks the
models with TLC and proves the main results with TLAPS.

All paths below are relative to the repository; `src/aruba_mm_cleanup/` is
written as its file names only.

## The system

| Component | State it keeps | Operations | Uses |
|---|---|---|---|
| Session (`session.py`, `connection.py`) | one SSH connection, the settings it was opened for, a re-entrant lock | `run_command` (connect, gates, send, one reconnect), `disconnect` | host keys, the device |
| Cleanup runner (`cleanup.py`, `models.py`) | the run lock; of a run: targets, results, summary | `query_users`, `run_once`, `close_session` | session, output files, callbacks of the front end |
| Output files (`cleanup.py`) | `cleanup_summary.json` in a directory per run, `deletion_history.jsonl` shared by all runs | `write_audit_summary`, `append_history_records` | file system |
| Host keys (`hostkeys.py`) | `known_hosts`, one key per endpoint | probe, `check`, `approve`, `ensure_file` | file system, operator |
| Web console (`web_app.py`, `web_support.py`) | pending request, snapshot or key; operation lock; counters | `/preview`, `/approve-host-key`, `/run`, `/disconnect`, page rendering | runner |
| Desktop GUI (`gui_app.py`) | event queue, running and scheduler flags, cancel and stop events, approval dialogs, table, counters, list of recent deletes | manual run, scheduler, stop, cancel, disconnect, close, load and clear the list | runner, output files |
| Command line (`cli.py`) | how far `main` is | one run with prompts, an exit code | runner |
| Parser (`parser.py`) | none | text of the user table to MACs, with the reason for each row | - |
| Response classifier (`cleanup.py`) | none | text of a delete's answer to deleted, not found, rejected or unknown | - |
| Validation (`validation.py`) | none | host, account, role, port, timeout | - |

How they interact. A front end calls the runner on a thread of its own (an HTTP
handler, a GUI worker or the GUI's scheduler) and hands it callbacks: approve
these targets, approve this key, should I stop, progress. The runner calls the
session for each command; the session calls the host keys when it connects.
`close_session` may be called by another thread than the one that runs: it waits
for the session lock, which is free between two commands. The GUI talks to its
threads through a queue drained every 150 ms. Processes share `known_hosts` and
the output directory, and nothing else.

What is hard here:

- *lost answers*: an exchange may fail after the device did what it was told;
- *reconnects* in the middle of a batch, which must repeat the gates and may
  repeat a query but never a delete;
- *interleavings*: cancellation and closing from other threads, several HTTP
  requests, stale browser pages, events drained late by the GUI;
- *drift*: users leave and join between preview, approval, delete and
  verification;
- *partial failure*: each step of a run and of saving its results can fail, and
  the steps after it still have to happen;
- *several processes* that replace the same files, and kills;
- *text without a grammar*: the user table's columns are guessed from the place of
  MAC-like tokens and of the role.

## The modules

| Module | Models | Interacts |
|---|---|---|
| `MmSession` | the session and the device's user table | extended by `CleanupRun` |
| `ApprovedCleanup` | what a run promises (abstract) | implemented by `CleanupRun` and `Gui`, used by `WebConsole` |
| `CleanupRun` | the runner on top of the session | extends `MmSession`, refines `ApprovedCleanup` |
| `CommandLine` | the command line front end, from its arguments to its exit code | extends `CleanupRun` |
| `OutputStore` | audit directories and the history file, runs of several processes | extended by `HistoryList` |
| `HistoryList` | the GUI's list of recent deletes | extends `OutputStore` |
| `KnownHosts` | the trust store, probe, approval and strict connection | - |
| `WebConsole` | the Web front end and its browser tabs | extends `ApprovedCleanup` |
| `Gui` | the desktop front end: Tk thread, workers, event queue | refines `ApprovedCleanup` |
| `UserTable` | the parser: from lines of the user table to delete targets | - |
| `MC_*` | constants for TLC | |
| `*Proofs` | TLAPS theorems | extend the module of that name |

### MmSession

The variables are the attributes of `MmSession` (`conn` for `_connection`, the
configuration it was opened for, whether it passed the gates), the lock, one
record per thread for the call it is in, and the device: the users in its table.
An action is one handler or one exchange of it: `Acquire` takes the lock,
`Reuse`, `DropChanged` and `Connect` are the branches of `_ensure_connected`,
`DisablePaging` and `VerifyIdentity` the gates, `GateFails` what happens when one
does not pass, `AnswerQuery` and `AnswerDelete` the answers, `RetryOnce` the one
reconnect, `SendFails` a sending that raises, `Return` and `Disconnect` the ends.
When a sending raises the device may have executed the command all the same
(`DeviceExecutes`): an answer can be lost after the user is gone. The device is
taken to answer honestly: "deleted" only if it removed the user, an error only if
it did not. Users join and leave at any time. Device answers are chosen
nondeterministically among what the code tells apart; a text is one of a few kinds.

### CleanupRun and ApprovedCleanup

`CleanupRun` adds the runner's program counter, the approved targets, the results
gathered, the summary and what reached the history. Each action is a piece of
`run_once` between two calls that other threads can interleave with: the query,
the approval, the countdown, each delete, the verification query, and
finalization (close, audit, history, release). All session steps of the run are
steps of `MmSession`, so what is proved there holds here; `UsesSession` states
it. `query_users` is the run that stops after its query. The summary follows the code in
keeping the response status of a result apart from its final status.

`ApprovedCleanup` has three variables and five actions: begin, propose a
snapshot, agree, transmit a command for a MAC of the snapshot not yet
transmitted, end. `KeepsPromise` maps the runner's state to it, `GuiKeepsPromise`
the window's: of all its workers, the one inside a run.

### CommandLine

`stage` is how far `main` is: `RejectArguments`, `AskPasswords`, `GiveUp`,
`StartRun`, then the run, whose steps are those of `CleanupRun` with a runner that
does not keep its session and without cancellation. `AnswerPrompt` is
`approve_targets`: the phrase approves, anything else, end of input and Ctrl+C do
not. `Finish` turns the summary into `ExitCode`. `Interrupt` is Ctrl+C anywhere
but at the prompt: no handler of the run catches `KeyboardInterrupt`, so the
process ends with its connection and locks, possibly after the command on its way
was executed. What happens in the `finally` blocks on the way out is not told
apart from the end of the process. The second thread of the instance only closes
the session, as `CleanupRun` allows any caller; the command line itself has none.

### OutputStore

`_finalize_summary` of several runs that end in one output directory. A run's
own directory is named after its start to the microsecond (`cleanup.py:633`), or
by a fallback that all runs without a usable time share; the model has all its
runs ask for the same name, so they collide more often than real ones. `MakeDir` and `NameTaken` are the search for a free directory name,
`WriteSummary` and `PublishSummary` the temporary file and its renaming,
`LockHistory`, `CopyHistory` and `ReplaceHistory` the rewriting of the history
under `_HISTORY_WRITE_LOCK`, which is a lock per process. `AuditFails` and
`HistoryFails` are the exceptions, `Kill` the end of a process at any point.

### HistoryList

Above these files, the GUI's list. A run of the window that ends queues its
summary; `AppendHistoryRows` handles it. `OpenWindow` and `BrowseOutputDir` read the list
back: `ReadBack` is the history file or, when that is missing or cannot be read,
the audits, one row per result. Both ways, and the summary, make a row's label by
different means (`RowOfRecord`, `RowOfResult`, `HistoryResultLabel`), which is what
`ShownIsStored` compares. `Recent` is the cap on the number of rows, `ClearHistory`
the button, `WindowGone` a close or a kill. The window's runs follow each other,
as `runner_lock` and the queued summary make them; a further run is that of another
runner in the process, as a test of the repository does it
(`tests/test_cleanup.py`, concurrent appends to one history). The
model keeps one output directory and leaves out the time and the error text of a
row. A run whose history could not be written is in the list until it is read
back from a history that lacks it; `ShownIsStored` speaks of the lines both files keep.

### KnownHosts

A user of the module is a thread that connects or that approves a key. `Probe` is
the connection that only takes the key, `Check` the lookup, `Confirm` the
operator's answer (at any later time, in a callback or by another request),
`ApproveLoads`, `Save` and `SaveFails` the two halves of `approve` under the
store's lock, `AlreadyStored` its early ends, `Connect` the second, strict
connection. Servers change their keys whenever they like.

### WebConsole

`pending` is the pending request with its snapshot or key, `op` the POST that
holds the operation lock, `view` what each browser tab last received. Tabs submit
what they show: an old page is as good as a new one. `Refuse` is the 409 answer,
`Show` a GET or a rejected form. The runner is the five actions of
`ApprovedCleanup`; its failures and cancellations are `RunEnds`, its lock is
never contended because the operation lock is held around it.

The panel of a pending key also shows the endpoint (`web_app.py:323`). `Page` leaves it
out, because the POST is compared with the pending observation by fingerprint
alone (`web_app.py:187`): TRUST on a page that showed the same key for another
endpoint approves it for the pending one, in the code as in the model. `TrustedAsShown`
therefore speaks of the key and not of the endpoint it was shown for.

### Gui

The Tk thread is `main`: between two drains (`idle`) the operator may press a
button, a drain takes one event after the other, and a request for approval
opens a modal dialog that the drain waits in. Workers are threads with a program
counter each: a manual run goes once through `TakeLock` to `EndRun`, a scheduler
loop goes round until `LoopHead` finds the stop event set. What they share is as
in the code: `event_queue` (`queue`), `cancel_event`, `scheduler_stop_event`,
`closing`, `runner_lock` and the requests with their done events (`done`, `yes`).
`GiveUp` is the end of `_request_approval` without an answer; the request stays
where it is, in the queue or on the screen.

Of a run the module has what its callbacks make visible: the two queries, the
approval, the loop of deletes with its looks at the flags, the summary. Each of
them may fail. The device's side of the run is `CleanupRun`. Three abstractions
need a reason. Workers take no step between two events of one drain: the handlers
read and write nothing that workers use, so no worker could tell. The dialogs are
modal: no button of the window works while one is open. And a worker whose run
raises is left out, because `run_once` turns every exception into a summary.

`Hasty = FALSE` is a bound on the operator: he starts something only when earlier
workers have ended and their events are drained. With `Hasty = TRUE` he may press
start whenever the buttons let him, which is what the proofs allow.

The cancel button is left out: it is enabled by a countdown of more than zero
seconds (`gui_app.py:1129`), and the settings of the form have none
(`gui_app.py:909`), so no operator can press it, although
`docs/USER_GUIDE_KO.md:24` lists it.

### UserTable

A line is a sequence of tokens, and a token stands for all texts the parser treats
alike: a user's or a radio's MAC, an address, an address of twelve digits (which
`normalize_mac` takes for a MAC), a number, a marker, the role, a word. `Columns`
are the four layouts of the repository's fixtures and of device output, with the
user's name blank, of one or two words, the role's name, the MAC, beginning like
the line of totals or called like the column of types; these are the external part.
The role asked for is the default one. The other roles (`OtherRoles`) are a plain
word, one called like a column title (`vlan`, which stands for `role` too), one called
like a device word (`ap`, also for `bssid` and `essid`), a number and an address:
`validate_role` allows them all. `Decision` is the loop's body: `HasTypeCell` and
`SkipReason`, `TargetIndex` (the four groups of `_target_mac_from_tokens`),
`RoleVerdict` and the check for duplicates. `ReadUserLine` and `ReadOtherLine` take
the lines one by one (`ReadLine`), so `decisions` and `entries` are the two results
of the function. The decisions of all lines of the model were compared with those of
the Python function on 1746 matching texts, with cells two blanks apart, and agree.

Four things the model shows and no property forbids. A row whose address has
twelve digits (`192.168.100.200`) is ambiguous and its user left out, or the
address itself becomes the target. A user whose name is his MAC is left out as
ambiguous. A line whose first word begins with `users` or `total`, say a user called
`users-3` in a table that starts with the name, is taken for a header. So is every
line with a cell that reads `Type` (`parser.py:61-68`), say of a user with that
name; the values below a column of that title decide nothing.

`RoleColumnRespected` says how far the role check goes in the two layouts with the
role two columns right of the MAC, for names of one word. A role that is an ordinary
word is always respected. A role of digits only, one that looks like an address or
a MAC, and `role` or `vlan` count as no role (`parser.py:278-284`), and the row as one
without a role column. So do `ap`, `bssid` and `essid`, but these then mark the row as
a device's (`parser.py:295`), unless the user is called like the role asked for,
whose name is then found first (`parser.py:236`).

## What the runs check

| Run | Bounds | Shows |
|---|---|---|
| `cleanup_run` | 2 threads, 2 configurations, 2 MACs, 1 close per run, 1 s of countdown, session kept or not | gates, reuse, reconnect and the one retry; what is deleted, canceled and reported; release of the session; refinement of `ApprovedCleanup` |
| `command_line` | the main thread and one that closes once, 2 MACs, session not kept | release of the locks, the exit code, end of the program |
| `history_unverified` | 2 threads, 1 MAC | a disagreement, see below |
| `verified_present` | 2 threads, 1 MAC | a disagreement, see below |
| `web_console` | 2 tabs, 2 requests, 2 keys, 2 MACs | which confirmation approves what; the operation lock |
| `web_stale_page` | 2 tabs, 1 request, 1 key, 2 MACs | a disagreement, see below |
| `output_store` | 3 runs of 1 process, 2 of them the window's, 2 names, histories of 1 and 2 lines, a list of 2 rows | audits, history and the list of recent deletes under failures and kills |
| `known_hosts` | 2 threads, 2 endpoints, 2 keys | what gets trusted and connected to |
| `gui` | 2 started workers, 2 runs, 1 MAC, no hasty starts | consent, stop, buttons, totals, end of the workers; refinement of `ApprovedCleanup` |
| `gui_table` | 1 worker, 1 run, 1 MAC | a disagreement, see below |
| `user_table` | 2 users, 2 radios, answers of up to 2 lines | which MACs become targets |
| `user_table_role` | the same, 1 line | a disagreement, see below |

The cfg files hold the exact values. Why the bounds are enough: a violation of
the session's properties needs a second thread between two exchanges of the first
and a reconnect, so a thread that runs and one that closes, under whose calls, the
real ones, TLC checks the session; the proofs are about any callers. Two MACs make a
batch with a first and a last delete, with a difference of content at the same size (the
stale page) and with a partial failure; two tabs and two keys are what a stale
page needs; three runs compete for two directory names, so the search for a name
both moves on and runs out, and their four lines do not fit a list of two rows;
the decision on a line depends on earlier lines only through the MACs selected, so
two lines show what a third would; two workers with two runs are a manual run and a
loop, a loop that goes round twice, or an answer that comes too late and the next
run's request, and one MAC suffices where rows and counts are per MAC. In the
other modules runs follow each other without a bound. The counters that are
capped are that of the closes from outside a run (`MaxCloses`) and those of the
GUI's workers and runs (`MaxStarts`, `MaxRuns`); the proofs hold for every value
of them.

Deadlock is checked except in `output_store`, `user_table` and `command_line`:
the given runs end once, the answer has a last line, and the program stops.

The properties, by the question they answer:

- *What is a target?* `EachMacOnce`, `NoRadioSelected`, `RoleColumnRespected`,
  `PlainUsersFound`.
- *What is deleted?* `SendsBounded`, `OnlyApprovedDeleted`, `CancelBoundsDeletes`,
  `KeepsPromise`, `GuiKeepsPromise`, `ApprovedIsOffered`, `ConsentIsOwn`, `StopHolds`.
- *On which connection?* `CommandsGated`, `OnlyVerifiedIsKept`,
  `ConnectionAccounted`, `SessionReleased`, `PeerIsPinned`.
- *What is trusted?* `StoredIsConfirmed`, `StoredKeyStays`, `TrustedAsShown`.
- *What is reported?* `ReportHonest`, `EveryDeleteReported`, `ReportConsistent`,
  `ExitHonest`, `AuditIsOwn`, `HistoryWhole`, `HistoryGrows`, `ShownIsStored`,
  `CountersExact`.
- *What can the operator do next?* `QuietMeansReady`, `LoopHasItsControls`.
- *Does it end?* `LockReleased`, `ProgramEnds`, `OperationEnds`, `SavingEnds`,
  `ApprovalEnds`, `WorkersEnd`.

Each module's operators named `Buggy...` are plausible mistakes in the definition
they stand before. They are part of no specification; each is there to show that
the property named for it would notice.

### Fairness

Liveness is checked under fairness of the program's own steps, never of the
operator, the device's users or the other processes. An exchange with the device
ends because every one has a timeout (`read_timeout`, `conn_timeout`), so weak
fairness of a call's steps is justified; a thread that may take a free lock takes
it. Where a lock is contended again and again (`KnownHosts`) the approval steps
get strong fairness: each holder keeps the lock for one file write only. In
`OutputStore` weak fairness is enough, as each run takes the lock once; the list
adds no obligation, for nothing makes the operator or the Tk thread act. In
`CommandLine` nothing makes the operator answer for the targets, so `ProgramEnds`
allows the program to stay at that prompt and nowhere else; the passwords are
asked before the run it speaks of, and the prompt for a new host key is taken as
part of connecting. In `Gui` the deadline is in the model: `WorkersEnd`
holds although nothing makes the operator answer or a drain begin. A drain that has
begun goes on to its end or to a dialog, and weak fairness of `TakeLock` is enough
because each worker holds the lock once per run and the runs are bounded.

### Disagreements with the documentation

- `history_unverified`: a run canceled after a delete, or whose verification
  query fails, still writes `삭제 완료` (deleted) to the history (`cleanup.py:875`),
  although `CHANGELOG.md:34` and `README.md:121-123` reserve success for verified
  MACs.
- `verified_present`: an error text that answers the verification query is not
  recognised (`cleanup.py:112` checks only for pager prompts) and reads as an
  empty table, so a user that came back counts as verified deleted
  (`README.md:121`).
- `web_stale_page`: a page with an older snapshot of the same size approves the
  pending one (`web_app.py:200`), although the operator is to confirm all MACs
  shown (`docs/USER_GUIDE_KO.md:12`). The run still deletes only what the latest
  preview offered, which `ApprovedIsOffered` shows.
- `gui_table`: the verification query's rows replace those of the run
  (`gui_app.py:1112`), so a failed or unclear delete is no longer in the result
  table (`docs/USER_GUIDE_KO.md:36`); the history list keeps it.

- `user_table_role`: a role is looked for only two columns right of the MAC. In a
  row with a blank user name, or in the layout of
  `tests/fixtures/aruba_global_user_table_mixed_reasoned.txt` with the role next to
  the MAC, that column holds something else, and a role of digits, one like an address
or called like a column title, is taken for none (`parser.py:278-284`); the row counts as one without a role
  column (`parser.py:238`), and a user of another role is selected; the comment at
  `parser.py:108` says the check keeps such rows from being deleted. The operator
  still sees and approves the list.

Three more are known and have no run of their own. Two processes on one output
directory replace the history by copies of it and lose each other's lines
(`cleanup.py:604`), although the history accumulates (`README.md:190`): with the
runs in two processes `HistoryGrows` fails. Two processes that approve a host
key at once remove or replace each other's stored key (`hostkeys.py:75`): with two
elements in `Stores`, `StoredKeyStays` fails. And with `Hasty = TRUE`,
`LoopHasItsControls` fails: a start within 150 ms of a stop meets the old loop's
`scheduler_stopped`, which takes the new loop's stop button away and lets manual
runs start while it waits (`gui_app.py:966`; `docs/USER_GUIDE_KO.md:54` says they
cannot), and clears the stop event an old loop may not have seen yet
(`gui_app.py:578`, `:613`). `CountersExact` fails then as well: a loop stopped before
its cycle began leaves `running`, a `summary` and `running` again in the
queue; a manual start before they are drained has its run taken for one already
counted (`gui_app.py:1253`, `:1410`), and its targets and deletes are missing from
the totals. The window is small: while a run is on, the start buttons are off, and a
waiting loop ends at once.

## What is proved

The theorems hold for every value of the constants that satisfies the modules'
named assumptions (`SessionConstants`, `RunConstants`, ...: the values that stand for
nothing are no values, bounds are natural numbers, each process has its threads):
any number of threads, MACs, configurations, runs, processes, servers, browser tabs
and lines. Every safety invariant and every action property that a passing run
checks is stated by a theorem, under the specification of that run. Three hypotheses
appear, each named in the theorem that needs it and each needed: `OneLock` (one
process on an output directory), `OneStore` (one process on `known_hosts`) and
`~Hasty` (nothing is started in the GUI before earlier events are drained); the
disagreements above are what happens without them.

**Session** (`MmSessionProofs`). The inductive invariant `SessionInv` joins the
type invariant and the safety invariants with: a call past the connection stage
has a connection, opened for its own configuration, which has passed the gates
unless the call is at a gate now (`CallFindsConnection`); how often a call has sent
its command at each of its stages (`SendsSoFar`); which replies fit which call
(`AnswersFit`). None of the safety properties is inductive alone: that commands are gated
(`Gated`), for instance, needs that no other thread closes or replaces the
connection while the lock is held (`Exclusive`), which needs in turn that every
step past `Acquire` belongs to the holder. From it: `SessionTypes`, `Exclusive`,
`NoLeak`, `KeptIsVerified`, `DeleteSentOnce`, `Gated`.

**Runner** (`CleanupRunProofs`). `RunnerUsesSession` shows that every step of the
runner is a step or a stutter of `MmSession`, so the session's invariant holds
under it without a second proof, and with it the session's properties
(`RunKeepsSession`, `RunIsGated`). `RunInv` adds: other threads only close
(`OutsidersOnlyClose`); the runner's phase and the call it has open fit
(`PhaseMatchesCall`); a MAC the loop still has to reach was never sent, any other
at most once (`SentSoFar`); the loop is within the approved snapshot
(`LoopWithinApproval`). From it: `RunTypes`, `DeletedOnce`,
`ApprovedOnly`, `CancelTakesHold` (with `CancelSoFar`, which counts what was sent since the request) and `RunKeepsPromise`,
the refinement of `ApprovedCleanup`: the initial state maps to its initial state
and each of the runner's actions to one of its actions or to a stutter.

What the summary says speaks of a finished run, so it says nothing of the states
before. `ReportInv` says what is known of the report at each place: no result yet
for a MAC the loop has not reached or whose command is on its way (`ResultsSoFar`),
a result tells what the device did (`ResultsHonest`), each approved MAC is to come,
under way or has its result (`BatchAccounted`), and the sets of a finished summary
agree (`ReportComplete`). From it: `HonestReport`, `NoDeleteUnreported`,
`ConsistentReport`. `NoSessionLeftBehind` rests on `ReleasedSoFar`: once the run's
own close has returned, nobody connects until the next run.

**Command line** (`CommandLineProofs`). Until the process ends, its steps are the
runner's or leave the runner alone (`MovesAsRunner`), so `RunInv` and `ReportInv` hold
(`MainRuns`). They break when Ctrl+C ends the process inside a run. What has to
survive that is kept apart (`DeletesJustified`: at most one delete per MAC, only of
approved ones, and an honest report), and `InterruptJustified` shows that it does,
although the device may still execute the command on its way. From `CliInv`:
`ExitCodeHonest`, `ProcessDeletesJustified`.

**Output files** (`OutputStoreProofs`). The list's steps are steps of the
files or leave them alone (`ListUsesFiles`), so each theorem on the files holds with
and without the window. `AuditsAreOwn` and `HistoryIsWhole` hold
for any number of processes. The first needs that a directory belongs to the run
that made it from `mkdir` on and that the run reports nothing before publishing;
the second that every temporary copy is made of whole runs as well (lemma
`AppendWhole`: a whole history and one run's lines are a whole history).
`HistoryOnlyGrows` assumes `OneLock`: then whoever copies holds the
lock and the history is still what was copied.

**History list** (same module). `ListAlwaysTrue` is about three orders that have to be one: that of the
rows shown, of the lines in the history and of the audit directories. `StoreInv` says
that directories are taken in the order of their names (`DirsInOrder`), that the
window's runs take theirs one after the other (`OneAfterTheOther`), that the history has
each line once and the lines of audited runs in the order of the directories
(`HistoryInOrder`), and that what the list lacks of the stored lines of finished runs is
their oldest part, missing because of the cap or of the clear button (`ListInv`). It
assumes `OneLock`, because a line that another process loses and the list still shows
would break the last. That the
concatenation of the audits' rows is their concatenation, whatever their number, is
an induction over a recursive definition, which cannot be cited here; `FlattenIsJoin`
goes around it with a least counterexample (`NatLeast`, from the library's theorem on
well-founded relations).

**Host keys** (`KnownHostsProofs`). `OnlyConfirmed` holds for any number of
processes: what is loaded, what is saved and what is stored were all confirmed.
`Pinned` and `KeysStay` assume `OneStore`: the saver is alone, its copy is the
file and the endpoint was unknown.

**Web console** (`WebConsoleProofs`). `WebInv`: the runner works exactly while a POST
that uses it does, and a preview never gets to asking (`RunnerFollowsPost`); a
pending snapshot is the latest offer and a pending key waits for an endpoint
without one (`PendingIsOffered`, `PendingKeyIsNew`); a run has consumed the offer it
works from (`RunHoldsOffer`) and deletes from nothing else (`DeletesAsPreviewed`).
From it: `WebTypes`, `RunDeletesPreview`, `OfferedOnce`, `KeysTrustedAsShown`. They hold
for stale pages too, since what a run deletes is taken from `pending` and not from the
page.

**Desktop GUI** (`GuiProofs`). `ControlInv` joins the types of what workers and the
Tk thread share with: the lock is held exactly by the worker inside a run
(`LockCoversRun`); a worker past its approval has a yes to its own request
(`ConsentIsOwn`); a stop that no start has taken back is still set (`StopIsSet`).
The last is about the stop event and not the cancel event, which the loop clears.
The consent needs that a worker gets a new number only outside runs. From it:
`ConsentIsOwnAlways`, `RunsExclude` and `StopHoldsAlways`, the last an action
property: the only step that leads to a delete looks at the stop event first. They
hold with hasty starts as well, and so do `GuiTypes` and `ButtonsAlwaysFollow`.

`WorkersKeepPromise` is the refinement of `ApprovedCleanup` by the window. Its
variables are read off the one worker that holds the lock (`Stage`, `Snapshot`,
`Transmitted`); the invariant `PromiseInv` adds to `ControlInv` that a worker's
record of its run fits the point it is at (`RunsFit`). A step of a worker
outside a run changes nothing that the mapping reads, one inside a run is a step of
its run alone, and the lock passes only through the state between runs.

What the window shows lags behind by the queue's content, so an invariant on it has to
say what the screen *will* show. `Leads` does: a function gives the screen after each
queued event, from the one there is to a last one. `WindowInv` says that this last screen is
the one that goes with the worker's place (`ScreenInv`, `Expected`): handling an
event moves the beginning, enqueuing one the end. With `OneWorker`, `LoopShown`
and `ButtonsFollow` it gives `CountersAlwaysExact` and `LoopAlwaysControllable`. They
assume `~Hasty`, without which both fail (see the disagreements).
`QuietWindowReady` needs no such hypothesis: `QuietInv` asks only of the queue's
last word on a run, and of a stopped loop's farewell, that a worker stands behind
them (`RunShown`, `LoopKnown`).

**User table** (`UserTableProofs`). For an answer of any length, any users and any
radios. `Shape` says what all users' lines have in common, whatever the layout and the
name: the user's MAC at one place, the radio's right of it and of the role, nothing else that
is no plain token. `UserShape` shows that each layout has it, `ShapeIsSafe` that the
parser's four groups then never lead to the radio. `PlainFound` follows them in the
layouts `PlainUsersFound` speaks of. For `RoleColumnRespected`, `SecondIsTarget` shows
that a line with the user's MAC in its second column has that target or none,
`GuestColumn` that a role which can be one then decides, `DeviceColumn` that a role called
like a device leaves the user alone where the asked role's name is not in the line;
`OtherRoleIgnored` puts the three together. `TableInv` joins what is
known of each line to: the entries are the
selected lines' MACs in their order (`EntryOrder`, with the order as a witness), each once
(`EntriesApart`). From it: `EachMacAlwaysOnce`, `NoRadioEverSelected`,
`RoleColumnAlwaysRespected`, `PlainUsersAlwaysFound`.

## What is only model-checked

Liveness: `LockReleased`, `ProgramEnds`, `OperationEnds`, `SavingEnds`, `ApprovalEnds`
and `WorkersEnd`. The prover does not reason about ENABLED, and so not about what
weak fairness grants.

## What is not modelled

- *The characters of device texts*: of the parser, the values of the Type
  column, the name and address of an entry and the handlers for strings that raise; the response
  classifier and validation as functions of text. In the models of the runner a
  query answers with a set of MACs and a delete with a verdict. The classifier looks
  for words anywhere in the answer (`cleanup.py:666-705`), so a sentence that denies a
  success in words of its own can be read as one; the models assume that none is,
  and the verification query is what guards the report when it happens.
- *The Web console's* Host and CSRF checks, form parsing, counters, and the
  shutdown of its server, which closes the session under a run that daemon
  threads may still be in.
- *The GUI's* input form, log, timer and copy notice, and the failure of a widget
  call, which the code ignores everywhere; several output directories.
- *The command line's* printing.
- *The runner without connection safety*, an option only tests use.
- *Launchers, packaging, release tools, CI*.

## Plan

Done: the modules above with their runs, and the proofs of all their safety
properties. What is left, in this order:

1. Lemmas the liveness properties rest on and that need no fairness: that a
   thread holding the session lock has a step to take, and a measure it lowers.
2. The response classifier and validation, as functions of text, if a
   description of the texts is found that is shorter than the code.
