---------------------------- MODULE OutputStore ----------------------------
(***************************************************************************)
(* What a run leaves in the output directory when it ends, in cleanup.py:  *)
(* write_audit_summary puts cleanup_summary.json into a directory of its   *)
(* own, append_history_records adds a line per deleted MAC to              *)
(* deletion_history.jsonl.  Every run may be killed between two steps, and *)
(* processes (GUI, Web, CLI) may share the directory.                      *)
(*                                                                         *)
(* _HISTORY_WRITE_LOCK is a lock of one process.  The directory of a run   *)
(* is named after its start, to the microsecond, or by a fallback if that  *)
(* is no time; in the model all runs ask for the same name, the worst case *)
(* of both.                                                                *)
(***************************************************************************)
EXTENDS Integers, Sequences

CONSTANTS
    Runs,         \* runs that end in this output directory
    NoRun,
    Processes,
    ProcessOf,    \* ProcessOf[r]: the process r runs in
    Results,      \* Results[r]: how many delete results run r records
    MaxTries      \* directory names _make_unique_summary_run_dir tries

ASSUME OutputConstants ==
    /\ NoRun \notin Runs
    /\ ProcessOf \in [Runs -> Processes]
    /\ Results \in [Runs -> Nat]
    /\ MaxTries \in Nat \ {0}

VARIABLES
    step,      \* step[r]: where run r is in _finalize_summary
    index,     \* index[r]: the directory name r tries, or the one it made
    dirs,      \* dirs[i]: the audit directory of that name
    audited,   \* audited[r]: summary.audit_path is set
    history,   \* the lines of deletion_history.jsonl
    tmp,       \* tmp[r]: the temporary copy of the history r replaces it by
    lock       \* lock[p]: holder of _HISTORY_WRITE_LOCK in process p

outputVars == <<step, index, dirs, audited, history, tmp, lock>>

Steps == {"running", "mkdir", "summary", "publish", "history", "wait", "copy", "replace",
          "ended", "killed"}
Names == 0 .. (MaxTries - 1)
NoDir == [owner |-> NoRun, summary |-> "none"]
Lines == {line \in Runs \X (Nat \ {0}) : line[2] <= Results[line[1]]}

(* The history lines of run r, one for each of its results. *)
NewLines(r) == [i \in 1 .. Results[r] |-> <<r, i>>]

Goto(r, s) == step' = [step EXCEPT ![r] = s]

----------------------------------------------------------------------------
(* The run is over and its summary is to be written. *)
Finalize(r) ==
    /\ step[r] = "running"
    /\ Goto(r, "mkdir")
    /\ UNCHANGED <<index, dirs, audited, history, tmp, lock>>

(* Mutant of MakeDir: an existing directory is taken (exist_ok=True). *)
BuggyMakeDir(r) ==
    /\ step[r] = "mkdir"
    /\ dirs' = [dirs EXCEPT ![index[r]] = [owner |-> r, summary |-> "none"]]
    /\ Goto(r, "summary")
    /\ UNCHANGED <<index, audited, history, tmp, lock>>

(* mkdir(exist_ok=False) of the name being tried. *)
MakeDir(r) ==
    /\ step[r] = "mkdir"
    /\ dirs[index[r]] = NoDir
    /\ dirs' = [dirs EXCEPT ![index[r]] = [owner |-> r, summary |-> "none"]]
    /\ Goto(r, "summary")
    /\ UNCHANGED <<index, audited, history, tmp, lock>>

(* FileExistsError: the next name, and after the last one no audit.         *)
NameTaken(r) ==
    /\ step[r] = "mkdir"
    /\ dirs[index[r]] # NoDir
    /\ IF index[r] + 1 \in Names
       THEN index' = [index EXCEPT ![r] = @ + 1] /\ UNCHANGED step
       ELSE Goto(r, "history") /\ UNCHANGED index
    /\ UNCHANGED <<dirs, audited, history, tmp, lock>>

(* The summary goes to a temporary file first, which then gets its name.    *)
WriteSummary(r) ==
    /\ step[r] = "summary"
    /\ dirs' = [dirs EXCEPT ![index[r]].summary = "partial"]
    /\ Goto(r, "publish")
    /\ UNCHANGED <<index, audited, history, tmp, lock>>

PublishSummary(r) ==
    /\ step[r] = "publish"
    /\ dirs' = [dirs EXCEPT ![index[r]].summary = "whole"]
    /\ audited' = [audited EXCEPT ![r] = TRUE]
    /\ Goto(r, "history")
    /\ UNCHANGED <<index, history, tmp, lock>>

(* Saving fails: the temporary file is removed and the history still gets   *)
(* its lines.                                                               *)
AuditFails(r) ==
    /\ step[r] \in {"mkdir", "summary", "publish"}
    /\ dirs' = IF step[r] = "publish"
               THEN [dirs EXCEPT ![index[r]].summary = "none"]
               ELSE dirs
    /\ Goto(r, "history")
    /\ UNCHANGED <<index, audited, history, tmp, lock>>

(* Without results nothing is recorded; else the lines are made, and wait   *)
(* for the lock of the process.                                             *)
PrepareLines(r) ==
    /\ step[r] = "history"
    /\ Goto(r, IF Results[r] = 0 THEN "ended" ELSE "wait")
    /\ UNCHANGED <<index, dirs, audited, history, tmp, lock>>

(* Mutant of LockHistory: nobody waits for the lock. *)
BuggyLockHistory(r) ==
    /\ step[r] = "wait"
    /\ lock' = [lock EXCEPT ![ProcessOf[r]] = r]
    /\ Goto(r, "copy")
    /\ UNCHANGED <<index, dirs, audited, history, tmp>>

LockHistory(r) ==
    /\ step[r] = "wait"
    /\ lock[ProcessOf[r]] = NoRun
    /\ lock' = [lock EXCEPT ![ProcessOf[r]] = r]
    /\ Goto(r, "copy")
    /\ UNCHANGED <<index, dirs, audited, history, tmp>>

(* Mutant of CopyHistory: lines are written to the history itself. *)
BuggyCopyHistory(r) ==
    /\ step[r] = "copy"
    /\ tmp' = [tmp EXCEPT ![r] = history \o NewLines(r)]
    /\ history' = Append(history, <<r, 1>>)
    /\ Goto(r, "replace")
    /\ UNCHANGED <<index, dirs, audited, lock>>

(* The history is copied to a temporary file and the lines are added to it. *)
CopyHistory(r) ==
    /\ step[r] = "copy"
    /\ tmp' = [tmp EXCEPT ![r] = history \o NewLines(r)]
    /\ Goto(r, "replace")
    /\ UNCHANGED <<index, dirs, audited, history, lock>>

ReplaceHistory(r) ==
    /\ step[r] = "replace"
    /\ history' = tmp[r]
    /\ tmp' = [tmp EXCEPT ![r] = <<>>]
    /\ lock' = [lock EXCEPT ![ProcessOf[r]] = NoRun]
    /\ Goto(r, "ended")
    /\ UNCHANGED <<index, dirs, audited>>

(* Mutant of HistoryFails: the lock is kept. *)
BuggyHistoryFails(r) ==
    /\ step[r] \in {"history", "copy", "replace"}
    /\ tmp' = [tmp EXCEPT ![r] = <<>>]
    /\ Goto(r, "ended")
    /\ UNCHANGED <<index, dirs, audited, history, lock>>

(* A disk error, before the lock is taken or under it: the temporary file   *)
(* is removed and the lock given back.                                      *)
HistoryFails(r) ==
    /\ step[r] \in {"history", "copy", "replace"}
    /\ Results[r] # 0
    /\ tmp' = [tmp EXCEPT ![r] = <<>>]
    /\ lock' = IF step[r] = "history" THEN lock
               ELSE [lock EXCEPT ![ProcessOf[r]] = NoRun]
    /\ Goto(r, "ended")
    /\ UNCHANGED <<index, dirs, audited, history>>

(* The process is killed: its runs stop where they are, and its lock goes.  *)
Kill(p) ==
    /\ step' = [r \in Runs |->
                  IF ProcessOf[r] = p /\ step[r] \notin {"running", "ended"}
                  THEN "killed" ELSE step[r]]
    /\ lock' = [lock EXCEPT ![p] = NoRun]
    /\ UNCHANGED <<index, dirs, audited, history, tmp>>

OutputInit ==
    /\ step = [r \in Runs |-> "running"]
    /\ index = [r \in Runs |-> 0]
    /\ dirs = [i \in Names |-> NoDir]
    /\ audited = [r \in Runs |-> FALSE]
    /\ history = <<>>
    /\ tmp = [r \in Runs |-> <<>>]
    /\ lock = [p \in Processes |-> NoRun]

SaveStep(r) ==
    \/ MakeDir(r) \/ NameTaken(r) \/ WriteSummary(r) \/ PublishSummary(r)
    \/ AuditFails(r)
    \/ PrepareLines(r) \/ LockHistory(r) \/ CopyHistory(r) \/ ReplaceHistory(r)
    \/ HistoryFails(r)

OutputNext ==
    \/ \E r \in Runs : Finalize(r) \/ SaveStep(r)
    \/ \E p \in Processes : Kill(p)

(* A thread that may run does.  Weak fairness is enough for a run that      *)
(* waits for the lock: every other run takes it at most once.               *)
OutputSpec ==
    /\ OutputInit
    /\ [][OutputNext]_outputVars
    /\ \A r \in Runs : WF_outputVars(SaveStep(r))

----------------------------------------------------------------------------
(* Properties *)

(* Types of the files and of the runs' progress. *)
OutputTypeOK ==
    /\ step \in [Runs -> Steps]
    /\ index \in [Runs -> Names]
    /\ dirs \in [Names -> [owner : Runs \union {NoRun},
                           summary : {"none", "partial", "whole"}]]
    /\ audited \in [Runs -> BOOLEAN]
    /\ history \in Seq(Lines)
    /\ tmp \in [Runs -> Seq(Lines)]
    /\ lock \in [Processes -> Runs \union {NoRun}]

(* The audit path a run reports leads to its own summary, in full, and stays *)
(* so: runs of the same name never write into one directory.                *)
AuditIsOwn ==
    \A r \in Runs : audited[r] => dirs[index[r]] = [owner |-> r, summary |-> "whole"]

(* h is made of runs' lines, all of a run's next to each other, in order.   *)
Whole(h) ==
    \A i \in 1 .. Len(h) :
        LET r == h[i][1]
            before == i - h[i][2]
        IN  /\ before >= 0
            /\ before + Results[r] <= Len(h)
            /\ \A k \in 1 .. Results[r] : h[before + k] = <<r, k>>

(* A kill never leaves a part of a run's lines in the history, not even     *)
(* when processes overwrite each other's: it holds all of them or none.     *)
HistoryWhole == Whole(history)

(* The runs of one process use one lock. *)
OneLock == \A q, r \in Runs : ProcessOf[q] = ProcessOf[r]

(* deletion_history.jsonl only grows: a line once written is never lost.    *)
Grows ==
    /\ Len(history) <= Len(history')
    /\ \A i \in 1 .. Len(history) : history'[i] = history[i]

HistoryGrows == [][Grows]_outputVars

(* A run that began to save its summary ends, unless its process is killed: *)
(* no failing save keeps the lock from the runs that wait for it.           *)
SavingEnds ==
    \A r \in Runs : step[r] = "mkdir" ~> step[r] \in {"ended", "killed"}
============================================================================
