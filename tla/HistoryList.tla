---------------------------- MODULE HistoryList ----------------------------
(***************************************************************************)
(* The list of recent deletes in the window of gui_app.py, above the files *)
(* of OutputStore.  A run that ends queues its summary; when the Tk thread *)
(* handles it, a row per delete result is added to the list.  When the     *)
(* window opens, or the output directory is chosen again, the list is read *)
(* back: from deletion_history.jsonl or, without it, from the audit files. *)
(*                                                                         *)
(* One output directory; the time and the error text of a row are left out.*)
(***************************************************************************)
EXTENDS OutputStore, FiniteSets, SequencesExt

CONSTANTS
    Window,    \* the process of the window
    OwnRuns,   \* the runs the window starts, one at a time
    Outcome,   \* Outcome[r][i]: status of the i-th delete result of r
    MaxRows    \* MAX_HISTORY_ROWS

Statuses == {"deleted", "verified_deleted", "failed", "unknown", "reappeared"}

ASSUME ListConstants ==
    /\ Window \in Processes
    /\ OwnRuns \subseteq {r \in Runs : ProcessOf[r] = Window}
    /\ \A r \in Runs : Outcome[r] \in Seq(Statuses) /\ Len(Outcome[r]) = Results[r]
    /\ MaxRows \in Nat \ {0}

VARIABLES
    open,       \* the window is there
    summaries,  \* own runs whose summary is queued
    shown,      \* the rows of the list, oldest first
    cleared     \* observation: the list was emptied after it was last read

listVars == <<open, summaries, shown, cleared>>

----------------------------------------------------------------------------
(* Rows *)

Succeeded(status) == status \in {"deleted", "verified_deleted"}

(* _history_result_label: what the file says of a result.                   *)
HistoryResultLabel(status) ==
    CASE status = "reappeared" -> "seen again"
      [] status = "unknown"    -> "to be checked"
      [] Succeeded(status)     -> "deleted"
      [] OTHER                 -> "failed"

(* _history_row_display: what the window says of a record; summaries and    *)
(* audit files have no result text.                                         *)
HistoryRowDisplay(status, result) ==
    CASE status = "reappeared" -> "seen again"
      [] result # ""           -> result
      [] status = "unknown"    -> "to be checked"
      [] Succeeded(status)     -> "deleted"
      [] OTHER                 -> "failed"

StatusOf(line) == Outcome[line[1]][line[2]]

RowOfRecord(line) ==
    [line |-> line, label |-> HistoryRowDisplay(StatusOf(line), HistoryResultLabel(StatusOf(line)))]
RowOfResult(line) ==
    [line |-> line, label |-> HistoryRowDisplay(StatusOf(line), "")]

RowsOfRun(r) == [i \in 1 .. Results[r] |-> RowOfResult(<<r, i>>)]

(* The last MaxRows of a sequence of rows. *)
Recent(rows) == SubSeq(rows, IF Len(rows) > MaxRows THEN Len(rows) - MaxRows + 1 ELSE 1, Len(rows))

(* _read_audit_history_records: complete summaries, in the order of their   *)
(* directories.                                                             *)
AuditRows ==
    LET of(i) == IF dirs[i].summary = "whole" THEN RowsOfRun(dirs[i].owner) ELSE <<>>
    IN  FlattenSeq([k \in 1 .. MaxTries |-> of(k - 1)])

(* _read_history_records: the history, if it is there and can be read.      *)
ReadBack ==
    {AuditRows} \union
    {[k \in 1 .. Len(h) |-> RowOfRecord(h[k])] : h \in {history} \ {<<>>}}

----------------------------------------------------------------------------
(* The window *)

(* An own run that is not over for the window: is_running. *)
InFlight(r) ==
    r \in summaries \/ step[r] \notin {"running", "ended", "killed"}

(* _load_history_from_output_dir *)
Load ==
    /\ \E rows \in ReadBack : shown' = Recent(rows)
    /\ cleared' = FALSE

OpenWindow ==
    /\ ~open
    /\ open' = TRUE
    /\ Load
    /\ UNCHANGED <<outputVars, summaries>>

(* Mutant of BrowseOutputDir: the directory can be chosen during a run. *)
BuggyBrowseOutputDir ==
    /\ open
    /\ Load
    /\ UNCHANGED <<outputVars, open, summaries>>

(* browse_output_dir: its button is hidden while something runs.            *)
BrowseOutputDir ==
    /\ open
    /\ \A r \in OwnRuns : ~InFlight(r)
    /\ Load
    /\ UNCHANGED <<outputVars, open, summaries>>

(* _append_history_rows and _cap_history_rows, when the summary is handled. *)
AppendHistoryRows(r) ==
    /\ r \in summaries
    /\ shown' = Recent(shown \o RowsOfRun(r))
    /\ summaries' = summaries \ {r}
    /\ UNCHANGED <<outputVars, open, cleared>>

(* clear_history empties the list, not the file. *)
ClearHistory ==
    /\ open
    /\ shown' = <<>>
    /\ cleared' = TRUE
    /\ UNCHANGED <<outputVars, open, summaries>>

----------------------------------------------------------------------------
(* The runs *)

(* A run of the window begins to save while no other of its runs is in      *)
(* flight; runs of another runner may save at any time.                     *)
Begin(r) ==
    /\ ProcessOf[r] = Window => open
    /\ r \in OwnRuns => \A q \in OwnRuns : ~InFlight(q)
    /\ Finalize(r)
    /\ UNCHANGED listVars

(* A run saves its files; the summary of one that ends is queued.           *)
Save(r) ==
    /\ SaveStep(r)
    /\ summaries' = IF r \in OwnRuns /\ step'[r] = "ended" THEN summaries \union {r}
                    ELSE summaries
    /\ UNCHANGED <<open, shown, cleared>>

(* The window's process is killed or closed: what was queued and shown goes.*)
WindowGone ==
    /\ open
    /\ Kill(Window)
    /\ open' = FALSE
    /\ summaries' = {}
    /\ shown' = <<>>
    /\ UNCHANGED cleared

OtherGone(p) == p # Window /\ Kill(p) /\ UNCHANGED listVars

ListInit ==
    /\ OutputInit
    /\ open = FALSE
    /\ summaries = {}
    /\ shown = <<>>
    /\ cleared = FALSE

ListNext ==
    \/ OpenWindow \/ BrowseOutputDir \/ ClearHistory \/ WindowGone
    \/ \E r \in Runs : Begin(r) \/ Save(r) \/ AppendHistoryRows(r)
    \/ \E p \in Processes : OtherGone(p)

(* Threads that may run do, as in OutputSpec. *)
ListSpec ==
    /\ ListInit
    /\ [][ListNext]_<<outputVars, listVars>>
    /\ \A r \in Runs : WF_<<outputVars, listVars>>(Save(r))

----------------------------------------------------------------------------
(* Properties *)

(* Positions of a line in the list. *)
InList(line) == {k \in DOMAIN shown : shown[k].line = line}

(* Where the history has lines of the window's runs that the audits have    *)
(* as well.                                                                 *)
Lasting == {k \in DOMAIN history : history[k][1] \in OwnRuns /\ audited[history[k][1]]}

(* Between runs the list shows what the files keep: no result twice, each   *)
(* with the label the file gives it, of the window's runs the latest and    *)
(* none left out, whether its rows came from the runs' summaries, from the  *)
(* history or from the audits, and whatever was killed or failed meanwhile. *)
ShownIsStored ==
    open /\ (\A r \in OwnRuns : ~InFlight(r)) =>
        /\ Len(shown) <= MaxRows
        /\ \A k \in DOMAIN shown :
              /\ InList(shown[k].line) = {k}
              /\ shown[k].label = HistoryResultLabel(StatusOf(shown[k].line))
        /\ \A k \in Lasting :
              InList(history[k]) = {} =>
                  /\ cleared \/ Len(shown) = MaxRows
                  /\ \A j \in Lasting : j < k => InList(history[j]) = {}
        /\ \A k, j \in Lasting :
              j < k => \A x \in InList(history[j]), y \in InList(history[k]) : x < y
=============================================================================
