---------------------------- MODULE CommandLine ----------------------------
(***************************************************************************)
(* cli.py: one process, one run.  The arguments are checked, the passwords *)
(* asked for, one run of the runner is made, and what came of it becomes   *)
(* the exit code.  The prompt for the phrase waits as long as the operator *)
(* does; the one for a new host key is part of Connect or ConnectFails.    *)
(*                                                                         *)
(* Ctrl+C at a prompt is an answer.  Anywhere else it ends the process:    *)
(* KeyboardInterrupt is no Exception, so no handler of the run sees it.    *)
(*                                                                         *)
(* The runner does not keep its session.  The command line has no second   *)
(* thread; those of Threads only close the session, as CleanupRun lets     *)
(* them.                                                                   *)
(***************************************************************************)
EXTENDS CleanupRun

CONSTANT Main   \* the thread that runs main()

ASSUME CliConstants == Main \in Threads

VARIABLES
    stage,   \* how far main() is
    exit     \* the exit code of the process, "none" while it runs

cliVars == <<vars, stage, exit>>

Quit(code) ==
    /\ stage' = "ended"
    /\ exit' = code

(* ArgumentParser.error: an argument is missing or not valid. *)
RejectArguments ==
    /\ stage = "arguments"
    /\ Quit("2")
    /\ UNCHANGED vars

AskPasswords ==
    /\ stage = "arguments"
    /\ stage' = "passwords"
    /\ UNCHANGED <<vars, exit>>

(* An empty password, end of input or Ctrl+C; or run_once raised before the *)
(* run began.                                                               *)
GiveUp ==
    /\ stage = "passwords"
    /\ Quit("1")
    /\ UNCHANGED vars

StartRun ==
    /\ stage = "passwords"
    /\ stage' = "run"
    /\ \E c \in Configs : Start(Main, "run", c)
    /\ UNCHANGED exit

(* approve_targets: only "DELETE n" approves; any other text, end of input  *)
(* and Ctrl+C do not.                                                       *)
AnswerPrompt ==
    /\ stage = "run"
    /\ \E text \in {"phrase", "other", "interrupt"} :
          IF text = "phrase" THEN Approve(Main) ELSE Deny(Main)
    /\ UNCHANGED <<stage, exit>>

(* run_once; it is called without should_cancel.                            *)
Work ==
    /\ stage = "run"
    /\ ~At(Main, "approval")
    /\ RunStep(Main) \/ CallStep(Main)
    /\ UNCHANGED <<stage, exit>>

(* Mutant of ExitCode: failures of single MACs are left out. *)
BuggyExitCode == IF summary.error \/ summary.canceled THEN "1" ELSE "0"

ExitCode ==
    IF summary.error \/ summary.canceled \/ summary.unsuccess # {} \/ summary.reappeared # {}
    THEN "1" ELSE "0"

(* With the process go its threads, its locks and its connection.           *)
ProcessGone ==
    /\ lock' = NoThread
    /\ runLock' = NoThread
    /\ connection' = "none"
    /\ config' = NoConfig
    /\ live' = 0
    /\ call' = [t \in Threads |-> IdleCall]
    /\ UNCHANGED <<persistent, phase, kind, runConfig, ticks, todo, summary, cancel,
                   closes, approved, sent, lateDeletes, answered>>

Finish ==
    /\ stage = "run"
    /\ runLock = NoThread
    /\ Quit(ExitCode)
    /\ ProcessGone
    /\ UNCHANGED <<table, removed>>

(* Ctrl+C outside of a prompt; a command that was on its way may still be   *)
(* executed.                                                                *)
Interrupt ==
    /\ stage = "run"
    /\ ~At(Main, "approval")
    /\ Quit("interrupted")
    /\ \E done \in BOOLEAN :
          /\ done => call[Main].pc = "send"
          /\ DeviceExecutes(Main, done)
    /\ removed' = removed \union (table \ table')
    /\ ProcessGone

Elsewhere ==
    /\ stage = "run"
    /\ \/ \E t \in Threads \ {Main} :
             CloseFromOutside(t) \/ OutsideClosed(t) \/ CallStep(t)
       \/ Environment
    /\ UNCHANGED <<stage, exit>>

CliInit ==
    /\ Init
    /\ ~persistent
    /\ stage = "arguments"
    /\ exit = "none"

CliNext ==
    \/ RejectArguments \/ AskPasswords \/ GiveUp \/ StartRun
    \/ AnswerPrompt \/ Work \/ Finish \/ Interrupt
    \/ Elsewhere

(* The process runs on; nothing makes the operator answer for the targets.  *)
CliFairness ==
    /\ WF_cliVars(Work)
    /\ WF_cliVars(Finish)
    /\ \A t \in Threads \ {Main} :
          WF_cliVars(stage = "run" /\ CallStep(t) /\ UNCHANGED <<stage, exit>>)

CliSpec == CliInit /\ [][CliNext]_cliVars /\ CliFairness

----------------------------------------------------------------------------
(* Properties *)

(* A script may trust the exit code: 0 says that every MAC found was        *)
(* approved, removed by the device on this run's command and not listed in  *)
(* the verification; and after 0 or 1 every command that was sent has its   *)
(* result and a record was attempted.  Only an interrupt leaves neither.    *)
ExitHonest ==
    /\ exit = "0" =>
         \A m \in summary.targets :
            summary.results[m].status = "verified_deleted" /\ m \in removed \intersect approved
    /\ exit \in {"0", "1"} =>
         \A m \in Macs :
            sent[m] > 0 => summary.results[m] # NoResult /\ summary.audit # "none"

(* Once started the program ends, whatever the device does and whoever      *)
(* closes its session: only a prompt nobody answers keeps it.               *)
ProgramEnds ==
    (stage = "run" /\ phase # "approval") ~> (stage = "ended" \/ phase = "approval")
============================================================================
