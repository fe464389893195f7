-------------------------- MODULE MC_CommandLine --------------------------
(* The command line, and a second thread that may close the session once.   *)
EXTENDS CommandLine

CONSTANTS main, other   \* the two threads
============================================================================
