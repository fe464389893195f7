-------------------------- MODULE MC_CleanupRun --------------------------
(* Two threads (one runs, one may close the session), two MACs. *)
EXTENDS CleanupRun, TLC

Symmetry == Permutations(Threads) \union Permutations(Macs) \union Permutations(Configs)
============================================================================
