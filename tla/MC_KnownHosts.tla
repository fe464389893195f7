-------------------------- MODULE MC_KnownHosts --------------------------
(* Two users of one store. *)
EXTENDS KnownHosts

CONSTANTS u1, u2, s1

SharedStore == [u \in {u1, u2} |-> s1]
============================================================================
