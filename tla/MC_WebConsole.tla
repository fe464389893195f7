-------------------------- MODULE MC_WebConsole --------------------------
(* Two tabs, two MACs; two requests and two keys, or one of each. *)
EXTENDS WebConsole
============================================================================
