-------------------------- MODULE MC_OutputStore --------------------------
(* The window's runs r1 and r2, and r3 of another runner in its process.    *)
EXTENDS HistoryList

CONSTANTS r1, r2, r3, gui, web

Outcomes == [r \in {r1, r2, r3} |->
               CASE r = r1 -> <<"reappeared", "failed">>
                 [] r = r2 -> <<"unknown">>
                 [] OTHER  -> <<"deleted">>]
Recorded   == [r \in {r1, r2, r3} |-> Len(Outcomes[r])]
OneProcess == [r \in {r1, r2, r3} |-> gui]
============================================================================
