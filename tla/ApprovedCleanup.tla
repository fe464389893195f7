------------------------- MODULE ApprovedCleanup -------------------------
(***************************************************************************)
(* What a cleanup run promises the operator, without saying how: look at   *)
(* the users, fix a snapshot, ask once, send each MAC of the approved      *)
(* snapshot at most one delete command, stop.  CleanupRun implements it.   *)
(***************************************************************************)
EXTENDS Integers

CONSTANT Macs   \* MAC addresses a snapshot may hold

VARIABLES
    stage,        \* how far the run is
    snapshot,     \* the MACs put before the operator
    transmitted   \* transmitted[m]: delete commands sent for m

abstractVars == <<stage, snapshot, transmitted>>

Stages == {"idle", "looking", "asking", "deleting"}

AbstractTypeOK ==
    /\ stage \in Stages
    /\ snapshot \in SUBSET Macs
    /\ transmitted \in [Macs -> {0, 1}]

AbstractInit ==
    /\ stage = "idle"
    /\ snapshot = {}
    /\ transmitted = [m \in Macs |-> 0]

Begin ==
    /\ stage = "idle"
    /\ stage' = "looking"
    /\ snapshot' = {}
    /\ transmitted' = [m \in Macs |-> 0]

Propose(S) ==
    /\ stage = "looking"
    /\ stage' = "asking"
    /\ snapshot' = S
    /\ UNCHANGED transmitted

Agree ==
    /\ stage = "asking"
    /\ stage' = "deleting"
    /\ UNCHANGED <<snapshot, transmitted>>

Transmit(m) ==
    /\ stage = "deleting"
    /\ m \in snapshot
    /\ transmitted[m] = 0
    /\ transmitted' = [transmitted EXCEPT ![m] = 1]
    /\ UNCHANGED <<stage, snapshot>>

(* What was proposed and sent may be kept, or forgotten with the run.       *)
End ==
    /\ stage # "idle"
    /\ stage' = "idle"
    /\ \/ UNCHANGED <<snapshot, transmitted>>
       \/ /\ snapshot' = {}
          /\ transmitted' = [m \in Macs |-> 0]

AbstractNext ==
    \/ Begin
    \/ \E S \in (SUBSET Macs) \ {{}} : Propose(S)
    \/ Agree
    \/ \E m \in Macs : Transmit(m)
    \/ End

AbstractSpec == AbstractInit /\ [][AbstractNext]_abstractVars
============================================================================
