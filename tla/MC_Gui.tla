------------------------------- MODULE MC_Gui -------------------------------
(* A window whose operator starts up to two workers, in any order.          *)
EXTENDS Gui

CONSTANTS m1   \* the MAC of the user, as a model value
=============================================================================
