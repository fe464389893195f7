---------------------------- MODULE MC_UserTable ----------------------------
(* Answers of two lines over two users and two access points.               *)
EXTENDS UserTable, TLC

Symmetry == Permutations(Users) \union Permutations(Radios)
=============================================================================
