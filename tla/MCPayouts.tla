------------------------------ MODULE MCPayouts ------------------------------
(* Payouts for TLC.  The runners are interchangeable. *)
EXTENDS Payouts, TLC

Symmetry == Permutations(Runners)
=============================================================================
