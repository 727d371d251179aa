---------------------------- MODULE MCSettlement ----------------------------
(* Instances of Settlement for TLC. *)
EXTENDS Settlement, TLC

\* The first month begins on a Thursday, and the second on a Monday.
MCFirstWeekday == 0 :> 3 @@ 1 :> 0

Symmetry == Permutations(Loans)
=============================================================================
