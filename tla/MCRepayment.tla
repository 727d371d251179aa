----------------------------- MODULE MCRepayment -----------------------------
(* Repayment for TLC: the cfgs give its constants. *)
EXTENDS Repayment
=============================================================================
