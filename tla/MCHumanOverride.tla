--------------------------- MODULE MCHumanOverride ---------------------------
(* Instances of HumanOverride for TLC. *)
EXTENDS HumanOverride
=============================================================================
