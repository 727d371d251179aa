-------------------------- MODULE MCTenantVelocity --------------------------
(* Instances of TenantVelocity for TLC. *)
EXTENDS TenantVelocity, TLC

CONSTANTS t1, t2

\* One tenant has a dollar cap, the other a count cap too.
MCDollarCap == t1 :> 7 @@ t2 :> 7
MCCountCap == t1 :> 0 @@ t2 :> 1

Symmetry == Permutations(Calls) \cup Permutations(Benes)
=============================================================================
