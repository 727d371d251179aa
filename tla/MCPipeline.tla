----------------------------- MODULE MCPipeline -----------------------------
EXTENDS Pipeline, TLC

CONSTANTS p1, p2
\* p2 is p1 keyed again under a new UETR.
MCDetailsOf == (p1 :> "d") @@ (p2 :> "d")

Symmetry == Permutations(Replicas) \cup Permutations(Payments)
=============================================================================
