--------------------------- MODULE MCRegulatoryApi ---------------------------
(* Instances of RegulatoryApi for TLC. *)
EXTENDS RegulatoryApi, TLC

Symmetry == Permutations(Requests) \cup Permutations(Replicas)
=============================================================================
