--------------------------- MODULE MCGoOfferRouter ---------------------------
(* Instances of GoOfferRouter for TLC. *)
EXTENDS GoOfferRouter, TLC

Symmetry == Permutations(Clients) \cup Permutations(Offers)
=============================================================================
