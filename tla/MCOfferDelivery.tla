--------------------------- MODULE MCOfferDelivery ---------------------------
(* OfferDelivery for TLC: the cfg gives its constants. *)
EXTENDS OfferDelivery
=============================================================================
