--------------------------- MODULE OfferLifecycle ---------------------------
(***************************************************************************)
(* What the offer service of C7 promises about a loan offer, whatever      *)
(* stores it and however many processes serve it (the class docstring and  *)
(* the delivery states of c7_execution_agent/offer_delivery.py):           *)
(* an offer is made once, resolved at most once, and funded at most once,  *)
(* only if the resolution was an acceptance.                               *)
(***************************************************************************)
CONSTANT Offers

VARIABLES
    outcome,    \* [Offers -> {"NONE", "PENDING"} \cup Terminal]
    funded      \* the offers handed over to the repayment engine

vars == <<outcome, funded>>

Terminal == {"ACCEPTED", "REJECTED", "EXPIRED"}

Init ==
    /\ outcome = [o \in Offers |-> "NONE"]
    /\ funded = {}

\* C7 hands the offer to the service.
Make(o) ==
    /\ outcome[o] = "NONE"
    /\ outcome' = [outcome EXCEPT ![o] = "PENDING"]
    /\ UNCHANGED funded

\* The treasury answers, or the offer runs out of time.
Resolve(o, answer) ==
    /\ outcome[o] = "PENDING"
    /\ outcome' = [outcome EXCEPT ![o] = answer]
    /\ UNCHANGED funded

\* The acceptance reaches the repayment engine.
Fund(o) ==
    /\ outcome[o] = "ACCEPTED"
    /\ o \notin funded
    /\ funded' = funded \cup {o}
    /\ UNCHANGED outcome

Next ==
    \E o \in Offers :
        \/ Make(o)
        \/ \E answer \in Terminal : Resolve(o, answer)
        \/ Fund(o)

Spec == Init /\ [][Next]_vars
=============================================================================
