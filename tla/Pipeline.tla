------------------------------ MODULE Pipeline ------------------------------
(***************************************************************************)
(* LIPPipeline.process and finalize_accepted_offer (lip/pipeline.py) as    *)
(* the runtime wires them: replicas that serve calls in threads, one Redis *)
(* with the UETR keys and the velocity window, a kill switch and a UETR    *)
(* memory per replica, C7's gates, and the offers' life as OfferLifecycle  *)
(* promises it.  A call's number is also the number of the offer it makes. *)
(*                                                                         *)
(* What C1, C2, C4, the sanctions list and C7's economic gates answer is   *)
(* a free choice.  All payments here come from one entity, so there is one *)
(* window; nothing lives as long as the window (24 hours) or a UETR key    *)
(* (45 days).                                                              *)
(***************************************************************************)
EXTENDS Naturals, FiniteSets

CONSTANTS
    Replicas,       \* incarnations of the service: one that died stays dead
    Payments,       \* UETRs
    DetailsOf,      \* the BICs, currency and amount a payment carries
    Cap,            \* aml_count_cap
    MaxCalls,       \* bound on calls of process
    MaxInFlight,    \* bound on calls at work together
    MaxFaults,      \* bound on calls of Redis and of components that raise
    MaxCrashes,     \* bound on dying replicas
    MaxHalts,       \* bound on activations of the kill switch
    MaxUpsets       \* bound on all three together

ASSUME PipelineAssumption ==
    /\ DOMAIN DetailsOf = Payments
    /\ Cap \in Nat \ {0} /\ MaxCalls \in Nat /\ MaxInFlight \in Nat \ {0}
    /\ MaxFaults \in Nat /\ MaxCrashes \in Nat /\ MaxHalts \in Nat /\ MaxUpsets \in Nat

VARIABLES
    call,           \* the calls of process, in the order they begin
    seen,           \* UETRs with a key in Redis
    memory,         \* UETRs in each replica's _processed and _tuple_index
    window,         \* entries in the velocity window
    alive,          \* replicas at work
    halted,         \* replicas whose should_halt_new_offers is true
    draining,       \* calls that had read it as false when their replica was halted
    requests,       \* calls whose override request waits for an operator
    approved,       \* payments an operator approved
    offer, funded,  \* the offers, as OfferLifecycle has them
    called,         \* accepted offers finalize_accepted_offer was called for
    logged,         \* calls with an OFFER entry in the decision log
    faults, crashes, halts

tracker == <<seen, memory>>
overrides == <<requests, approved>>
offers == <<offer, funded, called>>
budget == <<faults, crashes, halts>>
vars == <<call, tracker, window, alive, halted, draining, overrides, offers, logged,
          budget>>

Calls == 1 .. MaxCalls
Lifecycle == INSTANCE OfferLifecycle WITH Offers <- Calls, outcome <- offer

\* REFUSED stands for BELOW_THRESHOLD, DISPUTE_BLOCKED, AML_BLOCKED, DECLINED and
\* COMPLIANCE_HOLD; DOMESTIC_LEG_FAILURE is OFFERED under another name.
Answers == {"OFFERED", "REFUSED", "HALT", "PENDING_HUMAN_REVIEW", "RETRY_BLOCKED",
            "AML_CHECK_UNAVAILABLE", "SYSTEM_ERROR"}
Steps == {"new", "redis", "memory", "screen", "gate", "decide", "deliver", "log",
          "record", "index", "done", "raised"}

Active == {n \in Calls : call[n].step \notin {"new", "done", "raised"}}
Made == {n \in Calls : offer[n] # "NONE"}
SameDetails(p, q) == DetailsOf[p] = DetailsOf[q]

CallRecord ==
    [payment : Payments \cup {""}, replica : Replicas \cup {""}, approve : BOOLEAN,
     step : Steps, answer : Answers \cup {""}, replayed : BOOLEAN, rekeyed : BOOLEAN]

TypeOK ==
    /\ call \in [Calls -> CallRecord]
    /\ \A n \in Calls :
        /\ call[n].step # "new" => call[n].payment \in Payments /\ call[n].replica \in Replicas
        /\ call[n].step \in {"record", "index", "done"} <=> call[n].answer \in Answers
    /\ seen \subseteq Payments
    /\ memory \in [Replicas -> SUBSET Payments]
    /\ window \in Nat
    /\ alive \subseteq Replicas /\ halted \subseteq alive /\ draining \subseteq Calls
    /\ requests \subseteq Calls /\ approved \subseteq Payments
    /\ offer \in [Calls -> {"NONE", "PENDING"} \cup Lifecycle!Terminal]
    /\ funded \subseteq called /\ called \subseteq Made /\ logged \subseteq Made
    /\ faults \in 0 .. MaxFaults /\ crashes \in 0 .. MaxCrashes /\ halts \in 0 .. MaxHalts

-----------------------------------------------------------------------------

NoCall == [payment |-> "", replica |-> "", approve |-> FALSE, step |-> "new", answer |-> "",
           replayed |-> FALSE, rekeyed |-> FALSE]

Init ==
    /\ call = [n \in Calls |-> NoCall]
    /\ seen = {}
    /\ memory = [r \in Replicas |-> {}]
    /\ window = 0
    /\ alive = Replicas
    /\ halted = {} /\ draining = {}
    /\ requests = {} /\ approved = {}
    /\ Lifecycle!Init
    /\ called = {}
    /\ logged = {}
    /\ faults = 0 /\ crashes = 0 /\ halts = 0

At(n, step) == call[n].step = step
Goto(n, step) == call' = [call EXCEPT ![n].step = step]
Return(n, answer) == call' = [call EXCEPT ![n].step = "done", ![n].answer = answer]
\* _record_and_return
RecordAndReturn(n, answer) == call' = [call EXCEPT ![n].step = "record", ![n].answer = answer]
Fault ==
    /\ faults < MaxFaults /\ faults + crashes + halts < MaxUpsets
    /\ faults' = faults + 1
    /\ UNCHANGED <<crashes, halts>>

\* A call begins.  For the properties it notes whether an earlier call has already
\* returned with an offer for the same payment, or, on this replica, for another
\* one with the same details.
Begin(n, p, r, approve) ==
    /\ At(n, "new")
    /\ \A m \in 1 .. n - 1 : ~At(m, "new")
    /\ Cardinality(Active) < MaxInFlight
    /\ r \in alive
    /\ approve => p \in approved
    /\ LET returned == {m \in Made : At(m, "done")} IN
       call' = [call EXCEPT ![n] =
         [payment |-> p, replica |-> r, approve |-> approve, step |-> "redis", answer |-> "",
          replayed |-> \E m \in returned : call[m].payment = p,
          rekeyed |-> \E m \in returned : /\ call[m].payment # p
                                          /\ SameDetails(call[m].payment, p)
                                          /\ call[m].replica = r]]
    /\ UNCHANGED <<tracker, window, alive, halted, draining, overrides, offers, logged, budget>>

\* is_retry, first half: the key in Redis.
CheckRedis(n) ==
    /\ At(n, "redis")
    /\ IF call[n].payment \in seen THEN Return(n, "RETRY_BLOCKED") ELSE Goto(n, "memory")
    /\ UNCHANGED <<tracker, window, alive, halted, draining, overrides, offers, logged, budget>>

\* Variant: the UETR only.
MatchesUETR(p, r) == p \in memory[r]

\* is_retry, second half, under the lock: the same UETR, or one with the same details.
Matches(p, r) == \E q \in memory[r] : SameDetails(p, q)

CheckMemory(n) ==
    /\ At(n, "memory")
    /\ IF Matches(call[n].payment, call[n].replica)
       THEN Return(n, "RETRY_BLOCKED")
       ELSE Goto(n, "screen")
    /\ UNCHANGED <<tracker, window, alive, halted, draining, overrides, offers, logged, budget>>

\* A rejection code that blocks, C1 below the threshold, the sanctions list: refused
\* before the window is touched.
RefuseEarly(n) ==
    /\ At(n, "screen")
    /\ RecordAndReturn(n, "REFUSED")
    /\ UNCHANGED <<tracker, window, alive, halted, draining, overrides, offers, logged, budget>>

\* Variant: off by one.
UnderCapBefore == window <= Cap

\* C6 checks and records in one script.  A payment that enters the window may still be
\* blocked by C4, or parked for C6's anomaly flag, with no override request.
UnderCap == window < Cap

Screen(n) ==
    /\ At(n, "screen")
    /\ IF UnderCap
       THEN /\ window' = window + 1
            /\ \/ Goto(n, "gate")
               \/ RecordAndReturn(n, "REFUSED")
               \/ RecordAndReturn(n, "PENDING_HUMAN_REVIEW")
       ELSE RecordAndReturn(n, "REFUSED") /\ UNCHANGED window
    /\ UNCHANGED <<tracker, alive, halted, draining, overrides, offers, logged, budget>>

\* The check raises, perhaps after the script has recorded the payment.
ScreenUnavailable(n) ==
    /\ At(n, "screen")
    /\ RecordAndReturn(n, "AML_CHECK_UNAVAILABLE")
    /\ UNCHANGED window \/ (UnderCap /\ window' = window + 1)
    /\ Fault
    /\ UNCHANGED <<tracker, alive, halted, draining, overrides, offers, logged>>

\* Variant: the gate is not asked.
PassGate(n) ==
    /\ At(n, "gate")
    /\ Goto(n, "decide")
    /\ UNCHANGED <<tracker, window, alive, halted, draining, overrides, offers, logged, budget>>

\* The licence's rate, C7's first guard.  Its calls of the last second would need a
\* clock: it may refuse any call here.
Throttle(n) ==
    /\ At(n, "gate")
    /\ RecordAndReturn(n, "HALT")
    /\ UNCHANGED <<tracker, window, alive, halted, draining, overrides, offers, logged, budget>>

\* The kill switch and the KMS, asked once.
Gate(n) ==
    /\ At(n, "gate")
    /\ IF call[n].replica \in halted THEN RecordAndReturn(n, "HALT") ELSE Goto(n, "decide")
    /\ UNCHANGED <<tracker, window, alive, halted, draining, overrides, offers, logged, budget>>

\* Variant: the status of a declined payment is not told from that of an offer.
FallThrough(n) ==
    /\ At(n, "decide")
    /\ RecordAndReturn(n, "OFFERED")
    /\ UNCHANGED <<tracker, window, alive, halted, draining, overrides, offers, logged, budget>>

\* C7's other gates: enrolment, compliance holds, the economics.
Decline(n) ==
    /\ At(n, "decide")
    /\ RecordAndReturn(n, "REFUSED")
    /\ UNCHANGED <<tracker, window, alive, halted, draining, overrides, offers, logged, budget>>

\* C7's review gate (PD, stressed corridor), which an approval opens.
Park(n) ==
    /\ At(n, "decide")
    /\ ~call[n].approve
    /\ RecordAndReturn(n, "PENDING_HUMAN_REVIEW")
    /\ requests' = requests \cup {n}
    /\ UNCHANGED <<tracker, window, alive, halted, draining, approved, offers, logged, budget>>

Proceed(n) ==
    /\ At(n, "decide")
    /\ Goto(n, "deliver")
    /\ UNCHANGED <<tracker, window, alive, halted, draining, overrides, offers, logged, budget>>

Deliver(n) ==
    /\ At(n, "deliver")
    /\ Lifecycle!Make(n)
    /\ Goto(n, "log")
    /\ UNCHANGED <<tracker, window, alive, halted, draining, overrides, called, logged, budget>>

Log(n) ==
    /\ At(n, "log")
    /\ logged' = logged \cup {n}
    /\ RecordAndReturn(n, "OFFERED")
    /\ UNCHANGED <<tracker, window, alive, halted, draining, overrides, offers, budget>>

\* process_payment raises: before the offer is out, or after, or in the decision log.
C7Raises(n) ==
    /\ call[n].step \in {"gate", "decide", "deliver", "log"}
    /\ RecordAndReturn(n, "SYSTEM_ERROR")
    /\ IF At(n, "deliver") THEN Lifecycle!Make(n) \/ UNCHANGED <<offer, funded>>
       ELSE UNCHANGED <<offer, funded>>
    /\ Fault
    /\ UNCHANGED <<tracker, window, alive, halted, draining, overrides, called, logged>>

\* UETRTracker.record: SET NX in Redis, then the replica's own indexes.
Record(n) ==
    /\ At(n, "record")
    /\ seen' = seen \cup {call[n].payment}
    /\ Goto(n, "index")
    /\ UNCHANGED <<memory, window, alive, halted, draining, overrides, offers, logged, budget>>

Index(n) ==
    /\ At(n, "index")
    /\ memory' = [memory EXCEPT ![call[n].replica] = @ \cup {call[n].payment}]
    /\ Goto(n, "done")
    /\ UNCHANGED <<seen, window, alive, halted, draining, overrides, offers, logged, budget>>

\* What process does not catch, C1, C2 and Redis in the tracker, leaves the call
\* unrecorded: C2 after the window has the payment, Redis perhaps after the key is set.
Raise(n) ==
    /\ call[n].step \in {"redis", "screen", "gate", "record"}
    /\ call' = [call EXCEPT ![n].step = "raised", ![n].answer = ""]
    /\ \/ UNCHANGED seen
       \/ At(n, "record") /\ seen' = seen \cup {call[n].payment}
    /\ Fault
    /\ UNCHANGED <<memory, window, alive, halted, draining, overrides, offers, logged>>

-----------------------------------------------------------------------------

\* The treasury's answer, or the offer's expiry.
Resolve(n, answer) ==
    /\ Lifecycle!Resolve(n, answer)
    /\ UNCHANGED <<call, tracker, window, alive, halted, draining, overrides, called, logged, budget>>

\* finalize_accepted_offer: an entry in the velocity window, whatever the cap, and the
\* loan in C3; what fails is logged and forgotten.
Finalize(n, recorded, registered) ==
    /\ offer[n] = "ACCEPTED"
    /\ n \notin called
    /\ called' = called \cup {n}
    /\ window' = IF recorded THEN window + 1 ELSE window
    /\ IF registered THEN Lifecycle!Fund(n) ELSE UNCHANGED <<offer, funded>>
    /\ IF recorded /\ registered THEN UNCHANGED budget ELSE Fault
    /\ UNCHANGED <<call, tracker, alive, halted, draining, overrides, logged>>

\* An operator answers an override request; whoever holds the event may call again.
Approve(n) ==
    /\ n \in requests
    /\ requests' = requests \ {n}
    /\ approved' = approved \cup {call[n].payment}
    /\ UNCHANGED <<call, tracker, window, alive, halted, draining, offers, logged, budget>>

\* A call that may make an offer without asking the switch again.
PastGate(r) == {n \in Calls : call[n].replica = r /\ call[n].step \in {"decide", "deliver"}}

\* activate, or a failing check_kms; deactivate, or a check_kms that succeeds.
Halt(r) ==
    /\ r \in alive \ halted
    /\ halts < MaxHalts /\ faults + crashes + halts < MaxUpsets
    /\ halted' = halted \cup {r}
    /\ draining' = draining \cup PastGate(r)
    /\ halts' = halts + 1
    /\ UNCHANGED <<call, tracker, window, alive, overrides, offers, logged, faults, crashes>>

Resume(r) ==
    /\ r \in halted
    /\ halted' = halted \ {r}
    /\ draining' = {n \in draining : call[n].replica # r}
    /\ UNCHANGED <<call, tracker, window, alive, overrides, offers, logged, budget>>

\* A replica dies with its calls, its memory, its override requests and its kill switch.
Crash(r) ==
    /\ r \in alive
    /\ crashes < MaxCrashes /\ faults + crashes + halts < MaxUpsets
    /\ crashes' = crashes + 1
    /\ alive' = alive \ {r}
    /\ halted' = halted \ {r}
    /\ draining' = {n \in draining : call[n].replica # r}
    /\ memory' = [memory EXCEPT ![r] = {}]
    /\ requests' = {n \in requests : call[n].replica # r}
    /\ call' = [n \in Calls |-> IF n \in Active /\ call[n].replica = r
                                THEN [call[n] EXCEPT !.step = "raised", !.answer = ""]
                                ELSE call[n]]
    /\ UNCHANGED <<seen, window, approved, offers, logged, faults, halts>>

Process(n) ==
    \/ \E p \in Payments, r \in Replicas, approve \in BOOLEAN : Begin(n, p, r, approve)
    \/ CheckRedis(n) \/ CheckMemory(n)
    \/ RefuseEarly(n) \/ Screen(n) \/ ScreenUnavailable(n)
    \/ Throttle(n) \/ Gate(n) \/ Decline(n) \/ Park(n) \/ Proceed(n) \/ Deliver(n) \/ Log(n)
    \/ C7Raises(n) \/ Record(n) \/ Index(n) \/ Raise(n)

Next ==
    \/ \E n \in Calls :
        \/ Process(n)
        \/ \E answer \in Lifecycle!Terminal : Resolve(n, answer)
        \/ \E recorded, registered \in BOOLEAN : Finalize(n, recorded, registered)
        \/ Approve(n)
    \/ \E r \in Replicas : Halt(r) \/ Resume(r) \/ Crash(r)

Spec == Init /\ [][Next]_vars

-----------------------------------------------------------------------------

\* A payment submitted again after a call has returned with an offer for it gets no
\* second offer, on whatever replica, through crashes and faults.  Only calls that
\* overlap, and calls that failed before they were recorded, can offer twice.
\* The same for a payment keyed again under a new UETR, as long as it comes to the
\* replica that made the first offer: the index of details is in that replica's memory.
RetryIsNotOffered == \A n \in Made : ~call[n].replayed /\ ~call[n].rekeyed

\* However calls interleave, the entity gets no more offers than the cap allows, though
\* the window is checked long before the offer is made.
OffersWithinCap == Cardinality(Made) <= Cap

\* What a recorded call answers is what happened: OFFERED with an offer out and in the
\* decision log, and no offer behind any other answer but SYSTEM_ERROR.
AnswerIsTrue ==
    \A n \in Calls : At(n, "record") \/ At(n, "index") \/ At(n, "done") =>
        /\ call[n].answer = "OFFERED" => n \in Made \cap logged
        /\ n \in Made => call[n].answer \in {"OFFERED", "SYSTEM_ERROR"}

\* The switch is read once, some steps before the offer goes out.  What a halted replica
\* still offers comes from the calls that had read the switch before the halt: no call
\* that was screened, parked for review or not yet begun by then gets an offer out until
\* the switch is back.
HaltStopsTheRest ==
    [][\A n \in Made' \ Made : call[n].replica \in halted => n \in draining]_vars

-----------------------------------------------------------------------------
(* What documents say and the code does not keep. *)

\* "Prevents double-funding": uetr_tracker.py, class UETRTracker.
FundedAtMostOnce ==
    \A m, n \in funded : call[m].payment = call[n].payment => m = n

\* pipeline_result.py: the caller re-submits an approved payment, and C7 "will skip the
\* human review gate and continue to offer generation" (pipeline.py, process).
ApprovedIsProcessed ==
    \A n \in Calls : call[n].approve => call[n].answer # "RETRY_BLOCKED"

\* pipeline_result.py: of a parked payment, "override_request_id is populated".
ParkedHasRequest ==
    \A n \in Calls : At(n, "record") /\ call[n].answer = "PENDING_HUMAN_REVIEW" =>
        n \in requests \/ call[n].payment \in approved

\* pipeline.py, finalize_accepted_offer: velocity is recorded at acceptance "rather than
\* during initial offer generation".
CountedAtAcceptance == window <= Cardinality(called)

\* kill_switch.py, activate: "halt all new loan offers immediately".
HaltIsImmediate ==
    [][\A n \in Made' \ Made : call[n].replica \notin halted]_vars
=============================================================================
