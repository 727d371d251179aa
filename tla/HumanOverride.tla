---------------------------- MODULE HumanOverride ----------------------------
(***************************************************************************)
(* Human review of C7's decisions (c7_execution_agent/human_override.py)   *)
(* and the sweeper that times requests out (override_sweeper.py).  Every   *)
(* method takes the interface's lock once or more, and the steps here are  *)
(* the locked sections: what a method checked in one may be stale in the   *)
(* next.                                                                   *)
(***************************************************************************)
EXTENDS Integers

CONSTANTS
    Requests,   \* request ids, fresh uuids
    Operators,
    Sweepers,
    NoRequest,
    Timeout,    \* timeout_seconds, in ticks
    MaxTime     \* bound on the clock

ASSUME HumanOverrideAssumption ==
    /\ NoRequest \notin Requests
    /\ Timeout \in Nat
    /\ MaxTime \in Nat

VARIABLES
    pending,        \* _pending
    expiresAt,      \* expires_at of each request that was made
    responses,      \* _responses
    contexts,       \* _context_store
    requested,      \* the requests that were made
    answering,      \* what each operator is about to record
    sweep,          \* the requests of each sweeper's snapshot still to visit
    visit,          \* the request a sweeper is at
    swPc,           \* where it stands with it
    timedOut,       \* how often a request was resolved with timeout_action
    reentered,      \* payments processed again after an approval
    clock

sweepers == <<sweep, visit, swPc>>
hoVars == <<pending, expiresAt, responses, contexts, requested, answering,
          sweepers, timedOut, reentered, clock>>

Decisions == {"APPROVE", "REJECT", "ESCALATE"}
Answers == {[request |-> r, decision |-> d] : r \in Requests, d \in Decisions}
Nothing == [request |-> NoRequest, decision |-> "REJECT"]

HOTypeOK ==
    /\ pending \subseteq requested
    /\ requested \subseteq Requests
    /\ expiresAt \in [Requests -> Nat]
    /\ responses \in [Requests -> Decisions \cup {"NONE"}]
    /\ contexts \subseteq requested
    /\ answering \in [Operators -> Answers \cup {Nothing}]
    /\ sweep \in [Sweepers -> SUBSET Requests]
    /\ visit \in [Sweepers -> Requests \cup {NoRequest}]
    /\ swPc \in [Sweepers -> {"idle", "check", "known", "again", "pop"}]
    /\ timedOut \in [Requests -> Nat]
    /\ reentered \subseteq Requests
    /\ clock \in Nat

HOInit ==
    /\ pending = {}
    /\ expiresAt = [r \in Requests |-> 0]
    /\ responses = [r \in Requests |-> "NONE"]
    /\ contexts = {}
    /\ requested = {}
    /\ answering = [o \in Operators |-> Nothing]
    /\ sweep = [s \in Sweepers |-> {}]
    /\ visit = [s \in Sweepers |-> NoRequest]
    /\ swPc = [s \in Sweepers |-> "idle"]
    /\ timedOut = [r \in Requests |-> 0]
    /\ reentered = {}
    /\ clock = 0

-----------------------------------------------------------------------------
(* The agent and the pipeline. *)

Expiry == clock + Timeout

\* The bound leaves the clock room to pass the expiry.
RequestOverride(r) ==
    /\ r \notin requested
    /\ Expiry < MaxTime
    /\ requested' = requested \cup {r}
    /\ pending' = pending \cup {r}
    /\ expiresAt' = [expiresAt EXCEPT ![r] = Expiry]
    /\ UNCHANGED <<responses, contexts, answering, sweepers, timedOut,
                   reentered, clock>>

StoreContext(r) ==
    /\ r \in requested \ contexts
    /\ r \notin reentered
    /\ contexts' = contexts \cup {r}
    /\ UNCHANGED <<pending, expiresAt, responses, requested, answering,
                   sweepers, timedOut, reentered, clock>>

\* Whoever asks is given the payment, once and whatever was decided.  Nothing in the
\* repository but its tests asks; only a payment taken out after an approval is
\* counted as processed again.
PopContext(r) ==
    /\ r \in contexts
    /\ contexts' = contexts \ {r}
    /\ reentered' = reentered \cup {q \in {r} : responses[q] = "APPROVE"}
    /\ UNCHANGED <<pending, expiresAt, responses, requested, answering,
                   sweepers, timedOut, clock>>

-----------------------------------------------------------------------------
(* Operators. *)

\* An unknown request counts as expired.
IsExpired(r) == r \notin pending \/ clock > expiresAt[r]

\* submit_response checks ...
SubmitResponse(o, r, decision) ==
    /\ answering[o] = Nothing
    /\ r \in requested
    /\ ~ IsExpired(r)
    /\ answering' = [answering EXCEPT ![o] = [request |-> r, decision |-> decision]]
    /\ UNCHANGED <<pending, expiresAt, responses, contexts, requested,
                   sweepers, timedOut, reentered, clock>>

\* Variant: the request stays pending.
RecordOnly(o) ==
    LET answer == answering[o] IN
    /\ answer # Nothing
    /\ responses' = [responses EXCEPT ![answer.request] = answer.decision]
    /\ answering' = [answering EXCEPT ![o] = Nothing]
    /\ UNCHANGED <<pending, expiresAt, contexts, requested, sweepers, timedOut,
                   reentered, clock>>

\* ... and records.
RecordResponse(o) ==
    LET answer == answering[o] IN
    /\ answer # Nothing
    /\ responses' = [responses EXCEPT ![answer.request] = answer.decision]
    /\ pending' = pending \ {answer.request}
    /\ answering' = [answering EXCEPT ![o] = Nothing]
    /\ UNCHANGED <<expiresAt, contexts, requested, sweepers, timedOut,
                   reentered, clock>>

-----------------------------------------------------------------------------
(* The sweeper: sweep_once, with resolve_expired inlined. *)

Visit(s, r, step) ==
    /\ visit' = [visit EXCEPT ![s] = r]
    /\ swPc' = [swPc EXCEPT ![s] = step]
Leave(s) == Visit(s, NoRequest, "idle")
Unswept == <<pending, expiresAt, responses, contexts, requested, answering,
             reentered, clock>>

\* get_pending_overrides, what reviewers are shown.
Listed == {r \in pending : expiresAt[r] > clock}

\* Variant: the requests shown to reviewers instead of all.
SnapshotListed(s) ==
    /\ swPc[s] = "idle"
    /\ sweep[s] = {}
    /\ sweep' = [sweep EXCEPT ![s] = Listed]
    /\ UNCHANGED <<Unswept, visit, swPc, timedOut>>

\* get_all_pending_requests.
Snapshot(s) ==
    /\ swPc[s] = "idle"
    /\ sweep[s] = {}
    /\ sweep' = [sweep EXCEPT ![s] = pending]
    /\ UNCHANGED <<Unswept, visit, swPc, timedOut>>

\* Variant: requests that have not expired are not skipped.
CheckNothing(s, r) ==
    /\ swPc[s] = "idle"
    /\ r \in sweep[s]
    /\ sweep' = [sweep EXCEPT ![s] = @ \ {r}]
    /\ Visit(s, r, "pop")
    /\ UNCHANGED <<Unswept, timedOut>>

\* is_expired, asked by sweep_once.
Check(s, r) ==
    /\ swPc[s] = "idle"
    /\ r \in sweep[s]
    /\ sweep' = [sweep EXCEPT ![s] = @ \ {r}]
    /\ IF IsExpired(r) THEN Visit(s, r, "known") ELSE Leave(s)
    /\ UNCHANGED <<Unswept, timedOut>>

\* in_pending and in_responses: an unknown request is skipped.
Known(s) ==
    /\ swPc[s] = "known"
    /\ \/ visit[s] \in pending /\ Visit(s, visit[s], "again")
       \/ /\ visit[s] \notin pending
          /\ responses[visit[s]] # "NONE"
          /\ Visit(s, visit[s], "pop")
       \/ /\ visit[s] \notin pending
          /\ responses[visit[s]] = "NONE"
          /\ Leave(s)
    /\ UNCHANGED <<Unswept, sweep, timedOut>>

\* is_expired, asked by resolve_expired.
CheckAgain(s) ==
    /\ swPc[s] = "again"
    /\ IF IsExpired(visit[s]) THEN Visit(s, visit[s], "pop") ELSE Leave(s)
    /\ UNCHANGED <<Unswept, sweep, timedOut>>

\* The request is removed and its outcome is timeout_action, which the sweeper
\* counts and announces.
TimeOut(s) ==
    /\ swPc[s] = "pop"
    /\ pending' = pending \ {visit[s]}
    /\ timedOut' = [timedOut EXCEPT ![visit[s]] = @ + 1]
    /\ Leave(s)
    /\ UNCHANGED <<expiresAt, responses, contexts, requested, answering, sweep,
                   reentered, clock>>

Tick ==
    /\ clock < MaxTime
    /\ clock' = clock + 1
    /\ UNCHANGED <<pending, expiresAt, responses, contexts, requested,
                   answering, sweepers, timedOut, reentered>>

Sweep(s) ==
    \/ Snapshot(s)
    \/ \E r \in Requests : Check(s, r)
    \/ Known(s) \/ CheckAgain(s) \/ TimeOut(s)

HONext ==
    \/ \E r \in Requests :
        \/ RequestOverride(r) \/ StoreContext(r) \/ PopContext(r)
        \/ \E o \in Operators, d \in Decisions : SubmitResponse(o, r, d)
    \/ \E o \in Operators : RecordResponse(o)
    \/ \E s \in Sweepers : Sweep(s)
    \/ Tick

HOSpec == HOInit /\ [][HONext]_hoVars

\* The sweeper's thread runs every sweep_interval_seconds; a submit_response that
\* has begun ends.  Operators need not answer.
HOFairness ==
    /\ WF_hoVars(Tick)
    /\ \A s \in Sweepers : WF_hoVars(Sweep(s))
    /\ \A o \in Operators : WF_hoVars(RecordResponse(o))

HOFairSpec == HOSpec /\ HOFairness

-----------------------------------------------------------------------------
(* Properties. *)

\* APPROVE, REJECT and the time-out are outcomes; ESCALATE is to leave the request
\* open.  An outcome can still be overturned by whoever passed the expiry check before
\* it was recorded.
Settled(r) ==
    /\ responses[r] \in {"APPROVE", "REJECT"} \/ timedOut[r] > 0
    /\ \A o \in Operators : answering[o].request # r

\* Once the operators who were already past the expiry check have recorded, the
\* outcome is final: no operator is let through again, and no answer replaces it or
\* comes after a time-out.
DecisionIsFinal ==
    [][\A r \in Requests : Settled(r) => Settled(r)' /\ responses'[r] = responses[r]]_hoVars

\* Whatever is_expired answers while a response is being recorded, a request
\* that nobody answered is not timed out before its time, and one sweeper
\* resolves, counts and announces it at most once.
TimesOutOnceAndLate ==
    \A r \in Requests :
        timedOut[r] > 0 => /\ timedOut[r] = 1
                           /\ responses[r] # "NONE" \/ clock > expiresAt[r]

\* Every request is decided in the end, although nobody has to answer it.
RequestIsDecided ==
    \A r \in Requests :
        r \in requested ~> responses[r] # "NONE" \/ timedOut[r] > 0

(* What the documentation says and the code does not keep. *)

\* override_sweeper.py:109: "Already resolved or not expired - race condition,
\* skip".
AnsweredIsNotTimedOut ==
    \A r \in Requests : ~ (responses[r] # "NONE" /\ timedOut[r] > 0)

\* human_override.py:28: "ESCALATE: Operator defers to a higher authority; the
\* request remains pending until re-assigned or expired".
EscalatedStaysPending ==
    \A r \in Requests :
        responses[r] = "ESCALATE" /\ clock <= expiresAt[r] => r \in pending

\* human_override.py:25: "REJECT: Operator countermands the AI decision; the
\* offer is blocked".
RejectedIsBlocked ==
    \A r \in Requests : responses[r] = "REJECT" => r \notin reentered

\* get_pending_overrides, human_override.py:282: "Return all non-expired pending
\* override requests"; at expires_at itself an answer is still taken.
NonExpiredIsListed == \A r \in pending : ~ IsExpired(r) => r \in Listed
=============================================================================
