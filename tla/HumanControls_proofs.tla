------------------------- MODULE HumanControls_proofs -------------------------
(***************************************************************************)
(* The two means by which people overrule the platform, each for itself.   *)
(*                                                                         *)
(* Human review for any number of requests and operators: an outcome is    *)
(* final once the answers under way are recorded, and, with one sweeper, a *)
(* request is timed out at most once and never before its time.            *)
(*                                                                         *)
(* The kill switch for any number of processes, threads and routers: an    *)
(* activation stands in the segment until a reset begins, no router that   *)
(* saw it opens while it stands, and the count is right as long as writes  *)
(* do not overlap.                                                         *)
(***************************************************************************)
EXTENDS HumanOverride, KillSwitch, TLAPS

-----------------------------------------------------------------------------
(*                              HUMAN REVIEW                               *)

Visiting(s) == swPc[s] # "idle"

\* Operators and sweepers have to do with requests that were made; a request that
\* was not has no outcome.
MadeInv ==
    /\ \A o \in Operators :
          answering[o] # Nothing => answering[o].request \in requested
    /\ \A s \in Sweepers :
          /\ sweep[s] \subseteq requested
          /\ Visiting(s) => visit[s] \in requested
          /\ ~ Visiting(s) => visit[s] = NoRequest
    /\ \A r \in Requests :
          responses[r] # "NONE" \/ timedOut[r] > 0 => r \in requested

\* A request may be timed out: somebody answered it or its time has come.
Late(r) == responses[r] # "NONE" \/ clock > expiresAt[r]

\* What is no longer pending was answered or its time had come.
LateInv ==
    /\ \A r \in requested : r \notin pending => Late(r)
    /\ \A s \in Sweepers : swPc[s] = "pop" => Late(visit[s])
    /\ \A r \in Requests : timedOut[r] > 0 => Late(r)

OneSweeper == \A s, t \in Sweepers : s = t

\* A request that was timed out is not in front of the only sweeper.
OnceInv ==
    /\ \A s \in Sweepers : visit[s] \notin sweep[s]
    /\ \A r \in Requests : timedOut[r] > 0 =>
          /\ timedOut[r] = 1
          /\ \A s \in Sweepers : r \notin sweep[s] /\ visit[s] # r

\* A request leaves the pending set with its answer, ESCALATE included, or its time-out
\* and is never taken back into it.
OutcomeInv ==
    \A r \in Requests :
        responses[r] # "NONE" \/ timedOut[r] > 0 => r \notin pending

HOInv == MadeInv /\ OutcomeInv /\ LateInv

LEMMA ConstantTypes ==
    NoRequest \notin Requests /\ Timeout \in Nat /\ MaxTime \in Nat
    BY HumanOverrideAssumption

\* An answer names a request and decides it.
LEMMA AnswerType ==
    ASSUME HOTypeOK, NEW o \in Operators, answering[o] # Nothing
    PROVE  answering[o].request \in Requests /\ answering[o].decision \in Decisions
    BY DEF HOTypeOK, Answers

-----------------------------------------------------------------------------
(* What the steps of a sweeper do to it. *)

LEMMA VisitMoves ==
    ASSUME HOTypeOK, NEW s \in Sweepers, NEW r, NEW step, Visit(s, r, step)
    PROVE  /\ visit'[s] = r /\ swPc'[s] = step
           /\ \A t \in Sweepers : t # s => visit'[t] = visit[t] /\ swPc'[t] = swPc[t]
    BY DEF Visit, HOTypeOK

-----------------------------------------------------------------------------
(* Types. *)

LEMMA HOTypeInit ==
    ASSUME HOInit
    PROVE  HOTypeOK
    BY DEF HOInit, HOTypeOK

LEMMA HOTypeStep ==
    ASSUME HOTypeOK, [HONext]_hoVars
    PROVE  HOTypeOK'
<1> USE DEF HOTypeOK
<1>1. ASSUME NEW r \in Requests, RequestOverride(r) PROVE HOTypeOK'
  BY <1>1, ConstantTypes DEF RequestOverride, Expiry, sweepers
<1>2. ASSUME NEW r \in Requests, StoreContext(r) PROVE HOTypeOK'
  BY <1>2 DEF StoreContext, sweepers
<1>3. ASSUME NEW r \in Requests, PopContext(r) PROVE HOTypeOK'
  BY <1>3 DEF PopContext, sweepers
<1>4. ASSUME NEW o \in Operators, NEW r \in Requests,
             NEW decision \in Decisions, SubmitResponse(o, r, decision) PROVE HOTypeOK'
  BY <1>4 DEF SubmitResponse, Answers, sweepers
<1>5. ASSUME NEW o \in Operators, RecordResponse(o) PROVE HOTypeOK'
  BY <1>5, AnswerType DEF RecordResponse, sweepers
<1>6. ASSUME NEW s \in Sweepers, Snapshot(s) PROVE HOTypeOK'
  BY <1>6 DEF Snapshot, Unswept
<1>7. ASSUME NEW s \in Sweepers, NEW r \in Requests, Check(s, r) PROVE HOTypeOK'
  BY <1>7 DEF Check, Visit, Leave, Unswept
<1>8. ASSUME NEW s \in Sweepers, Known(s) PROVE HOTypeOK'
  BY <1>8 DEF Known, Visit, Leave, Unswept
<1>9. ASSUME NEW s \in Sweepers, CheckAgain(s) PROVE HOTypeOK'
  BY <1>9 DEF CheckAgain, Visit, Leave, Unswept
<1>10. ASSUME NEW s \in Sweepers, TimeOut(s) PROVE HOTypeOK'
  <2>1. timedOut' \in [Requests -> Nat]
    <3>1. \A q \in Requests : timedOut[q] + 1 \in Nat
      OBVIOUS
    <3>q. QED BY <1>10, <3>1, Zenon DEF TimeOut
  <2>q. QED BY <1>10, <2>1 DEF TimeOut, Visit, Leave
<1>11. CASE Tick
  BY <1>11 DEF Tick, sweepers
<1>12. CASE UNCHANGED hoVars
  BY <1>12 DEF hoVars, sweepers
<1>q. QED BY <1>1, <1>2, <1>3, <1>4, <1>5, <1>6, <1>7, <1>8, <1>9, <1>10, <1>11,
             <1>12 DEF HONext, Sweep

-----------------------------------------------------------------------------
(* The inductive invariant. *)

LEMMA InvInit ==
    ASSUME HOInit
    PROVE  HOInv /\ OnceInv
    BY ConstantTypes DEF HOInit, HOInv, MadeInv, Visiting, OutcomeInv, LateInv, OnceInv

\* The request is new: nobody has anything to do with it.
LEMMA RequestOverrideStep ==
    ASSUME HOTypeOK, HOTypeOK', HOInv, NEW r \in Requests, RequestOverride(r)
    PROVE  HOInv' /\ (OneSweeper /\ OnceInv => OnceInv')
<1> USE DEF HOInv
<1>0. /\ r \notin requested /\ requested' = requested \cup {r}
      /\ pending' = pending \cup {r}
      /\ \A q \in Requests : q # r => expiresAt'[q] = expiresAt[q]
      /\ UNCHANGED <<responses, answering, clock>>
      /\ UNCHANGED <<sweep, visit, swPc, timedOut>>
  BY DEF RequestOverride, sweepers, HOTypeOK
<1>1. MadeInv'
  BY <1>0 DEF MadeInv, Visiting, HOTypeOK
<1>2. OutcomeInv'
  BY <1>0 DEF OutcomeInv, MadeInv, HOTypeOK
<1>3. LateInv'
  BY <1>0 DEF LateInv, Late, MadeInv, Visiting, HOTypeOK
<1>4. OneSweeper /\ OnceInv => OnceInv'
  BY <1>0, ConstantTypes DEF OneSweeper, OnceInv, MadeInv, Visiting, OutcomeInv, HOTypeOK
<1>q. QED BY <1>1, <1>2, <1>3, <1>4

\* The stored contexts play no part.
LEMMA StoreContextStep ==
    ASSUME HOTypeOK, HOTypeOK', HOInv, NEW r \in Requests, StoreContext(r)
    PROVE  HOInv' /\ (OneSweeper /\ OnceInv => OnceInv')
<1> USE DEF HOInv
<1>0. /\ UNCHANGED <<requested, pending, responses, expiresAt, answering, clock>>
      /\ UNCHANGED <<sweep, visit, swPc, timedOut>>
  BY DEF StoreContext, sweepers
<1>1. MadeInv'
  BY <1>0 DEF MadeInv, Visiting, HOTypeOK
<1>2. OutcomeInv'
  BY <1>0 DEF OutcomeInv, MadeInv, HOTypeOK
<1>3. LateInv'
  BY <1>0 DEF LateInv, Late, MadeInv, Visiting, HOTypeOK
<1>4. OneSweeper /\ OnceInv => OnceInv'
  BY <1>0, ConstantTypes DEF OneSweeper, OnceInv, MadeInv, Visiting, OutcomeInv, HOTypeOK
<1>q. QED BY <1>1, <1>2, <1>3, <1>4

\* Neither does their removal.
LEMMA PopContextStep ==
    ASSUME HOTypeOK, HOTypeOK', HOInv, NEW r \in Requests, PopContext(r)
    PROVE  HOInv' /\ (OneSweeper /\ OnceInv => OnceInv')
<1> USE DEF HOInv
<1>0. /\ UNCHANGED <<requested, pending, responses, expiresAt, answering, clock>>
      /\ UNCHANGED <<sweep, visit, swPc, timedOut>>
  BY DEF PopContext, sweepers
<1>1. MadeInv'
  BY <1>0 DEF MadeInv, Visiting, HOTypeOK
<1>2. OutcomeInv'
  BY <1>0 DEF OutcomeInv, MadeInv, HOTypeOK
<1>3. LateInv'
  BY <1>0 DEF LateInv, Late, MadeInv, Visiting, HOTypeOK
<1>4. OneSweeper /\ OnceInv => OnceInv'
  BY <1>0, ConstantTypes DEF OneSweeper, OnceInv, MadeInv, Visiting, OutcomeInv, HOTypeOK
<1>q. QED BY <1>1, <1>2, <1>3, <1>4

\* An operator answers only what was requested.
LEMMA SubmitResponseStep ==
    ASSUME HOTypeOK, HOTypeOK', HOInv, NEW o \in Operators, NEW r \in Requests,
           NEW decision \in Decisions, SubmitResponse(o, r, decision)
    PROVE  HOInv' /\ (OneSweeper /\ OnceInv => OnceInv')
<1> USE DEF HOInv
<1>0. /\ r \in requested
      /\ answering'[o].request = r
      /\ \A p \in Operators : p # o => answering'[p] = answering[p]
      /\ UNCHANGED <<requested, pending, responses, expiresAt, clock>>
      /\ UNCHANGED <<sweep, visit, swPc, timedOut>>
  BY DEF SubmitResponse, sweepers, HOTypeOK
<1>1. MadeInv'
  BY <1>0 DEF MadeInv, Visiting, HOTypeOK
<1>2. OutcomeInv'
  BY <1>0 DEF OutcomeInv, MadeInv, HOTypeOK
<1>3. LateInv'
  BY <1>0 DEF LateInv, Late, MadeInv, Visiting, HOTypeOK
<1>4. OneSweeper /\ OnceInv => OnceInv'
  BY <1>0, ConstantTypes DEF OneSweeper, OnceInv, MadeInv, Visiting, OutcomeInv, HOTypeOK
<1>q. QED BY <1>1, <1>2, <1>3, <1>4

\* The answer is recorded and the request leaves the pending set together.
LEMMA RecordResponseStep ==
    ASSUME HOTypeOK, HOTypeOK', HOInv, NEW o \in Operators, RecordResponse(o)
    PROVE  HOInv' /\ (OneSweeper /\ OnceInv => OnceInv')
<1> USE DEF HOInv
<1>0. /\ answering[o] # Nothing /\ answering[o].request \in Requests
      /\ responses'[answering[o].request] # "NONE"
      /\ \A r \in Requests : r # answering[o].request => responses'[r] = responses[r]
      /\ pending' = pending \ {answering[o].request}
      /\ \A p \in Operators : p # o => answering'[p] = answering[p]
      /\ answering'[o] = Nothing
      /\ UNCHANGED <<requested, expiresAt, clock>>
      /\ UNCHANGED <<sweep, visit, swPc, timedOut>>
  BY AnswerType DEF RecordResponse, Decisions, sweepers, HOTypeOK
<1>1. MadeInv'
  BY <1>0 DEF MadeInv, Visiting, HOTypeOK
<1>2. OutcomeInv'
  BY <1>0 DEF OutcomeInv, MadeInv, HOTypeOK
<1>3. LateInv'
  BY <1>0 DEF LateInv, Late, MadeInv, Visiting, HOTypeOK
<1>4. OneSweeper /\ OnceInv => OnceInv'
  BY <1>0, ConstantTypes DEF OneSweeper, OnceInv, MadeInv, Visiting, OutcomeInv, HOTypeOK
<1>q. QED BY <1>1, <1>2, <1>3, <1>4

\* The snapshot holds pending requests, and none of them has an outcome.
LEMMA SnapshotStep ==
    ASSUME HOTypeOK, HOTypeOK', HOInv, NEW s \in Sweepers, Snapshot(s)
    PROVE  HOInv' /\ (OneSweeper /\ OnceInv => OnceInv')
<1> USE DEF HOInv
<1>0. /\ swPc[s] = "idle" /\ sweep[s] = {}
      /\ sweep'[s] = pending
      /\ \A t \in Sweepers : t # s => sweep'[t] = sweep[t]
      /\ UNCHANGED <<requested, pending, responses, expiresAt, answering, clock>>
      /\ UNCHANGED <<visit, swPc, timedOut>>
  BY DEF Snapshot, Unswept, HOTypeOK
<1>1. MadeInv'
  BY <1>0 DEF MadeInv, Visiting, HOTypeOK
<1>2. OutcomeInv'
  BY <1>0 DEF OutcomeInv, MadeInv, HOTypeOK
<1>3. LateInv'
  BY <1>0 DEF LateInv, Late, MadeInv, Visiting, HOTypeOK
<1>4. OneSweeper /\ OnceInv => OnceInv'
  BY <1>0, ConstantTypes DEF OneSweeper, OnceInv, MadeInv, Visiting, OutcomeInv, HOTypeOK
<1>q. QED BY <1>1, <1>2, <1>3, <1>4

\* The request leaves the snapshot as the sweeper turns to it.
LEMMA CheckStep ==
    ASSUME HOTypeOK, HOTypeOK', HOInv, NEW s \in Sweepers, NEW r \in Requests, Check(s, r)
    PROVE  HOInv' /\ (OneSweeper /\ OnceInv => OnceInv')
<1> USE DEF HOInv
<1>0. /\ swPc[s] = "idle" /\ r \in sweep[s]
      /\ sweep'[s] = sweep[s] \ {r}
      /\ \A t \in Sweepers : t # s => sweep'[t] = sweep[t]
      /\ \/ visit'[s] = r /\ swPc'[s] = "known"
         \/ visit'[s] = NoRequest /\ swPc'[s] = "idle"
      /\ \A t \in Sweepers : t # s => visit'[t] = visit[t] /\ swPc'[t] = swPc[t]
      /\ UNCHANGED <<requested, pending, responses, expiresAt, answering, clock>>
      /\ UNCHANGED timedOut
  BY VisitMoves DEF Check, Leave, Unswept, HOTypeOK
<1>1. MadeInv'
  BY <1>0 DEF MadeInv, Visiting, HOTypeOK
<1>2. OutcomeInv'
  BY <1>0 DEF OutcomeInv, MadeInv, HOTypeOK
<1>3. LateInv'
  BY <1>0 DEF LateInv, Late, MadeInv, Visiting, HOTypeOK
<1>4. OneSweeper /\ OnceInv => OnceInv'
  BY <1>0, ConstantTypes DEF OneSweeper, OnceInv, MadeInv, Visiting, OutcomeInv, HOTypeOK
<1>q. QED BY <1>1, <1>2, <1>3, <1>4

\* An unknown request that was answered may be popped.
LEMMA KnownStep ==
    ASSUME HOTypeOK, HOTypeOK', HOInv, NEW s \in Sweepers, Known(s)
    PROVE  HOInv' /\ (OneSweeper /\ OnceInv => OnceInv')
<1> USE DEF HOInv
<1>0. /\ swPc[s] = "known"
      /\ \/ visit'[s] = visit[s] /\ swPc'[s] = "again"
         \/ /\ visit'[s] = visit[s] /\ swPc'[s] = "pop"
            /\ responses[visit[s]] # "NONE"
         \/ visit'[s] = NoRequest /\ swPc'[s] = "idle"
      /\ \A t \in Sweepers : t # s => visit'[t] = visit[t] /\ swPc'[t] = swPc[t]
      /\ UNCHANGED <<requested, pending, responses, expiresAt, answering, clock>>
      /\ UNCHANGED <<sweep, timedOut>>
  BY VisitMoves DEF Known, Leave, Unswept, HOTypeOK
<1>1. MadeInv'
  BY <1>0 DEF MadeInv, Visiting, HOTypeOK
<1>2. OutcomeInv'
  BY <1>0 DEF OutcomeInv, MadeInv, HOTypeOK
<1>3. LateInv'
  BY <1>0 DEF LateInv, Late, MadeInv, Visiting, HOTypeOK
<1>4. OneSweeper /\ OnceInv => OnceInv'
  BY <1>0, ConstantTypes DEF OneSweeper, OnceInv, MadeInv, Visiting, OutcomeInv, HOTypeOK
<1>q. QED BY <1>1, <1>2, <1>3, <1>4

\* Whichever way is_expired says so, the request is late.
LEMMA CheckAgainStep ==
    ASSUME HOTypeOK, HOTypeOK', HOInv, NEW s \in Sweepers, CheckAgain(s)
    PROVE  HOInv' /\ (OneSweeper /\ OnceInv => OnceInv')
<1> USE DEF HOInv
<1>0. /\ swPc[s] = "again"
      /\ \/ /\ visit'[s] = visit[s] /\ swPc'[s] = "pop"
            /\ visit[s] \notin pending \/ clock > expiresAt[visit[s]]
         \/ visit'[s] = NoRequest /\ swPc'[s] = "idle"
      /\ \A t \in Sweepers : t # s => visit'[t] = visit[t] /\ swPc'[t] = swPc[t]
      /\ UNCHANGED <<requested, pending, responses, expiresAt, answering, clock>>
      /\ UNCHANGED <<sweep, timedOut>>
  BY VisitMoves DEF CheckAgain, IsExpired, Leave, Unswept, HOTypeOK
<1>1. MadeInv'
  BY <1>0 DEF MadeInv, Visiting, HOTypeOK
<1>2. OutcomeInv'
  BY <1>0 DEF OutcomeInv, MadeInv, HOTypeOK
<1>3. LateInv'
  BY <1>0 DEF LateInv, Late, MadeInv, Visiting, HOTypeOK
<1>4. OneSweeper /\ OnceInv => OnceInv'
  BY <1>0, ConstantTypes DEF OneSweeper, OnceInv, MadeInv, Visiting, OutcomeInv, HOTypeOK
<1>q. QED BY <1>1, <1>2, <1>3, <1>4

\* The request leaves the pending set with its time-out.
LEMMA TimeOutStep ==
    ASSUME HOTypeOK, HOTypeOK', HOInv, NEW s \in Sweepers, TimeOut(s)
    PROVE  HOInv' /\ (OneSweeper /\ OnceInv => OnceInv')
<1> USE DEF HOInv
<1>0. /\ swPc[s] = "pop" /\ visit[s] \in Requests
      /\ visit'[s] = NoRequest /\ swPc'[s] = "idle"
      /\ \A t \in Sweepers : t # s => visit'[t] = visit[t] /\ swPc'[t] = swPc[t]
      /\ pending' = pending \ {visit[s]}
      /\ timedOut'[visit[s]] = timedOut[visit[s]] + 1
      /\ \A r \in Requests : r # visit[s] => timedOut'[r] = timedOut[r]
      /\ UNCHANGED <<requested, responses, expiresAt, answering, clock, sweep>>
  BY VisitMoves DEF TimeOut, Leave, MadeInv, Visiting, HOTypeOK
<1>1. MadeInv'
  BY <1>0 DEF MadeInv, Visiting, HOTypeOK
<1>2. OutcomeInv'
  BY <1>0 DEF OutcomeInv, MadeInv, HOTypeOK
<1>3. LateInv'
  BY <1>0 DEF LateInv, Late, MadeInv, Visiting, HOTypeOK
<1>4. OneSweeper /\ OnceInv => OnceInv'
  BY <1>0, ConstantTypes DEF OneSweeper, OnceInv, MadeInv, Visiting, OutcomeInv, HOTypeOK
<1>q. QED BY <1>1, <1>2, <1>3, <1>4

\* What was late stays late.
LEMMA TickStep ==
    ASSUME HOTypeOK, HOInv, Tick
    PROVE  HOInv' /\ (OneSweeper /\ OnceInv => OnceInv')
<1> USE DEF HOInv, Tick, sweepers
<1>1. MadeInv' BY DEF MadeInv, Visiting
<1>2. OutcomeInv' BY DEF OutcomeInv
<1>3. LateInv' BY DEF LateInv, Late, MadeInv, Visiting, HOTypeOK
<1>4. OnceInv => OnceInv' BY DEF OnceInv
<1>q. QED BY <1>1, <1>2, <1>3, <1>4

LEMMA InvStep ==
    ASSUME HOTypeOK, HOInv, [HONext]_hoVars
    PROVE  HOInv' /\ (OneSweeper /\ OnceInv => OnceInv')
<1>0. HOTypeOK'
  BY HOTypeStep
<1>1. CASE UNCHANGED hoVars
  BY <1>1 DEF hoVars, sweepers, HOInv, MadeInv, Visiting, OutcomeInv, LateInv,
     Late, OnceInv
<1>2. CASE HONext
  BY <1>0, <1>2, RequestOverrideStep, StoreContextStep, PopContextStep,
     SubmitResponseStep, RecordResponseStep, SnapshotStep, CheckStep, KnownStep,
     CheckAgainStep, TimeOutStep, TickStep DEF HONext, Sweep
<1>q. QED BY <1>1, <1>2

-----------------------------------------------------------------------------
(* The theorems. *)

\* Every variable of the override interface and of its sweepers keeps its type.
THEOREM HOTypeCorrect == HOSpec => []HOTypeOK
<1>1. HOTypeOK /\ [HONext]_hoVars => HOTypeOK'
  BY HOTypeStep
<1>q. QED BY HOTypeInit, <1>1, PTL DEF HOSpec

\* Whatever the number of sweepers, what is not pending any more was answered or
\* its time had come.
THEOREM HOInvariantHolds == HOSpec => []HOInv
<1>1. HOInit => HOInv
  BY InvInit
<1>2. HOTypeOK /\ HOInv /\ [HONext]_hoVars => HOInv'
  BY InvStep
<1>q. QED BY <1>1, <1>2, HOTypeCorrect, PTL DEF HOSpec

\* Once the operators who were past the expiry check have recorded, the outcome of a
\* request is final, with any number of operators and sweepers.
THEOREM DecisionIsFinalHolds == HOSpec => DecisionIsFinal
<1> DEFINE Final == \A r \in Requests : Settled(r) => Settled(r)' /\ responses'[r] = responses[r]
<1>1. HOTypeOK /\ HOTypeOK' /\ HOInv /\ [HONext]_hoVars => [Final]_hoVars
  <2> SUFFICES ASSUME HOTypeOK, HOTypeOK', HOInv, HONext,
                      NEW r \in Requests, Settled(r)
               PROVE  Settled(r)' /\ responses'[r] = responses[r]
    OBVIOUS
  <2>0. r \notin pending /\ r # NoRequest
    BY ConstantTypes DEF HOInv, OutcomeInv, Settled, HOTypeOK
  <2>1. ASSUME NEW q \in Requests, \/ RequestOverride(q) \/ StoreContext(q) \/ PopContext(q)
        PROVE  Settled(r)' /\ responses'[r] = responses[r]
    BY <2>1 DEF RequestOverride, StoreContext, PopContext, Settled
  <2>2. ASSUME NEW q \in Requests, NEW o \in Operators, NEW d \in Decisions,
               SubmitResponse(o, q, d)
        PROVE  Settled(r)' /\ responses'[r] = responses[r]
    <3>1. q # r
      BY <2>0, <2>2 DEF SubmitResponse, IsExpired
    <3>2. \A p \in Operators : answering'[p].request # r
      BY <2>2, <3>1 DEF SubmitResponse, Settled, HOTypeOK
    <3>q. QED BY <2>2, <3>2 DEF SubmitResponse, Settled
  <2>3. ASSUME NEW o \in Operators, RecordResponse(o)
        PROVE  Settled(r)' /\ responses'[r] = responses[r]
    <3>1. answering[o].request # r
      BY DEF Settled
    <3>2. responses'[r] = responses[r]
      BY <2>3, <3>1 DEF RecordResponse, HOTypeOK
    <3>3. \A p \in Operators : answering'[p].request # r
      BY <2>0, <2>3 DEF RecordResponse, Settled, Nothing, HOTypeOK
    <3>q. QED BY <2>3, <3>2, <3>3 DEF RecordResponse, Settled
  <2>4. ASSUME NEW s \in Sweepers, Snapshot(s) \/ Known(s) \/ CheckAgain(s)
        PROVE  Settled(r)' /\ responses'[r] = responses[r]
    BY <2>4 DEF Snapshot, Known, CheckAgain, Unswept, Settled
  <2>5. ASSUME NEW s \in Sweepers, NEW q \in Requests, Check(s, q)
        PROVE  Settled(r)' /\ responses'[r] = responses[r]
    BY <2>5 DEF Check, Unswept, Settled
  <2>6. ASSUME NEW s \in Sweepers, TimeOut(s)
        PROVE  Settled(r)' /\ responses'[r] = responses[r]
    <3>1. timedOut[r] > 0 => timedOut'[r] > 0
      <4>1. timedOut'[r] = timedOut[r] \/ timedOut'[r] = timedOut[r] + 1
        BY <2>6 DEF TimeOut, HOTypeOK
      <4>q. QED BY <4>1 DEF HOTypeOK
    <3>q. QED BY <2>6, <3>1 DEF TimeOut, Settled
  <2>7. ASSUME Tick PROVE Settled(r)' /\ responses'[r] = responses[r]
    BY <2>7 DEF Tick, Settled
  <2>q. QED BY <2>1, <2>2, <2>3, <2>4, <2>5, <2>6, <2>7 DEF HONext, Sweep
<1>q. QED BY <1>1, HOTypeCorrect, HOInvariantHolds, PTL DEF HOSpec, DecisionIsFinal

\* One sweeper times a request out at most once, and nobody does before its time
\* unless it was answered.
THEOREM TimesOutOnceAndLateHolds ==
    ASSUME OneSweeper
    PROVE  HOSpec => []TimesOutOnceAndLate
<1>1. HOInit => OnceInv
  BY InvInit
<1>2. HOTypeOK /\ HOInv /\ OnceInv /\ [HONext]_hoVars => OnceInv'
  BY InvStep
<1>3. HOInv /\ OnceInv => TimesOutOnceAndLate
  BY DEF HOInv, LateInv, Late, OnceInv, TimesOutOnceAndLate
<1>q. QED BY <1>1, <1>2, <1>3, HOTypeCorrect, HOInvariantHolds, PTL DEF HOSpec

-----------------------------------------------------------------------------
(*                             THE KILL SWITCH                             *)

Call_ == [step : {"idle", "store", "open", "read", "commit"},
          kill : BOOLEAN, count : Nat]

\* What is held has no reset under way, which is why nothing can take it from the
\* segment.
HeldInv ==
    held => /\ segment.size = "full" /\ segment.kill
            /\ \A w \in Writers : ~ Resetting(w)

\* A writer about to commit has a count that is not too high, and, as long as
\* writes do not overlap, the one the segment holds.
CountInv ==
    /\ segment.count <= activations
    /\ ~ overlapped => segment.count = activations
    /\ \A w \in Writers : write[w].step = "commit" =>
           /\ write[w].count <= activations
           /\ ~ overlapped => write[w].count = segment.count

\* Two writers at work overlap.
OverlapInv ==
    \A v, w \in Writers : v # w /\ Busy(v) /\ Busy(w) => overlapped

\* The main loop is at nothing while the binary is down.
DownInv == ~ up => ~ Busy(Main)

KSInv == KSTypeOK /\ DownInv /\ HeldInv /\ OverlapInv /\ CountInv

-----------------------------------------------------------------------------
(* Types. *)

\* Every writer has a process.
LEMMA ProcessOfWriter ==
    ASSUME NEW w \in Writers
    PROVE  ProcessOf(w) \in Processes
    BY KillSwitchAssumption DEF Writers, Processes, ProcessOf

LEMMA KSTypeInit ==
    ASSUME KSInit
    PROVE  KSTypeOK
<1>1. segment \in [size : {"absent", "empty", "full"}, kill : BOOLEAN, count : Nat]
  BY DEF KSInit
<1>2. write \in [Writers -> Call_]
  BY DEF KSInit, Rest, Call_
<1>3. held \in BOOLEAN /\ overlapped \in BOOLEAN /\ up \in BOOLEAN
  BY Zenon DEF KSInit
<1>4. flag \in [Processes -> BOOLEAN] /\ killed \in [Routers -> BOOLEAN]
  BY DEF KSInit
<1>q. QED BY <1>1, <1>2, <1>3, <1>4 DEF KSInit, KSTypeOK, Signals, Call_

\* Every step keeps the type.
LEMMA KSTypeStep ==
    ASSUME KSTypeOK, [KSNext]_ksVars
    PROVE  KSTypeOK'
<1> USE DEF KSTypeOK, Signals
<1>1. ASSUME NEW c \in Callers, NEW kill \in BOOLEAN, Call(c, kill) PROVE KSTypeOK'
  BY <1>1 DEF Call, Begin, Counted, Writers, binary
<1>2. ASSUME NEW w \in Writers, Writes(w) \/ Fail(w) PROVE KSTypeOK'
  <2>1. CASE Store(w)
    BY <2>1, ProcessOfWriter DEF Store, binary, ghosts
  <2>2. CASE Open(w)
    <3>1. segment' \in [size : {"absent", "empty", "full"}, kill : BOOLEAN,
                        count : Nat]
      BY <2>2 DEF Open
    <3>2. write' \in [Writers -> Call_]
      BY <2>2 DEF Open, Call_
    <3>q. QED BY <2>2, <3>1, <3>2 DEF Open, Call_, binary, ghosts
  <2>3. CASE Read(w)
    <3>1. segment' \in [size : {"absent", "empty", "full"}, kill : BOOLEAN,
                        count : Nat]
      BY <2>3 DEF Read
    <3>2. write' \in [Writers -> Call_]
      <4>1. segment.count \in Nat
        OBVIOUS
      <4>2. write \in [Writers -> Call_]
        BY DEF Call_
      <4>3. [write[w] EXCEPT !.step = "commit", !.count = segment.count] \in Call_
        BY <4>1, <4>2 DEF Call_
      <4>4. write' = [write EXCEPT ![w] =
                        [write[w] EXCEPT !.step = "commit", !.count = segment.count]]
        BY <2>3, <4>2 DEF Read
      <4>q. QED BY <4>2, <4>3, <4>4
    <3>q. QED BY <2>3, <3>1, <3>2 DEF Read, Call_, binary, ghosts
  <2>4. CASE Commit(w)
    <3>1. write[w].kill \in BOOLEAN /\ write[w].count \in Nat
      OBVIOUS
    <3>2. CountAfter(w) \in Nat
      BY <3>1 DEF CountAfter
    <3>3. segment' \in [size : {"absent", "empty", "full"}, kill : BOOLEAN,
                        count : Nat]
      BY <2>4, <3>1, <3>2 DEF Commit, KillAfter
    <3>4. write' \in [Writers -> Call_]
      BY <2>4 DEF Commit, Rest, Call_
    <3>5. held' \in BOOLEAN
      BY <2>4, Zenon DEF Commit
    <3>6. activations' \in Nat
      BY <2>4, <3>1 DEF Commit
    <3>q. QED BY <2>4, <3>3, <3>4, <3>5, <3>6 DEF Commit, Call_, binary
  <2>5. CASE Fail(w)
    BY <2>5 DEF Fail, Fault, Rest, binary, ghosts
  <2>q. QED BY <1>2, <2>1, <2>2, <2>3, <2>4, <2>5 DEF Writes
<1>3. CASE Start
  BY <1>3 DEF Start, Begin, Counted, Writers
<1>4. ASSUME NEW s \in Signals, Signal(s) PROVE KSTypeOK'
  BY <1>4 DEF Signal, Counted, ghosts
<1>5. CASE Loop
  <2>1. CASE Exit
    BY <2>1 DEF Exit, Gone, Rest, ghosts
  <2>2. CASE Pass
    BY <2>2 DEF Pass, After, ghosts
  <2>3. ASSUME NEW s \in Signals, Serve(s) PROVE KSTypeOK'
    BY <2>3 DEF Serve, Begin, Taken, After, Writers
  <2>q. QED BY <1>5, <2>1, <2>2, <2>3 DEF Loop
<1>6. ASSUME NEW p \in Processes, Crash(p) PROVE KSTypeOK'
  <2>1. flag' \in [Processes -> BOOLEAN]
    BY <1>6 DEF Crash, Gone
  <2>2. write' \in [Writers -> Call_]
    BY <1>6 DEF Crash, Gone, Rest, Call_
  <2>3. up' \in BOOLEAN /\ signalled' \subseteq Signals /\ loop' \in Signals
    <3>1. CASE p = Binary
      BY <3>1, <1>6 DEF Crash
    <3>2. CASE p # Binary
      BY <3>2, <1>6 DEF Crash, binary
    <3>q. QED BY <3>1, <3>2
  <2>4. UNCHANGED <<segment, killed, held, activations, overlapped, calls>>
        /\ faults' \in Nat
    BY <1>6 DEF Crash, Gone, Fault, ghosts
  <2>q. QED BY <2>1, <2>2, <2>3, <2>4 DEF Call_
<1>7. ASSUME NEW g \in Routers, Poll(g) \/ PollFails(g) PROVE KSTypeOK'
  <2>1. Seen(g) \in BOOLEAN
    BY Zenon DEF Seen
  <2>2. killed' \in [Routers -> BOOLEAN]
    BY <1>7, <2>1 DEF Poll, PollFails
  <2>3. faults' \in Nat /\ calls' \in Nat
    BY <1>7 DEF Poll, PollFails, Fault
  <2>4. UNCHANGED <<segment, flag, write, binary, ghosts>>
    BY <1>7 DEF Poll, PollFails
  <2>q. QED BY <2>2, <2>3, <2>4 DEF ghosts, binary
<1>8. CASE UNCHANGED ksVars
  BY <1>8 DEF ksVars, ghosts, binary
<1>q. QED BY <1>1, <1>2, <1>3, <1>4, <1>5, <1>6, <1>7, <1>8 DEF KSNext

\* The state is of its type: a write is at one of its steps, the segment absent,
\* empty or full.
THEOREM KSTypeCorrect == KSSpec => []KSTypeOK
<1>1. KSTypeOK /\ [KSNext]_ksVars => KSTypeOK'
  BY KSTypeStep
<1>q. QED BY KSTypeInit, <1>1, PTL DEF KSSpec

-----------------------------------------------------------------------------
(* What each step does to the writers. *)

\* Writers that a step leaves as they were, or ends, are as idle or as far as before.
Quieter ==
    \A w \in Writers : write'[w] = write[w] \/ write'[w] = Rest

\* A writer that gets on with its write stays busy with the same one, and sets out
\* to commit with the count the segment holds.
Advances(w) ==
    /\ Busy(w) /\ write'[w].kill = write[w].kill
    /\ write'[w].step = "commit" => write'[w].count = segment.count
    /\ \A v \in Writers \ {w} : write'[v] = write[v]

\* The segment may be created or sized.
Untouched ==
    /\ UNCHANGED ghosts
    /\ segment'.kill = segment.kill /\ segment'.count = segment.count
    /\ segment.size = "full" => segment'.size = "full"

\* A writer that begins is the only one that becomes busy.
Begins(w, kill) ==
    /\ write'[w].step \in {"store", "open"} /\ write'[w].kill = kill
    /\ \A v \in Writers \ {w} : write'[v] = write[v]
    /\ ~ Busy(w)
    /\ held' = (held /\ kill)
    /\ overlapped' = (overlapped \/ \E v \in Writers : Busy(v))
    /\ UNCHANGED <<segment, activations>>

LEMMA BeginsOf ==
    ASSUME KSTypeOK, NEW w \in Writers, NEW kill \in BOOLEAN,
           NEW step \in {"store", "open"}, ~ Busy(w), UNCHANGED segment,
           Begin(w, step, kill)
    PROVE  Begins(w, kill)
    BY DEF Begin, Begins, KSTypeOK

\* Quieter keeps what the invariant says of the writers.
LEMMA QuieterKeeps ==
    ASSUME KSTypeOK, HeldInv, OverlapInv, CountInv, Quieter, Untouched
    PROVE  HeldInv' /\ OverlapInv' /\ CountInv'
<1>1. \A w \in Writers : Busy(w)' => Busy(w) /\ write'[w] = write[w]
  BY DEF Quieter, Busy, Rest
<1>2. \A w \in Writers : write'[w].step = "commit" => write'[w] = write[w]
  BY DEF Quieter, Rest
<1>3. HeldInv'
  BY <1>1 DEF HeldInv, Resetting, Untouched, ghosts
<1>4. OverlapInv'
  BY <1>1 DEF OverlapInv, Untouched, ghosts
<1>5. CountInv'
  BY <1>2 DEF CountInv, Untouched, ghosts
<1>q. QED BY <1>3, <1>4, <1>5

\* So does a writer that advances.
LEMMA AdvancesKeeps ==
    ASSUME KSTypeOK, HeldInv, OverlapInv, CountInv,
           NEW w \in Writers, Advances(w), Untouched
    PROVE  HeldInv' /\ OverlapInv' /\ CountInv'
<1>1. \A v \in Writers : Busy(v)' => Busy(v) /\ write'[v].kill = write[v].kill
  BY DEF Advances, Busy
<1>2. HeldInv'
  BY <1>1 DEF HeldInv, Resetting, Untouched, ghosts
<1>3. OverlapInv'
  BY <1>1 DEF OverlapInv, Untouched, ghosts
<1>4. CountInv'
  BY DEF CountInv, Advances, Untouched, ghosts
<1>q. QED BY <1>2, <1>3, <1>4

\* So does a writer that begins.
LEMMA BeginsKeeps ==
    ASSUME KSTypeOK, HeldInv, OverlapInv, CountInv,
           NEW w \in Writers, NEW kill \in BOOLEAN, Begins(w, kill)
    PROVE  HeldInv' /\ OverlapInv' /\ CountInv'
<1>1. HeldInv'
  <2> SUFFICES ASSUME held' PROVE HeldInv!2'
    BY DEF HeldInv
  <2>1. held /\ kill
    BY Zenon DEF Begins
  <2>2. \A v \in Writers : ~ Resetting(v)'
    BY <2>1 DEF HeldInv, Resetting, Busy, Begins
  <2>q. QED BY <2>1, <2>2 DEF HeldInv, Begins
<1>2. OverlapInv'
  <2> SUFFICES ASSUME NEW v \in Writers, NEW u \in Writers, v # u,
                      Busy(v)', Busy(u)'
               PROVE  overlapped'
    BY DEF OverlapInv
  <2>1. Busy(v) \/ Busy(u)
    BY DEF Busy, Begins
  <2>q. QED BY <2>1, Zenon DEF Begins
<1>3. CountInv'
  <2>1. \A v \in Writers : write'[v].step = "commit" => v # w /\ write'[v] = write[v]
    BY DEF Begins
  <2>2. ~ overlapped' => ~ overlapped
    BY Zenon DEF Begins
  <2>q. QED BY <2>1, <2>2 DEF CountInv, Begins
<1>q. QED BY <1>1, <1>2, <1>3

\* So does a commit: an activation is held only if no reset is under way, and it
\* counts from what it read.
LEMMA CommitKeeps ==
    ASSUME KSTypeOK, HeldInv, OverlapInv, CountInv, NEW w \in Writers, Commit(w)
    PROVE  HeldInv' /\ OverlapInv' /\ CountInv'
<1>1. /\ write[w].step = "commit" /\ write'[w] = Rest
      /\ \A v \in Writers \ {w} : write'[v] = write[v]
  BY DEF Commit, KSTypeOK
<1>2. \A v \in Writers : Busy(v)' => v # w /\ Busy(v)
  BY <1>1 DEF Busy, Rest
<1>3. HeldInv'
  <2> SUFFICES ASSUME held'
               PROVE  /\ segment'.size = "full" /\ segment'.kill
                      /\ \A v \in Writers : ~ Resetting(v)'
    BY DEF HeldInv
  <2>1. write[w].kill /\ \A v \in Writers : ~ Resetting(v)
    BY Zenon DEF Commit
  <2>2. segment'.size = "full" /\ segment'.kill
    BY <2>1 DEF Commit, KillAfter
  <2>3. \A v \in Writers : ~ Resetting(v)'
    BY <1>1, <1>2, <2>1 DEF Resetting
  <2>q. QED BY <2>2, <2>3
<1>4. OverlapInv'
  BY <1>2 DEF OverlapInv, Commit
<1>5. \A v \in Writers : write'[v].step = "commit" =>
         v # w /\ write'[v] = write[v] /\ overlapped
  <2>1. \A v \in Writers : write'[v].step = "commit" =>
           v # w /\ write'[v] = write[v]
    BY <1>1 DEF Rest
  <2>q. QED BY <1>1, <2>1 DEF OverlapInv, Busy
<1>6. segment'.count = CountAfter(w) /\ overlapped' = overlapped
  BY DEF Commit
<1>7. /\ segment'.count <= activations' /\ activations <= activations'
      /\ ~ overlapped => segment'.count = activations'
  <2>1. write[w].count \in Nat /\ activations \in Nat /\ segment.count \in Nat
    BY DEF KSTypeOK
  <2>2. /\ write[w].count <= activations
        /\ ~ overlapped => write[w].count = activations
    BY <1>1 DEF CountInv
  <2>3. CASE write[w].kill
    BY <1>6, <2>1, <2>2, <2>3 DEF Commit, CountAfter
  <2>4. CASE ~ write[w].kill
    BY <1>6, <2>1, <2>2, <2>4 DEF Commit, CountAfter
  <2>q. QED BY <2>3, <2>4
<1>8. CountInv'
  <2>1. \A v \in Writers : write'[v].step = "commit" =>
           overlapped' /\ write'[v].count <= activations'
    <3> SUFFICES ASSUME NEW v \in Writers, write'[v].step = "commit"
                 PROVE  overlapped' /\ write'[v].count <= activations'
      OBVIOUS
    <3>1. write[v].count <= activations /\ write'[v].count = write[v].count
      BY <1>5 DEF CountInv
    <3>2. write[v].count \in Nat /\ activations \in Nat /\ activations' \in Nat
      BY DEF KSTypeOK, Commit
    <3>q. QED BY <1>5, <1>6, <1>7, <3>1, <3>2
  <2>q. QED BY <1>6, <1>7, <2>1 DEF CountInv
<1>q. QED BY <1>3, <1>4, <1>8

\* The main loop starts and stops with its process.
LEMMA DownStep ==
    ASSUME KSTypeOK, DownInv, [KSNext]_ksVars
    PROVE  DownInv'
<1> USE KillSwitchAssumption DEF DownInv
<1>1. ASSUME NEW c \in Callers, NEW kill \in BOOLEAN, Call(c, kill) PROVE DownInv'
  <2>1. write'[Main] = write[Main] /\ up' = up
    BY <1>1 DEF Call, Begin, KSTypeOK, Writers, binary
  <2>q. QED BY <2>1 DEF Busy
<1>2. ASSUME NEW w \in Writers, Writes(w) \/ Fail(w) PROVE DownInv'
  <2>1. Busy(w) /\ up' = up /\ (w = Main \/ write'[Main] = write[Main])
    BY <1>2 DEF Writes, Store, Open, Read, Commit, Fail, Busy, KSTypeOK, Writers, binary
  <2>q. QED BY <2>1 DEF Busy
<1>3. CASE Start \/ \E s \in Signals : Signal(s) \/ Serve(s)
  <2>1. up \in BOOLEAN /\ up' \in BOOLEAN
    BY KSTypeStep DEF KSTypeOK
  <2>2. CASE Start
    BY <2>1, <2>2 DEF Start
  <2>3. ASSUME NEW s \in Signals, Signal(s) PROVE DownInv'
    BY <2>1, <2>3 DEF Signal
  <2>4. ASSUME NEW s \in Signals, Serve(s) PROVE DownInv'
    BY <2>1, <2>4 DEF Serve
  <2>q. QED BY <1>3, <2>2, <2>3, <2>4
<1>4. ASSUME NEW p \in Processes, Gone(p), p = Binary \/ UNCHANGED up PROVE DownInv'
  <2>1. write'[Main] = IF p = Binary THEN Rest ELSE write[Main]
    BY <1>4 DEF Gone, Writers, ProcessOf
  <2>q. QED BY <1>4, <2>1 DEF Busy, Rest
<1>5. CASE Exit
  BY <1>4, <1>5 DEF Exit, Processes
<1>6. ASSUME NEW p \in Processes, Crash(p) PROVE DownInv'
  BY <1>4, <1>6 DEF Crash, binary
<1>7. CASE UNCHANGED <<write, up>>
  BY <1>7 DEF Busy
<1>8. CASE Pass
  BY <1>7, <1>8 DEF Pass
<1>9. ASSUME NEW g \in Routers, Poll(g) \/ PollFails(g) PROVE DownInv'
  BY <1>7, <1>9 DEF Poll, PollFails, binary
<1>10. CASE UNCHANGED ksVars
  BY <1>7, <1>10 DEF ksVars, binary
<1>q. QED BY <1>1, <1>2, <1>3, <1>5, <1>6, <1>8, <1>9, <1>10 DEF KSNext, Loop

\* Every step is one of these.
LEMMA StepKeeps ==
    ASSUME KSTypeOK, DownInv, HeldInv, OverlapInv, CountInv, [KSNext]_ksVars
    PROVE  HeldInv' /\ OverlapInv' /\ CountInv'
<1> DEFINE Goal == HeldInv' /\ OverlapInv' /\ CountInv'
<1>1. ASSUME NEW c \in Callers, NEW kill \in BOOLEAN, Call(c, kill) PROVE Goal
  <2>1. Begins(c, kill)
    BY <1>1, BeginsOf DEF Call, Writers
  <2>q. QED BY <2>1, BeginsKeeps DEF Writers
<1>2. ASSUME NEW w \in Writers, Store(w) \/ Open(w) \/ Read(w) PROVE Goal
  <2>1. Advances(w)
    BY <1>2 DEF Store, Open, Read, Advances, Busy, KSTypeOK
  <2>2. Untouched
    BY <1>2 DEF Store, Open, Read, Untouched, KSTypeOK
  <2>q. QED BY <2>1, <2>2, AdvancesKeeps
<1>3. ASSUME NEW w \in Writers, Commit(w) PROVE Goal
  BY <1>3, CommitKeeps
<1>4. ASSUME NEW w \in Writers, Fail(w) PROVE Goal
  <2>1. Quieter
    BY <1>4 DEF Fail, Quieter, KSTypeOK
  <2>2. Untouched
    BY <1>4 DEF Fail, Untouched, KSTypeOK
  <2>q. QED BY <2>1, <2>2, QuieterKeeps
<1>5. CASE Start
  <2>1. Begins(Main, FALSE)
    <3>1. ~ Busy(Main)
      BY <1>5 DEF Start, DownInv
    <3>q. QED BY <1>5, <3>1, BeginsOf DEF Start, Writers
  <2>q. QED BY <2>1, BeginsKeeps DEF Writers
<1>6. ASSUME NEW s \in Signals, Serve(s) PROVE Goal
  <2>1. Begins(Main, s = "SIGUSR1")
    BY <1>6, BeginsOf DEF Serve, Writers
  <2>q. QED BY <2>1, BeginsKeeps DEF Writers
<1>7. CASE UNCHANGED <<segment, write, ghosts>>
  BY <1>7, QuieterKeeps DEF Quieter, Untouched
<1>8. ASSUME NEW p \in Processes, Gone(p) PROVE Goal
  <2>1. Quieter /\ Untouched
    BY <1>8 DEF Gone, Quieter, Untouched
  <2>q. QED BY <2>1, QuieterKeeps
<1>9. CASE Exit
  <2>1. Gone(Binary) /\ Binary \in Processes
    BY <1>9 DEF Exit, Processes
  <2>q. QED BY <1>8, <2>1
<1>10. ASSUME NEW p \in Processes, Crash(p) PROVE Goal
  BY <1>8, <1>10 DEF Crash
<1>11. CASE Pass \/ \E s \in Signals : Signal(s)
  BY <1>7, <1>11 DEF Pass, Signal, ghosts
<1>12. ASSUME NEW g \in Routers, Poll(g) \/ PollFails(g) PROVE Goal
  BY <1>7, <1>12 DEF Poll, PollFails, ghosts
<1>13. CASE UNCHANGED ksVars
  BY <1>7, <1>13 DEF ksVars, ghosts
<1>q. QED BY <1>1, <1>2, <1>3, <1>4, <1>5, <1>6, <1>9, <1>10, <1>11, <1>12, <1>13
             DEF KSNext, Writes, Loop

\* The invariant holds.
THEOREM KSInvariantHolds == KSSpec => []KSInv
<1>1. KSInit => KSInv
  <2> SUFFICES ASSUME KSInit PROVE KSInv
    OBVIOUS
  <2>1. \A w \in Writers : write[w].step = "idle"
    BY DEF KSInit, Rest
  <2>2. HeldInv
    BY Zenon DEF KSInit, HeldInv
  <2>3. OverlapInv
    BY <2>1 DEF OverlapInv, Busy
  <2>4. CountInv
    BY <2>1 DEF KSInit, CountInv
  <2>5. DownInv
    BY <2>1 DEF DownInv, Busy, Writers
  <2>q. QED BY KSTypeInit, <2>2, <2>3, <2>4, <2>5 DEF KSInv
<1>2. KSInv /\ [KSNext]_ksVars => KSInv'
  BY KSTypeStep, DownStep, StepKeeps DEF KSInv
<1>q. QED BY <1>1, <1>2, PTL DEF KSSpec

\* An activation stands in the segment until a reset, or a start, begins.
THEOREM HaltStandsHolds == KSSpec => []HaltStands
<1>1. KSInv => HaltStands
  BY DEF KSInv, HeldInv, HaltStands
<1>q. QED BY KSInvariantHolds, <1>1, PTL

\* The count is never too high, and right as long as writes do not overlap.
THEOREM CountsActivationsHolds == KSSpec => []CountsActivations
<1>1. KSInv => CountsActivations
  BY DEF KSInv, CountInv, CountsActivations
<1>q. QED BY KSInvariantHolds, <1>1, PTL

\* A router that has seen a halt does not open while it stands.
THEOREM HaltIsKeptHolds == KSSpec => HaltIsKept
<1> DEFINE Kept == \A g \in Routers : held /\ held' /\ killed[g] => killed'[g]
<1>1. KSInv /\ [KSNext]_ksVars => Kept
  <2> SUFFICES ASSUME KSInv, [KSNext]_ksVars, NEW g \in Routers, held, killed[g]
               PROVE  killed'[g]
    OBVIOUS
  <2>1. killed \in [Routers -> BOOLEAN] /\ segment.size = "full" /\ segment.kill
    BY DEF KSInv, KSTypeOK, HeldInv
  <2>2. ASSUME NEW h \in Routers, Poll(h) PROVE killed'[g]
    <3>1. Seen(h)
      BY <2>1, Zenon DEF Seen
    <3>q. QED BY <2>1, <2>2, <3>1 DEF Poll
  <2>3. ASSUME NEW h \in Routers, PollFails(h) PROVE killed'[g]
    BY <2>1, <2>3 DEF PollFails
  <2>4. CASE UNCHANGED killed
    BY <2>4
  <2>5. ASSUME NEW c \in Callers, NEW kill \in BOOLEAN, Call(c, kill)
        PROVE  UNCHANGED killed
    BY <2>5 DEF Call
  <2>6. ASSUME NEW w \in Writers, Writes(w) \/ Fail(w) PROVE UNCHANGED killed
    BY <2>6 DEF Writes, Store, Open, Read, Commit, Fail
  <2>7. ASSUME Start \/ Loop \/ \E s \in Signals : Signal(s) PROVE UNCHANGED killed
    BY <2>7 DEF Start, Loop, Exit, Gone, Pass, Serve, Signal
  <2>8. ASSUME NEW p \in Processes, Crash(p) PROVE UNCHANGED killed
    BY <2>8 DEF Crash, Gone
  <2>9. UNCHANGED ksVars => UNCHANGED killed
    BY DEF ksVars
  <2>q. QED BY <2>2, <2>3, <2>4, <2>5, <2>6, <2>7, <2>8, <2>9 DEF KSNext
<1>q. QED BY KSInvariantHolds, <1>1, PTL DEF HaltIsKept, KSSpec
=============================================================================
