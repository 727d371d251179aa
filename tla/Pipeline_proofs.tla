-------------------------- MODULE Pipeline_proofs --------------------------
(***************************************************************************)
(* Proofs about Pipeline: its types, the truth of its answers, what the    *)
(* retry check guarantees, the cap, and who may still offer on a halted    *)
(* replica, for any number of replicas, payments and calls.                *)
(***************************************************************************)
EXTENDS Pipeline, FiniteSetTheorems, TLAPS

Early == {"new", "redis", "memory", "screen", "gate", "decide", "deliver"}

\* Where a call stands tells whether its offer is out, and a call at work is at work
\* on a replica that lives.
StageInv ==
    \A n \in Calls :
        /\ call[n].step \in Early => n \notin Made
        /\ At(n, "log") => n \in Made
        /\ n \in requests => ~At(n, "new")
        /\ n \in Active => call[n].replica \in alive

TInv == TypeOK /\ StageInv /\ AnswerIsTrue

-----------------------------------------------------------------------------
(* How the steps of a call change it. *)

\* A call goes to another step, perhaps with an answer, and all else about it and
\* about the other calls stays as it is.
Moves(n, step, answer) ==
    /\ call' \in [Calls -> CallRecord]
    /\ call'[n].step = step /\ call'[n].answer = answer
    /\ call'[n].payment = call[n].payment /\ call'[n].replica = call[n].replica
    /\ call'[n].approve = call[n].approve
    /\ call'[n].replayed = call[n].replayed /\ call'[n].rekeyed = call[n].rekeyed
    /\ \A m \in Calls \ {n} : call'[m] = call[m]

Moved(n, step) == Moves(n, step, call[n].answer)
Answered(n, answer) == Moves(n, "record", answer)

\* A call that begins knows whether it is a replay, or a payment keyed again.
Begun(n, p, r) ==
    /\ At(n, "new") /\ r \in alive
    /\ call' \in [Calls -> CallRecord]
    /\ call'[n].step = "redis" /\ call'[n].answer = ""
    /\ call'[n].payment = p /\ call'[n].replica = r
    /\ call'[n].replayed =>
          \E m \in Made : At(m, "done") /\ call[m].payment = p
    /\ call'[n].rekeyed =>
          \E m \in Made : /\ At(m, "done") /\ call[m].replica = r
                          /\ SameDetails(call[m].payment, p)
    /\ \A m \in Calls \ {n} : call'[m] = call[m]

\* Goto moves one call.
LEMMA GotoMoves ==
    ASSUME TypeOK, NEW n \in Calls, NEW step \in Steps, Goto(n, step)
    PROVE  Moved(n, step)
BY DEF TypeOK, CallRecord, Goto, Moves, Moved

\* So do Return and RecordAndReturn, which answer as well.
LEMMA AnswerMoves ==
    ASSUME TypeOK, NEW n \in Calls, NEW step \in Steps, NEW answer \in Answers \cup {""},
           call' = [call EXCEPT ![n].step = step, ![n].answer = answer]
    PROVE  Moves(n, step, answer)
<1>1. call[n] \in CallRecord /\ call \in [Calls -> CallRecord]
  BY DEF TypeOK
<1>2. call'[n] = [call[n] EXCEPT !.step = step, !.answer = answer]
  BY <1>1 DEF CallRecord
<1>3. [call[n] EXCEPT !.step = step, !.answer = answer] \in CallRecord
  BY <1>1 DEF CallRecord
<1>4. \A m \in Calls \ {n} : call'[m] = call[m]
  BY <1>1
<1>5. call' \in [Calls -> CallRecord]
  BY <1>1, <1>2, <1>3, <1>4
<1> QED
  BY <1>1, <1>2, <1>4, <1>5 DEF CallRecord, Moves

\* The move behind each action of process.
LEMMA CallMoves ==
    ASSUME TypeOK, NEW n \in Calls
    PROVE  /\ CheckRedis(n) => \/ Moves(n, "done", "RETRY_BLOCKED")
                               \/ Moved(n, "memory") /\ call[n].payment \notin seen
           /\ CheckMemory(n) => \/ Moves(n, "done", "RETRY_BLOCKED")
                                \/ Moved(n, "screen") /\ ~Matches(call[n].payment, call[n].replica)
           /\ RefuseEarly(n) => Answered(n, "REFUSED")
           /\ Screen(n) => \/ Moved(n, "gate") /\ UnderCap
                           \/ Answered(n, "REFUSED")
                           \/ Answered(n, "PENDING_HUMAN_REVIEW")
           /\ ScreenUnavailable(n) => Answered(n, "AML_CHECK_UNAVAILABLE")
           /\ Throttle(n) => Answered(n, "HALT")
           /\ Gate(n) => \/ Answered(n, "HALT")
                         \/ Moved(n, "decide") /\ call[n].replica \notin halted
           /\ Decline(n) => Answered(n, "REFUSED")
           /\ Park(n) => Answered(n, "PENDING_HUMAN_REVIEW")
           /\ Proceed(n) => Moved(n, "deliver")
           /\ Deliver(n) => Moved(n, "log")
           /\ Log(n) => Answered(n, "OFFERED")
           /\ C7Raises(n) => Answered(n, "SYSTEM_ERROR")
           /\ Record(n) => Moved(n, "index")
           /\ Index(n) => Moved(n, "done")
           /\ Raise(n) => Moves(n, "raised", "")
<1>1. \A step \in Steps : Goto(n, step) => Moved(n, step)
  BY GotoMoves
<1>2. \A answer \in Answers : RecordAndReturn(n, answer) => Answered(n, answer)
  BY AnswerMoves DEF RecordAndReturn, Answered, Steps
<1>3. \A answer \in Answers : Return(n, answer) => Moves(n, "done", answer)
  BY AnswerMoves DEF Return, Steps
<1>4. Raise(n) => Moves(n, "raised", "")
  BY AnswerMoves DEF Raise, Steps
<1>5. CheckRedis(n) => \/ Moves(n, "done", "RETRY_BLOCKED")
                       \/ Moved(n, "memory") /\ call[n].payment \notin seen
  BY <1>1, <1>3 DEF CheckRedis, Steps, Answers
<1>6. CheckMemory(n) => \/ Moves(n, "done", "RETRY_BLOCKED")
                        \/ Moved(n, "screen") /\ ~Matches(call[n].payment, call[n].replica)
  BY <1>1, <1>3 DEF CheckMemory, Steps, Answers
<1>7. Screen(n) => \/ Moved(n, "gate") /\ UnderCap
                   \/ Answered(n, "REFUSED")
                   \/ Answered(n, "PENDING_HUMAN_REVIEW")
  BY <1>1, <1>2 DEF Screen, Steps, Answers
<1>8. Gate(n) => \/ Answered(n, "HALT")
                 \/ Moved(n, "decide") /\ call[n].replica \notin halted
  BY <1>1, <1>2 DEF Gate, Steps, Answers
<1>9. /\ RefuseEarly(n) => Answered(n, "REFUSED")
      /\ ScreenUnavailable(n) => Answered(n, "AML_CHECK_UNAVAILABLE")
      /\ Throttle(n) => Answered(n, "HALT")
      /\ Decline(n) => Answered(n, "REFUSED")
      /\ Park(n) => Answered(n, "PENDING_HUMAN_REVIEW")
      /\ Log(n) => Answered(n, "OFFERED")
      /\ C7Raises(n) => Answered(n, "SYSTEM_ERROR")
  BY <1>2 DEF RefuseEarly, ScreenUnavailable, Throttle, Decline, Park, Log, C7Raises, Answers
<1>10. /\ Proceed(n) => Moved(n, "deliver")
       /\ Deliver(n) => Moved(n, "log")
       /\ Record(n) => Moved(n, "index")
       /\ Index(n) => Moved(n, "done")
  BY <1>1 DEF Proceed, Deliver, Record, Index, Steps
<1> QED
  BY <1>4, <1>5, <1>6, <1>7, <1>8, <1>9, <1>10

\* A crash ends the calls at work on the replica and changes nothing else in a call.
Ended(n) ==
    /\ call'[n].step = "raised" /\ call'[n].answer = ""
    /\ call'[n].payment = call[n].payment /\ call'[n].replica = call[n].replica
    /\ call'[n].replayed = call[n].replayed /\ call'[n].rekeyed = call[n].rekeyed

CrashEnds(r) ==
    /\ call' \in [Calls -> CallRecord]
    /\ \A n \in Calls : IF n \in Active /\ call[n].replica = r
                        THEN Ended(n) ELSE call'[n] = call[n]

\* Begin notes a replay only of a payment whose call is done, with an offer out.
LEMMA BeginMoves ==
    ASSUME TypeOK, NEW n \in Calls, NEW p \in Payments, NEW r \in Replicas,
           NEW approve \in BOOLEAN, Begin(n, p, r, approve)
    PROVE  Begun(n, p, r)
BY DEF TypeOK, CallRecord, Steps, Begin, Begun

\* Crash ends calls and moves none on.
LEMMA CrashMoves ==
    ASSUME TypeOK, NEW r \in Replicas, Crash(r)
    PROVE  CrashEnds(r)
<1>1. call \in [Calls -> CallRecord]
  BY DEF TypeOK
<1>2. call' = [n \in Calls |-> IF n \in Active /\ call[n].replica = r
                              THEN [call[n] EXCEPT !.step = "raised", !.answer = ""]
                              ELSE call[n]]
  BY DEF Crash
<1>3. ASSUME NEW n \in Calls
      PROVE  [call[n] EXCEPT !.step = "raised", !.answer = ""] \in CallRecord
  <2>1. call[n] \in CallRecord
    BY <1>1
  <2>2. "raised" \in Steps /\ "" \in Answers \cup {""}
    BY DEF Steps
  <2> QED
    BY <2>1, <2>2 DEF CallRecord
<1>4. call' \in [Calls -> CallRecord]
  BY <1>1, <1>2, <1>3
<1>5. ASSUME NEW n \in Calls
      PROVE  IF n \in Active /\ call[n].replica = r THEN Ended(n) ELSE call'[n] = call[n]
  <2>1. CASE n \in Active /\ call[n].replica = r
    <3>1. call'[n] = [call[n] EXCEPT !.step = "raised", !.answer = ""]
      BY <1>2, <2>1
    <3>2. call[n] \in CallRecord
      BY <1>1
    <3> QED
      BY <2>1, <3>1, <3>2 DEF CallRecord, Ended
  <2>2. CASE ~ (n \in Active /\ call[n].replica = r)
    BY <1>2, <2>2
  <2> QED
    BY <2>1, <2>2
<1> QED
  BY <1>4, <1>5 DEF CrashEnds

-----------------------------------------------------------------------------
(* Types, stages and answers. *)

\* Every variable keeps its type, a call's step tells whether its offer is out, and
\* what a recorded call answers is what happened.
THEOREM TypeCorrect == Spec => []TInv
<1>1. Init => TInv
  <2> SUFFICES ASSUME Init PROVE TInv
    OBVIOUS
  <2>1. call \in [Calls -> CallRecord] /\ \A n \in Calls : call[n].step = "new"
    BY DEF Init, NoCall, CallRecord, Steps
  <2>2. \A n \in Calls : call[n].answer = ""
    BY DEF Init, NoCall
  <2>3. Made = {}
    BY DEF Init, Lifecycle!Init, Made
  <2>4. offer \in [Calls -> {"NONE", "PENDING"} \cup Lifecycle!Terminal] /\ funded = {}
    BY DEF Init, Lifecycle!Init
  <2>5. memory \in [Replicas -> SUBSET Payments] /\ window \in Nat
    BY DEF Init
  <2>6. faults \in 0 .. MaxFaults /\ crashes \in 0 .. MaxCrashes /\ halts \in 0 .. MaxHalts
    BY PipelineAssumption DEF Init
  <2>7. TypeOK
    BY <2>1, <2>2, <2>3, <2>4, <2>5, <2>6 DEF Init, TypeOK, Answers
  <2>8. StageInv /\ AnswerIsTrue
    BY <2>1, <2>3 DEF Init, StageInv, AnswerIsTrue, Active, At
  <2> QED
    BY <2>7, <2>8 DEF TInv
<1>2. TInv /\ [Next]_vars => TInv'
  <2> SUFFICES ASSUME TInv, [Next]_vars PROVE TInv'
    OBVIOUS
  <2> USE PipelineAssumption
  <2>1. ASSUME NEW n \in Calls, NEW p \in Payments, NEW r \in Replicas, NEW approve \in BOOLEAN,
              Begin(n, p, r, approve)
        PROVE  TInv'
    <3>1. Begun(n, p, r)
      BY <2>1, BeginMoves DEF TInv
    <3>2. TypeOK'
      <4>1. UNCHANGED <<seen, memory, window, alive, halted, draining, requests, approved,
                        offer, funded, called, logged, faults, crashes, halts>>
        BY <2>1 DEF Begin, tracker, overrides, offers, budget
      <4>2. UNCHANGED Made
        BY <4>1 DEF Made
      <4>3. \A m \in Calls :
               /\ call'[m].step # "new" =>
                     call'[m].payment \in Payments /\ call'[m].replica \in Replicas
               /\ call'[m].step \in {"record", "index", "done"} <=> call'[m].answer \in Answers
        BY <3>1 DEF Begun, TInv, TypeOK, Answers
      <4> QED
        BY <3>1, <4>1, <4>2, <4>3 DEF Begun, TInv, TypeOK
    <3>3. StageInv'
      <4>1. UNCHANGED <<requests, alive, offer>>
        BY <2>1 DEF Begin, overrides, offers
      <4> QED
        <5> SUFFICES ASSUME NEW m \in Calls
                     PROVE  /\ call'[m].step \in Early => m \notin Made'
                            /\ At(m, "log")' => m \in Made'
                            /\ m \in requests' => ~At(m, "new")'
                            /\ m \in Active' => call'[m].replica \in alive'
          BY DEF StageInv
        <5>1. CASE m = n
          BY <3>1, <4>1, <5>1 DEF Begun, TInv, StageInv, Early, Active, At, Made
        <5>2. CASE m # n
          BY <3>1, <4>1, <5>2 DEF Begun, TInv, StageInv, Early, Active, At, Made
        <5> QED
          BY <5>1, <5>2
    <3>4. AnswerIsTrue'
      <4>1. UNCHANGED <<Made, logged>>
        BY <2>1 DEF Begin, Made, offers
      <4>2. ~ (At(n, "record") \/ At(n, "index") \/ At(n, "done"))'
        BY <3>1 DEF Begun, At
      <4>3. \A m \in Calls \ {n} : call'[m] = call[m]
        BY <3>1 DEF Begun
      <4> QED
        BY <4>1, <4>2, <4>3 DEF AnswerIsTrue, TInv, At
    <3> QED
      BY <3>2, <3>3, <3>4 DEF TInv
  <2>2. ASSUME NEW n \in Calls, CheckRedis(n)
        PROVE  TInv'
    <3>1. \/ Moves(n, "done", "RETRY_BLOCKED")
          \/ Moved(n, "memory") /\ call[n].payment \notin seen
      BY <2>2, CallMoves DEF TInv
    <3>2. TypeOK'
      BY <2>2, <3>1 DEF CheckRedis, Moves, Moved, TypeOK, Answers, TInv, At, Made,
         tracker, overrides, offers, budget
    <3>3. StageInv'
      BY <2>2, <3>1 DEF CheckRedis, Moves, Moved, StageInv, Early, Active, TInv, At,
         Made, overrides, offers
    <3>4. AnswerIsTrue'
      BY <2>2, <3>1 DEF CheckRedis, Moves, Moved, AnswerIsTrue, StageInv, Early, TInv,
         At, Made, offers
    <3> QED
      BY <3>2, <3>3, <3>4 DEF TInv
  <2>3. ASSUME NEW n \in Calls, CheckMemory(n)
        PROVE  TInv'
    <3>1. \/ Moves(n, "done", "RETRY_BLOCKED")
          \/ Moved(n, "screen") /\ ~Matches(call[n].payment, call[n].replica)
      BY <2>3, CallMoves DEF TInv
    <3>2. TypeOK'
      BY <2>3, <3>1 DEF CheckMemory, Moves, Moved, TypeOK, Answers, TInv, At, Made,
         tracker, overrides, offers, budget
    <3>3. StageInv'
      BY <2>3, <3>1 DEF CheckMemory, Moves, Moved, StageInv, Early, Active, TInv, At,
         Made, overrides, offers
    <3>4. AnswerIsTrue'
      BY <2>3, <3>1 DEF CheckMemory, Moves, Moved, AnswerIsTrue, StageInv, Early, TInv,
         At, Made, offers
    <3> QED
      BY <3>2, <3>3, <3>4 DEF TInv
  <2>4. ASSUME NEW n \in Calls, RefuseEarly(n)
        PROVE  TInv'
    <3>1. Answered(n, "REFUSED")
      BY <2>4, CallMoves DEF TInv
    <3>2. TypeOK'
      BY <2>4, <3>1 DEF RefuseEarly, Moves, Answered, TypeOK, Answers, TInv, At, Made,
         tracker, overrides, offers, budget
    <3>3. StageInv'
      BY <2>4, <3>1 DEF RefuseEarly, Moves, Answered, StageInv, Early, Active, TInv, At,
         Made, overrides, offers
    <3>4. AnswerIsTrue'
      BY <2>4, <3>1 DEF RefuseEarly, Moves, Answered, AnswerIsTrue, StageInv, Early,
         TInv, At, Made, offers
    <3> QED
      BY <3>2, <3>3, <3>4 DEF TInv
  <2>5. ASSUME NEW n \in Calls, Screen(n)
        PROVE  TInv'
    <3>1. \/ Moved(n, "gate") /\ UnderCap
          \/ Answered(n, "REFUSED")
          \/ Answered(n, "PENDING_HUMAN_REVIEW")
      BY <2>5, CallMoves DEF TInv
    <3>2. TypeOK'
      BY <2>5, <3>1 DEF Screen, Moves, Moved, Answered, TypeOK, Answers, TInv, At, Made,
         tracker, overrides, offers, budget
    <3>3. StageInv'
      BY <2>5, <3>1 DEF Screen, Moves, Moved, Answered, StageInv, Early, Active, TInv,
         At, Made, overrides, offers
    <3>4. AnswerIsTrue'
      BY <2>5, <3>1 DEF Screen, Moves, Moved, Answered, AnswerIsTrue, StageInv, Early,
         TInv, At, Made, offers
    <3> QED
      BY <3>2, <3>3, <3>4 DEF TInv
  <2>6. ASSUME NEW n \in Calls, ScreenUnavailable(n)
        PROVE  TInv'
    <3>1. Answered(n, "AML_CHECK_UNAVAILABLE")
      BY <2>6, CallMoves DEF TInv
    <3>2. TypeOK'
      BY <2>6, <3>1 DEF ScreenUnavailable, Fault, Moves, Answered, TypeOK, Answers,
         TInv, At, Made, tracker, overrides, offers
    <3>3. StageInv'
      BY <2>6, <3>1 DEF ScreenUnavailable, Moves, Answered, StageInv, Early, Active,
         TInv, At, Made, overrides, offers
    <3>4. AnswerIsTrue'
      BY <2>6, <3>1 DEF ScreenUnavailable, Moves, Answered, AnswerIsTrue, StageInv,
         Early, TInv, At, Made, offers
    <3> QED
      BY <3>2, <3>3, <3>4 DEF TInv
  <2>7. ASSUME NEW n \in Calls, Gate(n)
        PROVE  TInv'
    <3>1. \/ Answered(n, "HALT")
          \/ Moved(n, "decide") /\ call[n].replica \notin halted
      BY <2>7, CallMoves DEF TInv
    <3>2. TypeOK'
      BY <2>7, <3>1 DEF Gate, Moves, Moved, Answered, TypeOK, Answers, TInv, At, Made,
         tracker, overrides, offers, budget
    <3>3. StageInv'
      BY <2>7, <3>1 DEF Gate, Moves, Moved, Answered, StageInv, Early, Active, TInv, At,
         Made, overrides, offers
    <3>4. AnswerIsTrue'
      BY <2>7, <3>1 DEF Gate, Moves, Moved, Answered, AnswerIsTrue, StageInv, Early,
         TInv, At, Made, offers
    <3> QED
      BY <3>2, <3>3, <3>4 DEF TInv
  <2>8. ASSUME NEW n \in Calls, Decline(n)
        PROVE  TInv'
    <3>1. Answered(n, "REFUSED")
      BY <2>8, CallMoves DEF TInv
    <3>2. TypeOK'
      BY <2>8, <3>1 DEF Decline, Moves, Answered, TypeOK, Answers, TInv, At, Made,
         tracker, overrides, offers, budget
    <3>3. StageInv'
      BY <2>8, <3>1 DEF Decline, Moves, Answered, StageInv, Early, Active, TInv, At,
         Made, overrides, offers
    <3>4. AnswerIsTrue'
      BY <2>8, <3>1 DEF Decline, Moves, Answered, AnswerIsTrue, StageInv, Early, TInv,
         At, Made, offers
    <3> QED
      BY <3>2, <3>3, <3>4 DEF TInv
  <2>9. ASSUME NEW n \in Calls, Park(n)
        PROVE  TInv'
    <3>1. Answered(n, "PENDING_HUMAN_REVIEW")
      BY <2>9, CallMoves DEF TInv
    <3>2. TypeOK'
      BY <2>9, <3>1 DEF Park, Moves, Answered, TypeOK, Answers, TInv, At, Made, tracker,
         offers, budget
    <3>3. StageInv'
      BY <2>9, <3>1 DEF Park, Moves, Answered, StageInv, Early, Active, TInv, At, Made,
         offers
    <3>4. AnswerIsTrue'
      BY <2>9, <3>1 DEF Park, Moves, Answered, AnswerIsTrue, StageInv, Early, TInv, At,
         Made, offers
    <3> QED
      BY <3>2, <3>3, <3>4 DEF TInv
  <2>10. ASSUME NEW n \in Calls, Proceed(n)
         PROVE  TInv'
    <3>1. Moved(n, "deliver")
      BY <2>10, CallMoves DEF TInv
    <3>2. TypeOK'
      BY <2>10, <3>1 DEF Proceed, Moves, Moved, TypeOK, TInv, At, Made, tracker,
         overrides, offers, budget
    <3>3. StageInv'
      BY <2>10, <3>1 DEF Proceed, Moves, Moved, StageInv, Early, Active, TInv, At, Made,
         overrides, offers
    <3>4. AnswerIsTrue'
      BY <2>10, <3>1 DEF Proceed, Moves, Moved, AnswerIsTrue, TInv, At, Made, offers
    <3> QED
      BY <3>2, <3>3, <3>4 DEF TInv
  <2>11. ASSUME NEW n \in Calls, Deliver(n)
         PROVE  TInv'
    <3>1. Moved(n, "log")
      BY <2>11, CallMoves DEF TInv
    <3>2. TypeOK'
      BY <2>11, <3>1 DEF Deliver, Lifecycle!Make, Moves, Moved, TypeOK, TInv, At, Made,
         tracker, overrides, budget
    <3>3. StageInv'
      BY <2>11, <3>1 DEF Deliver, Lifecycle!Make, Moves, Moved, TypeOK, StageInv, Early,
         Active, TInv, At, Made, overrides
    <3>4. AnswerIsTrue'
      BY <2>11, <3>1 DEF Deliver, Lifecycle!Make, Moves, Moved, AnswerIsTrue, TInv, At,
         Made
    <3> QED
      BY <3>2, <3>3, <3>4 DEF TInv
  <2>12. ASSUME NEW n \in Calls, Log(n)
         PROVE  TInv'
    <3>1. Answered(n, "OFFERED")
      BY <2>12, CallMoves DEF TInv
    <3>2. TypeOK'
      BY <2>12, <3>1 DEF Log, Moves, Answered, TypeOK, StageInv, Answers, TInv, At,
         Made, tracker, overrides, offers, budget
    <3>3. StageInv'
      BY <2>12, <3>1 DEF Log, Moves, Answered, StageInv, Early, Active, TInv, At, Made,
         overrides, offers
    <3>4. AnswerIsTrue'
      BY <2>12, <3>1 DEF Log, Moves, Answered, AnswerIsTrue, StageInv, TInv, At, Made,
         offers
    <3> QED
      BY <3>2, <3>3, <3>4 DEF TInv
  <2>13. ASSUME NEW n \in Calls, C7Raises(n)
         PROVE  TInv'
    <3>1. Answered(n, "SYSTEM_ERROR")
      BY <2>13, CallMoves DEF TInv
    <3>2. TypeOK'
      BY <2>13, <3>1 DEF C7Raises, Fault, Lifecycle!Make, Moves, Answered, TypeOK,
         Answers, TInv, Made, tracker, overrides
    <3>3. StageInv'
      BY <2>13, <3>1 DEF C7Raises, Lifecycle!Make, Moves, Answered, TypeOK, StageInv,
         Early, Active, TInv, At, Made, overrides
    <3>4. AnswerIsTrue'
      BY <2>13, <3>1 DEF C7Raises, Lifecycle!Make, Moves, Answered, TypeOK,
         AnswerIsTrue, TInv, At, Made
    <3> QED
      BY <3>2, <3>3, <3>4 DEF TInv
  <2>14. ASSUME NEW n \in Calls, Record(n)
         PROVE  TInv'
    <3>1. Moved(n, "index")
      BY <2>14, CallMoves DEF TInv
    <3>2. TypeOK'
      BY <2>14, <3>1 DEF Record, Moves, Moved, TypeOK, TInv, At, Made, overrides,
         offers, budget
    <3>3. StageInv'
      BY <2>14, <3>1 DEF Record, Moves, Moved, StageInv, Early, Active, TInv, At, Made,
         overrides, offers
    <3>4. AnswerIsTrue'
      BY <2>14, <3>1 DEF Record, Moves, Moved, AnswerIsTrue, TInv, At, Made, offers
    <3> QED
      BY <3>2, <3>3, <3>4 DEF TInv
  <2>15. ASSUME NEW n \in Calls, Index(n)
         PROVE  TInv'
    <3>1. Moved(n, "done")
      BY <2>15, CallMoves DEF TInv
    <3>2. TypeOK'
      BY <2>15, <3>1 DEF Index, Moves, Moved, TypeOK, TInv, At, Made, overrides, offers,
         budget
    <3>3. StageInv'
      BY <2>15, <3>1 DEF Index, Moves, Moved, StageInv, Early, Active, TInv, At, Made,
         overrides, offers
    <3>4. AnswerIsTrue'
      BY <2>15, <3>1 DEF Index, Moves, Moved, AnswerIsTrue, TInv, At, Made, offers
    <3> QED
      BY <3>2, <3>3, <3>4 DEF TInv
  <2>16. ASSUME NEW n \in Calls, Raise(n)
         PROVE  TInv'
    <3>1. Moves(n, "raised", "")
      BY <2>16, CallMoves DEF TInv
    <3>2. TypeOK'
      <4>1. seen' \subseteq Payments
        BY <2>16 DEF Raise, TInv, TypeOK
      <4>2. faults' \in 0 .. MaxFaults /\ UNCHANGED <<crashes, halts>>
        <5>1. faults \in 0 .. MaxFaults
          BY DEF TInv, TypeOK
        <5>2. faults < MaxFaults /\ faults' = faults + 1 /\ UNCHANGED <<crashes, halts>>
          BY <2>16 DEF Raise, Fault
        <5> QED
          BY <5>1, <5>2
      <4>3. UNCHANGED <<memory, window, alive, halted, draining, overrides, offers, logged>>
        BY <2>16 DEF Raise
      <4>4. call[n].step # "new"
        BY <2>16 DEF Raise
      <4> QED
        <5>1. UNCHANGED Made
          BY <4>3 DEF Made, offers
        <5>2. \A m \in Calls :
                 /\ call'[m].step # "new" =>
                       call'[m].payment \in Payments /\ call'[m].replica \in Replicas
                 /\ call'[m].step \in {"record", "index", "done"}
                       <=> call'[m].answer \in Answers
          <6> SUFFICES ASSUME NEW m \in Calls
                       PROVE  /\ call'[m].step # "new" => /\ call'[m].payment \in Payments
                                                          /\ call'[m].replica \in Replicas
                              /\ call'[m].step \in {"record", "index", "done"}
                                    <=> call'[m].answer \in Answers
            OBVIOUS
          <6>1. CASE m = n
            BY <3>1, <4>4, <6>1 DEF Moves, TInv, TypeOK, Answers
          <6>2. CASE m # n
            BY <3>1, <6>2 DEF Moves, TInv, TypeOK
          <6> QED
            BY <6>1, <6>2
        <5> QED
          BY <3>1, <4>1, <4>2, <4>3, <5>1, <5>2 DEF Moves, TInv, TypeOK, overrides, offers
    <3>3. StageInv'
      BY <2>16, <3>1 DEF Raise, Moves, StageInv, Early, Active, TInv, At, Made,
         overrides, offers
    <3>4. AnswerIsTrue'
      BY <2>16, <3>1 DEF Raise, Moves, AnswerIsTrue, TInv, At, Made, offers
    <3> QED
      BY <3>2, <3>3, <3>4 DEF TInv
  <2>17. ASSUME NEW n \in Calls, NEW answer \in Lifecycle!Terminal, Resolve(n, answer)
         PROVE  TInv'
    <3>1. TypeOK'
      BY <2>17 DEF Resolve, Lifecycle!Resolve, Lifecycle!Terminal, TypeOK, TInv, Made,
         tracker, overrides, budget
    <3>2. StageInv'
      BY <2>17 DEF Resolve, Lifecycle!Resolve, Lifecycle!Terminal, StageInv, Active,
         TInv, At, Made, overrides
    <3>3. AnswerIsTrue'
      BY <2>17 DEF Resolve, Lifecycle!Resolve, Lifecycle!Terminal, AnswerIsTrue, TInv,
         At, Made
    <3> QED
      BY <3>1, <3>2, <3>3 DEF TInv
  <2>18. ASSUME NEW n \in Calls, NEW recorded \in BOOLEAN, NEW registered \in BOOLEAN,
               Finalize(n, recorded, registered)
         PROVE  TInv'
    <3>1. TypeOK'
      BY <2>18 DEF Finalize, Lifecycle!Fund, Fault, TypeOK, TInv, Made, tracker,
         overrides, budget
    <3>2. StageInv'
      BY <2>18 DEF Finalize, Lifecycle!Fund, StageInv, Active, TInv, At, Made, overrides
    <3>3. AnswerIsTrue'
      BY <2>18 DEF Finalize, Lifecycle!Fund, AnswerIsTrue, TInv, At, Made
    <3> QED
      BY <3>1, <3>2, <3>3 DEF TInv
  <2>19. ASSUME NEW n \in Calls, Approve(n)
         PROVE  TInv'
    <3>1. TypeOK'
      BY <2>19 DEF Approve, TypeOK, StageInv, TInv, At, Made, tracker, offers, budget
    <3>2. StageInv'
      BY <2>19 DEF Approve, StageInv, Active, TInv, At, Made, offers
    <3>3. AnswerIsTrue'
      BY <2>19 DEF Approve, AnswerIsTrue, TInv, At, Made, offers
    <3> QED
      BY <3>1, <3>2, <3>3 DEF TInv
  <2>20. ASSUME NEW r \in Replicas, Halt(r)
         PROVE  TInv'
    <3>1. TypeOK'
      <4>1. draining' \subseteq Calls
        BY <2>20 DEF Halt, PastGate, TInv, TypeOK
      <4> QED
        BY <2>20, <4>1 DEF Halt, TypeOK, TInv, Made, tracker, overrides, offers
    <3>2. StageInv'
      BY <2>20 DEF Halt, StageInv, Active, TInv, At, Made, overrides, offers
    <3>3. AnswerIsTrue'
      BY <2>20 DEF Halt, AnswerIsTrue, TInv, At, Made, offers
    <3> QED
      BY <3>1, <3>2, <3>3 DEF TInv
  <2>21. ASSUME NEW r \in Replicas, Resume(r)
         PROVE  TInv'
    <3>1. TypeOK'
      BY <2>21 DEF Resume, TypeOK, TInv, Made, tracker, overrides, offers, budget
    <3>2. StageInv'
      BY <2>21 DEF Resume, StageInv, Active, TInv, At, Made, overrides, offers
    <3>3. AnswerIsTrue'
      BY <2>21 DEF Resume, AnswerIsTrue, TInv, At, Made, offers
    <3> QED
      BY <3>1, <3>2, <3>3 DEF TInv
  <2>22. ASSUME NEW r \in Replicas, Crash(r)
         PROVE  TInv'
    <3>1. CrashEnds(r)
      BY <2>22, CrashMoves DEF TInv
    <3>2. TypeOK'
      <4>1. memory' \in [Replicas -> SUBSET Payments] /\ alive' \subseteq Replicas
        BY <2>22 DEF Crash, TInv, TypeOK
      <4>2. /\ halted' \subseteq alive' /\ requests' \subseteq Calls
            /\ draining' \subseteq Calls
        BY <2>22 DEF Crash, TInv, TypeOK
      <4>3. crashes' \in 0 .. MaxCrashes
        <5>1. crashes \in 0 .. MaxCrashes
          BY DEF TInv, TypeOK
        <5>2. crashes < MaxCrashes /\ crashes' = crashes + 1
          BY <2>22 DEF Crash
        <5> QED
          BY <5>1, <5>2
      <4>4. UNCHANGED <<seen, window, approved, offers, logged, faults, halts>>
        BY <2>22 DEF Crash
      <4> QED
        BY <3>1, <4>1, <4>2, <4>3, <4>4 DEF CrashEnds, Ended, Active, TypeOK, Answers,
           TInv, Made, offers
    <3>3. StageInv'
      BY <2>22, <3>1 DEF Crash, Active, CrashEnds, Ended, StageInv, Early, TInv, At,
         Made, offers
    <3>4. AnswerIsTrue'
      BY <2>22, <3>1 DEF Crash, CrashEnds, Ended, AnswerIsTrue, TInv, At, Made, offers
    <3> QED
      BY <3>2, <3>3, <3>4 DEF TInv
  <2>23. CASE UNCHANGED vars
    <3>1. TypeOK'
      BY <2>23 DEF vars, TypeOK, TInv, Made, tracker, overrides, offers, budget
    <3>2. StageInv'
      BY <2>23 DEF vars, StageInv, Active, TInv, At, Made, overrides, offers
    <3>3. AnswerIsTrue'
      BY <2>23 DEF vars, AnswerIsTrue, TInv, At, Made, offers
    <3> QED
      BY <3>1, <3>2, <3>3 DEF TInv
  <2>24. ASSUME NEW n \in Calls, Throttle(n)
        PROVE  TInv'
    <3>1. Answered(n, "HALT")
      BY <2>24, CallMoves DEF TInv
    <3>2. TypeOK'
      BY <2>24, <3>1 DEF Throttle, Moves, Answered, TypeOK, Answers, TInv, At, Made,
         tracker, overrides, offers, budget
    <3>3. StageInv'
      BY <2>24, <3>1 DEF Throttle, Moves, Answered, StageInv, Early, Active, TInv, At,
         Made, overrides, offers
    <3>4. AnswerIsTrue'
      BY <2>24, <3>1 DEF Throttle, Moves, Answered, AnswerIsTrue, StageInv, Early,
         TInv, At, Made, offers
    <3> QED
      BY <3>2, <3>3, <3>4 DEF TInv
  <2> QED
    BY <2>1, <2>2, <2>3, <2>4, <2>5, <2>6, <2>7, <2>8, <2>9, <2>10, <2>11, <2>12, <2>13,
       <2>14, <2>15, <2>16, <2>17, <2>18, <2>19, <2>20, <2>21, <2>22, <2>23, <2>24 DEF Next,
       Process
<1> QED
  BY <1>1, <1>2, PTL DEF Spec

-----------------------------------------------------------------------------
(* What the retry check guarantees. *)

\* A call whose record is on its way, or that came back with an offer, is known to the
\* tracker: in Redis, and in its replica's memory as long as that lives.
RecordedInv ==
    \A n \in Calls :
        /\ At(n, "index") => call[n].payment \in seen
        /\ At(n, "done") /\ n \in Made =>
              /\ call[n].payment \in seen
              /\ call[n].replica \in alive => call[n].payment \in memory[call[n].replica]

\* A replay never gets past the key in Redis.
ReplayInv ==
    \A n \in Calls : call[n].replayed =>
        /\ call[n].step \in {"redis", "done", "raised"}
        /\ n \notin Made
        /\ call[n].payment \in seen

\* A payment keyed again never gets past the memory of the replica.
RekeyInv ==
    \A n \in Calls : call[n].rekeyed =>
        /\ call[n].step \in {"redis", "memory", "done", "raised"}
        /\ n \notin Made
        /\ call[n].step \in {"redis", "memory"} =>
              Matches(call[n].payment, call[n].replica)

RetryInv == RecordedInv /\ ReplayInv /\ RekeyInv

\* What the tracker knows of every call, and where a replay can stand.
THEOREM RetryInvariant == Spec => []RetryInv
<1>1. Init => RetryInv
  <2> SUFFICES ASSUME Init PROVE RetryInv
    OBVIOUS
  <2>1. \A n \in Calls : call[n].step = "new" /\ ~call[n].replayed /\ ~call[n].rekeyed
    BY DEF Init, NoCall
  <2> QED
    BY <2>1 DEF RetryInv, RecordedInv, ReplayInv, RekeyInv, At
<1>2. TInv /\ RetryInv /\ [Next]_vars => RetryInv'
  <2> SUFFICES ASSUME TInv, RetryInv, [Next]_vars PROVE RetryInv'
    OBVIOUS
  <2>1. ASSUME NEW n \in Calls, NEW p \in Payments, NEW r \in Replicas, NEW approve \in BOOLEAN,
              Begin(n, p, r, approve)
        PROVE  RetryInv'
    <3>1. Begun(n, p, r)
      BY <2>1, BeginMoves DEF TInv
    <3>2. RecordedInv'
      BY <2>1, <3>1 DEF Begin, Begun, RecordedInv, RetryInv, TInv, At, Made, tracker,
         offers
    <3>3. ReplayInv'
      <4>1. UNCHANGED <<seen, offer>>
        BY <2>1 DEF Begin, tracker, offers
      <4>2. \A m \in Calls : m \in Made' <=> m \in Made
        BY <4>1 DEF Made
      <4>3. n \notin Made
        BY <3>1 DEF Begun, TInv, StageInv, Early, At
      <4>4. call'[n].replayed => p \in seen
        BY <3>1 DEF Begun, RetryInv, RecordedInv, Made
      <4> QED
        BY <3>1, <4>1, <4>2, <4>3, <4>4 DEF Begun, RetryInv, ReplayInv
    <3>4. RekeyInv'
      <4>1. UNCHANGED <<memory, offer>>
        BY <2>1 DEF Begin, tracker, offers
      <4>2. \A m \in Calls : m \in Made' <=> m \in Made
        BY <4>1 DEF Made
      <4>3. n \notin Made
        BY <3>1 DEF Begun, TInv, StageInv, Early, At
      <4>4. call'[n].rekeyed => Matches(p, r)
        BY <3>1 DEF Begun, RetryInv, RecordedInv, Made, Matches, SameDetails
      <4> QED
        BY <3>1, <4>1, <4>2, <4>3, <4>4 DEF Begun, RetryInv, RekeyInv, Matches
    <3> QED
      BY <3>2, <3>3, <3>4 DEF RetryInv
  <2>2. ASSUME NEW n \in Calls, CheckRedis(n)
        PROVE  RetryInv'
    <3>1. \/ Moves(n, "done", "RETRY_BLOCKED")
          \/ Moved(n, "memory") /\ call[n].payment \notin seen
      BY <2>2, CallMoves DEF TInv
    <3>2. RecordedInv'
      BY <2>2, <3>1 DEF CheckRedis, Moves, Moved, RecordedInv, StageInv, Early,
         RetryInv, TInv, At, Made, tracker, offers
    <3>3. ReplayInv'
      BY <2>2, <3>1 DEF CheckRedis, Moves, Moved, ReplayInv, RetryInv, TInv, Made,
         tracker, offers
    <3>4. RekeyInv'
      BY <2>2, <3>1 DEF CheckRedis, Moves, Moved, RekeyInv, Matches, RetryInv, TInv, At,
         Made, tracker, offers
    <3> QED
      BY <3>2, <3>3, <3>4 DEF RetryInv
  <2>3. ASSUME NEW n \in Calls, CheckMemory(n)
        PROVE  RetryInv'
    <3>1. \/ Moves(n, "done", "RETRY_BLOCKED")
          \/ Moved(n, "screen") /\ ~Matches(call[n].payment, call[n].replica)
      BY <2>3, CallMoves DEF TInv
    <3>2. RecordedInv'
      BY <2>3, <3>1 DEF CheckMemory, Moves, Moved, RecordedInv, StageInv, Early,
         RetryInv, TInv, At, Made, tracker, offers
    <3>3. ReplayInv'
      BY <2>3, <3>1 DEF CheckMemory, Moves, Moved, ReplayInv, RetryInv, TInv, At, Made,
         tracker, offers
    <3>4. RekeyInv'
      <4>1. At(n, "memory") /\ UNCHANGED <<memory, offer>>
        BY <2>3 DEF CheckMemory, tracker, offers
      <4> QED
        BY <3>1, <4>1 DEF Moves, Moved, RekeyInv, Matches, RetryInv, At, Made
    <3> QED
      BY <3>2, <3>3, <3>4 DEF RetryInv
  <2>4. ASSUME NEW n \in Calls, RefuseEarly(n)
        PROVE  RetryInv'
    <3>1. Answered(n, "REFUSED")
      BY <2>4, CallMoves DEF TInv
    <3>2. RecordedInv'
      BY <2>4, <3>1 DEF RefuseEarly, Moves, Answered, RecordedInv, RetryInv, TInv, At,
         Made, tracker, offers
    <3>3. ReplayInv'
      BY <2>4, <3>1 DEF RefuseEarly, Moves, Answered, ReplayInv, RetryInv, TInv, At,
         Made, tracker, offers
    <3>4. RekeyInv'
      BY <2>4, <3>1 DEF RefuseEarly, Moves, Answered, RekeyInv, Matches, RetryInv, TInv,
         At, Made, tracker, offers
    <3> QED
      BY <3>2, <3>3, <3>4 DEF RetryInv
  <2>5. ASSUME NEW n \in Calls, Screen(n)
        PROVE  RetryInv'
    <3>1. \/ Moved(n, "gate") /\ UnderCap
          \/ Answered(n, "REFUSED")
          \/ Answered(n, "PENDING_HUMAN_REVIEW")
      BY <2>5, CallMoves DEF TInv
    <3>2. RecordedInv'
      BY <2>5, <3>1 DEF Screen, Moves, Moved, Answered, RecordedInv, RetryInv, TInv, At,
         Made, tracker, offers
    <3>3. ReplayInv'
      BY <2>5, <3>1 DEF Screen, Moves, Moved, Answered, ReplayInv, RetryInv, TInv, At,
         Made, tracker, offers
    <3>4. RekeyInv'
      BY <2>5, <3>1 DEF Screen, Moves, Moved, Answered, RekeyInv, Matches, RetryInv,
         TInv, At, Made, tracker, offers
    <3> QED
      BY <3>2, <3>3, <3>4 DEF RetryInv
  <2>6. ASSUME NEW n \in Calls, ScreenUnavailable(n)
        PROVE  RetryInv'
    <3>1. Answered(n, "AML_CHECK_UNAVAILABLE")
      BY <2>6, CallMoves DEF TInv
    <3>2. RecordedInv'
      BY <2>6, <3>1 DEF ScreenUnavailable, Moves, Answered, RecordedInv, RetryInv, TInv,
         At, Made, tracker, offers
    <3>3. ReplayInv'
      BY <2>6, <3>1 DEF ScreenUnavailable, Moves, Answered, ReplayInv, RetryInv, TInv,
         At, Made, tracker, offers
    <3>4. RekeyInv'
      BY <2>6, <3>1 DEF ScreenUnavailable, Moves, Answered, RekeyInv, Matches, RetryInv,
         TInv, At, Made, tracker, offers
    <3> QED
      BY <3>2, <3>3, <3>4 DEF RetryInv
  <2>7. ASSUME NEW n \in Calls, Gate(n)
        PROVE  RetryInv'
    <3>1. \/ Answered(n, "HALT")
          \/ Moved(n, "decide") /\ call[n].replica \notin halted
      BY <2>7, CallMoves DEF TInv
    <3>2. RecordedInv'
      BY <2>7, <3>1 DEF Gate, Moves, Moved, Answered, RecordedInv, RetryInv, TInv, At,
         Made, tracker, offers
    <3>3. ReplayInv'
      BY <2>7, <3>1 DEF Gate, Moves, Moved, Answered, ReplayInv, RetryInv, TInv, At,
         Made, tracker, offers
    <3>4. RekeyInv'
      BY <2>7, <3>1 DEF Gate, Moves, Moved, Answered, RekeyInv, Matches, RetryInv, TInv,
         At, Made, tracker, offers
    <3> QED
      BY <3>2, <3>3, <3>4 DEF RetryInv
  <2>8. ASSUME NEW n \in Calls, Decline(n)
        PROVE  RetryInv'
    <3>1. Answered(n, "REFUSED")
      BY <2>8, CallMoves DEF TInv
    <3>2. RecordedInv'
      BY <2>8, <3>1 DEF Decline, Moves, Answered, RecordedInv, RetryInv, TInv, At, Made,
         tracker, offers
    <3>3. ReplayInv'
      BY <2>8, <3>1 DEF Decline, Moves, Answered, ReplayInv, RetryInv, TInv, At, Made,
         tracker, offers
    <3>4. RekeyInv'
      BY <2>8, <3>1 DEF Decline, Moves, Answered, RekeyInv, Matches, RetryInv, TInv, At,
         Made, tracker, offers
    <3> QED
      BY <3>2, <3>3, <3>4 DEF RetryInv
  <2>9. ASSUME NEW n \in Calls, Park(n)
        PROVE  RetryInv'
    <3>1. Answered(n, "PENDING_HUMAN_REVIEW")
      BY <2>9, CallMoves DEF TInv
    <3>2. RecordedInv'
      BY <2>9, <3>1 DEF Park, Moves, Answered, RecordedInv, RetryInv, TInv, At, Made,
         tracker, offers
    <3>3. ReplayInv'
      BY <2>9, <3>1 DEF Park, Moves, Answered, ReplayInv, RetryInv, TInv, At, Made,
         tracker, offers
    <3>4. RekeyInv'
      BY <2>9, <3>1 DEF Park, Moves, Answered, RekeyInv, Matches, RetryInv, TInv, At,
         Made, tracker, offers
    <3> QED
      BY <3>2, <3>3, <3>4 DEF RetryInv
  <2>10. ASSUME NEW n \in Calls, Proceed(n)
         PROVE  RetryInv'
    <3>1. Moved(n, "deliver")
      BY <2>10, CallMoves DEF TInv
    <3>2. RecordedInv'
      BY <2>10, <3>1 DEF Proceed, Moves, Moved, RecordedInv, RetryInv, TInv, At, Made,
         tracker, offers
    <3>3. ReplayInv'
      BY <2>10, <3>1 DEF Proceed, Moves, Moved, ReplayInv, RetryInv, TInv, At, Made,
         tracker, offers
    <3>4. RekeyInv'
      BY <2>10, <3>1 DEF Proceed, Moves, Moved, RekeyInv, Matches, RetryInv, TInv, At,
         Made, tracker, offers
    <3> QED
      BY <3>2, <3>3, <3>4 DEF RetryInv
  <2>11. ASSUME NEW n \in Calls, Deliver(n)
         PROVE  RetryInv'
    <3>1. Moved(n, "log")
      BY <2>11, CallMoves DEF TInv
    <3>2. RecordedInv'
      BY <2>11, <3>1 DEF Deliver, Lifecycle!Make, Moves, Moved, RecordedInv, RetryInv,
         TInv, At, Made, tracker
    <3>3. ReplayInv'
      BY <2>11, <3>1 DEF Deliver, Lifecycle!Make, Moves, Moved, ReplayInv, RetryInv,
         TInv, At, Made, tracker
    <3>4. RekeyInv'
      BY <2>11, <3>1 DEF Deliver, Lifecycle!Make, Moves, Moved, RekeyInv, Matches,
         RetryInv, TInv, At, Made, tracker
    <3> QED
      BY <3>2, <3>3, <3>4 DEF RetryInv
  <2>12. ASSUME NEW n \in Calls, Log(n)
         PROVE  RetryInv'
    <3>1. Answered(n, "OFFERED")
      BY <2>12, CallMoves DEF TInv
    <3>2. RecordedInv'
      BY <2>12, <3>1 DEF Log, Moves, Answered, RecordedInv, RetryInv, TInv, At, Made,
         tracker, offers
    <3>3. ReplayInv'
      BY <2>12, <3>1 DEF Log, Moves, Answered, ReplayInv, RetryInv, TInv, At, Made,
         tracker, offers
    <3>4. RekeyInv'
      BY <2>12, <3>1 DEF Log, Moves, Answered, RekeyInv, Matches, RetryInv, TInv, At,
         Made, tracker, offers
    <3> QED
      BY <3>2, <3>3, <3>4 DEF RetryInv
  <2>13. ASSUME NEW n \in Calls, C7Raises(n)
         PROVE  RetryInv'
    <3>1. Answered(n, "SYSTEM_ERROR")
      BY <2>13, CallMoves DEF TInv
    <3>2. RecordedInv'
      BY <2>13, <3>1 DEF C7Raises, Lifecycle!Make, Moves, Answered, RecordedInv, TypeOK,
         RetryInv, TInv, At, Made, tracker
    <3>3. ReplayInv'
      BY <2>13, <3>1 DEF C7Raises, Lifecycle!Make, Moves, Answered, ReplayInv, TypeOK,
         RetryInv, TInv, Made, tracker
    <3>4. RekeyInv'
      BY <2>13, <3>1 DEF C7Raises, Lifecycle!Make, Moves, Answered, RekeyInv, Matches,
         TypeOK, RetryInv, TInv, Made, tracker
    <3> QED
      BY <3>2, <3>3, <3>4 DEF RetryInv
  <2>14. ASSUME NEW n \in Calls, Record(n)
         PROVE  RetryInv'
    <3>1. Moved(n, "index")
      BY <2>14, CallMoves DEF TInv
    <3>2. RecordedInv'
      BY <2>14, <3>1 DEF Record, Moves, Moved, RecordedInv, RetryInv, TInv, At, Made,
         offers
    <3>3. ReplayInv'
      BY <2>14, <3>1 DEF Record, Moves, Moved, ReplayInv, RetryInv, TInv, At, Made,
         offers
    <3>4. RekeyInv'
      BY <2>14, <3>1 DEF Record, Moves, Moved, RekeyInv, Matches, RetryInv, TInv, At,
         Made, offers
    <3> QED
      BY <3>2, <3>3, <3>4 DEF RetryInv
  <2>15. ASSUME NEW n \in Calls, Index(n)
         PROVE  RetryInv'
    <3>1. Moved(n, "done")
      BY <2>15, CallMoves DEF TInv
    <3>2. RecordedInv'
      BY <2>15, <3>1 DEF Index, Moves, Moved, RecordedInv, TypeOK, RetryInv, TInv, At,
         Made, offers
    <3>3. ReplayInv'
      BY <2>15, <3>1 DEF Index, Moves, Moved, ReplayInv, RetryInv, TInv, Made, offers
    <3>4. RekeyInv'
      BY <2>15, <3>1 DEF Index, Moves, Moved, RekeyInv, Matches, RetryInv, TInv, Made,
         offers
    <3> QED
      BY <3>2, <3>3, <3>4 DEF RetryInv
  <2>16. ASSUME NEW n \in Calls, Raise(n)
         PROVE  RetryInv'
    <3>1. Moves(n, "raised", "")
      BY <2>16, CallMoves DEF TInv
    <3>2. RecordedInv'
      BY <2>16, <3>1 DEF Raise, Moves, RecordedInv, RetryInv, TInv, At, Made, offers
    <3>3. ReplayInv'
      BY <2>16, <3>1 DEF Raise, Moves, ReplayInv, RetryInv, TInv, Made, offers
    <3>4. RekeyInv'
      <4>1. UNCHANGED <<memory, offer>>
        BY <2>16 DEF Raise, offers
      <4> QED
        BY <3>1, <4>1 DEF Moves, RekeyInv, Matches, RetryInv, Made
    <3> QED
      BY <3>2, <3>3, <3>4 DEF RetryInv
  <2>17. ASSUME NEW n \in Calls, NEW answer \in Lifecycle!Terminal, Resolve(n, answer)
         PROVE  RetryInv'
    <3>1. RecordedInv'
      BY <2>17 DEF Resolve, Lifecycle!Resolve, Lifecycle!Terminal, RecordedInv,
         RetryInv, TInv, At, Made, tracker
    <3>2. ReplayInv'
      BY <2>17 DEF Resolve, Lifecycle!Resolve, Lifecycle!Terminal, ReplayInv, RetryInv,
         TInv, Made, tracker
    <3>3. RekeyInv'
      BY <2>17 DEF Resolve, Lifecycle!Resolve, Lifecycle!Terminal, RekeyInv, Matches,
         RetryInv, TInv, Made, tracker
    <3> QED
      BY <3>1, <3>2, <3>3 DEF RetryInv
  <2>18. ASSUME NEW n \in Calls, NEW recorded \in BOOLEAN, NEW registered \in BOOLEAN,
               Finalize(n, recorded, registered)
         PROVE  RetryInv'
    <3>1. RecordedInv'
      BY <2>18 DEF Finalize, Lifecycle!Fund, RecordedInv, RetryInv, TInv, At, Made,
         tracker
    <3>2. ReplayInv'
      BY <2>18 DEF Finalize, Lifecycle!Fund, ReplayInv, RetryInv, TInv, Made, tracker
    <3>3. RekeyInv'
      BY <2>18 DEF Finalize, Lifecycle!Fund, RekeyInv, Matches, RetryInv, TInv, Made,
         tracker
    <3> QED
      BY <3>1, <3>2, <3>3 DEF RetryInv
  <2>19. ASSUME NEW n \in Calls, Approve(n)
         PROVE  RetryInv'
    <3>1. RecordedInv'
      BY <2>19 DEF Approve, RecordedInv, RetryInv, TInv, At, Made, tracker, offers
    <3>2. ReplayInv'
      BY <2>19 DEF Approve, ReplayInv, RetryInv, TInv, Made, tracker, offers
    <3>3. RekeyInv'
      BY <2>19 DEF Approve, RekeyInv, Matches, RetryInv, TInv, Made, tracker, offers
    <3> QED
      BY <3>1, <3>2, <3>3 DEF RetryInv
  <2>20. ASSUME NEW r \in Replicas, Halt(r)
         PROVE  RetryInv'
    <3>1. RecordedInv'
      BY <2>20 DEF Halt, RecordedInv, RetryInv, TInv, At, Made, tracker, offers
    <3>2. ReplayInv'
      BY <2>20 DEF Halt, ReplayInv, RetryInv, TInv, Made, tracker, offers
    <3>3. RekeyInv'
      BY <2>20 DEF Halt, RekeyInv, Matches, RetryInv, TInv, Made, tracker, offers
    <3> QED
      BY <3>1, <3>2, <3>3 DEF RetryInv
  <2>21. ASSUME NEW r \in Replicas, Resume(r)
         PROVE  RetryInv'
    <3>1. RecordedInv'
      BY <2>21 DEF Resume, RecordedInv, RetryInv, TInv, At, Made, tracker, offers
    <3>2. ReplayInv'
      BY <2>21 DEF Resume, ReplayInv, RetryInv, TInv, Made, tracker, offers
    <3>3. RekeyInv'
      BY <2>21 DEF Resume, RekeyInv, Matches, RetryInv, TInv, Made, tracker, offers
    <3> QED
      BY <3>1, <3>2, <3>3 DEF RetryInv
  <2>22. ASSUME NEW r \in Replicas, Crash(r)
         PROVE  RetryInv'
    <3>1. CrashEnds(r)
      BY <2>22, CrashMoves DEF TInv
    <3>2. RecordedInv'
      BY <2>22, <3>1 DEF Crash, CrashEnds, Ended, RecordedInv, TypeOK, RetryInv, TInv,
         At, Made, offers
    <3>3. ReplayInv'
      <4>1. UNCHANGED <<seen, offer>>
        BY <2>22 DEF Crash, offers
      <4> QED
        BY <3>1, <4>1 DEF CrashEnds, Ended, RetryInv, ReplayInv, Made
    <3>4. RekeyInv'
      BY <2>22, <3>1 DEF Crash, Active, CrashEnds, Ended, RekeyInv, Matches, TypeOK,
         RetryInv, TInv, Made, offers
    <3> QED
      BY <3>2, <3>3, <3>4 DEF RetryInv
  <2>23. CASE UNCHANGED vars
    <3>1. RecordedInv'
      BY <2>23 DEF vars, RecordedInv, RetryInv, TInv, At, Made, tracker, offers
    <3>2. ReplayInv'
      BY <2>23 DEF vars, ReplayInv, RetryInv, TInv, Made, tracker, offers
    <3>3. RekeyInv'
      BY <2>23 DEF vars, RekeyInv, Matches, RetryInv, TInv, Made, tracker, offers
    <3> QED
      BY <3>1, <3>2, <3>3 DEF RetryInv
  <2>24. ASSUME NEW n \in Calls, Throttle(n)
        PROVE  RetryInv'
    <3>1. Answered(n, "HALT")
      BY <2>24, CallMoves DEF TInv
    <3>2. RecordedInv'
      BY <2>24, <3>1 DEF Throttle, Moves, Answered, RecordedInv, RetryInv, TInv, At,
         Made, tracker, offers
    <3>3. ReplayInv'
      BY <2>24, <3>1 DEF Throttle, Moves, Answered, ReplayInv, RetryInv, TInv, At,
         Made, tracker, offers
    <3>4. RekeyInv'
      BY <2>24, <3>1 DEF Throttle, Moves, Answered, RekeyInv, Matches, RetryInv, TInv,
         At, Made, tracker, offers
    <3> QED
      BY <3>2, <3>3, <3>4 DEF RetryInv
  <2> QED
    BY <2>1, <2>2, <2>3, <2>4, <2>5, <2>6, <2>7, <2>8, <2>9, <2>10, <2>11, <2>12, <2>13,
       <2>14, <2>15, <2>16, <2>17, <2>18, <2>19, <2>20, <2>21, <2>22, <2>23, <2>24 DEF Next,
       Process
<1> QED
  BY <1>1, <1>2, TypeCorrect, PTL DEF Spec

\* A payment submitted again after its offer came back gets no second one, nor does
\* one keyed again where the first offer was made.
THEOREM RetryIsNotOfferedHolds == Spec => []RetryIsNotOffered
<1>1. RetryInv => RetryIsNotOffered
  BY DEF RetryInv, ReplayInv, RekeyInv, RetryIsNotOffered, Made
<1> QED
  BY <1>1, RetryInvariant, PTL

\* What a recorded call answers is what happened.
THEOREM AnswerIsTrueHolds == Spec => []AnswerIsTrue
<1>1. TInv => AnswerIsTrue
  BY DEF TInv
<1> QED
  BY <1>1, TypeCorrect, PTL

-----------------------------------------------------------------------------
(* The cap. *)

\* The calls that entered the window and may still make an offer, or have made it.
Entered == {n \in Calls : call[n].step \in {"gate", "decide", "deliver", "log"}} \cup Made

\* Each has an entry of its own, and there are no more of them than the cap.
CapInv ==
    /\ Cardinality(Entered) <= window
    /\ Cardinality(Entered) <= Cap

\* A step lets one more call in, against one more entry below the cap, or none.
LetsIn == \E n \in Calls : /\ Entered' \subseteq Entered \cup {n}
                           /\ window < Cap /\ window' = window + 1
LetsNoneIn == Entered' \subseteq Entered /\ window' \in Nat /\ window' >= window

\* Only C6's check lets a call in, and it counts it.
LEMMA EveryStepCounts ==
    ASSUME TInv, [Next]_vars
    PROVE  LetsIn \/ LetsNoneIn
<1>1. ASSUME NEW n \in Calls, NEW p \in Payments, NEW r \in Replicas, NEW approve \in BOOLEAN,
            Begin(n, p, r, approve)
      PROVE  LetsIn \/ LetsNoneIn
  <2>1. Begun(n, p, r)
    BY <1>1, BeginMoves DEF TInv
  <2>2. UNCHANGED <<window, offer>>
    BY <1>1 DEF Begin, offers
  <2>3. Entered' \subseteq Entered
    BY <2>1, <2>2 DEF Begun, Entered, Made
  <2>4. window' \in Nat /\ window' >= window
    BY <2>2 DEF TInv, TypeOK
  <2> QED
    BY <2>3, <2>4 DEF LetsNoneIn
<1>2. ASSUME NEW n \in Calls, CheckRedis(n)
      PROVE  LetsIn \/ LetsNoneIn
  <2>1. \/ Moves(n, "done", "RETRY_BLOCKED")
        \/ Moved(n, "memory") /\ call[n].payment \notin seen
    BY <1>2, CallMoves DEF TInv
  <2> QED
    BY <1>2, <2>1 DEF CheckRedis, Moves, Moved, LetsNoneIn, Entered, TypeOK, TInv, Made,
       offers
<1>3. ASSUME NEW n \in Calls, CheckMemory(n)
      PROVE  LetsIn \/ LetsNoneIn
  <2>1. \/ Moves(n, "done", "RETRY_BLOCKED")
        \/ Moved(n, "screen") /\ ~Matches(call[n].payment, call[n].replica)
    BY <1>3, CallMoves DEF TInv
  <2> QED
    BY <1>3, <2>1 DEF CheckMemory, Moves, Moved, LetsNoneIn, Entered, TypeOK, TInv,
       Made, offers
<1>4. ASSUME NEW n \in Calls, RefuseEarly(n)
      PROVE  LetsIn \/ LetsNoneIn
  <2>1. Answered(n, "REFUSED")
    BY <1>4, CallMoves DEF TInv
  <2> QED
    BY <1>4, <2>1 DEF RefuseEarly, Moves, Answered, LetsNoneIn, Entered, TypeOK, TInv,
       Made, offers
<1>5. ASSUME NEW n \in Calls, Screen(n)
      PROVE  LetsIn \/ LetsNoneIn
  <2>1. UNCHANGED offer /\ window \in Nat
    BY <1>5 DEF Screen, offers, TInv, TypeOK
  <2>2. window' = IF UnderCap THEN window + 1 ELSE window
    BY <1>5 DEF Screen
  <2>3. CASE Moved(n, "gate") /\ UnderCap
    BY <2>1, <2>2, <2>3 DEF Moves, Moved, UnderCap, LetsIn, Entered, Made
  <2>4. CASE Answered(n, "REFUSED") \/ Answered(n, "PENDING_HUMAN_REVIEW")
    BY <2>1, <2>2, <2>4 DEF Moves, Answered, LetsNoneIn, Entered, Made
  <2> QED
    BY <1>5, <2>3, <2>4, CallMoves DEF TInv
<1>6. ASSUME NEW n \in Calls, ScreenUnavailable(n)
      PROVE  LetsIn \/ LetsNoneIn
  <2>1. Answered(n, "AML_CHECK_UNAVAILABLE")
    BY <1>6, CallMoves DEF TInv
  <2> QED
    BY <1>6, <2>1 DEF ScreenUnavailable, Moves, Answered, LetsNoneIn, Entered, TypeOK,
       TInv, Made, offers
<1>7. ASSUME NEW n \in Calls, Gate(n)
      PROVE  LetsIn \/ LetsNoneIn
  <2>1. \/ Answered(n, "HALT")
        \/ Moved(n, "decide") /\ call[n].replica \notin halted
    BY <1>7, CallMoves DEF TInv
  <2> QED
    BY <1>7, <2>1 DEF Gate, Moves, Moved, Answered, LetsNoneIn, Entered, TypeOK, TInv,
       At, Made, offers
<1>8. ASSUME NEW n \in Calls, Decline(n)
      PROVE  LetsIn \/ LetsNoneIn
  <2>1. Answered(n, "REFUSED")
    BY <1>8, CallMoves DEF TInv
  <2> QED
    BY <1>8, <2>1 DEF Decline, Moves, Answered, LetsNoneIn, Entered, TypeOK, TInv, Made,
       offers
<1>9. ASSUME NEW n \in Calls, Park(n)
      PROVE  LetsIn \/ LetsNoneIn
  <2>1. Answered(n, "PENDING_HUMAN_REVIEW")
    BY <1>9, CallMoves DEF TInv
  <2> QED
    BY <1>9, <2>1 DEF Park, Moves, Answered, LetsNoneIn, Entered, TypeOK, TInv, Made,
       offers
<1>10. ASSUME NEW n \in Calls, Proceed(n)
       PROVE  LetsIn \/ LetsNoneIn
  <2>1. Moved(n, "deliver")
    BY <1>10, CallMoves DEF TInv
  <2> QED
    BY <1>10, <2>1 DEF Proceed, Moves, Moved, LetsNoneIn, Entered, TypeOK, TInv, At,
       Made, offers
<1>11. ASSUME NEW n \in Calls, Deliver(n)
       PROVE  LetsIn \/ LetsNoneIn
  <2>1. Moved(n, "log")
    BY <1>11, CallMoves DEF TInv
  <2> QED
    BY <1>11, <2>1 DEF Deliver, Lifecycle!Make, Moves, Moved, LetsNoneIn, Entered,
       TypeOK, TInv, At, Made
<1>12. ASSUME NEW n \in Calls, Log(n)
       PROVE  LetsIn \/ LetsNoneIn
  <2>1. Answered(n, "OFFERED")
    BY <1>12, CallMoves DEF TInv
  <2> QED
    BY <1>12, <2>1 DEF Log, Moves, Answered, LetsNoneIn, Entered, TypeOK, TInv, Made,
       offers
<1>13. ASSUME NEW n \in Calls, C7Raises(n)
       PROVE  LetsIn \/ LetsNoneIn
  <2>1. Answered(n, "SYSTEM_ERROR")
    BY <1>13, CallMoves DEF TInv
  <2> QED
    BY <1>13, <2>1 DEF C7Raises, Lifecycle!Make, Moves, Answered, LetsNoneIn, Entered,
       TypeOK, TInv, Made
<1>14. ASSUME NEW n \in Calls, Record(n)
       PROVE  LetsIn \/ LetsNoneIn
  <2>1. Moved(n, "index")
    BY <1>14, CallMoves DEF TInv
  <2> QED
    BY <1>14, <2>1 DEF Record, Moves, Moved, LetsNoneIn, Entered, TypeOK, TInv, Made,
       offers
<1>15. ASSUME NEW n \in Calls, Index(n)
       PROVE  LetsIn \/ LetsNoneIn
  <2>1. Moved(n, "done")
    BY <1>15, CallMoves DEF TInv
  <2> QED
    BY <1>15, <2>1 DEF Index, Moves, Moved, LetsNoneIn, Entered, TypeOK, TInv, Made,
       offers
<1>16. ASSUME NEW n \in Calls, Raise(n)
       PROVE  LetsIn \/ LetsNoneIn
  <2>1. Moves(n, "raised", "")
    BY <1>16, CallMoves DEF TInv
  <2>2. UNCHANGED <<window, offer>>
    BY <1>16 DEF Raise, offers
  <2>3. Entered' \subseteq Entered
    BY <2>1, <2>2 DEF Moves, Entered, Made
  <2>4. window' \in Nat /\ window' >= window
    BY <2>2 DEF TInv, TypeOK
  <2> QED
    BY <2>3, <2>4 DEF LetsNoneIn
<1>17. ASSUME NEW n \in Calls, NEW answer \in Lifecycle!Terminal, Resolve(n, answer)
       PROVE  LetsIn \/ LetsNoneIn
  BY <1>17 DEF Resolve, Lifecycle!Resolve, Lifecycle!Terminal, LetsNoneIn, Entered,
     TypeOK, TInv, Made
<1>18. ASSUME NEW n \in Calls, NEW recorded \in BOOLEAN, NEW registered \in BOOLEAN,
             Finalize(n, recorded, registered)
       PROVE  LetsIn \/ LetsNoneIn
  BY <1>18 DEF Finalize, Lifecycle!Fund, LetsNoneIn, Entered, TypeOK, TInv, Made
<1>19. ASSUME NEW n \in Calls, Approve(n)
       PROVE  LetsIn \/ LetsNoneIn
  BY <1>19 DEF Approve, LetsNoneIn, Entered, TypeOK, TInv, Made, offers
<1>20. ASSUME NEW r \in Replicas, Halt(r)
       PROVE  LetsIn \/ LetsNoneIn
  BY <1>20 DEF Halt, LetsNoneIn, Entered, TypeOK, TInv, Made, offers
<1>21. ASSUME NEW r \in Replicas, Resume(r)
       PROVE  LetsIn \/ LetsNoneIn
  BY <1>21 DEF Resume, LetsNoneIn, Entered, TypeOK, TInv, Made, offers
<1>22. ASSUME NEW r \in Replicas, Crash(r)
       PROVE  LetsIn \/ LetsNoneIn
  <2>1. CrashEnds(r)
    BY <1>22, CrashMoves DEF TInv
  <2>2. UNCHANGED <<window, offer>>
    BY <1>22 DEF Crash, offers
  <2>3. Entered' \subseteq Entered
    BY <2>1, <2>2 DEF CrashEnds, Ended, Entered, Made
  <2>4. window' \in Nat /\ window' >= window
    BY <2>2 DEF TInv, TypeOK
  <2> QED
    BY <2>3, <2>4 DEF LetsNoneIn
<1>23. CASE UNCHANGED vars
  BY <1>23 DEF vars, LetsNoneIn, Entered, TypeOK, TInv, Made, offers
<1>24. ASSUME NEW n \in Calls, Throttle(n)
      PROVE  LetsIn \/ LetsNoneIn
  <2>1. Answered(n, "HALT")
    BY <1>24, CallMoves DEF TInv
  <2> QED
    BY <1>24, <2>1 DEF Throttle, Moves, Answered, LetsNoneIn, Entered, TypeOK, TInv,
       Made, offers
<1> QED
  BY <1>1, <1>2, <1>3, <1>4, <1>5, <1>6, <1>7, <1>8, <1>9, <1>10, <1>11, <1>12, <1>13,
     <1>14, <1>15, <1>16, <1>17, <1>18, <1>19, <1>20, <1>21, <1>22, <1>23, <1>24 DEF Next,
     Process

\* There are finitely many calls, so that one more adds one at most.
LEMMA EnteredIsFinite ==
    /\ IsFiniteSet(Entered)
    /\ \A n \in Calls : /\ IsFiniteSet(Entered \cup {n})
                        /\ Cardinality(Entered \cup {n}) <= Cardinality(Entered) + 1
<1>1. IsFiniteSet(Calls)
  BY PipelineAssumption, FS_Interval DEF Calls
<1>2. IsFiniteSet(Entered)
  BY <1>1, FS_Subset DEF Entered, Made
<1>3. ASSUME NEW n \in Calls
      PROVE  /\ IsFiniteSet(Entered \cup {n})
             /\ Cardinality(Entered \cup {n}) <= Cardinality(Entered) + 1
  BY <1>2, FS_AddElement, FS_CardinalityType
<1> QED
  BY <1>2, <1>3

\* The calls let in are no more than the entries in the window, nor than the cap.
THEOREM CapInvariant == Spec => []CapInv
<1>1. Init => CapInv
  <2> SUFFICES ASSUME Init PROVE CapInv
    OBVIOUS
  <2>1. Entered = {}
    BY DEF Init, NoCall, Lifecycle!Init, Entered, Made
  <2> QED
    BY <2>1, FS_EmptySet, PipelineAssumption DEF Init, CapInv
<1>2. TInv /\ CapInv /\ [Next]_vars => CapInv'
  <2> SUFFICES ASSUME TInv, CapInv, [Next]_vars PROVE CapInv'
    OBVIOUS
  <2> DEFINE size == Cardinality(Entered)
  <2>1. size \in Nat /\ window \in Nat /\ Cap \in Nat
    BY EnteredIsFinite, FS_CardinalityType, PipelineAssumption DEF TInv, TypeOK
  <2>2. CASE LetsIn
    <3>1. PICK n \in Calls : /\ Entered' \subseteq Entered \cup {n}
                             /\ window < Cap /\ window' = window + 1
      BY <2>2 DEF LetsIn
    <3>2. /\ Cardinality(Entered') \in Nat
          /\ Cardinality(Entered') <= Cardinality(Entered \cup {n})
          /\ Cardinality(Entered \cup {n}) \in Nat
          /\ Cardinality(Entered \cup {n}) <= size + 1
      BY <3>1, EnteredIsFinite, FS_Subset, FS_CardinalityType
    <3> QED
      BY <2>1, <3>1, <3>2 DEF CapInv
  <2>3. CASE LetsNoneIn
    <3>1. Cardinality(Entered') \in Nat /\ Cardinality(Entered') <= size
      BY <2>3, EnteredIsFinite, FS_Subset, FS_CardinalityType DEF LetsNoneIn
    <3> QED
      BY <2>1, <2>3, <3>1 DEF CapInv, LetsNoneIn
  <2> QED
    BY <2>2, <2>3, EveryStepCounts
<1> QED
  BY <1>1, <1>2, TypeCorrect, PTL DEF Spec

\* However calls interleave, the entity gets no more offers than the cap allows.
THEOREM OffersWithinCapHolds == Spec => []OffersWithinCap
<1>1. CapInv => OffersWithinCap
  <2> SUFFICES ASSUME CapInv PROVE OffersWithinCap
    OBVIOUS
  <2>1. Cardinality(Made) \in Nat /\ Cardinality(Made) <= Cardinality(Entered)
    BY EnteredIsFinite, FS_Subset, FS_CardinalityType DEF Entered
  <2>2. Cardinality(Entered) \in Nat /\ Cap \in Nat
    BY EnteredIsFinite, FS_CardinalityType, PipelineAssumption
  <2> QED
    BY <2>1, <2>2 DEF CapInv, OffersWithinCap
<1> QED
  BY <1>1, CapInvariant, PTL

-----------------------------------------------------------------------------
(* The kill switch. *)

\* While a replica is halted, no call joins the ones that had passed the gate.
LEMMA HaltedGateHolds ==
    ASSUME TInv, [Next]_vars, NEW q \in halted \cap halted'
    PROVE  PastGate(q)' \subseteq PastGate(q)
<1>1. ASSUME NEW n \in Calls, NEW p \in Payments, NEW r \in Replicas, NEW approve \in BOOLEAN,
            Begin(n, p, r, approve)
      PROVE  PastGate(q)' \subseteq PastGate(q)
  <2>1. Begun(n, p, r)
    BY <1>1, BeginMoves DEF TInv
  <2> QED
    BY <1>1, <2>1 DEF Begin, Begun, PastGate, TInv
<1>2. ASSUME NEW n \in Calls, CheckRedis(n)
      PROVE  PastGate(q)' \subseteq PastGate(q)
  <2>1. \/ Moves(n, "done", "RETRY_BLOCKED")
        \/ Moved(n, "memory") /\ call[n].payment \notin seen
    BY <1>2, CallMoves DEF TInv
  <2> QED
    BY <1>2, <2>1 DEF CheckRedis, Moves, Moved, PastGate, TInv
<1>3. ASSUME NEW n \in Calls, CheckMemory(n)
      PROVE  PastGate(q)' \subseteq PastGate(q)
  <2>1. \/ Moves(n, "done", "RETRY_BLOCKED")
        \/ Moved(n, "screen") /\ ~Matches(call[n].payment, call[n].replica)
    BY <1>3, CallMoves DEF TInv
  <2> QED
    BY <1>3, <2>1 DEF CheckMemory, Moves, Moved, PastGate, TInv
<1>4. ASSUME NEW n \in Calls, RefuseEarly(n)
      PROVE  PastGate(q)' \subseteq PastGate(q)
  <2>1. Answered(n, "REFUSED")
    BY <1>4, CallMoves DEF TInv
  <2> QED
    BY <1>4, <2>1 DEF RefuseEarly, Moves, Answered, PastGate, TInv
<1>5. ASSUME NEW n \in Calls, Screen(n)
      PROVE  PastGate(q)' \subseteq PastGate(q)
  <2>1. \/ Moved(n, "gate") /\ UnderCap
        \/ Answered(n, "REFUSED")
        \/ Answered(n, "PENDING_HUMAN_REVIEW")
    BY <1>5, CallMoves DEF TInv
  <2> QED
    BY <1>5, <2>1 DEF Screen, Moves, Moved, Answered, PastGate, TInv
<1>6. ASSUME NEW n \in Calls, ScreenUnavailable(n)
      PROVE  PastGate(q)' \subseteq PastGate(q)
  <2>1. Answered(n, "AML_CHECK_UNAVAILABLE")
    BY <1>6, CallMoves DEF TInv
  <2> QED
    BY <1>6, <2>1 DEF ScreenUnavailable, Moves, Answered, PastGate, TInv
<1>7. ASSUME NEW n \in Calls, Gate(n)
      PROVE  PastGate(q)' \subseteq PastGate(q)
  <2>1. \/ Answered(n, "HALT")
        \/ Moved(n, "decide") /\ call[n].replica \notin halted
    BY <1>7, CallMoves DEF TInv
  <2> QED
    BY <1>7, <2>1 DEF Gate, Moves, Moved, Answered, PastGate, TInv
<1>8. ASSUME NEW n \in Calls, Decline(n)
      PROVE  PastGate(q)' \subseteq PastGate(q)
  <2>1. Answered(n, "REFUSED")
    BY <1>8, CallMoves DEF TInv
  <2> QED
    BY <1>8, <2>1 DEF Decline, Moves, Answered, PastGate, TInv
<1>9. ASSUME NEW n \in Calls, Park(n)
      PROVE  PastGate(q)' \subseteq PastGate(q)
  <2>1. Answered(n, "PENDING_HUMAN_REVIEW")
    BY <1>9, CallMoves DEF TInv
  <2> QED
    BY <1>9, <2>1 DEF Park, Moves, Answered, PastGate, TInv
<1>10. ASSUME NEW n \in Calls, Proceed(n)
       PROVE  PastGate(q)' \subseteq PastGate(q)
  <2>1. Moved(n, "deliver")
    BY <1>10, CallMoves DEF TInv
  <2> QED
    BY <1>10, <2>1 DEF Proceed, Moves, Moved, PastGate, TInv, At
<1>11. ASSUME NEW n \in Calls, Deliver(n)
       PROVE  PastGate(q)' \subseteq PastGate(q)
  <2>1. Moved(n, "log")
    BY <1>11, CallMoves DEF TInv
  <2> QED
    BY <1>11, <2>1 DEF Deliver, Lifecycle!Make, Moves, Moved, PastGate, TInv
<1>12. ASSUME NEW n \in Calls, Log(n)
       PROVE  PastGate(q)' \subseteq PastGate(q)
  <2>1. Answered(n, "OFFERED")
    BY <1>12, CallMoves DEF TInv
  <2> QED
    BY <1>12, <2>1 DEF Log, Moves, Answered, PastGate, TInv
<1>13. ASSUME NEW n \in Calls, C7Raises(n)
       PROVE  PastGate(q)' \subseteq PastGate(q)
  <2>1. Answered(n, "SYSTEM_ERROR")
    BY <1>13, CallMoves DEF TInv
  <2> QED
    BY <1>13, <2>1 DEF C7Raises, Lifecycle!Make, Moves, Answered, PastGate, TInv
<1>14. ASSUME NEW n \in Calls, Record(n)
       PROVE  PastGate(q)' \subseteq PastGate(q)
  <2>1. Moved(n, "index")
    BY <1>14, CallMoves DEF TInv
  <2> QED
    BY <1>14, <2>1 DEF Record, Moves, Moved, PastGate, TInv
<1>15. ASSUME NEW n \in Calls, Index(n)
       PROVE  PastGate(q)' \subseteq PastGate(q)
  <2>1. Moved(n, "done")
    BY <1>15, CallMoves DEF TInv
  <2> QED
    BY <1>15, <2>1 DEF Index, Moves, Moved, PastGate, TInv
<1>16. ASSUME NEW n \in Calls, Raise(n)
       PROVE  PastGate(q)' \subseteq PastGate(q)
  <2>1. Moves(n, "raised", "")
    BY <1>16, CallMoves DEF TInv
  <2> QED
    BY <1>16, <2>1 DEF Raise, Moves, PastGate, TInv
<1>17. ASSUME NEW n \in Calls, NEW answer \in Lifecycle!Terminal, Resolve(n, answer)
       PROVE  PastGate(q)' \subseteq PastGate(q)
  BY <1>17 DEF Resolve, Lifecycle!Resolve, Lifecycle!Terminal, PastGate, TInv
<1>18. ASSUME NEW n \in Calls, NEW recorded \in BOOLEAN, NEW registered \in BOOLEAN,
             Finalize(n, recorded, registered)
       PROVE  PastGate(q)' \subseteq PastGate(q)
  BY <1>18 DEF Finalize, Lifecycle!Fund, PastGate, TInv
<1>19. ASSUME NEW n \in Calls, Approve(n)
       PROVE  PastGate(q)' \subseteq PastGate(q)
  BY <1>19 DEF Approve, PastGate, TInv
<1>20. ASSUME NEW r \in Replicas, Halt(r)
       PROVE  PastGate(q)' \subseteq PastGate(q)
  BY <1>20 DEF Halt, PastGate, TInv
<1>21. ASSUME NEW r \in Replicas, Resume(r)
       PROVE  PastGate(q)' \subseteq PastGate(q)
  BY <1>21 DEF Resume, PastGate, TInv
<1>22. ASSUME NEW r \in Replicas, Crash(r)
       PROVE  PastGate(q)' \subseteq PastGate(q)
  <2>1. CrashEnds(r)
    BY <1>22, CrashMoves DEF TInv
  <2> QED
    BY <1>22, <2>1 DEF Crash, CrashEnds, Ended, PastGate, TInv
<1>23. CASE UNCHANGED vars
  BY <1>23 DEF vars, PastGate, TInv
<1>24. ASSUME NEW n \in Calls, Throttle(n)
      PROVE  PastGate(q)' \subseteq PastGate(q)
  <2>1. Answered(n, "HALT")
    BY <1>24, CallMoves DEF TInv
  <2> QED
    BY <1>24, <2>1 DEF Throttle, Moves, Answered, PastGate, TInv
<1> QED
  BY <1>1, <1>2, <1>3, <1>4, <1>5, <1>6, <1>7, <1>8, <1>9, <1>10, <1>11, <1>12, <1>13,
     <1>14, <1>15, <1>16, <1>17, <1>18, <1>19, <1>20, <1>21, <1>22, <1>23, <1>24 DEF Next,
     Process

\* Only the switch itself and the death of a replica change who is halted or draining.
LEMMA SwitchMoves ==
    ASSUME [Next]_vars
    PROVE  \/ UNCHANGED <<halted, draining>>
           \/ \E r \in Replicas : Halt(r) \/ Resume(r) \/ Crash(r)
<1>1. ASSUME NEW n \in Calls, Process(n)
      PROVE  UNCHANGED <<halted, draining>>
  BY <1>1 DEF Process, Begin, CheckRedis, CheckMemory, RefuseEarly, Screen,
     ScreenUnavailable, Throttle, Gate, Decline, Park, Proceed, Deliver, Log, C7Raises,
     Record, Index, Raise
<1>2. ASSUME NEW n \in Calls, NEW answer \in Lifecycle!Terminal, Resolve(n, answer)
      PROVE  UNCHANGED <<halted, draining>>
  BY <1>2 DEF Resolve
<1>3. ASSUME NEW n \in Calls, NEW recorded \in BOOLEAN, NEW registered \in BOOLEAN,
             Finalize(n, recorded, registered)
      PROVE  UNCHANGED <<halted, draining>>
  BY <1>3 DEF Finalize
<1>4. ASSUME NEW n \in Calls, Approve(n)
      PROVE  UNCHANGED <<halted, draining>>
  BY <1>4 DEF Approve
<1>5. CASE UNCHANGED vars
  BY <1>5 DEF vars
<1> QED
  BY <1>1, <1>2, <1>3, <1>4, <1>5 DEF Next

\* An offer comes from a call past the gate.
LEMMA OffersComeFromPastGate ==
    ASSUME TInv, [Next]_vars, NEW n \in Made' \ Made
    PROVE  n \in PastGate(call[n].replica)
<1>1. ASSUME NEW m \in Calls, Deliver(m) \/ C7Raises(m)
      PROVE  n \in PastGate(call[n].replica)
  <2>1. n \in Calls /\ offer[n] = "NONE" /\ offer'[n] # "NONE"
    BY DEF Made
  <2>2. n = m /\ At(m, "deliver")
    BY <1>1, <2>1 DEF Deliver, C7Raises, Lifecycle!Make, TInv, TypeOK
  <2> QED
    BY <2>1, <2>2 DEF PastGate, At
<1>2. ASSUME NEW m \in Calls, NEW answer \in Lifecycle!Terminal, Resolve(m, answer)
      PROVE  FALSE
  BY <1>2 DEF Resolve, Lifecycle!Resolve, Made, TInv, TypeOK
<1>3. ASSUME UNCHANGED offer PROVE FALSE
  BY <1>3 DEF Made
<1>4. ASSUME NEW m \in Calls, Process(m), ~Deliver(m), ~C7Raises(m)
      PROVE  UNCHANGED offer
  BY <1>4 DEF Process, Begin, CheckRedis, CheckMemory, RefuseEarly, Screen,
     ScreenUnavailable, Throttle, Gate, Decline, Park, Proceed, Log, Record, Index,
     Raise, offers
<1>5. ASSUME NEW m \in Calls, NEW recorded \in BOOLEAN, NEW registered \in BOOLEAN,
             Finalize(m, recorded, registered)
      PROVE  UNCHANGED offer
  BY <1>5 DEF Finalize, Lifecycle!Fund
<1>6. ASSUME NEW m \in Calls, Approve(m)
      PROVE  UNCHANGED offer
  BY <1>6 DEF Approve, offers
<1>7. ASSUME NEW r \in Replicas, Halt(r) \/ Resume(r) \/ Crash(r)
      PROVE  UNCHANGED offer
  BY <1>7 DEF Halt, Resume, Crash, offers
<1>8. CASE UNCHANGED vars
  BY <1>3, <1>8 DEF vars, offers
<1> QED
  BY <1>1, <1>2, <1>3, <1>4, <1>5, <1>6, <1>7, <1>8 DEF Next

\* On a halted replica, the calls past the gate are draining.
DrainInv == \A r \in halted : PastGate(r) \subseteq draining

LEMMA DrainStep ==
    ASSUME TInv, DrainInv, [Next]_vars
    PROVE  DrainInv'
<1> SUFFICES ASSUME NEW r \in halted'
             PROVE  PastGate(r)' \subseteq draining'
  BY DEF DrainInv
<1>1. CASE UNCHANGED <<halted, draining>>
  BY <1>1, HaltedGateHolds DEF DrainInv
<1>2. ASSUME NEW q \in Replicas, Halt(q)
      PROVE  PastGate(r)' \subseteq draining'
  BY <1>2 DEF Halt, PastGate, DrainInv
<1>3. ASSUME NEW q \in Replicas, Resume(q)
      PROVE  PastGate(r)' \subseteq draining'
  BY <1>3 DEF Resume, PastGate, DrainInv
<1>4. ASSUME NEW q \in Replicas, Crash(q)
      PROVE  PastGate(r)' \subseteq draining'
  <2>1. r \in halted \cap halted' /\ r # q
    BY <1>4 DEF Crash
  <2>2. PastGate(r)' \subseteq PastGate(r) /\ PastGate(r) \subseteq draining
    BY <2>1, HaltedGateHolds DEF DrainInv
  <2>3. \A n \in PastGate(r) : call[n].replica = r
    BY DEF PastGate
  <2> QED
    BY <1>4, <2>1, <2>2, <2>3 DEF Crash
<1> QED
  BY <1>1, <1>2, <1>3, <1>4, SwitchMoves

\* What a halted replica still offers comes from the calls that had read the switch
\* before the halt, with any number of replicas, calls and halts.
THEOREM HaltStopsTheRestHolds == Spec => HaltStopsTheRest
<1>1. Init => DrainInv
  BY DEF Init, DrainInv
<1>2. TInv /\ DrainInv /\ [Next]_vars => DrainInv'
  BY DrainStep
<1>3. TInv /\ DrainInv /\ [Next]_vars
        => [\A n \in Made' \ Made : call[n].replica \in halted => n \in draining]_vars
  BY OffersComeFromPastGate DEF DrainInv
<1> QED
  BY <1>1, <1>2, <1>3, TypeCorrect, PTL DEF Spec, HaltStopsTheRest
=============================================================================
