-------------------------- MODULE Settlement_proofs --------------------------
(***************************************************************************)
(* The bookkeeping of repayments for any loans, tenants, calendar and      *)
(* limit, and any number of failing Redis calls and restarts: no permit    *)
(* leaks, a repayment without a fault is on all its books, a NAV event     *)
(* misses no loan and the batch of a month covers it.                      *)
(***************************************************************************)
EXTENDS Settlement, FiniteSetTheorems, TLAPS

Calls == {l \in Loans : step[l] \in Inside}

\* A royalty stays as it was recorded, and Redis has none that memory lost.
RecordInv ==
    /\ \A l \in records \cup ledger :
           step[l] \in {"persist", "meter", "release", "deregister", "done", "lost"}
    /\ \A l \in Loans : step[l] = "persist" => l \in records
    /\ faults = 0 => ledger \subseteq records

\* What the fan-out of a loan has done.
Kept(l) ==
    /\ l \in records
    /\ faults = 0 => l \in ledger
    /\ tenantOf[l] # Bank => l \in metered \cap history

FanOutInv ==
    crashes = 0 =>
        \A l \in Loans :
            /\ step[l] # "lost"
            /\ step[l] = "meter" => l \in records /\ (faults = 0 => l \in ledger)
            /\ step[l] = "release" => Kept(l)
            /\ step[l] \in {"deregister", "done"} => l \in dropped \/ Kept(l)

\* Loans leave the registry while a snapshot is taken, and none enters it.
NavInv ==
    crashes = 0 /\ nav # NoSnapshot =>
        \A l \in Loans : Registered(l) => l \in nav.active

\* A batch at work has what was recorded before today.
FoundInv ==
    \A g \in Generators : batch[g] # Idle =>
        \A l \in records :
            Month(repaidAt[l]) = batch[g].month /\ recordedAt[l] < clock
                => l \in batch[g].found

\* The report of a month has what was recorded before a day.
Covered(m, day) ==
    \A l \in records : Month(repaidAt[l]) = m /\ recordedAt[l] < day => l \in report[m]

\* The scheduler generates a month that is over, and only a manual report of the
\* running month makes the month generated last the running one.
LastInv ==
    /\ \A g \in Generators : batch[g] # Idle => batch[g].month <= Month(clock)
    /\ batch["scheduler"] # Idle => batch["scheduler"].month < Month(clock)
    /\ lastGenerated <= Month(clock)
    /\ lastGenerated = Month(clock) => byHand[Month(clock)] <= clock

\* On a first business day, once the scheduler has looked at the calendar, the batch is
\* at work or done.
DayInv ==
    (/\ faults = 0
     /\ IsFirstBusinessDay(clock) /\ PreviousMonth \in Months
     /\ checked /\ clock < byHand[Month(clock)])
    => batch["scheduler"].month = PreviousMonth \/ Covered(PreviousMonth, clock)

\* When such a day is over the report covers the month, and goes on to.
PastInv ==
    faults = 0 =>
        \A day \in Start .. MaxTime :
            /\ IsFirstBusinessDay(day) /\ Month(day) - 1 \in Months
            /\ day < clock /\ day < byHand[Month(day)]
            => Covered(Month(day) - 1, day)

IInv ==
    /\ InFlightIsExact
    /\ RecordInv
    /\ FanOutInv
    /\ NavInv
    /\ SnapshotMissesNothing
    /\ FoundInv
    /\ LastInv
    /\ DayInv
    /\ PastInv

-----------------------------------------------------------------------------
(* Types and the calendar. *)

LEMMA TypeInit ==
    ASSUME Init
    PROVE  TypeOK
<1>1. NoSnapshot \in [active : SUBSET Loans, left : SUBSET Tenants,
                      tenant : Tenants \cup {Bank}, settled : SUBSET Loans]
  BY DEF NoSnapshot
<1>2. batch \in [Generators -> [month : {NoMonth} \cup Months,
                                found : SUBSET Loans]]
  BY DEF Init, Idle
<1>3. lastGenerated \in {NoMonth} \cup Months /\ checked \in BOOLEAN
  BY Zenon DEF Init
<1>6. byHand \in [Months -> 0 .. Never]
  BY SettlementAssumption DEF Init, Never
<1>4. /\ step \in [Loans -> Steps] /\ report \in [Months -> SUBSET Loans]
      /\ repaidAt \in [Loans -> 0 .. MaxTime] /\ recordedAt \in [Loans -> 0 .. MaxTime]
  BY SettlementAssumption DEF Init, Steps
<1>5. /\ inFlight \in 0 .. MaxConcurrent /\ clock \in 0 .. MaxTime
      /\ faults \in 0 .. MaxFaults /\ crashes \in 0 .. MaxCrashes
  BY SettlementAssumption DEF Init
<1>q. QED BY <1>1, <1>2, <1>3, <1>4, <1>5, <1>6 DEF Init, TypeOK

\* The permits in use are a number up to the limit.
LEMMA CallsAreFinite ==
    IsFiniteSet(Calls) /\ Cardinality(Calls) \in Nat
    BY SettlementAssumption, FS_Subset, FS_CardinalityType DEF Calls

\* A loan inside has a permit.
LEMMA PermitInUse ==
    ASSUME TypeOK, InFlightIsExact, NEW l \in Loans, step[l] \in Inside
    PROVE  inFlight - 1 \in 0 .. MaxConcurrent
<1>1. Calls # {}
  BY DEF Calls
<1>2. Cardinality(Calls) # 0
  BY <1>1, CallsAreFinite, FS_EmptySet
<1>3. inFlight = Cardinality(Calls)
  BY DEF InFlightIsExact, Calls
<1>4. inFlight \in 0 .. MaxConcurrent /\ MaxConcurrent \in Nat
  BY SettlementAssumption DEF TypeOK
<1>q. QED BY <1>2, <1>3, <1>4

LEMMA MonthsAreNumbers ==
    \A m \in Months : m \in Nat /\ m # NoMonth
    BY DEF Months, NoMonth

\* Every step keeps the type.
LEMMA TypeStep ==
    ASSUME TypeOK, InFlightIsExact, [Next]_vars
    PROVE  TypeOK'
<1> USE SettlementAssumption DEF TypeOK, bridge, batches, bounds, Goes
<1>1. ASSUME NEW l \in Loans, Trigger(l) \/ RecordRoyalty(l) PROVE TypeOK'
  BY <1>1 DEF Trigger, RecordRoyalty, Steps
<1>2. ASSUME NEW l \in Loans, Acquire(l) PROVE TypeOK'
  BY <1>2 DEF Acquire, HasPermit, Steps
<1>3. ASSUME NEW l \in Loans, Persist(l) PROVE TypeOK'
  BY <1>3 DEF Persist, Steps
<1>4. ASSUME NEW l \in Loans, Meter(l) \/ Deregister(l) PROVE TypeOK'
  BY <1>4 DEF Meter, Deregister, Steps
<1>5. ASSUME NEW l \in Loans, Release(l) PROVE TypeOK'
  BY <1>5, PermitInUse DEF Release, Steps, Inside
<1>6. CASE BeginSnapshot
  BY <1>6 DEF BeginSnapshot, ActiveLoans
<1>7. ASSUME NEW t \in Tenants, CountSettled(t) PROVE TypeOK'
  BY <1>7 DEF CountSettled
<1>8. CASE EndSnapshot
  BY <1>8 DEF EndSnapshot, NoSnapshot
<1>9. CASE Check
  <2>1. ASSUME NEW m \in Months
        PROVE  [batch EXCEPT !["scheduler"] = [month |-> m, found |-> Found(m)]]
                 \in [Generators -> [month : {NoMonth} \cup Months,
                                     found : SUBSET Loans]]
    BY DEF Found
  <2>2. batch' \in [Generators -> [month : {NoMonth} \cup Months,
                                   found : SUBSET Loans]]
    BY <1>9, <2>1 DEF Check
  <2>3. checked' \in BOOLEAN
    BY <1>9, Zenon DEF Check
  <2>q. QED BY <1>9, <2>2, <2>3 DEF Check
<1>10. ASSUME NEW m \in Months, Manual(m) PROVE TypeOK'
  BY <1>10 DEF Manual, Found, Generators
<1>11. ASSUME NEW g \in Generators, Store(g) PROVE TypeOK'
  <2>1. batch[g].month \in {NoMonth} \cup Months /\ batch[g].found \subseteq Loans
    OBVIOUS
  <2>2. report' \in [Months -> SUBSET Loans]
    BY <1>11, <2>1 DEF Store
  <2>3. Idle \in [month : {NoMonth} \cup Months, found : SUBSET Loans]
    BY DEF Idle
  <2>4. batch' \in [Generators -> [month : {NoMonth} \cup Months,
                                   found : SUBSET Loans]]
    BY <1>11, <2>3 DEF Store
  <2>5. faults' \in 0 .. MaxFaults
    BY <1>11 DEF Store
  <2>6. byHand' \in [Months -> 0 .. Never]
    <3>1. byHand' = byHand \/ byHand' = [byHand EXCEPT ![Month(clock)] = clock]
      BY <1>11 DEF Store
    <3>2. clock \in 0 .. Never
      BY DEF Never
    <3>q. QED BY <3>1, <3>2
  <2>7. lastGenerated' \in {NoMonth} \cup Months
    <3>1. lastGenerated' = batch[g].month
      BY <1>11 DEF Store
    <3>q. QED BY <2>1, <3>1
  <2>8. checked' \in BOOLEAN /\ UNCHANGED <<bridge, nav, clock, crashes>>
    BY <1>11, Zenon DEF Store
  <2>q. QED BY <2>2, <2>4, <2>5, <2>6, <2>7, <2>8
<1>12. CASE Restart
  <2>1. step' \in [Loans -> Steps]
    BY <1>12 DEF Restart, Steps
  <2>2. nav' \in [active : SUBSET Loans, left : SUBSET Tenants,
                  tenant : Tenants \cup {Bank}, settled : SUBSET Loans]
    BY <1>12 DEF Restart, NoSnapshot
  <2>3. batch' \in [Generators -> [month : {NoMonth} \cup Months,
                                   found : SUBSET Loans]]
    BY <1>12 DEF Restart, Idle
  <2>4. lastGenerated' \in {NoMonth} \cup Months /\ checked' \in BOOLEAN
    BY <1>12, Zenon DEF Restart
  <2>5. records' \subseteq Loans /\ faults' \in 0 .. MaxFaults
    BY <1>12 DEF Restart
  <2>6. inFlight' \in 0 .. MaxConcurrent /\ crashes' \in 0 .. MaxCrashes
    BY <1>12 DEF Restart
  <2>q. QED BY <1>12, <2>1, <2>2, <2>3, <2>4, <2>5, <2>6 DEF Restart
<1>13. CASE Tick
  <2>1. clock' \in 0 .. MaxTime
    BY <1>13 DEF Tick
  <2>2. checked' \in BOOLEAN
    BY <1>13, Zenon DEF Tick
  <2>3. UNCHANGED <<bridge, nav, batch, lastGenerated, byHand, report,
                    faults, crashes>>
    BY <1>13 DEF Tick
  <2>q. QED BY <2>1, <2>2, <2>3
<1>14. CASE UNCHANGED vars
  BY <1>14 DEF vars
<1>q. QED BY <1>1, <1>2, <1>3, <1>4, <1>5, <1>6, <1>7, <1>8, <1>9, <1>10, <1>11,
            <1>12, <1>13, <1>14 DEF Next, Repayment

\* Every day of the clock is in one of the months, and the months follow each other.
LEMMA MonthFacts ==
    /\ \A t \in 0 .. MaxTime : Month(t) \in Months
    /\ \A t \in Nat : Month(t) \in Nat /\ Month(t) <= Month(t + 1)
<1>1. MonthLength \in Nat \ {0} /\ MaxTime \in Nat
  BY SettlementAssumption
<1>2. ASSUME NEW k \in Nat \ {0}, NEW t \in Nat, NEW u \in Nat, t <= u
      PROVE  t \div k \in Nat /\ t \div k <= u \div k
  BY <1>2, SMTT(30)
<1>q. QED BY <1>1, <1>2 DEF Month, Months

-----------------------------------------------------------------------------
(* Permits. *)

\* What one step of a repayment does to the calls inside the bridge.
LEMMA ExactStep ==
    ASSUME TypeOK, InFlightIsExact, [Next]_vars
    PROVE  InFlightIsExact'
<1>1. inFlight = Cardinality(Calls)
  BY DEF InFlightIsExact, Calls
<1>2. SUFFICES inFlight' = Cardinality(Calls')
  BY DEF InFlightIsExact, Calls
<1>3. ASSUME Calls' = Calls, inFlight' = inFlight PROVE inFlight' = Cardinality(Calls')
  BY <1>1, <1>3
<1> USE DEF TypeOK, bridge, batches, bounds, Goes
<1>4. ASSUME NEW l \in Loans, Acquire(l) PROVE inFlight' = Cardinality(Calls')
  <2>1. CASE HasPermit
    <3>1. l \notin Calls /\ Calls' = Calls \cup {l} /\ inFlight' = inFlight + 1
      BY <1>4, <2>1 DEF Acquire, Calls, Inside
    <3>q. QED BY <1>1, <3>1, CallsAreFinite, FS_AddElement
  <2>2. CASE ~ HasPermit
    <3>1. Calls' = Calls /\ inFlight' = inFlight
      BY <1>4, <2>2 DEF Acquire, Calls, Inside
    <3>q. QED BY <1>3, <3>1
  <2>q. QED BY <2>1, <2>2
<1>5. ASSUME NEW l \in Loans, Release(l) PROVE inFlight' = Cardinality(Calls')
  <2>1. l \in Calls /\ Calls' = Calls \ {l} /\ inFlight' = inFlight - 1
    BY <1>5 DEF Release, Calls, Inside
  <2>q. QED BY <1>1, <2>1, CallsAreFinite, FS_RemoveElement
<1>6. ASSUME NEW l \in Loans,
             Trigger(l) \/ RecordRoyalty(l) \/ Persist(l) \/ Meter(l) \/ Deregister(l)
      PROVE  inFlight' = Cardinality(Calls')
  <2>1. Calls' = Calls /\ inFlight' = inFlight
    BY <1>6 DEF Trigger, RecordRoyalty, Persist, Meter, Deregister, Calls, Inside
  <2>q. QED BY <1>3, <2>1
<1>7. CASE Restart
  <2>1. Calls' = {} /\ inFlight' = 0
    BY <1>7 DEF Restart, Calls, Registered, Inside
  <2>q. QED BY <2>1, FS_EmptySet
<1>8. CASE UNCHANGED <<step, inFlight>>
  BY <1>3, <1>8 DEF Calls
<1>q. QED BY <1>4, <1>5, <1>6, <1>7, <1>8
       DEF Next, Repayment, BeginSnapshot, CountSettled, EndSnapshot, Check, Manual,
           Store, Tick, vars

-----------------------------------------------------------------------------
(* The books. *)

LEMMA RecordStep ==
    ASSUME TypeOK, RecordInv, [Next]_vars
    PROVE  RecordInv'
<1> USE DEF TypeOK, RecordInv, bridge, batches, bounds, Goes
<1>1. ASSUME NEW l \in Loans, Trigger(l) PROVE RecordInv'
  BY <1>1 DEF Trigger
<1>2. ASSUME NEW l \in Loans, Acquire(l) PROVE RecordInv'
  BY <1>2 DEF Acquire
<1>3. ASSUME NEW l \in Loans, RecordRoyalty(l) PROVE RecordInv'
  BY <1>3 DEF RecordRoyalty
<1>4. ASSUME NEW l \in Loans, Persist(l) PROVE RecordInv'
  BY <1>4 DEF Persist
<1>5. ASSUME NEW l \in Loans, Meter(l) \/ Release(l) \/ Deregister(l) PROVE RecordInv'
  BY <1>5 DEF Meter, Release, Deregister
<1>6. CASE Restart
  <2>1. \A l \in Loans : step'[l] \in {"lost", step[l]} /\ step'[l] # "persist"
    BY <1>6 DEF Restart, Registered, Inside
  <2>2. records' \subseteq ledger /\ ledger' = ledger
    BY <1>6 DEF Restart
  <2>3. faults' = 0 => records' = ledger
    BY <1>6 DEF Restart
  <2>q. QED BY <2>1, <2>2, <2>3
<1>7. ASSUME NEW g \in Generators, Store(g) PROVE RecordInv'
  <2>1. faults' = 0 => faults = 0
    BY <1>7 DEF Store
  <2>q. QED BY <1>7, <2>1 DEF Store
<1>8. CASE UNCHANGED <<bridge, faults>>
  BY <1>8
<1>q. QED BY <1>1, <1>2, <1>3, <1>4, <1>5, <1>6, <1>7, <1>8
       DEF Next, Repayment, BeginSnapshot, CountSettled, EndSnapshot, Check, Manual,
           Tick, vars

LEMMA FanOutStep ==
    ASSUME TypeOK, RecordInv, FanOutInv, [Next]_vars
    PROVE  FanOutInv'
<1> SUFFICES ASSUME crashes' = 0 PROVE FanOutInv'
  BY DEF FanOutInv
<1> USE DEF TypeOK, FanOutInv, Kept, bridge, batches, bounds, Goes
<1>1. ASSUME NEW l \in Loans, Trigger(l) \/ Acquire(l) PROVE FanOutInv'
  BY <1>1 DEF Trigger, Acquire
<1>2. ASSUME NEW l \in Loans, RecordRoyalty(l) PROVE FanOutInv'
  BY <1>2 DEF RecordRoyalty
<1>3. ASSUME NEW l \in Loans, Persist(l) PROVE FanOutInv'
  BY <1>3 DEF Persist, RecordInv
<1>4. ASSUME NEW l \in Loans, Meter(l) PROVE FanOutInv'
  BY <1>4 DEF Meter
<1>5. ASSUME NEW l \in Loans, Release(l) \/ Deregister(l) PROVE FanOutInv'
  BY <1>5 DEF Release, Deregister
<1>6. CASE Restart
  BY <1>6 DEF Restart
<1>7. ASSUME NEW g \in Generators, Store(g) PROVE FanOutInv'
  <2>1. faults' = 0 => faults = 0
    BY <1>7 DEF Store
  <2>q. QED BY <1>7, <2>1 DEF Store
<1>8. CASE UNCHANGED <<bridge, faults, crashes>>
  BY <1>8
<1>q. QED BY <1>1, <1>2, <1>3, <1>4, <1>5, <1>6, <1>7, <1>8
       DEF Next, Repayment, BeginSnapshot, CountSettled, EndSnapshot, Check, Manual,
           Tick, vars

-----------------------------------------------------------------------------
(* Snapshots. *)

\* A repayment takes loans out of the registry only, and its time stamp is set
\* while the loan is in it.
LEMMA RepaymentLeaves ==
    ASSUME TypeOK, NEW l \in Loans, Repayment(l)
    PROVE  /\ \A k \in Loans : Registered(k)' => Registered(k)
           /\ \A k \in Loans : ~ Registered(k) => repaidAt'[k] = repaidAt[k]
           /\ dropped \subseteq dropped'
           /\ UNCHANGED <<tenantOf, nav, batches, clock, crashes>>
<1> USE DEF TypeOK, Registered, Inside, batches, bounds, Goes
<1>1. CASE Trigger(l)
  BY <1>1 DEF Trigger
<1>2. CASE Acquire(l)
  BY <1>2 DEF Acquire
<1>3. CASE RecordRoyalty(l)
  BY <1>3 DEF RecordRoyalty
<1>4. CASE Persist(l)
  BY <1>4 DEF Persist
<1>5. CASE Meter(l)
  BY <1>5 DEF Meter
<1>6. CASE Release(l) \/ Deregister(l)
  BY <1>6 DEF Release, Deregister
<1>q. QED BY <1>1, <1>2, <1>3, <1>4, <1>5, <1>6 DEF Repayment

LEMMA NavStep ==
    ASSUME TypeOK, NavInv, [Next]_vars
    PROVE  NavInv'
<1>1. ASSUME NEW l \in Loans, Repayment(l) PROVE NavInv'
  BY <1>1, RepaymentLeaves DEF NavInv
<1> USE DEF TypeOK, NavInv, bridge, batches, bounds
<1>2. CASE BeginSnapshot
  BY <1>2 DEF BeginSnapshot, ActiveLoans, Registered
<1>3. ASSUME NEW t \in Tenants, CountSettled(t) PROVE NavInv'
  BY <1>3 DEF CountSettled, Registered
<1>4. CASE EndSnapshot \/ Restart
  BY <1>4 DEF EndSnapshot, Restart
<1>5. CASE UNCHANGED <<nav, step, crashes>>
  BY <1>5 DEF Registered
<1>q. QED BY <1>1, <1>2, <1>3, <1>4, <1>5
       DEF Next, Check, Manual, Store, Tick, vars

\* A loan that the snapshot does not have among the active ones has left the
\* registry before it, and its settlement is in the history.
LEMMA SnapshotStep ==
    ASSUME TypeOK, FanOutInv, NavInv, SnapshotMissesNothing, [Next]_vars
    PROVE  SnapshotMissesNothing'
<1>1. ASSUME NEW l \in Loans, Repayment(l) PROVE SnapshotMissesNothing'
  <2>1. nav.tenant # Bank => nav # NoSnapshot
    BY DEF NoSnapshot
  <2>q. QED BY <1>1, <2>1, RepaymentLeaves DEF SnapshotMissesNothing, NavInv
<1> USE DEF SnapshotMissesNothing, bridge, batches, bounds
<1>2. CASE BeginSnapshot
  BY <1>2 DEF BeginSnapshot
<1>3. ASSUME NEW t \in Tenants, CountSettled(t) PROVE SnapshotMissesNothing'
  <2>1. /\ nav' = [nav EXCEPT !.left = nav.left \ {t}, !.tenant = t,
                               !.settled = {l \in history :
                                  /\ tenantOf[l] = t
                                  /\ repaidAt[l] + SettledWindow >= clock}]
        /\ nav # NoSnapshot /\ t # Bank
        /\ UNCHANGED <<bridge, clock, crashes>>
    BY <1>3, SettlementAssumption DEF CountSettled
  <2>2. /\ nav'.active = nav.active /\ nav'.tenant = t
        /\ nav'.settled = {l \in history : /\ tenantOf[l] = t
                                          /\ repaidAt[l] + SettledWindow >= clock}
    BY <2>1 DEF TypeOK
  <2>3. ASSUME crashes = 0, NEW l \in Loans, l \notin dropped, tenantOf[l] # Bank,
               l \notin nav.active
        PROVE  l \in history
    <3>1. ~ Registered(l)
      BY <2>1, <2>3 DEF NavInv
    <3>2. step[l] = "done"
      BY <2>3, <3>1 DEF Registered, Inside, Steps, FanOutInv, TypeOK
    <3>q. QED BY <2>3, <3>2 DEF FanOutInv, Kept
  <2>q. QED BY <2>1, <2>2, <2>3
<1>4. CASE EndSnapshot \/ Restart
  BY <1>4 DEF EndSnapshot, Restart, NoSnapshot
<1>5. CASE Tick
  BY <1>5 DEF Tick, NoSnapshot
<1>6. CASE UNCHANGED <<bridge, nav, clock, crashes>>
  BY <1>6
<1>q. QED BY <1>1, <1>2, <1>3, <1>4, <1>5, <1>6
       DEF Next, Check, Manual, Store, vars

-----------------------------------------------------------------------------
(* Batches. *)

\* A repayment leaves the royalties that are recorded alone; a new one is of today.
LEMMA RepaymentRecords ==
    ASSUME TypeOK, RecordInv, NEW l \in Loans, Repayment(l)
    PROVE  /\ \A k \in records : /\ repaidAt'[k] = repaidAt[k]
                                 /\ recordedAt'[k] = recordedAt[k]
           /\ \A k \in records' : k \in records \/ recordedAt'[k] = clock
           /\ faults' = 0 => faults = 0
           /\ UNCHANGED <<batches, clock>>
<1> USE DEF TypeOK, RecordInv, batches, bounds, Goes
<1>1. CASE Trigger(l)
  BY <1>1 DEF Trigger
<1>2. CASE RecordRoyalty(l)
  BY <1>2 DEF RecordRoyalty
<1>3. CASE Persist(l)
  BY <1>3 DEF Persist
<1>4. CASE Acquire(l) \/ Meter(l) \/ Release(l) \/ Deregister(l)
  BY <1>4 DEF Acquire, Meter, Release, Deregister
<1>q. QED BY <1>1, <1>2, <1>3, <1>4 DEF Repayment

LEMMA FoundStep ==
    ASSUME TypeOK, RecordInv, FoundInv, [Next]_vars
    PROVE  FoundInv'
<1>1. ASSUME NEW l \in Loans, Repayment(l) PROVE FoundInv'
  <2>1. batch' = batch /\ clock' = clock
    BY <1>1, RepaymentRecords DEF batches
  <2>2. clock \in Nat
    BY SettlementAssumption DEF TypeOK
  <2>q. QED BY <1>1, <2>1, <2>2, RepaymentRecords DEF FoundInv, Month
<1> USE DEF FoundInv, bridge, batches, bounds, Month
<1>2. ASSUME NEW g \in Generators, NEW m,
             batch' = [batch EXCEPT ![g] = [month |-> m, found |-> Found(m)]],
             UNCHANGED <<bridge, clock>>
      PROVE  FoundInv'
  <2>1. batch'[g] = [month |-> m, found |-> Found(m)]
    BY <1>2 DEF TypeOK
  <2>2. \A h \in Generators \ {g} : batch'[h] = batch[h]
    BY <1>2 DEF TypeOK
  <2>q. QED BY <1>2, <2>1, <2>2 DEF Found
<1>3. CASE Check
  <2>1. CASE batch' = [batch EXCEPT !["scheduler"] =
                          [month |-> PreviousMonth, found |-> Found(PreviousMonth)]]
    BY <1>2, <1>3, <2>1 DEF Check, Generators
  <2>2. CASE batch' = batch
    BY <1>3, <2>2 DEF Check
  <2>q. QED BY <1>3, <2>1, <2>2 DEF Check
<1>4. ASSUME NEW m \in Months, Manual(m) PROVE FoundInv'
  BY <1>2, <1>4 DEF Manual, Generators
<1>5. ASSUME NEW g \in Generators, Store(g) PROVE FoundInv'
  <2>1. \A h \in Generators : batch'[h] = IF h = g THEN Idle ELSE batch[h]
    BY <1>5 DEF Store, TypeOK
  <2>q. QED BY <1>5, <2>1 DEF Store
<1>6. CASE Restart
  BY <1>6 DEF Restart
<1>7. CASE Tick
  BY <1>7 DEF Tick
<1>8. CASE UNCHANGED <<bridge, batch, clock>>
  BY <1>8
<1>q. QED BY <1>1, <1>3, <1>4, <1>5, <1>6, <1>7, <1>8
       DEF Next, BeginSnapshot, CountSettled, EndSnapshot, vars

\* What was recorded before a day stays covered by every report made on that day or
\* later.
LEMMA CoveredStep ==
    ASSUME TypeOK, RecordInv, FoundInv, [Next]_vars, faults' = 0,
           NEW m \in Months, NEW day \in Nat, day <= clock, Covered(m, day)
    PROVE  Covered(m, day)'
<1>1. clock \in Nat
  BY SettlementAssumption DEF TypeOK
<1>2. ASSUME NEW l \in Loans, Repayment(l) PROVE Covered(m, day)'
  <2>1. report' = report /\ clock' = clock
    BY <1>2, RepaymentRecords DEF batches
  <2>q. QED BY <1>1, <1>2, <2>1, RepaymentRecords DEF Covered, Month
<1> USE DEF Covered, bridge, batches, bounds, Month
<1>3. ASSUME NEW g \in Generators, Store(g) PROVE Covered(m, day)'
  <2>1. CASE report' = report
    BY <1>3, <2>1 DEF Store
  <2>2. CASE batch[g].month # m
    <3>1. report'[m] = report[m]
      BY <1>3, <2>2 DEF Store, TypeOK
    <3>q. QED BY <1>3, <3>1 DEF Store
  <2>3. CASE report' = [report EXCEPT ![batch[g].month] = batch[g].found]
             /\ batch[g].month = m
    <3>1. report'[m] = batch[g].found
      BY <2>3 DEF TypeOK
    <3>2. \A l \in records : Month(repaidAt[l]) = m /\ recordedAt[l] < day
                                => l \in batch[g].found
      <4>1. \A l \in records : recordedAt[l] \in Nat
        BY DEF TypeOK
      <4>2. \A l \in records : recordedAt[l] < day => recordedAt[l] < clock
        BY <1>1, <4>1
      <4>q. QED BY <1>3, <2>3, <4>2 DEF Store, FoundInv
    <3>q. QED BY <1>3, <3>1, <3>2 DEF Store
  <2>q. QED BY <1>3, <2>1, <2>2, <2>3 DEF Store
<1>4. CASE Restart
  <2>1. records' \subseteq records
    BY <1>4 DEF Restart, RecordInv
  <2>q. QED BY <1>4, <2>1 DEF Restart
<1>5. CASE UNCHANGED <<bridge, report>>
  BY <1>5
<1>q. QED BY <1>2, <1>3, <1>4, <1>5
       DEF Next, BeginSnapshot, CountSettled, EndSnapshot, Check, Manual, Tick, vars

LEMMA FaultsStay ==
    ASSUME TypeOK, [Next]_vars, faults' = 0
    PROVE  faults = 0
<1> USE DEF TypeOK, bridge, batches, bounds
<1>1. ASSUME NEW l \in Loans, Repayment(l) PROVE faults = 0
  BY <1>1 DEF Repayment, Trigger, Acquire, RecordRoyalty, Persist, Meter, Release,
              Deregister
<1>2. ASSUME NEW g \in Generators, Store(g) PROVE faults = 0
  BY <1>2 DEF Store
<1>3. CASE Restart
  BY <1>3 DEF Restart
<1>q. QED BY <1>1, <1>2, <1>3
       DEF Next, BeginSnapshot, CountSettled, EndSnapshot, Check, Manual, Tick, vars

\* The scheduler's batch of the day ends with the month covered: its own report, or
\* none to write because nothing was recorded before the day.
LEMMA StoreCovers ==
    ASSUME TypeOK, FoundInv, faults' = 0, faults = 0, NEW m \in Months,
           Store("scheduler"), batch["scheduler"].month = m
    PROVE  Covered(m, clock)'
<1>1. \A l \in records : Month(repaidAt[l]) = m /\ recordedAt[l] < clock
                            => l \in batch["scheduler"].found
  BY DEF FoundInv, Store, Generators
<1>2. UNCHANGED bridge /\ clock' = clock
  BY DEF Store
<1>3. CASE batch["scheduler"].found = {}
  BY <1>1, <1>2, <1>3 DEF Covered, bridge, Month
<1>4. CASE batch["scheduler"].found # {}
  <2>1. report' = [report EXCEPT ![m] = batch["scheduler"].found]
    BY <1>4 DEF Store, TypeOK
  <2>2. report'[m] = batch["scheduler"].found
    BY <2>1 DEF TypeOK
  <2>q. QED BY <1>1, <1>2, <2>2 DEF Covered, bridge, Month
<1>q. QED BY <1>3, <1>4

\* The month generated last is the running one by hand only.
LEMMA LastStep ==
    ASSUME TypeOK, LastInv, [Next]_vars
    PROVE  LastInv'
<1> USE DEF LastInv, bridge, batches, bounds
<1>1. clock \in 0 .. MaxTime /\ clock \in Nat /\ Month(clock) \in Months
  BY MonthFacts, SettlementAssumption DEF TypeOK
<1>2. Month(clock) \in Nat
  BY <1>1, MonthFacts
<1>3. ASSUME NEW l \in Loans, Repayment(l) PROVE LastInv'
  BY <1>3 DEF Repayment, Trigger, Acquire, RecordRoyalty, Persist, Meter, Release,
              Deregister, Month
<1>4. CASE Check
  <2>1. UNCHANGED <<lastGenerated, byHand, clock>>
    BY <1>4 DEF Check
  <2>2. \A g \in Generators :
           batch'[g] = batch[g] \/ batch'[g].month = Month(clock) - 1
    BY <1>4 DEF Check, PreviousMonth, TypeOK
  <2>q. QED BY <1>2, <2>1, <2>2 DEF Generators, Month
<1>5. ASSUME NEW m \in Months, Manual(m) PROVE LastInv'
  <2>1. UNCHANGED <<lastGenerated, byHand, clock>> /\ m <= Month(clock)
    BY <1>5 DEF Manual
  <2>2. batch'["manual"].month = m /\ batch'["scheduler"] = batch["scheduler"]
    BY <1>5 DEF Manual, TypeOK, Generators
  <2>q. QED BY <2>1, <2>2 DEF Generators, Month
<1>6. ASSUME NEW g \in Generators, Store(g) PROVE LastInv'
  <2>1. clock' = clock /\ lastGenerated' = batch[g].month
    BY <1>6 DEF Store
  <2>2. \A h \in Generators : batch'[h] = IF h = g THEN Idle ELSE batch[h]
    BY <1>6 DEF Store, TypeOK
  <2>3. batch[g].month = Month(clock) => byHand'[Month(clock)] <= clock
    <3>1. batch[g].month = Month(clock) => g = "manual"
      BY <1>2, <1>6 DEF Store, Generators
    <3>2. byHand \in [Months -> 0 .. Never] /\ Never \in Int
      BY SettlementAssumption DEF TypeOK, Never
    <3>q. QED BY <1>1, <1>6, <3>1, <3>2 DEF Store
  <2>q. QED BY <1>6, <2>1, <2>2, <2>3 DEF Store, Month, Generators
<1>7. CASE Restart
  <2>1. /\ lastGenerated' = NoMonth /\ clock' = clock
        /\ \A g \in Generators : batch'[g] = Idle
    BY <1>7 DEF Restart
  <2>q. QED BY <1>2, <2>1 DEF NoMonth, Month, Generators
<1>8. CASE Tick
  <2>1. /\ clock' = clock + 1 /\ UNCHANGED <<lastGenerated, byHand, batch>>
        /\ \A g \in Generators : batch[g] = Idle
    BY <1>8 DEF Tick
  <2>2. Month(clock) <= Month(clock + 1) /\ Month(clock + 1) \in Nat
    BY <1>1, MonthFacts
  <2>3. lastGenerated \in Int
    BY MonthsAreNumbers DEF TypeOK, NoMonth
  <2>4. lastGenerated = Month(clock + 1) => byHand[Month(clock + 1)] <= clock + 1
    <3>1. byHand \in [Months -> 0 .. Never] /\ Never \in Int
      BY SettlementAssumption DEF TypeOK, Never
    <3>q. QED BY <1>1, <1>2, <2>2, <2>3, <3>1
  <2>5. Month(clock)' = Month(clock + 1)
    BY <2>1 DEF Month
  <2>6. lastGenerated <= Month(clock + 1)
    BY <1>2, <2>2, <2>3
  <2>q. QED BY <2>1, <2>4, <2>5, <2>6 DEF Generators
<1>9. CASE UNCHANGED <<batch, lastGenerated, byHand, clock>>
  BY <1>9 DEF Month
<1>q. QED BY <1>3, <1>4, <1>5, <1>6, <1>7, <1>8, <1>9
       DEF Next, BeginSnapshot, CountSettled, EndSnapshot, vars

\* A manual report only brings the first day of one forward, to today at the earliest.
LEMMA ByHandStep ==
    ASSUME TypeOK, [Next]_vars, NEW m \in Months
    PROVE  byHand'[m] <= byHand[m] /\ (byHand'[m] = byHand[m] \/ byHand'[m] = clock)
<1>1. byHand[m] \in Int /\ clock \in Int
  BY SettlementAssumption DEF TypeOK, Never
<1>2. ASSUME NEW g \in Generators, Store(g)
      PROVE  byHand'[m] <= byHand[m] /\ (byHand'[m] = byHand[m] \/ byHand'[m] = clock)
  BY <1>1, <1>2 DEF Store, TypeOK
<1>3. CASE byHand' = byHand
  BY <1>1, <1>3
<1>q. QED BY <1>2, <1>3
       DEF Next, Repayment, Trigger, Acquire, RecordRoyalty, Persist, Meter, Release,
           Deregister, BeginSnapshot, CountSettled, EndSnapshot, Check, Manual,
           Restart, Tick, vars, batches

LEMMA DayStep ==
    ASSUME TypeOK, RecordInv, FoundInv, LastInv, DayInv, [Next]_vars
    PROVE  DayInv'
<1> DEFINE P == batch["scheduler"].month = PreviousMonth \/ Covered(PreviousMonth, clock)
<1>a. clock \in 0 .. MaxTime /\ clock \in Nat /\ Month(clock) \in Months
  BY MonthFacts, SettlementAssumption DEF TypeOK
<1>1. CASE clock' # clock \/ Restart
  <2>1. Restart \/ Tick
    BY <1>1 DEF Next, Repayment, Trigger, Acquire, RecordRoyalty, Persist, Meter,
                Release, Deregister, BeginSnapshot, CountSettled, EndSnapshot, Check,
                Manual, Store, vars, bounds
  <2>2. checked' = FALSE
    BY <2>1 DEF Restart, Tick
  <2>q. QED BY <2>2 DEF DayInv
<1>2. CASE clock' = clock /\ ~ Restart
  <2> SUFFICES ASSUME faults' = 0, IsFirstBusinessDay(clock)', PreviousMonth' \in Months,
                      checked', clock < byHand'[Month(clock)]
               PROVE  P'
    BY <1>2 DEF DayInv, Month
  <2>1. /\ PreviousMonth' = PreviousMonth /\ PreviousMonth \in Months
        /\ IsFirstBusinessDay(clock) /\ Month(clock)' = Month(clock)
    BY <1>2 DEF PreviousMonth, Month, IsFirstBusinessDay, Weekday, DayOfMonth
  <2>2. faults = 0 /\ clock < byHand[Month(clock)]
    <3>1. byHand[Month(clock)] \in Int /\ byHand'[Month(clock)] <= byHand[Month(clock)]
      BY <1>a, ByHandStep, SettlementAssumption DEF TypeOK, Never
    <3>2. byHand'[Month(clock)] \in Int
      BY <1>a, <3>1, ByHandStep
    <3>q. QED BY <1>a, <3>1, <3>2, FaultsStay
  <2>3. Covered(PreviousMonth, clock) => Covered(PreviousMonth, clock)'
    BY <1>2, <1>a, <2>1, CoveredStep DEF Covered, Month
  <2>4. ASSUME checked' = checked, batch'["scheduler"] = batch["scheduler"]
        PROVE  P'
    BY <1>2, <2>1, <2>2, <2>3, <2>4 DEF DayInv
  <2> USE DEF bridge, batches, bounds
  <2>5. ASSUME NEW l \in Loans, Repayment(l) PROVE P'
    BY <2>4, <2>5, RepaymentRecords
  <2>6. CASE Check
    <3>1. lastGenerated # Month(clock)
      <4>1. byHand[Month(clock)] \in Int
        BY <1>a, SettlementAssumption DEF TypeOK, Never
      <4>q. QED BY <1>a, <2>2, <4>1 DEF LastInv
    <3>2. batch' = [batch EXCEPT !["scheduler"] =
                       [month |-> PreviousMonth, found |-> Found(PreviousMonth)]]
      BY <2>6, <3>1 DEF Check
    <3>3. batch'["scheduler"].month = PreviousMonth
      BY <3>2 DEF TypeOK, Generators
    <3>q. QED BY <2>1, <3>3
  <2>7. ASSUME NEW k \in Months, Manual(k) PROVE P'
    <3>1. batch'["scheduler"] = batch["scheduler"]
      BY <2>7 DEF Manual, TypeOK, Generators
    <3>q. QED BY <2>4, <2>7, <3>1 DEF Manual
  <2>8. ASSUME NEW g \in Generators, Store(g) PROVE P'
    <3>1. checked' = checked
      BY <2>8 DEF Store
    <3>2. CASE g = "scheduler" /\ batch["scheduler"].month = PreviousMonth
      BY <2>1, <2>2, <2>8, <3>2, StoreCovers DEF Covered, Month
    <3>3. CASE g = "scheduler" /\ batch["scheduler"].month # PreviousMonth
      BY <2>1, <2>2, <2>3, <3>1, <3>3 DEF DayInv
    <3>4. CASE g = "manual"
      <4>1. batch'["scheduler"] = batch["scheduler"]
        BY <2>8, <3>4 DEF Store, TypeOK, Generators
      <4>q. QED BY <2>4, <3>1, <4>1
    <3>q. QED BY <3>2, <3>3, <3>4 DEF Generators
  <2>9. CASE UNCHANGED <<checked, batch>>
    BY <2>4, <2>9
  <2>q. QED BY <1>2, <2>5, <2>6, <2>7, <2>8, <2>9
         DEF Next, BeginSnapshot, CountSettled, EndSnapshot, Tick, vars
<1>q. QED BY <1>1, <1>2

\* The day does not end before the scheduler has looked at the calendar and the batch
\* has ended.
LEMMA PastStep ==
    ASSUME TypeOK, RecordInv, FoundInv, DayInv, PastInv, [Next]_vars
    PROVE  PastInv'
<1> SUFFICES ASSUME faults' = 0, NEW day \in Start .. MaxTime,
                    IsFirstBusinessDay(day), Month(day) - 1 \in Months,
                    day < clock', day < byHand'[Month(day)]
             PROVE  Covered(Month(day) - 1, day)'
  BY DEF PastInv, Month, IsFirstBusinessDay, Weekday, DayOfMonth
<1>1. /\ faults = 0 /\ day \in Nat /\ clock \in Nat
      /\ Month(day) \in Months /\ Month(day) - 1 # NoMonth
  BY FaultsStay, MonthFacts, MonthsAreNumbers, SettlementAssumption DEF TypeOK
<1>2. day < byHand[Month(day)]
  <2>1. byHand[Month(day)] \in Int /\ byHand'[Month(day)] <= byHand[Month(day)]
    BY <1>1, ByHandStep, SettlementAssumption DEF TypeOK, Never
  <2>2. byHand'[Month(day)] \in Int
    BY <1>1, <2>1, ByHandStep
  <2>q. QED BY <1>1, <2>1, <2>2
<1>3. CASE day < clock
  <2>1. Covered(Month(day) - 1, day)
    BY <1>1, <1>2, <1>3 DEF PastInv
  <2>q. QED BY <1>1, <1>3, <2>1, CoveredStep
<1>4. CASE ~ day < clock
  <2>1. clock' # clock
    BY <1>4
  <2>2. Tick
    BY <2>1 DEF Next, Repayment, Trigger, Acquire, RecordRoyalty, Persist, Meter,
                Release, Deregister, BeginSnapshot, CountSettled, EndSnapshot, Check,
                Manual, Store, Restart, vars, bounds
  <2>3. clock = day
    BY <1>1, <1>4, <2>2 DEF Tick
  <2>4. PreviousMonth = Month(day) - 1
    BY <2>3 DEF PreviousMonth
  <2>5. checked /\ batch["scheduler"].month # PreviousMonth
    BY <1>1, <2>2, <2>3, <2>4 DEF Tick, Idle, Generators
  <2>6. Covered(Month(day) - 1, day)
    BY <1>1, <1>2, <2>3, <2>4, <2>5 DEF DayInv
  <2>q. QED BY <1>1, <2>3, <2>6, CoveredStep
<1>q. QED BY <1>3, <1>4

-----------------------------------------------------------------------------
(* The theorems. *)

LEMMA InvInit ==
    ASSUME Init
    PROVE  IInv
<1>1. InFlightIsExact
  <2>1. Calls = {}
    BY DEF Init, Calls, Inside
  <2>q. QED BY <2>1, FS_EmptySet DEF Init, InFlightIsExact, Calls
<1>2. RecordInv /\ FanOutInv
  BY DEF Init, RecordInv, FanOutInv
<1>3. NavInv /\ SnapshotMissesNothing
  BY DEF Init, NavInv, SnapshotMissesNothing, NoSnapshot
<1>4. FoundInv
  BY DEF Init, FoundInv
<1>5. LastInv
  <2>1. Start \in Nat /\ Month(Start) \in Nat
    BY MonthFacts, SettlementAssumption
  <2>q. QED BY <2>1 DEF Init, LastInv, NoMonth, Generators
<1>6. DayInv /\ PastInv
  BY DEF Init, DayInv, PastInv, Covered
<1>q. QED BY <1>1, <1>2, <1>3, <1>4, <1>5, <1>6 DEF IInv

\* What a repayment, a snapshot and a batch that are half done have done, whatever
\* happens beside them.
THEOREM InvariantHolds == Spec => [](TypeOK /\ IInv)
<1>1. Init => TypeOK /\ IInv
  BY TypeInit, InvInit
<1>2. TypeOK /\ IInv /\ [Next]_vars => TypeOK' /\ IInv'
  BY TypeStep, ExactStep, RecordStep, FanOutStep, NavStep, SnapshotStep, FoundStep,
     LastStep, DayStep, PastStep DEF IInv
<1>q. QED BY <1>1, <1>2, PTL DEF Spec

\* Every variable keeps its type; the permits in use stay within the limit.
THEOREM TypeCorrect == Spec => []TypeOK
    BY InvariantHolds, PTL

\* The bridge leaks no permit, and a repayment that met no fault is in memory, in
\* Redis and, of a processor, metered, unless it was dropped.
THEOREM BooksAreCompleteHolds == Spec => []BooksAreComplete
<1>1. TypeOK /\ IInv => BooksAreComplete
  BY DEF TypeOK, IInv, FanOutInv, Kept, BooksAreComplete
<1>q. QED BY <1>1, InvariantHolds, PTL

\* A NAV event has each loan of its tenant as active or as settled, although loans
\* leave the registry while it is made.
THEOREM SnapshotMissesNothingHolds == Spec => []SnapshotMissesNothing
    BY InvariantHolds, PTL DEF IInv

\* After a first business day, as _is_first_business_day finds them in any calendar, the
\* report of the month before has what was recorded before the day, however manual
\* generations and further batches are interleaved, unless Redis failed or a report of
\* the running month had been made by hand.
THEOREM BatchCoversMonthHolds == Spec => []BatchCoversMonth
<1>1. IInv => BatchCoversMonth
  BY DEF IInv, PastInv, Covered, BatchCoversMonth
<1>q. QED BY <1>1, InvariantHolds, PTL
==============================================================================
