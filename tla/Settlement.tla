------------------------------ MODULE Settlement ------------------------------
(***************************************************************************)
(* What happens to the money after a repayment: RepaymentLoop calls the    *)
(* SettlementCallbackBridge and then deregisters the loan; the bridge      *)
(* drops a call above its limit, or records the royalty (in memory, then   *)
(* in a Redis list), the metered transaction and the settlement of the     *)
(* NAV history.  Beside it run the NAV emitter, the monthly royalty batch  *)
(* and a manual generate_now.  Everything but the Redis list and the       *)
(* stored reports is lost when the process restarts.                       *)
(***************************************************************************)
EXTENDS Integers, FiniteSets

CONSTANTS
    Loans,          \* the registered loans
    Tenants,        \* processors
    Bank,           \* the empty licensee_id of a loan no processor brought
    MaxConcurrent,  \* max_concurrent of the bridge
    MonthLength,    \* days of a month; a tick is a day
    FirstWeekday,   \* the weekday of the 1st of each month; 0 is Monday
    Start,          \* the day the clock begins with
    SettledWindow,  \* the "last 60 minutes" of a NAV event, in ticks
    MaxTime,        \* bound on the clock
    MaxFaults,      \* bound on failing Redis calls
    MaxCrashes      \* bound on restarts

Months == 0 .. MaxTime \div MonthLength
NoMonth == -1

ASSUME SettlementAssumption ==
    /\ IsFiniteSet(Loans)
    /\ Bank \notin Tenants
    /\ MaxConcurrent \in Nat \ {0}
    /\ MonthLength \in Nat /\ MonthLength >= 3
    /\ MaxTime \in Nat
    /\ FirstWeekday \in [Months -> 0 .. 6]
    /\ Start \in 0 .. MaxTime
    /\ SettledWindow \in Nat
    /\ MaxFaults \in Nat
    /\ MaxCrashes \in Nat

VARIABLES
    tenantOf,       \* licensee_id of each loan
    step,           \* where the repayment of each loan is
    repaidAt,       \* repaid_at of its record
    inFlight,       \* permits of the bridge's semaphore in use
    dropped,        \* loans whose event was dropped
    records,        \* _records of BPIRoyaltySettlement
    recordedAt,     \* when the royalty entered them
    ledger,         \* the list lip:royalty:records in Redis
    metered,        \* _entries of RevenueMetering
    history,        \* _history of NAVEventEmitter
    nav,            \* the snapshot the emitter is taking
    batch,          \* what the scheduler and the manual call are generating
    lastGenerated,  \* _last_generated_month
    checked,        \* the scheduler has looked at the calendar today
    byHand,         \* first day a manual report was made of each month as it ran
    report,         \* lip:royalty:settlement:<month> in Redis
    clock,
    faults,
    crashes

bridge == <<tenantOf, step, repaidAt, inFlight, dropped, records, recordedAt, 
            ledger, metered, history>>
batches == <<batch, lastGenerated, checked, byHand, report>>
bounds == <<clock, faults, crashes>>
vars == <<bridge, nav, batches, bounds>>

Steps == {"active", "call", "royalty", "persist", "meter", "release",
          "deregister", "done", "lost"}
Inside == {"royalty", "persist", "meter", "release"}
Generators == {"scheduler", "manual"}
Idle == [month |-> NoMonth, found |-> {}]
Never == MaxTime + 1
NoSnapshot == [active |-> {}, left |-> {}, tenant |-> Bank,
               settled |-> {}]

TypeOK ==
    /\ tenantOf \in [Loans -> Tenants \cup {Bank}]
    /\ step \in [Loans -> Steps]
    /\ repaidAt \in [Loans -> 0 .. MaxTime]
    /\ inFlight \in 0 .. MaxConcurrent
    /\ dropped \subseteq Loans
    /\ records \subseteq Loans
    /\ recordedAt \in [Loans -> 0 .. MaxTime]
    /\ ledger \subseteq Loans
    /\ metered \subseteq Loans
    /\ history \subseteq Loans
    /\ nav \in [active : SUBSET Loans, left : SUBSET Tenants,
                tenant : Tenants \cup {Bank}, settled : SUBSET Loans]
    /\ batch \in [Generators -> [month : {NoMonth} \cup Months,
                                 found : SUBSET Loans]]
    /\ lastGenerated \in {NoMonth} \cup Months
    /\ checked \in BOOLEAN
    /\ byHand \in [Months -> 0 .. Never]
    /\ report \in [Months -> SUBSET Loans]
    /\ clock \in 0 .. MaxTime
    /\ faults \in 0 .. MaxFaults
    /\ crashes \in 0 .. MaxCrashes

Init ==
    /\ tenantOf \in [Loans -> Tenants \cup {Bank}]
    /\ step = [l \in Loans |-> "active"]
    /\ repaidAt = [l \in Loans |-> 0]
    /\ inFlight = 0
    /\ dropped = {}
    /\ records = {}
    /\ recordedAt = [l \in Loans |-> 0]
    /\ ledger = {}
    /\ metered = {}
    /\ history = {}
    /\ nav = NoSnapshot
    /\ batch = [g \in Generators |-> Idle]
    /\ lastGenerated = NoMonth
    /\ checked = FALSE
    /\ byHand = [m \in Months |-> Never]
    /\ report = [m \in Months |-> {}]
    /\ clock = Start
    /\ faults = 0
    /\ crashes = 0

Goes(l, to) == step' = [step EXCEPT ![l] = to]
Registered(l) == step[l] \in {"active", "call", "deregister"} \cup Inside
Month(t) == t \div MonthLength

-----------------------------------------------------------------------------
(* A repayment. *)

\* trigger_repayment has the claim and makes the record with its repaid_at.
Trigger(l) ==
    /\ step[l] = "active"
    /\ repaidAt' = [repaidAt EXCEPT ![l] = clock]
    /\ Goes(l, "call")
    /\ UNCHANGED <<tenantOf, inFlight, dropped, records, recordedAt, ledger,
                   metered, history, nav, batches, bounds>>

HasPermit == inFlight < MaxConcurrent

\* The semaphore is tried without waiting: above the limit the event is dropped,
\* and the loan is deregistered all the same.
Acquire(l) ==
    /\ step[l] = "call"
    /\ \/ /\ HasPermit
          /\ inFlight' = inFlight + 1
          /\ Goes(l, "royalty")
          /\ UNCHANGED dropped
       \/ /\ ~ HasPermit
          /\ dropped' = dropped \cup {l}
          /\ Goes(l, "deregister")
          /\ UNCHANGED inFlight
    /\ UNCHANGED <<tenantOf, repaidAt, records, recordedAt, ledger, metered,
                   history, nav, batches, bounds>>

\* The royalty is appended under the lock of the settlement ...
RecordRoyalty(l) ==
    /\ step[l] = "royalty"
    /\ records' = records \cup {l}
    /\ recordedAt' = [recordedAt EXCEPT ![l] = clock]
    /\ Goes(l, "persist")
    /\ UNCHANGED <<tenantOf, repaidAt, inFlight, dropped, ledger, metered,
                   history, nav, batches, bounds>>

\* ... and pushed to Redis outside of it; a failure is only logged.  A loan of the
\* bank ends the fan-out here.
Persist(l) ==
    /\ step[l] = "persist"
    /\ \/ ledger' = ledger \cup {l} /\ UNCHANGED faults
       \/ faults < MaxFaults /\ faults' = faults + 1 /\ UNCHANGED ledger
    /\ Goes(l, IF tenantOf[l] = Bank THEN "release" ELSE "meter")
    /\ UNCHANGED <<tenantOf, repaidAt, inFlight, dropped, records, recordedAt,
                   metered, history, nav, batches, clock, crashes>>

\* Of a processor's loan the transaction is metered and the settlement recorded for
\* NAV, both in memory; nothing here reads the meter.
Meter(l) ==
    /\ step[l] = "meter"
    /\ metered' = metered \cup {l}
    /\ history' = history \cup {l}
    /\ Goes(l, "release")
    /\ UNCHANGED <<tenantOf, repaidAt, inFlight, dropped, records, recordedAt,
                   ledger, nav, batches, bounds>>

\* Variant: a loan of the bank returns without giving its permit back.
ReleaseOfTenants(l) ==
    /\ step[l] = "release"
    /\ inFlight' = IF tenantOf[l] = Bank THEN inFlight ELSE inFlight - 1
    /\ Goes(l, "deregister")
    /\ UNCHANGED <<tenantOf, repaidAt, dropped, records, recordedAt, ledger,
                   metered, history, nav, batches, bounds>>

\* The permit is given back in a finally.
Release(l) ==
    /\ step[l] = "release"
    /\ inFlight' = inFlight - 1
    /\ Goes(l, "deregister")
    /\ UNCHANGED <<tenantOf, repaidAt, dropped, records, recordedAt, ledger,
                   metered, history, nav, batches, bounds>>

\* Only now does the loan leave the registry.
Deregister(l) ==
    /\ step[l] = "deregister"
    /\ Goes(l, "done")
    /\ UNCHANGED <<tenantOf, repaidAt, inFlight, dropped, records, recordedAt,
                   ledger, metered, history, nav, batches, bounds>>

-----------------------------------------------------------------------------
(* The NAV emitter. *)

\* Variant: the loans in a callback are taken for repaid.
ActiveLoansEarly == {l \in Loans : step[l] = "active"}

ActiveLoans == {l \in Loans : Registered(l)}

\* The active loans are read first; tenants without one get no event.
BeginSnapshot ==
    /\ nav = NoSnapshot
    /\ nav' = [active |-> ActiveLoans,
               left |-> {tenantOf[l] : l \in ActiveLoans} \ {Bank},
               tenant |-> Bank, settled |-> {}]
    /\ UNCHANGED <<bridge, batches, bounds>>

\* The settlements of each tenant are counted under the lock of the history, tenant
\* after tenant, and the event is sent.
CountSettled(t) ==
    /\ nav # NoSnapshot /\ t \in nav.left
    /\ nav' = [nav EXCEPT !.left = @ \ {t}, !.tenant = t,
                          !.settled = {l \in history :
                             /\ tenantOf[l] = t
                             /\ repaidAt[l] + SettledWindow >= clock}]
    /\ UNCHANGED <<bridge, batches, bounds>>

\* The purge is of settlements 30 days old, beyond the bound of the clock.
EndSnapshot ==
    /\ nav # NoSnapshot /\ nav.left = {}
    /\ nav' = NoSnapshot
    /\ UNCHANGED <<bridge, batches, bounds>>

-----------------------------------------------------------------------------
(* The monthly batch. *)

DayOfMonth(t) == (t % MonthLength) + 1
Weekday(t) == (FirstWeekday[Month(t)] + (t % MonthLength)) % 7

\* The 1st, unless it is on a weekend.  After a Sunday both the 2nd and the 3rd are
\* such days; after a Saturday none is, since Monday the 3rd counts after a Sunday only.
IsFirstBusinessDay(t) ==
    /\ Weekday(t) < 5
    /\ \/ DayOfMonth(t) = 1
       \/ DayOfMonth(t) = 2 /\ FirstWeekday[Month(t)] >= 5
       \/ DayOfMonth(t) = 3 /\ FirstWeekday[Month(t)] = 6

\* Variant: the batch looks at the running month.
RunningMonth == Month(clock)

PreviousMonth == Month(clock) - 1

Found(m) == {l \in records : Month(repaidAt[l]) = m}

\* The scheduler compares the month it generated last with the running one, which
\* differ by one after a batch of its own: it generates at every check of the day, and
\* not at all after a report of the running month.  The month before the first has no
\* royalties and is left out.
Check ==
    /\ batch["scheduler"] = Idle
    /\ PreviousMonth \in Months
    /\ IsFirstBusinessDay(clock)
    /\ checked' = TRUE
    /\ IF lastGenerated # Month(clock)
         THEN batch' = [batch EXCEPT !["scheduler"] =
                  [month |-> PreviousMonth, found |-> Found(PreviousMonth)]]
         ELSE UNCHANGED batch
    /\ UNCHANGED <<bridge, nav, lastGenerated, byHand, report, bounds>>

\* generate_now for any month, the running one too.
Manual(m) ==
    /\ batch["manual"] = Idle
    /\ m <= Month(clock)
    /\ batch' = [batch EXCEPT !["manual"] = [month |-> m, found |-> Found(m)]]
    /\ UNCHANGED <<bridge, nav, lastGenerated, checked, byHand, report,
                   bounds>>

\* The reports, if there are any, replace those in Redis; a failure is logged.
Store(g) ==
    /\ batch[g] # Idle
    /\ \/ /\ batch[g].found # {}
          /\ report' = [report EXCEPT ![batch[g].month] = batch[g].found]
          /\ UNCHANGED faults
       \/ /\ batch[g].found = {}
          /\ UNCHANGED <<report, faults>>
       \/ /\ batch[g].found # {}
          /\ faults < MaxFaults /\ faults' = faults + 1
          /\ UNCHANGED report
    /\ lastGenerated' = batch[g].month
    /\ byHand' = IF g = "manual" /\ batch[g].month = Month(clock) /\ clock < byHand[Month(clock)]
                   THEN [byHand EXCEPT ![Month(clock)] = clock]
                   ELSE byHand
    /\ batch' = [batch EXCEPT ![g] = Idle]
    /\ UNCHANGED <<bridge, nav, checked, clock, crashes>>

-----------------------------------------------------------------------------
(* Restart and time. *)

\* The process restarts: loans in its registry are lost, and the royalties are what
\* LRANGE returns, or nothing when it fails.
Restart ==
    /\ crashes < MaxCrashes
    /\ crashes' = crashes + 1
    /\ step' = [l \in Loans |-> IF Registered(l) THEN "lost" ELSE step[l]]
    /\ \/ records' = ledger /\ UNCHANGED faults
       \/ records' = {} /\ faults < MaxFaults /\ faults' = faults + 1
    /\ inFlight' = 0
    /\ metered' = {}
    /\ history' = {}
    /\ nav' = NoSnapshot
    /\ batch' = [g \in Generators |-> Idle]
    /\ lastGenerated' = NoMonth
    /\ checked' = FALSE
    /\ UNCHANGED <<tenantOf, repaidAt, dropped, recordedAt, ledger, byHand,
                   report, clock>>

\* A day is longer than an interval of the scheduler, a generation and a snapshot.
Tick ==
    /\ clock < MaxTime
    /\ nav = NoSnapshot
    /\ batch = [g \in Generators |-> Idle]
    /\ IsFirstBusinessDay(clock) /\ PreviousMonth \in Months => checked
    /\ clock' = clock + 1
    /\ checked' = FALSE
    /\ UNCHANGED <<bridge, nav, batch, lastGenerated, byHand, report,
                   faults, crashes>>

Repayment(l) ==
    \/ Trigger(l) \/ Acquire(l) \/ RecordRoyalty(l) \/ Persist(l)
    \/ Meter(l) \/ Release(l) \/ Deregister(l)

Next ==
    \/ \E l \in Loans : Repayment(l)
    \/ BeginSnapshot \/ (\E t \in Tenants : CountSettled(t)) \/ EndSnapshot
    \/ Check \/ (\E m \in Months : Manual(m)) \/ (\E g \in Generators : Store(g))
    \/ Restart \/ Tick

Spec == Init /\ [][Next]_vars

-----------------------------------------------------------------------------
(* Properties. *)

\* B5-17 and the fan-out: the permits in use are the calls inside, so a call is
\* dropped only when the bridge is full, and a loan that was repaid without a crash
\* or a fault has its royalty in memory and in Redis and, of a processor, its
\* transaction metered, unless it was dropped.
InFlightIsExact == inFlight = Cardinality({l \in Loans : step[l] \in Inside})
BooksAreComplete ==
    /\ InFlightIsExact
    /\ \A l \in Loans :
        crashes = 0 /\ faults = 0 /\ step[l] \in {"deregister", "done"} =>
            \/ l \in dropped
            \/ /\ l \in records \cap ledger
               /\ tenantOf[l] # Bank => l \in metered \cap history

\* A NAV event misses no money: each loan of its tenant is among the active ones or,
\* settled in the last 60 minutes, among the settlements, although a repayment goes
\* on between the two readings.  (A restart forgets the history.)
SnapshotMissesNothing ==
    nav.tenant # Bank /\ crashes = 0 =>
        \A l \in Loans :
            /\ l \notin dropped /\ tenantOf[l] = nav.tenant
            /\ repaidAt[l] + SettledWindow >= clock
            => l \in nav.active \cup nav.settled

\* A batch covers its month: once its day is over, the report in Redis has every
\* royalty of the month before that was recorded before the day began, whatever was
\* generated by hand or again meanwhile, on both days of a month that begins on a
\* Sunday and through restarts.  Only a Redis error, or a report made by hand of the
\* month that is running, makes an exception.  A month after which no day is a first
\* business day has no batch to cover it.
BatchCoversMonth ==
    faults = 0 =>
        \A day \in Start .. MaxTime :
            LET m == Month(day) - 1 IN
            /\ IsFirstBusinessDay(day) /\ m \in Months
            /\ day < clock /\ day < byHand[Month(day)]
            => \A l \in records :
                  Month(repaidAt[l]) = m /\ recordedAt[l] < day => l \in report[m]

(* What the documentation says and the code does not keep. *)

\* royalty_batch.py:3: "Triggers generate_monthly_settlement() on the 1st business day
\* of each month".  The month after one that begins on a Saturday comes, and what was
\* booked in the month before that was never reported.
MonthIsReported ==
    faults = 0 /\ (\A m \in Months : byHand[m] = Never) =>
        \A l \in records :
            /\ Month(recordedAt[l]) = Month(repaidAt[l])
            /\ Month(repaidAt[l]) + 1 < Month(clock)
            => l \in report[Month(repaidAt[l])]
=============================================================================
