---------------------------- MODULE TenantVelocity ----------------------------
(***************************************************************************)
(* The AML gate of C6 with tenants: AMLChecker.check screens the names,    *)
(* finds the tenant's velocity checker or makes it, checks and records the *)
(* transaction in the tenant's rolling window, records it in the shared    *)
(* window and in the register of the structuring detector, and asks the    *)
(* detector.  Calls of several threads, and with Redis of several workers, *)
(* interleave between these steps.  Every store is keyed by the hash of    *)
(* the sending entity, and one entity is modelled.                         *)
(***************************************************************************)
EXTENDS Environment, FiniteSets, Functions

CONSTANTS
    Calls,          \* calls of AMLChecker.check
    Tenants,        \* processors of the platform
    Benes,          \* beneficiaries
    Amounts,        \* amounts of transactions
    DollarCap,      \* dollar_cap_override of a tenant's licence; 0 is no cap
    CountCap,       \* count_cap_override of it
    Window          \* window_seconds, in ticks

ASSUME TenantVelocityAssumption ==
    /\ IsFiniteSet(Calls)
    /\ IsFiniteSet(Tenants)
    /\ Amounts \subseteq Nat \ {0}
    /\ DollarCap \in [Tenants -> Nat]
    /\ CountCap \in [Tenants -> Nat]
    /\ Window \in Nat \ {0}

Objects == 1 .. Cardinality(Calls)      \* TenantVelocityChecker objects
NoObject == 0
Refusals == {"SANCTIONS", "DOLLAR_CAP_EXCEEDED", "COUNT_CAP_EXCEEDED",
             "BENEFICIARY_CONCENTRATION_EXCEEDED"}

VARIABLES
    backend,        \* with a redis_client, or with the single-replica memory
    checkers,       \* _tenant_checkers
    made,           \* the objects made so far
    window,         \* calls recorded: of a tenant in Redis, of an object in memory
    bpi,            \* calls recorded in _bpi_rolling_window, which nothing reads
    registry,       \* the detector's volume per tenant; absent is 0
    call,           \* what each call is doing
    newest          \* the latest time a check of the tenant went by

tvVars == <<backend, checkers, made, window, bpi, registry, call, clock, faults,
          newest>>

CallSteps == {"idle", "install", "fetch", "check", "register", "write",
          "detect", "done"}
NoCall == [step |-> "idle"]
Refused(reason) == [step |-> "done", answer |-> reason]

TVTypeOK ==
    /\ backend \in Backends
    /\ checkers \in [Tenants -> {NoObject} \cup Objects]
    /\ made \in 0 .. Cardinality(Calls)
    /\ window \in [Tenants \cup Objects -> SUBSET Calls]
    /\ bpi \subseteq Calls
    /\ registry \in [Tenants -> Nat]
    /\ call \in [Calls -> {NoCall} \cup {Refused(r) : r \in Refusals} \cup
                    [step : CallSteps, tenant : Tenants, bene : Benes, amount : Amounts,
                     object : {NoObject} \cup Objects, now : 0 .. MaxTime,
                     late : BOOLEAN, read : Nat, flagged : BOOLEAN,
                     answer : {"none", "PASSED", "RAISED"}]]
    /\ EnvironmentOK
    /\ newest \in [Tenants -> 0 .. MaxTime]

TVInit ==
    /\ backend \in Backends
    /\ checkers = [t \in Tenants |-> NoObject]
    /\ made = 0
    /\ window = [s \in Tenants \cup Objects |-> {}]
    /\ bpi = {}
    /\ registry = [t \in Tenants |-> 0]
    /\ call = [c \in Calls |-> NoCall]
    /\ EnvironmentInit
    /\ newest = [t \in Tenants |-> 0]

CallAt(c, step) == call[c].step = step
CallGoes(c, step) == call' = [call EXCEPT ![c].step = step]
Returns(c, answer) ==
    call' = [call EXCEPT ![c].step = "done", ![c].answer = answer]
Redis == backend = "redis"

\* The hash in Redis is of the tenant's salt, whichever object computes it: there
\* the dictionary of objects makes no difference, and is not followed.
StoreOf(c) == IF Redis THEN call[c].tenant ELSE call[c].object
SumOf(S) == SumFunction([d \in S |-> call[d].amount])

-----------------------------------------------------------------------------
(* A call. *)

\* The sender's and the beneficiary's names are screened: a hit, a name that
\* cannot be screened and a screener that fails all block.  Then the tenant's
\* checker is looked up, under no lock: a thread may find none ...
Screen(c, t, b, a, clear) ==
    /\ call[c] = NoCall
    /\ call' = [call EXCEPT ![c] =
          IF ~ clear THEN Refused("SANCTIONS")
          ELSE [step |-> IF Redis \/ checkers[t] # NoObject THEN "fetch" ELSE "install",
                tenant |-> t, bene |-> b, amount |-> a, object |-> NoObject,
                now |-> 0, late |-> FALSE, read |-> 0, flagged |-> FALSE,
                answer |-> "none"]]
    /\ UNCHANGED <<backend, checkers, made, window, bpi, registry, clock, faults,
                   newest>>

\* ... and put a new one into the dictionary, over that of another thread too.
Install(c) ==
    /\ CallAt(c, "install")
    /\ made' = made + 1
    /\ checkers' = [checkers EXCEPT ![call[c].tenant] = made + 1]
    /\ CallGoes(c, "fetch")
    /\ UNCHANGED <<backend, window, bpi, registry, clock, faults,
                   newest>>

\* The call goes on with the object the dictionary holds when it is returned, even
\* if another thread replaces it before the check.
Fetch(c) ==
    /\ ~ Redis /\ CallAt(c, "fetch")
    /\ call' = [call EXCEPT ![c].step = "check",
                            ![c].object = checkers[call[c].tenant]]
    /\ UNCHANGED <<backend, checkers, made, window, bpi, registry, clock, faults,
                   newest>>

\* Variant: the time is rounded up.
ReadClockUp(c) ==
    /\ Redis /\ CallAt(c, "fetch")
    /\ call' = [call EXCEPT ![c].step = "check", ![c].now = clock + 1]
    /\ UNCHANGED <<backend, checkers, made, window, bpi, registry, clock, faults,
                   newest>>

\* With Redis the time is read before the script is sent.
ReadClock(c) ==
    /\ Redis /\ CallAt(c, "fetch")
    /\ call' = [call EXCEPT ![c].step = "check", ![c].now = clock]
    /\ UNCHANGED <<backend, checkers, made, window, bpi, registry, clock, faults,
                   newest>>

\* The script removes what is as old as the window, the deque what is older.
Live(S, now) ==
    {d \in S : IF Redis THEN call[d].now + Window > now
                        ELSE call[d].now + Window >= now}

Volume(S, b) == SumOf({d \in S : call[d].bene = b})

\* One beneficiary would hold more than 80 % of the volume.
Concentrates(c, S) ==
    LET after(b) == Volume(S, b) + (IF b = call[c].bene THEN call[c].amount ELSE 0)
        total == SumOf(S) + call[c].amount
        projected == {call[d].bene : d \in S \cup {c}}
    IN /\ Cardinality(S) >= 2
       /\ Cardinality(projected) >= 2
       /\ \E b \in projected : 10 * after(b) > 8 * total

\* Variant: the candidate's own amount is left out.
VerdictOnThePast(c, S) ==
    LET t == call[c].tenant
    IN IF DollarCap[t] > 0 /\ SumOf(S) > DollarCap[t]
         THEN "DOLLAR_CAP_EXCEEDED"
       ELSE IF CountCap[t] > 0 /\ Cardinality(S) + 1 > CountCap[t]
         THEN "COUNT_CAP_EXCEEDED"
       ELSE IF Concentrates(c, S)
         THEN "BENEFICIARY_CONCENTRATION_EXCEEDED"
       ELSE "PASSED"

Verdict(c, S) ==
    LET t == call[c].tenant
    IN IF DollarCap[t] > 0 /\ SumOf(S) + call[c].amount > DollarCap[t]
         THEN "DOLLAR_CAP_EXCEEDED"
       ELSE IF CountCap[t] > 0 /\ Cardinality(S) + 1 > CountCap[t]
         THEN "COUNT_CAP_EXCEEDED"
       ELSE IF Concentrates(c, S)
         THEN "BENEFICIARY_CONCENTRATION_EXCEEDED"
       ELSE "PASSED"

\* The caps and the record are one script, or one section under the lock of the
\* call's object (EPG-25).  A call is late when one with a later time was checked
\* first.  The script may have run although its reply is lost: then the exception
\* leaves AMLChecker.check, and the record stays.
CheckAndRecord(c) ==
    /\ CallAt(c, "check")
    /\ LET t == call[c].tenant
           s == StoreOf(c)
           now == IF Redis THEN call[c].now ELSE clock
           live == Live(window[s], now)
           verdict == Verdict(c, live)
       IN /\ window' = [window EXCEPT ![s] =
                IF verdict = "PASSED" THEN live \cup {c} ELSE live]
          /\ newest' = [newest EXCEPT ![t] = IF now > @ THEN now ELSE @]
          /\ \/ /\ call' = [call EXCEPT ![c] =
                      IF verdict = "PASSED"
                        THEN [@ EXCEPT !.step = "register", !.now = now,
                                       !.late = newest[t] > now]
                        ELSE Refused(verdict)]
                /\ UNCHANGED <<clock, faults>>
             \/ Redis /\ RedisFails /\ Returns(c, "RAISED")
    /\ UNCHANGED <<backend, checkers, made, bpi, registry>>

\* What passed is put into the shared window, and into the register: HINCRBYFLOAT
\* is one step, whose reply may be lost too; += on the dictionary reads ...
Register(c) ==
    /\ CallAt(c, "register")
    /\ bpi' = bpi \cup {c}
    /\ LET t == call[c].tenant
       IN \/ /\ Redis
             /\ registry' = [registry EXCEPT ![t] = @ + call[c].amount]
             /\ \/ CallGoes(c, "detect") /\ UNCHANGED <<clock, faults>>
                \/ Returns(c, "RAISED") /\ RedisFails
          \/ /\ ~ Redis
             /\ call' = [call EXCEPT ![c].step = "write", ![c].read = registry[t]]
             /\ UNCHANGED <<registry, clock, faults>>
    /\ UNCHANGED <<backend, checkers, made, window, newest>>

\* ... and writes.
Write(c) ==
    /\ CallAt(c, "write")
    /\ registry' = [registry EXCEPT ![call[c].tenant] = call[c].read + call[c].amount]
    /\ CallGoes(c, "detect")
    /\ UNCHANGED <<backend, checkers, made, window, bpi, clock, faults,
                   newest>>

\* Variant: the detector is asked about the transactions before this one.
CombinedBefore(c) == SumFunction(registry) - call[c].amount

Combined(c) == SumFunction(registry)
Present == {t \in Tenants : registry[t] > 0}

\* The soft flag: two tenants, and more than the cap together.
Detect(c) ==
    /\ CallAt(c, "detect")
    /\ call' = [call EXCEPT ![c].step = "done", ![c].answer = "PASSED",
                            ![c].read = 0,
                            ![c].flagged =
                  /\ Cardinality(Present) >= 2
                  /\ DollarCap[call[c].tenant] > 0
                  /\ Combined(c) > DollarCap[call[c].tenant]]
    /\ UNCHANGED <<backend, checkers, made, window, bpi, registry, clock, faults,
                   newest>>

\* A command that does not reach Redis, or only reads: the exception leaves
\* AMLChecker.check.  Where it is HINCRBYFLOAT, the shared window has the call.
Raise(c) ==
    /\ Redis
    /\ \E step \in {"check", "register", "detect"} : CallAt(c, step)
    /\ RedisFails
    /\ Returns(c, "RAISED")
    /\ \/ bpi' = bpi
       \/ CallAt(c, "register") /\ bpi' = bpi \cup {c}
    /\ UNCHANGED <<backend, checkers, made, window, registry, newest>>

TVTick ==
    /\ TimePasses
    /\ UNCHANGED <<backend, checkers, made, window, bpi, registry, call, newest>>

Step(c) ==
    \/ Install(c) \/ Fetch(c) \/ ReadClock(c) \/ CheckAndRecord(c)
    \/ Register(c) \/ Write(c) \/ Detect(c) \/ Raise(c)

TVNext ==
    \/ \E c \in Calls :
        \/ \E t \in Tenants, b \in Benes, a \in Amounts, clear \in BOOLEAN :
              Screen(c, t, b, a, clear)
        \/ Step(c)
    \/ TVTick

TVSpec == TVInit /\ [][TVNext]_tvVars

-----------------------------------------------------------------------------
(* Properties. *)

\* The calls that passed the caps and recorded their transaction.
Passed == {c \in Calls :
             \/ call[c].step \in {"register", "write", "detect"}
             \/ call[c].step = "done" /\ call[c].answer = "PASSED"}

\* The registry of a tenant has held one checker only.
OneChecker(t) ==
    \A c, d \in Passed :
        call[c].tenant = t /\ call[d].tenant = t => call[c].object = call[d].object

\* EPG-25, "no concurrent worker can slip through": in no rolling window do the
\* transactions of a tenant pass its caps together, whatever calls race.  It takes
\* one checker per tenant where the windows are in memory, and a script that is
\* not overtaken by a younger one where they are in Redis.
RollingCap ==
    \A t \in Tenants, end \in 0 .. MaxTime :
        Redis \/ OneChecker(t) =>
            LET inside == {c \in Passed :
                             /\ call[c].tenant = t /\ ~ call[c].late
                             /\ call[c].now <= end /\ call[c].now + Window > end}
            IN /\ DollarCap[t] > 0 =>
                    SumOf(inside) <= DollarCap[t]
               /\ CountCap[t] > 0 => Cardinality(inside) <= CountCap[t]

\* FATF R.21: with Redis, when the calls that passed moved more through two tenants
\* than the cap of either, one of them was flagged, in whatever order they recorded
\* and asked.
StructuringIsFlagged ==
    (/\ Redis
     /\ \A c \in Calls : call[c].step \in {"idle", "done"}
     /\ \A c \in Calls : call[c].step = "done" => call[c].answer # "RAISED"
     /\ Cardinality({call[c].tenant : c \in Passed}) >= 2
     /\ \A t \in Tenants : 0 < DollarCap[t] /\ DollarCap[t] < SumOf(Passed))
    => \E c \in Passed : call[c].flagged
=============================================================================
