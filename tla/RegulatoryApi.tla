---------------------------- MODULE RegulatoryApi ----------------------------
(***************************************************************************)
(* The gates in front of the regulatory API and the meter behind it: the   *)
(* rate limiter, the token and tier checks, the budget pre-check, the      *)
(* answer and the metering that follows it, on several replicas whose      *)
(* requests interleave.  Limiter and meter each live in Redis or in the    *)
(* memory of a replica; the application wires both in memory.  The         *)
(* requests are those of one regulator from one address.                   *)
(***************************************************************************)
EXTENDS Environment, FiniteSets, Functions

CONSTANTS
    Requests,       \* requests of the regulator
    Replicas,       \* processes that serve the API
    Costs,          \* epsilon of the endpoints, in units of 0.05
    QueryBudget,    \* query_budget_monthly
    EpsilonBudget,  \* privacy_budget_allocation, in units of 0.05
    Rate,           \* requests per period
    Period,         \* period_seconds, in ticks
    MonthLength,    \* ticks of a month
    MaxCrashes      \* bound on restarts

Shared == "redis"
Stores == Replicas \cup {Shared}
Months == 0 .. MaxTime \div MonthLength

ASSUME RegulatoryApiAssumption ==
    /\ IsFiniteSet(Requests)
    /\ Shared \notin Replicas
    /\ Costs \subseteq Nat \ {0}
    /\ QueryBudget \in Nat /\ EpsilonBudget \in Nat
    /\ Period \in Nat \ {0}
    /\ Rate \in Nat
    /\ MonthLength \in Nat \ {0}
    /\ MaxCrashes \in Nat

VARIABLES
    meterIn,        \* "redis" or "memory": the backend of RegulatoryQueryMetering
    limiterIn,      \* "redis" or "memory": the backend of the rate limiter
    bucket,         \* tokens and last refill of each replica's limiter, in parts
                    \* of which Period make a token and Rate come with a tick
    counter,        \* counters of the limiter in Redis, per period
    usage,          \* counters and entries of the meter, per store and month
    request,
    crashes

raVars == <<meterIn, limiterIn, bucket, counter, usage, request, clock, faults, crashes>>

RequestSteps == {"idle", "check", "second get", "serve"}
Answers == {"rate limited", "refused", "over budget", "metered", "unmetered",
            "metered unheard", "raised", "lost"}
NoRequest == [step |-> "idle"]
NoUsage == [count |-> 0, epsilon |-> 0, entries |-> {}]
FullBucket == [tokens |-> Rate * Period, at |-> 0]

RATypeOK ==
    /\ meterIn \in Backends
    /\ limiterIn \in Backends
    /\ bucket \in [Replicas -> [tokens : 0 .. Rate * Period, at : 0 .. MaxTime]]
    /\ counter \in [0 .. MaxTime \div Period -> 0 .. Cardinality(Requests)]
    /\ usage \in [Stores -> [Months -> [count : 0 .. QueryBudget,
                                        epsilon : 0 .. EpsilonBudget,
                                        entries : SUBSET Requests]]]
    /\ request \in [Requests -> {NoRequest} \cup
                        [step : RequestSteps \cup Answers, replica : Replicas,
                         cost : Costs, at : 0 .. MaxTime, allowedBy : Stores,
                         month : Months, count : 0 .. QueryBudget,
                         overtaken : BOOLEAN]]
    /\ EnvironmentOK
    /\ crashes \in 0 .. MaxCrashes

RAInit ==
    /\ meterIn \in Backends
    /\ limiterIn \in Backends
    /\ bucket = [p \in Replicas |-> FullBucket]
    /\ counter = [w \in 0 .. MaxTime \div Period |-> 0]
    /\ usage = [s \in Stores |-> [m \in Months |-> NoUsage]]
    /\ request = [r \in Requests |-> NoRequest]
    /\ EnvironmentInit
    /\ crashes = 0

RequestAt(r, step) == request[r].step = step
RequestGoes(r, step) == request' = [request EXCEPT ![r].step = step]
Month == clock \div MonthLength
MeterOf(p) == IF meterIn = "redis" THEN Shared ELSE p

\* The gates run in the event loop of the replica, which a Redis call blocks.
LoopIsFree(p) ==
    \A r \in Requests : RequestAt(r, "second get") => request[r].replica # p

-----------------------------------------------------------------------------
(* The rate limiter. *)

\* After the limiter the token's signature, tier and corridors are checked, which
\* need nothing but the request: it is permitted, or answered 401 or 403.
Arrived(r, p, c, by, allowed) ==
    \E permitted \in BOOLEAN :
        request' = [request EXCEPT ![r] =
            [step |-> IF ~ allowed THEN "rate limited"
                      ELSE IF permitted THEN "check" ELSE "refused",
             replica |-> p, cost |-> c, at |-> clock, allowedBy |-> by,
             month |-> Month, count |-> 0, overtaken |-> FALSE]]

\* Variant: the refill is not bounded by the size of the bucket.
RefilledBeyond(p) == bucket[p].tokens + (clock - bucket[p].at) * Rate

Refilled(p) ==
    LET tokens == bucket[p].tokens + (clock - bucket[p].at) * Rate
    IN IF tokens < Rate * Period THEN tokens ELSE Rate * Period

\* The bucket of the replica is refilled for the time that went by, fractions of a
\* token too, and one token taken if there is a whole one, under its lock.
TakeToken(r, p, c) ==
    LET tokens == Refilled(p)
    IN /\ bucket' = [bucket EXCEPT ![p] =
             [tokens |-> IF tokens >= Period THEN tokens - Period ELSE tokens,
              at |-> clock]]
       /\ Arrived(r, p, c, p, tokens >= Period)

ArriveMemory(r, p, c) ==
    /\ request[r] = NoRequest /\ LoopIsFree(p)
    /\ limiterIn = "memory"
    /\ TakeToken(r, p, c)
    /\ UNCHANGED <<meterIn, limiterIn, counter, usage, clock, faults, crashes>>

\* INCR of the counter of the period; its first user sets the expiry.
ArriveRedis(r, p, c) ==
    LET w == clock \div Period
    IN /\ request[r] = NoRequest /\ LoopIsFree(p)
       /\ limiterIn = "redis"
       /\ counter' = [counter EXCEPT ![w] = @ + 1]
       /\ Arrived(r, p, c, Shared, counter[w] + 1 <= Rate)
       /\ UNCHANGED <<meterIn, limiterIn, bucket, usage, clock, faults, crashes>>

\* INCR fails, or its reply is lost, or the EXPIRE after it fails: the replica's
\* bucket decides.
ArriveFallback(r, p, c) ==
    LET w == clock \div Period
    IN /\ request[r] = NoRequest /\ LoopIsFree(p)
       /\ limiterIn = "redis"
       /\ RedisFails
       /\ \/ UNCHANGED counter
          \/ counter' = [counter EXCEPT ![w] = @ + 1]
       /\ TakeToken(r, p, c)
       /\ UNCHANGED <<meterIn, limiterIn, usage, crashes>>

-----------------------------------------------------------------------------
(* Budget, answer and meter. *)

\* Variant: the pre-check asks whether the budget is used up, not whether this
\* request fits into it.
FitsBefore(u, c) == u.count < QueryBudget /\ u.epsilon < EpsilonBudget

WithinBudget(u, c) == u.count + 1 <= QueryBudget /\ u.epsilon + c <= EpsilonBudget

Fits(u, c) == u.count + 1 <= QueryBudget /\ u.epsilon + c <= EpsilonBudget

\* The budgets let the request go on, by the usage u that was read.
Decided(r, u) ==
    [request[r] EXCEPT
        !.step = IF WithinBudget(u, request[r].cost) THEN "serve" ELSE "over budget",
        !.count = 0]

\* assert_within_budget reads the usage of the month, under a lock that is released
\* before the answer ...
PreCheck(r) ==
    /\ RequestAt(r, "check") /\ meterIn = "memory"
    /\ request' = [request EXCEPT ![r] =
          [Decided(r, usage[MeterOf(request[r].replica)][Month]) EXCEPT !.month = Month]]
    /\ UNCHANGED <<meterIn, limiterIn, bucket, counter, usage, clock, faults, crashes>>

\* ... in Redis with two GETs, of the count ...
GetCount(r) ==
    /\ RequestAt(r, "check") /\ meterIn = "redis" /\ LoopIsFree(request[r].replica)
    /\ request' = [request EXCEPT ![r].step = "second get",
                                  ![r].count = usage[Shared][Month].count,
                                  ![r].month = Month]
    /\ UNCHANGED <<meterIn, limiterIn, bucket, counter, usage, clock, faults, crashes>>

\* ... and of the epsilon.
GetEpsilon(r) ==
    /\ RequestAt(r, "second get")
    /\ request' = [request EXCEPT ![r] =
          Decided(r, [count |-> request[r].count,
                      epsilon |-> usage[Shared][request[r].month].epsilon])]
    /\ UNCHANGED <<meterIn, limiterIn, bucket, counter, usage, clock, faults, crashes>>

\* Variant: the counters are raised and the entry is appended before the check.
ChargedAnyway(u, r) ==
    [count |-> u.count + 1, epsilon |-> u.epsilon + request[r].cost,
     entries |-> u.entries \cup {r}]

Charged(u, r) ==
    IF Fits(u, request[r].cost)
      THEN [count |-> u.count + 1, epsilon |-> u.epsilon + request[r].cost,
            entries |-> u.entries \cup {r}]
      ELSE u

\* The requests that are, or were, checked against the usage r changes.
Overtakes(r, d) ==
    /\ d # r /\ (RequestAt(d, "second get") \/ RequestAt(d, "serve"))
    /\ MeterOf(request[d].replica) = MeterOf(request[r].replica)

\* record_query checks again and appends in one section or script, in the month it
\* runs in.
Meters(r, answer) ==
    LET s == MeterOf(request[r].replica)
        fits == Fits(usage[s][Month], request[r].cost)
    IN /\ usage' = [usage EXCEPT ![s][Month] = Charged(@, r)]
       /\ request' = [d \in Requests |->
             IF d = r
               THEN [request[r] EXCEPT
                       !.step = answer[fits],
                       !.overtaken = @ \/ request[r].month # Month,
                       !.month = Month]
             ELSE IF Overtakes(r, d) /\ fits
               THEN [request[d] EXCEPT !.overtaken = TRUE]
             ELSE request[d]]
       /\ UNCHANGED <<meterIn, limiterIn, bucket, counter, crashes>>

\* The endpoint has answered, with data or an error of its own; a request that no
\* longer fits is logged and was answered all the same.
Record(r) ==
    /\ RequestAt(r, "serve") /\ LoopIsFree(request[r].replica)
    /\ Meters(r, [fits \in BOOLEAN |-> IF fits THEN "metered" ELSE "unmetered"])
    /\ UNCHANGED <<clock, faults>>

\* The script ran, but its reply is lost.
RecordUnheard(r) ==
    /\ RequestAt(r, "serve") /\ LoopIsFree(request[r].replica)
    /\ meterIn = "redis" /\ RedisFails
    /\ Meters(r, [fits \in BOOLEAN |-> IF fits THEN "metered unheard" ELSE "raised"])

\* A Redis call of the meter fails: a GET of the pre-check refuses with a 500, the
\* record is lost after the answer.
MeterFails(r) ==
    /\ meterIn = "redis"
    /\ \/ RequestAt(r, "second get")
       \/ (RequestAt(r, "check") \/ RequestAt(r, "serve")) /\ LoopIsFree(request[r].replica)
    /\ RedisFails
    /\ request' = [request EXCEPT
          ![r].step = IF RequestAt(r, "serve") THEN "raised" ELSE "refused",
          ![r].count = 0]
    /\ UNCHANGED <<meterIn, limiterIn, bucket, counter, usage, crashes>>

-----------------------------------------------------------------------------
(* Restart and time. *)

Restart(p) ==
    /\ crashes < MaxCrashes /\ crashes' = crashes + 1
    /\ bucket' = [bucket EXCEPT ![p] = [tokens |-> Rate * Period, at |-> clock]]
    /\ usage' = [usage EXCEPT ![p] = [m \in Months |-> NoUsage]]
    /\ request' = [r \in Requests |->
          IF request[r].step \in RequestSteps \ {"idle"} /\ request[r].replica = p
            THEN [request[r] EXCEPT !.step = "lost", !.count = 0] ELSE request[r]]
    /\ UNCHANGED <<meterIn, limiterIn, counter, clock, faults>>

RATick ==
    /\ TimePasses
    /\ UNCHANGED <<meterIn, limiterIn, bucket, counter, usage, request, crashes>>

RANext ==
    \/ \E r \in Requests, p \in Replicas, c \in Costs :
        ArriveMemory(r, p, c) \/ ArriveRedis(r, p, c) \/ ArriveFallback(r, p, c)
    \/ \E r \in Requests :
        \/ PreCheck(r) \/ GetCount(r) \/ GetEpsilon(r)
        \/ Record(r) \/ RecordUnheard(r) \/ MeterFails(r)
    \/ \E p \in Replicas : Restart(p)
    \/ RATick

RASpec == RAInit /\ [][RANext]_raVars

-----------------------------------------------------------------------------
(* Properties. *)

Metered(s, m) ==
    {r \in Requests : /\ RequestAt(r, "metered") \/ RequestAt(r, "metered unheard")
                      /\ MeterOf(request[r].replica) = s /\ request[r].month = m}

\* B3-04, T2.2a: the requests metered in a month keep both budgets, over all replicas
\* and their restarts when the meter is in Redis, and the bill, which is made of the
\* entries, has exactly them, those of a script whose reply was lost included; in memory
\* that holds of a replica that never restarted.
MeteredWithinBudget ==
    \A s \in Stores, m \in Months :
        s = Shared \/ crashes = 0 =>
            /\ Cardinality(Metered(s, m)) <= QueryBudget
            /\ SumFunction([r \in Metered(s, m) |-> request[r].cost]) <= EpsilonBudget
            /\ usage[s][m].entries = Metered(s, m)

\* B2-03: a request is answered and refused by the meter only when another was metered
\* between the first read of its pre-check and its own record, or the month turned
\* there.
UnmeteredWasOvertaken ==
    \A r \in Requests : RequestAt(r, "unmetered") => request[r].overtaken

Allowed(by) ==
    {r \in Requests : request[r].step \notin {"idle", "rate limited"}
                      /\ request[r].allowedBy = by}

\* B2-11: of what one bucket allows, no stretch of time has more than the bucket and
\* its refill; what Redis allows stays within the rate in every period.
RateIsKept ==
    /\ \A p \in Replicas, from, to \in 0 .. MaxTime :
        crashes = 0 /\ from <= to =>
            Cardinality({r \in Allowed(p) : request[r].at \in from .. to}) * Period
                <= Rate * Period + (to - from) * Rate
    /\ \A w \in DOMAIN counter :
        Cardinality({r \in Allowed(Shared) : request[r].at \div Period = w}) <= Rate
=============================================================================
