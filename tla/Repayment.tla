------------------------------ MODULE Repayment ------------------------------
(***************************************************************************)
(* The repayment engine C3 (c3_repayment_engine/repayment_loop.py) as      *)
(* several instances run it: each holds active loans in memory, repays     *)
(* them when a settlement signal arrives (one thread) or when they mature  *)
(* (the monitoring thread), and first claims the loan's UETR in a shared   *)
(* Redis with SET NX EX, or in its own memory when Redis fails.            *)
(***************************************************************************)
EXTENDS Integers

CONSTANTS
    Instances,
    Loans,          \* one loan per UETR
    Blocked,        \* the loans of rejection class BLOCK
    Policy,         \* the partial settlement policy
    NoLoan,
    Maturity,       \* when a loan matures, in ticks
    Ttl,            \* how long a claim lives in Redis
    MaxTime,        \* bound on the clock
    MaxCrashes,     \* bound on crashes
    MaxRedisErrors  \* bound on failing Redis commands

ASSUME RepaymentAssumption ==
    /\ Blocked \subseteq Loans
    /\ NoLoan \notin Loans
    /\ Policy \in {"NONE", "REQUIRE_FULL", "ACCEPT_PARTIAL"}
    /\ {Maturity, Ttl, MaxTime, MaxCrashes, MaxRedisErrors} \subseteq Nat
    /\ Maturity < Ttl

VARIABLES
    claims,         \* Redis: when the claim on a loan lapses, 0 if there is none
    activeLoans,    \* RepaymentLoop._active_loans of each instance
    monitored,      \* SettlementMonitor._active_loans of each instance
    repaidUetrs,    \* RepaymentLoop._repaid_uetrs of each instance
    due,            \* matured loans the monitoring thread has still to look at
    pc, loan, amount,   \* where a thread stands, its loan, what was settled
    registered,     \* the loans each instance was ever given
    sent,           \* how often the repayment callback was called for a loan
    closedOn,       \* the amounts on which loans were repaid
    clock, crashes, redisErrors

registries == <<activeLoans, monitored, repaidUetrs>>
threads == <<due, pc, loan, amount>>
history == <<registered, sent, closedOn>>
world == <<clock, crashes, redisErrors>>
vars == <<claims, registries, threads, history, world>>

Amounts == {"noise", "partial", "full"}
Workers == Instances \X {"signal", "maturity"}
Monitoring(i) == <<i, "maturity">>
Signalled(i) == <<i, "signal">>

TypeOK ==
    /\ claims \in [Loans -> Nat]
    /\ activeLoans \in [Instances -> SUBSET Loans]
    /\ monitored \in [Instances -> SUBSET Loans]
    /\ repaidUetrs \in [Instances -> SUBSET Loans]
    /\ due \in [Instances -> SUBSET Loans]
    /\ pc \in [Workers -> {"idle", "claim", "callback", "forget", "unwatch"}]
    /\ loan \in [Workers -> Loans \cup {NoLoan}]
    /\ amount \in [Workers -> Amounts]
    /\ registered \in [Instances -> SUBSET Loans]
    /\ sent \in [Loans -> Nat]
    /\ closedOn \in [Loans -> SUBSET Amounts]
    /\ clock \in Nat /\ crashes \in Nat /\ redisErrors \in Nat

Init ==
    /\ claims = [l \in Loans |-> 0]
    /\ activeLoans = [i \in Instances |-> {}]
    /\ monitored = [i \in Instances |-> {}]
    /\ repaidUetrs = [i \in Instances |-> {}]
    /\ due = [i \in Instances |-> {}]
    /\ pc = [w \in Workers |-> "idle"]
    /\ loan = [w \in Workers |-> NoLoan]
    /\ amount = [w \in Workers |-> "full"]
    /\ registered = [i \in Instances |-> {}]
    /\ sent = [l \in Loans |-> 0]
    /\ closedOn = [l \in Loans |-> {}]
    /\ clock = 0 /\ crashes = 0 /\ redisErrors = 0

-----------------------------------------------------------------------------

Goto(w, step) == pc' = [pc EXCEPT ![w] = step]

\* trigger_repayment returns.
Finish(w) ==
    /\ Goto(w, "idle")
    /\ loan' = [loan EXCEPT ![w] = NoLoan]
    /\ amount' = [amount EXCEPT ![w] = "full"]

\* trigger_repayment is called.
Trigger(w, l, settled) ==
    /\ pc[w] = "idle"
    /\ Goto(w, "claim")
    /\ loan' = [loan EXCEPT ![w] = l]
    /\ amount' = [amount EXCEPT ![w] = settled]

(* register_loan fills both registries.  Nothing can act on the loan between
   the two: signals are matched against the second, and it is not yet due. *)
RegisterLoan(i, l) ==
    /\ l \notin registered[i]
    /\ clock < Maturity
    /\ registered' = [registered EXCEPT ![i] = @ \cup {l}]
    /\ activeLoans' = [activeLoans EXCEPT ![i] = @ \cup {l}]
    /\ monitored' = [monitored EXCEPT ![i] = @ \cup {l}]
    /\ UNCHANGED <<claims, repaidUetrs, threads, sent, closedOn, world>>

\* Variant: the policy is not asked.
AcceptsAll(settled) == TRUE

\* A partial settlement that REQUIRE_FULL leaves pending changes nothing.
Accepts(settled) == settled = "full" \/ Policy # "REQUIRE_FULL"

\* A settlement signal, new or repeated, matches a loan of the monitor.
ProcessSignal(i, l, settled) ==
    /\ l \in monitored[i]
    /\ Accepts(settled)
    /\ Trigger(Signalled(i), l, settled)
    /\ UNCHANGED <<claims, registries, due, history, world>>

\* Variant: equality, which a late check misses.
MaturedNow(i) == {l \in activeLoans[i] : clock = Maturity /\ l \notin Blocked}
Matured(i) == {l \in activeLoans[i] : clock >= Maturity /\ l \notin Blocked}

\* check_maturities takes its snapshot ...
CheckMaturities(i) ==
    /\ pc[Monitoring(i)] = "idle"
    /\ due[i] = {}
    /\ due' = [due EXCEPT ![i] = Matured(i)]
    /\ UNCHANGED <<claims, registries, pc, loan, amount, history, world>>

\* ... and triggers the repayment of each loan in it.
RepayMatured(i, l) ==
    /\ l \in due[i]
    /\ due' = [due EXCEPT ![i] = @ \ {l}]
    /\ Trigger(Monitoring(i), l, "full")
    /\ UNCHANGED <<claims, registries, history, world>>

-----------------------------------------------------------------------------
(* _claim_repayment. *)

\* Variant: SET without NX.
NeverClaimed(l) == FALSE

\* A claim that has lapsed is gone from Redis.
Claimed(l) == claims[l] > clock

SetClaim(l) == claims' = [claims EXCEPT ![l] = clock + Ttl]

ClaimInRedis(w) ==
    /\ pc[w] = "claim"
    /\ ~ Claimed(loan[w])
    /\ SetClaim(loan[w])
    /\ Goto(w, "callback")
    /\ UNCHANGED <<registries, due, loan, amount, history, world>>

\* Variant: the loan is taken off the registry although another instance has it.
ForgetClaimed(w) ==
    /\ pc[w] = "claim"
    /\ Claimed(loan[w])
    /\ Goto(w, "forget")
    /\ UNCHANGED <<claims, registries, due, loan, amount, history, world>>

\* Another worker has the claim: trigger_repayment returns {}.
ClaimDenied(w) ==
    /\ pc[w] = "claim"
    /\ Claimed(loan[w])
    /\ Finish(w)
    /\ UNCHANGED <<claims, registries, due, history, world>>

\* The command fails, before or after Redis has run it, and the instance's own
\* memory decides.
ClaimInMemory(w) ==
    /\ redisErrors < MaxRedisErrors
    /\ pc[w] = "claim"
    /\ redisErrors' = redisErrors + 1
    /\ \/ UNCHANGED claims
       \/ ~ Claimed(loan[w]) /\ SetClaim(loan[w])
    /\ \/ /\ loan[w] \in repaidUetrs[w[1]]
          /\ Finish(w)
          /\ UNCHANGED repaidUetrs
       \/ /\ loan[w] \notin repaidUetrs[w[1]]
          /\ repaidUetrs' = [repaidUetrs EXCEPT ![w[1]] = @ \cup {loan[w]}]
          /\ Goto(w, "callback")
          /\ UNCHANGED <<loan, amount>>
    /\ UNCHANGED <<activeLoans, monitored, due, history, clock, crashes>>

-----------------------------------------------------------------------------
(* After the claim. *)

\* The callback is called; an exception it raises is swallowed.
Repay(w) ==
    /\ pc[w] = "callback"
    /\ sent' = [sent EXCEPT ![loan[w]] = @ + 1]
    /\ closedOn' = [closedOn EXCEPT ![loan[w]] = @ \cup {amount[w]}]
    /\ Goto(w, "forget")
    /\ UNCHANGED <<claims, registries, due, loan, amount, registered, world>>

\* _deregister_loan takes the loan off the first registry, and if it was there
\* off the second.
Forget(w) ==
    /\ pc[w] = "forget"
    /\ activeLoans' = [activeLoans EXCEPT ![w[1]] = @ \ {loan[w]}]
    /\ \/ /\ loan[w] \in activeLoans[w[1]]
          /\ Goto(w, "unwatch")
          /\ UNCHANGED <<loan, amount>>
       \/ /\ loan[w] \notin activeLoans[w[1]]
          /\ Finish(w)
    /\ UNCHANGED <<claims, monitored, repaidUetrs, due, history, world>>

Unwatch(w) ==
    /\ pc[w] = "unwatch"
    /\ monitored' = [monitored EXCEPT ![w[1]] = @ \ {loan[w]}]
    /\ Finish(w)
    /\ UNCHANGED <<claims, activeLoans, repaidUetrs, due, history, world>>

\* An instance dies and comes back with empty registries.
Crash(i) ==
    /\ crashes < MaxCrashes
    /\ crashes' = crashes + 1
    /\ activeLoans' = [activeLoans EXCEPT ![i] = {}]
    /\ monitored' = [monitored EXCEPT ![i] = {}]
    /\ repaidUetrs' = [repaidUetrs EXCEPT ![i] = {}]
    /\ due' = [due EXCEPT ![i] = {}]
    /\ pc' = [w \in Workers |-> IF w[1] = i THEN "idle" ELSE pc[w]]
    /\ loan' = [w \in Workers |-> IF w[1] = i THEN NoLoan ELSE loan[w]]
    /\ amount' = [w \in Workers |-> IF w[1] = i THEN "full" ELSE amount[w]]
    /\ UNCHANGED <<claims, history, clock, redisErrors>>

Tick ==
    /\ clock < MaxTime
    /\ clock' = clock + 1
    /\ UNCHANGED <<claims, registries, threads, history, crashes, redisErrors>>

\* The steps of a trigger_repayment that has begun.
Proceed(w) ==
    \/ ClaimInRedis(w) \/ ClaimDenied(w)
    \/ Repay(w) \/ Forget(w) \/ Unwatch(w)

Monitor(i) == CheckMaturities(i) \/ \E l \in Loans : RepayMatured(i, l)

Next ==
    \/ \E i \in Instances :
        \/ \E l \in Loans :
            \/ RegisterLoan(i, l)
            \/ \E settled \in Amounts : ProcessSignal(i, l, settled)
        \/ Monitor(i)
        \/ Crash(i)
    \/ \E w \in Workers : Proceed(w) \/ ClaimInMemory(w)
    \/ Tick

Spec == Init /\ [][Next]_vars

\* The monitoring thread of run_monitoring_loop runs every interval_seconds, and
\* a call in progress goes on.  No signal has to arrive.
Fairness ==
    /\ WF_vars(Tick)
    /\ \A i \in Instances : WF_vars(Monitor(i))
    /\ \A w \in Workers : WF_vars(Proceed(w))

FairSpec == Spec /\ Fairness

-----------------------------------------------------------------------------
(* Properties. *)

\* Signals and maturity checks of all instances, repeated and racing, repay a
\* loan once, as long as Redis answers and no claim can have lapsed.
RepaidOnceWithinTtl ==
    redisErrors = 0 /\ clock < Ttl => \A l \in Loans : sent[l] <= 1

\* A loan that was never repaid stays on the books of every live instance that
\* was given it.  Between calls, an instance matches signals against exactly the
\* loans it checks for maturity.
BooksAreKept ==
    \A i \in Instances :
        /\ crashes = 0 => \A l \in registered[i] :
              sent[l] = 0 => l \in activeLoans[i] \cap monitored[i]
        /\ (\A w \in Workers : w[1] = i => pc[w] # "unwatch")
              => monitored[i] = activeLoans[i]

\* partial_settlement.py:10: under REQUIRE_FULL a partial amount neither closes
\* the loan nor consumes the claim, on whatever path it arrives.
RequireFullHolds ==
    Policy = "REQUIRE_FULL" =>
        \A l \in Loans :
            /\ closedOn[l] \subseteq {"full"}
            /\ claims[l] # 0 => \/ sent[l] > 0
                                \/ crashes > 0
                                \/ \E w \in Workers : /\ loan[w] = l
                                                      /\ pc[w] = "callback"
                                                      /\ amount[w] = "full"

\* A loan that matures on an instance that stays up is repaid in the end.
MaturedIsRepaid ==
    \A i \in Instances, l \in Loans \ Blocked :
        l \in activeLoans[i] /\ crashes = 0 ~> sent[l] > 0 \/ crashes > 0

(* What the documentation says and the code does not keep. *)

\* repayment_loop.py:6: "Redis SETNX ensures exactly one RepaymentInstruction
\* per UETR across distributed Flink instances."
RepaidAtMostOnce == \A l \in Loans : sent[l] <= 1

\* The same sentence: a claimed loan is repaid.
ClaimedIsRepaid == \A l \in Loans : claims[l] # 0 ~> sent[l] > 0

\* partial_settlement.py:52: below minimum_partial_pct "the settlement is treated
\* as a near-zero noise event and PARTIAL_PENDING is returned regardless of
\* policy".
NoiseIsIgnored == \A l \in Loans : "noise" \notin closedOn[l]
=============================================================================
