---------------------------- MODULE OfferDelivery ----------------------------
(***************************************************************************)
(* The loan offer service of C7 (c7_execution_agent/offer_delivery.py) in  *)
(* its Redis-backed deployment: several pods run OfferDeliveryService over *)
(* one Redis.  A pod serialises its own calls with self._lock, so at most  *)
(* one call per pod is between two Redis commands; the calls of different  *)
(* pods interleave at every command.  Callbacks run after the lock is      *)
(* released.  Redis survives a pod crash, everything else does not.        *)
(*                                                                         *)
(* One step is one Redis command or one reading of the clock.              *)
(***************************************************************************)
EXTENDS Integers

CONSTANTS
    Pods,       \* processes that run the service
    Offers,     \* offer ids; each is a fresh uuid, delivered once
    NoOffer,    \* argument of an idle pod
    Ttl,        \* lifetime of an offer, in clock ticks
    MaxTime,    \* bound on the clock
    MaxFaults   \* bound on pod crashes, Redis errors and raising callbacks

ASSUME OfferDeliveryAssumption ==
    /\ NoOffer \notin Offers
    /\ Ttl \in Nat \ {0}
    /\ MaxTime \in Nat
    /\ MaxFaults \in Nat

VARIABLES
    \* Redis
    state,      \* <offer>:state, or "NONE" when the key is absent
    delivery,   \* <offer>:delivery: the offer_expiry it carries, 0 if absent
    offerDoc,   \* the offers whose <offer>:offer document is stored
    record,     \* <offer>:acceptance, :rejection, :expiry: their time stamps
    pending,    \* the set lip:c7:offer_delivery:pending
    \* the pods
    pc,         \* where the call that holds the pod's lock stands
    op,         \* "accept" or "reject" while such a call resolves an offer
    arg,        \* the offer that call is about
    stamp,      \* the instant that call last read from the clock
    todo,       \* stale offers the sweep has still to expire
    fresh,      \* offers the sweep has expired
    callbacks,  \* callbacks to run now that the lock is released
    \* the world
    clock,
    announced,  \* offers the treasury can name
    funded,     \* how often on_accept_resolved registered the offer's loan
    replies,    \* the successful replies of accept and reject
    faults

redis == <<state, delivery, offerDoc, record, pending>>
local == <<pc, op, arg, stamp, todo, fresh>>
vars == <<redis, local, callbacks, clock, announced, funded, replies, faults>>

Terminal == {"ACCEPTED", "REJECTED", "EXPIRED"}
Kinds == {"acceptance", "rejection", "expiry"}
RecordOf(outcome) ==
    CASE outcome = "ACCEPTED" -> "acceptance"
      [] outcome = "REJECTED" -> "rejection"
      [] outcome = "EXPIRED" -> "expiry"
OutcomeOf(call) == IF call = "accept" THEN "ACCEPTED" ELSE "REJECTED"
Absent == -1

Steps == {"idle", "setState", "setDelivery", "setOffer", "sadd",
          "check", "stamp", "commit", "expire", "scan", "sweep"}

TypeOK ==
    /\ state \in [Offers -> {"NONE", "PENDING"} \cup Terminal]
    /\ delivery \in [Offers -> Nat]
    /\ offerDoc \subseteq Offers
    /\ record \in [Offers -> [Kinds -> Nat \cup {Absent}]]
    /\ pending \subseteq Offers
    /\ pc \in [Pods -> Steps]
    /\ op \in [Pods -> {"none", "accept", "reject"}]
    /\ arg \in [Pods -> Offers \cup {NoOffer}]
    /\ stamp \in [Pods -> Nat]
    /\ todo \in [Pods -> SUBSET Offers]
    /\ fresh \in [Pods -> SUBSET Offers]
    /\ callbacks \in [Pods -> SUBSET ({"accept", "reject", "expire"} \X Offers)]
    /\ clock \in Nat
    /\ announced \subseteq Offers
    /\ funded \in [Offers -> Nat]
    /\ replies \in [Offers -> [{"accept", "reject"} -> Nat]]
    /\ faults \in Nat

Init ==
    /\ state = [o \in Offers |-> "NONE"]
    /\ delivery = [o \in Offers |-> 0]
    /\ offerDoc = {}
    /\ record = [o \in Offers |-> [k \in Kinds |-> Absent]]
    /\ pending = {}
    /\ pc = [p \in Pods |-> "idle"]
    /\ op = [p \in Pods |-> "none"]
    /\ arg = [p \in Pods |-> NoOffer]
    /\ stamp = [p \in Pods |-> 0]
    /\ todo = [p \in Pods |-> {}]
    /\ fresh = [p \in Pods |-> {}]
    /\ callbacks = [p \in Pods |-> {}]
    /\ clock = 0
    /\ announced = {}
    /\ funded = [o \in Offers |-> 0]
    /\ replies = [o \in Offers |-> [c \in {"accept", "reject"} |-> 0]]
    /\ faults = 0

-----------------------------------------------------------------------------
(* Steps of a pod that holds its lock. *)

Goto(p, step) == pc' = [pc EXCEPT ![p] = step]

\* The call leaves the locked section.
Release(p) ==
    /\ pc' = [pc EXCEPT ![p] = "idle"]
    /\ op' = [op EXCEPT ![p] = "none"]
    /\ arg' = [arg EXCEPT ![p] = NoOffer]
    /\ stamp' = [stamp EXCEPT ![p] = 0]
    /\ todo' = [todo EXCEPT ![p] = {}]
    /\ fresh' = [fresh EXCEPT ![p] = {}]

Callback(p, set) == callbacks' = [callbacks EXCEPT ![p] = @ \cup set]

(* deliver: four Redis commands, in this order.  The second conjunct is a bound:
   it leaves the clock room to reach the expiry. *)
BeginDeliver(p, o) ==
    /\ pc[p] = "idle"
    /\ clock + Ttl <= MaxTime
    /\ \A q \in Pods : arg[q] # o
    /\ state[o] = "NONE"
    /\ Goto(p, "setState")
    /\ arg' = [arg EXCEPT ![p] = o]
    /\ stamp' = [stamp EXCEPT ![p] = clock + Ttl]
    /\ UNCHANGED <<redis, op, todo, fresh, callbacks, clock, announced,
                   funded, replies, faults>>

StoreState(p) ==
    /\ pc[p] = "setState"
    /\ state' = [state EXCEPT ![arg[p]] = "PENDING"]
    /\ Goto(p, "setDelivery")
    /\ UNCHANGED <<delivery, offerDoc, record, pending, op, arg, stamp, todo,
                   fresh, callbacks, clock, announced, funded, replies, faults>>

StoreDelivery(p) ==
    /\ pc[p] = "setDelivery"
    /\ delivery' = [delivery EXCEPT ![arg[p]] = stamp[p]]
    /\ Goto(p, "setOffer")
    /\ UNCHANGED <<state, offerDoc, record, pending, op, arg, stamp, todo,
                   fresh, callbacks, clock, announced, funded, replies, faults>>

StoreOffer(p) ==
    /\ pc[p] = "setOffer"
    /\ offerDoc' = offerDoc \cup {arg[p]}
    /\ Goto(p, "sadd")
    /\ UNCHANGED <<state, delivery, record, pending, op, arg, stamp, todo,
                   fresh, callbacks, clock, announced, funded, replies, faults>>

\* Variant: no SADD.
ReturnWithoutSadd(p) ==
    /\ pc[p] = "sadd"
    /\ announced' = announced \cup {arg[p]}
    /\ Release(p)
    /\ UNCHANGED <<redis, callbacks, clock, funded, replies, faults>>

\* From here on get_pending_deliveries lists the offer, and deliver returns.
AddPending(p) ==
    /\ pc[p] = "sadd"
    /\ pending' = pending \cup {arg[p]}
    /\ announced' = announced \cup {arg[p]}
    /\ Release(p)
    /\ UNCHANGED <<state, delivery, offerDoc, record, callbacks, clock,
                   funded, replies, faults>>

(* The Lua script that every resolution ends in. *)
\* Variant: the blind writes of _redis_store_acceptance and its siblings.
BlindWrite(o) == TRUE
StillPending(o) == state[o] = "PENDING"

\* Variant: no SREM.
ResolutionWithoutSrem(o, outcome, instant) ==
    /\ state' = [state EXCEPT ![o] = outcome]
    /\ record' = [record EXCEPT ![o][RecordOf(outcome)] = instant]
    /\ UNCHANGED <<delivery, offerDoc, pending>>

Resolution(o, outcome, instant) ==
    /\ state' = [state EXCEPT ![o] = outcome]
    /\ record' = [record EXCEPT ![o][RecordOf(outcome)] = instant]
    /\ pending' = pending \ {o}
    /\ UNCHANGED <<delivery, offerDoc>>

(* accept and reject.  A call on an offer that is not PENDING raises and
   changes nothing. *)
BeginResolve(p, o, call) ==
    /\ pc[p] = "idle"
    /\ o \in announced
    /\ state[o] = "PENDING"
    /\ Goto(p, "check")
    /\ op' = [op EXCEPT ![p] = call]
    /\ arg' = [arg EXCEPT ![p] = o]
    /\ UNCHANGED <<redis, stamp, todo, fresh, callbacks, clock, announced,
                   funded, replies, faults>>

\* Variant: one tick early.
ExpiredEarly(o, now) == delivery[o] <= now + 1
Expired(o, now) == delivery[o] <= now

\* The delivery is read and compared with the clock.  An announced offer has a
\* delivery record (AnnouncedComplete), so the call never raises for want of one.
CheckExpiry(p) ==
    /\ pc[p] = "check"
    /\ Goto(p, IF Expired(arg[p], clock) THEN "expire" ELSE "stamp")
    /\ stamp' = [stamp EXCEPT ![p] = clock]
    /\ UNCHANGED <<redis, op, arg, todo, fresh, callbacks, clock, announced,
                   funded, replies, faults>>

\* accepted_at and rejected_at come from a second reading of the clock.
StampRecord(p) ==
    /\ pc[p] = "stamp"
    /\ stamp' = [stamp EXCEPT ![p] = clock]
    /\ Goto(p, "commit")
    /\ UNCHANGED <<redis, op, arg, todo, fresh, callbacks, clock, announced,
                   funded, replies, faults>>

Commit(p) ==
    /\ pc[p] = "commit"
    /\ StillPending(arg[p])
    /\ Resolution(arg[p], OutcomeOf(op[p]), stamp[p])
    /\ Callback(p, {<<op[p], arg[p]>>})
    /\ Release(p)
    /\ UNCHANGED <<clock, announced, funded, replies, faults>>

\* Variant: the script's answer is not looked at.
CommitUnchecked(p) ==
    /\ pc[p] = "commit"
    /\ ~ StillPending(arg[p])
    /\ Callback(p, {<<op[p], arg[p]>>})
    /\ Release(p)
    /\ UNCHANGED <<redis, clock, announced, funded, replies, faults>>

\* The script found another outcome: the call raises.
CommitLost(p) ==
    /\ pc[p] \in {"commit", "expire"}
    /\ ~ StillPending(arg[p])
    /\ Release(p)
    /\ UNCHANGED <<redis, callbacks, clock, announced, funded, replies, faults>>

\* An answer that comes too late expires the offer, without any callback.
ExpireOnAccess(p) ==
    /\ pc[p] = "expire"
    /\ StillPending(arg[p])
    /\ Resolution(arg[p], "EXPIRED", stamp[p])
    /\ Release(p)
    /\ UNCHANGED <<callbacks, clock, announced, funded, replies, faults>>

(* expire_stale_offers. *)
Stale(now) == {o \in pending : delivery[o] # 0 /\ Expired(o, now)}

\* The clock is read first, before the lock is taken.
BeginSweep(p) ==
    /\ pc[p] = "idle"
    /\ Goto(p, "scan")
    /\ stamp' = [stamp EXCEPT ![p] = clock]
    /\ UNCHANGED <<redis, op, arg, todo, fresh, callbacks, clock, announced,
                   funded, replies, faults>>

\* The members of the pending set are read, then their delivery records, which
\* never change.
Scan(p) ==
    /\ pc[p] = "scan"
    /\ Goto(p, "sweep")
    /\ todo' = [todo EXCEPT ![p] = Stale(stamp[p])]
    /\ UNCHANGED <<redis, op, arg, stamp, fresh, callbacks, clock, announced,
                   funded, replies, faults>>

SweepOne(p, o) ==
    /\ pc[p] = "sweep"
    /\ o \in todo[p]
    /\ todo' = [todo EXCEPT ![p] = @ \ {o}]
    /\ \/ /\ StillPending(o)
          /\ Resolution(o, "EXPIRED", stamp[p])
          /\ fresh' = [fresh EXCEPT ![p] = @ \cup {o}]
       \/ /\ ~ StillPending(o)
          /\ UNCHANGED <<redis, fresh>>
    /\ UNCHANGED <<pc, op, arg, stamp, callbacks, clock, announced, funded,
                   replies, faults>>

EndSweep(p) ==
    /\ pc[p] = "sweep"
    /\ todo[p] = {}
    /\ Callback(p, {"expire"} \X fresh[p])
    /\ Release(p)
    /\ UNCHANGED <<redis, clock, announced, funded, replies, faults>>

-----------------------------------------------------------------------------
(* Steps outside the lock. *)

\* accept or reject runs its callback and returns to the treasury.
Return(p, call, o) ==
    /\ <<call, o>> \in callbacks[p]
    /\ callbacks' = [callbacks EXCEPT ![p] = @ \ {<<call, o>>}]
    /\ funded' = IF call = "accept" THEN [funded EXCEPT ![o] = @ + 1] ELSE funded
    /\ replies' = IF call = "expire" THEN replies
                  ELSE [replies EXCEPT ![o][call] = @ + 1]
    /\ UNCHANGED <<redis, local, clock, announced, faults>>

\* The callback raises: the exception is logged and the call returns normally.
CallbackRaises(p, call, o) ==
    /\ faults < MaxFaults
    /\ <<call, o>> \in callbacks[p]
    /\ callbacks' = [callbacks EXCEPT ![p] = @ \ {<<call, o>>}]
    /\ replies' = IF call = "expire" THEN replies
                  ELSE [replies EXCEPT ![o][call] = @ + 1]
    /\ faults' = faults + 1
    /\ UNCHANGED <<redis, local, clock, announced, funded>>

\* A pod dies and comes back: its call and its callbacks are lost.
Crash(p) ==
    /\ faults < MaxFaults
    /\ faults' = faults + 1
    /\ Release(p)
    /\ callbacks' = [callbacks EXCEPT ![p] = {}]
    /\ UNCHANGED <<redis, clock, announced, funded, replies>>

\* A Redis command fails and the call raises.  The script of accept and reject
\* may have run before its answer was lost; an error after any other command
\* is an error before the next one.
RedisError(p) ==
    /\ faults < MaxFaults
    /\ pc[p] # "idle"
    /\ faults' = faults + 1
    /\ Release(p)
    /\ \/ UNCHANGED redis
       \/ /\ pc[p] = "commit"
          /\ StillPending(arg[p])
          /\ Resolution(arg[p], OutcomeOf(op[p]), stamp[p])
    /\ UNCHANGED <<callbacks, clock, announced, funded, replies>>

Tick ==
    /\ clock < MaxTime
    /\ clock' = clock + 1
    /\ UNCHANGED <<redis, local, callbacks, announced, funded, replies, faults>>

\* The steps of a call that already holds the lock.
Proceed(p) ==
    \/ StoreState(p) \/ StoreDelivery(p) \/ StoreOffer(p) \/ AddPending(p)
    \/ CheckExpiry(p) \/ StampRecord(p)
    \/ Commit(p) \/ CommitLost(p) \/ ExpireOnAccess(p)
    \/ Scan(p)
    \/ \E o \in Offers : SweepOne(p, o)
    \/ EndSweep(p)

Returns(p) ==
    \E o \in Offers, call \in {"accept", "reject", "expire"} : Return(p, call, o)

Next ==
    \/ \E p \in Pods :
        \/ Proceed(p)
        \/ Returns(p)
        \/ BeginSweep(p)
        \/ Crash(p)
        \/ RedisError(p)
        \/ \E o \in Offers :
            \/ BeginDeliver(p, o)
            \/ BeginResolve(p, o, "accept")
            \/ BeginResolve(p, o, "reject")
            \/ \E call \in {"accept", "reject", "expire"} : CallbackRaises(p, call, o)
    \/ Tick

Spec == Init /\ [][Next]_vars

(* A call in progress and a callback are run by a live thread; the class
   docstring asks for a scheduler that sweeps periodically.  Nobody has to
   deliver or answer. *)
Fairness ==
    /\ WF_vars(Tick)
    /\ \A p \in Pods : WF_vars(Proceed(p)) /\ WF_vars(Returns(p))
    /\ \A p \in Pods : SF_vars(BeginSweep(p) /\ Stale(clock) # {})

FairSpec == Spec /\ Fairness

-----------------------------------------------------------------------------
(* Properties. *)

\* Every resolved offer has exactly the audit record of its outcome and no
\* other, although accept, reject, the sweep and a late answer race for it.
RecordMatchesState ==
    \A o \in Offers, k \in Kinds :
        record[o][k] # Absent <=> /\ state[o] \in Terminal
                                  /\ k = RecordOf(state[o])

\* The set the sweep and get_pending_deliveries work from names only offers
\* that still await an answer.
PendingSetSound == \A o \in pending : state[o] = "PENDING"

\* The order of deliver's commands: an offer that can be named has everything
\* a resolution reads.
AnnouncedComplete ==
    \A o \in announced : delivery[o] # 0 /\ o \in offerDoc /\ state[o] # "NONE"

\* What several keys say of an offer is one story, between the commands of a
\* delivery and through crashes.
StoreAgrees == RecordMatchesState /\ PendingSetSound /\ AnnouncedComplete

\* At most one treasury call on an offer succeeds, and it reports the outcome
\* that stands.
OneTruthfulReply ==
    \A o \in Offers :
        /\ replies[o]["accept"] + replies[o]["reject"] <= 1
        /\ \A call \in {"accept", "reject"} :
              replies[o][call] > 0 => state[o] = OutcomeOf(call)

\* on_accept_resolved funds an offer at most once, and an offer whose reply was
\* an acceptance cannot end up rejected or expired.
FundedOnceAndAccepted ==
    \A o \in Offers : funded[o] > 0 => funded[o] = 1 /\ state[o] = "ACCEPTED"

\* An offer expires only once its expiry has passed: neither the sweep's
\* snapshot nor a late answer takes time away from the treasury.
NoEarlyExpiry ==
    \A o \in Offers : state[o] = "EXPIRED" => delivery[o] <= record[o]["expiry"]

\* A resolution is final.
OutcomeIsFinal ==
    [][\A o \in Offers : state[o] \in Terminal => state'[o] = state[o]]_vars

\* An offer that was announced is resolved in the end, whatever the treasury
\* does and whichever pod dies.
AnnouncedIsResolved ==
    \A o \in Offers : o \in announced ~> state[o] \in Terminal

\* The service implements what it promises.
Lifecycle == INSTANCE OfferLifecycle WITH
    outcome <- state, funded <- {o \in Offers : funded[o] > 0}
ImplementsLifecycle == Lifecycle!Spec

(* What the documentation says and the code does not keep. *)

\* offer_delivery.py:8 "ACCEPTED - ELO confirmed; on_accept callback fires ->
\* C3 registers the ActiveLoan".
AcceptedIsFunded ==
    \A o \in Offers : state[o] = "ACCEPTED" ~> funded[o] > 0

\* offer_delivery.py:10 "EXPIRED - offer_expiry passed with no response": an
\* offer stored as PENDING does not stay so for ever.
PendingIsResolved ==
    \A o \in Offers : state[o] = "PENDING" ~> state[o] \in Terminal

\* accept: "OfferExpiredException: If the offer's offer_expiry has passed".
AcceptedInTime ==
    \A o \in Offers :
        state[o] = "ACCEPTED" => record[o]["acceptance"] < delivery[o]
=============================================================================
