------------------------ MODULE OfferDelivery_proofs ------------------------
(***************************************************************************)
(* The offer service keeps its promises for any number of pods and offers, *)
(* any lifetime and any number of faults.                                  *)
(***************************************************************************)
EXTENDS OfferDelivery, TLAPS

DeliverSteps == {"setState", "setDelivery", "setOffer", "sadd"}
ResolveSteps == {"check", "stamp", "commit", "expire"}

\* Every step but the first of a call is about an offer, and knows its call.
BusyHasOffer ==
    \A p \in Pods :
        /\ pc[p] \in DeliverSteps \cup ResolveSteps => arg[p] \in Offers
        /\ pc[p] \in ResolveSteps => op[p] \in {"accept", "reject"}

\* An offer is listed, or resolved, only after deliver has stored all of it.
ListedIsComplete ==
    /\ \A o \in pending : o \in announced /\ state[o] = "PENDING"
    /\ \A o \in Offers : state[o] \in Terminal => o \in announced

\* A pod that delivers an offer is the only one that knows it, and the offer
\* has what the steps before the current one have stored.
DeliverInv ==
    \A p \in Pods : pc[p] \in DeliverSteps =>
        /\ arg[p] \in Offers \ announced
        /\ \A q \in Pods \ {p} : arg[q] # arg[p]
        /\ stamp[p] # 0
        /\ state[arg[p]] = IF pc[p] = "setState" THEN "NONE" ELSE "PENDING"
        /\ pc[p] \in {"setOffer", "sadd"} => delivery[arg[p]] # 0
        /\ pc[p] = "sadd" => arg[p] \in offerDoc

\* A pod resolves announced offers only, and expires those that are due.
ResolveInv ==
    \A p \in Pods :
        /\ pc[p] \in ResolveSteps =>
              arg[p] \in announced /\ op[p] \in {"accept", "reject"}
        /\ pc[p] = "expire" => delivery[arg[p]] <= stamp[p]
        /\ pc[p] # "sweep" => todo[p] = {}
        /\ \A o \in todo[p] : o \in announced /\ delivery[o] <= stamp[p]

\* A callback still to run is the only thing that can answer its offer.
CallbackInv ==
    \A p \in Pods, o \in Offers, call \in {"accept", "reject"} :
        <<call, o>> \in callbacks[p] =>
            /\ state[o] = OutcomeOf(call)
            /\ replies[o][call] = 0
            /\ \A q \in Pods \ {p} : <<call, o>> \notin callbacks[q]

\* What has been answered and funded.
AnswerInv ==
    \A o \in Offers :
        /\ funded[o] <= replies[o]["accept"]
        /\ \A call \in {"accept", "reject"} :
              /\ replies[o][call] <= 1
              /\ replies[o][call] > 0 => state[o] = OutcomeOf(call)

TInv == TypeOK /\ BusyHasOffer

IInv ==
    /\ RecordMatchesState
    /\ AnnouncedComplete
    /\ NoEarlyExpiry
    /\ ListedIsComplete
    /\ DeliverInv
    /\ ResolveInv
    /\ CallbackInv
    /\ AnswerInv

-----------------------------------------------------------------------------
\* The script leaves well-typed keys behind, whatever it is asked to resolve.
LEMMA ResolutionType ==
    ASSUME TypeOK, NEW o, NEW outcome \in Terminal, NEW instant \in Nat,
           Resolution(o, outcome, instant)
    PROVE  /\ state' \in [Offers -> {"NONE", "PENDING"} \cup Terminal]
           /\ record' \in [Offers -> [Kinds -> Nat \cup {Absent}]]
           /\ pending' \subseteq Offers
           /\ UNCHANGED <<delivery, offerDoc>>
<1>1. RecordOf(outcome) \in Kinds
  BY DEF RecordOf, Kinds, Terminal
<1>2. record' \in [Offers -> [Kinds -> Nat \cup {Absent}]]
  BY <1>1 DEF Resolution, TypeOK, Absent
<1> QED
  BY <1>2 DEF Resolution, TypeOK

\* Every variable keeps its type: the offer a step works on is a known one.
THEOREM TypeCorrect == Spec => [](TypeOK /\ BusyHasOffer)
<1>1. Init => TInv
  BY OfferDeliveryAssumption DEF TInv, Init, TypeOK, Steps, Absent, Kinds,
     BusyHasOffer, DeliverSteps, ResolveSteps
<1>2. TInv /\ [Next]_vars => TInv'
  <2> SUFFICES ASSUME TInv, [Next]_vars PROVE TInv'
    OBVIOUS
  <2> USE OfferDeliveryAssumption
  <2>1. ASSUME NEW p \in Pods, StoreState(p)
        PROVE  TInv'
    BY <2>1 DEF StoreState, Goto, TypeOK, BusyHasOffer, TInv,
       DeliverSteps, ResolveSteps, Steps, redis, local
  <2>2. ASSUME NEW p \in Pods, StoreDelivery(p)
        PROVE  TInv'
    BY <2>2 DEF StoreDelivery, Goto, TypeOK, BusyHasOffer, TInv,
       DeliverSteps, ResolveSteps, Steps, redis, local
  <2>3. ASSUME NEW p \in Pods, StoreOffer(p)
        PROVE  TInv'
    BY <2>3 DEF StoreOffer, Goto, TypeOK, BusyHasOffer, TInv,
       DeliverSteps, ResolveSteps, Steps, redis, local
  <2>4. ASSUME NEW p \in Pods, AddPending(p)
        PROVE  TInv'
    BY <2>4 DEF AddPending, Release, TypeOK, BusyHasOffer, TInv,
       DeliverSteps, ResolveSteps, Steps, redis, local
  <2>5. ASSUME NEW p \in Pods, CheckExpiry(p)
        PROVE  TInv'
    BY <2>5 DEF CheckExpiry, Goto, TypeOK, BusyHasOffer, TInv,
       DeliverSteps, ResolveSteps, Steps, redis, local
  <2>6. ASSUME NEW p \in Pods, StampRecord(p)
        PROVE  TInv'
    BY <2>6 DEF StampRecord, Goto, TypeOK, BusyHasOffer, TInv,
       DeliverSteps, ResolveSteps, Steps, redis, local
  <2>7. ASSUME NEW p \in Pods, Commit(p)
        PROVE  TInv'
    <3>1. OutcomeOf(op[p]) \in Terminal
      BY DEF OutcomeOf, Terminal
    <3>2. stamp[p] \in Nat
      BY DEF TInv, TypeOK
    <3>3. Resolution(arg[p], OutcomeOf(op[p]), stamp[p]) =>
             /\ state' \in [Offers -> {"NONE", "PENDING"} \cup Terminal]
             /\ record' \in [Offers -> [Kinds -> Nat \cup {Absent}]]
             /\ pending' \subseteq Offers
             /\ UNCHANGED <<delivery, offerDoc>>
      BY <3>1, <3>2, ResolutionType DEF TInv
    <3> QED
      BY <2>7, <3>3 DEF Commit, Callback, Release, TypeOK, BusyHasOffer, TInv,
         DeliverSteps, ResolveSteps, Steps, redis, local
  <2>8. ASSUME NEW p \in Pods, CommitLost(p)
        PROVE  TInv'
    BY <2>8 DEF CommitLost, Release, TypeOK, BusyHasOffer, TInv,
       DeliverSteps, ResolveSteps, Steps, redis, local
  <2>9. ASSUME NEW p \in Pods, ExpireOnAccess(p)
        PROVE  TInv'
    <3>1. "EXPIRED" \in Terminal
      BY DEF OutcomeOf, Terminal
    <3>2. stamp[p] \in Nat
      BY DEF TInv, TypeOK
    <3>3. Resolution(arg[p], "EXPIRED", stamp[p]) =>
             /\ state' \in [Offers -> {"NONE", "PENDING"} \cup Terminal]
             /\ record' \in [Offers -> [Kinds -> Nat \cup {Absent}]]
             /\ pending' \subseteq Offers
             /\ UNCHANGED <<delivery, offerDoc>>
      BY <3>1, <3>2, ResolutionType DEF TInv
    <3> QED
      BY <2>9, <3>3 DEF ExpireOnAccess, Release, TypeOK, BusyHasOffer, TInv,
         DeliverSteps, ResolveSteps, Steps, redis, local
  <2>10. ASSUME NEW p \in Pods, Scan(p)
        PROVE  TInv'
    BY <2>10 DEF Scan, Goto, Stale, TypeOK, BusyHasOffer, TInv,
       DeliverSteps, ResolveSteps, Steps, redis, local
  <2>11. ASSUME NEW p \in Pods, NEW o \in Offers, SweepOne(p, o)
        PROVE  TInv'
    <3>1. "EXPIRED" \in Terminal
      BY DEF OutcomeOf, Terminal
    <3>2. stamp[p] \in Nat
      BY DEF TInv, TypeOK
    <3>3. Resolution(o, "EXPIRED", stamp[p]) =>
             /\ state' \in [Offers -> {"NONE", "PENDING"} \cup Terminal]
             /\ record' \in [Offers -> [Kinds -> Nat \cup {Absent}]]
             /\ pending' \subseteq Offers
             /\ UNCHANGED <<delivery, offerDoc>>
      BY <3>1, <3>2, ResolutionType DEF TInv
    <3>4. /\ state' \in [Offers -> {"NONE", "PENDING"} \cup Terminal]
          /\ record' \in [Offers -> [Kinds -> Nat \cup {Absent}]]
          /\ pending' \subseteq Offers
          /\ UNCHANGED <<delivery, offerDoc>>
      BY <2>11, <3>3 DEF SweepOne, TInv, TypeOK, redis
    <3>5. fresh' \in [Pods -> SUBSET Offers]
      BY <2>11 DEF SweepOne, TInv, TypeOK
    <3> QED
      BY <2>11, <3>4, <3>5 DEF SweepOne, TInv, TypeOK, BusyHasOffer, local
  <2>12. ASSUME NEW p \in Pods, EndSweep(p)
        PROVE  TInv'
    BY <2>12 DEF EndSweep, Callback, Release, TypeOK, BusyHasOffer, TInv,
       DeliverSteps, ResolveSteps, Steps, redis, local
  <2>13. ASSUME NEW p \in Pods, NEW o \in Offers, NEW call \in {"accept", "reject", "expire"},
               Return(p, call, o)
        PROVE  TInv'
    BY <2>13 DEF Return, TypeOK, BusyHasOffer, TInv,
       DeliverSteps, ResolveSteps, Steps, redis, local
  <2>14. ASSUME NEW p \in Pods, BeginSweep(p)
        PROVE  TInv'
    BY <2>14 DEF BeginSweep, Goto, TypeOK, BusyHasOffer, TInv,
       DeliverSteps, ResolveSteps, Steps, redis, local
  <2>15. ASSUME NEW p \in Pods, Crash(p)
        PROVE  TInv'
    BY <2>15 DEF Crash, Release, TypeOK, BusyHasOffer, TInv,
       DeliverSteps, ResolveSteps, Steps, redis, local
  <2>16. ASSUME NEW p \in Pods, RedisError(p)
        PROVE  TInv'
    <3>1. OutcomeOf(op[p]) \in Terminal
      BY DEF OutcomeOf, Terminal
    <3>2. stamp[p] \in Nat
      BY DEF TInv, TypeOK
    <3>3. Resolution(arg[p], OutcomeOf(op[p]), stamp[p]) =>
             /\ state' \in [Offers -> {"NONE", "PENDING"} \cup Terminal]
             /\ record' \in [Offers -> [Kinds -> Nat \cup {Absent}]]
             /\ pending' \subseteq Offers
             /\ UNCHANGED <<delivery, offerDoc>>
      BY <3>1, <3>2, ResolutionType DEF TInv
    <3> QED
      BY <2>16, <3>3 DEF RedisError, Release, TypeOK, BusyHasOffer, TInv,
         DeliverSteps, ResolveSteps, Steps, redis, local
  <2>17. ASSUME NEW p \in Pods, NEW o \in Offers, BeginDeliver(p, o)
        PROVE  TInv'
    BY <2>17 DEF BeginDeliver, Goto, TypeOK, BusyHasOffer, TInv,
       DeliverSteps, ResolveSteps, Steps, redis, local
  <2>18. ASSUME NEW p \in Pods, NEW o \in Offers, NEW call \in {"accept", "reject"},
               BeginResolve(p, o, call)
        PROVE  TInv'
    BY <2>18 DEF BeginResolve, Goto, TypeOK, BusyHasOffer, TInv,
       DeliverSteps, ResolveSteps, Steps, redis, local
  <2>19. ASSUME NEW p \in Pods, NEW o \in Offers, NEW call \in {"accept", "reject", "expire"},
               CallbackRaises(p, call, o)
        PROVE  TInv'
    BY <2>19 DEF CallbackRaises, TypeOK, BusyHasOffer, TInv,
       DeliverSteps, ResolveSteps, Steps, redis, local
  <2>20. ASSUME Tick PROVE TInv'
    BY <2>20 DEF Tick, TInv, TypeOK, BusyHasOffer, TInv, redis, local
  <2>21. ASSUME UNCHANGED vars PROVE TInv'
    BY <2>21 DEF vars, TypeOK, BusyHasOffer, TInv, redis, local
  <2> QED
    BY <2>1, <2>2, <2>3, <2>4, <2>5, <2>6, <2>7, <2>8, <2>9, <2>10, <2>11,
       <2>12, <2>13, <2>14, <2>15, <2>16, <2>17, <2>18, <2>19, <2>20, <2>21
    DEF Next, Proceed, Returns
<1> QED
  BY <1>1, <1>2, PTL DEF Spec, TInv
\* What a waiting callback rests on.
LEMMA CallbackWaits ==
    ASSUME CallbackInv,
           NEW p \in Pods, NEW o \in Offers, NEW call \in {"accept", "reject"},
           <<call, o>> \in callbacks[p]
    PROVE  /\ state[o] = OutcomeOf(call)
           /\ replies[o][call] = 0
           /\ \A q \in Pods \ {p} : <<call, o>> \notin callbacks[q]
BY Zenon DEF CallbackInv

\* Callbacks are only removed, and what they rest on does not change.
LEMMA CallbackKept ==
    ASSUME CallbackInv,
           \A q \in Pods, o \in Offers, call \in {"accept", "reject"} :
               <<call, o>> \in callbacks'[q] =>
                   /\ <<call, o>> \in callbacks[q]
                   /\ state'[o] = state[o]
                   /\ replies'[o][call] = replies[o][call]
    PROVE  CallbackInv'
<1> SUFFICES ASSUME NEW p \in Pods, NEW o \in Offers, NEW call \in {"accept", "reject"},
                    <<call, o>> \in callbacks'[p]
             PROVE  /\ state'[o] = OutcomeOf(call)
                    /\ replies'[o][call] = 0
                    /\ \A q \in Pods \ {p} : <<call, o>> \notin callbacks'[q]
  BY DEF CallbackInv, OutcomeOf
<1>1. /\ <<call, o>> \in callbacks[p]
      /\ state'[o] = state[o]
      /\ replies'[o][call] = replies[o][call]
  OBVIOUS
<1>2. state[o] = OutcomeOf(call)
  BY <1>1, CallbackWaits DEF OutcomeOf
<1>3. replies[o][call] = 0
  BY <1>1, CallbackWaits DEF OutcomeOf
<1>4. \A q \in Pods \ {p} : <<call, o>> \notin callbacks[q]
  BY <1>1, CallbackWaits DEF OutcomeOf
<1>5. \A q \in Pods \ {p} : <<call, o>> \notin callbacks'[q]
  BY <1>4
<1> QED
  BY <1>1, <1>2, <1>3, <1>5

\* Nothing answered and nothing funded.
LEMMA AnswerKept ==
    ASSUME AnswerInv, UNCHANGED <<state, replies, funded>>
    PROVE  AnswerInv'
BY DEF AnswerInv, OutcomeOf

\* A callback that runs, or raises, answers its offer for the first time.
LEMMA CallbackAnswers ==
    ASSUME TypeOK, CallbackInv, AnswerInv,
           NEW p \in Pods, NEW o \in Offers,
           NEW call \in {"accept", "reject", "expire"},
           <<call, o>> \in callbacks[p],
           callbacks' = [callbacks EXCEPT ![p] = @ \ {<<call, o>>}],
           replies' = IF call = "expire" THEN replies
                      ELSE [replies EXCEPT ![o][call] = @ + 1],
           UNCHANGED state,
           \/ UNCHANGED funded
           \/ call = "accept" /\ funded' = [funded EXCEPT ![o] = @ + 1]
    PROVE  CallbackInv' /\ AnswerInv'
<1>1. ASSUME NEW q \in Pods, NEW x \in Offers, NEW c \in {"accept", "reject"},
             <<c, x>> \in callbacks'[q]
      PROVE  /\ <<c, x>> \in callbacks[q]
             /\ <<c, x>> # <<call, o>>
  <2>1. CASE q = p
    BY <1>1, <2>1 DEF TypeOK
  <2>2. CASE q # p
    <3>1. <<c, x>> \in callbacks[q]
      BY <1>1, <2>2 DEF TypeOK
    <3> QED
      BY <2>2, <3>1 DEF CallbackInv
  <2> QED
    BY <2>1, <2>2
<1>2. ASSUME NEW x \in Offers, NEW c \in {"accept", "reject"},
             <<c, x>> # <<call, o>>
      PROVE  replies'[x][c] = replies[x][c]
  BY <1>2 DEF TypeOK
<1>3. CallbackInv'
  BY <1>1, <1>2, CallbackKept
<1>4. CASE call = "expire"
  <2>1. UNCHANGED <<replies, funded>>
    BY <1>4
  <2>2. AnswerInv'
    BY <2>1, AnswerKept
  <2> QED
    BY <1>3, <2>2
<1>5. CASE call # "expire"
  <2>1. replies[o][call] = 0 /\ state[o] = OutcomeOf(call)
    BY <1>5 DEF CallbackInv
  <2>2. replies'[o][call] = 1
    BY <1>5, <2>1 DEF TypeOK
  <2>3. \A x \in Offers : x # o \/ call = "reject" => funded'[x] = funded[x]
    BY DEF TypeOK
  <2>4. call = "accept" => funded[o] = 0 /\ funded'[o] <= 1
    BY <2>1 DEF AnswerInv, TypeOK
  <2>5. ASSUME NEW x \in Offers
        PROVE  funded'[x] <= replies'[x]["accept"]
    <3>1. CASE x = o /\ call = "accept"
      BY <2>2, <2>4, <3>1
    <3>2. CASE ~ (x = o /\ call = "accept")
      <4>1. funded'[x] = funded[x]
        BY <1>5, <2>3, <3>2
      <4>2. replies'[x]["accept"] = replies[x]["accept"]
        BY <1>2, <3>2
      <4> QED
        BY <4>1, <4>2 DEF AnswerInv
    <3> QED
      BY <3>1, <3>2
  <2>6. ASSUME NEW x \in Offers, NEW c \in {"accept", "reject"}
        PROVE  /\ replies'[x][c] <= 1
               /\ replies'[x][c] > 0 => state'[x] = OutcomeOf(c)
    <3>1. CASE x = o /\ c = call
      BY <2>1, <2>2, <3>1
    <3>2. CASE ~ (x = o /\ c = call)
      BY <1>2, <3>2 DEF AnswerInv
    <3> QED
      BY <3>1, <3>2
  <2>7. AnswerInv'
    BY <2>5, <2>6 DEF AnswerInv, OutcomeOf
  <2> QED
    BY <1>3, <2>7
<1> QED
  BY <1>4, <1>5

\* The inductive invariant holds: with TypeOK it implies every safety property.
THEOREM InvariantHolds == Spec => []IInv
<1>1. Init => IInv
  BY OfferDeliveryAssumption DEF Init, IInv, RecordMatchesState, AnnouncedComplete,
     NoEarlyExpiry, ListedIsComplete, DeliverInv, ResolveInv, CallbackInv, AnswerInv,
     DeliverSteps, ResolveSteps, Terminal, Kinds, Absent
<1>2. IInv /\ TInv /\ TInv' /\ [Next]_vars => IInv'
  <2> SUFFICES ASSUME IInv, TInv, TInv', [Next]_vars PROVE IInv'
    OBVIOUS
  <2> USE OfferDeliveryAssumption
  <2>1. ASSUME NEW p \in Pods, StoreState(p)
        PROVE  IInv'
    <3>1. RecordMatchesState'
      BY <2>1 DEF StoreState, Goto, RecordMatchesState, DeliverInv, DeliverSteps,
         Terminal, Absent, Kinds, IInv, TInv, TypeOK, redis, local
    <3>2. AnnouncedComplete'
      BY <2>1 DEF StoreState, Goto, AnnouncedComplete, Terminal, IInv, TInv, TypeOK,
         redis, local
    <3>3. NoEarlyExpiry'
      BY <2>1 DEF StoreState, Goto, NoEarlyExpiry, Terminal, IInv, TInv, TypeOK,
         redis, local
    <3>4. ListedIsComplete'
      BY <2>1 DEF StoreState, Goto, ListedIsComplete, DeliverInv, DeliverSteps,
         Terminal, IInv, TInv, TypeOK, redis, local
    <3>5. DeliverInv'
      BY <2>1 DEF StoreState, Goto, DeliverInv, DeliverSteps, Terminal, IInv, TInv,
         TypeOK, redis, local
    <3>6. ResolveInv'
      BY <2>1 DEF StoreState, Goto, ResolveInv, ResolveSteps, Terminal, IInv, TInv,
         TypeOK, redis, local
    <3>7. CallbackInv'
      <4>1. \A o \in Offers : state[o] # "NONE" => state'[o] = state[o]
        BY <2>1 DEF StoreState, IInv, DeliverInv, DeliverSteps, TInv, TypeOK
      <4>2. UNCHANGED <<callbacks, replies>>
        BY <2>1 DEF StoreState
      <4> QED
        BY <4>1, <4>2, CallbackKept DEF IInv, CallbackInv, OutcomeOf
    <3>8. AnswerInv'
      BY <2>1 DEF StoreState, Goto, AnswerInv, DeliverInv, DeliverSteps, Terminal,
         OutcomeOf, IInv, TInv, TypeOK, redis, local
    <3> QED
      BY <3>1, <3>2, <3>3, <3>4, <3>5, <3>6, <3>7, <3>8 DEF IInv
  <2>2. ASSUME NEW p \in Pods, StoreDelivery(p)
        PROVE  IInv'
    <3>1. RecordMatchesState'
      BY <2>2 DEF StoreDelivery, Goto, RecordMatchesState, Terminal, Absent, Kinds,
         IInv, TInv, TypeOK, redis, local
    <3>2. AnnouncedComplete'
      <4>1. arg[p] \notin announced
        BY <2>2 DEF StoreDelivery, IInv, DeliverInv, DeliverSteps
      <4>2. \A o \in announced : delivery'[o] = delivery[o]
        BY <2>2, <4>1 DEF StoreDelivery, TInv, TypeOK
      <4> QED
        BY <2>2, <4>2 DEF StoreDelivery, IInv, AnnouncedComplete
    <3>3. NoEarlyExpiry'
      <4>1. state[arg[p]] = "PENDING" /\ arg[p] \in Offers
        BY <2>2 DEF StoreDelivery, IInv, DeliverInv, DeliverSteps
      <4>2. \A o \in Offers : o # arg[p] => delivery'[o] = delivery[o]
        BY <2>2 DEF StoreDelivery, TInv, TypeOK
      <4>3. UNCHANGED <<state, record>>
        BY <2>2 DEF StoreDelivery
      <4> QED
        BY <4>1, <4>2, <4>3 DEF IInv, NoEarlyExpiry
    <3>4. ListedIsComplete'
      BY <2>2 DEF StoreDelivery, Goto, ListedIsComplete, IInv, TInv, TypeOK, redis,
         local
    <3>5. DeliverInv'
      BY <2>2 DEF StoreDelivery, Goto, DeliverInv, DeliverSteps, IInv, TInv, TypeOK,
         redis, local
    <3>6. ResolveInv'
      BY <2>2 DEF StoreDelivery, Goto, ResolveInv, DeliverInv, DeliverSteps,
         ResolveSteps, IInv, TInv, TypeOK, redis, local
    <3>7. CallbackInv'
      BY <2>2 DEF StoreDelivery, Goto, CallbackInv, OutcomeOf, IInv, TInv, TypeOK,
         redis, local
    <3>8. AnswerInv'
      BY <2>2 DEF StoreDelivery, Goto, AnswerInv, OutcomeOf, IInv, TInv, TypeOK,
         redis, local
    <3> QED
      BY <3>1, <3>2, <3>3, <3>4, <3>5, <3>6, <3>7, <3>8 DEF IInv
  <2>3. ASSUME NEW p \in Pods, StoreOffer(p)
        PROVE  IInv'
    <3>1. RecordMatchesState'
      BY <2>3 DEF StoreOffer, Goto, RecordMatchesState, Terminal, Absent, Kinds,
         IInv, TInv, TypeOK, redis, local
    <3>2. AnnouncedComplete'
      BY <2>3 DEF StoreOffer, Goto, AnnouncedComplete, IInv, TInv, TypeOK, redis,
         local
    <3>3. NoEarlyExpiry'
      BY <2>3 DEF StoreOffer, Goto, NoEarlyExpiry, IInv, TInv, TypeOK, redis, local
    <3>4. ListedIsComplete'
      BY <2>3 DEF StoreOffer, Goto, ListedIsComplete, IInv, TInv, TypeOK, redis,
         local
    <3>5. DeliverInv'
      BY <2>3 DEF StoreOffer, Goto, DeliverInv, DeliverSteps, IInv, TInv, TypeOK,
         redis, local
    <3>6. ResolveInv'
      BY <2>3 DEF StoreOffer, Goto, ResolveInv, ResolveSteps, IInv, TInv, TypeOK,
         redis, local
    <3>7. CallbackInv'
      BY <2>3 DEF StoreOffer, Goto, CallbackInv, OutcomeOf, IInv, TInv, TypeOK,
         redis, local
    <3>8. AnswerInv'
      BY <2>3 DEF StoreOffer, Goto, AnswerInv, OutcomeOf, IInv, TInv, TypeOK, redis,
         local
    <3> QED
      BY <3>1, <3>2, <3>3, <3>4, <3>5, <3>6, <3>7, <3>8 DEF IInv
  <2>4. ASSUME NEW p \in Pods, AddPending(p)
        PROVE  IInv'
    <3>1. RecordMatchesState'
      BY <2>4 DEF AddPending, Release, RecordMatchesState, Terminal, Absent, Kinds,
         IInv, TInv, TypeOK, redis, local
    <3>2. AnnouncedComplete'
      <4>1. /\ delivery[arg[p]] # 0
            /\ arg[p] \in offerDoc
            /\ state[arg[p]] = "PENDING"
        BY <2>4 DEF AddPending, IInv, DeliverInv, DeliverSteps
      <4> QED
        BY <2>4, <4>1 DEF AddPending, IInv, AnnouncedComplete
    <3>3. NoEarlyExpiry'
      BY <2>4 DEF AddPending, Release, NoEarlyExpiry, IInv, TInv, TypeOK, redis,
         local
    <3>4. ListedIsComplete'
      BY <2>4 DEF AddPending, Release, ListedIsComplete, DeliverInv, DeliverSteps,
         IInv, TInv, TypeOK, redis, local
    <3>5. DeliverInv'
      BY <2>4 DEF AddPending, Release, DeliverInv, DeliverSteps, IInv, TInv, TypeOK,
         redis, local
    <3>6. ResolveInv'
      BY <2>4 DEF AddPending, Release, ResolveInv, ResolveSteps, IInv, TInv, TypeOK,
         redis, local
    <3>7. CallbackInv'
      BY <2>4 DEF AddPending, Release, CallbackInv, OutcomeOf, IInv, TInv, TypeOK,
         redis, local
    <3>8. AnswerInv'
      BY <2>4 DEF AddPending, Release, AnswerInv, OutcomeOf, IInv, TInv, TypeOK,
         redis, local
    <3> QED
      BY <3>1, <3>2, <3>3, <3>4, <3>5, <3>6, <3>7, <3>8 DEF IInv
  <2>5. ASSUME NEW p \in Pods, CheckExpiry(p)
        PROVE  IInv'
    <3>1. RecordMatchesState'
      BY <2>5 DEF CheckExpiry, Goto, Expired, RecordMatchesState, Terminal, Absent,
         Kinds, IInv, TInv, TypeOK, redis, local
    <3>2. AnnouncedComplete'
      BY <2>5 DEF CheckExpiry, Goto, Expired, AnnouncedComplete, IInv, TInv, TypeOK,
         redis, local
    <3>3. NoEarlyExpiry'
      BY <2>5 DEF CheckExpiry, Goto, Expired, NoEarlyExpiry, IInv, TInv, TypeOK,
         redis, local
    <3>4. ListedIsComplete'
      BY <2>5 DEF CheckExpiry, Goto, Expired, ListedIsComplete, IInv, TInv, TypeOK,
         redis, local
    <3>5. DeliverInv'
      BY <2>5 DEF CheckExpiry, Goto, Expired, DeliverInv, DeliverSteps, IInv, TInv,
         TypeOK, redis, local
    <3>6. ResolveInv'
      BY <2>5 DEF CheckExpiry, Goto, Expired, ResolveInv, ResolveSteps, IInv, TInv,
         TypeOK, redis, local
    <3>7. CallbackInv'
      BY <2>5 DEF CheckExpiry, Goto, Expired, CallbackInv, OutcomeOf, IInv, TInv,
         TypeOK, redis, local
    <3>8. AnswerInv'
      BY <2>5 DEF CheckExpiry, Goto, Expired, AnswerInv, OutcomeOf, IInv, TInv,
         TypeOK, redis, local
    <3> QED
      BY <3>1, <3>2, <3>3, <3>4, <3>5, <3>6, <3>7, <3>8 DEF IInv
  <2>6. ASSUME NEW p \in Pods, StampRecord(p)
        PROVE  IInv'
    <3>1. RecordMatchesState'
      BY <2>6 DEF StampRecord, Goto, RecordMatchesState, Terminal, Absent, Kinds,
         IInv, TInv, TypeOK, redis, local
    <3>2. AnnouncedComplete'
      BY <2>6 DEF StampRecord, Goto, AnnouncedComplete, IInv, TInv, TypeOK, redis,
         local
    <3>3. NoEarlyExpiry'
      BY <2>6 DEF StampRecord, Goto, NoEarlyExpiry, IInv, TInv, TypeOK, redis, local
    <3>4. ListedIsComplete'
      BY <2>6 DEF StampRecord, Goto, ListedIsComplete, IInv, TInv, TypeOK, redis,
         local
    <3>5. DeliverInv'
      BY <2>6 DEF StampRecord, Goto, DeliverInv, DeliverSteps, IInv, TInv, TypeOK,
         redis, local
    <3>6. ResolveInv'
      BY <2>6 DEF StampRecord, Goto, ResolveInv, ResolveSteps, IInv, TInv, TypeOK,
         redis, local
    <3>7. CallbackInv'
      BY <2>6 DEF StampRecord, Goto, CallbackInv, OutcomeOf, IInv, TInv, TypeOK,
         redis, local
    <3>8. AnswerInv'
      BY <2>6 DEF StampRecord, Goto, AnswerInv, OutcomeOf, IInv, TInv, TypeOK,
         redis, local
    <3> QED
      BY <3>1, <3>2, <3>3, <3>4, <3>5, <3>6, <3>7, <3>8 DEF IInv
  <2>7. ASSUME NEW p \in Pods, Commit(p)
        PROVE  IInv'
    <3>1. RecordMatchesState'
      BY <2>7 DEF Commit, Callback, Release, StillPending, OutcomeOf, RecordOf,
         Resolution, RecordMatchesState, Terminal, Absent, Kinds, IInv, TInv,
         TypeOK, redis, local
    <3>2. AnnouncedComplete'
      BY <2>7 DEF Commit, Callback, Release, StillPending, OutcomeOf, RecordOf,
         Resolution, AnnouncedComplete, Terminal, IInv, TInv, TypeOK, redis, local
    <3>3. NoEarlyExpiry'
      BY <2>7 DEF Commit, Callback, Release, StillPending, OutcomeOf, RecordOf,
         Resolution, NoEarlyExpiry, ResolveInv, ResolveSteps, Terminal, IInv, TInv,
         TypeOK, redis, local
    <3>4. ListedIsComplete'
      BY <2>7 DEF Commit, Callback, Release, StillPending, OutcomeOf, RecordOf,
         Resolution, ListedIsComplete, ResolveInv, ResolveSteps, Terminal, IInv,
         TInv, TypeOK, redis, local
    <3>5. DeliverInv'
      BY <2>7 DEF Commit, Callback, Release, StillPending, OutcomeOf, RecordOf,
         Resolution, DeliverInv, ResolveInv, DeliverSteps, ResolveSteps, Terminal,
         IInv, TInv, TypeOK, redis, local
    <3>6. ResolveInv'
      BY <2>7 DEF Commit, Callback, Release, StillPending, OutcomeOf, RecordOf,
         Resolution, ResolveInv, ResolveSteps, Terminal, IInv, TInv, TypeOK, redis,
         local
    <3>7. CallbackInv'
      <4>1. /\ arg[p] \in Offers
            /\ op[p] \in {"accept", "reject"}
            /\ state[arg[p]] = "PENDING"
            /\ state' = [state EXCEPT ![arg[p]] = OutcomeOf(op[p])]
            /\ callbacks' = [callbacks EXCEPT ![p] = @ \cup {<<op[p], arg[p]>>}]
            /\ UNCHANGED replies
        BY <2>7 DEF Commit, Callback, StillPending, Resolution, TInv,
           BusyHasOffer, ResolveSteps
      <4>2. \A q \in Pods, call \in {"accept", "reject"} :
               /\ <<call, arg[p]>> \notin callbacks[q]
               /\ replies[arg[p]][call] = 0
        <5> TAKE q \in Pods, call \in {"accept", "reject"}
        <5>1. state[arg[p]] # OutcomeOf(call)
          BY <4>1 DEF OutcomeOf
        <5>2. replies[arg[p]][call] \in Nat
          BY <4>1 DEF TInv, TypeOK
        <5>3. <<call, arg[p]>> \notin callbacks[q]
          BY <4>1, <5>1 DEF IInv, CallbackInv
        <5>4. ~ replies[arg[p]][call] > 0
          BY <4>1, <5>1 DEF IInv, AnswerInv
        <5> QED
          BY <5>2, <5>3, <5>4
      <4>3. SUFFICES ASSUME NEW q \in Pods, NEW o \in Offers,
                            NEW call \in {"accept", "reject"},
                            <<call, o>> \in callbacks'[q]
                     PROVE  /\ state'[o] = OutcomeOf(call)
                            /\ replies'[o][call] = 0
                            /\ \A r \in Pods \ {q} : <<call, o>> \notin callbacks'[r]
        BY DEF CallbackInv, OutcomeOf
      <4>4. \A r \in Pods : callbacks'[r] = IF r = p
                               THEN callbacks[p] \cup {<<op[p], arg[p]>>}
                               ELSE callbacks[r]
        BY <4>1 DEF TInv, TypeOK
      <4>5. CASE o = arg[p]
        <5>1. q = p /\ call = op[p]
          BY <4>2, <4>3, <4>4, <4>5
        <5> QED
          BY <4>1, <4>2, <4>4, <4>5, <5>1 DEF TInv, TypeOK
      <4>6. CASE o # arg[p]
        <5>1. <<call, o>> \in callbacks[q]
          BY <4>3, <4>4, <4>6
        <5>2. \A r \in Pods \ {q} : <<call, o>> \notin callbacks'[r]
          <6>1. \A r \in Pods : <<call, o>> \in callbacks'[r] => <<call, o>> \in callbacks[r]
            BY <4>4, <4>6
          <6>2. \A r \in Pods \ {q} : <<call, o>> \notin callbacks[r]
            BY <5>1 DEF IInv, CallbackInv
          <6> QED
            BY <6>1, <6>2
        <5>3. state[o] = OutcomeOf(call) /\ replies[o][call] = 0
          BY <5>1 DEF IInv, CallbackInv
        <5>4. state'[o] = state[o] /\ replies'[o][call] = replies[o][call]
          BY <4>1, <4>6 DEF TInv, TypeOK
        <5> QED
          BY <5>2, <5>3, <5>4
      <4> QED
        BY <4>5, <4>6
    <3>8. AnswerInv'
      BY <2>7 DEF Commit, Callback, Release, StillPending, OutcomeOf, RecordOf,
         Resolution, AnswerInv, Terminal, IInv, TInv, TypeOK, redis, local
    <3> QED
      BY <3>1, <3>2, <3>3, <3>4, <3>5, <3>6, <3>7, <3>8 DEF IInv
  <2>8. ASSUME NEW p \in Pods, CommitLost(p)
        PROVE  IInv'
    <3>1. RecordMatchesState'
      BY <2>8 DEF CommitLost, Release, RecordMatchesState, Terminal, Absent, Kinds,
         IInv, TInv, TypeOK, redis, local
    <3>2. AnnouncedComplete'
      BY <2>8 DEF CommitLost, Release, AnnouncedComplete, IInv, TInv, TypeOK, redis,
         local
    <3>3. NoEarlyExpiry'
      BY <2>8 DEF CommitLost, Release, NoEarlyExpiry, IInv, TInv, TypeOK, redis,
         local
    <3>4. ListedIsComplete'
      BY <2>8 DEF CommitLost, Release, ListedIsComplete, IInv, TInv, TypeOK, redis,
         local
    <3>5. DeliverInv'
      BY <2>8 DEF CommitLost, Release, DeliverInv, DeliverSteps, IInv, TInv, TypeOK,
         redis, local
    <3>6. ResolveInv'
      BY <2>8 DEF CommitLost, Release, ResolveInv, ResolveSteps, IInv, TInv, TypeOK,
         redis, local
    <3>7. CallbackInv'
      BY <2>8 DEF CommitLost, Release, CallbackInv, OutcomeOf, IInv, TInv, TypeOK,
         redis, local
    <3>8. AnswerInv'
      BY <2>8 DEF CommitLost, Release, AnswerInv, OutcomeOf, IInv, TInv, TypeOK,
         redis, local
    <3> QED
      BY <3>1, <3>2, <3>3, <3>4, <3>5, <3>6, <3>7, <3>8 DEF IInv
  <2>9. ASSUME NEW p \in Pods, ExpireOnAccess(p)
        PROVE  IInv'
    <3>1. RecordMatchesState'
      BY <2>9 DEF ExpireOnAccess, Release, StillPending, RecordOf, Resolution,
         RecordMatchesState, Terminal, Absent, Kinds, IInv, TInv, TypeOK, redis,
         local
    <3>2. AnnouncedComplete'
      BY <2>9 DEF ExpireOnAccess, Release, StillPending, RecordOf, Resolution,
         AnnouncedComplete, Terminal, IInv, TInv, TypeOK, redis, local
    <3>3. NoEarlyExpiry'
      BY <2>9 DEF ExpireOnAccess, Release, StillPending, RecordOf, Resolution,
         NoEarlyExpiry, ResolveInv, ResolveSteps, Terminal, IInv, TInv, TypeOK,
         redis, local
    <3>4. ListedIsComplete'
      BY <2>9 DEF ExpireOnAccess, Release, StillPending, RecordOf, Resolution,
         ListedIsComplete, ResolveInv, ResolveSteps, Terminal, IInv, TInv, TypeOK,
         redis, local
    <3>5. DeliverInv'
      BY <2>9 DEF ExpireOnAccess, Release, StillPending, RecordOf, Resolution,
         DeliverInv, ResolveInv, DeliverSteps, ResolveSteps, Terminal, IInv, TInv,
         TypeOK, redis, local
    <3>6. ResolveInv'
      BY <2>9 DEF ExpireOnAccess, Release, StillPending, RecordOf, Resolution,
         ResolveInv, ResolveSteps, Terminal, IInv, TInv, TypeOK, redis, local
    <3>7. CallbackInv'
      <4>1. \A x \in Offers : state[x] # "PENDING" => state'[x] = state[x]
        BY <2>9 DEF ExpireOnAccess, StillPending, Resolution, TInv, TypeOK, redis
      <4>2. UNCHANGED <<callbacks, replies>>
        BY <2>9 DEF ExpireOnAccess
      <4> QED
        BY <4>1, <4>2, CallbackKept DEF IInv, CallbackInv, OutcomeOf
    <3>8. AnswerInv'
      BY <2>9 DEF ExpireOnAccess, Release, StillPending, RecordOf, Resolution,
         AnswerInv, Terminal, OutcomeOf, IInv, TInv, TypeOK, redis, local
    <3> QED
      BY <3>1, <3>2, <3>3, <3>4, <3>5, <3>6, <3>7, <3>8 DEF IInv
  <2>10. ASSUME NEW p \in Pods, Scan(p)
        PROVE  IInv'
    <3>1. RecordMatchesState'
      BY <2>10 DEF Scan, Goto, Stale, Expired, RecordMatchesState, Terminal, Absent,
         Kinds, IInv, TInv, TypeOK, redis, local
    <3>2. AnnouncedComplete'
      BY <2>10 DEF Scan, Goto, Stale, Expired, AnnouncedComplete, IInv, TInv,
         TypeOK, redis, local
    <3>3. NoEarlyExpiry'
      BY <2>10 DEF Scan, Goto, Stale, Expired, NoEarlyExpiry, IInv, TInv, TypeOK,
         redis, local
    <3>4. ListedIsComplete'
      BY <2>10 DEF Scan, Goto, Stale, Expired, ListedIsComplete, IInv, TInv, TypeOK,
         redis, local
    <3>5. DeliverInv'
      BY <2>10 DEF Scan, Goto, Stale, Expired, DeliverInv, DeliverSteps, IInv, TInv,
         TypeOK, redis, local
    <3>6. ResolveInv'
      BY <2>10 DEF Scan, Goto, Stale, Expired, ResolveInv, ListedIsComplete,
         ResolveSteps, IInv, TInv, TypeOK, redis, local
    <3>7. CallbackInv'
      BY <2>10 DEF Scan, Goto, Stale, Expired, CallbackInv, OutcomeOf, IInv, TInv,
         TypeOK, redis, local
    <3>8. AnswerInv'
      BY <2>10 DEF Scan, Goto, Stale, Expired, AnswerInv, OutcomeOf, IInv, TInv,
         TypeOK, redis, local
    <3> QED
      BY <3>1, <3>2, <3>3, <3>4, <3>5, <3>6, <3>7, <3>8 DEF IInv
  <2>11. ASSUME NEW p \in Pods, NEW o \in Offers, SweepOne(p, o)
        PROVE  IInv'
    <3>1. RecordMatchesState'
      BY <2>11 DEF SweepOne, StillPending, RecordOf, Resolution, RecordMatchesState,
         Terminal, Absent, Kinds, IInv, TInv, TypeOK, redis, local
    <3>2. AnnouncedComplete'
      BY <2>11 DEF SweepOne, StillPending, RecordOf, Resolution, AnnouncedComplete,
         Terminal, IInv, TInv, TypeOK, redis, local
    <3>3. NoEarlyExpiry'
      <4>1. CASE StillPending(o)
        <5>1. delivery[o] <= stamp[p]
          BY <2>11 DEF SweepOne, IInv, ResolveInv
        <5>2. /\ state' = [state EXCEPT ![o] = "EXPIRED"]
              /\ record' = [record EXCEPT ![o]["expiry"] = stamp[p]]
              /\ UNCHANGED delivery
          BY <2>11, <4>1 DEF SweepOne, Resolution, RecordOf
        <5> QED
          BY <5>1, <5>2 DEF IInv, NoEarlyExpiry, TInv, TypeOK, Kinds
      <4>2. CASE ~ StillPending(o)
        BY <2>11, <4>2 DEF SweepOne, redis, IInv, NoEarlyExpiry
      <4> QED
        BY <4>1, <4>2
    <3>4. ListedIsComplete'
      BY <2>11 DEF SweepOne, StillPending, RecordOf, Resolution, ListedIsComplete,
         ResolveInv, ResolveSteps, Terminal, IInv, TInv, TypeOK, redis, local
    <3>5. DeliverInv'
      BY <2>11 DEF SweepOne, StillPending, RecordOf, Resolution, DeliverInv,
         ResolveInv, DeliverSteps, ResolveSteps, Terminal, IInv, TInv, TypeOK,
         redis, local
    <3>6. ResolveInv'
      BY <2>11 DEF SweepOne, StillPending, RecordOf, Resolution, ResolveInv,
         ResolveSteps, Terminal, IInv, TInv, TypeOK, redis, local
    <3>7. CallbackInv'
      <4>1. \A x \in Offers : state[x] # "PENDING" => state'[x] = state[x]
        BY <2>11 DEF SweepOne, StillPending, Resolution, TInv, TypeOK, redis
      <4>2. UNCHANGED <<callbacks, replies>>
        BY <2>11 DEF SweepOne
      <4> QED
        BY <4>1, <4>2, CallbackKept DEF IInv, CallbackInv, OutcomeOf
    <3>8. AnswerInv'
      BY <2>11 DEF SweepOne, StillPending, RecordOf, Resolution, AnswerInv,
         Terminal, OutcomeOf, IInv, TInv, TypeOK, redis, local
    <3> QED
      BY <3>1, <3>2, <3>3, <3>4, <3>5, <3>6, <3>7, <3>8 DEF IInv
  <2>12. ASSUME NEW p \in Pods, EndSweep(p)
        PROVE  IInv'
    <3>1. RecordMatchesState'
      BY <2>12 DEF EndSweep, Callback, Release, RecordMatchesState, Terminal,
         Absent, Kinds, IInv, TInv, TypeOK, redis, local
    <3>2. AnnouncedComplete'
      BY <2>12 DEF EndSweep, Callback, Release, AnnouncedComplete, IInv, TInv,
         TypeOK, redis, local
    <3>3. NoEarlyExpiry'
      BY <2>12 DEF EndSweep, Callback, Release, NoEarlyExpiry, IInv, TInv, TypeOK,
         redis, local
    <3>4. ListedIsComplete'
      BY <2>12 DEF EndSweep, Callback, Release, ListedIsComplete, IInv, TInv,
         TypeOK, redis, local
    <3>5. DeliverInv'
      BY <2>12 DEF EndSweep, Callback, Release, DeliverInv, DeliverSteps, IInv,
         TInv, TypeOK, redis, local
    <3>6. ResolveInv'
      BY <2>12 DEF EndSweep, Callback, Release, ResolveInv, ResolveSteps, IInv,
         TInv, TypeOK, redis, local
    <3>7. CallbackInv'
      <4>1. \A q \in Pods, o \in Offers, call \in {"accept", "reject"} :
               <<call, o>> \in callbacks'[q] => <<call, o>> \in callbacks[q]
        BY <2>12 DEF EndSweep, Callback, TInv, TypeOK
      <4>2. UNCHANGED <<state, replies>>
        BY <2>12 DEF EndSweep, redis
      <4> QED
        BY <4>1, <4>2, CallbackKept DEF IInv
    <3>8. AnswerInv'
      BY <2>12 DEF EndSweep, Callback, Release, AnswerInv, OutcomeOf, IInv, TInv,
         TypeOK, redis, local
    <3> QED
      BY <3>1, <3>2, <3>3, <3>4, <3>5, <3>6, <3>7, <3>8 DEF IInv
  <2>13. ASSUME NEW p \in Pods, NEW o \in Offers, NEW call \in {"accept", "reject", "expire"},
               Return(p, call, o)
        PROVE  IInv'
    <3>1. RecordMatchesState'
      BY <2>13 DEF Return, RecordMatchesState, Terminal, Absent, Kinds, IInv, TInv,
         TypeOK, redis, local
    <3>2. AnnouncedComplete'
      BY <2>13 DEF Return, AnnouncedComplete, IInv, TInv, TypeOK, redis, local
    <3>3. NoEarlyExpiry'
      BY <2>13 DEF Return, NoEarlyExpiry, IInv, TInv, TypeOK, redis, local
    <3>4. ListedIsComplete'
      BY <2>13 DEF Return, ListedIsComplete, IInv, TInv, TypeOK, redis, local
    <3>5. DeliverInv'
      BY <2>13 DEF Return, DeliverInv, DeliverSteps, IInv, TInv, TypeOK, redis,
         local
    <3>6. ResolveInv'
      BY <2>13 DEF Return, ResolveInv, ResolveSteps, IInv, TInv, TypeOK, redis,
         local
    <3>7. CallbackInv'
      BY <2>13, CallbackAnswers DEF Return, IInv, TInv, redis
    <3>8. AnswerInv'
      BY <2>13, CallbackAnswers DEF Return, IInv, TInv, redis
    <3> QED
      BY <3>1, <3>2, <3>3, <3>4, <3>5, <3>6, <3>7, <3>8 DEF IInv
  <2>14. ASSUME NEW p \in Pods, BeginSweep(p)
        PROVE  IInv'
    <3>1. RecordMatchesState'
      BY <2>14 DEF BeginSweep, Goto, RecordMatchesState, Terminal, Absent, Kinds,
         IInv, TInv, TypeOK, redis, local
    <3>2. AnnouncedComplete'
      BY <2>14 DEF BeginSweep, Goto, AnnouncedComplete, IInv, TInv, TypeOK, redis,
         local
    <3>3. NoEarlyExpiry'
      BY <2>14 DEF BeginSweep, Goto, NoEarlyExpiry, IInv, TInv, TypeOK, redis, local
    <3>4. ListedIsComplete'
      BY <2>14 DEF BeginSweep, Goto, ListedIsComplete, IInv, TInv, TypeOK, redis,
         local
    <3>5. DeliverInv'
      BY <2>14 DEF BeginSweep, Goto, DeliverInv, DeliverSteps, IInv, TInv, TypeOK,
         redis, local
    <3>6. ResolveInv'
      BY <2>14 DEF BeginSweep, Goto, ResolveInv, ResolveSteps, IInv, TInv, TypeOK,
         redis, local
    <3>7. CallbackInv'
      BY <2>14 DEF BeginSweep, Goto, CallbackInv, OutcomeOf, IInv, TInv, TypeOK,
         redis, local
    <3>8. AnswerInv'
      BY <2>14 DEF BeginSweep, Goto, AnswerInv, OutcomeOf, IInv, TInv, TypeOK,
         redis, local
    <3> QED
      BY <3>1, <3>2, <3>3, <3>4, <3>5, <3>6, <3>7, <3>8 DEF IInv
  <2>15. ASSUME NEW p \in Pods, Crash(p)
        PROVE  IInv'
    <3>1. RecordMatchesState'
      BY <2>15 DEF Crash, Release, RecordMatchesState, Terminal, Absent, Kinds,
         IInv, TInv, TypeOK, redis, local
    <3>2. AnnouncedComplete'
      BY <2>15 DEF Crash, Release, AnnouncedComplete, IInv, TInv, TypeOK, redis,
         local
    <3>3. NoEarlyExpiry'
      BY <2>15 DEF Crash, Release, NoEarlyExpiry, IInv, TInv, TypeOK, redis, local
    <3>4. ListedIsComplete'
      BY <2>15 DEF Crash, Release, ListedIsComplete, IInv, TInv, TypeOK, redis,
         local
    <3>5. DeliverInv'
      BY <2>15 DEF Crash, Release, DeliverInv, DeliverSteps, IInv, TInv, TypeOK,
         redis, local
    <3>6. ResolveInv'
      BY <2>15 DEF Crash, Release, ResolveInv, ResolveSteps, IInv, TInv, TypeOK,
         redis, local
    <3>7. CallbackInv'
      <4>1. \A q \in Pods : callbacks'[q] \subseteq callbacks[q]
        BY <2>15 DEF Crash, TInv, TypeOK
      <4>2. UNCHANGED <<state, replies>>
        BY <2>15 DEF Crash, redis
      <4> QED
        BY <4>1, <4>2, CallbackKept DEF IInv
    <3>8. AnswerInv'
      BY <2>15 DEF Crash, Release, AnswerInv, OutcomeOf, IInv, TInv, TypeOK, redis,
         local
    <3> QED
      BY <3>1, <3>2, <3>3, <3>4, <3>5, <3>6, <3>7, <3>8 DEF IInv
  <2>16. ASSUME NEW p \in Pods, RedisError(p)
        PROVE  IInv'
    <3>1. RecordMatchesState'
      BY <2>16 DEF RedisError, Release, StillPending, OutcomeOf, RecordOf,
         Resolution, RecordMatchesState, Terminal, Absent, Kinds, IInv, TInv,
         TypeOK, redis, local
    <3>2. AnnouncedComplete'
      BY <2>16 DEF RedisError, Release, StillPending, OutcomeOf, RecordOf,
         Resolution, AnnouncedComplete, Terminal, IInv, TInv, TypeOK, redis, local
    <3>3. NoEarlyExpiry'
      BY <2>16 DEF RedisError, Release, StillPending, OutcomeOf, RecordOf,
         Resolution, NoEarlyExpiry, ResolveInv, ResolveSteps, Terminal, IInv, TInv,
         TypeOK, redis, local
    <3>4. ListedIsComplete'
      BY <2>16 DEF RedisError, Release, StillPending, OutcomeOf, RecordOf,
         Resolution, ListedIsComplete, ResolveInv, ResolveSteps, Terminal, IInv,
         TInv, TypeOK, redis, local
    <3>5. DeliverInv'
      BY <2>16 DEF RedisError, Release, StillPending, OutcomeOf, RecordOf,
         Resolution, DeliverInv, ResolveInv, DeliverSteps, ResolveSteps, Terminal,
         IInv, TInv, TypeOK, redis, local
    <3>6. ResolveInv'
      BY <2>16 DEF RedisError, Release, StillPending, OutcomeOf, RecordOf,
         Resolution, ResolveInv, ResolveSteps, Terminal, IInv, TInv, TypeOK, redis,
         local
    <3>7. CallbackInv'
      <4>1. \A x \in Offers : state[x] # "PENDING" => state'[x] = state[x]
        BY <2>16 DEF RedisError, StillPending, Resolution, TInv, TypeOK, redis
      <4>2. UNCHANGED <<callbacks, replies>>
        BY <2>16 DEF RedisError
      <4> QED
        BY <4>1, <4>2, CallbackKept DEF IInv, CallbackInv, OutcomeOf
    <3>8. AnswerInv'
      BY <2>16 DEF RedisError, Release, StillPending, OutcomeOf, RecordOf,
         Resolution, AnswerInv, Terminal, IInv, TInv, TypeOK, redis, local
    <3> QED
      BY <3>1, <3>2, <3>3, <3>4, <3>5, <3>6, <3>7, <3>8 DEF IInv
  <2>17. ASSUME NEW p \in Pods, NEW o \in Offers, BeginDeliver(p, o)
        PROVE  IInv'
    <3>1. RecordMatchesState'
      BY <2>17 DEF BeginDeliver, Goto, RecordMatchesState, Terminal, Absent, Kinds,
         IInv, TInv, TypeOK, redis, local
    <3>2. AnnouncedComplete'
      BY <2>17 DEF BeginDeliver, Goto, AnnouncedComplete, IInv, TInv, TypeOK, redis,
         local
    <3>3. NoEarlyExpiry'
      BY <2>17 DEF BeginDeliver, Goto, NoEarlyExpiry, IInv, TInv, TypeOK, redis,
         local
    <3>4. ListedIsComplete'
      BY <2>17 DEF BeginDeliver, Goto, ListedIsComplete, IInv, TInv, TypeOK, redis,
         local
    <3>5. DeliverInv'
      BY <2>17 DEF BeginDeliver, Goto, DeliverInv, AnnouncedComplete, DeliverSteps,
         IInv, TInv, TypeOK, redis, local
    <3>6. ResolveInv'
      BY <2>17 DEF BeginDeliver, Goto, ResolveInv, ResolveSteps, IInv, TInv, TypeOK,
         redis, local
    <3>7. CallbackInv'
      BY <2>17 DEF BeginDeliver, Goto, CallbackInv, OutcomeOf, IInv, TInv, TypeOK,
         redis, local
    <3>8. AnswerInv'
      BY <2>17 DEF BeginDeliver, Goto, AnswerInv, OutcomeOf, IInv, TInv, TypeOK,
         redis, local
    <3> QED
      BY <3>1, <3>2, <3>3, <3>4, <3>5, <3>6, <3>7, <3>8 DEF IInv
  <2>18. ASSUME NEW p \in Pods, NEW o \in Offers, NEW call \in {"accept", "reject"},
               BeginResolve(p, o, call)
        PROVE  IInv'
    <3>1. RecordMatchesState'
      BY <2>18 DEF BeginResolve, Goto, RecordMatchesState, Terminal, Absent, Kinds,
         IInv, TInv, TypeOK, redis, local
    <3>2. AnnouncedComplete'
      BY <2>18 DEF BeginResolve, Goto, AnnouncedComplete, IInv, TInv, TypeOK, redis,
         local
    <3>3. NoEarlyExpiry'
      BY <2>18 DEF BeginResolve, Goto, NoEarlyExpiry, IInv, TInv, TypeOK, redis,
         local
    <3>4. ListedIsComplete'
      BY <2>18 DEF BeginResolve, Goto, ListedIsComplete, IInv, TInv, TypeOK, redis,
         local
    <3>5. DeliverInv'
      BY <2>18 DEF BeginResolve, Goto, DeliverInv, DeliverSteps, IInv, TInv, TypeOK,
         redis, local
    <3>6. ResolveInv'
      BY <2>18 DEF BeginResolve, Goto, ResolveInv, ResolveSteps, IInv, TInv, TypeOK,
         redis, local
    <3>7. CallbackInv'
      BY <2>18 DEF BeginResolve, Goto, CallbackInv, OutcomeOf, IInv, TInv, TypeOK,
         redis, local
    <3>8. AnswerInv'
      BY <2>18 DEF BeginResolve, Goto, AnswerInv, OutcomeOf, IInv, TInv, TypeOK,
         redis, local
    <3> QED
      BY <3>1, <3>2, <3>3, <3>4, <3>5, <3>6, <3>7, <3>8 DEF IInv
  <2>19. ASSUME NEW p \in Pods, NEW o \in Offers, NEW call \in {"accept", "reject", "expire"},
               CallbackRaises(p, call, o)
        PROVE  IInv'
    <3>1. RecordMatchesState'
      BY <2>19 DEF CallbackRaises, RecordMatchesState, Terminal, Absent, Kinds,
         IInv, TInv, TypeOK, redis, local
    <3>2. AnnouncedComplete'
      BY <2>19 DEF CallbackRaises, AnnouncedComplete, IInv, TInv, TypeOK, redis,
         local
    <3>3. NoEarlyExpiry'
      BY <2>19 DEF CallbackRaises, NoEarlyExpiry, IInv, TInv, TypeOK, redis, local
    <3>4. ListedIsComplete'
      BY <2>19 DEF CallbackRaises, ListedIsComplete, IInv, TInv, TypeOK, redis,
         local
    <3>5. DeliverInv'
      BY <2>19 DEF CallbackRaises, DeliverInv, DeliverSteps, IInv, TInv, TypeOK,
         redis, local
    <3>6. ResolveInv'
      BY <2>19 DEF CallbackRaises, ResolveInv, ResolveSteps, IInv, TInv, TypeOK,
         redis, local
    <3>7. CallbackInv'
      BY <2>19, CallbackAnswers DEF CallbackRaises, IInv, TInv, redis
    <3>8. AnswerInv'
      BY <2>19, CallbackAnswers DEF CallbackRaises, IInv, TInv, redis
    <3> QED
      BY <3>1, <3>2, <3>3, <3>4, <3>5, <3>6, <3>7, <3>8 DEF IInv
  <2>20. ASSUME Tick PROVE IInv'
    BY <2>20 DEF Tick, redis, local, IInv, RecordMatchesState, AnnouncedComplete,
       NoEarlyExpiry, ListedIsComplete, DeliverInv, ResolveInv, CallbackInv,
       AnswerInv
  <2>21. ASSUME UNCHANGED vars PROVE IInv'
    BY <2>21 DEF vars, redis, local, IInv, RecordMatchesState, AnnouncedComplete,
       NoEarlyExpiry, ListedIsComplete, DeliverInv, ResolveInv, CallbackInv,
       AnswerInv
  <2> QED
    BY <2>1, <2>2, <2>3, <2>4, <2>5, <2>6, <2>7, <2>8, <2>9, <2>10, <2>11,
       <2>12, <2>13, <2>14, <2>15, <2>16, <2>17, <2>18, <2>19, <2>20, <2>21
    DEF Next, Proceed, Returns
<1> QED
  BY <1>1, <1>2, TypeCorrect, PTL DEF Spec, TInv
-----------------------------------------------------------------------------
(* The safety properties of the specification. *)

\* Every resolved offer has the audit record of its outcome and no other, the pending
\* set names only offers that await an answer, and an offer that can be named has all
\* that a resolution reads.
THEOREM StoreAgreesHolds == Spec => []StoreAgrees
<1>1. IInv => StoreAgrees
  BY DEF IInv, ListedIsComplete, StoreAgrees, PendingSetSound
<1> QED
  BY <1>1, InvariantHolds, PTL

\* No offer expires before its time.
THEOREM NoEarlyExpiryHolds == Spec => []NoEarlyExpiry
BY InvariantHolds, PTL DEF IInv

\* At most one answer succeeds, and it is the outcome that stands.
THEOREM OneTruthfulReplyHolds == Spec => []OneTruthfulReply
<1>1. IInv /\ TypeOK => OneTruthfulReply
  <2> SUFFICES ASSUME IInv, TypeOK, NEW o \in Offers
               PROVE  /\ replies[o]["accept"] + replies[o]["reject"] <= 1
                      /\ \A call \in {"accept", "reject"} :
                            replies[o][call] > 0 => state[o] = OutcomeOf(call)
    BY DEF OneTruthfulReply, OutcomeOf
  <2>1. /\ replies[o]["accept"] \in Nat
        /\ replies[o]["reject"] \in Nat
    BY DEF TypeOK
  <2>2. ~ (replies[o]["accept"] > 0 /\ replies[o]["reject"] > 0)
    BY DEF IInv, AnswerInv, OutcomeOf
  <2> QED
    BY <2>1, <2>2 DEF IInv, AnswerInv
<1> QED
  BY <1>1, InvariantHolds, TypeCorrect, PTL

\* An offer is funded at most once, and only if it stands accepted.
THEOREM FundedOnceAndAcceptedHolds == Spec => []FundedOnceAndAccepted
<1>1. IInv /\ TypeOK => FundedOnceAndAccepted
  <2> SUFFICES ASSUME IInv, TypeOK, NEW o \in Offers, funded[o] > 0
               PROVE  funded[o] = 1 /\ state[o] = "ACCEPTED"
    BY DEF FundedOnceAndAccepted
  <2>1. funded[o] \in Nat /\ replies[o]["accept"] \in Nat
    BY DEF TypeOK
  <2>2. funded[o] <= replies[o]["accept"] /\ replies[o]["accept"] <= 1
    BY DEF IInv, AnswerInv
  <2> QED
    BY <2>1, <2>2 DEF IInv, AnswerInv, OutcomeOf
<1> QED
  BY <1>1, InvariantHolds, TypeCorrect, PTL

-----------------------------------------------------------------------------
(* The service implements the abstract lifecycle. *)

\* What one step does to the outcomes and the funding.
MakeStep ==
    \E o \in Offers : /\ state[o] = "NONE"
                      /\ state' = [state EXCEPT ![o] = "PENDING"]
                      /\ UNCHANGED funded
ResolveStep ==
    \E o \in Offers, answer \in Terminal :
        /\ state[o] = "PENDING"
        /\ state' = [state EXCEPT ![o] = answer]
        /\ UNCHANGED funded
FundStep ==
    \E o \in Offers : /\ state[o] = "ACCEPTED"
                      /\ funded[o] = 0
                      /\ funded' = [funded EXCEPT ![o] = 1]
                      /\ UNCHANGED state
StepShape == MakeStep \/ ResolveStep \/ FundStep \/ UNCHANGED <<state, funded>>

\* Every step of a pod does one of these.
LEMMA EveryStepHasShape ==
    ASSUME IInv, TInv, [Next]_vars
    PROVE  StepShape
<1>1. ASSUME NEW p \in Pods, StoreState(p)
      PROVE  StepShape
  <2>1. arg[p] \in Offers /\ state[arg[p]] = "NONE"
    BY <1>1 DEF StoreState, IInv, DeliverInv, DeliverSteps
  <2> QED
    BY <1>1, <2>1 DEF StoreState, StepShape, MakeStep
<1>2. ASSUME NEW p \in Pods, StoreDelivery(p)
      PROVE  StepShape
  BY <1>2 DEF StoreDelivery, redis, StepShape
<1>3. ASSUME NEW p \in Pods, StoreOffer(p)
      PROVE  StepShape
  BY <1>3 DEF StoreOffer, redis, StepShape
<1>4. ASSUME NEW p \in Pods, AddPending(p)
      PROVE  StepShape
  BY <1>4 DEF AddPending, redis, StepShape
<1>5. ASSUME NEW p \in Pods, CheckExpiry(p)
      PROVE  StepShape
  BY <1>5 DEF CheckExpiry, redis, StepShape
<1>6. ASSUME NEW p \in Pods, StampRecord(p)
      PROVE  StepShape
  BY <1>6 DEF StampRecord, redis, StepShape
<1>7. ASSUME NEW p \in Pods, Commit(p)
      PROVE  StepShape
  BY <1>7 DEF Commit, StillPending, Resolution, OutcomeOf, Terminal, TInv,
     BusyHasOffer,
     ResolveSteps, StepShape, ResolveStep, redis
<1>8. ASSUME NEW p \in Pods, CommitLost(p)
      PROVE  StepShape
  BY <1>8 DEF CommitLost, redis, StepShape
<1>9. ASSUME NEW p \in Pods, ExpireOnAccess(p)
      PROVE  StepShape
  BY <1>9 DEF ExpireOnAccess, StillPending, Resolution, OutcomeOf, Terminal, TInv,
     BusyHasOffer,
     ResolveSteps, StepShape, ResolveStep, redis
<1>10. ASSUME NEW p \in Pods, Scan(p)
      PROVE  StepShape
  BY <1>10 DEF Scan, redis, StepShape
<1>11. ASSUME NEW p \in Pods, NEW o \in Offers, SweepOne(p, o)
      PROVE  StepShape
  BY <1>11 DEF SweepOne, StillPending, Resolution, Terminal, StepShape,
     ResolveStep, redis
<1>12. ASSUME NEW p \in Pods, EndSweep(p)
      PROVE  StepShape
  BY <1>12 DEF EndSweep, redis, StepShape
<1>13. ASSUME NEW p \in Pods, NEW o \in Offers, NEW call \in {"accept", "reject", "expire"},
             Return(p, call, o)
      PROVE  StepShape
  <2>1. CASE call = "accept"
    <3>1. state[o] = "ACCEPTED" /\ replies[o]["accept"] = 0
      BY <1>13, <2>1 DEF Return, IInv, CallbackInv, OutcomeOf
    <3>2. funded[o] = 0
      BY <3>1 DEF IInv, AnswerInv, TInv, TypeOK
    <3>3. funded' = [funded EXCEPT ![o] = funded[o] + 1]
      BY <1>13, <2>1 DEF Return
    <3>4. UNCHANGED state
      BY <1>13 DEF Return, redis
    <3> QED
      <4>1. funded[o] + 1 = 1
        BY <3>2
      <4>2. funded' = [funded EXCEPT ![o] = 1]
        BY <3>3, <4>1, Zenon
      <4>3. FundStep
        BY <3>1, <3>2, <3>4, <4>2, Zenon DEF FundStep
      <4> QED
        BY <4>3 DEF StepShape
  <2>2. CASE call # "accept"
    BY <1>13, <2>2 DEF Return, redis, StepShape
  <2> QED
    BY <2>1, <2>2
<1>14. ASSUME NEW p \in Pods, BeginSweep(p)
      PROVE  StepShape
  BY <1>14 DEF BeginSweep, redis, StepShape
<1>15. ASSUME NEW p \in Pods, Crash(p)
      PROVE  StepShape
  BY <1>15 DEF Crash, redis, StepShape
<1>16. ASSUME NEW p \in Pods, RedisError(p)
      PROVE  StepShape
  BY <1>16 DEF RedisError, StillPending, Resolution, OutcomeOf, Terminal, TInv,
     BusyHasOffer,
     ResolveSteps, StepShape, ResolveStep, redis
<1>17. ASSUME NEW p \in Pods, NEW o \in Offers, BeginDeliver(p, o)
      PROVE  StepShape
  BY <1>17 DEF BeginDeliver, redis, StepShape
<1>18. ASSUME NEW p \in Pods, NEW o \in Offers, NEW call \in {"accept", "reject"},
             BeginResolve(p, o, call)
      PROVE  StepShape
  BY <1>18 DEF BeginResolve, redis, StepShape
<1>19. ASSUME NEW p \in Pods, NEW o \in Offers, NEW call \in {"accept", "reject", "expire"},
             CallbackRaises(p, call, o)
      PROVE  StepShape
  BY <1>19 DEF CallbackRaises, redis, StepShape
<1>20. ASSUME Tick PROVE StepShape
  BY <1>20 DEF Tick, redis, StepShape
<1>21. ASSUME UNCHANGED vars PROVE StepShape
  BY <1>21 DEF vars, redis, StepShape
<1> QED
  BY <1>1, <1>2, <1>3, <1>4, <1>5, <1>6, <1>7, <1>8, <1>9, <1>10, <1>11,
     <1>12, <1>13, <1>14, <1>15, <1>16, <1>17, <1>18, <1>19, <1>20, <1>21
  DEF Next, Proceed, Returns

\* A resolution is final.
THEOREM OutcomeIsFinalHolds == Spec => OutcomeIsFinal
<1>1. IInv /\ TInv /\ [Next]_vars
        => [\A o \in Offers : state[o] \in Terminal => state'[o] = state[o]]_vars
  <2> SUFFICES ASSUME IInv, TInv, [Next]_vars, NEW o \in Offers, state[o] \in Terminal
               PROVE  state'[o] = state[o]
    OBVIOUS
  <2> QED
    BY EveryStepHasShape DEF StepShape, MakeStep, ResolveStep, FundStep, Terminal,
       TInv, TypeOK
<1> QED
  BY <1>1, InvariantHolds, TypeCorrect, PTL DEF Spec, TInv, OutcomeIsFinal

\* The pods together implement OfferLifecycle.
THEOREM Implements == Spec => ImplementsLifecycle
<1> DEFINE Funded == {o \in Offers : funded[o] > 0}
<1>1. Init => Lifecycle!Init
  BY DEF Init, Lifecycle!Init
<1>2. IInv /\ TInv /\ [Next]_vars => [Lifecycle!Next]_(Lifecycle!vars)
  <2> SUFFICES ASSUME IInv, TInv, [Next]_vars
               PROVE  [Lifecycle!Next]_(Lifecycle!vars)
    OBVIOUS
  <2>1. CASE MakeStep
    BY <2>1 DEF MakeStep, Lifecycle!Next, Lifecycle!Make
  <2>2. CASE ResolveStep
    BY <2>2 DEF ResolveStep, Terminal, Lifecycle!Next, Lifecycle!Resolve,
       Lifecycle!Terminal
  <2>3. CASE FundStep
    <3>1. PICK o \in Offers : /\ state[o] = "ACCEPTED"
                              /\ funded[o] = 0
                              /\ funded' = [funded EXCEPT ![o] = 1]
                              /\ UNCHANGED state
      BY <2>3 DEF FundStep
    <3>2. Funded' = Funded \cup {o} /\ o \notin Funded
      BY <3>1 DEF TInv, TypeOK
    <3> QED
      BY <3>1, <3>2 DEF Lifecycle!Next, Lifecycle!Fund
  <2>4. CASE UNCHANGED <<state, funded>>
    BY <2>4 DEF Lifecycle!vars
  <2> QED
    BY <2>1, <2>2, <2>3, <2>4, EveryStepHasShape DEF StepShape
<1> QED
  BY <1>1, <1>2, InvariantHolds, TypeCorrect, PTL
  DEF Spec, TInv, ImplementsLifecycle, Lifecycle!Spec
=============================================================================
