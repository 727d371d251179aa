------------------------- MODULE GoOfferRouter_proofs -------------------------
(***************************************************************************)
(* The Go offer router for any number of offers, handlers and goroutines:  *)
(* the registry holds exactly the live goroutines and keeps the limit, one *)
(* terminal branch executes, every outcome has a cause, and a query that   *)
(* missed the offer in flight finds its outcome.                           *)
(***************************************************************************)
EXTENDS GoOfferRouter, FiniteSetTheorems, TLAPS

Ended == {"record", "delete", "done"}
Alive == {"start", "select", "record", "delete"}

\* An offerState has a goroutine from its making on, and an outcome from the end of
\* its wait on.
PlaceInv ==
    \A r \in Runs :
        /\ goPc[r] = "none" <=> r \notin DOMAIN offerOf
        /\ outcome[r] # "PENDING" <=> goPc[r] \in Ended

\* Offers in flight and live goroutines point to each other.
RegistryInv ==
    /\ \A o \in InFlight : Live(offers[o]) /\ offerOf[offers[o]] = o
    /\ \A r \in Runs : Live(r) => offers[offerOf[r]] = r

LimitInv == IsFiniteSet(InFlight) /\ Cardinality(InFlight) <= MaxConcurrent

\* A goroutine has written the completed entry before it deletes the offer.
AnswerInv ==
    \A r \in Runs : goPc[r] \in {"delete", "done"} => resolved[offerOf[r]] # "NONE"

\* A signal is in a channel because a caller was told so, or by the shutdown.
SignalInv ==
    \A r \in Runs : \A k \in channel[r] :
        k \in told[r] \/ (k = "cancel" /\ server # "up")

IInv ==
    /\ PlaceInv /\ RegistryInv /\ LimitInv
    /\ AnswerInv /\ QueryStillAnswers
    /\ SignalInv /\ OutcomeHasCause

-----------------------------------------------------------------------------
(* Types. *)

LEMMA ConstantTypes ==
    /\ MaxRuns \in Nat \ {0} /\ MaxConcurrent \in Nat \ {0} /\ Expiry \in Nat \ {0}
    /\ Ttl \in Nat /\ MaxTime \in Nat
    BY GoOfferRouterAssumption

LEMMA RunTypes ==
    ASSUME TypeOK
    PROVE  /\ DOMAIN offerOf = 1 .. Len(offerOf) /\ Len(offerOf) \in Nat
           /\ DOMAIN offerOf \subseteq Runs /\ NoRun \notin Runs
           /\ \A r \in DOMAIN offerOf : offerOf[r] \in Offers
           /\ \A o \in InFlight : o \in Offers /\ offers[o] \in DOMAIN offerOf
<1>1. /\ DOMAIN offerOf = 1 .. Len(offerOf) /\ Len(offerOf) \in Nat
      /\ \A r \in DOMAIN offerOf : offerOf[r] \in Offers
  BY DEF TypeOK
<1>2. DOMAIN offerOf \subseteq Runs /\ NoRun \notin Runs
  BY <1>1, ConstantTypes DEF TypeOK, Runs, NoRun
<1>3. \A o \in Offers : offers[o] \in 0 .. Len(offerOf)
  BY DEF TypeOK
<1>4. \A o \in InFlight : o \in Offers /\ offers[o] \in DOMAIN offerOf
  BY <1>1, <1>3 DEF InFlight, NoRun
<1>q. QED BY <1>1, <1>2, <1>4

\* What a handler carries, by its step.
LEMMA HandlerTypes ==
    ASSUME TypeOK, NEW c \in Clients
    PROVE  /\ handler[c].step = "register" =>
                handler[c].offer \in Offers /\ handler[c].expiresAt \in Nat
           /\ handler[c].step \in {"check", "send"} =>
                handler[c].run \in Runs /\ handler[c].signal \in Signals
           /\ handler[c].step = "check" =>
                [handler[c] EXCEPT !.step = "send"] \in Handlers
           /\ handler[c].step = "resolved" => handler[c].offer \in Offers
           /\ Idle \in Handlers
<1>1. handler[c] \in Handlers
  BY DEF TypeOK
<1>2. CASE handler[c] = Idle
  BY <1>2 DEF Idle, Handlers
<1>3. CASE handler[c] \in [step : {"register"}, offer : Offers, expiresAt : 1 .. MaxTime,
                           killedSince : BOOLEAN]
  <2>1. 1 .. MaxTime \subseteq Nat
    BY ConstantTypes
  <2>q. QED BY <1>3, <2>1 DEF Handlers
<1>4. CASE handler[c] \in [step : {"check", "send"}, run : Runs, signal : Signals]
  BY <1>4 DEF Handlers
<1>5. CASE handler[c] \in [step : {"resolved"}, offer : Offers, known : BOOLEAN]
  BY <1>5 DEF Handlers
<1>q. QED BY <1>1, <1>2, <1>3, <1>4, <1>5 DEF Handlers

LEMMA TypeInit ==
    ASSUME Init
    PROVE  TypeOK
<1> USE DEF Init, TypeOK
<1>1. offerOf \in Seq(Offers) /\ Len(offerOf) <= MaxRuns
  BY ConstantTypes
<1>2. offers \in [Offers -> 0 .. Len(offerOf)]
  BY DEF NoRun
<1>3. handler \in [Clients -> Handlers]
  BY DEF Handlers
<1>4. clock \in 0 .. MaxTime
  BY ConstantTypes
<1>q. QED BY <1>1, <1>2, <1>3, <1>4

\* Steps of handlers that only take note of something.
LEMMA NoteType ==
    ASSUME TypeOK, NEW c \in Clients, NEW h \in Handlers, Becomes(c, h),
           UNCHANGED <<states, channel, goroutines, registry, environment, replies>>
    PROVE  TypeOK'
    BY DEF TypeOK, Becomes, states, goroutines, registry, environment, replies

LEMMA ResolveType ==
    ASSUME TypeOK, NEW r \in Runs, NEW result \in Outcomes, Resolve(r, result),
           channel' \in [Runs -> SUBSET Signals]
    PROVE  TypeOK'
<1>1. outcome' \in [Runs -> Outcomes \cup {"PENDING"}]
  BY DEF TypeOK, Resolve
<1>2. outcomeAt' \in [Runs -> Nat]
  <2>1. clock \in Nat
    BY ConstantTypes DEF TypeOK
  <2>q. QED BY <2>1 DEF TypeOK, Resolve
<1>3. goPc' \in [Runs -> {"none", "start", "select", "record", "delete", "done"}]
  BY DEF TypeOK, Resolve
<1>q. QED BY <1>1, <1>2, <1>3
      DEF TypeOK, Resolve, states, registry, environment, replies

LEMMA TypeStep ==
    ASSUME TypeOK, PlaceInv, [Next]_vars
    PROVE  TypeOK'
<1>1. ASSUME NEW c \in Clients, NEW o \in Offers, TriggerOffer(c, o) PROVE TypeOK'
  <2>1. PICK t \in clock + 1 .. clock + Expiry :
          t <= MaxTime /\ Becomes(c, [step |-> "register", offer |-> o, expiresAt |-> t,
                                      killedSince |-> shm])
    BY <1>1 DEF TriggerOffer
  <2>2. t \in 1 .. MaxTime
    BY <2>1, ConstantTypes DEF TypeOK
  <2>3. [step |-> "register", offer |-> o, expiresAt |-> t, killedSince |-> shm] \in Handlers
    BY <2>2 DEF Handlers, TypeOK
  <2>q. QED BY <1>1, <2>1, <2>3, NoteType DEF TriggerOffer
<1>2. ASSUME NEW c \in Clients, NEW o \in Offers, QueryOffer(c, o) PROVE TypeOK'
  <2>1. [step |-> "resolved", offer |-> o,
         known |-> \E r \in DOMAIN offerOf : offerOf[r] = o] \in Handlers
    BY DEF Handlers
  <2>q. QED BY <1>2, <2>1, NoteType DEF QueryOffer
<1>3. ASSUME NEW c \in Clients, NEW o \in Offers, NEW signal \in Signals,
             Lookup(c, o, signal)
      PROVE  TypeOK'
  <2>1. offers[o] \in Runs
    BY <1>3, RunTypes DEF Lookup, InFlight
  <2>2. [step |-> IF signal = "cancel" THEN "send" ELSE "check",
         run |-> offers[o], signal |-> signal] \in Handlers
    BY <2>1 DEF Handlers
  <2>q. QED BY <1>3, <2>2, NoteType DEF Lookup
<1>4. ASSUME NEW c \in Clients, Register(c) PROVE TypeOK'
  <2> DEFINE o == handler[c].offer
  <2> DEFINE r == Len(offerOf) + 1
  <2>1. o \in Offers /\ handler[c].expiresAt \in Nat /\ Idle \in Handlers
    BY <1>4, HandlerTypes, ConstantTypes DEF Register
  <2>2. handler' \in [Clients -> Handlers]
    BY <1>4, <2>1 DEF Register, Becomes, TypeOK
  <2>3. CASE UNCHANGED <<states, goPc, offers>>
    BY <1>4, <2>2, <2>3 DEF Register, TypeOK, states, environment, replies
  <2>4. CASE /\ r \in Runs
             /\ offerOf' = Append(offerOf, o)
             /\ expiresAt' = [expiresAt EXCEPT ![r] = handler[c].expiresAt]
             /\ goPc' = [goPc EXCEPT ![r] = "start"]
             /\ offers' = [offers EXCEPT ![o] = r]
    <3>1. offerOf' \in Seq(Offers) /\ Len(offerOf') = r /\ r <= MaxRuns
      BY <2>1, <2>4 DEF TypeOK, Runs
    <3>2. offers' \in [Offers -> 0 .. r]
      <4>1. 0 .. Len(offerOf) \subseteq 0 .. r /\ r \in 0 .. r
        BY RunTypes
      <4>2. offers \in [Offers -> 0 .. r]
        BY <4>1 DEF TypeOK
      <4>q. QED BY <2>4, <4>1, <4>2, Zenon
    <3>3. expiresAt' \in [Runs -> Nat]
      BY <2>1, <2>4 DEF TypeOK
    <3>4. goPc' \in [Runs -> {"none", "start", "select", "record", "delete", "done"}]
      BY <2>4 DEF TypeOK
    <3>q. QED BY <1>4, <2>2, <3>1, <3>2, <3>3, <3>4
          DEF Register, TypeOK, environment, replies
  <2>q. QED BY <1>4, <2>3, <2>4 DEF Register
<1>5. ASSUME NEW c \in Clients, CheckPending(c) PROVE TypeOK'
  BY <1>5, HandlerTypes, NoteType DEF CheckPending
<1>6. ASSUME NEW c \in Clients, Send(c) PROVE TypeOK'
  <2>1. handler[c].run \in Runs /\ handler[c].signal \in Signals /\ Idle \in Handlers
    BY <1>6, HandlerTypes DEF Send
  <2>2. handler' \in [Clients -> Handlers]
    BY <1>6, <2>1 DEF Send, Becomes, TypeOK
  <2>3. channel' \in [Runs -> SUBSET Signals]
    BY <1>6, <2>1 DEF Send, TypeOK
  <2>4. told' \in [Runs -> SUBSET Signals]
    BY <1>6, <2>1 DEF Send, TypeOK
  <2>5. inTime' \subseteq Runs
    BY <1>6, <2>1 DEF Send, TypeOK
  <2>q. QED BY <1>6, <2>2, <2>3, <2>4, <2>5
        DEF Send, TypeOK, states, goroutines, registry, environment
<1>7. ASSUME NEW c \in Clients, QueryResolved(c) PROVE TypeOK'
  BY <1>7, HandlerTypes, NoteType DEF QueryResolved
<1>8. ASSUME NEW r \in Runs, Start(r) PROVE TypeOK'
  <2>1. CASE Resolve(r, "EXPIRED")
    BY <1>8, <2>1, ResolveType DEF Start, TypeOK, Outcomes
  <2>2. CASE goPc' = [goPc EXCEPT ![r] = "select"]
             /\ UNCHANGED <<states, outcome, outcomeAt, registry, handler,
                            environment, replies>>
    BY <1>8, <2>2 DEF Start, TypeOK, states, registry, environment, replies
  <2>q. QED BY <1>8, <2>1, <2>2 DEF Start
<1>9. ASSUME NEW r \in Runs, Expire(r) PROVE TypeOK'
  BY <1>9, ResolveType DEF Expire, TypeOK, Outcomes
<1>10. ASSUME NEW r \in Runs, StopOnShutdown(r) PROVE TypeOK'
  BY <1>10, ResolveType DEF StopOnShutdown, TypeOK, Outcomes
<1>11. ASSUME NEW r \in Runs, NEW signal \in Signals, Receive(r, signal) PROVE TypeOK'
  <2>1. OutcomeOf(signal) \in Outcomes
    BY DEF OutcomeOf, Outcomes, Signals
  <2>2. channel' \in [Runs -> SUBSET Signals]
    BY <1>11 DEF Receive, TypeOK
  <2>q. QED BY <1>11, <2>1, <2>2, ResolveType DEF Receive
<1>12. ASSUME NEW r \in Runs, Record(r) PROVE TypeOK'
  <2>1. outcome[r] \in Outcomes
    BY <1>12 DEF Record, TypeOK, PlaceInv, Ended
  <2>q. QED BY <1>12, <2>1 DEF Record, TypeOK, states, environment, replies
<1>13. ASSUME NEW r \in Runs, Delete(r) PROVE TypeOK'
  <2>1. offers' \in [Offers -> 0 .. Len(offerOf)]
    <3>1. NoRun \in 0 .. Len(offerOf)
      BY RunTypes DEF NoRun
    <3>q. QED BY <1>13, <3>1, Zenon DEF Delete, TypeOK
  <2>q. QED BY <1>13, <2>1 DEF Delete, TypeOK, states, environment, replies
<1>14. ASSUME NEW o \in Offers, EvictStaleResolved(o) PROVE TypeOK'
  BY <1>14 DEF EvictStaleResolved, TypeOK, states, goroutines, environment, replies
<1>15. ASSUME NEW o \in Offers, CancelInFlight(o) PROVE TypeOK'
  <2>1. channel' \in [Runs -> SUBSET Signals]
    BY <1>15 DEF CancelInFlight, TypeOK, Signals
  <2>q. QED BY <1>15, <2>1
        DEF CancelInFlight, TypeOK, states, goroutines, registry, environment, replies
<1>16. CASE Kill \/ Refresh \/ RefreshFails \/ Shutdown \/ GracefulStop \/ Exit
  BY <1>16 DEF Kill, Refresh, RefreshFails, Shutdown, GracefulStop, Exit,
     TypeOK, states, goroutines, registry, replies
<1>17. CASE Tick
  <2>1. clock' \in 0 .. MaxTime
    BY <1>17, ConstantTypes DEF Tick, TypeOK
  <2>q. QED BY <1>17, <2>1 DEF Tick, TypeOK, states, goroutines, registry, replies
<1>18. CASE UNCHANGED vars
  BY <1>18 DEF vars, TypeOK, states, goroutines, registry, environment, replies
<1>q. QED BY <1>1, <1>2, <1>3, <1>4, <1>5, <1>6, <1>7, <1>8, <1>9, <1>10, <1>11, <1>12,
             <1>13, <1>14, <1>15, <1>16, <1>17, <1>18 DEF Next, Handle, Goroutine

-----------------------------------------------------------------------------
(* The inductive invariant, step by step. *)

LEMMA InvInit ==
    ASSUME Init
    PROVE  IInv
<1> USE DEF Init
<1>1. InFlight = {}
  BY DEF InFlight
<1>2. LimitInv
  BY <1>1, FS_EmptySet, ConstantTypes DEF LimitInv
<1>3. PlaceInv
  BY DEF PlaceInv, Ended
<1>4. RegistryInv
  BY <1>1 DEF RegistryInv, Live
<1>5. AnswerInv /\ SignalInv /\ OutcomeHasCause
  BY DEF AnswerInv, SignalInv, OutcomeHasCause
<1>6. QueryStillAnswers
  BY DEF QueryStillAnswers, Idle
<1>q. QED BY <1>2, <1>3, <1>4, <1>5, <1>6 DEF IInv

\* An offer that is known and not in flight has a completed entry.
LEMMA KnownHasEntry ==
    ASSUME TypeOK, IInv, NEW r \in DOMAIN offerOf, offers[offerOf[r]] = NoRun
    PROVE  resolved[offerOf[r]] # "NONE"
<1>1. r \in Runs /\ r # NoRun
  BY RunTypes
<1>2. ~ Live(r) /\ goPc[r] # "none"
  BY <1>1 DEF IInv, RegistryInv, PlaceInv
<1>3. goPc[r] = "done"
  BY <1>1, <1>2 DEF Live, TypeOK
<1>q. QED BY <1>1, <1>3 DEF IInv, AnswerInv

\* Handlers that only take note of something.
LEMMA NoteStep ==
    ASSUME TypeOK, IInv, NEW c \in Clients, NEW h, Becomes(c, h),
           UNCHANGED <<states, channel, goroutines, registry, environment, replies>>,
           h.step = "resolved" /\ h.known => resolved[h.offer] # "NONE"
    PROVE  IInv'
<1>1. /\ handler'[c] = h
      /\ \A d \in Clients : d # c => handler'[d] = handler[d]
  BY DEF Becomes, TypeOK
<1>2. QueryStillAnswers'
  BY <1>1 DEF IInv, QueryStillAnswers, registry
<1>q. QED BY <1>2 DEF IInv, PlaceInv, RegistryInv, LimitInv, AnswerInv, SignalInv,
          OutcomeHasCause, InFlight, Live, states, goroutines, registry, environment,
          replies

\* Steps of the server and of time.
LEMMA WorldStep ==
    ASSUME TypeOK, IInv,
           UNCHANGED <<states, channel, goroutines, registry, handler, replies>>,
           clock' \in Nat, clock' >= clock, server # "up" => server' # "up"
    PROVE  IInv'
<1>1. OutcomeHasCause'
  <2>1. clock \in Nat /\ \A r \in Runs : expiresAt[r] \in Nat
    BY ConstantTypes DEF TypeOK
  <2>q. QED BY <2>1 DEF IInv, OutcomeHasCause, states, goroutines, replies
<1>2. SignalInv'
  BY DEF IInv, SignalInv, replies
<1>q. QED BY <1>1, <1>2 DEF IInv, PlaceInv, RegistryInv, LimitInv, AnswerInv,
          QueryStillAnswers, InFlight, Live, states, goroutines, registry

\* The new offerState is the last one; its offer was not in flight.
LEMMA RegisterStep ==
    ASSUME TypeOK, TypeOK', IInv, NEW c \in Clients, Register(c)
    PROVE  IInv'
<1> DEFINE o == handler[c].offer
<1> DEFINE r == Len(offerOf) + 1
<1>1. CASE UNCHANGED <<states, goPc, offers>>
  <2>1. Becomes(c, Idle)
        /\ UNCHANGED <<states, channel, goroutines, registry, environment, replies>>
    BY <1>1 DEF Register, goroutines, registry
  <2>q. QED BY <2>1, NoteStep DEF Idle
<1>2. CASE /\ MayRegister(o)
           /\ r \in Runs
           /\ offerOf' = Append(offerOf, o)
           /\ expiresAt' = [expiresAt EXCEPT ![r] = handler[c].expiresAt]
           /\ goPc' = [goPc EXCEPT ![r] = "start"]
           /\ offers' = [offers EXCEPT ![o] = r]
  <2>0. o \in Offers
    BY HandlerTypes DEF Register
  <2>1. /\ DOMAIN offerOf' = DOMAIN offerOf \cup {r} /\ r \notin DOMAIN offerOf
        /\ offerOf'[r] = o
        /\ \A q \in DOMAIN offerOf : offerOf'[q] = offerOf[q]
        /\ r # NoRun
    <3>1. DOMAIN offerOf = 1 .. Len(offerOf) /\ Len(offerOf) \in Nat /\ offerOf \in Seq(Offers)
      BY RunTypes DEF TypeOK
    <3>2. /\ DOMAIN offerOf' = 1 .. r /\ offerOf'[r] = o
          /\ \A q \in 1 .. Len(offerOf) : offerOf'[q] = offerOf[q]
      BY <1>2, <2>0, <3>1
    <3>3. 1 .. r = 1 .. Len(offerOf) \cup {r} /\ r \notin 1 .. Len(offerOf) /\ r # NoRun
      BY <3>1 DEF NoRun
    <3>q. QED BY <3>1, <3>2, <3>3
  <2>2. /\ goPc'[r] = "start" /\ \A q \in Runs : q # r => goPc'[q] = goPc[q]
        /\ \A q \in Runs : q # r => expiresAt'[q] = expiresAt[q]
        /\ offers'[o] = r /\ \A p \in Offers : p # o => offers'[p] = offers[p]
    BY <1>2, <2>0 DEF TypeOK
  <2>3. UNCHANGED <<channel, outcome, outcomeAt, resolved, resolvedAt, shm, killed,
                    server, clock, told, inTime>>
    BY DEF Register, environment, replies
  <2>4. offers[o] = NoRun /\ o \notin InFlight /\ InFlight' = InFlight \cup {o}
    BY <1>2, <2>0, <2>1, <2>2 DEF InFlight, MayRegister, Admits
  <2>5. goPc[r] = "none" /\ outcome[r] = "PENDING"
    BY <1>2, <2>1 DEF IInv, PlaceInv, Ended
  <2>6. PlaceInv'
    BY <1>2, <2>1, <2>2, <2>3, <2>5 DEF IInv, PlaceInv, Ended
  <2>7. RegistryInv'
    <3>1. \A p \in InFlight :
              /\ offers'[p] = offers[p] /\ offers[p] # r
              /\ goPc'[offers'[p]] \in Alive /\ offerOf'[offers'[p]] = p
      BY <2>1, <2>2, <2>4, RunTypes DEF IInv, RegistryInv, Live, Alive
    <3>2. goPc'[offers'[o]] \in Alive /\ offerOf'[offers'[o]] = o
      BY <2>1, <2>2 DEF Alive
    <3>3. \A q \in Runs : Live(q)' => offers'[offerOf'[q]] = q
      <4>1. ASSUME NEW q \in Runs, Live(q)', q # r
            PROVE  offers'[offerOf'[q]] = q
        <5>1. Live(q) /\ q \in DOMAIN offerOf
          BY <2>2, <4>1 DEF Live, IInv, PlaceInv
        <5>2. offerOf[q] \in Offers /\ offers[offerOf[q]] = q /\ q # NoRun
          BY <5>1, RunTypes DEF IInv, RegistryInv
        <5>q. QED BY <2>1, <2>2, <2>4, <5>1, <5>2
      <4>q. QED BY <2>1, <2>2, <4>1
    <3>4. \A p \in InFlight' : goPc'[offers'[p]] \in Alive /\ offerOf'[offers'[p]] = p
      BY <2>4, <3>1, <3>2
    <3>q. QED BY <3>3, <3>4 DEF RegistryInv, Live, Alive, Runs
  <2>8. LimitInv'
    <3>1. Cardinality(InFlight) < MaxConcurrent
      BY <1>2 DEF MayRegister, HasRoom
    <3>2. IsFiniteSet(InFlight) /\ Cardinality(InFlight) \in Nat
      BY FS_CardinalityType DEF IInv, LimitInv
    <3>3. /\ IsFiniteSet(InFlight \cup {o})
          /\ Cardinality(InFlight \cup {o}) = Cardinality(InFlight) + 1
      BY <2>4, <3>2, FS_AddElement
    <3>4. Cardinality(InFlight \cup {o}) <= MaxConcurrent
      BY <3>1, <3>2, <3>3, ConstantTypes
    <3>q. QED BY <2>4, <3>3, <3>4 DEF LimitInv
  <2>9. AnswerInv'
    BY <2>1, <2>2, <2>3 DEF IInv, AnswerInv, PlaceInv
  <2>10. QueryStillAnswers'
    <3>1. \A d \in Clients : handler'[d] = handler[d] \/ handler'[d] = Idle
      BY DEF Register, Becomes, TypeOK
    <3>q. QED BY <2>3, <3>1 DEF IInv, QueryStillAnswers, Idle
  <2>11. SignalInv'
    BY <2>3 DEF IInv, SignalInv
  <2>12. OutcomeHasCause'
    BY <1>2, <2>2, <2>3, <2>5 DEF IInv, OutcomeHasCause
  <2>q. QED BY <2>6, <2>7, <2>8, <2>9, <2>10, <2>11, <2>12 DEF IInv
<1>q. QED BY <1>1, <1>2 DEF Register

\* The caller of a signal that is new to the channel is told so.
LEMMA SendStep ==
    ASSUME TypeOK, IInv, NEW c \in Clients, Send(c)
    PROVE  IInv'
<1> DEFINE r == handler[c].run
<1> DEFINE k == handler[c].signal
<1>0. r \in Runs /\ k \in Signals
  BY HandlerTypes DEF Send
<1>1. /\ channel'[r] = channel[r] \cup {k}
      /\ told[r] \subseteq told'[r]
      /\ k \notin channel[r] => k \in told'[r]
      /\ \A q \in Runs : q # r => channel'[q] = channel[q] /\ told'[q] = told[q]
      /\ UNCHANGED <<states, goroutines, registry, environment>>
  BY <1>0 DEF Send, TypeOK
<1>2. \A q \in Runs : told[q] \subseteq told'[q]
  BY <1>1
<1>3. SignalInv'
  BY <1>0, <1>1, <1>2 DEF IInv, SignalInv, environment
<1>4. OutcomeHasCause'
  BY <1>1, <1>2 DEF IInv, OutcomeHasCause, states, goroutines, environment
<1>5. QueryStillAnswers'
  <2>1. \A d \in Clients : handler'[d] = handler[d] \/ handler'[d] = Idle
    BY DEF Send, Becomes, TypeOK
  <2>q. QED BY <1>1, <2>1 DEF IInv, QueryStillAnswers, Idle, registry
<1>q. QED BY <1>1, <1>3, <1>4, <1>5 DEF IInv, PlaceInv, RegistryInv, LimitInv, AnswerInv,
          InFlight, Live, states, goroutines, registry

\* What justifies an outcome.
Cause(r, result) ==
    CASE result = "ACCEPTED" -> "accept" \in told[r]
      [] result = "REJECTED" -> "reject" \in told[r]
      [] result = "EXPIRED" -> clock >= expiresAt[r]
      [] result = "CANCELLED" -> "cancel" \in told[r] \/ server # "up"

LEMMA ResolveStep ==
    ASSUME TypeOK, IInv, NEW r \in Runs, NEW result \in Outcomes, Resolve(r, result),
           goPc[r] \in {"start", "select"}, Cause(r, result),
           \A q \in Runs : channel'[q] \subseteq channel[q]
    PROVE  IInv'
<1>1. /\ outcome'[r] = result /\ goPc'[r] = "record"
      /\ \A q \in Runs : q # r => outcome'[q] = outcome[q] /\ goPc'[q] = goPc[q]
      /\ UNCHANGED <<offerOf, expiresAt, offers, resolved, resolvedAt, handler,
                     shm, killed, server, clock, told, inTime>>
  BY DEF Resolve, TypeOK, states, registry, environment, replies
<1>2. PlaceInv'
  BY <1>1 DEF IInv, PlaceInv, Ended, Outcomes
<1>3. RegistryInv' /\ LimitInv'
  <2>1. \A q \in Runs : Live(q)' <=> Live(q)
    BY <1>1 DEF Live
  <2>2. InFlight' = InFlight
    BY <1>1 DEF InFlight
  <2>3. \A o \in InFlight : offers[o] \in Runs
    BY RunTypes
  <2>q. QED BY <1>1, <2>1, <2>2, <2>3 DEF IInv, RegistryInv, LimitInv
<1>4. AnswerInv' /\ QueryStillAnswers'
  BY <1>1 DEF IInv, AnswerInv, QueryStillAnswers
<1>5. SignalInv'
  BY <1>1 DEF IInv, SignalInv
<1>6. OutcomeHasCause'
  BY <1>1 DEF IInv, OutcomeHasCause, Cause, Outcomes
<1>q. QED BY <1>2, <1>3, <1>4, <1>5, <1>6 DEF IInv

LEMMA StartStep ==
    ASSUME TypeOK, IInv, NEW r \in Runs, Start(r)
    PROVE  IInv'
<1>1. CASE clock >= expiresAt[r] /\ Resolve(r, "EXPIRED")
  BY <1>1, ResolveStep DEF Start, Cause, Outcomes
<1>2. CASE goPc' = [goPc EXCEPT ![r] = "select"]
           /\ UNCHANGED <<states, outcome, outcomeAt, registry, handler,
                          environment, replies>>
  <2>1. /\ goPc[r] = "start" /\ goPc'[r] = "select"
        /\ \A q \in Runs : q # r => goPc'[q] = goPc[q]
        /\ UNCHANGED <<offerOf, expiresAt, offers, resolved, resolvedAt, handler, outcome,
                       shm, killed, server, clock, told, inTime, channel>>
    BY <1>2 DEF Start, TypeOK, states, registry, environment, replies
  <2>2. PlaceInv'
    BY <2>1 DEF IInv, PlaceInv, Ended
  <2>3. RegistryInv' /\ LimitInv'
    <3>1. \A q \in Runs : Live(q)' <=> Live(q)
      BY <2>1 DEF Live
    <3>2. InFlight' = InFlight
      BY <2>1 DEF InFlight
    <3>3. \A o \in InFlight : offers[o] \in Runs
      BY RunTypes
    <3>q. QED BY <2>1, <3>1, <3>2, <3>3 DEF IInv, RegistryInv, LimitInv
  <2>4. AnswerInv' /\ QueryStillAnswers' /\ SignalInv' /\ OutcomeHasCause'
    BY <2>1 DEF IInv, AnswerInv, QueryStillAnswers, SignalInv, OutcomeHasCause
  <2>q. QED BY <2>2, <2>3, <2>4 DEF IInv
<1>q. QED BY <1>1, <1>2 DEF Start

LEMMA ReceiveStep ==
    ASSUME TypeOK, IInv, NEW r \in Runs, NEW signal \in Signals, Receive(r, signal)
    PROVE  IInv'
<1>1. /\ goPc[r] = "select" /\ signal \in channel[r]
      /\ \A q \in Runs : channel'[q] \subseteq channel[q]
      /\ Resolve(r, OutcomeOf(signal))
  BY DEF Receive, TypeOK
<1>2. signal \in told[r] \/ (signal = "cancel" /\ server # "up")
  BY <1>1 DEF IInv, SignalInv
<1>3. OutcomeOf(signal) \in Outcomes /\ Cause(r, OutcomeOf(signal))
  BY <1>2 DEF OutcomeOf, Cause, Outcomes, Signals
<1>q. QED BY <1>1, <1>3, ResolveStep

\* The completed entry is written while the offer is still in flight.
LEMMA RecordStep ==
    ASSUME TypeOK, IInv, NEW r \in Runs, Record(r)
    PROVE  IInv'
<1>0. outcome[r] # "PENDING" /\ r \in DOMAIN offerOf
  BY DEF Record, IInv, PlaceInv, Ended
<1>1. /\ goPc[r] = "record" /\ goPc'[r] = "delete"
      /\ \A q \in Runs : q # r => goPc'[q] = goPc[q]
      /\ resolved'[offerOf[r]] = outcome[r] /\ outcome[r] \in Outcomes
      /\ \A o \in Offers : o # offerOf[r] => resolved'[o] = resolved[o]
      /\ UNCHANGED <<offerOf, expiresAt, offers, handler, outcome,
                     shm, killed, server, clock, told, inTime, channel>>
  BY <1>0, RunTypes DEF Record, TypeOK, states, environment, replies
<1>2. \A o \in Offers : resolved[o] # "NONE" => resolved'[o] # "NONE"
  BY <1>1 DEF Outcomes
<1>3. PlaceInv'
  BY <1>1 DEF IInv, PlaceInv, Ended
<1>4. RegistryInv' /\ LimitInv'
  <2>1. \A q \in Runs : Live(q)' <=> Live(q)
    BY <1>1 DEF Live
  <2>2. InFlight' = InFlight
    BY <1>1 DEF InFlight
  <2>3. \A o \in InFlight : offers[o] \in Runs
    BY RunTypes
  <2>q. QED BY <1>1, <2>1, <2>2, <2>3 DEF IInv, RegistryInv, LimitInv
<1>5. AnswerInv'
  <2>1. \A q \in Runs : goPc[q] # "none" => offerOf[q] \in Offers
    BY RunTypes DEF IInv, PlaceInv
  <2>q. QED BY <1>1, <1>2, <2>1 DEF IInv, AnswerInv, Outcomes
<1>6. QueryStillAnswers'
  <2>1. \A c \in Clients : handler[c].step = "resolved" => handler[c].offer \in Offers
    BY HandlerTypes
  <2>q. QED BY <1>1, <1>2, <2>1 DEF IInv, QueryStillAnswers
<1>7. SignalInv' /\ OutcomeHasCause'
  BY <1>1 DEF IInv, SignalInv, OutcomeHasCause
<1>q. QED BY <1>3, <1>4, <1>5, <1>6, <1>7 DEF IInv

\* The offer leaves the registry with its goroutine.
LEMMA DeleteStep ==
    ASSUME TypeOK, IInv, NEW r \in Runs, Delete(r)
    PROVE  IInv'
<1> DEFINE o == offerOf[r]
<1>0. goPc[r] = "delete" /\ r \in DOMAIN offerOf /\ o \in Offers /\ r # NoRun
  BY RunTypes DEF Delete, IInv, PlaceInv
<1>1. /\ goPc'[r] = "done" /\ \A q \in Runs : q # r => goPc'[q] = goPc[q]
      /\ offers'[o] = NoRun /\ \A p \in Offers : p # o => offers'[p] = offers[p]
      /\ UNCHANGED <<offerOf, expiresAt, resolved, resolvedAt, handler, outcome,
                     shm, killed, server, clock, told, inTime, channel>>
  BY <1>0 DEF Delete, TypeOK, states, environment, replies
<1>2. offers[o] = r /\ InFlight' = InFlight \ {o}
  <2>1. offers[o] = r
    BY <1>0 DEF IInv, RegistryInv, Live
  <2>q. QED BY <1>0, <1>1, <2>1 DEF InFlight
<1>3. PlaceInv'
  BY <1>0, <1>1 DEF IInv, PlaceInv, Ended
<1>4. RegistryInv'
  <2>1. \A p \in InFlight \ {o} :
            goPc'[offers'[p]] \in Alive /\ offerOf'[offers'[p]] = p
    <3>1. ASSUME NEW p \in InFlight \ {o}
          PROVE  /\ p \in Offers /\ offers'[p] = offers[p] /\ offers[p] \in Runs
                 /\ offers[p] # r /\ Live(offers[p]) /\ offerOf[offers[p]] = p
      BY <1>0, <1>1, RunTypes DEF IInv, RegistryInv
    <3>q. QED BY <1>1, <3>1 DEF Live, Alive
  <2>2. ASSUME NEW q \in Runs, Live(q)' PROVE offers'[offerOf'[q]] = q
    <3>1. q # r /\ Live(q)
      BY <1>1, <2>2 DEF Live
    <3>2. offers[offerOf[q]] = q /\ offerOf[q] \in Offers
      BY <3>1, RunTypes DEF IInv, RegistryInv, PlaceInv, Live
    <3>q. QED BY <1>1, <1>2, <3>1, <3>2
  <2>q. QED BY <1>2, <2>1, <2>2 DEF RegistryInv, Live, Alive, Runs
<1>5. LimitInv'
  <2>1. IsFiniteSet(InFlight) /\ InFlight \ {o} \in SUBSET InFlight
    BY DEF IInv, LimitInv
  <2>2. /\ IsFiniteSet(InFlight \ {o})
        /\ Cardinality(InFlight \ {o}) <= Cardinality(InFlight)
    BY <2>1, FS_Subset
  <2>3. Cardinality(InFlight) \in Nat /\ Cardinality(InFlight \ {o}) \in Nat
    BY <2>1, <2>2, FS_CardinalityType
  <2>4. Cardinality(InFlight) <= MaxConcurrent
    BY DEF IInv, LimitInv
  <2>5. Cardinality(InFlight \ {o}) <= MaxConcurrent
    BY <2>2, <2>3, <2>4, ConstantTypes
  <2>q. QED BY <1>2, <2>2, <2>5 DEF LimitInv
<1>6. AnswerInv' /\ QueryStillAnswers'
  BY <1>0, <1>1 DEF IInv, AnswerInv, QueryStillAnswers
<1>7. SignalInv' /\ OutcomeHasCause'
  BY <1>1 DEF IInv, SignalInv, OutcomeHasCause
<1>q. QED BY <1>3, <1>4, <1>5, <1>6, <1>7 DEF IInv

\* An evicted entry is still no unknown one.
LEMMA EvictStep ==
    ASSUME TypeOK, IInv, NEW o \in Offers, EvictStaleResolved(o)
    PROVE  IInv'
<1>1. /\ \A p \in Offers : resolved[p] # "NONE" => resolved'[p] # "NONE"
      /\ UNCHANGED <<states, channel, goroutines, offers, handler, environment, replies>>
  BY DEF EvictStaleResolved, TypeOK
<1>2. AnswerInv'
  <2>1. \A q \in Runs : goPc[q] # "none" => offerOf[q] \in Offers
    BY RunTypes DEF IInv, PlaceInv
  <2>q. QED BY <1>1, <2>1 DEF IInv, AnswerInv, states, goroutines
<1>3. QueryStillAnswers'
  <2>1. \A c \in Clients : handler[c].step = "resolved" => handler[c].offer \in Offers
    BY HandlerTypes
  <2>q. QED BY <1>1, <2>1 DEF IInv, QueryStillAnswers
<1>q. QED BY <1>1, <1>2, <1>3 DEF IInv, PlaceInv, RegistryInv, LimitInv, SignalInv,
          OutcomeHasCause, InFlight, Live, states, goroutines, environment, replies

\* Only a stopped server cancels offers nobody asked it to.
LEMMA CancelStep ==
    ASSUME TypeOK, IInv, NEW o \in Offers, CancelInFlight(o)
    PROVE  IInv'
<1>1. /\ server = "stopped"
      /\ \A r \in Runs : channel'[r] \subseteq channel[r] \cup {"cancel"}
      /\ UNCHANGED <<states, goroutines, registry, handler, environment, replies>>
  BY DEF CancelInFlight, TypeOK
<1>2. SignalInv'
  BY <1>1 DEF IInv, SignalInv, environment, replies
<1>q. QED BY <1>1, <1>2 DEF IInv, PlaceInv, RegistryInv, LimitInv, AnswerInv,
          QueryStillAnswers, OutcomeHasCause, InFlight, Live, states, goroutines, registry,
          environment, replies

LEMMA InvStep ==
    ASSUME TypeOK, IInv, [Next]_vars
    PROVE  IInv'
<1>t. TypeOK' /\ clock \in Nat /\ clock' \in Nat
  <2>1. TypeOK'
    BY TypeStep DEF IInv
  <2>q. QED BY <2>1, ConstantTypes DEF TypeOK
<1>1. ASSUME NEW c \in Clients, NEW o \in Offers, TriggerOffer(c, o) PROVE IInv'
  BY <1>1, NoteStep DEF TriggerOffer
<1>2. ASSUME NEW c \in Clients, NEW o \in Offers, QueryOffer(c, o) PROVE IInv'
  <2> DEFINE known == \E r \in DOMAIN offerOf : offerOf[r] = o
  <2>1. known => resolved[o] # "NONE"
    BY <1>2, KnownHasEntry DEF QueryOffer
  <2>q. QED BY <1>2, <2>1, NoteStep DEF QueryOffer
<1>3. ASSUME NEW c \in Clients, NEW o \in Offers, NEW signal \in Signals,
             Lookup(c, o, signal)
      PROVE  IInv'
  BY <1>3, NoteStep DEF Lookup
<1>4. ASSUME NEW c \in Clients, Register(c) PROVE IInv'
  BY <1>4, <1>t, RegisterStep
<1>5. ASSUME NEW c \in Clients, CheckPending(c) PROVE IInv'
  <2> DEFINE h == IF outcome[handler[c].run] = "PENDING"
                  THEN [handler[c] EXCEPT !.step = "send"] ELSE Idle
  <2>1. h.step # "resolved"
    <3>1. handler[c] \in [step : {"check", "send"}, run : Runs, signal : Signals]
      BY <1>5 DEF CheckPending, TypeOK, Handlers, Idle
    <3>q. QED BY <3>1 DEF Idle
  <2>q. QED BY <1>5, <2>1, NoteStep DEF CheckPending
<1>6. ASSUME NEW c \in Clients, Send(c) PROVE IInv'
  BY <1>6, SendStep
<1>7. ASSUME NEW c \in Clients, QueryResolved(c) PROVE IInv'
  BY <1>7, NoteStep DEF QueryResolved, Idle
<1>8. ASSUME NEW r \in Runs, Start(r) PROVE IInv'
  BY <1>8, StartStep
<1>9. ASSUME NEW r \in Runs, Expire(r) PROVE IInv'
  BY <1>9, ResolveStep DEF Expire, Cause, Outcomes
<1>10. ASSUME NEW r \in Runs, StopOnShutdown(r) PROVE IInv'
  BY <1>10, ResolveStep DEF StopOnShutdown, Cause, Outcomes
<1>11. ASSUME NEW r \in Runs, NEW signal \in Signals, Receive(r, signal) PROVE IInv'
  BY <1>11, ReceiveStep
<1>12. ASSUME NEW r \in Runs, Record(r) PROVE IInv'
  BY <1>12, RecordStep
<1>13. ASSUME NEW r \in Runs, Delete(r) PROVE IInv'
  BY <1>13, DeleteStep
<1>14. ASSUME NEW o \in Offers, EvictStaleResolved(o) PROVE IInv'
  BY <1>14, EvictStep
<1>15. ASSUME NEW o \in Offers, CancelInFlight(o) PROVE IInv'
  BY <1>15, CancelStep
<1>16. CASE Kill \/ Refresh \/ RefreshFails \/ Shutdown \/ GracefulStop \/ Exit
  <2>1. /\ UNCHANGED <<states, channel, goroutines, registry, handler, replies, clock>>
        /\ server # "up" => server' # "up"
    BY <1>16 DEF Kill, Refresh, RefreshFails, Shutdown, GracefulStop, Exit
  <2>2. clock' >= clock
    BY <1>t, <2>1
  <2>q. QED BY <1>t, <2>1, <2>2, WorldStep
<1>17. CASE Tick
  <2>1. clock' >= clock
    BY <1>17, <1>t DEF Tick
  <2>q. QED BY <1>17, <1>t, <2>1, WorldStep DEF Tick
<1>18. CASE UNCHANGED vars
  BY <1>18 DEF vars, IInv, PlaceInv, RegistryInv, LimitInv, AnswerInv, QueryStillAnswers,
     SignalInv, OutcomeHasCause, InFlight, Live, states, goroutines, registry, environment,
     replies
<1>q. QED BY <1>1, <1>2, <1>3, <1>4, <1>5, <1>6, <1>7, <1>8, <1>9, <1>10, <1>11, <1>12,
             <1>13, <1>14, <1>15, <1>16, <1>17, <1>18 DEF Next, Handle, Goroutine

-----------------------------------------------------------------------------
(* The theorems. *)

\* The registry, the goroutines, their channels and the completed entries stay as
\* IInv says, and every variable keeps its type.
THEOREM InvariantHolds == Spec => [](TypeOK /\ IInv)
<1>1. Init => TypeOK /\ IInv
  BY TypeInit, InvInit
<1>2. TypeOK /\ IInv /\ [Next]_vars => (TypeOK /\ IInv)'
  BY TypeStep, InvStep DEF IInv
<1>q. QED BY <1>1, <1>2, PTL DEF Spec

\* Every variable of the router keeps its type.
THEOREM TypeCorrect == Spec => []TypeOK
    BY InvariantHolds, PTL

\* Whatever handlers race: no offer has two goroutines, none is out of reach before
\* its outcome is set, and no more than MaxConcurrent are in flight.
THEOREM RegistryIsExactHolds == Spec => []RegistryIsExact
<1>1. TypeOK /\ IInv => RegistryIsExact
  <2> SUFFICES ASSUME TypeOK, IInv
               PROVE  RegistryIsExact
    OBVIOUS
  <2>1. ASSUME NEW r \in Runs, Live(r)
        PROVE  r \in {offers[o] : o \in Offers}
    <3>1. offerOf[r] \in Offers /\ offers[offerOf[r]] = r
      BY <2>1, RunTypes DEF IInv, PlaceInv, RegistryInv, Live
    <3>q. QED BY <3>1
  <2>2. ASSUME NEW o \in Offers, offers[o] \in Runs
        PROVE  Live(offers[o])
    BY <2>2, RunTypes DEF IInv, RegistryInv, InFlight
  <2>q. QED BY <2>1, <2>2 DEF IInv, LimitInv, RegistryIsExact
<1>q. QED BY <1>1, InvariantHolds, PTL

\* A query that missed the offer in flight finds its outcome, until it is evicted.
THEOREM QueryStillAnswersHolds == Spec => []QueryStillAnswers
    BY InvariantHolds, PTL DEF IInv

\* Every outcome has a cause a caller was told of; silence expires on time.
THEOREM OutcomeHasCauseHolds == Spec => []OutcomeHasCause
    BY InvariantHolds, PTL DEF IInv

\* An outcome is set once: of the branches that race for it one executes.
THEOREM OneTerminalBranchHolds == Spec => OneTerminalBranch
<1> DEFINE Once == \A r \in Runs : outcome[r] # "PENDING" =>
                       outcome'[r] = outcome[r] /\ outcomeAt'[r] = outcomeAt[r]
<1>1. TypeOK /\ IInv /\ [Next]_vars => [Once]_vars
  <2> SUFFICES ASSUME TypeOK, IInv, Next
               PROVE  Once
    OBVIOUS
  <2>1. ASSUME NEW r \in Runs, NEW result, Resolve(r, result),
               goPc[r] \in {"start", "select"}
        PROVE  Once
    BY <2>1 DEF Resolve, TypeOK, IInv, PlaceInv, Ended
  <2>2. CASE UNCHANGED <<outcome, outcomeAt>>
    BY <2>2
  <2>3. ASSUME NEW r \in Runs, Goroutine(r) PROVE Once
    BY <2>1, <2>2, <2>3 DEF Goroutine, Start, Expire, StopOnShutdown, Receive, Record, Delete
  <2>4. ASSUME NEW c \in Clients, Handle(c) PROVE Once
    BY <2>2, <2>4 DEF Handle, Register, CheckPending, Send, QueryResolved, goroutines
  <2>5. ASSUME NEW c \in Clients, NEW o \in Offers,
               \/ TriggerOffer(c, o) \/ QueryOffer(c, o)
               \/ \E signal \in Signals : Lookup(c, o, signal)
        PROVE  Once
    BY <2>2, <2>5 DEF TriggerOffer, QueryOffer, Lookup, goroutines
  <2>6. ASSUME NEW o \in Offers, EvictStaleResolved(o) \/ CancelInFlight(o) PROVE Once
    BY <2>2, <2>6 DEF EvictStaleResolved, CancelInFlight, goroutines
  <2>7. CASE Kill \/ Refresh \/ RefreshFails \/ Shutdown \/ GracefulStop \/ Exit \/ Tick
    BY <2>2, <2>7 DEF Kill, Refresh, RefreshFails, Shutdown, GracefulStop, Exit, Tick,
       goroutines
  <2>q. QED BY <2>3, <2>4, <2>5, <2>6, <2>7 DEF Next
<1>q. QED BY <1>1, InvariantHolds, PTL DEF Spec, OneTerminalBranch

=============================================================================
