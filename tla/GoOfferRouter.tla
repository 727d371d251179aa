---------------------------- MODULE GoOfferRouter ----------------------------
(***************************************************************************)
(* The Go offer router of C7 (c7_execution_agent/go_offer_router): every   *)
(* TriggerOffer starts a goroutine that waits for the first of expiry,     *)
(* acceptance, rejection, cancellation and shutdown, while handlers of     *)
(* other calls look the offer up and write to its channels.  The steps are *)
(* the sections between two lock or channel operations.                    *)
(***************************************************************************)
EXTENDS Naturals, FiniteSets, Sequences

CONSTANTS
    Offers,         \* offer ids
    Clients,        \* concurrent handler goroutines of the gRPC server
    MaxRuns,        \* bound on the number of offers ever registered
    MaxConcurrent,  \* MaxConcurrentOffers
    Expiry,         \* ticks until expires_at
    Ttl,            \* ResolvedTTL, in ticks
    MaxTime,        \* bound on the clock
    Events          \* what may happen to the process: "kill", "shutdown"

ASSUME GoOfferRouterAssumption ==
    /\ MaxRuns \in Nat \ {0}
    /\ MaxConcurrent \in Nat \ {0}
    /\ Expiry \in Nat \ {0}
    /\ Ttl \in Nat
    /\ MaxTime \in Nat
    /\ Events \subseteq {"kill", "shutdown"}

Runs == 1 .. MaxRuns            \* offerState objects, in the order of their making
NoRun == 0                      \* nil
Signals == {"accept", "reject", "cancel"}   \* the three channels
Outcomes == {"ACCEPTED", "REJECTED", "EXPIRED", "CANCELLED"}

VARIABLES
    offerOf,        \* immutable fields of the offerStates made so far
    expiresAt,
    channel,        \* the channels of it that hold a signal; each holds one
    outcome,        \* PENDING until its goroutine sets it
    outcomeAt,
    goPc,           \* where its goroutine stands
    offers,         \* offer id to offerState, in flight
    resolved,       \* offer id to outcome, completed; EVICTED is an absent entry
    resolvedAt,
    handler,        \* what each handler is doing
    shm,            \* the kill flag in shared memory
    killed,         \* the reader's copy of it
    server,         \* progress of Shutdown
    clock,
    told,           \* the signals that were answered accepted=true
    inTime          \* offerStates with such an acceptance before expires_at

states == <<offerOf, expiresAt>>
goroutines == <<outcome, outcomeAt, goPc>>
registry == <<offers, resolved, resolvedAt>>
environment == <<shm, killed, server, clock>>
replies == <<told, inTime>>
vars == <<states, channel, goroutines, registry, handler, environment, replies>>

Idle == [step |-> "idle"]
Handlers ==
    {Idle} \cup
    [step : {"register"}, offer : Offers, expiresAt : 1 .. MaxTime,
     killedSince : BOOLEAN] \cup
    [step : {"check", "send"}, run : Runs, signal : Signals] \cup
    [step : {"resolved"}, offer : Offers, known : BOOLEAN]

TypeOK ==
    /\ offerOf \in Seq(Offers) /\ Len(offerOf) <= MaxRuns
    /\ expiresAt \in [Runs -> Nat]
    /\ channel \in [Runs -> SUBSET Signals]
    /\ outcome \in [Runs -> Outcomes \cup {"PENDING"}]
    /\ outcomeAt \in [Runs -> Nat]
    /\ goPc \in [Runs -> {"none", "start", "select", "record", "delete", "done"}]
    /\ offers \in [Offers -> 0 .. Len(offerOf)]
    /\ resolved \in [Offers -> Outcomes \cup {"NONE", "EVICTED"}]
    /\ resolvedAt \in [Offers -> Nat]
    /\ handler \in [Clients -> Handlers]
    /\ shm \in BOOLEAN /\ killed \in BOOLEAN
    /\ server \in {"up", "closing", "stopped", "exited"}
    /\ clock \in 0 .. MaxTime
    /\ told \in [Runs -> SUBSET Signals]
    /\ inTime \subseteq Runs

Init ==
    /\ offerOf = << >>
    /\ expiresAt = [r \in Runs |-> 0]
    /\ channel = [r \in Runs |-> {}]
    /\ outcome = [r \in Runs |-> "PENDING"]
    /\ outcomeAt = [r \in Runs |-> 0]
    /\ goPc = [r \in Runs |-> "none"]
    /\ offers = [o \in Offers |-> NoRun]
    /\ resolved = [o \in Offers |-> "NONE"]
    /\ resolvedAt = [o \in Offers |-> 0]
    /\ handler = [c \in Clients |-> Idle]
    /\ shm = FALSE /\ killed = FALSE
    /\ server = "up"
    /\ clock = 0
    /\ told = [r \in Runs |-> {}]
    /\ inTime = {}

InFlight == {o \in Offers : offers[o] # NoRun}
Live(r) == goPc[r] \in {"start", "select", "record", "delete"}

-----------------------------------------------------------------------------
(* Handlers.  Calls that end in an error reply before they touch any state    *)
(* are left out; after GracefulStop no call begins.                           *)

Begins(c) == handler[c] = Idle /\ server \in {"up", "closing"}
Becomes(c, h) == handler' = [handler EXCEPT ![c] = h]

\* The kill switch is checked, and that expires_at is not past (the bound leaves
\* the clock room to reach it) ...
TriggerOffer(c, o) ==
    /\ Begins(c)
    /\ ~ killed
    /\ \E t \in clock + 1 .. clock + Expiry :
        /\ t <= MaxTime
        /\ Becomes(c, [step |-> "register", offer |-> o, expiresAt |-> t,
                       killedSince |-> shm])
    /\ UNCHANGED <<states, channel, goroutines, registry, environment, replies>>

Admits(o) == offers[o] = NoRun
HasRoom == Cardinality(InFlight) < MaxConcurrent
\* Variant: a duplicate takes the place of the offer in flight.
MayReplace(o) == HasRoom \/ ~ Admits(o)
\* The limit and the duplicate check, in one section (B4-06).
MayRegister(o) == HasRoom /\ Admits(o)

\* ... and the offer registered and its goroutine started, or refused.
Register(c) ==
    /\ handler[c].step = "register"
    /\ LET o == handler[c].offer
           r == Len(offerOf) + 1
       IN \/ /\ ~ MayRegister(o)
             /\ UNCHANGED <<states, goPc, offers>>
          \/ /\ MayRegister(o)
             /\ r \in Runs
             /\ offerOf' = Append(offerOf, o)
             /\ expiresAt' = [expiresAt EXCEPT ![r] = handler[c].expiresAt]
             /\ goPc' = [goPc EXCEPT ![r] = "start"]
             /\ offers' = [offers EXCEPT ![o] = r]
    /\ Becomes(c, Idle)
    /\ UNCHANGED <<channel, outcome, outcomeAt, resolved, resolvedAt,
                   environment, replies>>

\* lookupOffer; CancelOffer does not look at the outcome.
Lookup(c, o, signal) ==
    /\ Begins(c)
    /\ offers[o] # NoRun
    /\ Becomes(c, [step |-> IF signal = "cancel" THEN "send" ELSE "check",
                   run |-> offers[o], signal |-> signal])
    /\ UNCHANGED <<states, channel, goroutines, registry, environment, replies>>

CheckPending(c) ==
    /\ handler[c].step = "check"
    /\ Becomes(c, IF outcome[handler[c].run] = "PENDING"
                   THEN [handler[c] EXCEPT !.step = "send"] ELSE Idle)
    /\ UNCHANGED <<states, channel, goroutines, registry, environment, replies>>

\* A full channel refuses the signal; a cancel is answered accepted=true anyhow.
Send(c) ==
    /\ handler[c].step = "send"
    /\ LET r == handler[c].run
           k == handler[c].signal
           sent == k \notin channel[r]
       IN /\ channel' = [channel EXCEPT ![r] = @ \cup {k}]
          /\ told' = [told EXCEPT ![r] = IF sent \/ k = "cancel" THEN @ \cup {k} ELSE @]
          /\ inTime' = IF sent /\ k = "accept" /\ clock < expiresAt[r]
                       THEN inTime \cup {r} ELSE inTime
    /\ Becomes(c, Idle)
    /\ UNCHANGED <<states, goroutines, registry, environment>>

\* QueryOffer looks at the offers in flight, and answers from there if it can ...
QueryOffer(c, o) ==
    /\ Begins(c)
    /\ offers[o] = NoRun
    /\ Becomes(c, [step |-> "resolved", offer |-> o,
                   known |-> \E r \in DOMAIN offerOf : offerOf[r] = o])
    /\ UNCHANGED <<states, channel, goroutines, registry, environment, replies>>

\* ... and at the completed ones next.
QueryResolved(c) ==
    /\ handler[c].step = "resolved"
    /\ Becomes(c, Idle)
    /\ UNCHANGED <<states, channel, goroutines, registry, environment, replies>>

-----------------------------------------------------------------------------
(* The goroutine of an offer. *)

\* Variant: the loop without its return.
ResolveAndLoop(r, result) ==
    /\ outcome' = [outcome EXCEPT ![r] = result]
    /\ outcomeAt' = [outcomeAt EXCEPT ![r] = clock]
    /\ UNCHANGED <<goPc, states, registry, handler, environment, replies>>

\* The goroutine sets the outcome and returns.
Resolve(r, result) ==
    /\ outcome' = [outcome EXCEPT ![r] = result]
    /\ outcomeAt' = [outcomeAt EXCEPT ![r] = clock]
    /\ goPc' = [goPc EXCEPT ![r] = "record"]
    /\ UNCHANGED <<states, registry, handler, environment, replies>>

\* The timer is set, unless its time is over.
Start(r) ==
    /\ goPc[r] = "start"
    /\ \/ clock >= expiresAt[r] /\ Resolve(r, "EXPIRED")
       \/ /\ clock < expiresAt[r]
          /\ goPc' = [goPc EXCEPT ![r] = "select"]
          /\ UNCHANGED <<states, outcome, outcomeAt, registry, handler,
                         environment, replies>>
    /\ UNCHANGED channel

\* Variant: a timer that is missed when its instant has passed.
ExpireOnTheDot(r) ==
    /\ goPc[r] = "select"
    /\ clock = expiresAt[r]
    /\ Resolve(r, "EXPIRED")
    /\ UNCHANGED channel

\* select takes any of the cases that are ready.
Expire(r) ==
    /\ goPc[r] = "select"
    /\ clock >= expiresAt[r]
    /\ Resolve(r, "EXPIRED")
    /\ UNCHANGED channel

\* Variant: a rejection is recorded as an acceptance.
AcceptedOf(signal) == IF signal = "cancel" THEN "CANCELLED" ELSE "ACCEPTED"

OutcomeOf(signal) ==
    CASE signal = "accept" -> "ACCEPTED"
      [] signal = "reject" -> "REJECTED"
      [] signal = "cancel" -> "CANCELLED"

Receive(r, signal) ==
    /\ goPc[r] = "select"
    /\ signal \in channel[r]
    /\ channel' = [channel EXCEPT ![r] = @ \ {signal}]
    /\ Resolve(r, OutcomeOf(signal))

StopOnShutdown(r) ==
    /\ goPc[r] = "select"
    /\ server # "up"
    /\ Resolve(r, "CANCELLED")
    /\ UNCHANGED channel

\* Variant: the offer leaves the registry first.
RecordLast(r) ==
    /\ goPc[r] = "record"
    /\ offers' = [offers EXCEPT ![offerOf[r]] = NoRun]
    /\ goPc' = [goPc EXCEPT ![r] = "delete"]
    /\ UNCHANGED <<states, channel, outcome, outcomeAt, resolved, resolvedAt,
                   handler, environment, replies>>

\* The deferred function: the completed entry is written ...
Record(r) ==
    /\ goPc[r] = "record"
    /\ resolved' = [resolved EXCEPT ![offerOf[r]] = outcome[r]]
    /\ resolvedAt' = [resolvedAt EXCEPT ![offerOf[r]] = outcomeAt[r]]
    /\ goPc' = [goPc EXCEPT ![r] = "delete"]
    /\ UNCHANGED <<states, channel, outcome, outcomeAt, offers, handler,
                   environment, replies>>

\* ... before the offer leaves the registry.
Delete(r) ==
    /\ goPc[r] = "delete"
    /\ offers' = [offers EXCEPT ![offerOf[r]] = NoRun]
    /\ goPc' = [goPc EXCEPT ![r] = "done"]
    /\ UNCHANGED <<states, channel, outcome, outcomeAt, resolved, resolvedAt,
                   handler, environment, replies>>

Goroutine(r) ==
    \/ Start(r) \/ Expire(r) \/ StopOnShutdown(r)
    \/ \E signal \in Signals : Receive(r, signal)
    \/ Record(r) \/ Delete(r)

-----------------------------------------------------------------------------
(* The background of the server. *)

EvictStaleResolved(o) ==
    /\ server = "up"
    /\ resolved[o] \in Outcomes
    /\ resolvedAt[o] + Ttl < clock
    /\ resolved' = [resolved EXCEPT ![o] = "EVICTED"]
    /\ UNCHANGED <<states, channel, goroutines, offers, resolvedAt, handler,
                   environment, replies>>

\* The Rust binary raises the flag (external); the reader polls it.
Kill ==
    /\ "kill" \in Events
    /\ ~ shm
    /\ shm' = TRUE
    /\ UNCHANGED <<states, channel, goroutines, registry, handler, killed, server,
                   clock, replies>>

Refresh ==
    /\ killed # shm
    /\ killed' = shm
    /\ UNCHANGED <<states, channel, goroutines, registry, handler, shm, server,
                   clock, replies>>

\* The flag cannot be read.
RefreshFails ==
    /\ "kill" \in Events
    /\ ~ killed
    /\ killed' = TRUE
    /\ UNCHANGED <<states, channel, goroutines, registry, handler, shm, server,
                   clock, replies>>

\* shutdownCh is closed ...
Shutdown ==
    /\ "shutdown" \in Events
    /\ server = "up"
    /\ server' = "closing"
    /\ UNCHANGED <<states, channel, goroutines, registry, handler, shm, killed,
                   clock, replies>>

\* ... GracefulStop waits for the handlers ...
GracefulStop ==
    /\ server = "closing"
    /\ \A c \in Clients : handler[c] = Idle
    /\ server' = "stopped"
    /\ UNCHANGED <<states, channel, goroutines, registry, handler, shm, killed,
                   clock, replies>>

\* ... and the offers still in flight are sent a cancel, while main, whose Serve
\* has returned, ends the process.
CancelInFlight(o) ==
    /\ server = "stopped"
    /\ offers[o] # NoRun
    /\ channel' = [channel EXCEPT ![offers[o]] = @ \cup {"cancel"}]
    /\ UNCHANGED <<states, goroutines, registry, handler, environment, replies>>

Exit ==
    /\ server = "stopped"
    /\ server' = "exited"
    /\ UNCHANGED <<states, channel, goroutines, registry, handler, shm, killed,
                   clock, replies>>

Tick ==
    /\ clock < MaxTime
    /\ clock' = clock + 1
    /\ UNCHANGED <<states, channel, goroutines, registry, handler, shm, killed,
                   server, replies>>

Handle(c) == Register(c) \/ CheckPending(c) \/ Send(c) \/ QueryResolved(c)

Next ==
    /\ server # "exited"
    /\ \/ \E c \in Clients :
            \/ \E o \in Offers :
                \/ TriggerOffer(c, o) \/ QueryOffer(c, o)
                \/ \E signal \in Signals : Lookup(c, o, signal)
            \/ Handle(c)
       \/ \E r \in Runs : Goroutine(r)
       \/ \E o \in Offers : EvictStaleResolved(o) \/ CancelInFlight(o)
       \/ Kill \/ Refresh \/ RefreshFails
       \/ Shutdown \/ GracefulStop \/ Exit \/ Tick

Spec == Init /\ [][Next]_vars

\* Go's scheduler runs every goroutine that is ready; nobody has to answer an
\* offer, and the process need not be stopped.
Fairness ==
    /\ WF_vars(server # "exited" /\ Tick)
    /\ \A r \in Runs : WF_vars(server # "exited" /\ Goroutine(r))

FairSpec == Spec /\ Fairness

-----------------------------------------------------------------------------
(* Properties. *)

\* The deferred function of runOfferGoroutine writes the completed entry first "so
\* QueryOffer can still answer after exit": a query that missed the offer in
\* flight finds the outcome, until it is evicted.
QueryStillAnswers ==
    \A c \in Clients :
        handler[c].step = "resolved" /\ handler[c].known
            => resolved[handler[c].offer] # "NONE"

\* The registry and the goroutines agree: no offer has two, none is out of the
\* reach of accept, reject and cancel before its outcome is set, and the limit
\* holds whatever handlers race (B4-06).
RegistryIsExact ==
    /\ \A r \in Runs : Live(r) <=> r \in {offers[o] : o \in Offers}
    /\ Cardinality(InFlight) <= MaxConcurrent

\* An outcome has a cause that a caller was told of, and silence is not an expiry
\* before its time.
OutcomeHasCause ==
    \A r \in Runs :
        /\ outcome[r] = "ACCEPTED" => "accept" \in told[r]
        /\ outcome[r] = "REJECTED" => "reject" \in told[r]
        /\ outcome[r] = "EXPIRED" => clock >= expiresAt[r]
        /\ outcome[r] = "CANCELLED" => "cancel" \in told[r] \/ server # "up"

\* runOfferGoroutine: "Exactly one terminal branch executes".
OneTerminalBranch ==
    [][\A r \in Runs : outcome[r] # "PENDING" => outcome'[r] = outcome[r]
                                              /\ outcomeAt'[r] = outcomeAt[r]]_vars

\* "no leaked goroutines": each ends by its expiry, whoever calls or does not.
GoroutineEnds ==
    \A r \in Runs : Live(r) ~> goPc[r] = "done" \/ server = "exited"

(* What the documentation says and the code does not keep. *)

\* server_test.go:12: "Expiry: goroutine fires at ExpiresAt; accept before expiry
\* wins".
AcceptBeforeExpiryWins ==
    \A r \in inTime :
        outcome[r] = "EXPIRED" => told[r] \cap {"reject", "cancel"} # {}

\* server.go:136: "Resolution channels - written at most once each".
ChannelWrittenOnce ==
    [][\A r \in Runs : \A k \in channel'[r] \ channel[r] : k \notin told[r]]_vars

\* The migration document, section 3: "Exactly one terminal transition per offer
\* (no double-fire)".
OneOutcomePerOffer ==
    \A r, q \in DOMAIN offerOf :
        offerOf[r] = offerOf[q] /\ outcome[r] # "PENDING" /\ outcome[q] # "PENDING"
            => r = q

\* The migration document, section 5: with the kill flag set TriggerOffer spawns
\* no goroutine.
KillFlagIsHonoured ==
    \A c \in Clients :
        handler[c].step = "register" => ~ handler[c].killedSince

\* server.go:276: Shutdown "Waits up to cfg.ShutdownTimeout for all goroutines to
\* exit".
ShutdownWaits == server = "exited" => \A r \in Runs : ~ Live(r)
=============================================================================
