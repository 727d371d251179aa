# LIP in TLA+

LIP is a liquidity intermediation platform for cross-border payments.
It reads failed payments from Kafka, decides within one call whether a bridge loan may be offered, delivers the offer to the treasury desk of the originating bank, and repays the loan when the payment settles or the loan matures.
The money moves at a few places only: where an offer is accepted, where an accepted offer becomes a loan, where a loan is repaid and where its royalty is booked.
At each of these places several pods, threads or goroutines race, and the code relies on Redis, on locks or on channels to let one of them win.
This directory models those places and what guards them (velocity caps, kill switches, budgets), model-checks them on small instances, and proves the safety properties of all of the ten components it models for every value of their constants.

All paths below are relative to the repository's `src/` directory; the platform's own code is in `lip/`.

## 1. The system

### 1.1 Components

| Component | Code | State | Operations | Module |
|---|---|---|---|---|
| Pipeline | `lip/pipeline.py`, `pipeline_result.py` | none of its own; one `PipelineResult` per call | `process`, `finalize_accepted_offer` | `Pipeline` |
| UETR tracker | `lip/common/uetr_tracker.py` | a key per UETR in Redis (45 days), `_processed` and `_tuple_index` in memory | `is_retry`, `record` | `Pipeline` |
| C6 velocity | `lip/c6_aml_velocity/velocity.py` | a rolling window per entity, in Redis (Lua) or in memory | check-and-record, record | `Pipeline`, `TenantVelocity` |
| C6 gate, tenants | `aml_checker.py`, `tenant_velocity.py` | a checker per tenant, a shared window, the structuring register | `check` | `TenantVelocity` |
| C7 agent | `lip/c7_execution_agent/agent.py` | none; a chain of gates | `process_payment` | `Pipeline` |
| C7 kill switch | `lip/c7_execution_agent/kill_switch.py` | the flag, the KMS state | `activate`, `deactivate`, `check_kms`, `should_halt_new_offers` | `Pipeline` |
| C7 offer delivery | `lip/c7_execution_agent/offer_delivery.py` | seven kinds of Redis keys per offer, the pending set | `deliver`, `accept`, `reject`, `expire_stale_offers` | `OfferDelivery` |
| C7 Go router | `lip/c7_execution_agent/go_offer_router/` | two registries, one goroutine per offer, its channels | `TriggerOffer`, `AcceptOffer`, `RejectOffer`, `CancelOffer`, `QueryOffer`, eviction, shutdown | `GoOfferRouter` |
| C7 human override | `human_override.py`, `override_sweeper.py` | pending requests, responses, stored contexts | request, submit, resolve expired, re-enter | `HumanOverride` |
| C3 repayment | `lip/c3_repayment_engine/repayment_loop.py` | active loans, monitored settlements, claims in Redis or memory | register, signal, check maturities, repay | `Repayment` |
| C5 worker | `lip/c5_streaming/kafka_worker.py` | position, producer queue, commits in flight | poll, process, produce with retries, dead letter, commit, stop | `KafkaWorker` |
| C5 Go consumer | `lip/c5_streaming/go_consumer/` | a worker pool, stored offsets | consume, normalise, store | not modelled |
| Rust kill switch | `lip/c7_execution_agent/rust_kill_switch/`, Go's `kill_switch.go` | a flag per process, a segment in shared memory | activate, reset, signals, poll | `KillSwitch` |
| C3 settlement and royalties | `settlement_bridge.py`, `royalty_settlement.py`, `royalty_batch.py`, `nav_emitter.py`, `revenue_metering.py` | permits in use, royalties in memory and in Redis, NAV history, last month, reports | callback, monthly batch, manual generation, snapshot | `Settlement` |
| Regulatory API | `api/regulatory_router.py`, `rate_limiter.py`, `query_metering.py` | a token bucket, counters per month and regulator | request, answer, meter | `RegulatoryApi` |
| State machines | `lip/common/state_machines.py`, `lip/c3/rust_state_machine/` | a state per payment or loan | transitions | not modelled |
| Circuit breaker | `lip/common/circuit_breaker.py` | state, counts, probes | call | not modelled |
| Salt rotation | `salt_rotation.py` | two salts in Redis | rotation | not modelled |
| C8 licence | `lip/c8_license_manager/` | token | validate | not modelled |
| C1, C2, C4, C9 | models | weights | inference | not modelled: their answers are free choices |
| P5, P10, P12 | cascade, statistics, federated learning | data | numerical computation | not modelled |
| API, scripts, data generation | `lip/api/` and others | none | routing and wiring | not modelled |

`PROJECT.json` lists all of them with the reason for what is left out.

### 1.2 How they interact

A payment event reaches `LIPPipeline.process` through the HTTP gateway or the C5 worker.
`process` first asks the UETR tracker whether the payment is a retry, then C1, then C4 and C6, then C2, and then C7.
C7 asks its gates in order: the kill switch and the KMS, the licence's rate, the originator's enrolment, compliance holds, human review, the economics.
If all agree it delivers the offer and writes the decision log.
`process` records the UETR last, whatever the answer was.

The treasury accepts or rejects through the offer delivery service, or the offer expires in a sweep.
An acceptance runs a callback, after the pod's lock is released, that ends in `finalize_accepted_offer`: a second entry in the velocity window, and the loan's registration in C3.
C3 repays a loan on a settlement signal or at maturity; it first claims the UETR in Redis with `SET NX EX`.
A repayment's callback is the settlement bridge: it books the royalty, meters the transaction and writes the NAV history, which the monthly batch and the NAV emitter read from threads of their own.
The Go router is an alternative to the Python delivery service for a share of the traffic, chosen by a hash of the UETR; it polls the segment that the Rust kill switch writes.
Regulators ask the regulatory API, whose limiter and meter stand beside all of this.

Three facts about the wiring matter for what follows.

- `api/app.py:90` gives `KillSwitch` no Redis client, so the switch is one replica's memory. `Pipeline` models it so.
- The pipeline's C3 is the `SettlementMonitor`, keyed by UETR; a loan accepted through it is not in `RepaymentLoop._active_loans`, which maturity checks, portfolio and NAV read. `Repayment` models the loop as its own API (`c3_repayment_engine/api.py`) starts it, where `register_loan` fills both.
- No production code in the repository calls `expire_stale_offers` or starts the override sweeper. Their docstrings ask the deployment for it, and the liveness properties here assume that the deployment does.

### 1.3 What is hard

- Offers: accept, reject, the sweep and a late answer of different pods race between the reading of an offer's state and the script that resolves it; a pod may die, a Redis command fail or a callback raise anywhere in between.
- Repayment: two instances, each with a signal thread and a monitoring thread, race for one loan, with snapshots of registries that are cleared one after the other; the claim in Redis has a lifetime and a fallback.
- Human override: each method takes its lock more than once; what the first section checked may be stale in the second.
- Go router: a handler writes to a channel of a goroutine that may just be taking its timer; Go chooses freely among the cases that are ready.
- Kafka worker: deliveries and commits are both applied in the background, in no fixed order relative to each other, and a crash loses both queues.
- Pipeline: the retry check and the record are at the two ends of a call, the window is checked long before an offer is made, and the kill switch is read once.
- Tenant velocity: a checker is looked up, made and used in three steps, a script carries the time at which it was sent, its reply may be lost although it ran, and the structuring detector is written and asked at different moments.
- Settlement: a loan is deregistered after its callback, a permit must come back on every path, two generators of reports write one key, `_last_generated_month` is not the month it is compared with, and the first business day of a month may be two days or none.
- Regulatory API: the budget is read in two commands, checked before the answer and charged after it, and the bucket refills with the clock.
- Kill switch: a write of the segment reads it under a lock that is gone when the buffer is committed, several processes write, and system calls fail between the steps.

`PROJECT.json` lists forty hazards, each at its line with the properties that would catch it going wrong, or with the reason why none does yet.

### 1.4 What makes each part correct

- Offer delivery: an offer is resolved once, its record, the pending set and the caller's reply agree with the outcome, no offer expires early, and every announced offer is resolved in the end.
- Repayment: a loan is repaid once, a loan not repaid is not forgotten, a partial amount closes a loan only where the policy says so, and every matured loan is repaid in the end.
- Human override: a decision is final once it is recorded, nothing times out early or twice, every request is decided in the end.
- Go router: an offer has one goroutine and one outcome, the outcome has a cause somebody was told of, the limit on concurrent offers holds, and every goroutine ends.
- Kafka worker: a committed offset skips no message, results come in order and once, the group never moves back, and every payment is answered.
- Pipeline: what was answered is not offered again, a window's cap bounds the offers, an answer says what happened, and a halt stops every call that had not read the switch before it.
- Tenant velocity: no rolling window of a tenant passes its caps, and a sum spread over tenants is flagged.
- Settlement: no permit leaks, a repayment is on all its books, a snapshot misses no money, a batch covers its month.
- Regulatory API: what is metered keeps both budgets and makes up the bill, an answer goes unmetered only when it was overtaken, no burst passes the bucket.
- Kill switch: a halt stands until it is taken back, reaches every router, and a signal is served.

## 2. Modules and their correspondence to the code

| Module | Models | Lines of code it stands for |
|---|---|---|
| `OfferLifecycle` | what the offer service promises: make, resolve once, fund what was accepted | the service's public methods |
| `OfferDelivery` | the offer service of several pods over one Redis | `offer_delivery.py`, Redis mode |
| `Repayment` | several instances of the repayment loop | `repayment_loop.py`, `partial_settlement.py` |
| `HumanOverride` | the override interface and its sweeper | `human_override.py`, `override_sweeper.py` |
| `GoOfferRouter` | the Go router, its goroutines and registries | `server.go`, `kill_switch.go`, `main.go` |
| `KafkaWorker` | the Python worker on one partition | `kafka_worker.py` |
| `Pipeline` | calls of `process` on several replicas, with the offers' life as `OfferLifecycle` has it | `pipeline.py`, `agent.py`, `uetr_tracker.py`, `velocity.py`, `kill_switch.py` |
| `TenantVelocity` | calls of `AMLChecker.check` for one sender | `aml_checker.py`, `tenant_velocity.py`, `velocity.py` |
| `Settlement` | the fan-out of repayments, the NAV emitter, the royalty batch | `settlement_bridge.py`, `royalty_settlement.py`, `royalty_batch.py`, `nav_emitter.py`, `repayment_loop.py` from the callback on |
| `RegulatoryApi` | requests of one regulator from one address | `regulatory_router.py`, `rate_limiter.py`, `query_metering.py` |
| `KillSwitch` | the library and the binary over one segment, and the routers that poll it | `lib.rs`, `shm.rs`, `main.rs`, `signal.rs`, `pyo3_bindings.rs`, `kill_switch.go` |
| `Environment` | the clock, Redis commands that fail and the backends, for `TenantVelocity` and `RegulatoryApi` | external |

`<Module>_proofs` holds the theorems about a module and their proofs, for `OfferDelivery`, `Repayment`, `GoOfferRouter`, `KafkaWorker`, `Pipeline` and `Settlement`.
Two modules hold the proofs of two components each: `HumanControls_proofs` those of `HumanOverride` and `KillSwitch`, `Limits_proofs` those of `TenantVelocity` and `RegulatoryApi`, which share the lemmas on sums.
The names of these four modules that would meet there begin with `HO`, `KS`, `TV` and `RA`: `HOSpec`, `TVTypeOK`.
`MC<Module>` defines the values the configurations need, the symmetry sets and `DetailsOf`; the constants themselves are given in the `.cfg` files.
`PROJECT.json` maps each definition to its lines.

### 2.1 What one step is

A step is the largest piece of code no other actor can see half done.

- `OfferDelivery`: one Redis command or one reading of the clock. A pod's lock serialises its own calls, so a pod has one program counter; pods interleave at every command. The Lua script that resolves an offer is one step (`Resolution`). Callbacks wait in `callbacks` because they run after the lock is released.
- `Repayment`: one Redis command or one section under an instance's lock. Each instance has two threads, `signal` and `maturity`, and the registries `_active_loans` and the monitor's are cleared in two steps (`Forget`, `Unwatch`).
- `HumanOverride`: one section under the interface's lock. `submit_response` is two, `resolve_expired` is two with the sweeper's own reading before them.
- `GoOfferRouter`: one section between two lock or channel operations. A `select` with several ready cases is a free choice among `Expire`, `Receive` and `StopOnShutdown`.
- `KafkaWorker`: one broker or client call of the worker's thread. `Deliver` and `ApplyCommit` are the client library's own threads.
- `Pipeline`: one access to something shared. What is computed without shared state is merged into the step that follows.
- `TenantVelocity`: one access to a dictionary (`Fetch` keeps the object it finds for the rest of the call), one locked section, one Lua script or Redis command. In memory the steps of different threads interleave, with Redis those of different workers.
- `Settlement`: one section under a lock, one Redis command; a tick is a day, and a day is longer than a snapshot, a batch or the scheduler's interval.
- `RegulatoryApi`: one locked section or Redis command of a request: the limiter, the pre-check (two GETs with Redis), the meter. The gates run in the replica's event loop, so no other request of the replica moves between the two GETs (`LoopIsFree`); those of other replicas do.
- `KillSwitch`: one store to a process's flag, one system call on the segment, one look of the binary's loop at a signal's flag, one poll of a router.

### 2.2 State

`OfferDelivery`'s variables are the Redis keys (`state`, `delivery`, `offerDoc`, `record`, `pending`), a pod's local variables (`pc`, `op`, `arg`, `stamp`, `todo`, `fresh`), and the world (`clock`, `announced`, `funded`, `replies`).
`announced` holds the offers whose `deliver` returned: only then can the treasury name one.
`replies` and `funded` are counts for the properties, which no action reads.

`Repayment`'s are the claims in Redis with the time each lapses, two registries and the fallback set of every instance, and the threads.
`registered`, `sent`, `closedOn` are histories.

`HumanOverride`'s are `_pending`, `_responses`, `_context_store`, what each operator is about to record, and the sweeper's snapshot. `reentered` counts the payments taken out of the context store after an approval; a context may be taken out whatever was decided.

`GoOfferRouter` numbers the `offerState` objects in the order of their making (`Runs`): an offer id may be triggered again after it was resolved and evicted, and handlers may still hold the old object.
Its `handler` is a client's gRPC call, `goPc` a goroutine, `channel` the buffered channels, `told` which answers a caller got.

`KafkaWorker`'s `kind` is what each message is: a payment, a message without a value, or one on which parsing or the pipeline raises.
`queue` and `commits` are what the client library still has to deliver and to apply.

`Pipeline`'s `call` is the record of each call of `process`; `draining` is a history, the calls that had read the switch when their replica was halted; `seen`, `memory` and `window` are the tracker and the velocity window; the offers are `OfferLifecycle`'s variables, with a call's number as the number of its offer.

`TenantVelocity` numbers the `TenantVelocityChecker` objects: in memory each has a window of its own, and a call keeps the one it was given by `Fetch` although another replaces it in the dictionary before the check. A call may be `RAISED` and yet stand in the window or in the register, when a command ran and its reply was lost. A call's `late` says that its script was overtaken by one with a younger time, which `newest` remembers.

`Settlement` keeps for each loan where its repayment is (`step`), and the sets of loans that are in memory (`records`), in Redis (`ledger`), metered and in the NAV history. A report is the set of loans it has. `FirstWeekday` gives the weekday on which each month begins, any one for any month, and `IsFirstBusinessDay` follows the code's three clauses on it. `byHand` has the first day on which a report of each month was made by hand while it was running, a history that no action reads.

`RegulatoryApi` has a limiter and a meter that are each in memory or in Redis, chosen at the start. A bucket counts in parts of which `Period` make a token and `Rate` come with a tick, so that the fractions of a token the code keeps between requests are exact; `overtaken` tells of a request that another was metered, the month turned or a store was lost between its pre-check and its own record.

`KillSwitch`'s `segment` is the file's size, flag and count; `write` is where each writer stands and the count it read. `held`, `activations` and `overlapped` are histories that no action reads: a committed activation with no reset since, how many there were, and whether two writes were ever under way at once.

### 2.3 Composition and refinement

`OfferDelivery` implements `OfferLifecycle`: `outcome` is `state`, `funded` is the set of offers registered at least once.
TLC checks it in the run `offer`; `OfferDelivery_proofs!Implements` proves it.
`Pipeline` instantiates `OfferLifecycle` for its offers instead of repeating the service's Redis commands.
The proof of `Implements` is what justifies that: whatever `Pipeline` needs of the service is what the service was proved to do.
`KillSwitch` composes three programs, the library in a Python process, the binary and the Go poller, over the segment they share.
`Settlement` takes up a repayment where `Repayment` calls the callback: its loans are repaid once, which `Repayment` shows.
`GoOfferRouter` polls a flag that may be set at any time, and `KillSwitch` says what that flag is.

### 2.4 What is abstracted

Amounts, fees, rates, identifiers, names and messages are left out or are one of a few values.
A partial settlement is one of three amounts: noise below the minimum share, partial, full.
A payment is a UETR with details that the tuple index compares (`DetailsOf`); normalisation of details is in the comparison.
What C1, C2, C4, sanctions screening and C7's economic gates answer is a free choice, so that every property holds whatever they answer.
`REFUSED` in `Pipeline` stands for the five answers that carry no offer and no state.
Time is a counter that may step between any two steps; only comparisons with deadlines matter.
The in-memory mode of the offer service, used in tests and for a single pod, runs under one lock and is left out; the Redis mode is the deployment.

## 3. The runs

All counts are distinct states of the finished run.

| Run | Instance | States | Shows |
|---|---|---|---|
| `offer` | 2 pods, 2 offers, one tick to live, clock to 1, 1 fault | 135,744 | `StoreAgrees`, `OneTruthfulReply`, `FundedOnceAndAccepted`, `NoEarlyExpiry`, `OutcomeIsFinal`, `AnnouncedIsResolved`, `ImplementsLifecycle` |
| `repay` | 2 instances of two threads, 1 loan, REQUIRE_FULL, a claim that lapses, 1 crash, 1 Redis error | 40,339 | `RepaidOnceWithinTtl`, `BooksAreKept`, `RequireFullHolds`, `MaturedIsRepaid` |
| `repay_lapse` | 1 loan, no policy, no crash, no error | stops at about 4,100 | `RepaidAtMostOnce` is violated |
| `override` | 2 requests, 2 operators, 1 sweeper, clock to 3 | 574,593 | `DecisionIsFinal`, `TimesOutOnceAndLate`, `RequestIsDecided` |
| `go_safety` | 2 offers, 2 clients, room for 1, an id triggered again | 3,636,104 | `QueryStillAnswers`, `RegistryIsExact`, `OutcomeHasCause`, `OneTerminalBranch` |
| `go_live` | 1 offer, 1 client, the kill flag and a shutdown | 91,588 | `GoroutineEnds` |
| `kafka_worker` | 3 messages of any kind, 2 tries, 3 faults, 1 crash, 1 stop | 2,299,142 | `CommittedIsAnswered`, `OutputsInOrder`, `OffsetNeverMovesBack`, `PaymentIsAnswered` |
| `pipeline` | 2 replicas, a payment and its re-keyed twin, cap 2, 3 calls, 2 at a time, two of a fault, a crash and a halt | 5,546,013 | `RetryIsNotOffered`, `OffersWithinCap`, `AnswerIsTrue`, `HaltStopsTheRest` |
| `tenant_velocity` | 3 calls, 2 tenants, 2 beneficiaries, amounts 1 and 5 under a cap of 7, clock to 2, 1 fault, memory and Redis | 4,981,705 | `TVTypeOK`, `RollingCap`, `StructuringIsFlagged` |
| `settlement` | 2 loans of a processor or the bank, room for 1 call, the end of a month that begins on a Thursday and the first two days of one that begins on a Monday, 1 Redis error, 1 restart | 4,303,552 | `BooksAreComplete`, `SnapshotMissesNothing`, `BatchCoversMonth` |
| `regulatory_api` | 3 requests, 2 replicas, a budget of 2 queries and 5 units, one token and half a token per tick, a month's end, 1 error, 1 restart, both backends | 2,523,807 | `MeteredWithinBudget`, `UnmeteredWasOvertaken`, `RateIsKept` |
| `kill_switch` | 2 threads of a process, the binary, a router, 5 calls or signals, 1 failing system call | 306,708 | `HaltStands`, `CountsActivations`, `HaltReachesRouters`, `SignalIsServed` |

The type invariants are proved; `TVTypeOK` is an invariant of a run as well.
Symmetry is used in runs without a liveness property only.

### 3.1 Why the bounds are enough

- The safety properties of all the runs are proved for every value of the constants (section 5). There the instances need only be large enough for the liveness properties, and for a slip in the code to show.
- Two pods or instances are the smallest number that race; a third would wait for one of the two at every contended command. Two offers are needed for the sweep to hold a snapshot with one stale entry while the other is in use.
- A clock that reaches the deadline, or one tick past it where the code asks for later, makes each deadline pass and stay passed. In the repayment runs the claim's lifetime is longer than the maturity, as in the code (maturity plus 45 days), and both go past it.
- One crash or fault suffices for each property that speaks of what is left behind; `kafka_worker` has three faults because a produce is tried twice and the dead letter is tried after it.
- Three calls in `pipeline`, two at a time, are what a replay after an overlap takes: two calls overlap and a third comes after. A cap of two is reached by the first two. Of a fault, a crash and a halt any two may come in one behaviour, in either order (`MaxUpsets`).
- In `go_safety` one room and two offers make the limit bite, and two `offerState` objects may be two offers, or one id triggered again while an old handler still holds the first object.

- Three calls in `tenant_velocity` are what it takes for two to race and a third to find what they left; the amounts 1 and 5 fit the cap of 7 together once and not twice, and a window of one tick lets a record fall out of it.
- In `settlement` a loan may be of the bank or of a processor, which take different paths; room for one call makes the bridge drop the other. A month of three days is the shortest in which each clause of `_is_first_business_day` can hold; the days after the 3rd have no part in it. The clock begins on the last day of one month and goes past the batch day of the next. What the months that begin on a weekend do is in the proof, which is for every calendar, and in the counterexample of section 4.8. The last hour of a NAV event is one tick, so that a settlement may be too old.
- In `regulatory_api` the costs 1 and 4 add up to the budget of 5 exactly; the third request is over the query budget, over the other, or both. With a rate of 1 in a period of 2 a tick brings half a token, so a request may come to a bucket that has a part of a token only.
- Two threads and the binary in `kill_switch` give three writers, enough for a reset and an activation to overlap a third write; five calls let a halt be set, taken back and set again while one is under way.

Counters (`clock`, `faults`, `crashes`, `halts`, `redisErrors`, `stops`, `calls`, `MaxUpsets`, `MaxRuns`, `MaxCalls`, `MaxInFlight`) are bounded in the guards of the actions that raise them, by constants of the same name.

### 3.2 Deadlock

TLC checks for deadlock in the runs of `OfferDelivery`, `Repayment`, `HumanOverride` and `KillSwitch`.
In the others the system really may stop: the process exits, the partition is read to its end, or all the calls, loans or requests the instance allows are done and the clock is at its bound.

### 3.3 Fairness

Liveness is checked under `FairSpec`, which asks only for what runs by itself.

- `OfferDelivery`: the clock ticks, a call that has begun goes on while its pod lives (weak fairness of `Proceed` and `Returns`), and a sweep begins again and again while there are stale offers (strong fairness, because an accept or reject on the same pod may hold the lock at any given moment). The periodic sweep is what the class docstring asks a scheduler for. Nobody has to accept or reject.
- `Repayment`: the clock ticks, the monitoring thread of `run_monitoring_loop` runs every interval, a repayment that has begun goes on. No signal has to arrive.
- `HumanOverride`: the clock ticks, the sweeper's thread runs, a `submit_response` that has begun ends. No operator has to answer.
- `GoOfferRouter`: time passes and Go's scheduler runs every goroutine that is ready. Clients and shutdown are not fair.
- `KafkaWorker`: the worker's thread runs, the client library delivers and commits, and a supervisor restarts a worker that went down. Crashes and failures are never required, and `PaymentIsAnswered` promises nothing once one happened.

- `KillSwitch`: the binary's loop goes round, a write that has begun goes on unless it fails or its process dies, and the routers poll. Nobody has to activate or reset, and no process has to come back.

`Pipeline`, `TenantVelocity` and `RegulatoryApi` have no liveness property: a call that raises is simply over, and nobody has to call.
`Settlement` has none either: a royalty that Redis refused is only logged, and nothing tries it again.

### 3.4 What some of the properties mean

- `StoreAgrees` ties the outcome to the records, the pending set and the announced keys: a resolved offer has the record of its outcome and no other. It would be broken by a resolution in two commands, or by an `accept` that stores its record before it knows it won.
- `NoEarlyExpiry` compares the record's time stamp with the deadline: the sweep reads the clock before it waits for the lock and works on a snapshot, and this says it never takes time from the treasury.
- `BooksAreKept` holds an instance's two registries together: an exit of `trigger_repayment` that deregisters without repaying loses the loan.
- `RequireFullHolds` is about order: the policy must be asked before the claim is taken, or the claim of a partial amount blocks the full one.
- `QueryStillAnswers` is about the order of two writes under two locks when a goroutine ends.
- `RegistryIsExact` says that no goroutine is out of reach of accept, reject and cancel, and that the limit holds, which the limit, the duplicate check and the deletion must cooperate for.
- `CommittedIsAnswered` relates the group's offset at the broker to what the producer still has in its queue.
- `RetryIsNotOffered` speaks of calls that begin after an earlier one returned: the tracker protects those, through crashes and faults, and only those. `FundedAtMostOnce` (section 4.7) shows the rest.
- `HaltStopsTheRest` is an action property over many steps: an offer made on a halted replica is of a call that had read the switch before the halt. A call screened, scored or parked before the halt, and not yet at the gate, makes none until the switch is back, whatever the licence's limiter or the review do in between. It bounds what the single read of the switch (`agent.py:251`) can do, and does not say that a halt is immediate: `HaltIsImmediate` (section 4.7) is refuted.
- `DecisionIsFinal` speaks of the decisions that end a request, APPROVE, REJECT and the time-out, and of the time after the last operator who passed the expiry check before them has recorded. Then no operator is let through again and no answer replaces the outcome. An ESCALATE is not an end (section 4.4).
- `RollingCap` is stated over every instant at which a window may end, not over the store: it adds up what passed. It holds with one checker per tenant in memory, and in Redis for scripts that no younger one overtook, lost replies included; the counterexamples beyond these two conditions are in section 4.8.
- `StructuringIsFlagged` is about an order: every call registers before it asks, so the last to ask sees the whole sum.
- `SnapshotMissesNothing` allows a loan to be counted as active and as settled, and never as neither; deregistering before the callback would break it.
- `BatchCoversMonth` speaks of the days that the code takes for first business days, both of them in a month that begins on a Sunday, and of what was recorded before the day. In a month that begins on a Saturday there is none, and the property says nothing of the month before: `MonthIsReported` (section 4.8) does. A royalty that is recorded on that day after the batch has read is in the report only if a later generation of the day takes it up.
- `UnmeteredWasOvertaken` says why an answer may go unmetered, since the code allows it. The time in which a request may be overtaken begins with the first GET of its pre-check.
- `HaltStands` says that no write that read the segment earlier takes a committed halt away: it holds because a writer commits the flag it was called with, whatever it read.

## 4. Documentation the code does not keep

Each statement below is a property in a module, under the heading "What documents say and the code does not keep", and TLC finds a counterexample under the bounds of section 3.
One of them is a run; the others are kept for whoever changes the code.

### 4.1 The run

- `RepaidAtMostOnce` (run `repay_lapse`). `repayment_loop.py:6` says Redis SETNX "ensures exactly one RepaymentInstruction per UETR across distributed Flink instances". An instance denied the claim keeps the loan (`:377`) and asks again at every maturity check. When the claim's lifetime is over, SET NX succeeds and the callback is called a second time. A Redis error on one instance alone gives the same result through the in-memory fallback (`:301`).

### 4.2 Offer delivery

- `AcceptedIsFunded`: `offer_delivery.py:8` "ELO confirmed; on_accept callback fires". A pod that dies after the script committed (`:280`), or a callback that raises, leaves an accepted offer without a loan, and nothing tries again.
- `PendingIsResolved`: `:10` "offer_expiry passed with no response". A `deliver` that fails between its first and last key (`:608`) leaves an offer that is `PENDING` and in no set a sweep reads.
- `AcceptedInTime`: `:246` promises `OfferExpiredException` once the expiry has passed. The expiry is checked (`:261`) before the time stamp is taken, so an acceptance can be stamped after it.

### 4.3 Repayment

- `ClaimedIsRepaid`: the sentence of `repayment_loop.py:6` again. A crash between the claim and the callback (`:443`) leaves a claim without a repayment until it lapses, and the registries were in memory.
- `NoiseIsIgnored`: `partial_settlement.py:52` treats an amount below the minimum as noise "regardless of policy". Without a policy, `repayment_loop.py:357` does not ask and closes the loan on any amount.

### 4.4 Human override

- `AnsweredIsNotTimedOut`: `override_sweeper.py:109` "race condition, skip". A response may be recorded between the sections of `resolve_expired`, or a time-out between those of `submit_response` (`human_override.py:195`), so one request is both answered and timed out.
- `EscalatedStaysPending`: `human_override.py:28` says of ESCALATE that the request "remains pending until re-assigned or expired". `submit_response` (`:206`) removes the request whatever the decision, so it is neither listed nor swept again.
- `RejectedIsBlocked`: `human_override.py:25`. The stored context survives a rejection (`:205`) and can be taken for re-entry.
- `NonExpiredIsListed`: `:282` against `:293`, which leaves out a request at the instant of its expiry although an answer is still accepted then.

### 4.5 Go router

- `AcceptBeforeExpiryWins`: `server_test.go:12` "accept before expiry wins". When the timer and the channel are both ready the `select` may take the timer (`server.go:564`), though the caller was told its acceptance was taken.
- `ChannelWrittenOnce`: `server.go:136`. A handler that looked the offer up before can write again (`:403`) after the goroutine has taken the first signal, and its caller is told yes.
- `OneOutcomePerOffer`: `docs/engineering/specs/c7_offer_routing_migration.md:111`. The duplicate check (`server.go:358`) looks at offers in flight only, so a resolved id may be triggered again and get a second outcome.
- `KillFlagIsHonoured`: line 62 of the same document. The flag is a polled copy read before the registration (`:323`).
- `ShutdownWaits`: `server.go:276`. `Shutdown` sends each offer in flight a cancel (`:289`) and returns; nothing reads `ShutdownTimeout`, and `main` ends the process when `Serve` returns.

### 4.6 Kafka worker

- `ErrorIsNotCommitted`: `kafka_worker.py:166`. The next successful message commits a later offset, which passes the failed one too.
- `AtLeastOnce`: `docs/engineering/codebase/c5_streaming.md:19`. The offset is committed (`kafka_worker.py:192`) while the result may still be in the producer's queue, which a crash loses.

### 4.7 Pipeline

- `FundedAtMostOnce`: `uetr_tracker.py:36` says the tracker "Prevents double-funding". `is_retry` (`pipeline.py:287`) reads and `_record_and_return` (`:383`) writes, so two calls for one UETR that overlap both pass. Both offers can be accepted and both funded, on one replica or on two.
- `ApprovedIsProcessed`: `pipeline_result.py:36` tells the caller to re-submit an approved payment with `human_override_decision="APPROVE"`. The parked outcome was recorded like any other, so the re-submission is answered `RETRY_BLOCKED` for 45 days.
- `ParkedHasRequest`: `pipeline_result.py:35` says `override_request_id` is populated. A payment parked for C6's anomaly flag has no request.
- `CountedAtAcceptance`: `pipeline.py:943`. The window is recorded in C6 during `process` and again at acceptance (`:983`), without the cap.
- `HaltIsImmediate`: `kill_switch.py:100`. A call past the gate still makes its offer; `HaltStopsTheRest` is what does hold.

### 4.8 Tenants, royalties and the regulatory API

These are the limits of properties that hold; each condition of the property is there because TLC finds a counterexample without it.

- `MonthIsReported`: `royalty_batch.py:3` "Triggers generate_monthly_settlement() on the 1st business day of each month". `_is_first_business_day` (`:117`) takes the 3rd only after a Sunday the 1st (`:128`), so a month that begins on a Saturday has no such day: the batch of the month before is not made, and no later one makes up for it. This one is a statement of its own: it takes a second month that begins on a Saturday (`FirstWeekday` 5) and a clock that goes on to the third (`MaxTime` 6).

- `RollingCap` needs `OneChecker` in memory: two threads that find no checker for a tenant make one each (`aml_checker.py:393`), the second replaces the first, and what the first has seen is forgotten. `velocity.py:608` promises that "no concurrent worker can slip through".
- `RollingCap` leaves out scripts that were overtaken: the time is read before the script is sent (`velocity.py:361`), so a late script judges by an older window than the one it writes to.
- `BatchCoversMonth` leaves out the days after a manual report of their own month (`byHand`): it sets `_last_generated_month` to the running month, which `royalty_batch.py:135` compares it with, and on the first business day the scheduler takes its own batch for done.
- `SnapshotMissesNothing` says nothing after a restart, which forgets the NAV history and the meter; and a loan may be counted both as active and as settled.
- `MeteredWithinBudget` bounds what is metered, not what is answered. The comment B2-03 (`regulatory_router.py:174`, `:233`) says the regulator's lock keeps two requests from both passing the gate; it covers the pre-check only, so requests that pass it together are all answered and the meter refuses the last of them.

### 4.9 Kill switch

- `HaltSurvivesStart`: `shm.rs:27` says "The kill flag persists across Rust binary restarts." The binary writes INACTIVE when it starts (`main.rs:21`).
- `CountIsMonotonic`: `shm.rs:14`. The lock of a write is released before the buffer is committed (`:205`), so a slow writer puts back an older count.
- An activation where there is no segment creates it zeroed first, so a router that is closed because the segment is absent may open for one poll, and stays open if the commit fails. `HaltStands` speaks of activations that were committed.
- `lib.rs:64` says that sibling processes observe the state; `is_killed` in another process reads that process's own flag, which no other process writes.
- `shm.rs:28` says that `reset_kill()` unlinks the segment; it writes INACTIVE.

### 4.10 Read, and stated by no property

- `docs/engineering/codebase/c8_license_manager.md:83` says the kill switch persists across restarts, and `docs/business/bank-pilot/api-reference.md:494` names `LIP_KILL_SWITCH_ACTIVE`; the runtime wires no Redis client into `KillSwitch` and no code reads the variable.
- `kill_switch_bridge.py:15` says that `is_killed` answers True until the Rust module is available; after `reset_kill` through the Python fallback it answers False.
- A `trigger_offer` whose reply is lost falls back to the Python service (`agent.py:489`), so one offer may be with both services.
- The Go consumer stores offsets (`consumer.go:313`) with auto commit off (`config.go:159`) and commits none. `docs/engineering/specs/c5_kafka_consumer_migration.md:336` says both consumers wait for the confirmation of a dead letter; neither does. Its fan-out never returns an error, so a message that is drained while the process stops is answered from cancelled calls.

## 5. What is proved

All ten components are proved about, in the eight `_proofs` modules of section 2.
The theorems hold for every value of the constants that the module's named assumption allows: constants that are counts are natural numbers, special values are not members of the sets they complete, and finite sets are finite where a cardinality is taken.
All obligations are checked by TLAPS, and nothing is left without a proof.

Each proof has the same shape.
The properties are true but not inductive, because they do not say what an actor between two steps knows; `IInv` adds it.
`TypeInit` and `InvInit` establish type and invariant, one lemma per conjunct (or one per action, where an action disturbs several) shows that a step keeps it, and the theorems follow with one temporal step.

### 5.1 The offer service

`OfferDelivery_proofs` proves, for any sets of pods and offers, any lifetime of an offer and any number of faults, that the offer service keeps its safety properties and implements `OfferLifecycle`.
The only assumption is `OfferDeliveryAssumption`: `NoOffer` is not an offer, an offer lives at least one tick, and the bounds are natural numbers.

| Theorem | Statement |
|---|---|
| `TypeCorrect` | `TypeOK`, and a pod in the middle of a call works on a known offer |
| `InvariantHolds` | `IInv`, the inductive invariant |
| `StoreAgreesHolds`, `NoEarlyExpiryHolds`, `OneTruthfulReplyHolds`, `FundedOnceAndAcceptedHolds` | the invariants of the run `offer` |
| `OutcomeIsFinalHolds` | the action property |
| `Implements` | `Spec => Lifecycle!Spec` under the refinement mapping |

### 5.2 The argument for the offer service

What `IInv` adds to the invariants of the run:

- `DeliverInv`: while a pod delivers an offer, no other pod knows its id, and the keys written so far are there. Without it nothing says that `AddPending` adds an offer that is still pending.
- `ResolveInv`: a pod that accepts, rejects or sweeps works on announced offers, and what it is about to expire is due at the instant it read. This is what makes `NoEarlyExpiry` inductive, since the clock is read before the command.
- `ListedIsComplete`: an offer that is listed or resolved was announced, so that all of `deliver`'s keys are there for a resolution to read.
- `CallbackInv`: a callback that waits for the lock's release belongs to one pod, its offer has the outcome it reports, and nobody has replied yet.
- `AnswerInv`: replies and loans per offer are counted, at most one each, and they agree with the outcome.

The type invariant is proved first, with the fact that a busy pod has an offer, and is then used as a fact at every step.
`OneTruthfulReply` and `FundedOnceAndAccepted` follow from `AnswerInv` at the end.
`EveryStepHasShape` shows that each step of the service either leaves the outcomes and loans alone, makes one offer, resolves one pending offer, or funds one accepted offer.
`OutcomeIsFinalHolds` and `Implements` follow from this one lemma.

### 5.3 The pipeline

`Pipeline_proofs` proves, for any replicas, payments and details, any cap and any number of calls, faults, crashes and halts:

| Theorem | Statement |
|---|---|
| `TypeCorrect` | `TypeOK`, `StageInv` and `AnswerIsTrue` |
| `RetryInvariant` | `RetryInv`, what the tracker knows of the calls |
| `RetryIsNotOfferedHolds` | what came back with an offer is not offered again |
| `AnswerIsTrueHolds` | an answer says what happened |
| `CapInvariant`, `OffersWithinCapHolds` | the offers stay within the cap |
| `HaltStopsTheRestHolds` | an offer on a halted replica is of a call that had read the switch before |

The only assumption is `PipelineAssumption`: every payment has details, and the bounds are natural numbers.

- `StageInv` says what a call's step tells about its offer: none before `log`, one at `log`. `AnswerIsTrue` is inductive only with it.
- `RecordedInv` ties the calls to the tracker: a call that came back with an offer has its UETR in Redis, and in its replica's memory while the replica lives. From it `ReplayInv` and `RekeyInv` follow: a replay stops at the key in Redis, a payment keyed again at the memory.
- `CapInv` counts the calls that entered the window and may still make an offer, or have made it. There are at most as many as entries in the window, which `finalize_accepted_offer` may push beyond the cap, and at most as many as the cap, which it may not. The property itself counts offers only and is not inductive.
- `DrainInv` says that on a halted replica every call past its gate is in `draining`: a call joins those past the gate only while its replica is not halted, and the halt itself puts those who are there into `draining`.
- `CallMoves` gives the move behind each action once; the proofs that follow use it instead of the records.

### 5.4 Repayment

`Repayment_proofs`: `TypeCorrect`, `InvariantHolds`, `RepaidOnceWithinTtlHolds`, `BooksAreKeptHolds`, `RequireFullAlways`, for any instances, loans, policy, lifetimes, crashes and Redis errors.

- `ClaimInv` is the heart: a claim lives for `Ttl`, and while Redis answers and no claim can have lapsed, the worker about to call back is the only one for its loan, its loan is claimed and was not repaid. `RepaidOnceWithinTtl` follows.
- `UnwatchInv` says that the two registries of an instance differ by the loans that exactly one worker is about to take from the second, and `SentInv` that a worker clears them after the callback only. Together they give `BooksAreKept`.
- `ServedInv` and `FullInv` say that whoever holds a claim calls back, and that no worker has a partial amount under REQUIRE_FULL.

### 5.5 Human override

`HumanControls_proofs`: `HOTypeCorrect`, `HOInvariantHolds`, `DecisionIsFinalHolds`, and `TimesOutOnceAndLateHolds` under the assumption `OneSweeper`, since the code starts one sweeper thread per interface; with two sweepers over one interface a request may be counted twice.

- `MadeInv`: operators and sweepers deal with requests that were made only, so a new request has no past.
- `OutcomeInv`: what was answered, ESCALATE included, or timed out is not pending again, so the expiry check lets no operator through. `DecisionIsFinal` follows once nobody is between check and record.
- `LateInv`: what left the pending set was answered or late. `OnceInv`: what was timed out is not in front of the sweeper.

### 5.6 Go router

`GoOfferRouter_proofs`: `TypeCorrect`, `InvariantHolds`, `RegistryIsExactHolds`, `QueryStillAnswersHolds`, `OutcomeHasCauseHolds`, `OneTerminalBranchHolds`, for any offers, clients, goroutines and limit.

- `PlaceInv` ties a goroutine's place to its outcome, `RegistryInv` the registry and the live goroutines to each other in both directions, `LimitInv` counts the registry with the theorems on finite sets.
- `SignalInv`: a signal in a channel was told to a caller, or is the shutdown's. `OutcomeHasCause` is inductive with it.

### 5.7 Kafka worker

`KafkaWorker_proofs`: `TypeCorrect`, `InvariantHolds`, `CommittedIsAnsweredHolds`, `OutputsInOrderHolds`, `OffsetNeverMovesBackHolds`, for a partition of any length and any tries, faults, crashes and stops.

- `CommitInv`: commits under way are in order, between what is committed and what the worker is done with; `OffsetNeverMovesBack` follows.
- `HandledInv`: what is done or committed was handed to the producer. `OrderInv`: results at the broker and in the queue are in one order, all of messages before the one at hand.

### 5.8 Settlement

`Settlement_proofs`: `TypeCorrect`, `InvariantHolds`, `BooksAreCompleteHolds`, `SnapshotMissesNothingHolds`, `BatchCoversMonthHolds`, for any loans, tenants, limit and calendar: months of any length from three days, and any weekday for the 1st of each, Saturdays and Sundays included. No assumption says that a month has a first business day.

- `InFlightIsExact` is inductive by itself, with the theorems on cardinality; the type of `inFlight` needs it.
- `FanOutInv` says how far the books of a loan are at each of its steps. `NavInv` says that a loan in the registry is among the active ones of the snapshot, since none enters it; a loan that is not there is done, and `FanOutInv` finds it in the history.
- `RecordInv` says that a recorded royalty is of a loan whose time stamps no longer change, and that Redis has none that memory lost.
- `FoundInv`, `LastInv`, `DayInv` and `PastInv` carry `BatchCoversMonth`: a batch at work has what was recorded before today; `_last_generated_month` is the running month only after a report made by hand; on a first business day, once the scheduler has looked at the calendar, the batch of the month is at work or the report covers what was recorded before the day; the day does not end before that, and what was covered stays so. The 2nd and the 3rd after a Sunday are two such days, each with its own. `CoveredStep` shows that any later report, a manual one too, keeps the month covered.

### 5.9 Kill switch

`HumanControls_proofs`: `KSTypeCorrect`, `KSInvariantHolds`, `HaltStandsHolds`, `CountsActivationsHolds`, `HaltIsKeptHolds`, for any processes, threads and routers.

- `HeldInv`: while a halt is held no reset is under way, which is why no write can take it. `CountInv` and `OverlapInv`: the count a writer read is not too high, and is the segment's as long as writes do not overlap.

### 5.10 Sums

The caps, the register and the budgets are sums over sets of calls, tenants and requests.
`SumFunction` of the community modules is a fold: the value of a chosen function that satisfies a recursive equation on the subsets of its domain.
The first part of `Limits_proofs` shows that there is such a function and only one, and from the equation the laws that the two components need: a sum of natural numbers is one (`SumType`), any element may be taken out first (`SumRemove`), a new one adds its value (`SumAdd`), a part sums to no more than the whole (`SumMonotone`), a value that is raised raises the sum by as much (`SumRaise`).

The library's induction theorems take an operator as a parameter and cannot be used here.
`SubsetInduction` takes its place: it speaks of a set `Good` of subsets instead of a predicate, and follows from the library's theorem that the strict subsets of a finite set are well founded.
So these laws hold for every finite set, by induction, with no limit on its size.

### 5.11 The regulatory API

`Limits_proofs`, for any requests, replicas, costs, budgets, rate, period and length of a month, any clock, errors and restarts.
`RegulatoryApiAssumption` asks nothing of rate and period but that they are natural numbers and the period is not zero: the bucket is in parts of a token, and the property is multiplied by the period.

| Theorem | Statement |
|---|---|
| `RATypeCorrect` | `RATypeOK` |
| `UnmeteredWasOvertakenHolds` | who was answered and not metered was overtaken |
| `UsageIsFaithful`, `MeteredWithinBudgetHolds` | what is metered keeps both budgets and makes up the bill |
| `LimitersCover`, `RateIsKeptHolds` | no bucket and no counter lets too much in |

- The type of the counters takes `CounterCounts`: a counter counts no more requests than came, so it stays within their number.
- `ServedFits`: a request that was checked and is not overtaken still fits into its month's usage. Every way in which the usage may have changed since then marks it as overtaken, and this is the whole of `UnmeteredWasOvertaken`.
- `CountStands`: between the two GETs of a pre-check the count that was read is still the meter's, unless another request was metered; so the two readings are of one usage, or the request is overtaken.
- `UsageIsMetered` says more than the budgets do: count, epsilon and entries of a usage are the number, the sum and the set of the requests metered there. A request whose script ran and whose reply was lost is among them. A metering that added one without the others would break it; that the counters stay within the budgets is then a matter of type.
- `BucketCovers` is what the bucket's property needs to be inductive: the parts of the tokens a bucket allowed since any time, and those it still holds, are no more than its size and the refill from then to its last refill. The property itself counts what was allowed in a stretch and says nothing of the tokens left, with which the next request comes.

### 5.12 Tenant velocity

`Limits_proofs`, for any calls, tenants, beneficiaries, amounts, caps and window.
`TenantVelocityAssumption` asks that there are finitely many calls and tenants and that amounts are positive.

| Theorem | Statement |
|---|---|
| `TVTypeCorrect` | `TVTypeOK`, and in memory a call that comes to its check finds a checker |
| `WindowsAreKept`, `RollingCapHolds` | the caps of the rolling windows |
| `RegisterIsExact`, `StructuringIsFlaggedHolds` | the structuring detector |

- `Slots` and `Armed` belong to the types: at most one checker is made per call, and no call gets to the check before its tenant has one.
- `WindowHolds` is the heart of the caps: a call that passed is in the window of its tenant (in memory, of its checker) as long as no check of the tenant went by a time at which it had left. So a check that is not late sums everything that a rolling window could hold together with its candidate.
- `Own` says that a checker is of one tenant for good, although it may be replaced, and that all who hold it (`Holders`) are calls of that tenant; a call holds its checker from `Fetch` on, a replaced one too. Without it the window of one tenant could be cleaned by the clock of another.
- The step that matters is the admission (`AdmitKeepsRolling`): the windows that end where the candidate is in them hold the candidate and, by `InsideLives`, only calls that were live in its check, whose sum and number the verdict bounded; in all others nothing changed.
- A check whose reply is lost (`Loses`) leaves its record in the window and its call `RAISED`: the window may hold more than what passed and never less, which is all the caps need.
- `RegistrySums`: as long as no reply was lost, the register is the sum of what the calls that registered moved, each of their tenants is present in it, and once nobody is between registering and asking the flag was raised if it had to be. The last to ask sees the whole sum because every call registers before it asks.

### 5.13 What is model-checked only

- Liveness, in every module: TLAPS does not reason about fairness here.
- The documentation's statements of section 4, which are refuted by counterexamples.

## 6. What is not modelled

- The models C1, C2, C4 and C9, sanctions matching, P5, P10's statistics and P12: numerical or textual computation without shared control. Their answers are free choices.
- Cryptography: licence tokens, HMACs and hashes. A valid signature is taken as valid.
- `OfferDelivery`: the in-memory mode and the read-only queries.
- `Repayment`: fees, the rails' message handlers, starting and stopping the monitoring thread.
- `HumanOverride`: the refusal of empty ids and justifications, which touches no state, and `requires_dual_approval`, which nothing reads.
- `GoOfferRouter`: health checks and metrics.
- `KafkaWorker`: the dry run, rebalances between workers of one group, and delivery callbacks: the code registers none, so that `poll(0)` has none to run and to raise.
- `Pipeline`: the expiry of UETR keys and of the velocity window, the dollar cap, the cross-rail handoff index, the canary route, degraded mode; the licence's limiter, whose calls of the last second would need a clock: `Throttle` refuses any call it likes, before the kill switch is read.
- `TenantVelocity`: the anomaly flag, fuzzy name matching, the expiry of the structuring register's keys, other senders (every store is keyed by the sender). The client's own single retry of a command that timed out (`redis_factory.py:55`, `retry_on_timeout`), by which a script may run twice for one call.
- `Settlement`: amounts and rounding, the purge of the NAV history after 30 days, the quarterly summary of the meter, starting and stopping the threads. The first month's batch, of the month before the clock begins, is left out.
- `RegulatoryApi`: the rounding of the bucket's floating point, what the endpoints compute, the HMAC of an entry, latency statistics, the audience of a token.
- `KillSwitch`: time stamps and reasons, status snapshots, and the Python bridge `kill_switch_bridge.py`, which nothing but tests imports.
- The circuit breaker, which is wired to none of the parts modelled here; the salt rotation; the state machines, two sequential tables that only reports ask; the Go consumer.
- Everything marked `not_modelled` in `PROJECT.json`.

## 7. Plan

The order of work was the order in which money moves: offers, repayments, overrides, the second router, the worker, the pipeline that ties them together, then the gates (tenant velocity, the regulatory API), the books (settlement) and the kill switch; and the proofs from the offer service outwards.
What is left, most important first:

| Step | Module | What it would say |
|---|---|---|
| 1 | `Pipeline` with the canary route | two delivery services, one offer |
| 2 | `GoConsumer` | the worker pool and its stored offsets, next to `KafkaWorker` |
| 3 | `SaltRotation` | two replicas rotate a salt; an entity has one window or two during a dual write |
| 4 | `CircuitBreaker` | a breaker under concurrent calls, a late success against a failing probe |
| 5 | `LoanStates` | the Python and the Rust transition tables are the same, and no path skips a mandatory state |

An abstract kill flag that, once read as set, lets nothing new begin is worth stating next, with `KillSwitch`, `GoOfferRouter` and `Pipeline` below it.

## 8. Running it

Each run of section 3 is `tlc -config <cfg> <module>` with the names in `PROJECT.json`; the longest takes about three minutes on two workers.
`tlapm <Module>_proofs.tla` checks the proofs of a module; the longest takes about three minutes.
Each property has a mutant: an operator defined just before the one it changes, that a plausible slip in the code would produce.
`PROJECT.json` names the mutant for every property, and replacing the definition by it makes the run fail on that property.
