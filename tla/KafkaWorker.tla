----------------------------- MODULE KafkaWorker -----------------------------
(***************************************************************************)
(* C5's Python worker (c5_streaming/kafka_worker.py) on one partition of   *)
(* lip.payment.events: poll, process, produce, commit, with a producer     *)
(* that delivers in the background, commits that are applied in the        *)
(* background, retries, the dead-letter topic, stop, crash and restart.    *)
(***************************************************************************)
EXTENDS Naturals, Sequences

CONSTANTS
    Offsets,        \* how many messages the partition holds
    MaxRetries,     \* _DLQ_MAX_RETRIES
    MaxFaults,      \* bound on failing broker calls and deliveries
    MaxCrashes,     \* bound on crashes
    MaxStops        \* bound on orderly stops

ASSUME KafkaWorkerAssumption ==
    /\ Offsets \in Nat /\ MaxRetries \in Nat \ {0}
    /\ MaxFaults \in Nat /\ MaxCrashes \in Nat /\ MaxStops \in Nat

VARIABLES
    kind,           \* what each message is
    committed,      \* the group's offset at the broker: next message to read
    outputs,        \* lip.failure.predictions, by the offset a result is for
    dead,           \* lip.dead.letter, likewise
    running,        \* _running
    position,       \* the consumer's next offset
    pc,             \* where _process_message stands with message position - 1
    attempt,
    queue,          \* the producer's queue of <<topic, offset>>
    commits,        \* commits under way to the broker
    failed,         \* messages that took an error path
    faults, crashes, stops

broker == <<committed, outputs, dead>>
worker == <<running, position, pc, attempt>>
client == <<queue, commits>>
budget == <<faults, crashes, stops>>
vars == <<kind, broker, worker, client, failed, budget>>

Messages == 0 .. Offsets - 1
\* A payment; no value; bytes that are not JSON, or a normaliser or pipeline that
\* raises.
Kinds == {"good", "tombstone", "bad"}
current == position - 1
Elements(s) == {s[i] : i \in DOMAIN s}
Queued(topic) == {m \in Messages : <<topic, m>> \in Elements(queue)}

TypeOK ==
    /\ kind \in [Messages -> Kinds]
    /\ committed \in 0 .. Offsets
    /\ outputs \in Seq(Messages) /\ dead \in Seq(Messages)
    /\ running \in {"up", "stopping", "down"}
    /\ position \in 0 .. Offsets
    /\ pc \in {"idle", "process", "produce", "divert", "commit", "dead"}
    /\ attempt \in 0 .. MaxRetries
    /\ queue \in Seq({"out", "dlq"} \X Messages)
    /\ commits \in Seq(1 .. Offsets)
    /\ failed \subseteq Messages
    /\ faults \in 0 .. MaxFaults
    /\ crashes \in 0 .. MaxCrashes /\ stops \in 0 .. MaxStops

Init ==
    /\ kind \in [Messages -> Kinds]
    /\ committed = 0 /\ outputs = << >> /\ dead = << >>
    /\ running = "up" /\ position = 0 /\ pc = "idle" /\ attempt = 0
    /\ queue = << >> /\ commits = << >>
    /\ failed = {}
    /\ faults = 0 /\ crashes = 0 /\ stops = 0

-----------------------------------------------------------------------------
(* The worker's thread. *)

Enqueue(topic) == queue' = Append(queue, <<topic, current>>)
Fault == faults < MaxFaults /\ faults' = faults + 1
\* consumer.commit(message=msg) only sends the request.
SendCommit == commits' = Append(commits, current + 1)

Poll ==
    /\ running = "up" /\ pc = "idle"
    /\ position < Offsets
    /\ position' = position + 1
    /\ pc' = "process"
    /\ UNCHANGED <<kind, broker, running, attempt, client, failed, budget>>

\* Variant: the offset is committed before the result is produced.
CommitFirst ==
    /\ pc = "process"
    /\ \/ kind[current] \in {"tombstone", "good"} /\ SendCommit /\ UNCHANGED failed
       \/ /\ kind[current] = "bad"
          /\ failed' = failed \cup {current}
          /\ UNCHANGED commits
    /\ pc' = CASE kind[current] = "tombstone" -> "idle"
               [] kind[current] = "good" -> "produce"
               [] OTHER -> "dead"
    /\ attempt' = 0
    /\ UNCHANGED <<kind, broker, running, position, queue, budget>>

\* commit may raise, and the message then goes to the dead letters.
TryCommit ==
    \/ SendCommit /\ pc' = "idle" /\ UNCHANGED <<failed, faults>>
    \/ /\ Fault
       /\ pc' = "dead"
       /\ failed' = failed \cup {current}
       /\ UNCHANGED commits

\* A tombstone is committed; decoding, normalising and the pipeline lead on to
\* the producer or to the dead letters.
Process ==
    /\ pc = "process"
    /\ \/ kind[current] = "tombstone" /\ TryCommit
       \/ /\ kind[current] = "good"
          /\ pc' = "produce"
          /\ UNCHANGED <<commits, failed, faults>>
       \/ /\ kind[current] = "bad"
          /\ pc' = "dead"
          /\ failed' = failed \cup {current}
          /\ UNCHANGED <<commits, faults>>
    /\ attempt' = 0
    /\ UNCHANGED <<kind, broker, running, position, queue, crashes, stops>>

\* Variant: produce is tried again although it returned.
ProduceWithoutReturn ==
    /\ pc = "produce"
    /\ Enqueue("out")
    /\ attempt' = attempt + 1
    /\ pc' = IF attempt + 1 = MaxRetries THEN "commit" ELSE "produce"
    /\ UNCHANGED <<kind, broker, running, position, commits, failed, budget>>

\* _produce_with_retry: an attempt that is taken into the queue ...
Produce ==
    /\ pc = "produce"
    /\ Enqueue("out")
    /\ pc' = "commit"
    /\ UNCHANGED <<kind, broker, running, position, attempt, commits, failed, budget>>

\* ... or raises, before it is taken: the poll(0) that follows raises only what a
\* callback raises, and the worker registers none.  After the last attempt the result
\* goes to the dead letters ...
ProduceRaises ==
    /\ pc = "produce"
    /\ Fault
    /\ attempt' = attempt + 1
    /\ pc' = IF attempt + 1 = MaxRetries THEN "divert" ELSE "produce"
    /\ UNCHANGED <<kind, broker, running, position, client, failed, crashes, stops>>

\* ... and the message counts as processed, whether or not that works.
Divert ==
    /\ pc = "divert"
    /\ \/ Enqueue("dlq") /\ UNCHANGED faults
       \/ Fault /\ UNCHANGED queue
    /\ pc' = "commit"
    /\ failed' = failed \cup {current}
    /\ UNCHANGED <<kind, broker, running, position, attempt, commits, crashes, stops>>

Commit ==
    /\ pc = "commit"
    /\ TryCommit
    /\ UNCHANGED <<kind, broker, running, position, attempt, queue, crashes, stops>>

\* Variant: the dead letter is only logged.
RouteNothing ==
    /\ pc = "dead"
    /\ pc' = "idle"
    /\ UNCHANGED <<kind, broker, running, position, attempt, client, failed, budget>>

\* _route_dead_letter, whose failure is only logged; nothing is committed.
RouteDeadLetter ==
    /\ pc = "dead"
    /\ \/ Enqueue("dlq") /\ UNCHANGED faults
       \/ Fault /\ UNCHANGED queue
    /\ pc' = "idle"
    /\ UNCHANGED <<kind, broker, running, position, attempt, commits, failed, crashes, stops>>

-----------------------------------------------------------------------------
(* The client library and the broker (external). *)

Deliver ==
    /\ queue # << >>
    /\ queue' = Tail(queue)
    /\ LET m == Head(queue) IN
        \/ /\ m[1] = "out"
           /\ outputs' = Append(outputs, m[2])
           /\ UNCHANGED <<dead, faults>>
        \/ /\ m[1] = "dlq"
           /\ dead' = Append(dead, m[2])
           /\ UNCHANGED <<outputs, faults>>
        \/ Fault /\ UNCHANGED <<outputs, dead>>     \* nobody asks for a report
    /\ UNCHANGED <<kind, committed, worker, commits, failed, crashes, stops>>

ApplyCommit ==
    /\ commits # << >>
    /\ committed' = Head(commits)
    /\ commits' = Tail(commits)
    /\ UNCHANGED <<kind, outputs, dead, worker, queue, failed, budget>>

-----------------------------------------------------------------------------
(* Stops, crashes and restarts. *)

HandleSignal ==
    /\ running = "up"
    /\ stops < MaxStops
    /\ running' = "stopping"
    /\ stops' = stops + 1
    /\ UNCHANGED <<kind, broker, position, pc, attempt, client, failed, faults,
                   crashes>>

Down ==
    /\ running' = "down"
    /\ queue' = << >> /\ commits' = << >>
    /\ pc' = "idle"

\* The loop ends with the message at hand, and flush waits ten seconds for the
\* queue; it is unspecified whether close waits for the commits.
Shutdown ==
    /\ running = "stopping" /\ pc = "idle"
    /\ \/ queue = << >> /\ UNCHANGED faults
       \/ queue # << >> /\ Fault
    /\ Down
    /\ UNCHANGED <<kind, broker, position, attempt, failed, crashes, stops>>

Crash ==
    /\ running # "down"
    /\ crashes < MaxCrashes
    /\ crashes' = crashes + 1
    /\ Down
    /\ UNCHANGED <<kind, broker, position, attempt, failed, faults, stops>>

\* Variant: the new consumer has a group of its own and reads from the earliest.
RestartAtEarliest ==
    /\ running = "down"
    /\ running' = "up"
    /\ position' = 0
    /\ UNCHANGED <<kind, broker, pc, attempt, client, failed, budget>>

\* The new consumer starts where the group stands.
Restart ==
    /\ running = "down"
    /\ running' = "up"
    /\ position' = committed
    /\ UNCHANGED <<kind, broker, pc, attempt, client, failed, budget>>

Step == Poll \/ Process \/ Produce \/ ProduceRaises \/ Divert \/ Commit
        \/ RouteDeadLetter

Next ==
    \/ Step
    \/ Deliver \/ ApplyCommit
    \/ HandleSignal \/ Shutdown \/ Crash \/ Restart

Spec == Init /\ [][Next]_vars

\* The worker's thread runs, the client library delivers and commits, and a
\* supervisor starts a worker that went down.
Fairness ==
    /\ WF_vars(Step) /\ WF_vars(Deliver) /\ WF_vars(ApplyCommit)
    /\ WF_vars(Shutdown) /\ WF_vars(Restart)

FairSpec == Spec /\ Fairness

-----------------------------------------------------------------------------
(* Properties. *)

Unharmed == faults = 0 /\ crashes = 0
Answered(m) == m \in Elements(outputs) \cup Elements(dead)

\* What the group has passed was handed to the producer first: no order of commits
\* and deliveries skips a message, as long as the broker answers and the worker
\* lives.
CommittedIsAnswered ==
    Unharmed =>
        \A m \in 0 .. committed - 1 :
            \/ kind[m] = "tombstone"
            \/ Answered(m) \/ m \in Queued("out") \cup Queued("dlq")

\* Results come out in the order of the payments and once each, until a restart:
\* retries and dead letters in between do not repeat or reorder any.
OutputsInOrder ==
    crashes + stops = 0 =>
        \A i, j \in DOMAIN outputs : i < j => outputs[i] < outputs[j]

\* The group never moves back, so no restart processes again what was committed
\* before an earlier one.
OffsetNeverMovesBack == [][committed' >= committed]_vars

\* In the end every payment is answered, with a result or a dead letter, unless
\* broker calls fail or the worker dies; an orderly stop loses nothing.
PaymentIsAnswered ==
    \A m \in Messages :
        <>(Answered(m) \/ kind[m] = "tombstone" \/ ~ Unharmed)

(* What the documentation says and the code does not keep. *)

\* kafka_worker.py:166: "On any error path the offset is NOT committed so the
\* message is redelivered on restart".
ErrorIsNotCommitted == \A m \in failed : committed <= m

\* docs/engineering/codebase/c5_streaming.md:19: "deliver validated events to the
\* pipeline topic with at-least-once guarantees".
AtLeastOnce ==
    \A m \in 0 .. committed - 1 :
        kind[m] = "good" => \/ Answered(m)
                            \/ m \in Queued("out") \cup Queued("dlq")
=============================================================================
