-------------------------- MODULE KafkaWorker_proofs --------------------------
(***************************************************************************)
(* The worker on a partition of any length, with any number of retries,    *)
(* faults, crashes and stops: the group's offset never moves back, skips   *)
(* nothing while the broker answers, and results come out in order.        *)
(***************************************************************************)
EXTENDS KafkaWorker, TLAPS

\* The messages below it are done with: committed, produced or on their way.
Settled == IF pc = "idle" THEN position ELSE current

\* Where the worker stands.
PlaceInv ==
    /\ pc # "idle" => position > 0 /\ running # "down"
    /\ pc = "produce" => attempt < MaxRetries
    /\ running = "down" => queue = << >> /\ commits = << >>

\* Commits under way are in order, between what is committed and what is done.
CommitInv ==
    /\ running # "down" => committed <= Settled
    /\ \A i \in DOMAIN commits : committed <= commits[i] /\ commits[i] <= Settled
    /\ \A i, j \in DOMAIN commits : i < j => commits[i] <= commits[j]

\* A result or a dead letter for the message is with the broker or the producer.
Handled(m) ==
    \/ kind[m] = "tombstone"
    \/ Answered(m)
    \/ m \in Queued("out") \cup Queued("dlq")

\* While the broker answers, what is done or committed is handled.
HandledInv ==
    Unharmed =>
        /\ \A m \in Messages :
              m < committed \/ (running # "down" /\ m < Settled) => Handled(m)
        /\ pc = "commit" => \A m \in Messages : m = current => Handled(m)

\* Results handed to the producer are of messages before this one.
Front == IF pc \in {"process", "produce"} THEN current ELSE position

InOrder ==
    /\ running = "up"
    /\ \A i, j \in DOMAIN outputs : i < j => outputs[i] < outputs[j]
    /\ \A i \in DOMAIN outputs : outputs[i] < Front
    /\ \A k \in DOMAIN queue : queue[k][1] = "out" =>
          /\ queue[k][2] < Front
          /\ \A i \in DOMAIN outputs : outputs[i] < queue[k][2]
    /\ \A k, l \in DOMAIN queue :
          queue[k][1] = "out" /\ queue[l][1] = "out" /\ k < l
              => queue[k][2] < queue[l][2]

\* Until a restart, outputs and the results still queued are in order.
OrderInv == crashes + stops = 0 => InOrder

IInv == PlaceInv /\ CommitInv /\ HandledInv /\ OrderInv

-----------------------------------------------------------------------------
(* Queues. *)

LEMMA AppendAdds ==
    ASSUME NEW S, NEW s \in Seq(S), NEW e \in S
    PROVE  /\ Append(s, e) \in Seq(S)
           /\ DOMAIN Append(s, e) = 1 .. Len(s) + 1
           /\ DOMAIN s = 1 .. Len(s) /\ Len(s) \in Nat
           /\ Append(s, e)[Len(s) + 1] = e
           /\ \A i \in DOMAIN s : Append(s, e)[i] = s[i]
    OBVIOUS

LEMMA ElementsOfAppend ==
    ASSUME NEW S, NEW s \in Seq(S), NEW e \in S
    PROVE  /\ e \in Elements(Append(s, e))
           /\ Elements(s) \subseteq Elements(Append(s, e))
<1>1. e \in Elements(Append(s, e))
  BY AppendAdds DEF Elements
<1>2. ASSUME NEW i \in DOMAIN s
      PROVE  i \in DOMAIN Append(s, e) /\ s[i] = Append(s, e)[i]
  BY AppendAdds
<1>q. QED BY <1>1, <1>2 DEF Elements

LEMMA TailMoves ==
    ASSUME NEW S, NEW s \in Seq(S), s # << >>
    PROVE  /\ Tail(s) \in Seq(S) /\ Head(s) \in S /\ Head(s) = s[1]
           /\ DOMAIN s = 1 .. Len(s) /\ Len(s) \in Nat \ {0}
           /\ DOMAIN Tail(s) = 1 .. Len(s) - 1
           /\ \A i \in DOMAIN Tail(s) : Tail(s)[i] = s[i + 1]
    OBVIOUS

LEMMA ElementsOfTail ==
    ASSUME NEW S, NEW s \in Seq(S), s # << >>, NEW e \in Elements(s)
    PROVE  e = Head(s) \/ e \in Elements(Tail(s))
<1>1. PICK i \in DOMAIN s : e = s[i]
  BY DEF Elements
<1>2. CASE i = 1
  BY <1>1, <1>2, TailMoves
<1>3. CASE i # 1
  <2>1. i - 1 \in DOMAIN Tail(s) /\ Tail(s)[i - 1] = s[i]
    BY <1>3, TailMoves
  <2>q. QED BY <1>1, <2>1 DEF Elements
<1>q. QED BY <1>2, <1>3

-----------------------------------------------------------------------------
(* Types. *)

LEMMA ConstantTypes ==
    /\ Offsets \in Nat /\ MaxRetries \in Nat \ {0}
    /\ MaxFaults \in Nat /\ MaxCrashes \in Nat /\ MaxStops \in Nat
    BY KafkaWorkerAssumption

LEMMA Predecessor ==
    ASSUME NEW n \in Nat, n > 0
    PROVE  n - 1 \in Nat
    OBVIOUS

\* The message at hand is one of the partition.
LEMMA CurrentType ==
    ASSUME TypeOK, PlaceInv, pc # "idle"
    PROVE  current \in Messages /\ current + 1 = position /\ position \in 1 .. Offsets
    BY ConstantTypes DEF TypeOK, PlaceInv, current, Messages

LEMMA SendCommitType ==
    ASSUME TypeOK, PlaceInv, pc # "idle", SendCommit
    PROVE  commits' \in Seq(1 .. Offsets)
    BY CurrentType, AppendAdds DEF TypeOK, SendCommit

LEMMA EnqueueType ==
    ASSUME TypeOK, PlaceInv, pc # "idle", NEW topic \in {"out", "dlq"}, Enqueue(topic)
    PROVE  queue' \in Seq({"out", "dlq"} \X Messages)
    BY CurrentType, AppendAdds DEF TypeOK, Enqueue

LEMMA FaultType ==
    ASSUME TypeOK, Fault
    PROVE  faults' \in 0 .. MaxFaults /\ faults' > 0
    BY ConstantTypes DEF TypeOK, Fault

LEMMA TypeInit ==
    ASSUME Init
    PROVE  TypeOK
    BY ConstantTypes DEF Init, TypeOK

LEMMA TypeStep ==
    ASSUME TypeOK, PlaceInv, [Next]_vars
    PROVE  TypeOK'
<1> USE DEF TypeOK
<1>1. CASE Poll
  BY <1>1, ConstantTypes DEF Poll, broker, client, budget
<1>2. CASE Process
  BY <1>2, CurrentType, SendCommitType, FaultType, ConstantTypes DEF Process, TryCommit, broker
<1>3. CASE Produce
  BY <1>3, CurrentType, EnqueueType DEF Produce, broker, budget
<1>4. CASE ProduceRaises
  BY <1>4, FaultType, ConstantTypes DEF ProduceRaises, PlaceInv, broker, client
<1>5. CASE Divert
  BY <1>5, CurrentType, EnqueueType, FaultType DEF Divert, broker
<1>6. CASE Commit
  BY <1>6, CurrentType, SendCommitType, FaultType DEF Commit, TryCommit, broker
<1>7. CASE RouteDeadLetter
  BY <1>7, EnqueueType, FaultType DEF RouteDeadLetter, broker
<1>8. CASE Deliver
  <2>1. Tail(queue) \in Seq({"out", "dlq"} \X Messages) /\ Head(queue)[2] \in Messages
    BY <1>8, TailMoves DEF Deliver
  <2>2. outputs' \in Seq(Messages) /\ dead' \in Seq(Messages) /\ faults' \in 0 .. MaxFaults
    <3>1. /\ outputs' = outputs \/ outputs' = Append(outputs, Head(queue)[2])
          /\ dead' = dead \/ dead' = Append(dead, Head(queue)[2])
          /\ faults' = faults \/ Fault
      BY <1>8 DEF Deliver
    <3>2. Append(outputs, Head(queue)[2]) \in Seq(Messages)
          /\ Append(dead, Head(queue)[2]) \in Seq(Messages)
      BY <2>1, AppendAdds
    <3>q. QED BY <3>1, <3>2, FaultType
  <2>q. QED BY <1>8, <2>1, <2>2 DEF Deliver, worker
<1>9. CASE ApplyCommit
  <2>1. Tail(commits) \in Seq(1 .. Offsets) /\ Head(commits) \in 1 .. Offsets
    BY <1>9, TailMoves DEF ApplyCommit
  <2>q. QED BY <1>9, <2>1, ConstantTypes DEF ApplyCommit, worker, budget
<1>10. CASE HandleSignal
  BY <1>10, ConstantTypes DEF HandleSignal, broker, client
<1>11. CASE Shutdown
  BY <1>11, FaultType DEF Shutdown, Down, broker
<1>12. CASE Crash
  BY <1>12, ConstantTypes DEF Crash, Down, broker
<1>13. CASE Restart
  BY <1>13 DEF Restart, broker, client, budget
<1>14. CASE UNCHANGED vars
  BY <1>14 DEF vars, broker, worker, client, budget
<1>q. QED BY <1>1, <1>2, <1>3, <1>4, <1>5, <1>6, <1>7, <1>8, <1>9, <1>10, <1>11,
             <1>12, <1>13, <1>14 DEF Next, Step

-----------------------------------------------------------------------------
(* Where the worker stands. *)

LEMMA PlaceStep ==
    ASSUME TypeOK, PlaceInv, [Next]_vars
    PROVE  PlaceInv'
<1> USE DEF PlaceInv
<1>1. CASE Poll BY <1>1 DEF TypeOK, Poll, client
<1>2. CASE Process BY <1>2, ConstantTypes DEF Process, TryCommit
<1>3. CASE Produce BY <1>3 DEF Produce
<1>4. CASE ProduceRaises BY <1>4, ConstantTypes DEF TypeOK, ProduceRaises, client
<1>5. CASE Divert BY <1>5 DEF Divert
<1>6. CASE Commit BY <1>6 DEF Commit, TryCommit
<1>7. CASE RouteDeadLetter BY <1>7 DEF RouteDeadLetter
<1>8. CASE Deliver BY <1>8 DEF Deliver, worker
<1>9. CASE ApplyCommit BY <1>9 DEF ApplyCommit, worker
<1>10. CASE HandleSignal BY <1>10 DEF HandleSignal, client
<1>11. CASE Shutdown BY <1>11 DEF Shutdown, Down
<1>12. CASE Crash BY <1>12 DEF Crash, Down
<1>13. CASE Restart BY <1>13 DEF Restart, client
<1>14. CASE UNCHANGED vars BY <1>14 DEF vars, worker, client
<1>q. QED BY <1>1, <1>2, <1>3, <1>4, <1>5, <1>6, <1>7, <1>8, <1>9, <1>10, <1>11,
             <1>12, <1>13, <1>14 DEF Next, Step

-----------------------------------------------------------------------------
(* Commits. *)

\* A commit is sent for the message at hand, which is done by then.
LEMMA SendCommitKeeps ==
    ASSUME TypeOK, PlaceInv, CommitInv, pc # "idle", SendCommit, pc' = "idle",
           UNCHANGED <<committed, running, position>>
    PROVE  CommitInv'
<1>1. commits' = Append(commits, position)
  BY CurrentType DEF SendCommit
<1>2. /\ DOMAIN commits' = 1 .. Len(commits) + 1
      /\ DOMAIN commits = 1 .. Len(commits) /\ Len(commits) \in Nat
      /\ commits'[Len(commits) + 1] = position
      /\ \A i \in DOMAIN commits : commits'[i] = commits[i]
  BY <1>1, CurrentType, AppendAdds DEF TypeOK
<1>3. Settled' = position /\ Settled < position /\ committed <= Settled /\ running # "down"
      /\ Settled \in Nat /\ position \in Nat /\ committed \in Nat
  BY CurrentType, ConstantTypes DEF TypeOK, PlaceInv, CommitInv, Settled, current, Messages
<1>4. \A i \in DOMAIN commits' : committed <= commits'[i] /\ commits'[i] <= position
  <2>1. \A i \in DOMAIN commits : commits[i] \in Nat
    BY ConstantTypes DEF TypeOK
  <2>2. ASSUME NEW i \in DOMAIN commits
        PROVE  committed <= commits[i] /\ commits[i] <= position
    BY <1>3, <2>1 DEF CommitInv
  <2>q. QED BY <1>2, <1>3, <2>2
<1>5. ASSUME NEW i \in DOMAIN commits', NEW j \in DOMAIN commits', i < j
      PROVE  commits'[i] <= commits'[j]
  <2>1. CASE j = Len(commits) + 1
    BY <1>2, <1>4, <2>1
  <2>2. CASE j # Len(commits) + 1
    <3>1. i \in DOMAIN commits /\ j \in DOMAIN commits
      BY <1>2, <1>5, <2>2
    <3>q. QED BY <1>2, <1>5, <3>1 DEF CommitInv
  <2>q. QED BY <2>1, <2>2
<1>q. QED BY <1>3, <1>4, <1>5 DEF CommitInv

\* The work on the message goes on, or ends without a commit.
LEMMA DoneGrows ==
    ASSUME TypeOK, PlaceInv, CommitInv, UNCHANGED <<committed, commits>>,
           Settled' >= Settled, Settled' \in Nat, running' = "down" \/ running # "down"
    PROVE  CommitInv'
<1>1. Settled \in Nat
  BY CurrentType, ConstantTypes DEF TypeOK, Settled, Messages
<1>2. committed \in Nat /\ \A i \in DOMAIN commits : commits[i] \in Nat
  BY ConstantTypes DEF TypeOK
<1>q. QED BY <1>1, <1>2 DEF CommitInv

LEMMA CommitStep ==
    ASSUME TypeOK, PlaceInv, CommitInv, [Next]_vars
    PROVE  CommitInv' /\ committed <= committed'
<1>t. committed \in Nat /\ position \in Nat
  BY ConstantTypes DEF TypeOK
<1>1. CASE Poll
  <2>1. Settled' = Settled
    BY <1>1, <1>t DEF Poll, Settled, current
  <2>q. QED BY <1>1, <2>1, <1>t, DoneGrows DEF Poll, broker, client, Settled
<1>2. CASE Process
  <2>1. CASE SendCommit /\ pc' = "idle"
    BY <1>2, <2>1, <1>t, SendCommitKeeps DEF Process, TryCommit, broker
  <2>2. CASE UNCHANGED commits /\ pc' # "idle"
    BY <1>2, <2>2, <1>t, DoneGrows, CurrentType DEF Process, TryCommit, broker, Settled, current, Messages
  <2>q. QED BY <1>2, <2>1, <2>2 DEF Process, TryCommit
<1>3. CASE Produce
  BY <1>3, <1>t, DoneGrows, CurrentType DEF Produce, broker, Settled, current, Messages
<1>4. CASE ProduceRaises
  BY <1>4, <1>t, DoneGrows, CurrentType DEF ProduceRaises, broker, client, Settled, current, Messages
<1>5. CASE Divert
  BY <1>5, <1>t, DoneGrows, CurrentType DEF Divert, broker, Settled, current, Messages
<1>6. CASE Commit
  <2>1. CASE SendCommit /\ pc' = "idle"
    BY <1>6, <2>1, <1>t, SendCommitKeeps DEF Commit, TryCommit, broker
  <2>2. CASE UNCHANGED commits /\ pc' # "idle"
    BY <1>6, <2>2, <1>t, DoneGrows, CurrentType DEF Commit, TryCommit, broker, Settled, current, Messages
  <2>q. QED BY <1>6, <2>1, <2>2 DEF Commit, TryCommit
<1>7. CASE RouteDeadLetter
  <2>1. Settled' = position /\ Settled = position - 1
    BY <1>7 DEF RouteDeadLetter, Settled, current
  <2>q. QED BY <1>7, <2>1, <1>t, DoneGrows DEF RouteDeadLetter, broker, PlaceInv
<1>8. CASE Deliver
  BY <1>8, <1>t DEF Deliver, worker, CommitInv, Settled, current
<1>9. CASE ApplyCommit
  <2>1. /\ DOMAIN commits' = 1 .. Len(commits) - 1 /\ DOMAIN commits = 1 .. Len(commits)
        /\ Len(commits) \in Nat \ {0} /\ committed' = commits[1]
        /\ \A i \in DOMAIN commits' : commits'[i] = commits[i + 1]
    BY <1>9, TailMoves DEF ApplyCommit, TypeOK
  <2>2. Settled' = Settled /\ running' = running
    BY <1>9 DEF ApplyCommit, worker, Settled, current
  <2>3. committed <= committed' /\ committed' <= Settled
    BY <2>1 DEF CommitInv
  <2>4. \A i \in DOMAIN commits' : committed' <= commits'[i] /\ commits'[i] <= Settled
    BY <2>1 DEF CommitInv
  <2>5. \A i, j \in DOMAIN commits' : i < j => commits'[i] <= commits'[j]
    BY <2>1 DEF CommitInv
  <2>q. QED BY <2>2, <2>3, <2>4, <2>5 DEF CommitInv
<1>10. CASE HandleSignal
  BY <1>10, <1>t DEF HandleSignal, broker, client, CommitInv, Settled, current
<1>11. CASE Shutdown
  BY <1>11, <1>t DEF Shutdown, Down, broker, CommitInv
<1>12. CASE Crash
  BY <1>12, <1>t DEF Crash, Down, broker, CommitInv
<1>13. CASE Restart
  BY <1>13, <1>t DEF Restart, broker, client, CommitInv, PlaceInv, Settled
<1>14. CASE UNCHANGED vars
  BY <1>14, <1>t DEF vars, broker, worker, client, CommitInv, Settled, current
<1>q. QED BY <1>1, <1>2, <1>3, <1>4, <1>5, <1>6, <1>7, <1>8, <1>9, <1>10, <1>11,
             <1>12, <1>13, <1>14 DEF Next, Step

-----------------------------------------------------------------------------
(* Nothing is skipped. *)

\* What is handled stays handled while the producer's queue only grows.
LEMMA HandledStays ==
    ASSUME TypeOK, NEW m, Handled(m), UNCHANGED <<kind, outputs, dead>>,
           Elements(queue) \subseteq Elements(queue')
    PROVE  Handled(m)'
    BY DEF Handled, Answered, Queued

LEMMA EnqueueHandles ==
    ASSUME TypeOK, PlaceInv, pc # "idle", NEW topic \in {"out", "dlq"}, Enqueue(topic)
    PROVE  /\ Elements(queue) \subseteq Elements(queue')
           /\ <<topic, current>> \in Elements(queue')
<1>1. <<topic, current>> \in {"out", "dlq"} \X Messages
  BY CurrentType
<1>q. QED BY <1>1, ElementsOfAppend DEF TypeOK, Enqueue

\* A delivery moves the head of the queue to its topic.
LEMMA DeliverHandles ==
    ASSUME TypeOK, Deliver, faults' = faults, NEW m \in Messages, Handled(m)
    PROVE  Handled(m)'
<1>1. /\ outputs' \in Seq(Messages) /\ dead' \in Seq(Messages)
      /\ Elements(outputs) \subseteq Elements(outputs')
      /\ Elements(dead) \subseteq Elements(dead')
      /\ Head(queue)[1] = "out" => Head(queue)[2] \in Elements(outputs')
      /\ Head(queue)[1] = "dlq" => Head(queue)[2] \in Elements(dead')
  <2>0. Head(queue) \in {"out", "dlq"} \X Messages /\ faults \in Nat
    BY TailMoves, ConstantTypes DEF Deliver, TypeOK
  <2>1. CASE outputs' = Append(outputs, Head(queue)[2]) /\ Head(queue)[1] = "out" /\ UNCHANGED dead
    BY <2>0, <2>1, ElementsOfAppend, AppendAdds DEF TypeOK
  <2>2. CASE dead' = Append(dead, Head(queue)[2]) /\ Head(queue)[1] = "dlq" /\ UNCHANGED outputs
    BY <2>0, <2>2, ElementsOfAppend, AppendAdds DEF TypeOK
  <2>3. ~ Fault
    BY <2>0 DEF Fault
  <2>q. QED BY <2>1, <2>2, <2>3 DEF Deliver
<1>2. kind' = kind /\ queue' = Tail(queue) /\ queue # << >>
  BY DEF Deliver
<1>3. CASE m \in Queued("out") \cup Queued("dlq")
  <2>1. PICK topic \in {"out", "dlq"} : <<topic, m>> \in Elements(queue)
    BY <1>3 DEF Queued
  <2>2. <<topic, m>> = Head(queue) \/ <<topic, m>> \in Elements(queue')
    BY <1>2, <2>1, ElementsOfTail DEF TypeOK
  <2>3. CASE <<topic, m>> = Head(queue)
    BY <1>1, <2>3 DEF Handled, Answered
  <2>4. CASE <<topic, m>> \in Elements(queue')
    BY <2>4 DEF Handled, Queued
  <2>q. QED BY <2>2, <2>3, <2>4
<1>4. CASE kind[m] = "tombstone" \/ Answered(m)
  BY <1>1, <1>2, <1>4 DEF Handled, Answered
<1>q. QED BY <1>3, <1>4 DEF Handled

\* A step keeps HandledInv if it keeps what is handled and handles what it does.
LEMMA HandledKept ==
    ASSUME TypeOK, CommitInv, HandledInv, Unharmed' => Unharmed,
           Unharmed' => \A m \in Messages : Handled(m) => Handled(m)',
           committed' \in Nat, Settled \in Nat, Settled' \in Nat,
           Unharmed' => committed' <= committed \/ (running # "down" /\ committed' <= Settled),
           Unharmed' /\ running' # "down" => \A m \in Messages :
               m < Settled' => \/ Handled(m)'
                               \/ running # "down" /\ m < Settled
                               \/ m < committed,
           Unharmed' /\ pc' = "commit" => \A m \in Messages : m = current' => Handled(m)'
    PROVE  HandledInv'
<1>1. committed \in Nat
  BY ConstantTypes DEF TypeOK
<1>2. ASSUME Unharmed', NEW m \in Messages,
             m < committed' \/ (running' # "down" /\ m < Settled')
      PROVE  Handled(m)'
  <2>0. m \in Nat
    BY ConstantTypes DEF Messages
  <2>1. CASE m < committed \/ (running # "down" /\ m < Settled)
    BY <1>2, <2>1 DEF HandledInv
  <2>2. CASE m < committed'
    BY <1>1, <1>2, <2>0, <2>1, <2>2
  <2>3. CASE running' # "down" /\ m < Settled'
    BY <1>2, <2>1, <2>3
  <2>q. QED BY <1>2, <2>2, <2>3
<1>3. Messages' = Messages
  BY DEF Messages
<1>q. QED BY <1>2, <1>3 DEF HandledInv

\* The same for a step of the worker that ends the work on a message.
LEMMA HandledGrows ==
    ASSUME TypeOK, HandledInv, UNCHANGED <<committed, faults, crashes>>,
           running # "down", pc' # "commit",
           \A m \in Messages : Handled(m) => Handled(m)',
           Unharmed => \A m \in Messages : m < Settled' => Handled(m)' \/ m < Settled
    PROVE  HandledInv'
<1>1. ASSUME Unharmed', NEW m \in Messages, m < committed' \/ m < Settled'
      PROVE  Handled(m)'
  <2>1. Unharmed
    BY <1>1 DEF Unharmed
  <2>2. Handled(m)' \/ m < committed \/ m < Settled
    BY <1>1, <2>1
  <2>3. m < committed \/ m < Settled => Handled(m)
    BY <2>1 DEF HandledInv
  <2>q. QED BY <2>2, <2>3
<1>2. Messages' = Messages
  BY DEF Messages
<1>q. QED BY <1>1, <1>2 DEF HandledInv

\* An unharmed step handles the message at hand before it is done.
LEMMA HandledStep ==
    ASSUME TypeOK, PlaceInv, CommitInv, HandledInv, [Next]_vars
    PROVE  HandledInv'
<1>t. /\ committed \in Nat /\ position \in Nat /\ Settled \in Nat
      /\ committed' \in Nat /\ position' \in Nat /\ Settled' \in Nat
      /\ faults \in Nat /\ crashes \in Nat
  <2>1. TypeOK' /\ PlaceInv'
    BY TypeStep, PlaceStep
  <2>2. committed \in Nat /\ position \in Nat /\ committed' \in Nat /\ position' \in Nat
        /\ faults \in Nat /\ crashes \in Nat
    BY <2>1, ConstantTypes DEF TypeOK
  <2>3. Settled \in Nat
    BY <2>2 DEF PlaceInv, Settled, current
  <2>4. Settled' \in Nat
    <3>1. pc' # "idle" => position' > 0
      BY <2>1 DEF PlaceInv
    <3>2. current' = position' - 1
      BY DEF current
    <3>3. CASE pc' = "idle"
      BY <2>2, <3>3 DEF Settled
    <3>4. CASE pc' # "idle"
      BY <2>2, <3>1, <3>2, <3>4, Predecessor DEF Settled
    <3>q. QED BY <3>3, <3>4
  <2>q. QED BY <2>2, <2>3, <2>4
<1>f. Fault => faults' # 0
  BY <1>t DEF Fault
<1>c. pc # "idle" => /\ current = position - 1 /\ current \in Messages
                     /\ \A m \in Messages : m < position => m = current \/ m < current
  BY CurrentType DEF current, Messages, TypeOK
<1>1. CASE Poll
  <2>1. UNCHANGED <<kind, committed, outputs, dead, queue, faults, crashes, running>>
        /\ Settled' = Settled /\ pc' = "process"
    BY <1>1, <1>t DEF Poll, broker, client, budget, Settled, current
  <2>2. \A m \in Messages : Handled(m) => Handled(m)'
    BY <2>1, HandledStays
  <2>q. QED BY <1>t, <2>1, <2>2, HandledKept DEF Unharmed
<1>2. CASE Process
  <2>1. CASE Fault
    BY <1>f, <2>1 DEF HandledInv, Unharmed
  <2>2. CASE UNCHANGED faults
    <3>1. UNCHANGED <<kind, committed, outputs, dead, queue, faults, crashes, running, position>>
          /\ pc = "process"
      BY <1>2, <2>2 DEF Process, broker
    <3>2. \A m \in Messages : Handled(m) => Handled(m)'
      BY <3>1, HandledStays
    <3>3. pc' # "commit" /\ (pc' = "idle" => kind[current] = "tombstone")
      BY <1>2 DEF Process, TryCommit
    <3>4. pc' = "idle" => Handled(current)
      BY <3>3 DEF Handled
    <3>5. \A m \in Messages : m < Settled' => Handled(m)' \/ m < Settled
      <4>1. CASE pc' = "idle"
        BY <1>c, <3>1, <3>2, <3>4, <4>1 DEF Settled
      <4>2. CASE pc' # "idle"
        BY <3>1, <4>2 DEF Settled, current
      <4>q. QED BY <4>1, <4>2
    <3>6. running # "down"
      BY <3>1 DEF PlaceInv
    <3>q. QED BY <3>1, <3>2, <3>3, <3>5, <3>6, HandledGrows
  <2>q. QED BY <1>2, <2>1, <2>2 DEF Process, TryCommit
<1>3. CASE Produce
  <2>1. /\ UNCHANGED <<kind, committed, outputs, dead, faults, crashes, running, position>>
        /\ pc = "produce" /\ Enqueue("out") /\ pc' = "commit"
    BY <1>3 DEF Produce, broker, budget
  <2>2. Elements(queue) \subseteq Elements(queue') /\ <<"out", current>> \in Elements(queue')
    BY <2>1, EnqueueHandles
  <2>3. \A m \in Messages : Handled(m) => Handled(m)'
    BY <2>1, <2>2, HandledStays
  <2>4. /\ \A m \in Messages : m = current => Handled(m)'
        /\ Settled' = Settled /\ current' = current /\ running # "down"
    BY <1>c, <2>1, <2>2 DEF Handled, Queued, Settled, current, PlaceInv, Messages
  <2>q. QED BY <1>t, <2>1, <2>3, <2>4, HandledKept DEF Unharmed
<1>4. CASE ProduceRaises
  BY <1>4, <1>f DEF ProduceRaises, HandledInv, Unharmed
<1>5. CASE Divert
  <2>1. CASE Fault
    BY <1>f, <2>1 DEF HandledInv, Unharmed
  <2>2. CASE Enqueue("dlq") /\ UNCHANGED faults
    <3>1. /\ UNCHANGED <<kind, committed, outputs, dead, faults, crashes, running, position>>
          /\ pc = "divert" /\ pc' = "commit"
      BY <1>5, <2>2 DEF Divert, broker
    <3>2. Elements(queue) \subseteq Elements(queue') /\ <<"dlq", current>> \in Elements(queue')
      BY <2>2, <3>1, EnqueueHandles
    <3>3. \A m \in Messages : Handled(m) => Handled(m)'
      BY <3>1, <3>2, HandledStays
    <3>4. /\ \A m \in Messages : m = current => Handled(m)'
          /\ Settled' = Settled /\ current' = current /\ running # "down"
      BY <1>c, <3>1, <3>2 DEF Handled, Queued, Settled, current, PlaceInv, Messages
    <3>q. QED BY <1>t, <3>1, <3>3, <3>4, HandledKept DEF Unharmed
  <2>q. QED BY <1>5, <2>1, <2>2 DEF Divert
<1>6. CASE Commit
  <2>1. CASE Fault
    BY <1>f, <2>1 DEF HandledInv, Unharmed
  <2>2. CASE pc' = "idle" /\ UNCHANGED faults
    <3>1. /\ UNCHANGED <<kind, committed, outputs, dead, queue, faults, crashes, running, position>>
          /\ pc = "commit"
      BY <1>6, <2>2 DEF Commit, TryCommit, broker
    <3>2. \A m \in Messages : Handled(m) => Handled(m)'
      BY <3>1, HandledStays
    <3>3. Unharmed => \A m \in Messages : m = current => Handled(m)
      BY <3>1 DEF HandledInv
    <3>4. Unharmed => \A m \in Messages : m < Settled' => Handled(m)' \/ m < Settled
      BY <1>c, <2>2, <3>1, <3>2, <3>3 DEF Settled
    <3>5. running # "down"
      BY <3>1 DEF PlaceInv
    <3>6. pc' # "commit"
      BY <2>2
    <3>q. QED BY <2>2, <3>1, <3>2, <3>4, <3>5, <3>6, HandledGrows
  <2>q. QED BY <1>6, <2>1, <2>2 DEF Commit, TryCommit
<1>7. CASE RouteDeadLetter
  <2>1. CASE Fault
    BY <1>f, <2>1 DEF HandledInv, Unharmed
  <2>2. CASE Enqueue("dlq") /\ UNCHANGED faults
    <3>1. /\ UNCHANGED <<kind, committed, outputs, dead, faults, crashes, running, position>>
          /\ pc = "dead" /\ pc' = "idle"
      BY <1>7, <2>2 DEF RouteDeadLetter, broker
    <3>2. Elements(queue) \subseteq Elements(queue') /\ <<"dlq", current>> \in Elements(queue')
      BY <2>2, <3>1, EnqueueHandles
    <3>3. \A m \in Messages : Handled(m) => Handled(m)'
      BY <3>1, <3>2, HandledStays
    <3>4. running # "down" /\ \A m \in Messages : m = current => Handled(m)'
      BY <1>c, <3>1, <3>2 DEF Handled, Queued, PlaceInv, Messages
    <3>5. \A m \in Messages : m < Settled' => Handled(m)' \/ m < Settled
      BY <1>c, <3>1, <3>4 DEF Settled
    <3>6. pc' # "commit"
      BY <3>1
    <3>q. QED BY <3>1, <3>3, <3>4, <3>5, <3>6, HandledGrows
  <2>q. QED BY <1>7, <2>1, <2>2 DEF RouteDeadLetter
<1>8. CASE Deliver
  <2>1. /\ UNCHANGED <<kind, committed, running, position, pc, crashes>>
        /\ (faults' = faults \/ Fault) /\ Settled' = Settled /\ current' = current
    BY <1>8 DEF Deliver, worker, Settled, current
  <2>2. CASE Fault
    BY <1>f, <2>2 DEF HandledInv, Unharmed
  <2>3. CASE faults' = faults
    <3>1. \A m \in Messages : Handled(m) => Handled(m)'
      BY <1>8, <2>3, DeliverHandles
    <3>2. Unharmed /\ pc = "commit" => \A m \in Messages : m = current => Handled(m)'
      BY <3>1 DEF HandledInv
    <3>q. QED BY <1>t, <2>1, <2>3, <3>1, <3>2, HandledKept DEF Unharmed
  <2>q. QED BY <2>1, <2>2, <2>3
<1>9. CASE ApplyCommit
  <2>1. /\ UNCHANGED <<kind, outputs, dead, queue, running, position, pc, faults, crashes>>
        /\ committed' = Head(commits) /\ Settled' = Settled /\ current' = current
        /\ commits # << >>
    BY <1>9 DEF ApplyCommit, worker, budget, Settled, current
  <2>2. \A m \in Messages : Handled(m) => Handled(m)'
    BY <2>1, HandledStays
  <2>3. running # "down" /\ committed' <= Settled
    BY <2>1, TailMoves DEF PlaceInv, CommitInv, TypeOK
  <2>4. Unharmed /\ pc = "commit" => \A m \in Messages : m = current => Handled(m)'
    BY <2>2 DEF HandledInv
  <2>q. QED BY <1>t, <2>1, <2>2, <2>3, <2>4, HandledKept DEF Unharmed
<1>10. CASE HandleSignal
  <2>1. /\ UNCHANGED <<kind, committed, outputs, dead, queue, position, pc, faults, crashes>>
        /\ Settled' = Settled /\ current' = current /\ running # "down"
    BY <1>10 DEF HandleSignal, broker, client, Settled, current
  <2>2. \A m \in Messages : Handled(m) => Handled(m)'
    BY <2>1, HandledStays
  <2>4. Unharmed /\ pc = "commit" => \A m \in Messages : m = current => Handled(m)'
    BY <2>2 DEF HandledInv
  <2>q. QED BY <1>t, <2>1, <2>2, <2>4, HandledKept DEF Unharmed
<1>11. CASE Shutdown
  <2>1. /\ UNCHANGED <<kind, committed, outputs, dead, position, crashes>>
        /\ running' = "down" /\ pc' = "idle" /\ queue' = << >>
    BY <1>11 DEF Shutdown, Down, broker
  <2>2. CASE Fault
    BY <1>f, <2>2 DEF HandledInv, Unharmed
  <2>3. CASE queue = << >> /\ UNCHANGED faults
    <3>1. \A m \in Messages : Handled(m) => Handled(m)'
      BY <2>1, <2>3, HandledStays
    <3>q. QED BY <1>t, <2>1, <2>3, <3>1, HandledKept DEF Unharmed
  <2>q. QED BY <1>11, <2>2, <2>3 DEF Shutdown
<1>12. CASE Crash
  BY <1>12, <1>t DEF Crash, HandledInv, Unharmed
<1>13. CASE Restart
  <2>1. /\ UNCHANGED <<kind, committed, outputs, dead, queue, pc, faults, crashes>>
        /\ position' = committed /\ pc = "idle" /\ Settled' = committed
    BY <1>13 DEF Restart, broker, client, budget, PlaceInv, Settled
  <2>2. \A m \in Messages : Handled(m) => Handled(m)'
    BY <2>1, HandledStays
  <2>q. QED BY <1>t, <2>1, <2>2, HandledKept DEF Unharmed
<1>14. CASE UNCHANGED vars
  BY <1>14 DEF vars, broker, worker, client, budget, HandledInv, Unharmed, Handled,
     Answered, Queued, Settled, current, Messages
<1>q. QED BY <1>1, <1>2, <1>3, <1>4, <1>5, <1>6, <1>7, <1>8, <1>9, <1>10, <1>11,
             <1>12, <1>13, <1>14 DEF Next, Step

-----------------------------------------------------------------------------
(* The order of the results. *)

LEMMA QueueTypes ==
    ASSUME TypeOK
    PROVE  /\ DOMAIN outputs = 1 .. Len(outputs) /\ Len(outputs) \in Nat
           /\ \A i \in DOMAIN outputs : outputs[i] \in Nat
           /\ DOMAIN queue = 1 .. Len(queue) /\ Len(queue) \in Nat
           /\ \A k \in DOMAIN queue : queue[k][2] \in Nat
<1>1. \A i \in DOMAIN outputs : outputs[i] \in Messages
  BY DEF TypeOK
<1>2. \A k \in DOMAIN queue : queue[k][2] \in Messages
  BY DEF TypeOK
<1>3. Messages \subseteq Nat
  BY ConstantTypes DEF Messages
<1>4. DOMAIN outputs = 1 .. Len(outputs) /\ Len(outputs) \in Nat
  BY DEF TypeOK
<1>5. DOMAIN queue = 1 .. Len(queue) /\ Len(queue) \in Nat
  BY DEF TypeOK
<1>q. QED BY <1>1, <1>2, <1>3, <1>4, <1>5

LEMMA Transitive ==
    ASSUME NEW a \in Nat, NEW b \in Nat, NEW c \in Nat, a < b, b <= c
    PROVE  a < c
    OBVIOUS

\* The worker goes on to a later message.
LEMMA OrderMonotonic ==
    ASSUME TypeOK, InOrder, UNCHANGED <<outputs, queue, running>>,
           Front \in Nat, Front' \in Nat, Front <= Front'
    PROVE  InOrder'
<1>1. \A i \in DOMAIN outputs : outputs[i] < Front'
  BY QueueTypes, Transitive DEF InOrder
<1>2. \A k \in DOMAIN queue : queue[k][1] = "out" => queue[k][2] < Front'
  BY QueueTypes, Transitive DEF InOrder
<1>q. QED BY <1>1, <1>2 DEF InOrder

\* A result is queued behind those of earlier messages.
LEMMA OrderEnqueue ==
    ASSUME TypeOK, InOrder, UNCHANGED <<outputs, running>>, current \in Messages,
           NEW topic \in {"out", "dlq"}, Enqueue(topic),
           Front \in Nat, Front' \in Nat, Front <= Front',
           topic = "out" => Front = current /\ current < Front'
    PROVE  InOrder'
<1> DEFINE last == Len(queue) + 1
<1>1. /\ DOMAIN queue' = 1 .. last
      /\ queue'[last] = <<topic, current>>
      /\ \A k \in DOMAIN queue : queue'[k] = queue[k]
  BY AppendAdds DEF TypeOK, Enqueue
<1>2. \A k \in DOMAIN queue' : k = last \/ k \in DOMAIN queue
  BY <1>1, QueueTypes
<1>3. \A i \in DOMAIN outputs : outputs[i] < Front'
  BY QueueTypes, Transitive DEF InOrder
<1>4. ASSUME NEW k \in DOMAIN queue', queue'[k][1] = "out"
      PROVE  /\ queue'[k][2] < Front'
             /\ \A i \in DOMAIN outputs : outputs[i] < queue'[k][2]
  <2>1. CASE k = last
    BY <1>1, <1>4, <2>1 DEF InOrder
  <2>2. CASE k \in DOMAIN queue
    BY <1>1, <1>4, <2>2, QueueTypes, Transitive DEF InOrder
  <2>q. QED BY <1>2, <2>1, <2>2
<1>5. ASSUME NEW k \in DOMAIN queue', NEW l \in DOMAIN queue', k < l,
             queue'[k][1] = "out", queue'[l][1] = "out"
      PROVE  queue'[k][2] < queue'[l][2]
  <2>1. k \in DOMAIN queue
    BY <1>1, <1>5, QueueTypes
  <2>2. CASE l = last
    BY <1>1, <1>5, <2>1, <2>2 DEF InOrder
  <2>3. CASE l \in DOMAIN queue
    BY <1>1, <1>5, <2>1, <2>3 DEF InOrder
  <2>q. QED BY <1>2, <2>2, <2>3
<1>6. running' = "up" /\ \A i, j \in DOMAIN outputs' : i < j => outputs'[i] < outputs'[j]
  BY DEF InOrder
<1>q. QED BY <1>3, <1>4, <1>5, <1>6 DEF InOrder

\* The first result of the queue is after all outputs and before the other results.
LEMMA OrderDeliver ==
    ASSUME TypeOK, InOrder, Deliver
    PROVE  InOrder'
<1>1. /\ DOMAIN queue = 1 .. Len(queue) /\ Len(queue) \in Nat \ {0}
      /\ DOMAIN queue' = 1 .. Len(queue) - 1
      /\ \A k \in DOMAIN queue' : queue'[k] = queue[k + 1]
      /\ Head(queue) = queue[1] /\ Head(queue) \in {"out", "dlq"} \X Messages
  BY TailMoves DEF TypeOK, Deliver
<1>2. \A k \in DOMAIN queue' : k + 1 \in DOMAIN queue /\ 1 \in DOMAIN queue /\ 1 < k + 1
  BY <1>1
<1>3. Front' = Front /\ running' = running
  BY DEF Deliver, worker, Front, current
<1>4. \A k, l \in DOMAIN queue' :
          queue'[k][1] = "out" /\ queue'[l][1] = "out" /\ k < l
              => queue'[k][2] < queue'[l][2]
  <2>1. ASSUME NEW k \in DOMAIN queue', NEW l \in DOMAIN queue', k < l
        PROVE  k + 1 < l + 1
    BY <1>1, <2>1
  <2>q. QED BY <1>1, <1>2, <2>1 DEF InOrder
<1>5. \A k \in DOMAIN queue' : queue'[k][1] = "out" =>
          /\ queue'[k][2] < Front
          /\ \A i \in DOMAIN outputs : outputs[i] < queue'[k][2]
  BY <1>1, <1>2 DEF InOrder
<1>6. CASE outputs' = outputs
  BY <1>3, <1>4, <1>5, <1>6 DEF InOrder
<1>7. CASE Head(queue)[1] = "out" /\ outputs' = Append(outputs, Head(queue)[2])
  <2> DEFINE new == Head(queue)[2]
  <2> DEFINE last == Len(outputs) + 1
  <2>1. /\ DOMAIN outputs' = 1 .. last
        /\ outputs'[last] = new
        /\ \A i \in DOMAIN outputs : outputs'[i] = outputs[i]
    BY <1>1, <1>7, AppendAdds DEF TypeOK
  <2>2. \A i \in DOMAIN outputs' : i = last \/ i \in DOMAIN outputs
    BY <2>1, QueueTypes
  <2>3. new < Front /\ \A i \in DOMAIN outputs : outputs[i] < new
    BY <1>1, <1>7 DEF InOrder
  <2>4. \A k \in DOMAIN queue' : queue'[k][1] = "out" => new < queue'[k][2]
    BY <1>1, <1>2, <1>7 DEF InOrder
  <2>5. \A i \in DOMAIN outputs' : outputs'[i] < Front
    BY <2>1, <2>2, <2>3 DEF InOrder
  <2>6. \A k \in DOMAIN queue' : queue'[k][1] = "out" =>
            \A i \in DOMAIN outputs' : outputs'[i] < queue'[k][2]
    BY <1>5, <2>1, <2>2, <2>4
  <2>7. ASSUME NEW i \in DOMAIN outputs', NEW j \in DOMAIN outputs', i < j
        PROVE  outputs'[i] < outputs'[j]
    <3>1. i \in DOMAIN outputs
      BY <2>1, <2>7, QueueTypes
    <3>2. CASE j = last
      BY <2>1, <2>3, <3>1, <3>2
    <3>3. CASE j \in DOMAIN outputs
      BY <2>1, <2>7, <3>1, <3>3 DEF InOrder
    <3>q. QED BY <2>2, <3>2, <3>3
  <2>8. running' = "up"
    BY <1>3 DEF InOrder
  <2>q. QED BY <1>3, <1>4, <1>5, <2>5, <2>6, <2>7, <2>8 DEF InOrder
<1>q. QED BY <1>6, <1>7 DEF Deliver

LEMMA OrderStep ==
    ASSUME TypeOK, PlaceInv, OrderInv, [Next]_vars
    PROVE  OrderInv'
<1>t. /\ position \in Nat /\ position' \in Nat /\ Front \in Nat /\ Front' \in Nat
      /\ crashes \in Nat /\ stops \in Nat /\ crashes' \in Nat /\ stops' \in Nat
  <2>1. TypeOK' /\ PlaceInv'
    BY TypeStep, PlaceStep
  <2>2. /\ position \in Nat /\ position' \in Nat /\ crashes \in Nat /\ stops \in Nat
        /\ crashes' \in Nat /\ stops' \in Nat
    BY <2>1, ConstantTypes DEF TypeOK
  <2>3. /\ pc # "idle" => position > 0
        /\ pc' # "idle" => position' > 0
    BY <2>1 DEF PlaceInv
  <2>4. current = position - 1 /\ current' = position' - 1
    BY DEF current
  <2>5. Front \in Nat
    BY <2>2, <2>3, <2>4, Predecessor DEF Front
  <2>6. Front' \in Nat
    <3>1. CASE pc' \in {"process", "produce"}
      BY <2>2, <2>3, <2>4, <3>1, Predecessor DEF Front
    <3>2. CASE pc' \notin {"process", "produce"}
      BY <2>2, <3>2 DEF Front
    <3>q. QED BY <3>1, <3>2
  <2>q. QED BY <2>2, <2>5, <2>6
<1>c. pc # "idle" => current = position - 1 /\ current \in Messages /\ current < position
  BY CurrentType, <1>t DEF current
<1>1. CASE Poll
  <2>1. /\ UNCHANGED <<outputs, queue, running, crashes, stops>>
        /\ position' = position + 1 /\ pc = "idle" /\ pc' = "process"
    BY <1>1 DEF Poll, broker, client, budget
  <2>2. Front' = Front
    BY <1>t, <2>1 DEF Front, current
  <2>q. QED BY <1>t, <2>1, <2>2, OrderMonotonic DEF OrderInv
<1>2. CASE Process
  <2>1. UNCHANGED <<outputs, queue, running, position, crashes, stops>> /\ pc = "process"
    BY <1>2 DEF Process, TryCommit, broker, budget
  <2>2. Front <= Front'
    BY <1>t, <1>c, <2>1 DEF Front, current
  <2>q. QED BY <1>t, <2>1, <2>2, OrderMonotonic DEF OrderInv
<1>3. CASE Produce
  <2>1. /\ UNCHANGED <<outputs, running, position, crashes, stops>>
        /\ pc = "produce" /\ pc' = "commit" /\ Enqueue("out")
    BY <1>3 DEF Produce, broker, budget
  <2>2. Front = current /\ Front' = position
    BY <2>1 DEF Front
  <2>q. QED BY <1>t, <1>c, <2>1, <2>2, OrderEnqueue DEF OrderInv
<1>4. CASE ProduceRaises
  <2>1. UNCHANGED <<outputs, queue, running, position, crashes, stops>> /\ pc = "produce"
    BY <1>4 DEF ProduceRaises, broker, client
  <2>2. Front <= Front'
    BY <1>t, <1>c, <2>1 DEF Front, current
  <2>q. QED BY <1>t, <2>1, <2>2, OrderMonotonic DEF OrderInv
<1>5. CASE Divert
  <2>1. /\ UNCHANGED <<outputs, running, position, crashes, stops>>
        /\ pc = "divert" /\ pc' = "commit"
        /\ queue' = queue \/ Enqueue("dlq")
    BY <1>5 DEF Divert, broker
  <2>2. Front = position /\ Front' = position
    BY <2>1 DEF Front
  <2>q. QED BY <1>t, <1>c, <2>1, <2>2, OrderMonotonic, OrderEnqueue DEF OrderInv
<1>6. CASE Commit
  <2>1. /\ UNCHANGED <<outputs, queue, running, position, crashes, stops>>
        /\ pc = "commit" /\ pc' \in {"idle", "dead"}
    BY <1>6 DEF Commit, TryCommit, broker
  <2>2. Front = Front'
    BY <2>1 DEF Front
  <2>q. QED BY <1>t, <2>1, <2>2, OrderMonotonic DEF OrderInv
<1>7. CASE RouteDeadLetter
  <2>1. /\ UNCHANGED <<outputs, running, position, crashes, stops>>
        /\ pc = "dead" /\ pc' = "idle"
        /\ queue' = queue \/ Enqueue("dlq")
    BY <1>7 DEF RouteDeadLetter, broker
  <2>2. Front = position /\ Front' = position
    BY <2>1 DEF Front
  <2>q. QED BY <1>t, <1>c, <2>1, <2>2, OrderMonotonic, OrderEnqueue DEF OrderInv
<1>8. CASE Deliver
  BY <1>8, OrderDeliver DEF Deliver, OrderInv
<1>9. CASE ApplyCommit
  BY <1>9 DEF ApplyCommit, worker, budget, OrderInv, InOrder, Front, current
<1>10. CASE HandleSignal
  BY <1>10, <1>t DEF HandleSignal, OrderInv
<1>11. CASE Shutdown
  BY <1>11 DEF Shutdown, OrderInv, InOrder
<1>12. CASE Crash
  BY <1>12, <1>t DEF Crash, OrderInv
<1>13. CASE Restart
  BY <1>13 DEF Restart, budget, OrderInv, InOrder
<1>14. CASE UNCHANGED vars
  BY <1>14 DEF vars, broker, worker, client, budget, OrderInv, InOrder, Front, current
<1>q. QED BY <1>1, <1>2, <1>3, <1>4, <1>5, <1>6, <1>7, <1>8, <1>9, <1>10, <1>11,
             <1>12, <1>13, <1>14 DEF Next, Step

-----------------------------------------------------------------------------
(* The theorems. *)

LEMMA InvInit ==
    ASSUME Init
    PROVE  IInv
<1>1. PlaceInv BY DEF Init, PlaceInv
<1>2. CommitInv BY DEF Init, CommitInv, Settled
<1>3. HandledInv BY DEF Init, HandledInv, Settled, Messages
<1>4. OrderInv BY DEF Init, OrderInv, InOrder
<1>q. QED BY <1>1, <1>2, <1>3, <1>4 DEF IInv

\* The worker, its commits, its results and their order stay as IInv says, and every
\* variable keeps its type.
THEOREM InvariantHolds == Spec => [](TypeOK /\ IInv)
<1>1. Init => TypeOK /\ IInv
  BY TypeInit, InvInit
<1>2. TypeOK /\ IInv /\ [Next]_vars => (TypeOK /\ IInv)'
  BY TypeStep, PlaceStep, CommitStep, HandledStep, OrderStep DEF IInv
<1>q. QED BY <1>1, <1>2, PTL DEF Spec

\* Every variable of the worker and of the broker keeps its type: attempts stay
\* within MaxRetries and offsets within the partition.
THEOREM TypeCorrect == Spec => []TypeOK
    BY InvariantHolds, PTL

\* While the broker answers and the worker lives, the group passes no message whose
\* result or dead letter is not at least with the producer.
THEOREM CommittedIsAnsweredHolds == Spec => []CommittedIsAnswered
<1>1. TypeOK /\ IInv => CommittedIsAnswered
  <2> SUFFICES ASSUME TypeOK, IInv, Unharmed, NEW m \in 0 .. committed - 1
               PROVE  \/ kind[m] = "tombstone"
                      \/ Answered(m) \/ m \in Queued("out") \cup Queued("dlq")
    BY DEF CommittedIsAnswered
  <2>1. m \in Messages /\ m < committed
    BY ConstantTypes DEF TypeOK, Messages
  <2>q. QED BY <2>1 DEF IInv, HandledInv, Handled
<1>q. QED BY <1>1, InvariantHolds, PTL

\* Until a restart results come out in the order of the payments, once each.
THEOREM OutputsInOrderHolds == Spec => []OutputsInOrder
<1>1. IInv => OutputsInOrder
  BY DEF IInv, OrderInv, InOrder, OutputsInOrder
<1>q. QED BY <1>1, InvariantHolds, PTL

\* Commits applied in the background never move the group back, across any number
\* of stops, crashes and restarts.
THEOREM OffsetNeverMovesBackHolds == Spec => OffsetNeverMovesBack
<1>1. TypeOK /\ IInv /\ [Next]_vars => [committed' >= committed]_vars
  <2>1. ASSUME TypeOK, IInv, [Next]_vars
        PROVE  committed' >= committed
    <3>1. committed <= committed'
      BY <2>1, CommitStep DEF IInv
    <3>2. committed \in Nat /\ committed' \in Nat
      BY <2>1, TypeStep, ConstantTypes DEF TypeOK, IInv
    <3>q. QED BY <3>1, <3>2
  <2>q. QED BY <2>1
<1>q. QED BY <1>1, InvariantHolds, PTL DEF Spec, OffsetNeverMovesBack

=============================================================================
