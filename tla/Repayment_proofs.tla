--------------------------- MODULE Repayment_proofs ---------------------------
(***************************************************************************)
(* The repayment engine for any number of instances and loans: within the  *)
(* life of a claim, and while Redis answers, a loan is repaid once; the    *)
(* books are kept; REQUIRE_FULL holds.                                     *)
(***************************************************************************)
EXTENDS Repayment, TLAPS

\* A worker that is in a call has a loan its instance was given.
BusyInv ==
    \A w \in Workers : pc[w] # "idle" =>
        loan[w] \in Loans /\ loan[w] \in registered[w[1]]

\* The books hold loans the instance was given, and none is given twice.
BookInv ==
    \A i \in Instances :
        /\ activeLoans[i] \subseteq registered[i]
        /\ monitored[i] \subseteq registered[i]
        /\ due[i] \subseteq registered[i]

\* What is gone from the first registry only is a loan that one worker is about to
\* take from the second.
UnwatchInv ==
    \A i \in Instances :
        /\ activeLoans[i] \subseteq monitored[i]
        /\ \A l \in monitored[i] \ activeLoans[i] :
              \E w \in Workers : w[1] = i /\ pc[w] = "unwatch" /\ loan[w] = l
        /\ \A w \in Workers : w[1] = i /\ pc[w] = "unwatch" =>
              /\ loan[w] \notin activeLoans[i]
              /\ \A v \in Workers \ {w} :
                    v[1] = i /\ pc[v] = "unwatch" => loan[v] # loan[w]

\* A worker clears the books after the callback.
SentInv ==
    /\ \A w \in Workers : pc[w] \in {"forget", "unwatch"} => sent[loan[w]] > 0
    /\ crashes = 0 =>
          \A i \in Instances : \A l \in registered[i] :
              sent[l] = 0 => l \in activeLoans[i] /\ l \in monitored[i]

Harmless == redisErrors = 0 /\ clock < Ttl

\* A claim lives for Ttl, and while it does one worker at most may call back.
ClaimInv ==
    /\ \A l \in Loans : claims[l] = 0 \/ claims[l] >= Ttl
    /\ Harmless =>
          /\ \A l \in Loans : sent[l] <= 1 /\ (claims[l] = 0 => sent[l] = 0)
          /\ \A w \in Workers : pc[w] = "callback" =>
                /\ claims[loan[w]] # 0 /\ sent[loan[w]] = 0
                /\ \A v \in Workers \ {w} :
                      pc[v] = "callback" => loan[v] # loan[w]

Served(l) ==
    \/ sent[l] > 0
    \/ crashes > 0
    \/ \E w \in Workers : loan[w] = l /\ pc[w] = "callback"

\* Whoever claimed a loan, in Redis or in memory, calls back.
ServedInv ==
    /\ \A l \in Loans : claims[l] # 0 => Served(l)
    /\ \A i \in Instances : \A l \in repaidUetrs[i] : Served(l)

\* Under REQUIRE_FULL no worker has a partial amount.
FullInv ==
    Policy = "REQUIRE_FULL" =>
        /\ \A w \in Workers : amount[w] = "full"
        /\ \A l \in Loans : closedOn[l] \subseteq {"full"}

IInv == BusyInv /\ BookInv /\ UnwatchInv /\ SentInv /\ ClaimInv /\ ServedInv /\ FullInv

-----------------------------------------------------------------------------
(* Types. *)

LEMMA InstanceOf ==
    ASSUME NEW w \in Workers
    PROVE  w[1] \in Instances
    BY DEF Workers

LEMMA OwnWorkers ==
    ASSUME NEW i \in Instances
    PROVE  /\ Monitoring(i) \in Workers /\ Monitoring(i)[1] = i
           /\ Signalled(i) \in Workers /\ Signalled(i)[1] = i
    BY DEF Workers, Monitoring, Signalled

LEMMA ConstantTypes ==
    /\ Maturity \in Nat /\ Ttl \in Nat /\ MaxTime \in Nat
    /\ MaxCrashes \in Nat /\ MaxRedisErrors \in Nat
    /\ Maturity < Ttl /\ NoLoan \notin Loans
    BY RepaymentAssumption

LEMMA TypeInit ==
    ASSUME Init
    PROVE  TypeOK
    BY ConstantTypes DEF Init, TypeOK, Amounts

\* Every step keeps the type, given that busy workers have loans.
LEMMA TypeStep ==
    ASSUME TypeOK, BusyInv, [Next]_vars
    PROVE  TypeOK'
<1> USE DEF TypeOK
<1>1. ASSUME NEW i \in Instances, NEW l \in Loans, RegisterLoan(i, l) PROVE TypeOK'
  BY <1>1 DEF RegisterLoan, threads, world
<1>2. ASSUME NEW i \in Instances, NEW l \in Loans, NEW settled \in Amounts,
             ProcessSignal(i, l, settled)
      PROVE  TypeOK'
  BY <1>2, OwnWorkers DEF ProcessSignal, Trigger, Goto, registries, history, world
<1>3. ASSUME NEW i \in Instances, CheckMaturities(i) PROVE TypeOK'
  <2>1. Matured(i) \subseteq Loans
    BY DEF Matured
  <2>q. QED BY <1>3, <2>1 DEF CheckMaturities, registries, history, world
<1>4. ASSUME NEW i \in Instances, NEW l \in Loans, RepayMatured(i, l) PROVE TypeOK'
  BY <1>4, OwnWorkers DEF RepayMatured, Trigger, Goto, registries, history, world, Amounts
<1>5. ASSUME NEW w \in Workers, ClaimInRedis(w) PROVE TypeOK'
  BY <1>5, ConstantTypes DEF ClaimInRedis, SetClaim, Goto, BusyInv, registries, history, world
<1>6. ASSUME NEW w \in Workers, ClaimDenied(w) PROVE TypeOK'
  BY <1>6 DEF ClaimDenied, Finish, Goto, registries, history, world, Amounts
<1>7. ASSUME NEW w \in Workers, ClaimInMemory(w) PROVE TypeOK'
  <2>1. claims' \in [Loans -> Nat]
    BY <1>7, ConstantTypes DEF ClaimInMemory, SetClaim
  <2>2. repaidUetrs' \in [Instances -> SUBSET Loans]
    BY <1>7, InstanceOf DEF ClaimInMemory, BusyInv
  <2>3. /\ pc' \in [Workers -> {"idle", "claim", "callback", "forget", "unwatch"}]
        /\ loan' \in [Workers -> Loans \cup {NoLoan}]
        /\ amount' \in [Workers -> Amounts]
    BY <1>7 DEF ClaimInMemory, Goto, Finish, Amounts
  <2>q. QED BY <1>7, <2>1, <2>2, <2>3 DEF ClaimInMemory, history
<1>8. ASSUME NEW w \in Workers, Repay(w) PROVE TypeOK'
  BY <1>8 DEF Repay, Goto, BusyInv, registries, world
<1>9. ASSUME NEW w \in Workers, Forget(w) PROVE TypeOK'
  BY <1>9, InstanceOf DEF Forget, Goto, Finish, history, world, Amounts
<1>10. ASSUME NEW w \in Workers, Unwatch(w) PROVE TypeOK'
  BY <1>10, InstanceOf DEF Unwatch, Goto, Finish, history, world, Amounts
<1>11. ASSUME NEW i \in Instances, Crash(i) PROVE TypeOK'
  BY <1>11 DEF Crash, history, Amounts
<1>12. CASE Tick
  BY <1>12 DEF Tick, registries, threads, history
<1>13. CASE UNCHANGED vars
  BY <1>13 DEF vars, registries, threads, history, world
<1>q. QED BY <1>1, <1>2, <1>3, <1>4, <1>5, <1>6, <1>7, <1>8, <1>9, <1>10, <1>11,
             <1>12, <1>13 DEF Next, Monitor, Proceed
-----------------------------------------------------------------------------
(* What a step does to the workers. *)

\* Every other worker stands where it stood.
OthersStay(w) ==
    \A v \in Workers : v # w =>
        pc'[v] = pc[v] /\ loan'[v] = loan[v] /\ amount'[v] = amount[v]

Moves(w, step, l, settled) ==
    /\ pc'[w] = step /\ loan'[w] = l /\ amount'[w] = settled
    /\ OthersStay(w)

LEMMA TriggerMoves ==
    ASSUME TypeOK, NEW w \in Workers, NEW l \in Loans, NEW settled \in Amounts,
           Trigger(w, l, settled)
    PROVE  pc[w] = "idle" /\ Moves(w, "claim", l, settled)
    BY DEF Trigger, Goto, Moves, OthersStay, TypeOK

LEMMA GotoMoves ==
    ASSUME TypeOK, NEW w \in Workers, NEW step, Goto(w, step),
           UNCHANGED <<loan, amount>>
    PROVE  Moves(w, step, loan[w], amount[w])
    BY DEF Goto, Moves, OthersStay, TypeOK

LEMMA FinishMoves ==
    ASSUME TypeOK, NEW w \in Workers, Finish(w)
    PROVE  Moves(w, "idle", NoLoan, "full")
    BY DEF Finish, Goto, Moves, OthersStay, TypeOK

-----------------------------------------------------------------------------
(* The inductive invariant. *)

LEMMA InvInit ==
    ASSUME Init
    PROVE  IInv
<1> USE DEF Init
<1>1. BusyInv BY DEF BusyInv
<1>2. BookInv BY DEF BookInv
<1>3. UnwatchInv BY DEF UnwatchInv
<1>4. SentInv BY DEF SentInv
<1>5. ClaimInv BY DEF ClaimInv
<1>6. ServedInv BY DEF ServedInv
<1>7. FullInv BY DEF FullInv
<1>q. QED BY <1>1, <1>2, <1>3, <1>4, <1>5, <1>6, <1>7 DEF IInv

\* The loan is new to the instance, so no worker of it is busy with it.
LEMMA RegisterLoanStep ==
    ASSUME TypeOK, TypeOK', IInv, NEW i \in Instances, NEW l \in Loans, RegisterLoan(i, l)
    PROVE  IInv'
<1> USE DEF IInv
<1>0. /\ UNCHANGED <<pc, loan, amount, due, claims, repaidUetrs, sent, closedOn>>
      /\ UNCHANGED <<clock, crashes, redisErrors>>
      /\ l \notin registered[i]
      /\ registered'[i] = registered[i] \cup {l}
      /\ activeLoans'[i] = activeLoans[i] \cup {l}
      /\ monitored'[i] = monitored[i] \cup {l}
      /\ \A j \in Instances : j # i =>
            /\ registered'[j] = registered[j] /\ monitored'[j] = monitored[j]
            /\ activeLoans'[j] = activeLoans[j]
  BY DEF RegisterLoan, threads, world, TypeOK
<1>1. BusyInv'
  BY <1>0, InstanceOf DEF BusyInv
<1>2. BookInv'
  BY <1>0 DEF BookInv
<1>3. UnwatchInv'
  BY <1>0, InstanceOf DEF UnwatchInv, BusyInv, BookInv
<1>4. SentInv'
  BY <1>0 DEF SentInv
<1>5. ClaimInv'
  BY <1>0 DEF ClaimInv, Harmless
<1>6. ServedInv'
  BY <1>0 DEF ServedInv, Served
<1>7. FullInv'
  BY <1>0 DEF FullInv
<1>q. QED BY <1>1, <1>2, <1>3, <1>4, <1>5, <1>6, <1>7

\* Under REQUIRE_FULL the worker starts with the full amount.
LEMMA ProcessSignalStep ==
    ASSUME TypeOK, TypeOK', IInv, NEW i \in Instances, NEW l \in Loans,
           NEW settled \in Amounts, ProcessSignal(i, l, settled)
    PROVE  IInv'
<1> USE DEF IInv
<1>0. /\ Moves(Signalled(i), "claim", l, settled) /\ pc[Signalled(i)] = "idle"
      /\ l \in monitored[i] /\ Accepts(settled)
      /\ UNCHANGED <<activeLoans, monitored, registered, sent, closedOn>>
      /\ UNCHANGED <<due, claims, repaidUetrs>>
      /\ UNCHANGED <<clock, crashes, redisErrors>>
  BY TriggerMoves, OwnWorkers DEF ProcessSignal, registries, history, world
<1>1. BusyInv'
  BY <1>0, OwnWorkers, InstanceOf DEF BusyInv, BookInv, Moves, OthersStay
<1>2. BookInv'
  BY <1>0 DEF BookInv
<1>3. UnwatchInv'
  BY <1>0 DEF UnwatchInv, Moves, OthersStay
<1>4. SentInv'
  BY <1>0 DEF SentInv, Moves, OthersStay
<1>5. ClaimInv'
  BY <1>0 DEF ClaimInv, Harmless, Moves, OthersStay
<1>6. ServedInv'
  BY <1>0 DEF ServedInv, Served, Moves, OthersStay
<1>7. FullInv'
  BY <1>0 DEF FullInv, Accepts, Moves, OthersStay
<1>q. QED BY <1>1, <1>2, <1>3, <1>4, <1>5, <1>6, <1>7

\* The snapshot is of loans on the books.
LEMMA CheckMaturitiesStep ==
    ASSUME TypeOK, TypeOK', IInv, NEW i \in Instances, CheckMaturities(i)
    PROVE  IInv'
<1> USE DEF IInv
<1>0. /\ due'[i] = Matured(i) /\ \A j \in Instances : j # i => due'[j] = due[j]
      /\ UNCHANGED <<activeLoans, monitored, registered, sent, closedOn>>
      /\ UNCHANGED <<pc, loan, amount, claims, repaidUetrs>>
      /\ UNCHANGED <<clock, crashes, redisErrors>>
  BY DEF CheckMaturities, registries, history, world, TypeOK
<1>1. BusyInv'
  BY <1>0 DEF BusyInv
<1>2. BookInv'
  BY <1>0 DEF BookInv, Matured
<1>3. UnwatchInv'
  BY <1>0 DEF UnwatchInv
<1>4. SentInv'
  BY <1>0 DEF SentInv
<1>5. ClaimInv'
  BY <1>0 DEF ClaimInv, Harmless
<1>6. ServedInv'
  BY <1>0 DEF ServedInv, Served
<1>7. FullInv'
  BY <1>0 DEF FullInv
<1>q. QED BY <1>1, <1>2, <1>3, <1>4, <1>5, <1>6, <1>7

\* A maturity closes a loan in full.
LEMMA RepayMaturedStep ==
    ASSUME TypeOK, TypeOK', IInv, NEW i \in Instances, NEW l \in Loans, RepayMatured(i, l)
    PROVE  IInv'
<1> USE DEF IInv
<1>0. /\ Moves(Monitoring(i), "claim", l, "full") /\ pc[Monitoring(i)] = "idle"
      /\ l \in due[i]
      /\ \A j \in Instances : due'[j] \subseteq due[j]
      /\ UNCHANGED <<activeLoans, monitored, registered, sent, closedOn>>
      /\ UNCHANGED <<claims, repaidUetrs>>
      /\ UNCHANGED <<clock, crashes, redisErrors>>
  BY TriggerMoves, OwnWorkers DEF RepayMatured, registries, history, world, TypeOK, Amounts
<1>1. BusyInv'
  BY <1>0, OwnWorkers, InstanceOf DEF BusyInv, BookInv, Moves, OthersStay
<1>2. BookInv'
  BY <1>0 DEF BookInv
<1>3. UnwatchInv'
  BY <1>0 DEF UnwatchInv, Moves, OthersStay
<1>4. SentInv'
  BY <1>0 DEF SentInv, Moves, OthersStay
<1>5. ClaimInv'
  BY <1>0 DEF ClaimInv, Harmless, Moves, OthersStay
<1>6. ServedInv'
  BY <1>0 DEF ServedInv, Served, Moves, OthersStay
<1>7. FullInv'
  BY <1>0 DEF FullInv, Moves, OthersStay
<1>q. QED BY <1>1, <1>2, <1>3, <1>4, <1>5, <1>6, <1>7

\* Before Ttl no claim has lapsed: a loan that can be claimed was never claimed.
LEMMA ClaimInRedisStep ==
    ASSUME TypeOK, TypeOK', IInv, NEW w \in Workers, ClaimInRedis(w)
    PROVE  IInv'
<1> USE DEF IInv
<1>0. /\ Moves(w, "callback", loan[w], amount[w]) /\ pc[w] = "claim"
      /\ loan[w] \in Loans /\ claims[loan[w]] <= clock
      /\ claims'[loan[w]] = clock + Ttl
      /\ \A l \in Loans : l # loan[w] => claims'[l] = claims[l]
      /\ UNCHANGED <<activeLoans, monitored, registered, sent, closedOn>>
      /\ UNCHANGED <<due, repaidUetrs>>
      /\ UNCHANGED <<clock, crashes, redisErrors>>
  BY GotoMoves, ConstantTypes
  DEF ClaimInRedis, Claimed, SetClaim, BusyInv, registries, history, world, TypeOK
<1>1. BusyInv'
  BY <1>0, InstanceOf DEF BusyInv, Moves, OthersStay
<1>2. BookInv'
  BY <1>0 DEF BookInv
<1>3. UnwatchInv'
  BY <1>0 DEF UnwatchInv, Moves, OthersStay
<1>4. SentInv'
  BY <1>0 DEF SentInv, Moves, OthersStay
<1>5. ClaimInv'
  <2>1. /\ \A l \in Loans : claims'[l] = 0 \/ claims'[l] >= Ttl
        /\ \A l \in Loans : claims[l] # 0 => claims'[l] # 0
        /\ claims'[loan[w]] # 0
    BY <1>0, ConstantTypes DEF ClaimInv, TypeOK
  <2>2. ASSUME Harmless'
        PROVE  Harmless /\ claims[loan[w]] = 0 /\ sent[loan[w]] = 0
    BY <1>0, <2>2, ConstantTypes DEF ClaimInv, Harmless, TypeOK
  <2>3. \A v \in Workers : pc[v] # "idle" => loan[v] \in Loans
    BY DEF BusyInv
  <2>4. ASSUME Harmless', NEW v \in Workers, pc'[v] = "callback"
        PROVE  /\ claims'[loan'[v]] # 0 /\ sent'[loan'[v]] = 0
               /\ \A u \in Workers \ {v} :
                     pc'[u] = "callback" => loan'[u] # loan'[v]
    BY <1>0, <2>1, <2>2, <2>3, <2>4 DEF ClaimInv, Moves, OthersStay
  <2>5. Harmless' => \A l \in Loans : sent'[l] <= 1 /\ (claims'[l] = 0 => sent'[l] = 0)
    BY <1>0, <2>1, <2>2 DEF ClaimInv
  <2>q. QED BY <2>1, <2>4, <2>5 DEF ClaimInv
<1>6. ServedInv'
  BY <1>0 DEF ServedInv, Served, Moves, OthersStay
<1>7. FullInv'
  BY <1>0 DEF FullInv, Moves, OthersStay
<1>q. QED BY <1>1, <1>2, <1>3, <1>4, <1>5, <1>6, <1>7

\* Nothing was claimed.
LEMMA ClaimDeniedStep ==
    ASSUME TypeOK, TypeOK', IInv, NEW w \in Workers, ClaimDenied(w)
    PROVE  IInv'
<1> USE DEF IInv
<1>0. /\ Moves(w, "idle", NoLoan, "full") /\ pc[w] = "claim"
      /\ UNCHANGED <<activeLoans, monitored, registered, sent, closedOn>>
      /\ UNCHANGED <<due, claims, repaidUetrs>>
      /\ UNCHANGED <<clock, crashes, redisErrors>>
  BY FinishMoves DEF ClaimDenied, registries, history, world
<1>1. BusyInv'
  BY <1>0, InstanceOf DEF BusyInv, Moves, OthersStay
<1>2. BookInv'
  BY <1>0 DEF BookInv
<1>3. UnwatchInv'
  BY <1>0 DEF UnwatchInv, Moves, OthersStay
<1>4. SentInv'
  BY <1>0 DEF SentInv, Moves, OthersStay
<1>5. ClaimInv'
  BY <1>0 DEF ClaimInv, Harmless, Moves, OthersStay
<1>6. ServedInv'
  BY <1>0 DEF ServedInv, Served, Moves, OthersStay
<1>7. FullInv'
  BY <1>0 DEF FullInv, Moves, OthersStay
<1>q. QED BY <1>1, <1>2, <1>3, <1>4, <1>5, <1>6, <1>7

\* A Redis error ends the reign of the claim, but every claim is still served.
LEMMA ClaimInMemoryStep ==
    ASSUME TypeOK, TypeOK', IInv, NEW w \in Workers, ClaimInMemory(w)
    PROVE  IInv'
<1> USE DEF IInv
<1>0. /\ pc[w] = "claim" /\ loan[w] \in Loans /\ w[1] \in Instances
      /\ redisErrors' = redisErrors + 1
      /\ \/ claims' = claims
         \/ /\ claims'[loan[w]] = clock + Ttl
            /\ \A l \in Loans : l # loan[w] => claims'[l] = claims[l]
      /\ \/ /\ Moves(w, "idle", NoLoan, "full")
            /\ loan[w] \in repaidUetrs[w[1]] /\ UNCHANGED repaidUetrs
         \/ /\ Moves(w, "callback", loan[w], amount[w])
            /\ \A i \in Instances : repaidUetrs'[i] \subseteq repaidUetrs[i] \cup {loan[w]}
      /\ UNCHANGED <<activeLoans, monitored, registered, sent, closedOn>>
      /\ UNCHANGED <<due, clock, crashes>>
  BY GotoMoves, FinishMoves, InstanceOf
  DEF ClaimInMemory, SetClaim, BusyInv, history, TypeOK
<1>1. BusyInv'
  BY <1>0, InstanceOf DEF BusyInv, Moves, OthersStay
<1>2. BookInv'
  BY <1>0 DEF BookInv
<1>3. UnwatchInv'
  BY <1>0 DEF UnwatchInv, Moves, OthersStay
<1>4. SentInv'
  BY <1>0 DEF SentInv, Moves, OthersStay
<1>5. ClaimInv'
  BY <1>0, ConstantTypes DEF ClaimInv, Harmless, TypeOK
<1>6. ServedInv'
  BY <1>0 DEF ServedInv, Served, Moves, OthersStay
<1>7. FullInv'
  BY <1>0 DEF FullInv, Moves, OthersStay
<1>q. QED BY <1>1, <1>2, <1>3, <1>4, <1>5, <1>6, <1>7

\* The worker that calls back is the only one, while the claim lives.
LEMMA RepayStep ==
    ASSUME TypeOK, TypeOK', IInv, NEW w \in Workers, Repay(w)
    PROVE  IInv'
<1> USE DEF IInv
<1>0. /\ Moves(w, "forget", loan[w], amount[w]) /\ pc[w] = "callback"
      /\ loan[w] \in Loans /\ loan[w] \in registered[w[1]]
      /\ sent'[loan[w]] = sent[loan[w]] + 1
      /\ closedOn'[loan[w]] = closedOn[loan[w]] \cup {amount[w]}
      /\ \A l \in Loans : l # loan[w] => sent'[l] = sent[l] /\ closedOn'[l] = closedOn[l]
      /\ UNCHANGED <<activeLoans, monitored, registered, due, claims, repaidUetrs>>
      /\ UNCHANGED <<clock, crashes, redisErrors>>
  BY GotoMoves DEF Repay, BusyInv, registries, world, TypeOK
<1>1. BusyInv'
  BY <1>0, InstanceOf DEF BusyInv, Moves, OthersStay
<1>2. BookInv'
  BY <1>0 DEF BookInv
<1>3. UnwatchInv'
  BY <1>0 DEF UnwatchInv, Moves, OthersStay
<1>s. /\ \A l \in Loans : sent[l] > 0 => sent'[l] > 0
      /\ \A l \in Loans : sent'[l] = 0 => sent[l] = 0
      /\ sent'[loan[w]] > 0
  BY <1>0 DEF TypeOK
<1>l. /\ \A v \in Workers : pc[v] # "idle" => loan[v] \in Loans
      /\ \A i \in Instances : registered[i] \subseteq Loans
  BY DEF BusyInv, TypeOK
<1>4. SentInv'
  <2>1. \A v \in Workers : pc'[v] \in {"forget", "unwatch"} => sent'[loan'[v]] > 0
    BY <1>0, <1>s, <1>l DEF SentInv, Moves, OthersStay
  <2>2. crashes' = 0 =>
          \A i \in Instances : \A l \in registered'[i] :
              sent'[l] = 0 => l \in activeLoans'[i] /\ l \in monitored'[i]
    BY <1>0, <1>s, <1>l DEF SentInv
  <2>q. QED BY <2>1, <2>2 DEF SentInv
<1>5. ClaimInv'
  <2>1. \A l \in Loans : claims[l] = 0 \/ claims[l] >= Ttl
    BY DEF ClaimInv
  <2>2. ASSUME Harmless
        PROVE  /\ \A l \in Loans : sent'[l] <= 1 /\ (claims[l] = 0 => sent'[l] = 0)
               /\ \A v \in Workers : pc'[v] = "callback" =>
                     /\ claims[loan[v]] # 0 /\ sent'[loan[v]] = 0
                     /\ \A u \in Workers \ {v} :
                           pc'[u] = "callback" => loan[u] # loan[v]
    <3>1. \A l \in Loans : sent'[l] <= 1 /\ (claims[l] = 0 => sent'[l] = 0)
      BY <1>0, <2>2 DEF ClaimInv, TypeOK
    <3>2. \A v \in Workers : pc'[v] = "callback" =>
             v # w /\ pc[v] = "callback" /\ loan[v] # loan[w] /\ loan[v] \in Loans
      BY <1>0, <1>l, <2>2 DEF ClaimInv, Moves, OthersStay
    <3>q. QED BY <1>0, <2>2, <3>1, <3>2 DEF ClaimInv
  <2>3. loan' = loan
    BY DEF Repay
  <2>q. QED BY <1>0, <2>1, <2>2, <2>3 DEF ClaimInv, Harmless
<1>6. ServedInv'
  <2>1. ASSUME NEW l \in Loans, Served(l) PROVE Served(l)'
    BY <1>0, <1>s, <2>1 DEF Served, Moves, OthersStay
  <2>2. \A i \in Instances : repaidUetrs[i] \subseteq Loans
    BY DEF TypeOK
  <2>q. QED BY <1>0, <2>1, <2>2 DEF ServedInv
<1>7. FullInv'
  BY <1>0 DEF FullInv, Moves, OthersStay
<1>q. QED BY <1>1, <1>2, <1>3, <1>4, <1>5, <1>6, <1>7

\* The loan leaves the first registry and the worker goes on to the second.
LEMMA ForgetStep ==
    ASSUME TypeOK, TypeOK', IInv, NEW w \in Workers, Forget(w)
    PROVE  IInv'
<1> USE DEF IInv
<1>0. /\ pc[w] = "forget" /\ w[1] \in Instances
      /\ activeLoans'[w[1]] = activeLoans[w[1]] \ {loan[w]}
      /\ \A i \in Instances : i # w[1] => activeLoans'[i] = activeLoans[i]
      /\ \/ loan[w] \in activeLoans[w[1]] /\ Moves(w, "unwatch", loan[w], amount[w])
         \/ loan[w] \notin activeLoans[w[1]] /\ Moves(w, "idle", NoLoan, "full")
      /\ UNCHANGED <<monitored, registered, sent, closedOn, due, claims, repaidUetrs>>
      /\ UNCHANGED <<clock, crashes, redisErrors>>
  BY GotoMoves, FinishMoves, InstanceOf DEF Forget, history, world, TypeOK
<1>1. BusyInv'
  BY <1>0, InstanceOf DEF BusyInv, Moves, OthersStay
<1>2. BookInv'
  BY <1>0 DEF BookInv
<1>3. UnwatchInv'
  BY <1>0 DEF UnwatchInv, Moves, OthersStay
<1>4. SentInv'
  BY <1>0 DEF SentInv, Moves, OthersStay
<1>5. ClaimInv'
  BY <1>0 DEF ClaimInv, Harmless, Moves, OthersStay
<1>6. ServedInv'
  BY <1>0 DEF ServedInv, Served, Moves, OthersStay
<1>7. FullInv'
  BY <1>0 DEF FullInv, Moves, OthersStay
<1>q. QED BY <1>1, <1>2, <1>3, <1>4, <1>5, <1>6, <1>7

\* The loan leaves the second registry.
LEMMA UnwatchStep ==
    ASSUME TypeOK, TypeOK', IInv, NEW w \in Workers, Unwatch(w)
    PROVE  IInv'
<1> USE DEF IInv
<1>0. /\ Moves(w, "idle", NoLoan, "full") /\ pc[w] = "unwatch" /\ w[1] \in Instances
      /\ monitored'[w[1]] = monitored[w[1]] \ {loan[w]}
      /\ \A i \in Instances : i # w[1] => monitored'[i] = monitored[i]
      /\ UNCHANGED <<activeLoans, registered, sent, closedOn, due, claims, repaidUetrs>>
      /\ UNCHANGED <<clock, crashes, redisErrors>>
  BY FinishMoves, InstanceOf DEF Unwatch, history, world, TypeOK
<1>1. BusyInv'
  BY <1>0, InstanceOf DEF BusyInv, Moves, OthersStay
<1>2. BookInv'
  BY <1>0 DEF BookInv
<1>3. UnwatchInv'
  BY <1>0 DEF UnwatchInv, Moves, OthersStay
<1>4. SentInv'
  BY <1>0 DEF SentInv, Moves, OthersStay
<1>5. ClaimInv'
  BY <1>0 DEF ClaimInv, Harmless, Moves, OthersStay
<1>6. ServedInv'
  BY <1>0 DEF ServedInv, Served, Moves, OthersStay
<1>7. FullInv'
  BY <1>0 DEF FullInv, Moves, OthersStay
<1>q. QED BY <1>1, <1>2, <1>3, <1>4, <1>5, <1>6, <1>7

\* The instance forgets everything, and its workers with it.
LEMMA CrashStep ==
    ASSUME TypeOK, TypeOK', IInv, NEW i \in Instances, Crash(i)
    PROVE  IInv'
<1> USE DEF IInv
<1>0. /\ crashes' = crashes + 1 /\ crashes' # 0
      /\ activeLoans'[i] = {} /\ monitored'[i] = {} /\ due'[i] = {} /\ repaidUetrs'[i] = {}
      /\ \A j \in Instances : j # i =>
            /\ activeLoans'[j] = activeLoans[j] /\ monitored'[j] = monitored[j]
            /\ due'[j] = due[j] /\ repaidUetrs'[j] = repaidUetrs[j]
      /\ \A w \in Workers :
            IF w[1] = i THEN pc'[w] = "idle" /\ amount'[w] = "full"
            ELSE pc'[w] = pc[w] /\ loan'[w] = loan[w] /\ amount'[w] = amount[w]
      /\ UNCHANGED <<claims, registered, sent, closedOn, clock, redisErrors>>
  BY DEF Crash, history, TypeOK
<1>1. BusyInv'
  BY <1>0, InstanceOf DEF BusyInv
<1>2. BookInv'
  BY <1>0 DEF BookInv
<1>3. UnwatchInv'
  BY <1>0 DEF UnwatchInv
<1>4. SentInv'
  BY <1>0 DEF SentInv
<1>5. ClaimInv'
  BY <1>0 DEF ClaimInv, Harmless
<1>6. ServedInv'
  BY <1>0 DEF ServedInv, Served, TypeOK
<1>7. FullInv'
  BY <1>0 DEF FullInv
<1>q. QED BY <1>1, <1>2, <1>3, <1>4, <1>5, <1>6, <1>7

\* As time passes fewer claims bind.
LEMMA TickStep ==
    ASSUME TypeOK, IInv, Tick
    PROVE  IInv'
<1> USE DEF IInv, Tick, registries, threads, history
<1>1. BusyInv' BY DEF BusyInv
<1>2. BookInv' BY DEF BookInv
<1>3. UnwatchInv' BY DEF UnwatchInv
<1>4. SentInv' BY DEF SentInv
<1>5. ClaimInv' BY ConstantTypes DEF ClaimInv, Harmless, TypeOK
<1>6. ServedInv' BY DEF ServedInv, Served
<1>7. FullInv' BY DEF FullInv
<1>q. QED BY <1>1, <1>2, <1>3, <1>4, <1>5, <1>6, <1>7

LEMMA InvStep ==
    ASSUME TypeOK, IInv, [Next]_vars
    PROVE  IInv'
<1>0. TypeOK'
  BY TypeStep DEF IInv
<1>1. CASE UNCHANGED vars
  BY <1>1 DEF vars, registries, threads, history, world, IInv, BusyInv, BookInv,
       UnwatchInv, SentInv, ClaimInv, Harmless, ServedInv, Served, FullInv
<1>2. CASE Next
  BY <1>0, <1>2, RegisterLoanStep, ProcessSignalStep, CheckMaturitiesStep,
     RepayMaturedStep, ClaimInRedisStep, ClaimDeniedStep, ClaimInMemoryStep,
     RepayStep, ForgetStep, UnwatchStep, CrashStep, TickStep
     DEF Next, Monitor, Proceed
<1>q. QED BY <1>1, <1>2

-----------------------------------------------------------------------------
(* The theorems. *)

\* The workers and the books stay well formed, and the invariant holds: the two
\* need each other.
THEOREM InvariantHolds == Spec => [](TypeOK /\ IInv)
<1>1. Init => TypeOK /\ IInv
  BY TypeInit, InvInit
<1>2. TypeOK /\ IInv /\ [Next]_vars => (TypeOK /\ IInv)'
  BY TypeStep, InvStep DEF IInv
<1>q. QED BY <1>1, <1>2, PTL DEF Spec

\* Every variable of the repayment engine keeps its type.
THEOREM TypeCorrect == Spec => []TypeOK
    BY InvariantHolds, PTL

\* While Redis answers and no claim can have lapsed, signals and maturity checks
\* of any number of instances repay a loan at most once.
THEOREM RepaidOnceWithinTtlHolds == Spec => []RepaidOnceWithinTtl
<1>1. IInv => RepaidOnceWithinTtl
  BY DEF IInv, ClaimInv, Harmless, RepaidOnceWithinTtl
<1>q. QED BY <1>1, InvariantHolds, PTL

\* Without crashes a loan leaves the books only after its callback, and between
\* calls the two registries of an instance are the same.
THEOREM BooksAreKeptHolds == Spec => []BooksAreKept
<1>1. TypeOK /\ IInv => BooksAreKept
  <2> SUFFICES ASSUME TypeOK, IInv, NEW i \in Instances
               PROVE  /\ crashes = 0 => \A l \in registered[i] :
                            sent[l] = 0 => l \in activeLoans[i] \cap monitored[i]
                      /\ (\A w \in Workers : w[1] = i => pc[w] # "unwatch")
                            => monitored[i] = activeLoans[i]
    BY DEF BooksAreKept
  <2>1. crashes = 0 => \A l \in registered[i] :
            sent[l] = 0 => l \in activeLoans[i] \cap monitored[i]
    BY DEF IInv, SentInv
  <2>2. ASSUME \A w \in Workers : w[1] = i => pc[w] # "unwatch"
        PROVE  monitored[i] = activeLoans[i]
    <3>1. activeLoans[i] \subseteq monitored[i]
      BY DEF IInv, UnwatchInv
    <3>2. monitored[i] \ activeLoans[i] = {}
      BY <2>2 DEF IInv, UnwatchInv
    <3>q. QED BY <3>1, <3>2
  <2>q. QED BY <2>1, <2>2
<1>q. QED BY <1>1, InvariantHolds, PTL

\* Under REQUIRE_FULL a loan is closed on the full amount only, and a claim on it
\* is a claim somebody serves.
THEOREM RequireFullAlways == Spec => []RequireFullHolds
<1>1. TypeOK /\ IInv => RequireFullHolds
  BY DEF TypeOK, IInv, FullInv, ServedInv, Served, RequireFullHolds
<1>q. QED BY <1>1, InvariantHolds, PTL
=============================================================================
