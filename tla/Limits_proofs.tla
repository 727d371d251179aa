----------------------------- MODULE Limits_proofs -----------------------------
(***************************************************************************)
(* The two components that keep sums within limits, each for itself, and   *)
(* the lemmas on sums that both rest on.                                   *)
(*                                                                         *)
(* The regulatory API for any number of requests, replicas, months and     *)
(* ticks: the buckets and counters keep the rate, what is metered keeps    *)
(* both budgets and makes up the bill, and who is not metered was          *)
(* overtaken.                                                              *)
(*                                                                         *)
(* The AML gate with tenants for any number of calls, tenants and amounts: *)
(* no rolling window passes the caps of its tenant where they can be kept, *)
(* and the structuring detector flags one of the calls that moved too      *)
(* much.                                                                   *)
(***************************************************************************)
EXTENDS TenantVelocity, RegulatoryApi, TLAPS, FiniteSetTheorems, WellFoundedInduction

-----------------------------------------------------------------------------
(*                         SUMS OVER FINITE SETS                           *)
(* The sum of the community modules is a fold: the value of a chosen       *)
(* function that solves a recursive equation on the subsets.  It has one   *)
(* solution, by induction on the subsets, and then the usual laws.         *)

\* The element a fold takes first of a set.
Pick(T) == CHOOSE x \in T : TRUE

\* Function g is the fold of the sum of f over the subsets of S.
Solves(g, f, S) ==
    g = [T \in SUBSET S |-> IF T = {} THEN 0 ELSE f[Pick(T)] + g[T \ {Pick(T)}]]

\* SumFunctionOnSet, by which the caps, the register and the budgets are summed, is the
\* value at S of the function its definition chooses.
LEMMA SumIsSolution ==
    ASSUME NEW f, NEW S
    PROVE  SumFunctionOnSet(f, S) = (CHOOSE g : Solves(g, f, S))[S]
    BY DEF SumFunctionOnSet, FoldFunctionOnSet, MapThenFoldSet, Solves, Pick

\* What holds of a subset whenever it holds of all its own strict subsets holds of every
\* subset of a finite set: induction with the family Good in the place of an operator.
LEMMA SubsetInduction ==
    ASSUME NEW S, IsFiniteSet(S), NEW Good,
           \A T \in SUBSET S :
               (\A U \in SUBSET T : U # T => U \in Good) => T \in Good
    PROVE  SUBSET S \subseteq Good
<1>. DEFINE bad == (SUBSET S) \ Good
<1>. SUFFICES ASSUME bad # {} PROVE FALSE
    OBVIOUS
<1>1. IsWellFoundedOn(StrictSubsetOrdering(S), SUBSET S)
    <2>1. FiniteSubsetsOf(S) = SUBSET S
        BY FS_FiniteSubsetsOfFinite
    <2>2. IsWellFoundedOn(StrictSubsetOrdering(S), FiniteSubsetsOf(S))
        BY FS_StrictSubsetOrderingWellFounded
    <2>. QED BY <2>1, <2>2
<1>2. PICK T \in bad : \A U \in bad : ~ (<<U, T>> \in StrictSubsetOrdering(S))
    <2>1. bad \subseteq SUBSET S
        OBVIOUS
    <2>. HIDE DEF bad
    <2>. QED BY <1>1, <2>1, WFMin
<1>3. \A U \in SUBSET T : U # T => U \in Good
    BY <1>2 DEF StrictSubsetOrdering
<1>. QED BY <1>2, <1>3

\* A set without the element that is taken first is another, smaller one.
LEMMA Removed ==
    ASSUME NEW T, T # {}
    PROVE  /\ Pick(T) \in T
           /\ T \ {Pick(T)} \in SUBSET T
           /\ T \ {Pick(T)} # T
<1>1. Pick(T) \in T
    BY DEF Pick
<1>. QED BY <1>1

\* The fold at a subset, from its value at the smaller one.
LEMMA SolutionAt ==
    ASSUME NEW f, NEW S, NEW g, Solves(g, f, S), NEW T \in SUBSET S
    PROVE  g[T] = IF T = {} THEN 0 ELSE f[Pick(T)] + g[T \ {Pick(T)}]
<1>. DEFINE h == [U \in SUBSET S |-> IF U = {} THEN 0 ELSE f[Pick(U)] + g[U \ {Pick(U)}]]
<1>1. g = h
    BY DEF Solves
<1>2. h[T] = IF T = {} THEN 0 ELSE f[Pick(T)] + g[T \ {Pick(T)}]
    OBVIOUS
<1>. QED BY <1>1, <1>2, Zenon

\* Two folds of one function agree where both are defined.
LEMMA SolutionsAgree ==
    ASSUME NEW f, NEW S, NEW g, Solves(g, f, S),
           NEW V, NEW h, Solves(h, f, V), NEW W, W \subseteq S, W \subseteq V, IsFiniteSet(W)
    PROVE  g[W] = h[W]
<1>. DEFINE Good == {T \in SUBSET W : g[T] = h[T]}
<1>1. ASSUME NEW T \in SUBSET W, \A U \in SUBSET T : U # T => U \in Good
      PROVE  T \in Good
    <2>1. g[T] = IF T = {} THEN 0 ELSE f[Pick(T)] + g[T \ {Pick(T)}]
        BY SolutionAt
    <2>2. h[T] = IF T = {} THEN 0 ELSE f[Pick(T)] + h[T \ {Pick(T)}]
        BY SolutionAt
    <2>3. T # {} => g[T \ {Pick(T)}] = h[T \ {Pick(T)}]
        BY <1>1, Removed
    <2>. QED BY <2>1, <2>2, <2>3
<1>2. SUBSET W \subseteq Good
    <2>. HIDE DEF Good
    <2>. QED BY <1>1, SubsetInduction
<1>. QED BY <1>2

\* A chosen solution.
FoldOf(f, S) == CHOOSE g : Solves(g, f, S)

\* A finite set has its fold, so what is chosen is one.
LEMMA SolutionExists ==
    ASSUME NEW f, NEW S, IsFiniteSet(S)
    PROVE  Solves(FoldOf(f, S), f, S)
<1>. DEFINE Good == {T \in SUBSET S : \E g : Solves(g, f, T)}
<1>1. ASSUME NEW T \in SUBSET S, \A U \in SUBSET T : U # T => U \in Good
      PROVE  T \in Good
    <2>. DEFINE G == [U \in SUBSET T |-> IF U = {} THEN 0
                        ELSE f[Pick(U)] + FoldOf(f, U \ {Pick(U)})[U \ {Pick(U)}]]
    <2>1. ASSUME NEW U \in SUBSET T, U # T
          PROVE  Solves(FoldOf(f, U), f, U)
        <3>1. \E g : Solves(g, f, U)
            BY <1>1, <2>1
        <3>. QED BY <3>1 DEF FoldOf
    <2>2. ASSUME NEW U \in SUBSET T, U # T
          PROVE  G[U] = FoldOf(f, U)[U]
        <3>1. CASE U = {}
            BY <2>1, <2>2, <3>1, SolutionAt
        <3>2. CASE U # {}
            <4>. DEFINE W == U \ {Pick(U)}
            <4>1. W \in SUBSET U /\ W # T /\ W \in SUBSET T
                BY <2>2, <3>2, Removed
            <4>2. Solves(FoldOf(f, U), f, U) /\ Solves(FoldOf(f, W), f, W)
                BY <2>1, <2>2, <4>1
            <4>3. IsFiniteSet(W)
                BY <4>1, FS_Subset
            <4>4. FoldOf(f, U)[W] = FoldOf(f, W)[W]
                BY <4>1, <4>2, <4>3, SolutionsAgree
            <4>5. FoldOf(f, U)[U] = f[Pick(U)] + FoldOf(f, U)[W]
                BY <3>2, <4>2, SolutionAt
            <4>6. G[U] = f[Pick(U)] + FoldOf(f, W)[W]
                BY <3>2
            <4>. QED BY <4>4, <4>5, <4>6
        <3>. QED BY <3>1, <3>2
    <2>3. \A U \in SUBSET T : U # {} => G[U \ {Pick(U)}] = FoldOf(f, U \ {Pick(U)})[U \ {Pick(U)}]
        <3>. TAKE U \in SUBSET T
        <3>. HAVE U # {}
        <3>1. U \ {Pick(U)} \in SUBSET T /\ U \ {Pick(U)} # T
            BY Removed
        <3>. HIDE DEF G
        <3>. QED BY <2>2, <3>1
    <2>4. Solves(G, f, T)
        BY <2>3 DEF Solves
    <2>. HIDE DEF G
    <2>. QED BY <2>4
<1>2. SUBSET S \subseteq Good
    <2>. HIDE DEF Good
    <2>. QED BY <1>1, SubsetInduction
<1>3. \E g : Solves(g, f, S)
    BY <1>2
<1>. QED BY <1>3 DEF FoldOf

\* The equation of the sum: the element taken first, and the sum of the rest.
LEMMA SumRecursion ==
    ASSUME NEW f, NEW S, IsFiniteSet(S)
    PROVE  SumFunctionOnSet(f, S) =
               IF S = {} THEN 0 ELSE f[Pick(S)] + SumFunctionOnSet(f, S \ {Pick(S)})
<1>1. CASE S = {}
    <2>1. FoldOf(f, S)[S] = 0
        BY <1>1, SolutionExists, SolutionAt
    <2>. QED BY <1>1, <2>1, SumIsSolution DEF FoldOf
<1>2. CASE S # {}
    <2>. DEFINE W == S \ {Pick(S)}
    <2>1. W \in SUBSET S /\ IsFiniteSet(W)
        BY <1>2, Removed, FS_Subset
    <2>2. Solves(FoldOf(f, S), f, S) /\ Solves(FoldOf(f, W), f, W)
        BY <2>1, SolutionExists
    <2>3. FoldOf(f, S)[W] = FoldOf(f, W)[W]
        BY <2>1, <2>2, SolutionsAgree
    <2>4. FoldOf(f, S)[S] = f[Pick(S)] + FoldOf(f, S)[W]
        BY <1>2, <2>2, SolutionAt
    <2>5. SumFunctionOnSet(f, S) = FoldOf(f, S)[S] /\ SumFunctionOnSet(f, W) = FoldOf(f, W)[W]
        BY SumIsSolution DEF FoldOf
    <2>. QED BY <1>2, <2>3, <2>4, <2>5
<1>. QED BY <1>1, <1>2

\* The sum of nothing is zero.
LEMMA SumEmpty ==
    ASSUME NEW f
    PROVE  SumFunctionOnSet(f, {}) = 0
    BY SumRecursion, FS_EmptySet

\* A sum of natural numbers is one.
LEMMA SumType ==
    ASSUME NEW f, NEW S, IsFiniteSet(S), \A x \in S : f[x] \in Nat
    PROVE  SumFunctionOnSet(f, S) \in Nat
<1>. DEFINE Good == {T \in SUBSET S : SumFunctionOnSet(f, T) \in Nat}
<1>1. ASSUME NEW T \in SUBSET S, \A U \in SUBSET T : U # T => U \in Good
      PROVE  T \in Good
    <2>1. IsFiniteSet(T)
        BY FS_Subset
    <2>2. CASE T = {}
        BY <2>2, SumEmpty
    <2>3. CASE T # {}
        <3>1. Pick(T) \in S /\ T \ {Pick(T)} \in Good
            BY <1>1, <2>3, Removed
        <3>2. SumFunctionOnSet(f, T) = f[Pick(T)] + SumFunctionOnSet(f, T \ {Pick(T)})
            BY <2>1, <2>3, SumRecursion
        <3>. QED BY <3>1, <3>2
    <2>. QED BY <2>2, <2>3
<1>2. SUBSET S \subseteq Good
    <2>. HIDE DEF Good
    <2>. QED BY <1>1, SubsetInduction
<1>. QED BY <1>2

\* Any element may be taken out first.
LEMMA SumRemove ==
    ASSUME NEW f, NEW S, IsFiniteSet(S), \A x \in S : f[x] \in Nat, NEW e \in S
    PROVE  SumFunctionOnSet(f, S) = f[e] + SumFunctionOnSet(f, S \ {e})
<1>. DEFINE Sum(T) == SumFunctionOnSet(f, T)
            Good == {T \in SUBSET S : \A y \in T : Sum(T) = f[y] + Sum(T \ {y})}
<1>1. ASSUME NEW T \in SUBSET S, \A U \in SUBSET T : U # T => U \in Good
      PROVE  T \in Good
    <2>. SUFFICES ASSUME NEW y \in T PROVE Sum(T) = f[y] + Sum(T \ {y})
        OBVIOUS
    <2>. DEFINE p == Pick(T)
    <2>0. IsFiniteSet(T) /\ p \in T
        BY FS_Subset, Removed
    <2>1. Sum(T) = f[p] + Sum(T \ {p})
        BY <2>0, SumRecursion
    <2>2. CASE y = p
        BY <2>1, <2>2
    <2>3. CASE y # p
        <3>. DEFINE V == T \ {p}
                    W == T \ {y}
                    Z == T \ {p, y}
        <3>1. V \in Good /\ W \in Good /\ y \in V /\ p \in W
            BY <1>1, <2>0, <2>3
        <3>2. V \ {y} = Z /\ W \ {p} = Z
            OBVIOUS
        <3>3. Sum(V) = f[y] + Sum(Z) /\ Sum(W) = f[p] + Sum(Z)
            <4>. HIDE DEF Sum, V, W, Z
            <4>1. Sum(V) = f[y] + Sum(V \ {y}) /\ Sum(W) = f[p] + Sum(W \ {p})
                BY <3>1
            <4>. QED BY <4>1, <3>2
        <3>4. IsFiniteSet(Z)
            BY <2>0, FS_Subset
        <3>5. Sum(Z) \in Nat /\ f[y] \in Nat /\ f[p] \in Nat
            BY <2>0, <3>4, SumType
        <3>6. Sum(T) = f[p] + Sum(V)
            BY <2>1
        <3>. HIDE DEF Sum, V, Z, p
        <3>. QED BY <3>3, <3>5, <3>6
    <2>. QED BY <2>2, <2>3
<1>2. SUBSET S \subseteq Good
    <2>. HIDE DEF Good
    <2>. QED BY <1>1, SubsetInduction
<1>. QED BY <1>2

\* A new element adds its value.
LEMMA SumAdd ==
    ASSUME NEW f, NEW S, IsFiniteSet(S), NEW e, e \notin S,
           \A x \in S \cup {e} : f[x] \in Nat
    PROVE  SumFunctionOnSet(f, S \cup {e}) = SumFunctionOnSet(f, S) + f[e]
<1>. DEFINE T == S \cup {e}
<1>1. IsFiniteSet(T) /\ e \in T /\ T \ {e} = S
    BY FS_AddElement
<1>2. \A x \in T : f[x] \in Nat
    OBVIOUS
<1>. HIDE DEF T
<1>3. SumFunctionOnSet(f, T) = f[e] + SumFunctionOnSet(f, T \ {e})
    BY <1>1, <1>2, SumRemove
<1>4. SumFunctionOnSet(f, S) \in Nat
    BY <1>1, <1>2, SumType, FS_Subset
<1>5. f[e] \in Nat
    BY <1>1, <1>2
<1>6. SumFunctionOnSet(f, T) = SumFunctionOnSet(f, S) + f[e]
    BY <1>1, <1>3, <1>4, <1>5
<1>. QED BY <1>6 DEF T

\* A sum is of the values over its set.
LEMMA SumSame ==
    ASSUME NEW f, NEW g, NEW S, IsFiniteSet(S), \A x \in S : f[x] = g[x]
    PROVE  SumFunctionOnSet(f, S) = SumFunctionOnSet(g, S)
<1>. DEFINE Good == {T \in SUBSET S : SumFunctionOnSet(f, T) = SumFunctionOnSet(g, T)}
<1>1. ASSUME NEW T \in SUBSET S, \A U \in SUBSET T : U # T => U \in Good
      PROVE  T \in Good
    <2>1. IsFiniteSet(T)
        BY FS_Subset
    <2>2. CASE T = {}
        BY <2>2, SumEmpty
    <2>3. CASE T # {}
        <3>1. Pick(T) \in S /\ T \ {Pick(T)} \in Good
            BY <1>1, <2>3, Removed
        <3>. QED BY <2>1, <2>3, <3>1, SumRecursion
    <2>. QED BY <2>2, <2>3
<1>2. SUBSET S \subseteq Good
    <2>. HIDE DEF Good
    <2>. QED BY <1>1, SubsetInduction
<1>. QED BY <1>2

\* A part sums to no more than the whole.
LEMMA SumMonotone ==
    ASSUME NEW f, NEW S, IsFiniteSet(S), \A x \in S : f[x] \in Nat, NEW P \in SUBSET S
    PROVE  SumFunctionOnSet(f, P) <= SumFunctionOnSet(f, S)
<1>. DEFINE Sum(T) == SumFunctionOnSet(f, T)
            Good == {T \in SUBSET S : P \subseteq T => Sum(P) <= Sum(T)}
<1>1. ASSUME NEW T \in SUBSET S, \A U \in SUBSET T : U # T => U \in Good
      PROVE  T \in Good
    <2>. SUFFICES ASSUME P \subseteq T PROVE Sum(P) <= Sum(T)
        OBVIOUS
    <2>1. IsFiniteSet(T) /\ Sum(T) \in Nat
        <3>1. IsFiniteSet(T)
            BY FS_Subset
        <3>. QED BY <3>1, SumType
    <2>2. CASE P = T
        BY <2>1, <2>2
    <2>3. CASE P # T
        <3>1. PICK e \in T : e \notin P
            BY <2>3
        <3>. DEFINE U == T \ {e}
        <3>2. U \in Good /\ P \subseteq U /\ IsFiniteSet(U)
            BY <1>1, <2>1, <3>1, FS_Subset
        <3>3. Sum(T) = f[e] + Sum(U)
            BY <2>1, SumRemove
        <3>4. Sum(U) \in Nat /\ f[e] \in Nat /\ Sum(P) \in Nat
            <4>1. IsFiniteSet(P)
                BY FS_Subset
            <4>. QED BY <3>2, <4>1, SumType
        <3>5. Sum(P) <= Sum(U)
            BY <3>2
        <3>. HIDE DEF Sum, U
        <3>. QED BY <3>3, <3>4, <3>5
    <2>. QED BY <2>2, <2>3
<1>2. SUBSET S \subseteq Good
    <2>. HIDE DEF Good
    <2>. QED BY <1>1, SubsetInduction
<1>. QED BY <1>2

\* A value that grows makes the sum grow by as much.
LEMMA SumRaise ==
    ASSUME NEW f, NEW g, NEW S, IsFiniteSet(S), \A x \in S : f[x] \in Nat,
           NEW e \in S, NEW a \in Nat, g[e] = f[e] + a, \A x \in S \ {e} : g[x] = f[x]
    PROVE  SumFunctionOnSet(g, S) = SumFunctionOnSet(f, S) + a
<1>1. \A x \in S : g[x] \in Nat
    OBVIOUS
<1>2. IsFiniteSet(S \ {e})
    BY FS_Subset
<1>3. SumFunctionOnSet(g, S) = g[e] + SumFunctionOnSet(g, S \ {e})
    BY <1>1, SumRemove
<1>4. SumFunctionOnSet(f, S) = f[e] + SumFunctionOnSet(f, S \ {e})
    BY SumRemove
<1>5. SumFunctionOnSet(f, S \ {e}) \in Nat
    BY <1>2, SumType
<1>6. SumFunctionOnSet(g, S \ {e}) = SumFunctionOnSet(f, S \ {e})
    BY <1>2, SumSame
<1>. QED BY <1>3, <1>4, <1>5, <1>6

\* A sum of zeros is zero.
LEMMA SumZero ==
    ASSUME NEW S, IsFiniteSet(S), NEW f, \A x \in S : f[x] = 0
    PROVE  SumFunctionOnSet(f, S) = 0
<1>. DEFINE Good == {T \in SUBSET S : SumFunctionOnSet(f, T) = 0}
<1>1. ASSUME NEW T \in SUBSET S, \A U \in SUBSET T : U # T => U \in Good
      PROVE  T \in Good
    <2>1. IsFiniteSet(T)
        BY FS_Subset
    <2>2. CASE T = {}
        BY <2>2, SumEmpty
    <2>3. CASE T # {}
        <3>1. Pick(T) \in S /\ T \ {Pick(T)} \in Good
            BY <1>1, <2>3, Removed
        <3>. QED BY <2>1, <2>3, <3>1, SumRecursion
    <2>. QED BY <2>2, <2>3
<1>2. SUBSET S \subseteq Good
    <2>. HIDE DEF Good
    <2>. QED BY <1>1, SubsetInduction
<1>. QED BY <1>2

-----------------------------------------------------------------------------
(*                        QUOTIENTS AND PRODUCTS                           *)

\* A quotient of natural numbers is one: periods and months of the clock.
LEMMA QuotientType ==
    ASSUME NEW a \in Nat, NEW d \in Nat \ {0}
    PROVE  a \div d \in Nat
    BY SMTT(30)

\* A later time is in no earlier period or month.
LEMMA QuotientGrows ==
    ASSUME NEW a \in Nat, NEW b \in Nat, NEW d \in Nat \ {0}, a <= b
    PROVE  a \div d <= b \div d
    BY SMTT(30)

\* A product of natural numbers is one: the refill of a stretch of time.
LEMMA ProductType ==
    ASSUME NEW a \in Nat, NEW b \in Nat
    PROVE  a * b \in Nat
    BY SMTT(30)

\* The refill of two stretches of time is that of both together.
LEMMA ProductSum ==
    ASSUME NEW a \in Nat, NEW b \in Nat, NEW k \in Nat
    PROVE  (a + b) * k = a * k + b * k
    BY SMTT(30)

\* A longer stretch of time brings no less refill.
LEMMA ProductGrows ==
    ASSUME NEW a \in Nat, NEW b \in Nat, NEW k \in Nat, a <= b
    PROVE  a * k <= b * k
    BY SMTT(30)

-----------------------------------------------------------------------------
(*                          THE REGULATORY API                             *)

\* The record of a request that came.
Records == [step : RequestSteps \cup Answers, replica : Replicas,
            cost : Costs, at : 0 .. MaxTime, allowedBy : Stores,
            month : Months, count : 0 .. QueryBudget, overtaken : BOOLEAN]

\* The requests that came.
Came == {r \in Requests : request[r] # NoRequest}

\* A counter of the limiter counts no more requests than came.
CounterCounts == \A w \in 0 .. MaxTime \div Period : counter[w] <= Cardinality(Came)

\* No bucket was refilled in the future.
Punctual == \A p \in Replicas : bucket[p].at <= clock

\* The type invariant, with what bounds the counters and the buckets.
RATypeInv == RATypeOK /\ CounterCounts /\ Punctual

\* A request that is not idle has a whole record.
LEMMA RecordOf ==
    ASSUME RATypeOK, NEW r \in Requests, request[r].step # "idle"
    PROVE  request[r] \in Records /\ request[r] # NoRequest
    BY DEF RATypeOK, Records, NoRequest

\* A request that did not come is idle.
LEMMA NotYet ==
    ASSUME NEW r, request[r] = NoRequest
    PROVE  request[r].step = "idle"
    BY DEF NoRequest

\* The month and the period of now are in their ranges.
LEMMA MonthIsOne ==
    ASSUME RATypeOK
    PROVE  /\ Month \in Months
           /\ clock \div Period \in 0 .. MaxTime \div Period
<1>1. clock \in Nat /\ clock <= MaxTime /\ MaxTime \in Nat
    BY EnvironmentAssumption DEF RATypeOK, EnvironmentOK
<1>2. MonthLength \in Nat \ {0} /\ Period \in Nat \ {0}
    BY RegulatoryApiAssumption
<1>3. /\ clock \div MonthLength \in Nat /\ MaxTime \div MonthLength \in Nat
      /\ clock \div Period \in Nat /\ MaxTime \div Period \in Nat
    BY <1>1, <1>2, QuotientType
<1>4. /\ clock \div MonthLength <= MaxTime \div MonthLength
      /\ clock \div Period <= MaxTime \div Period
    BY <1>1, <1>2, QuotientGrows
<1>. QED BY <1>3, <1>4 DEF Month, Months

\* The meter of a replica is a store: the shared one or its own.
LEMMA MeterIsStore ==
    ASSUME NEW p \in Replicas
    PROVE  MeterOf(p) \in Stores /\ (MeterOf(p) = Shared \/ MeterOf(p) = p)
    BY DEF MeterOf, Stores

\* A bucket has a natural number of parts.
LEMMA SizeType ==
    Rate \in Nat /\ Period \in Nat /\ Rate * Period \in Nat
    BY RegulatoryApiAssumption, ProductType

\* The refill of a bucket is at most the bucket, and at most what the time brought.
LEMMA RefillBounds ==
    ASSUME RATypeOK, NEW p \in Replicas, bucket[p].at <= clock
    PROVE  /\ Refilled(p) \in 0 .. Rate * Period
           /\ Refilled(p) <= bucket[p].tokens + (clock - bucket[p].at) * Rate
<1>. DEFINE size == Rate * Period
            refill == (clock - bucket[p].at) * Rate
<1>1. /\ bucket[p].tokens \in 0 .. size /\ bucket[p].at \in 0 .. MaxTime
      /\ clock \in 0 .. MaxTime /\ MaxTime \in Nat
    BY EnvironmentAssumption DEF RATypeOK, EnvironmentOK
<1>2. Rate \in Nat /\ size \in Nat
    BY SizeType
<1>3. refill \in Nat
    <2>1. clock - bucket[p].at \in Nat
        BY <1>1
    <2>. QED BY <2>1, <1>2, ProductType
<1>4. Refilled(p) = IF bucket[p].tokens + refill < size THEN bucket[p].tokens + refill ELSE size
    BY DEF Refilled
<1>. HIDE DEF refill, size
<1>5. Refilled(p) \in 0 .. size /\ Refilled(p) <= bucket[p].tokens + refill
    BY <1>1, <1>2, <1>3, <1>4
<1>. QED BY <1>5 DEF refill, size

-----------------------------------------------------------------------------
(* What the steps do. *)

\* What the limiter and the checks after it make of a request.
Outcomes == {"rate limited", "check", "refused"}

\* The record of a request the limiter let in, or did not.
Lands(r, p, c, by, step) ==
    request' = [request EXCEPT ![r] =
        [step |-> step, replica |-> p, cost |-> c, at |-> clock, allowedBy |-> by,
         month |-> Month, count |-> 0, overtaken |-> FALSE]]

\* A request the limiter decided about gets a whole record of now, and it alone.
LEMMA LandsDoes ==
    ASSUME RATypeOK, NEW r \in Requests, NEW p \in Replicas, NEW c \in Costs,
           NEW by \in Stores, NEW step \in Outcomes,
           Lands(r, p, c, by, step)
    PROVE  /\ request' \in [Requests -> {NoRequest} \cup Records]
           /\ request'[r] \in Records
           /\ request'[r].at = clock /\ request'[r].allowedBy = by
           /\ request'[r].step = step
           /\ \A d \in Requests : d # r => request'[d] = request[d]
<1>. DEFINE new == [step |-> step, replica |-> p, cost |-> c, at |-> clock, allowedBy |-> by,
                    month |-> Month, count |-> 0, overtaken |-> FALSE]
<1>1. step \in RequestSteps \cup Answers
    BY DEF Outcomes, RequestSteps, Answers
<1>2. new \in Records
    <2>1. clock \in 0 .. MaxTime /\ Month \in Months /\ 0 \in 0 .. QueryBudget
        BY MonthIsOne, RegulatoryApiAssumption DEF RATypeOK, EnvironmentOK
    <2>. QED BY <1>1, <2>1 DEF Records
<1>3. /\ request' = [request EXCEPT ![r] = new]
      /\ new.step = step /\ new.at = clock /\ new.allowedBy = by
    BY DEF Lands
<1>. HIDE DEF new
<1>4. request \in [Requests -> {NoRequest} \cup Records]
    BY DEF RATypeOK, Records
<1>. QED BY <1>2, <1>3, <1>4

\* What a bucket lets in.
LEMMA TakeTokenDoes ==
    ASSUME RATypeOK, NEW r \in Requests, NEW p \in Replicas, NEW c \in Costs,
           TakeToken(r, p, c), bucket[p].at <= clock
    PROVE  /\ bucket' \in [Replicas -> [tokens : 0 .. Rate * Period, at : 0 .. MaxTime]]
           /\ \A q \in Replicas : q # p => bucket'[q] = bucket[q]
           /\ bucket'[p].at = clock
           /\ \E step \in Outcomes :
                /\ Lands(r, p, c, p, step)
                /\ bucket'[p].tokens =
                     IF step = "rate limited" THEN Refilled(p) ELSE Refilled(p) - Period
<1>. DEFINE left == IF Refilled(p) >= Period THEN Refilled(p) - Period ELSE Refilled(p)
            new == [tokens |-> left, at |-> clock]
<1>1. /\ bucket' = [bucket EXCEPT ![p] = new]
      /\ Arrived(r, p, c, p, Refilled(p) >= Period)
    BY DEF TakeToken
<1>2. left \in 0 .. Rate * Period
    <2>. DEFINE size == Rate * Period
    <2>1. Refilled(p) \in 0 .. size /\ size \in Nat /\ Period \in Nat
        BY RefillBounds, SizeType
    <2>. HIDE DEF size
    <2>2. left \in 0 .. size
        BY <2>1
    <2>. QED BY <2>2 DEF size
<1>3. new \in [tokens : 0 .. Rate * Period, at : 0 .. MaxTime] /\ new.at = clock /\ new.tokens = left
    <2>. HIDE DEF left
    <2>. QED BY <1>2 DEF RATypeOK, EnvironmentOK
<1>4. /\ bucket' \in [Replicas -> [tokens : 0 .. Rate * Period, at : 0 .. MaxTime]]
      /\ \A q \in Replicas : q # p => bucket'[q] = bucket[q]
      /\ bucket'[p] = new
    <2>. HIDE DEF new
    <2>. QED BY <1>1, <1>3 DEF RATypeOK
<1>5. \E step \in Outcomes :
          Lands(r, p, c, p, step) /\ (step = "rate limited" <=> ~ (Refilled(p) >= Period))
    <2>1. CASE Refilled(p) >= Period
        BY <1>1, <2>1 DEF Arrived, Lands, Outcomes
    <2>2. CASE ~ (Refilled(p) >= Period)
        BY <1>1, <2>2 DEF Arrived, Lands, Outcomes
    <2>. QED BY <2>1, <2>2
<1>6. PICK step \in Outcomes :
          Lands(r, p, c, p, step) /\ (step = "rate limited" <=> ~ (Refilled(p) >= Period))
    BY <1>5
<1>7. left = IF step = "rate limited" THEN Refilled(p) ELSE Refilled(p) - Period
    BY <1>6
<1>. HIDE DEF left, new
<1>. QED BY <1>3, <1>4, <1>6, <1>7

\* A request that a step moves, but for the limiter's steps: it was under way before
\* and is afterwards, and what it came with stays.
Moves(d) ==
    /\ request[d] \in Records /\ request'[d] \in Records
    /\ request[d].step \notin {"idle", "rate limited"}
    /\ request'[d].step \notin {"idle", "rate limited"}
    /\ request'[d].replica = request[d].replica
    /\ request'[d].cost = request[d].cost
    /\ request'[d].at = request[d].at
    /\ request'[d].allowedBy = request[d].allowedBy

\* Every request stays or moves.
MoveOnly == \A d \in Requests : request'[d] = request[d] \/ Moves(d)

\* The steps of a request that the limiter let in and that is not answered.
UnderWay == {"check", "second get", "serve"}

\* What a request may become on its way.
MayMoveTo(d, step, month, count, overtaken) ==
    /\ request[d].step \in UnderWay
    /\ step \in Answers \cup UnderWay /\ step # "rate limited"
    /\ month \in Months /\ count \in 0 .. QueryBudget /\ overtaken \in BOOLEAN

\* The new record of a request.
MovesTo(d, step, month, count, overtaken) ==
    /\ MayMoveTo(d, step, month, count, overtaken)
    /\ request'[d] = [request[d] EXCEPT !.step = step, !.month = month, !.count = count,
                                        !.overtaken = overtaken]

\* A request that is moved on keeps its record whole.
LEMMA Moved ==
    ASSUME RATypeOK, NEW d \in Requests, NEW step, NEW month, NEW count, NEW overtaken,
           MovesTo(d, step, month, count, overtaken)
    PROVE  /\ Moves(d)
           /\ request'[d].step = step
           /\ request'[d].month = month
           /\ request'[d].count = count
           /\ request'[d].overtaken = overtaken
<1>0. request[d].step \notin {"idle", "rate limited"}
    BY DEF UnderWay, MovesTo, MayMoveTo
<1>1. request[d] \in Records
      /\ request'[d] = [request[d] EXCEPT !.step = step, !.month = month, !.count = count,
                                          !.overtaken = overtaken]
    BY <1>0, RecordOf DEF MovesTo
<1>2. /\ step \in RequestSteps \cup Answers /\ step # "idle" /\ step # "rate limited"
      /\ month \in Months /\ count \in 0 .. QueryBudget /\ overtaken \in BOOLEAN
    BY DEF RequestSteps, Answers, UnderWay, MovesTo, MayMoveTo
<1>3. request'[d] \in Records
    BY <1>1, <1>2 DEF Records
<1>4. /\ request'[d].step = step /\ request'[d].month = month
      /\ request'[d].count = count /\ request'[d].overtaken = overtaken
      /\ request'[d].replica = request[d].replica
      /\ request'[d].cost = request[d].cost
      /\ request'[d].at = request[d].at
      /\ request'[d].allowedBy = request[d].allowedBy
    BY <1>1 DEF Records
<1>. QED BY <1>0, <1>1, <1>2, <1>3, <1>4 DEF Moves

\* Moves keep every record whole.
LEMMA MoveOnlyTyped ==
    ASSUME RATypeOK, MoveOnly, NEW q, q = request', q = [d \in Requests |-> q[d]]
    PROVE  q \in [Requests -> {NoRequest} \cup Records]
<1>1. \A d \in Requests : q[d] \in {NoRequest} \cup Records
    BY DEF MoveOnly, Moves, RATypeOK, Records
<1>. QED BY <1>1

\* A step that changes the record of one request, and that one as above.
OneMovesTo(r, step, month, count, overtaken) ==
    /\ MayMoveTo(r, step, month, count, overtaken)
    /\ request' = [request EXCEPT ![r] =
          [request[r] EXCEPT !.step = step, !.month = month, !.count = count,
                             !.overtaken = overtaken]]

\* A request whose record alone a step changes.
LEMMA OneMoves ==
    ASSUME RATypeOK, NEW r \in Requests, NEW step, NEW month, NEW count, NEW overtaken,
           OneMovesTo(r, step, month, count, overtaken)
    PROVE  /\ MoveOnly
           /\ request' \in [Requests -> {NoRequest} \cup Records]
           /\ \A d \in Requests : d # r => request'[d] = request[d]
           /\ Moves(r)
           /\ request'[r].step = step /\ request'[r].month = month
           /\ request'[r].count = count /\ request'[r].overtaken = overtaken
<1>1. request \in [Requests -> {NoRequest} \cup Records]
    BY DEF RATypeOK, Records
<1>2. /\ MovesTo(r, step, month, count, overtaken)
      /\ \A d \in Requests : d # r => request'[d] = request[d]
      /\ request' = [d \in Requests |-> request'[d]]
    BY <1>1 DEF MovesTo, OneMovesTo
<1>3. /\ Moves(r)
      /\ request'[r].step = step /\ request'[r].month = month
      /\ request'[r].count = count /\ request'[r].overtaken = overtaken
    BY <1>2, Moved
<1>4. MoveOnly
    BY <1>2, <1>3 DEF MoveOnly
<1>5. request' \in [Requests -> {NoRequest} \cup Records]
    BY <1>2, <1>4, MoveOnlyTyped
<1>. QED BY <1>2, <1>3, <1>4, <1>5

\* A count of nothing is within the budget of queries.
LEMMA NoCount == 0 \in 0 .. QueryBudget
    BY RegulatoryApiAssumption

\* Redis fails no more often than the bound.
LEMMA FaultsBounded ==
    ASSUME RATypeOK, faults' = faults \/ (faults < MaxFaults /\ faults' = faults + 1)
    PROVE  faults' \in 0 .. MaxFaults
    BY EnvironmentAssumption DEF RATypeOK, EnvironmentOK

\* assert_within_budget in _check_regulator: the request goes on only when the usage that was
\* read had room for it, and remembers the month it was read in.
LEMMA DecidedDoes ==
    ASSUME RATypeOK, NEW r \in Requests, request[r].step \in UnderWay,
           NEW u, NEW month \in Months,
           request' = [request EXCEPT ![r] = [Decided(r, u) EXCEPT !.month = month]]
    PROVE  /\ MoveOnly
           /\ request' \in [Requests -> {NoRequest} \cup Records]
           /\ \A d \in Requests : d # r => request'[d] = request[d]
           /\ Moves(r)
           /\ request'[r].step \in {"serve", "over budget"}
           /\ request'[r].step = "serve" => WithinBudget(u, request[r].cost)
           /\ request'[r].month = month
           /\ request'[r].overtaken = request[r].overtaken
<1>. DEFINE within == WithinBudget(u, request[r].cost)
            step == IF within THEN "serve" ELSE "over budget"
<1>1. request[r].step # "idle"
    BY DEF UnderWay
<1>2. request[r] \in Records /\ request[r].overtaken \in BOOLEAN
    <2>1. request[r] \in Records
        BY <1>1, RecordOf
    <2>. QED BY <2>1 DEF Records
<1>3. Decided(r, u) = [request[r] EXCEPT !.step = step, !.count = 0]
    BY DEF Decided
<1>4. step \in {"serve", "over budget"} /\ (step = "serve" => within)
    OBVIOUS
<1>. HIDE DEF step, within
<1>5. [Decided(r, u) EXCEPT !.month = month]
        = [request[r] EXCEPT !.step = step, !.month = month, !.count = 0,
                             !.overtaken = request[r].overtaken]
    <2>1. [[request[r] EXCEPT !.step = step, !.count = 0] EXCEPT !.month = month]
            = [request[r] EXCEPT !.step = step, !.month = month, !.count = 0,
                                 !.overtaken = request[r].overtaken]
        BY <1>2 DEF Records
    <2>. QED BY <1>3, <2>1
<1>6. step \in Answers \cup UnderWay /\ step # "rate limited"
    BY <1>4 DEF Answers, UnderWay
<1>7. /\ MoveOnly
      /\ request' \in [Requests -> {NoRequest} \cup Records]
      /\ \A d \in Requests : d # r => request'[d] = request[d]
      /\ Moves(r)
      /\ request'[r].step = step /\ request'[r].month = month
      /\ request'[r].overtaken = request[r].overtaken
    <2>1. OneMovesTo(r, step, month, 0, request[r].overtaken)
        BY <1>2, <1>5, <1>6, NoCount DEF OneMovesTo, MayMoveTo
    <2>. QED BY <2>1, OneMoves
<1>. QED BY <1>4, <1>7 DEF within

\* The pre-check in the memory of a replica.
LEMMA PreCheckDoes ==
    ASSUME RATypeOK, NEW r \in Requests, PreCheck(r)
    PROVE  /\ MoveOnly
           /\ request' \in [Requests -> {NoRequest} \cup Records]
           /\ \A d \in Requests : d # r => request'[d] = request[d]
           /\ Moves(r) /\ request[r].step = "check"
           /\ request'[r].step \in {"serve", "over budget"}
           /\ request'[r].step = "serve" =>
                WithinBudget(usage[MeterOf(request[r].replica)][Month], request[r].cost)
           /\ request'[r].month = Month
<1>. DEFINE u == usage[MeterOf(request[r].replica)][Month]
<1>1. /\ request[r].step = "check" /\ Month \in Months
      /\ request' = [request EXCEPT ![r] = [Decided(r, u) EXCEPT !.month = Month]]
    BY MonthIsOne DEF PreCheck, RequestAt
<1>2. request[r].step \in UnderWay
    BY <1>1 DEF UnderWay
<1>. HIDE DEF u
<1>3. /\ MoveOnly
      /\ request' \in [Requests -> {NoRequest} \cup Records]
      /\ \A d \in Requests : d # r => request'[d] = request[d]
      /\ Moves(r)
      /\ request'[r].step \in {"serve", "over budget"}
      /\ request'[r].step = "serve" => WithinBudget(u, request[r].cost)
      /\ request'[r].month = Month
    BY <1>1, <1>2, DecidedDoes
<1>. QED BY <1>1, <1>3 DEF u

\* The first GET of the pre-check in Redis: the count of the month is kept for the second.
LEMMA GetCountDoes ==
    ASSUME RATypeOK, NEW r \in Requests, GetCount(r)
    PROVE  /\ MoveOnly
           /\ request' \in [Requests -> {NoRequest} \cup Records]
           /\ \A d \in Requests : d # r => request'[d] = request[d]
           /\ request[r].step = "check" /\ request'[r].step = "second get"
           /\ request'[r].month = Month
           /\ request'[r].count = usage[Shared][Month].count
<1>. DEFINE count == usage[Shared][Month].count
<1>1. /\ request[r].step = "check" /\ Month \in Months
      /\ request' = [request EXCEPT ![r].step = "second get", ![r].count = count,
                                    ![r].month = Month]
    BY MonthIsOne DEF GetCount, RequestAt
<1>2. request[r] \in Records /\ request \in [Requests -> {NoRequest} \cup Records]
    BY <1>1, RecordOf DEF RATypeOK, Records
<1>3. count \in 0 .. QueryBudget
    <2>1. Shared \in Stores
        BY DEF Stores
    <2>2. usage[Shared] \in [Months -> [count : 0 .. QueryBudget, epsilon : 0 .. EpsilonBudget,
                                        entries : SUBSET Requests]]
        BY <2>1 DEF RATypeOK
    <2>3. usage[Shared][Month] \in [count : 0 .. QueryBudget, epsilon : 0 .. EpsilonBudget,
                                    entries : SUBSET Requests]
        BY <1>1, <2>2
    <2>. QED BY <2>3
<1>. HIDE DEF count
<1>4. request' = [request EXCEPT ![r] =
              [request[r] EXCEPT !.step = "second get", !.month = Month, !.count = count,
                                 !.overtaken = request[r].overtaken]]
    <2>1. [request[r] EXCEPT !.step = "second get", !.count = count, !.month = Month]
            = [request[r] EXCEPT !.step = "second get", !.month = Month, !.count = count,
                                 !.overtaken = request[r].overtaken]
        BY <1>2 DEF Records
    <2>2. request' = [request EXCEPT ![r] =
              [request[r] EXCEPT !.step = "second get", !.count = count, !.month = Month]]
        BY <1>1, <1>2
    <2>. QED BY <2>1, <2>2
<1>5. /\ request[r].step \in UnderWay /\ "second get" \in Answers \cup UnderWay
      /\ "second get" # "rate limited" /\ request[r].overtaken \in BOOLEAN
    BY <1>1, <1>2 DEF UnderWay, Records
<1>6. /\ MoveOnly
      /\ request' \in [Requests -> {NoRequest} \cup Records]
      /\ \A d \in Requests : d # r => request'[d] = request[d]
      /\ request'[r].step = "second get" /\ request'[r].month = Month
      /\ request'[r].count = count
    <2>1. OneMovesTo(r, "second get", Month, count, request[r].overtaken)
        BY <1>1, <1>3, <1>4, <1>5 DEF OneMovesTo, MayMoveTo
    <2>2. PICK step, month, overtaken : /\ step = "second get" /\ month = Month
                                       /\ overtaken = request[r].overtaken
        OBVIOUS
    <2>3. OneMovesTo(r, step, month, count, overtaken)
        BY <2>1, <2>2
    <2>4. /\ MoveOnly
          /\ request' \in [Requests -> {NoRequest} \cup Records]
          /\ \A d \in Requests : d # r => request'[d] = request[d]
          /\ request'[r].step = step /\ request'[r].month = month
          /\ request'[r].count = count
        BY <2>3, OneMoves
    <2>. QED BY <2>2, <2>4
<1>. QED BY <1>1, <1>6 DEF count

\* The second GET, of the epsilon, decides with the count of the first.
LEMMA GetEpsilonDoes ==
    ASSUME RATypeOK, NEW r \in Requests, GetEpsilon(r)
    PROVE  /\ MoveOnly
           /\ request' \in [Requests -> {NoRequest} \cup Records]
           /\ \A d \in Requests : d # r => request'[d] = request[d]
           /\ Moves(r) /\ request[r].step = "second get"
           /\ request'[r].step \in {"serve", "over budget"}
           /\ request'[r].step = "serve" =>
                WithinBudget([count |-> request[r].count,
                              epsilon |-> usage[Shared][request[r].month].epsilon],
                             request[r].cost)
           /\ request'[r].month = request[r].month
           /\ request'[r].overtaken = request[r].overtaken
<1>. DEFINE u == [count |-> request[r].count,
                  epsilon |-> usage[Shared][request[r].month].epsilon]
<1>1. /\ request[r].step = "second get"
      /\ request' = [request EXCEPT ![r] = Decided(r, u)]
    BY DEF GetEpsilon, RequestAt
<1>2. request[r] \in Records
    BY <1>1, RecordOf
<1>. HIDE DEF u
<1>3. request[r].step \in UnderWay /\ request[r].month \in Months
    BY <1>1, <1>2 DEF UnderWay, Records
<1>4. [Decided(r, u) EXCEPT !.month = request[r].month] = Decided(r, u)
    <2>. DEFINE step == IF WithinBudget(u, request[r].cost) THEN "serve" ELSE "over budget"
    <2>1. Decided(r, u) = [request[r] EXCEPT !.step = step, !.count = 0]
        BY DEF Decided
    <2>. HIDE DEF step
    <2>. QED BY <1>2, <2>1 DEF Records
<1>5. request' = [request EXCEPT ![r] = [Decided(r, u) EXCEPT !.month = request[r].month]]
    BY <1>1, <1>4
<1>6. /\ MoveOnly
      /\ request' \in [Requests -> {NoRequest} \cup Records]
      /\ \A d \in Requests : d # r => request'[d] = request[d]
      /\ Moves(r)
      /\ request'[r].step \in {"serve", "over budget"}
      /\ request'[r].step = "serve" => WithinBudget(u, request[r].cost)
      /\ request'[r].month = request[r].month
      /\ request'[r].overtaken = request[r].overtaken
    BY <1>3, <1>5, DecidedDoes
<1>. QED BY <1>1, <1>6 DEF u

\* A Redis error of the meter refuses a request before its answer, and raises after it.
LEMMA MeterFailsDoes ==
    ASSUME RATypeOK, NEW r \in Requests, MeterFails(r)
    PROVE  /\ MoveOnly
           /\ request' \in [Requests -> {NoRequest} \cup Records]
           /\ \A d \in Requests : d # r => request'[d] = request[d]
           /\ Moves(r) /\ request[r].step \in UnderWay
           /\ request'[r].step \in {"refused", "raised"}
<1>. DEFINE step == IF RequestAt(r, "serve") THEN "raised" ELSE "refused"
<1>1. /\ request[r].step \in UnderWay
      /\ request' = [request EXCEPT ![r].step = step, ![r].count = 0]
      /\ step \in {"refused", "raised"}
    BY DEF MeterFails, RequestAt, UnderWay
<1>. HIDE DEF step
<1>2. request[r].step # "idle"
    BY <1>1 DEF UnderWay
<1>3. request \in [Requests -> {NoRequest} \cup Records] /\ request[r] \in Records
    BY <1>2, RecordOf DEF RATypeOK, Records
<1>4. request' = [request EXCEPT ![r] =
              [request[r] EXCEPT !.step = step, !.month = request[r].month, !.count = 0,
                                 !.overtaken = request[r].overtaken]]
    <2>1. [request[r] EXCEPT !.step = step, !.count = 0]
            = [request[r] EXCEPT !.step = step, !.month = request[r].month, !.count = 0,
                                 !.overtaken = request[r].overtaken]
        BY <1>3 DEF Records
    <2>2. request' = [request EXCEPT ![r] = [request[r] EXCEPT !.step = step, !.count = 0]]
        BY <1>1, <1>3
    <2>. QED BY <2>1, <2>2
<1>5. /\ step \in Answers \cup UnderWay /\ step # "rate limited"
      /\ request[r].month \in Months /\ request[r].overtaken \in BOOLEAN
    <2>1. step \in Answers \cup UnderWay /\ step # "rate limited"
        BY <1>1 DEF Answers
    <2>2. request[r].month \in Months /\ request[r].overtaken \in BOOLEAN
        BY <1>3 DEF Records
    <2>. QED BY <2>1, <2>2
<1>6. /\ MoveOnly
      /\ request' \in [Requests -> {NoRequest} \cup Records]
      /\ \A d \in Requests : d # r => request'[d] = request[d]
      /\ Moves(r) /\ request'[r].step = step
    <2>1. OneMovesTo(r, step, request[r].month, 0, request[r].overtaken)
        BY <1>1, <1>4, <1>5, NoCount DEF OneMovesTo, MayMoveTo
    <2>. QED BY <2>1, OneMoves
<1>. QED BY <1>1, <1>6

\* A request is in the records of the meter, whether its caller heard of it or not.
IsMetered(r) == RequestAt(r, "metered") \/ RequestAt(r, "metered unheard")

\* record_query, heard or not.
MeterRuns(r) == Record(r) \/ RecordUnheard(r)

\* record_query: the request is metered if it fits, and whoever was checked and is not yet
\* recorded is marked as overtaken.
LEMMA RecordDoes ==
    ASSUME RATypeOK, NEW r \in Requests, MeterRuns(r),
           NEW s, s = MeterOf(request[r].replica),
           NEW fits, fits = Fits(usage[s][Month], request[r].cost)
    PROVE  /\ MoveOnly
           /\ request' \in [Requests -> {NoRequest} \cup Records]
           /\ Moves(r) /\ request[r].step = "serve"
           /\ request'[r].step \in IF fits THEN {"metered", "metered unheard"}
                                   ELSE {"unmetered", "raised"}
           /\ request'[r].overtaken = (request[r].overtaken \/ request[r].month # Month)
           /\ request'[r].month = Month
           /\ \A d \in Requests \ {r} :
                IF Overtakes(r, d) /\ fits
                  THEN /\ Moves(d) /\ request[d].step \in {"second get", "serve"}
                       /\ request'[d].step = request[d].step /\ request'[d].overtaken
                  ELSE request'[d] = request[d]
           /\ s \in Stores
           /\ usage' = [usage EXCEPT ![s][Month] = Charged(@, r)]
           /\ UNCHANGED <<meterIn, limiterIn, bucket, counter, clock, crashes>>
           /\ faults' \in 0 .. MaxFaults
<1>. DEFINE heard == [b \in BOOLEAN |-> IF b THEN "metered" ELSE "unmetered"]
            unheard == [b \in BOOLEAN |-> IF b THEN "metered unheard" ELSE "raised"]
<1>a. PICK answer \in {heard, unheard} : Meters(r, answer)
    BY DEF MeterRuns, Record, RecordUnheard
<1>b. /\ request[r].step = "serve"
      /\ UNCHANGED <<meterIn, limiterIn, bucket, counter, clock, crashes>>
    BY DEF MeterRuns, Record, RecordUnheard, Meters, RequestAt, RedisFails
<1>c. faults' \in 0 .. MaxFaults
    <2>1. faults' = faults \/ (faults < MaxFaults /\ faults' = faults + 1)
        BY DEF MeterRuns, Record, RecordUnheard, RedisFails
    <2>. QED BY <2>1, FaultsBounded
<1>d. fits \in BOOLEAN
    BY DEF Fits
<1>. DEFINE step == answer[fits]
            late == request[r].overtaken \/ request[r].month # Month
            new == [request[r] EXCEPT !.step = step, !.overtaken = late, !.month = Month]
<1>e. step \in IF fits THEN {"metered", "metered unheard"} ELSE {"unmetered", "raised"}
    BY <1>a, <1>d
<1>1. /\ request' = [d \in Requests |->
                IF d = r THEN new
                ELSE IF Overtakes(r, d) /\ fits
                  THEN [request[d] EXCEPT !.overtaken = TRUE]
                ELSE request[d]]
      /\ usage' = [usage EXCEPT ![s][Month] = Charged(@, r)]
    <2>. HIDE DEF heard, unheard
    <2>. QED BY <1>a DEF Meters
<1>. HIDE DEF step, heard, unheard
<1>2. step \in Answers /\ step \notin {"rate limited", "idle"} /\ Month \in Months
    BY <1>e, MonthIsOne DEF Answers
<1>3. request[r] \in Records /\ late \in BOOLEAN
    BY <1>b, RecordOf
<1>4. request' = [d \in Requests |-> request'[d]] /\ request'[r] = new
    BY <1>1
<1>6. /\ Moves(r) /\ request'[r].step = step /\ request'[r].overtaken = late
      /\ request'[r].month = Month
    <2>1. step \in RequestSteps \cup Answers
        BY <1>2
    <2>2. late \in BOOLEAN
        BY <1>3
    <2>. HIDE DEF late
    <2>3. new \in Records
        BY <1>2, <1>3, <2>1, <2>2 DEF Records
    <2>4. /\ new.step = step /\ new.overtaken = late /\ new.month = Month
          /\ new.replica = request[r].replica /\ new.cost = request[r].cost
          /\ new.at = request[r].at /\ new.allowedBy = request[r].allowedBy
        BY <1>3 DEF Records
    <2>. HIDE DEF new
    <2>. QED BY <1>b, <1>2, <1>3, <1>4, <2>3, <2>4 DEF Moves
<1>7. ASSUME NEW d \in Requests \ {r}
      PROVE  IF Overtakes(r, d) /\ fits
                  THEN /\ Moves(d) /\ request[d].step \in {"second get", "serve"}
                       /\ request'[d].step = request[d].step /\ request'[d].overtaken
                  ELSE request'[d] = request[d]
    <2>1. CASE Overtakes(r, d) /\ fits
        <3>1. /\ request[d].step \in {"second get", "serve"}
              /\ request'[d] = [request[d] EXCEPT !.overtaken = TRUE]
            BY <1>1, <2>1 DEF Overtakes, RequestAt
        <3>2. request[d] \in Records
            BY <3>1, RecordOf
        <3>3. /\ request'[d] = [request[d] EXCEPT !.step = request[d].step,
                        !.month = request[d].month, !.count = request[d].count, !.overtaken = TRUE]
              /\ request[d].month \in Months /\ request[d].count \in 0 .. QueryBudget
            BY <3>1, <3>2 DEF Records
        <3>4. MovesTo(d, request[d].step, request[d].month, request[d].count, TRUE)
            BY <3>1, <3>3 DEF UnderWay, MovesTo, MayMoveTo
        <3>5. Moves(d) /\ request'[d].step = request[d].step /\ request'[d].overtaken
            <4>1. PICK at, month, count, marked : /\ at = request[d].step
                                                  /\ month = request[d].month
                                                  /\ count = request[d].count /\ marked = TRUE
                OBVIOUS
            <4>2. MovesTo(d, at, month, count, marked)
                BY <3>4, <4>1
            <4>3. Moves(d) /\ request'[d].step = at /\ request'[d].overtaken = marked
                BY <4>2, Moved
            <4>. QED BY <4>1, <4>3
        <3>. QED BY <2>1, <3>1, <3>5
    <2>2. CASE ~ (Overtakes(r, d) /\ fits)
        BY <1>1, <2>2
    <2>. QED BY <2>1, <2>2
<1>8. MoveOnly
    BY <1>6, <1>7 DEF MoveOnly
<1>9. request' \in [Requests -> {NoRequest} \cup Records]
    BY <1>4, <1>8, MoveOnlyTyped
<1>10. s \in Stores
    <2>1. request[r].replica \in Replicas
        BY <1>3 DEF Records
    <2>. QED BY <2>1, MeterIsStore
<1>. QED BY <1>b, <1>c, <1>e, <1>1, <1>6, <1>7, <1>8, <1>9, <1>10

\* A restart loses the requests that are under way at the replica, and no other.
LEMMA RestartDoes ==
    ASSUME RATypeOK, NEW p \in Replicas, Restart(p)
    PROVE  /\ MoveOnly
           /\ request' \in [Requests -> {NoRequest} \cup Records]
           /\ \A d \in Requests :
                \/ request'[d] = request[d]
                   /\ (request[d].step = "serve" => request[d].replica # p)
                \/ request[d].step \in UnderWay /\ request'[d].step = "lost"
<1>. DEFINE hit(d) == request[d].step \in RequestSteps \ {"idle"} /\ request[d].replica = p
<1>1. request' = [d \in Requests |->
          IF hit(d) THEN [request[d] EXCEPT !.step = "lost", !.count = 0] ELSE request[d]]
    BY DEF Restart
<1>2. request' = [d \in Requests |-> request'[d]]
    BY <1>1
<1>3. ASSUME NEW d \in Requests, hit(d)
      PROVE  Moves(d) /\ request[d].step \in UnderWay /\ request'[d].step = "lost"
    <2>1. /\ request[d].step \in UnderWay
          /\ request'[d] = [request[d] EXCEPT !.step = "lost", !.count = 0]
        BY <1>1, <1>3 DEF RequestSteps, UnderWay
    <2>2. request[d].step \notin {"idle", "rate limited"}
        BY <2>1 DEF UnderWay
    <2>3. request[d] \in Records
        BY <2>2, RecordOf
    <2>4. "lost" \in RequestSteps \cup Answers /\ 0 \in 0 .. QueryBudget
        BY NoCount DEF Answers
    <2>5. request'[d] \in Records
        BY <2>1, <2>3, <2>4 DEF Records
    <2>6. Moves(d) /\ request'[d].step = "lost"
        BY <2>1, <2>2, <2>3, <2>5 DEF Moves, Records
    <2>. QED BY <2>1, <2>6
<1>4. ASSUME NEW d \in Requests, ~ hit(d)
      PROVE  request'[d] = request[d] /\ (request[d].step = "serve" => request[d].replica # p)
    BY <1>1, <1>4 DEF RequestSteps
<1>5. MoveOnly
    BY <1>3, <1>4 DEF MoveOnly
<1>6. request' \in [Requests -> {NoRequest} \cup Records]
    BY <1>2, <1>5, MoveOnlyTyped
<1>. QED BY <1>3, <1>4, <1>5, <1>6

-----------------------------------------------------------------------------
(* Types. *)

\* A request that arrives is one more; a move makes none.
LEMMA OneMoreCame ==
    ASSUME RATypeOK, NEW r \in Requests, request[r] = NoRequest, request'[r] \in Records,
           request'[r].step # "idle",
           \A d \in Requests : d # r => request'[d] = request[d]
    PROVE  Cardinality(Came)' = Cardinality(Came) + 1 /\ Cardinality(Came)' <= Cardinality(Requests)
           /\ Cardinality(Came) \in Nat
<1>1. request'[r] # NoRequest
    BY DEF NoRequest
<1>2. Came' = Came \cup {r} /\ r \notin Came
    BY <1>1 DEF Came
<1>3. IsFiniteSet(Requests) /\ Came \subseteq Requests /\ Came' \subseteq Requests
    BY RegulatoryApiAssumption DEF Came
<1>4. IsFiniteSet(Came)
    BY <1>3, FS_Subset
<1>5. Cardinality(Came') = Cardinality(Came) + 1
    <2>1. Cardinality(Came \cup {r}) = Cardinality(Came) + 1
        BY <1>2, <1>4, FS_AddElement
    <2>. QED BY <1>2, <2>1
<1>6. Cardinality(Came') <= Cardinality(Requests)
    BY <1>3, FS_Subset
<1>7. Cardinality(Came) \in Nat
    BY <1>4, FS_CardinalityType
<1>. QED BY <1>5, <1>6, <1>7

\* A move brings no request.
LEMMA SameCame ==
    ASSUME MoveOnly
    PROVE  Came' = Came
<1>1. NoRequest.step = "idle"
    BY DEF NoRequest
<1>2. \A d \in Requests : request[d] = NoRequest <=> request'[d] = NoRequest
    BY <1>1 DEF MoveOnly, Moves
<1>. QED BY <1>2 DEF Came

\* The limiters, the meters and the requests start well.
LEMMA RATypeInit ==
    ASSUME RAInit
    PROVE  RATypeInv
<1>. USE DEF RAInit
<1>1. /\ IsFiniteSet(Requests) /\ MaxTime \in Nat /\ QueryBudget \in Nat
      /\ EpsilonBudget \in Nat /\ MaxCrashes \in Nat /\ MaxFaults \in Nat
    BY RegulatoryApiAssumption, EnvironmentAssumption
<1>2. Cardinality(Requests) \in Nat /\ Cardinality(Came) \in Nat
    BY <1>1, FS_CardinalityType, FS_Subset DEF Came
<1>3. bucket \in [Replicas -> [tokens : 0 .. Rate * Period, at : 0 .. MaxTime]]
    <2>. DEFINE size == Rate * Period
    <2>1. size \in Nat
        BY SizeType
    <2>2. bucket = [p \in Replicas |-> [tokens |-> size, at |-> 0]]
        BY DEF FullBucket
    <2>. HIDE DEF size
    <2>3. bucket \in [Replicas -> [tokens : 0 .. size, at : 0 .. MaxTime]]
        BY <1>1, <2>1, <2>2
    <2>. QED BY <2>3 DEF size
<1>4. NoUsage \in [count : 0 .. QueryBudget, epsilon : 0 .. EpsilonBudget, entries : SUBSET Requests]
    BY <1>1 DEF NoUsage
<1>5. usage \in [Stores -> [Months -> [count : 0 .. QueryBudget,
                                        epsilon : 0 .. EpsilonBudget,
                                        entries : SUBSET Requests]]]
    BY <1>4
<1>6. counter \in [0 .. MaxTime \div Period -> 0 .. Cardinality(Requests)] /\ CounterCounts
    BY <1>2 DEF CounterCounts
<1>7. clock \in 0 .. MaxTime /\ faults \in 0 .. MaxFaults /\ crashes \in 0 .. MaxCrashes /\ clock = 0
    BY <1>1 DEF EnvironmentInit
<1>8. Punctual
    BY <1>7 DEF FullBucket, Punctual
<1>. QED BY <1>3, <1>5, <1>6, <1>7, <1>8 DEF RATypeInv, RATypeOK, EnvironmentOK

\* A counter that grows with a request that comes counts no more than came.
LEMMA CounterGrows ==
    ASSUME RATypeInv, NEW w \in 0 .. MaxTime \div Period,
           Cardinality(Came)' = Cardinality(Came) + 1,
           Cardinality(Came)' <= Cardinality(Requests), Cardinality(Came) \in Nat,
           \/ counter' = counter
           \/ counter' = [counter EXCEPT ![w] = @ + 1]
    PROVE  counter' \in [0 .. MaxTime \div Period -> 0 .. Cardinality(Requests)] /\ CounterCounts'
<1>. DEFINE W == 0 .. MaxTime \div Period
            n == Cardinality(Came)
            n2 == Cardinality(Came)'
            N == Cardinality(Requests)
<1>1. counter \in [W -> 0 .. N] /\ \A v \in W : counter[v] <= n
    BY DEF RATypeInv, RATypeOK, CounterCounts
<1>2. N \in Nat
    BY RegulatoryApiAssumption, FS_CardinalityType
<1>3. \A v \in W : counter[v] \in Nat /\ counter[v] + 1 <= n2
    <2>. HIDE DEF n, W, N
    <2>1. \A v \in W : counter[v] \in Nat
        BY <1>1, <1>2
    <2>2. n2 = n + 1 /\ n \in Nat
        BY DEF n
    <2>. HIDE DEF n2
    <2>. QED BY <1>1, <2>1, <2>2
<1>4. n2 <= N /\ n2 = n + 1 /\ n \in Nat
    OBVIOUS
<1>. HIDE DEF n, n2, N, W
<1>5. CASE counter' = counter
    <2>1. \A v \in W : counter'[v] <= n2
        BY <1>3, <1>4, <1>5
    <2>. QED BY <1>1, <1>5, <2>1 DEF CounterCounts, n2, N, W
<1>6. CASE counter' = [counter EXCEPT ![w] = @ + 1]
    <2>1. w \in W
        BY DEF W
    <2>2. counter[w] + 1 \in 0 .. N
        BY <1>2, <1>3, <1>4, <2>1
    <2>3. counter' \in [W -> 0 .. N]
        BY <1>1, <1>6, <2>2
    <2>4. \A v \in W : counter'[v] = IF v = w THEN counter[w] + 1 ELSE counter[v]
        BY <1>1, <1>6
    <2>5. \A v \in W : counter'[v] <= n2
        BY <1>3, <1>4, <2>4
    <2>. QED BY <2>3, <2>5 DEF CounterCounts, n2, N, W
<1>. QED BY <1>5, <1>6

\* The limiter's steps: what each leaves, and the request it brings.
LEMMA ArriveDoes ==
    ASSUME RATypeInv, NEW r \in Requests, NEW p \in Replicas, NEW c \in Costs,
           ArriveMemory(r, p, c) \/ ArriveFallback(r, p, c)
    PROVE  /\ bucket' \in [Replicas -> [tokens : 0 .. Rate * Period, at : 0 .. MaxTime]]
           /\ \A q \in Replicas : q # p => bucket'[q] = bucket[q]
           /\ bucket'[p].at = clock
           /\ \E step \in Outcomes :
                /\ Lands(r, p, c, p, step)
                /\ bucket'[p].tokens =
                     IF step = "rate limited" THEN Refilled(p) ELSE Refilled(p) - Period
           /\ request[r] = NoRequest
           /\ \/ counter' = counter
              \/ counter' = [counter EXCEPT ![clock \div Period] = @ + 1]
           /\ UNCHANGED <<meterIn, limiterIn, usage, clock, crashes>>
           /\ faults' \in 0 .. MaxFaults
<1>1. /\ request[r] = NoRequest /\ TakeToken(r, p, c)
      /\ UNCHANGED <<meterIn, limiterIn, usage, clock, crashes>>
    BY DEF ArriveMemory, ArriveFallback, RedisFails
<1>2. RATypeOK /\ bucket[p].at <= clock
    BY DEF RATypeInv, Punctual
<1>3. \/ counter' = counter
      \/ counter' = [counter EXCEPT ![clock \div Period] = @ + 1]
    <2>1. CASE ArriveMemory(r, p, c)
        BY <2>1 DEF ArriveMemory
    <2>2. CASE ArriveFallback(r, p, c)
        BY <2>2 DEF ArriveFallback
    <2>. QED BY <2>1, <2>2
<1>4. faults' \in 0 .. MaxFaults
    <2>1. faults' = faults \/ (faults < MaxFaults /\ faults' = faults + 1)
        BY DEF ArriveMemory, ArriveFallback, RedisFails
    <2>. QED BY <1>2, <2>1, FaultsBounded
<1>5. /\ bucket' \in [Replicas -> [tokens : 0 .. Rate * Period, at : 0 .. MaxTime]]
      /\ \A q \in Replicas : q # p => bucket'[q] = bucket[q]
      /\ bucket'[p].at = clock
      /\ \E step \in Outcomes :
                /\ Lands(r, p, c, p, step)
                /\ bucket'[p].tokens =
                     IF step = "rate limited" THEN Refilled(p) ELSE Refilled(p) - Period
    BY <1>1, <1>2, TakeTokenDoes
<1>. QED BY <1>1, <1>3, <1>4, <1>5

\* A request that arrives has a whole record, and is one more of those that came.
LEMMA ArriveTyped ==
    ASSUME RATypeInv, NEW r \in Requests, NEW p \in Replicas, NEW c \in Costs,
           NEW by \in Stores, NEW step \in Outcomes,
           Lands(r, p, c, by, step), request[r] = NoRequest
    PROVE  /\ request' \in [Requests -> {NoRequest} \cup Records]
           /\ Cardinality(Came)' = Cardinality(Came) + 1
           /\ Cardinality(Came)' <= Cardinality(Requests)
           /\ Cardinality(Came) \in Nat
<1>1. RATypeOK
    BY DEF RATypeInv
<1>2. /\ request' \in [Requests -> {NoRequest} \cup Records]
      /\ request'[r] \in Records /\ request'[r].step = step
      /\ \A d \in Requests : d # r => request'[d] = request[d]
    BY <1>1, LandsDoes
<1>3. request'[r].step # "idle"
    BY <1>2 DEF Outcomes
<1>. QED BY <1>1, <1>2, <1>3, OneMoreCame

\* Whatever limiter it meets, a request that arrives is let in or not, once.
LEMMA LimiterLands ==
    ASSUME RATypeInv, NEW r \in Requests, NEW p \in Replicas, NEW c \in Costs,
           ArriveMemory(r, p, c) \/ ArriveFallback(r, p, c) \/ ArriveRedis(r, p, c)
    PROVE  \E by \in Stores, step \in Outcomes : Lands(r, p, c, by, step)
<1>1. CASE ArriveMemory(r, p, c) \/ ArriveFallback(r, p, c)
    <2>1. \E step \in Outcomes : Lands(r, p, c, p, step)
        BY <1>1, ArriveDoes
    <2>. QED BY <2>1 DEF Stores
<1>2. CASE ArriveRedis(r, p, c)
    <2>1. \E step \in Outcomes : Lands(r, p, c, Shared, step)
        BY <1>2 DEF ArriveRedis, Arrived, Lands, Outcomes
    <2>. QED BY <2>1 DEF Stores
<1>. QED BY <1>1, <1>2

\* Every step of the API keeps the types: the bucket within its size, the counters within
\* the number of requests.
LEMMA RATypeStep ==
    ASSUME RATypeInv, [RANext]_raVars
    PROVE  RATypeInv'
<1>0. RATypeOK /\ CounterCounts /\ Punctual
    BY DEF RATypeInv
<1>1. ASSUME NEW r \in Requests, NEW p \in Replicas, NEW c \in Costs,
             ArriveMemory(r, p, c) \/ ArriveFallback(r, p, c)
      PROVE  RATypeInv'
    <2>1. /\ bucket' \in [Replicas -> [tokens : 0 .. Rate * Period, at : 0 .. MaxTime]]
          /\ \A q \in Replicas : q # p => bucket'[q] = bucket[q]
          /\ bucket'[p].at = clock
          /\ \E step \in Outcomes : Lands(r, p, c, p, step)
          /\ request[r] = NoRequest
          /\ \/ counter' = counter
             \/ counter' = [counter EXCEPT ![clock \div Period] = @ + 1]
          /\ UNCHANGED <<meterIn, limiterIn, usage, clock, crashes>>
          /\ faults' \in 0 .. MaxFaults
        BY <1>1, ArriveDoes
    <2>2. PICK step \in Outcomes : Lands(r, p, c, p, step)
        BY <2>1
    <2>3. p \in Stores
        BY DEF Stores
    <2>4. /\ request' \in [Requests -> {NoRequest} \cup Records]
          /\ Cardinality(Came)' = Cardinality(Came) + 1
          /\ Cardinality(Came)' <= Cardinality(Requests)
          /\ Cardinality(Came) \in Nat
        BY <2>1, <2>2, <2>3, ArriveTyped
    <2>5. counter' \in [0 .. MaxTime \div Period -> 0 .. Cardinality(Requests)] /\ CounterCounts'
        <3>1. clock \div Period \in 0 .. MaxTime \div Period
            BY <1>0, MonthIsOne
        <3>. QED BY <2>1, <2>4, <3>1, CounterGrows
    <2>6. Punctual'
        <3>1. clock <= clock
            BY <1>0 DEF RATypeOK, EnvironmentOK
        <3>. QED BY <1>0, <2>1, <3>1 DEF Punctual
    <2>. QED BY <1>0, <2>1, <2>4, <2>5, <2>6 DEF RATypeInv, RATypeOK, EnvironmentOK, Records
<1>2. ASSUME NEW r \in Requests, NEW p \in Replicas, NEW c \in Costs, ArriveRedis(r, p, c)
      PROVE  RATypeInv'
    <2>1. /\ request[r] = NoRequest
          /\ counter' = [counter EXCEPT ![clock \div Period] = @ + 1]
          /\ UNCHANGED <<meterIn, limiterIn, bucket, usage, clock, faults, crashes>>
        BY <1>2 DEF ArriveRedis
    <2>2. PICK step \in Outcomes : Lands(r, p, c, Shared, step)
        BY <1>2 DEF ArriveRedis, Arrived, Lands, Outcomes
    <2>3. Shared \in Stores
        BY DEF Stores
    <2>4. /\ request' \in [Requests -> {NoRequest} \cup Records]
          /\ Cardinality(Came)' = Cardinality(Came) + 1
          /\ Cardinality(Came)' <= Cardinality(Requests)
          /\ Cardinality(Came) \in Nat
        BY <2>1, <2>2, <2>3, ArriveTyped
    <2>5. counter' \in [0 .. MaxTime \div Period -> 0 .. Cardinality(Requests)] /\ CounterCounts'
        <3>1. clock \div Period \in 0 .. MaxTime \div Period
            BY <1>0, MonthIsOne
        <3>. QED BY <2>1, <2>4, <3>1, CounterGrows
    <2>. QED BY <1>0, <2>1, <2>4, <2>5 DEF RATypeInv, RATypeOK, EnvironmentOK, Records, Punctual
<1>3. ASSUME MoveOnly, request' \in [Requests -> {NoRequest} \cup Records], UNCHANGED counter
      PROVE  CounterCounts'
    BY <1>0, <1>3, SameCame DEF CounterCounts
<1>4. ASSUME NEW r \in Requests, PreCheck(r) \/ GetCount(r) \/ GetEpsilon(r)
      PROVE  RATypeInv'
    <2>1. MoveOnly /\ request' \in [Requests -> {NoRequest} \cup Records]
        BY <1>0, <1>4, PreCheckDoes, GetCountDoes, GetEpsilonDoes
    <2>2. UNCHANGED <<meterIn, limiterIn, bucket, counter, usage, clock, faults, crashes>>
        BY <1>4 DEF PreCheck, GetCount, GetEpsilon
    <2>3. CounterCounts'
        BY <1>3, <2>1, <2>2
    <2>. QED BY <1>0, <2>1, <2>2, <2>3 DEF RATypeInv, RATypeOK, EnvironmentOK, Records, Punctual
<1>5. ASSUME NEW r \in Requests, MeterRuns(r)
      PROVE  RATypeInv'
    <2>. DEFINE s == MeterOf(request[r].replica)
    <2>1. /\ MoveOnly /\ request' \in [Requests -> {NoRequest} \cup Records]
          /\ s \in Stores /\ request[r].step = "serve"
          /\ usage' = [usage EXCEPT ![s][Month] = Charged(@, r)]
          /\ faults' \in 0 .. MaxFaults
          /\ UNCHANGED <<meterIn, limiterIn, bucket, counter, clock, crashes>>
        BY <1>0, <1>5, RecordDoes
    <2>2. UNCHANGED <<meterIn, limiterIn, bucket, counter, clock, crashes>>
        BY <2>1
    <2>3. CounterCounts'
        BY <1>3, <2>1, <2>2
    <2>4. usage' \in [Stores -> [Months -> [count : 0 .. QueryBudget,
                                        epsilon : 0 .. EpsilonBudget,
                                        entries : SUBSET Requests]]]
        <3>. HIDE DEF s
        <3>1. Month \in Months
            BY <1>0, MonthIsOne
        <3>. DEFINE u == usage[s][Month]
        <3>2. u \in [count : 0 .. QueryBudget, epsilon : 0 .. EpsilonBudget,
                     entries : SUBSET Requests]
            BY <1>0, <2>1, <3>1 DEF RATypeOK
        <3>3. request[r].cost \in Nat
            BY <1>0, <2>1, RecordOf, RegulatoryApiAssumption DEF Records
        <3>. HIDE DEF u
        <3>4. Charged(u, r) \in [count : 0 .. QueryBudget, epsilon : 0 .. EpsilonBudget,
                                 entries : SUBSET Requests]
            <4>1. CASE Fits(u, request[r].cost)
                <5>1. /\ u.count + 1 \in 0 .. QueryBudget
                      /\ u.epsilon + request[r].cost \in 0 .. EpsilonBudget
                      /\ u.entries \cup {r} \in SUBSET Requests
                    BY <3>2, <3>3, <4>1, RegulatoryApiAssumption DEF Fits
                <5>. QED BY <4>1, <5>1 DEF Charged
            <4>2. CASE ~ Fits(u, request[r].cost)
                BY <3>2, <4>2 DEF Charged
            <4>. QED BY <4>1, <4>2
        <3>5. usage' = [usage EXCEPT ![s] = [usage[s] EXCEPT ![Month] = Charged(u, r)]]
            BY <2>1 DEF u
        <3>6. [usage[s] EXCEPT ![Month] = Charged(u, r)] \in
                [Months -> [count : 0 .. QueryBudget, epsilon : 0 .. EpsilonBudget,
                            entries : SUBSET Requests]]
            BY <1>0, <2>1, <3>4 DEF RATypeOK
        <3>. QED BY <1>0, <2>1, <3>5, <3>6 DEF RATypeOK
    <2>. QED BY <1>0, <2>1, <2>2, <2>3, <2>4 DEF RATypeInv, RATypeOK, EnvironmentOK, Records, Punctual
<1>6. ASSUME NEW r \in Requests, MeterFails(r)
      PROVE  RATypeInv'
    <2>1. MoveOnly /\ request' \in [Requests -> {NoRequest} \cup Records]
        BY <1>0, <1>6, MeterFailsDoes
    <2>2. /\ UNCHANGED <<meterIn, limiterIn, bucket, counter, usage, clock, crashes>>
          /\ faults < MaxFaults /\ faults' = faults + 1
        BY <1>6 DEF MeterFails, RedisFails
    <2>3. CounterCounts'
        BY <1>3, <2>1, <2>2
    <2>4. faults' \in 0 .. MaxFaults
        BY <1>0, <2>2, FaultsBounded
    <2>. QED BY <1>0, <2>1, <2>2, <2>3, <2>4 DEF RATypeInv, RATypeOK, EnvironmentOK, Records, Punctual
<1>7. ASSUME NEW p \in Replicas, Restart(p)
      PROVE  RATypeInv'
    <2>1. MoveOnly /\ request' \in [Requests -> {NoRequest} \cup Records]
        BY <1>0, <1>7, RestartDoes
    <2>2. /\ crashes < MaxCrashes /\ crashes' = crashes + 1
          /\ bucket' = [bucket EXCEPT ![p] = [tokens |-> Rate * Period, at |-> clock]]
          /\ usage' = [usage EXCEPT ![p] = [m \in Months |-> NoUsage]]
          /\ UNCHANGED <<meterIn, limiterIn, counter, clock, faults>>
        BY <1>7 DEF Restart
    <2>3. CounterCounts'
        BY <1>3, <2>1, <2>2
    <2>4. crashes' \in 0 .. MaxCrashes
        BY <1>0, <2>2, RegulatoryApiAssumption DEF RATypeOK
    <2>5. bucket' \in [Replicas -> [tokens : 0 .. Rate * Period, at : 0 .. MaxTime]] /\ Punctual'
        <3>. DEFINE size == Rate * Period
                    new == [tokens |-> size, at |-> clock]
        <3>1. clock \in 0 .. MaxTime /\ size \in Nat /\ clock <= clock
            BY <1>0, SizeType DEF RATypeOK, EnvironmentOK
        <3>2. new \in [tokens : 0 .. Rate * Period, at : 0 .. MaxTime] /\ new.at = clock
            <4>. HIDE DEF size
            <4>1. new \in [tokens : 0 .. size, at : 0 .. MaxTime] /\ new.at = clock
                BY <3>1
            <4>. QED BY <4>1 DEF size
        <3>. HIDE DEF new
        <3>3. bucket' = [bucket EXCEPT ![p] = new]
            BY <2>2 DEF new
        <3>4. \A q \in Replicas : bucket'[q] = IF q = p THEN new ELSE bucket[q]
            BY <1>0, <3>3 DEF RATypeOK
        <3>5. Punctual'
            BY <1>0, <2>2, <3>1, <3>2, <3>4 DEF Punctual
        <3>. QED BY <1>0, <3>2, <3>3, <3>5 DEF RATypeOK
    <2>6. usage' \in [Stores -> [Months -> [count : 0 .. QueryBudget,
                                        epsilon : 0 .. EpsilonBudget,
                                        entries : SUBSET Requests]]]
        <3>1. NoUsage \in [count : 0 .. QueryBudget, epsilon : 0 .. EpsilonBudget,
                           entries : SUBSET Requests]
            BY RegulatoryApiAssumption DEF NoUsage
        <3>2. [m \in Months |-> NoUsage] \in
                [Months -> [count : 0 .. QueryBudget, epsilon : 0 .. EpsilonBudget,
                            entries : SUBSET Requests]]
            BY <3>1
        <3>. QED BY <1>0, <2>2, <3>2 DEF RATypeOK
    <2>. QED BY <1>0, <2>1, <2>2, <2>3, <2>4, <2>5, <2>6 DEF RATypeInv, RATypeOK, EnvironmentOK, Records
<1>8. CASE RATick
    <2>1. /\ UNCHANGED <<meterIn, limiterIn, bucket, counter, usage, request, crashes, faults>>
          /\ clock < MaxTime /\ clock' = clock + 1
        BY <1>8 DEF RATick, TimePasses
    <2>2. clock' \in 0 .. MaxTime /\ clock <= clock'
        BY <1>0, <2>1, EnvironmentAssumption DEF RATypeOK, EnvironmentOK
    <2>3. CounterCounts'
        BY <1>0, <2>1 DEF CounterCounts, Came
    <2>4. Punctual'
        <3>1. \A p \in Replicas : bucket[p].at \in Int /\ bucket[p].at <= clock
            BY <1>0 DEF Punctual, RATypeOK
        <3>2. clock \in Int /\ clock' = clock + 1
            BY <1>0, <2>1 DEF RATypeOK, EnvironmentOK
        <3>. QED BY <2>1, <3>1, <3>2 DEF Punctual
    <2>. QED BY <1>0, <2>1, <2>2, <2>3, <2>4 DEF RATypeInv, RATypeOK, EnvironmentOK
<1>9. CASE UNCHANGED raVars
    BY <1>0, <1>9 DEF raVars, RATypeInv, RATypeOK, EnvironmentOK, CounterCounts, Came, Punctual
<1>. QED BY <1>1, <1>2, <1>4, <1>5, <1>6, <1>7, <1>8, <1>9 DEF RANext, MeterRuns

\* In every state the buckets, counters, usages and requests of the API have their types: a
\* bucket never holds more than the rate, nor less than nothing (rate_limiter.py:116-129).
THEOREM RATypeCorrect == RASpec => []RATypeOK
<1>1. RAInit => RATypeInv
    BY RATypeInit
<1>2. RATypeInv /\ [RANext]_raVars => RATypeInv'
    BY RATypeStep
<1>3. RATypeInv => RATypeOK
    BY DEF RATypeInv
<1>. QED BY <1>1, <1>2, <1>3, PTL DEF RASpec

-----------------------------------------------------------------------------
(* Who is answered and not metered. *)

\* A request that was checked and not overtaken still fits.
ServedFits ==
    \A r \in Requests :
        RequestAt(r, "serve") /\ ~ request[r].overtaken =>
            Fits(usage[MeterOf(request[r].replica)][request[r].month], request[r].cost)

\* Between the two GETs of the pre-check the count that was read stands, until another
\* request is metered.
CountStands ==
    \A r \in Requests :
        RequestAt(r, "second get") =>
            /\ meterIn = "redis"
            /\ ~ request[r].overtaken =>
                 request[r].count = usage[Shared][request[r].month].count

\* Who is still to be recorded, and who was not metered.
FitInv == ServedFits /\ CountStands /\ UnmeteredWasOvertaken

\* The first reading stands wherever nothing was metered in Redis.
LEMMA CountStays ==
    ASSUME FitInv, UNCHANGED meterIn, usage'[Shared] = usage[Shared],
           \A d \in Requests : request'[d] = request[d] \/ request'[d].step # "second get"
    PROVE  CountStands'
<1>. SUFFICES ASSUME NEW d \in Requests, request'[d].step = "second get"
              PROVE  /\ meterIn' = "redis"
                     /\ ~ request'[d].overtaken =>
                          request'[d].count = usage'[Shared][request'[d].month].count
    BY DEF CountStands, RequestAt
<1>1. request'[d] = request[d]
    OBVIOUS
<1>2. /\ meterIn = "redis"
      /\ ~ request[d].overtaken => request[d].count = usage[Shared][request[d].month].count
    BY <1>1 DEF FitInv, CountStands, RequestAt
<1>. QED BY <1>1, <1>2

\* Every step keeps that a request which was checked and not overtaken still fits: another
\* metering, a new month, a restart and a Redis error all mark it or end it.
LEMMA FitStep ==
    ASSUME RATypeInv, FitInv, [RANext]_raVars
    PROVE  FitInv'
<1>0. RATypeOK /\ ServedFits /\ CountStands /\ UnmeteredWasOvertaken
    BY DEF RATypeInv, FitInv
\* A step after which the requests under way are as they were, and their usage too.
<1>a. ASSUME UNCHANGED <<meterIn, usage>>,
             \A d \in Requests :
                \/ request'[d] = request[d]
                \/ request'[d].step \notin {"serve", "unmetered", "second get"}
      PROVE  FitInv'
    <2>1. \A q \in Replicas : MeterOf(q)' = MeterOf(q)
        BY <1>a DEF MeterOf
    <2>2. ServedFits'
        <3>. SUFFICES ASSUME NEW d \in Requests, request'[d].step = "serve", ~ request'[d].overtaken
                      PROVE  Fits(usage[MeterOf(request[d].replica)][request[d].month], request[d].cost)'
            BY DEF ServedFits, RequestAt
        <3>1. request'[d] = request[d]
            BY <1>a
        <3>2. Fits(usage[MeterOf(request[d].replica)][request[d].month], request[d].cost)
            BY <1>0, <3>1 DEF ServedFits, RequestAt
        <3>. QED BY <1>a, <3>1, <3>2 DEF Fits, MeterOf
    <2>3. UnmeteredWasOvertaken'
        BY <1>0, <1>a DEF UnmeteredWasOvertaken, RequestAt
    <2>4. CountStands'
        BY <1>a, CountStays
    <2>. QED BY <2>2, <2>3, <2>4 DEF FitInv
<1>1. ASSUME NEW r \in Requests, NEW p \in Replicas, NEW c \in Costs,
             ArriveMemory(r, p, c) \/ ArriveFallback(r, p, c) \/ ArriveRedis(r, p, c)
      PROVE  FitInv'
    <2>1. UNCHANGED <<meterIn, usage>>
        BY <1>1 DEF ArriveMemory, ArriveFallback, ArriveRedis
    <2>2. PICK by \in Stores, step \in Outcomes : Lands(r, p, c, by, step)
        BY <1>1, LimiterLands
    <2>4. /\ request'[r].step = step
          /\ \A d \in Requests : d # r => request'[d] = request[d]
        BY <1>0, <2>2, LandsDoes
    <2>5. step \notin {"serve", "unmetered", "second get"}
        BY DEF Outcomes
    <2>. QED BY <1>a, <2>1, <2>4, <2>5
<1>2. ASSUME NEW r \in Requests, PreCheck(r)
      PROVE  FitInv'
    <2>1. /\ \A d \in Requests : d # r => request'[d] = request[d]
          /\ Moves(r)
          /\ request'[r].step \in {"serve", "over budget"}
          /\ request'[r].step = "serve" =>
                WithinBudget(usage[MeterOf(request[r].replica)][Month], request[r].cost)
          /\ request'[r].month = Month
        BY <1>0, <1>2, PreCheckDoes
    <2>2. UNCHANGED <<meterIn, usage, clock>>
        BY <1>2 DEF PreCheck
    <2>3. ASSUME NEW d \in Requests, request'[d].step = "serve", ~ request'[d].overtaken
          PROVE  Fits(usage[MeterOf(request[d].replica)][request[d].month], request[d].cost)'
        <3>1. CASE d = r
            <4>1. WithinBudget(usage[MeterOf(request[r].replica)][Month], request[r].cost)
                BY <2>1, <2>3, <3>1
            <4>2. /\ request'[r].replica = request[r].replica /\ request'[r].cost = request[r].cost
                  /\ request'[r].month = Month
                BY <2>1 DEF Moves
            <4>. QED BY <2>2, <3>1, <4>1, <4>2 DEF Fits, WithinBudget, MeterOf
        <3>2. CASE d # r
            <4>1. request'[d] = request[d]
                BY <2>1, <3>2
            <4>2. Fits(usage[MeterOf(request[d].replica)][request[d].month], request[d].cost)
                BY <1>0, <2>3, <4>1 DEF ServedFits, RequestAt
            <4>. QED BY <2>2, <4>1, <4>2 DEF Fits, MeterOf
        <3>. QED BY <3>1, <3>2
    <2>4. UnmeteredWasOvertaken'
        BY <1>0, <2>1 DEF UnmeteredWasOvertaken, RequestAt
    <2>5. CountStands'
        BY <2>1, <2>2, CountStays
    <2>. QED BY <2>3, <2>4, <2>5 DEF FitInv, ServedFits, RequestAt
\* The count that was read is that of the month it was read in.
<1>8. ASSUME NEW r \in Requests, GetCount(r)
      PROVE  FitInv'
    <2>1. /\ \A d \in Requests : d # r => request'[d] = request[d]
          /\ request'[r].step = "second get"
          /\ request'[r].month = Month
          /\ request'[r].count = usage[Shared][Month].count
        BY <1>0, <1>8, GetCountDoes
    <2>2. meterIn = "redis" /\ UNCHANGED <<meterIn, usage>>
        BY <1>8 DEF GetCount
    <2>3. CountStands'
        <3>. SUFFICES ASSUME NEW d \in Requests, request'[d].step = "second get"
                      PROVE  /\ meterIn' = "redis"
                             /\ ~ request'[d].overtaken =>
                                  request'[d].count = usage'[Shared][request'[d].month].count
            BY DEF CountStands, RequestAt
        <3>1. CASE d = r
            BY <2>1, <2>2, <3>1
        <3>2. CASE d # r
            <4>1. request'[d] = request[d]
                BY <2>1, <3>2
            <4>2. ~ request[d].overtaken =>
                     request[d].count = usage[Shared][request[d].month].count
                BY <1>0, <4>1 DEF CountStands, RequestAt
            <4>. QED BY <2>2, <4>1, <4>2
        <3>. QED BY <3>1, <3>2
    <2>4. ServedFits'
        <3>. SUFFICES ASSUME NEW d \in Requests, request'[d].step = "serve", ~ request'[d].overtaken
                      PROVE  Fits(usage[MeterOf(request[d].replica)][request[d].month], request[d].cost)'
            BY DEF ServedFits, RequestAt
        <3>1. request'[d] = request[d]
            BY <2>1
        <3>2. Fits(usage[MeterOf(request[d].replica)][request[d].month], request[d].cost)
            BY <1>0, <3>1 DEF ServedFits, RequestAt
        <3>. QED BY <2>2, <3>1, <3>2 DEF Fits, MeterOf
    <2>5. UnmeteredWasOvertaken'
        BY <1>0, <2>1 DEF UnmeteredWasOvertaken, RequestAt
    <2>. QED BY <2>3, <2>4, <2>5 DEF FitInv
\* Nothing was metered between the two readings unless the request was marked, so they are
\* those of one moment.
<1>9. ASSUME NEW r \in Requests, GetEpsilon(r)
      PROVE  FitInv'
    <2>. DEFINE u == [count |-> request[r].count,
                      epsilon |-> usage[Shared][request[r].month].epsilon]
    <2>1. /\ \A d \in Requests : d # r => request'[d] = request[d]
          /\ Moves(r) /\ request[r].step = "second get"
          /\ request'[r].step \in {"serve", "over budget"}
          /\ request'[r].step = "serve" => WithinBudget(u, request[r].cost)
          /\ request'[r].month = request[r].month
          /\ request'[r].overtaken = request[r].overtaken
        BY <1>0, <1>9, GetEpsilonDoes
    <2>2. UNCHANGED <<meterIn, usage, clock>>
        BY <1>9 DEF GetEpsilon
    <2>3. ASSUME NEW d \in Requests, request'[d].step = "serve", ~ request'[d].overtaken
          PROVE  Fits(usage[MeterOf(request[d].replica)][request[d].month], request[d].cost)'
        <3>1. CASE d = r
            <4>1. /\ meterIn = "redis"
                  /\ request[r].count = usage[Shared][request[r].month].count
                BY <1>0, <2>1, <2>3, <3>1 DEF CountStands, RequestAt
            <4>2. WithinBudget(u, request[r].cost)
                BY <2>1, <2>3, <3>1
            <4>3. /\ usage[Shared][request[r].month].count + 1 <= QueryBudget
                  /\ usage[Shared][request[r].month].epsilon + request[r].cost <= EpsilonBudget
                BY <4>1, <4>2 DEF WithinBudget
            <4>4. /\ request'[r].replica = request[r].replica /\ request'[r].cost = request[r].cost
                  /\ request'[r].month = request[r].month
                BY <2>1 DEF Moves
            <4>. QED BY <2>2, <3>1, <4>1, <4>3, <4>4 DEF Fits, MeterOf
        <3>2. CASE d # r
            <4>1. request'[d] = request[d]
                BY <2>1, <3>2
            <4>2. Fits(usage[MeterOf(request[d].replica)][request[d].month], request[d].cost)
                BY <1>0, <2>3, <4>1 DEF ServedFits, RequestAt
            <4>. QED BY <2>2, <4>1, <4>2 DEF Fits, MeterOf
        <3>. QED BY <3>1, <3>2
    <2>4. UnmeteredWasOvertaken'
        BY <1>0, <2>1 DEF UnmeteredWasOvertaken, RequestAt
    <2>5. CountStands'
        BY <2>1, <2>2, CountStays
    <2>. QED BY <2>3, <2>4, <2>5 DEF FitInv, ServedFits, RequestAt
<1>3. ASSUME NEW r \in Requests, MeterRuns(r)
      PROVE  FitInv'
    <2>. DEFINE s == MeterOf(request[r].replica)
                fits == Fits(usage[s][Month], request[r].cost)
    <2>1. /\ Moves(r) /\ request[r].step = "serve"
          /\ request'[r].step \in IF fits THEN {"metered", "metered unheard"}
                                  ELSE {"unmetered", "raised"}
          /\ request'[r].overtaken = (request[r].overtaken \/ request[r].month # Month)
          /\ \A d \in Requests \ {r} :
                IF Overtakes(r, d) /\ fits
                  THEN /\ Moves(d) /\ request[d].step \in {"second get", "serve"}
                       /\ request'[d].step = request[d].step /\ request'[d].overtaken
                  ELSE request'[d] = request[d]
          /\ s \in Stores
          /\ usage' = [usage EXCEPT ![s][Month] = Charged(@, r)]
          /\ UNCHANGED meterIn
        BY <1>0, <1>3, RecordDoes
    <2>2. UNCHANGED meterIn
        BY <2>1
    <2>3. request'[r].step = "unmetered" => request'[r].overtaken
        <3>1. CASE fits
            BY <2>1, <3>1
        <3>2. CASE ~ fits /\ request[r].month = Month
            <4>1. request[r].overtaken
                BY <1>0, <2>1, <3>2 DEF ServedFits, RequestAt
            <4>. QED BY <2>1, <4>1
        <3>3. CASE request[r].month # Month
            BY <2>1, <3>3
        <3>. QED BY <3>1, <3>2, <3>3
    <2>4. UnmeteredWasOvertaken'
        <3>. SUFFICES ASSUME NEW d \in Requests, request'[d].step = "unmetered"
                      PROVE  request'[d].overtaken
            BY DEF UnmeteredWasOvertaken, RequestAt
        <3>1. CASE d = r
            BY <2>3, <3>1
        <3>2. CASE d # r
            <4>1. request'[d] = request[d]
                BY <2>1, <3>2
            <4>. QED BY <1>0, <4>1 DEF UnmeteredWasOvertaken, RequestAt
        <3>. QED BY <3>1, <3>2
    \* A usage that was read, and whose reader is not marked, is not changed.
    <2>6. ASSUME NEW z \in Stores, NEW m \in Months, NEW d \in Requests \ {r},
                 request'[d].step \in {"second get", "serve"}, ~ request'[d].overtaken,
                 z = MeterOf(request[d].replica)
          PROVE  request'[d] = request[d] /\ usage'[z][m] = usage[z][m]
        <3>1. request'[d] = request[d] /\ ~ (Overtakes(r, d) /\ fits)
            BY <2>1, <2>6
        <3>2. z # s \/ ~ fits
            BY <2>6, <3>1 DEF Overtakes, RequestAt
        <3>3. CASE z # s
            <4>. HIDE DEF s
            <4>. QED BY <1>0, <2>1, <3>1, <3>3 DEF RATypeOK
        <3>4. CASE ~ fits
            <4>1. Charged(usage[s][Month], r) = usage[s][Month]
                BY <3>4 DEF Charged
            <4>. HIDE DEF s, fits
            <4>2. Month \in Months
                BY <1>0, MonthIsOne
            <4>3. usage' = [usage EXCEPT ![s] = [usage[s] EXCEPT ![Month] = usage[s][Month]]]
                BY <2>1, <4>1
            <4>4. [usage[s] EXCEPT ![Month] = usage[s][Month]] = usage[s]
                BY <1>0, <2>1, <4>2 DEF RATypeOK
            <4>5. usage' = usage
                BY <1>0, <2>1, <4>3, <4>4 DEF RATypeOK
            <4>. QED BY <3>1, <4>5
        <3>. QED BY <3>2, <3>3, <3>4
    <2>5. ASSUME NEW d \in Requests, request'[d].step = "serve", ~ request'[d].overtaken
          PROVE  Fits(usage[MeterOf(request[d].replica)][request[d].month], request[d].cost)'
        <3>1. d # r
            BY <2>1, <2>5
        <3>2. request'[d] = request[d]
            BY <2>1, <2>5, <3>1
        <3>3. PICK z \in Stores, m \in Months :
                 z = MeterOf(request[d].replica) /\ m = request[d].month
            BY <1>0, <2>5, <3>2, RecordOf, MeterIsStore DEF Records
        <3>4. Fits(usage[z][m], request[d].cost)
            BY <1>0, <2>5, <3>2, <3>3 DEF ServedFits, RequestAt
        <3>5. usage'[z][m] = usage[z][m]
            BY <2>5, <2>6, <3>1, <3>3
        <3>. QED BY <2>2, <3>2, <3>3, <3>4, <3>5 DEF Fits, MeterOf
    <2>7. CountStands'
        <3>. SUFFICES ASSUME NEW d \in Requests, request'[d].step = "second get"
                      PROVE  /\ meterIn' = "redis"
                             /\ ~ request'[d].overtaken =>
                                  request'[d].count = usage'[Shared][request'[d].month].count
            BY DEF CountStands, RequestAt
        <3>1. d # r
            BY <2>1
        <3>2. request[d].step = "second get"
            BY <2>1, <3>1
        <3>3. meterIn = "redis" /\ MeterOf(request[d].replica) = Shared
            BY <1>0, <3>2 DEF CountStands, RequestAt, MeterOf
        <3>4. ASSUME ~ request'[d].overtaken
              PROVE  request'[d].count = usage'[Shared][request'[d].month].count
            <4>1. request[d].month \in Months /\ Shared \in Stores
                BY <1>0, <3>2, RecordOf DEF Records, Stores
            <4>2. PICK z \in Stores, m \in Months : z = Shared /\ m = request[d].month
                BY <4>1
            <4>3. request'[d] = request[d] /\ usage'[z][m] = usage[z][m]
                BY <2>6, <3>1, <3>3, <3>4, <4>2
            <4>4. request[d].count = usage[z][m].count
                BY <1>0, <3>2, <3>4, <4>2, <4>3 DEF CountStands, RequestAt
            <4>. QED BY <4>2, <4>3, <4>4
        <3>. QED BY <2>2, <3>3, <3>4
    <2>. QED BY <2>4, <2>5, <2>7 DEF FitInv, ServedFits, RequestAt
<1>4. ASSUME NEW r \in Requests, MeterFails(r)
      PROVE  FitInv'
    <2>1. /\ \A d \in Requests : d # r => request'[d] = request[d]
          /\ request'[r].step \in {"refused", "raised"}
        BY <1>0, <1>4, MeterFailsDoes
    <2>2. UNCHANGED <<meterIn, usage>>
        BY <1>4 DEF MeterFails
    <2>. QED BY <1>a, <2>1, <2>2
<1>5. ASSUME NEW p \in Replicas, Restart(p)
      PROVE  FitInv'
    <2>1. \A d \in Requests :
                \/ request'[d] = request[d]
                   /\ (request[d].step = "serve" => request[d].replica # p)
                \/ request[d].step \in UnderWay /\ request'[d].step = "lost"
        BY <1>0, <1>5, RestartDoes
    <2>2. /\ usage' = [usage EXCEPT ![p] = [m \in Months |-> NoUsage]]
          /\ UNCHANGED meterIn
        BY <1>5 DEF Restart
    <2>3. ASSUME NEW d \in Requests, request'[d].step = "serve", ~ request'[d].overtaken
          PROVE  Fits(usage[MeterOf(request[d].replica)][request[d].month], request[d].cost)'
        <3>1. request'[d] = request[d] /\ request[d].replica # p
            BY <2>1, <2>3
        <3>. DEFINE z == MeterOf(request[d].replica)
        <3>2. z # p /\ z \in Stores
            <4>1. request[d].replica \in Replicas
                BY <1>0, <2>3, <3>1, RecordOf DEF Records
            <4>. QED BY <3>1, <4>1, RegulatoryApiAssumption DEF MeterOf, Stores
        <3>3. usage'[z] = usage[z]
            BY <1>0, <2>2, <3>2 DEF RATypeOK
        <3>4. Fits(usage[z][request[d].month], request[d].cost)
            BY <1>0, <2>3, <3>1 DEF ServedFits, RequestAt
        <3>. QED BY <2>2, <3>1, <3>3, <3>4 DEF Fits, MeterOf
    <2>4. UnmeteredWasOvertaken'
        BY <1>0, <2>1 DEF UnmeteredWasOvertaken, RequestAt
    <2>5. CountStands'
        <3>1. Shared # p /\ Shared \in Stores
            BY RegulatoryApiAssumption DEF Stores
        <3>2. usage'[Shared] = usage[Shared]
            BY <1>0, <2>2, <3>1 DEF RATypeOK
        <3>. QED BY <2>1, <2>2, <3>2, CountStays
    <2>. QED BY <2>3, <2>4, <2>5 DEF FitInv, ServedFits, RequestAt
<1>6. CASE RATick
    BY <1>a, <1>6 DEF RATick
<1>7. CASE UNCHANGED raVars
    BY <1>a, <1>7 DEF raVars
<1>. QED BY <1>1, <1>2, <1>3, <1>4, <1>5, <1>6, <1>7, <1>8, <1>9 DEF RANext, MeterRuns

\* B2-03: a request is answered without being metered only when another was metered between
\* its pre-check and its record, the month turned or the usage was lost, for any number of
\* requests, replicas and months (regulatory_router.py:230-255, query_metering.py:375-444).
THEOREM UnmeteredWasOvertakenHolds == RASpec => []UnmeteredWasOvertaken
<1>1. RAInit => FitInv
    <2>1. RAInit => \A r \in Requests : request[r].step = "idle"
        BY DEF RAInit, NoRequest
    <2>. QED BY <2>1 DEF FitInv, ServedFits, CountStands, UnmeteredWasOvertaken, RequestAt
<1>2. RATypeInv /\ FitInv /\ [RANext]_raVars => FitInv'
    BY FitStep
<1>3. RAInit => RATypeInv
    BY RATypeInit
<1>4. RATypeInv /\ [RANext]_raVars => RATypeInv'
    BY RATypeStep
<1>5. FitInv => UnmeteredWasOvertaken
    BY DEF FitInv
<1>. QED BY <1>1, <1>2, <1>3, <1>4, <1>5, PTL DEF RASpec

-----------------------------------------------------------------------------
(* What is metered is what the counters say. *)

\* The epsilon of the requests metered at a store in a month.
Spent(s, m) == SumFunction([r \in Metered(s, m) |-> request[r].cost])

\* The usage of a store and a month is what was metered there.
Faithful(s, m) ==
    /\ usage[s][m].count = Cardinality(Metered(s, m))
    /\ usage[s][m].epsilon = Spent(s, m)
    /\ usage[s][m].entries = Metered(s, m)

\* Every usage is faithful, of a replica as long as none restarted.
UsageIsMetered ==
    \A s \in Stores, m \in Months : s = Shared \/ crashes = 0 => Faithful(s, m)

\* A step that meters nothing and leaves a usage alone keeps it faithful.
LEMMA SameMetered ==
    ASSUME UNCHANGED meterIn,
           \A d \in Requests :
              \/ request'[d] = request[d]
              \/ ~ IsMetered(d) /\ ~ IsMetered(d)',
           NEW s, NEW m
    PROVE  Metered(s, m)' = Metered(s, m) /\ Spent(s, m)' = Spent(s, m)
<1>1. \A d \in Requests :
        (IsMetered(d) /\ MeterOf(request[d].replica) = s /\ request[d].month = m)'
        <=> (IsMetered(d) /\ MeterOf(request[d].replica) = s /\ request[d].month = m)
    BY DEF IsMetered, RequestAt, MeterOf
<1>2. Metered(s, m)' = Metered(s, m)
    BY <1>1 DEF Metered, IsMetered
<1>3. \A d \in Metered(s, m) : request'[d] = request[d]
    BY DEF Metered, IsMetered
<1>4. [d \in Metered(s, m) |-> request'[d].cost] = [d \in Metered(s, m) |-> request[d].cost]
    BY <1>3
<1>5. Spent(s, m)' = Spent(s, m)
    BY <1>2, <1>4 DEF Spent
<1>. QED BY <1>2, <1>5

\* Every step keeps the usages faithful: a metered request adds its one to the count, its
\* cost to the epsilon and itself to the entries, or nothing of it.
LEMMA UsageStep ==
    ASSUME RATypeInv, UsageIsMetered, [RANext]_raVars
    PROVE  UsageIsMetered'
<1>0. RATypeOK
    BY DEF RATypeInv
<1>a. ASSUME UNCHANGED meterIn,
             \A d \in Requests :
                \/ request'[d] = request[d]
                \/ ~ IsMetered(d) /\ ~ IsMetered(d)',
             NEW s \in Stores, NEW m \in Months, usage'[s] = usage[s], Faithful(s, m)
      PROVE  Faithful(s, m)'
    <2>1. Metered(s, m)' = Metered(s, m) /\ Spent(s, m)' = Spent(s, m)
        BY <1>a, SameMetered
    <2>. QED BY <1>a, <2>1 DEF Faithful
<1>b. ASSUME UNCHANGED <<meterIn, usage, crashes>>,
             \A d \in Requests :
                \/ request'[d] = request[d]
                \/ ~ IsMetered(d) /\ ~ IsMetered(d)'
      PROVE  UsageIsMetered'
    BY <1>a, <1>b DEF UsageIsMetered
<1>1. ASSUME NEW r \in Requests, NEW p \in Replicas, NEW c \in Costs,
             ArriveMemory(r, p, c) \/ ArriveFallback(r, p, c) \/ ArriveRedis(r, p, c)
      PROVE  UsageIsMetered'
    <2>1. /\ UNCHANGED <<meterIn, usage, crashes>>
          /\ request[r] = NoRequest
        BY <1>1 DEF ArriveMemory, ArriveFallback, ArriveRedis
    <2>2. PICK by \in Stores, step \in Outcomes : Lands(r, p, c, by, step)
        BY <1>1, LimiterLands
    <2>3. /\ request'[r].step = step
          /\ \A d \in Requests : d # r => request'[d] = request[d]
        BY <1>0, <2>2, LandsDoes
    <2>4. ~ IsMetered(r) /\ ~ IsMetered(r)'
        BY <2>1, <2>3, NotYet DEF IsMetered, RequestAt, Outcomes
    <2>5. \A d \in Requests :
                \/ request'[d] = request[d]
                \/ ~ IsMetered(d) /\ ~ IsMetered(d)'
        BY <2>3, <2>4
    <2>. QED BY <1>b, <2>1, <2>5
<1>2. ASSUME NEW r \in Requests, PreCheck(r) \/ GetCount(r) \/ GetEpsilon(r)
      PROVE  UsageIsMetered'
    <2>1. /\ \A d \in Requests : d # r => request'[d] = request[d]
          /\ request[r].step \in {"check", "second get"}
          /\ request'[r].step \in {"second get", "serve", "over budget"}
        BY <1>0, <1>2, PreCheckDoes, GetCountDoes, GetEpsilonDoes
    <2>2. UNCHANGED <<meterIn, usage, crashes>>
        BY <1>2 DEF PreCheck, GetCount, GetEpsilon
    <2>3. ~ IsMetered(r) /\ ~ IsMetered(r)'
        BY <2>1 DEF IsMetered, RequestAt
    <2>. QED BY <1>b, <2>1, <2>2, <2>3
<1>3. ASSUME NEW r \in Requests, MeterRuns(r)
      PROVE  UsageIsMetered'
    <2>a. Month \in Months
        BY <1>0, MonthIsOne
    <2>b. PICK M \in Months : M = Month
        BY <2>a
    <2>c. MeterOf(request[r].replica) \in Stores
        BY <1>0, <1>3, RecordDoes
    <2>d. PICK s \in Stores : s = MeterOf(request[r].replica)
        BY <2>c
    <2>. DEFINE fits == Fits(usage[s][M], request[r].cost)
    <2>1. /\ Moves(r) /\ request[r].step = "serve"
          /\ request'[r].step \in IF fits THEN {"metered", "metered unheard"}
                                  ELSE {"unmetered", "raised"}
          /\ request'[r].month = M
          /\ \A d \in Requests \ {r} :
                IF Overtakes(r, d) /\ fits
                  THEN /\ Moves(d) /\ request[d].step \in {"second get", "serve"}
                       /\ request'[d].step = request[d].step /\ request'[d].overtaken
                  ELSE request'[d] = request[d]
          /\ usage' = [usage EXCEPT ![s][M] = Charged(@, r)]
        <3>. DEFINE fitted == Fits(usage[MeterOf(request[r].replica)][Month], request[r].cost)
        <3>1. /\ Moves(r) /\ request[r].step = "serve"
              /\ request'[r].step \in IF fitted THEN {"metered", "metered unheard"}
                                      ELSE {"unmetered", "raised"}
              /\ request'[r].month = Month
              /\ \A d \in Requests \ {r} :
                    IF Overtakes(r, d) /\ fitted
                      THEN /\ Moves(d) /\ request[d].step \in {"second get", "serve"}
                           /\ request'[d].step = request[d].step /\ request'[d].overtaken
                      ELSE request'[d] = request[d]
              /\ usage' = [usage EXCEPT ![MeterOf(request[r].replica)][Month] = Charged(@, r)]
            BY <1>0, <1>3, RecordDoes
        <3>2. fits = fitted
            BY <2>b, <2>d
        <3>. HIDE DEF fits, fitted
        <3>. QED BY <2>b, <2>d, <3>1, <3>2
    <2>2. UNCHANGED <<meterIn, crashes>>
        BY <1>3 DEF MeterRuns, Record, RecordUnheard, Meters
    <2>3. \A d \in Requests \ {r} :
                \/ request'[d] = request[d]
                \/ ~ IsMetered(d) /\ ~ IsMetered(d)'
        BY <2>1 DEF IsMetered, RequestAt
    <2>4. usage' = [usage EXCEPT ![s] = [usage[s] EXCEPT ![M] = Charged(usage[s][M], r)]]
        BY <2>1
    <2>5. CASE ~ fits
        <3>1. Charged(usage[s][M], r) = usage[s][M]
            BY <2>5 DEF Charged
        <3>2. UNCHANGED usage
            <4>1. [usage[s] EXCEPT ![M] = usage[s][M]] = usage[s]
                BY <1>0 DEF RATypeOK
            <4>. QED BY <1>0, <2>4, <3>1, <4>1 DEF RATypeOK
        <3>3. ~ IsMetered(r) /\ ~ IsMetered(r)'
            BY <2>1, <2>5 DEF IsMetered, RequestAt
        <3>. QED BY <1>b, <2>2, <2>3, <3>2, <3>3
    <2>6. CASE fits
        <3>. SUFFICES ASSUME NEW z \in Stores, NEW m \in Months, z = Shared \/ crashes = 0
                      PROVE  Faithful(z, m)'
            BY <2>2 DEF UsageIsMetered
        <3>0. Faithful(z, m)
            BY DEF UsageIsMetered
        <3>1. usage'[z][m] = IF z = s /\ m = M THEN Charged(usage[s][M], r) ELSE usage[z][m]
            <4>1. usage'[z] = IF z = s THEN [usage[s] EXCEPT ![M] = Charged(usage[s][M], r)]
                              ELSE usage[z]
                BY <1>0, <2>4 DEF RATypeOK
            <4>2. usage[s] \in [Months -> [count : 0 .. QueryBudget,
                                        epsilon : 0 .. EpsilonBudget,
                                        entries : SUBSET Requests]]
                BY <1>0 DEF RATypeOK
            <4>. QED BY <4>1, <4>2
        <3>2. \A d \in Metered(z, m) : request'[d] = request[d] /\ d # r
            BY <2>1, <2>3 DEF Metered, IsMetered, RequestAt
        <3>3. r \in Metered(z, m)' <=> z = s /\ m = M
            BY <2>1, <2>2, <2>6, <2>d DEF Metered, IsMetered, RequestAt, MeterOf, Moves
        <3>4. \A d \in Requests \ {r} : d \in Metered(z, m)' <=> d \in Metered(z, m)
            BY <2>2, <2>3 DEF Metered, IsMetered, RequestAt, MeterOf
        <3>5. Metered(z, m) \subseteq Requests /\ Metered(z, m)' \subseteq Requests
            BY DEF Metered, IsMetered
        \* The requests metered in another store or month are those that were ...
        <3>6. CASE ~ (z = s /\ m = M)
            <4>1. Metered(z, m)' = Metered(z, m)
                BY <3>2, <3>3, <3>4, <3>5, <3>6
            <4>2. [d \in Metered(z, m) |-> request'[d].cost] = [d \in Metered(z, m) |-> request[d].cost]
                BY <3>2
            <4>3. Spent(z, m)' = Spent(z, m)
                BY <4>1, <4>2 DEF Spent
            <4>. QED BY <3>0, <3>1, <3>6, <4>1, <4>3 DEF Faithful
        \* ... and r has joined these.
        <3>7. CASE z = s /\ m = M
            <4>. DEFINE old == Metered(z, m)
                        new == Metered(z, m)'
                        was == [d \in Metered(z, m) |-> request[d].cost]
                        is == [d \in Metered(z, m) \cup {r} |-> request'[d].cost]
            <4>1. Metered(z, m)' = Metered(z, m) \cup {r} /\ r \notin Metered(z, m)
                BY <3>2, <3>3, <3>4, <3>5, <3>7
            <4>2. IsFiniteSet(Metered(z, m))
                BY <3>5, RegulatoryApiAssumption, FS_Subset
            <4>3. Cardinality(Metered(z, m)') = Cardinality(Metered(z, m)) + 1
                <5>1. Cardinality(Metered(z, m) \cup {r}) = Cardinality(Metered(z, m)) + 1
                    BY <4>1, <4>2, FS_AddElement
                <5>. QED BY <4>1, <5>1
            <4>4. Spent(z, m)' = Spent(z, m) + request[r].cost
                <5>1. \A d \in Metered(z, m) \cup {r} : is[d] \in Nat
                    <6>1. request'[r].cost \in Nat
                        BY <2>1, RegulatoryApiAssumption DEF Moves, Records
                    <6>2. \A d \in Metered(z, m) : request[d].cost \in Nat
                        <7>. TAKE d \in Metered(z, m)
                        <7>1. d \in Requests /\ request[d].step # "idle"
                            BY DEF Metered, IsMetered, RequestAt
                        <7>. QED BY <1>0, <7>1, RecordOf, RegulatoryApiAssumption DEF Records
                    <6>. QED BY <3>2, <6>1, <6>2
                <5>2. is[r] = request[r].cost
                    BY <2>1 DEF Moves
                <5>3. SumFunctionOnSet(is, Metered(z, m) \cup {r})
                        = SumFunctionOnSet(is, Metered(z, m)) + is[r]
                    <6>. HIDE DEF is
                    <6>. QED BY <4>1, <4>2, <5>1, SumAdd
                <5>4. SumFunctionOnSet(is, Metered(z, m)) = SumFunctionOnSet(was, Metered(z, m))
                    <6>1. \A d \in Metered(z, m) : is[d] = was[d]
                        BY <3>2
                    <6>. HIDE DEF is, was
                    <6>. QED BY <4>2, <6>1, SumSame
                <5>5. Spent(z, m)' = SumFunctionOnSet(is, Metered(z, m) \cup {r})
                    <6>1. Spent(z, m)' = SumFunction([d \in Metered(z, m)' |-> request'[d].cost])
                        BY DEF Spent
                    <6>2. [d \in Metered(z, m)' |-> request'[d].cost] = is
                        BY <4>1
                    <6>. QED BY <6>1, <6>2 DEF SumFunction
                <5>6. Spent(z, m) = SumFunctionOnSet(was, Metered(z, m))
                    BY DEF Spent, SumFunction
                <5>. HIDE DEF is, was
                <5>. QED BY <5>2, <5>3, <5>4, <5>5, <5>6
            <4>. QED BY <2>6, <3>0, <3>1, <3>7, <4>1, <4>3, <4>4 DEF Faithful, Charged
        <3>. QED BY <3>6, <3>7
    <2>. QED BY <2>5, <2>6
<1>4. ASSUME NEW r \in Requests, MeterFails(r)
      PROVE  UsageIsMetered'
    <2>1. /\ \A d \in Requests : d # r => request'[d] = request[d]
          /\ request[r].step \in UnderWay
          /\ request'[r].step \in {"refused", "raised"}
        BY <1>0, <1>4, MeterFailsDoes
    <2>2. UNCHANGED <<meterIn, usage, crashes>>
        BY <1>4 DEF MeterFails
    <2>3. ~ IsMetered(r) /\ ~ IsMetered(r)'
        BY <2>1 DEF IsMetered, RequestAt, UnderWay
    <2>. QED BY <1>b, <2>1, <2>2, <2>3
<1>5. ASSUME NEW p \in Replicas, Restart(p)
      PROVE  UsageIsMetered'
    <2>1. \A d \in Requests :
                \/ request'[d] = request[d]
                \/ request[d].step \in UnderWay /\ request'[d].step = "lost"
        BY <1>0, <1>5, RestartDoes
    <2>2. /\ usage' = [usage EXCEPT ![p] = [m \in Months |-> NoUsage]]
          /\ crashes' = crashes + 1
          /\ UNCHANGED meterIn
        BY <1>5 DEF Restart
    <2>3. \A d \in Requests :
                \/ request'[d] = request[d]
                \/ ~ IsMetered(d) /\ ~ IsMetered(d)'
        BY <2>1 DEF IsMetered, RequestAt, UnderWay
    <2>. SUFFICES ASSUME NEW s \in Stores, NEW m \in Months, s = Shared \/ crashes' = 0
                  PROVE  Faithful(s, m)'
        BY DEF UsageIsMetered
    <2>4. crashes' # 0
        BY <1>0, <2>2 DEF RATypeOK
    <2>5. s # p /\ Faithful(s, m)
        BY <2>4, RegulatoryApiAssumption DEF UsageIsMetered
    <2>6. usage'[s] = usage[s]
        BY <1>0, <2>2, <2>5 DEF RATypeOK
    <2>. QED BY <1>a, <2>2, <2>3, <2>5, <2>6
<1>6. CASE RATick
    BY <1>b, <1>6 DEF RATick
<1>7. CASE UNCHANGED raVars
    BY <1>b, <1>7 DEF raVars
<1>. QED BY <1>1, <1>2, <1>3, <1>4, <1>5, <1>6, <1>7 DEF RANext, MeterRuns

\* Nothing is metered, and nothing used.
LEMMA UsageInit ==
    ASSUME RAInit
    PROVE  UsageIsMetered
<1>. SUFFICES ASSUME NEW s \in Stores, NEW m \in Months
              PROVE  Faithful(s, m)
    BY DEF UsageIsMetered
<1>1. Metered(s, m) = {}
    BY DEF RAInit, Metered, RequestAt, NoRequest
<1>2. Cardinality(Metered(s, m)) = 0
    BY <1>1, FS_EmptySet
<1>3. Spent(s, m) = 0
    <2>1. Spent(s, m) = SumFunctionOnSet([r \in Metered(s, m) |-> request[r].cost], {})
        BY <1>1 DEF Spent, SumFunction
    <2>. QED BY <2>1, SumEmpty
<1>. QED BY <1>1, <1>2, <1>3 DEF Faithful, RAInit, NoUsage

\* A faithful usage keeps the budgets, since its counters do.
LEMMA UsageKeepsBudget ==
    ASSUME RATypeInv, UsageIsMetered
    PROVE  MeteredWithinBudget
<1>. SUFFICES ASSUME NEW s \in Stores, NEW m \in Months, s = Shared \/ crashes = 0
              PROVE  /\ Cardinality(Metered(s, m)) <= QueryBudget
                     /\ Spent(s, m) <= EpsilonBudget
                     /\ usage[s][m].entries = Metered(s, m)
    BY DEF MeteredWithinBudget, Spent
<1>1. Faithful(s, m)
    BY DEF UsageIsMetered
<1>2. /\ usage[s][m].count <= QueryBudget
      /\ usage[s][m].epsilon <= EpsilonBudget
    BY RegulatoryApiAssumption DEF RATypeInv, RATypeOK
<1>. QED BY <1>1, <1>2 DEF Faithful

\* The counters and entries of a usage are exactly what was metered there, to the request and
\* to the epsilon: in Redis whatever fails or restarts, in memory until a restart.
THEOREM UsageIsFaithful == RASpec => [](RATypeInv /\ UsageIsMetered)
<1>1. RAInit => RATypeInv /\ UsageIsMetered
    BY RATypeInit, UsageInit
<1>2. RATypeInv /\ UsageIsMetered /\ [RANext]_raVars => (RATypeInv /\ UsageIsMetered)'
    BY RATypeStep, UsageStep
<1>. QED BY <1>1, <1>2, PTL DEF RASpec

\* B3-04, T2.2a: what is metered in a month keeps the query budget and the privacy budget,
\* and the entries the bill is made of are exactly those requests, over all replicas and
\* restarts when the meter is in Redis (query_metering.py:142-154, 197-216).
THEOREM MeteredWithinBudgetHolds == RASpec => []MeteredWithinBudget
<1>1. RATypeInv /\ UsageIsMetered => MeteredWithinBudget
    BY UsageKeepsBudget
<1>. QED BY <1>1, UsageIsFaithful, PTL

-----------------------------------------------------------------------------
(* The rate. *)

\* What Redis allowed in a period.
InPeriod(w) == {r \in Allowed(Shared) : request[r].at \div Period = w}

\* The counter of a period covers what Redis allowed in it.
CounterCovers ==
    \A w \in 0 .. MaxTime \div Period :
        Cardinality(InPeriod(w)) <= counter[w] /\ Cardinality(InPeriod(w)) <= Rate

\* What a bucket allowed from some time on.
Since(p, from) == {r \in Allowed(p) : request[r].at >= from}

\* What a bucket allowed in a stretch of time.
Within(p, from, to) == {r \in Allowed(p) : request[r].at \in from .. to}

\* The parts of n tokens.
Parts(n) == n * Period

\* The parts of a full bucket.
Size == Rate * Period

\* What a bucket allowed since some time and what it holds now came with the bucket
\* or were refilled since.
BucketCovers(p) ==
    /\ \A r \in Allowed(p) : request[r].at <= bucket[p].at
    /\ \A from \in 0 .. bucket[p].at :
         Parts(Cardinality(Since(p, from))) + bucket[p].tokens
            <= Size + (bucket[p].at - from) * Rate
    /\ \A from, to \in 0 .. MaxTime :
         from <= to => Parts(Cardinality(Within(p, from, to))) <= Size + (to - from) * Rate

\* The counters cover what Redis allowed, and the buckets what they did.
RateInv == CounterCovers /\ \A p \in Replicas : crashes = 0 => BucketCovers(p)

\* Parts are natural numbers, a token more is Period parts more, and more tokens are no
\* fewer parts.
LEMMA PartsDo ==
    /\ Size \in Nat /\ Rate \in Nat /\ Period \in Nat
    /\ Parts(0) = 0
    /\ \A n \in Nat : Parts(n) \in Nat /\ Parts(n + 1) = Parts(n) + Period
    /\ \A n, m \in Nat : n <= m => Parts(n) <= Parts(m)
<1>1. Size \in Nat /\ Rate \in Nat /\ Period \in Nat
    BY SizeType DEF Size
<1>2. Parts(0) = 0
    BY <1>1 DEF Parts
<1>3. ASSUME NEW n \in Nat
      PROVE  Parts(n) \in Nat /\ Parts(n + 1) = Parts(n) + Period
    <2>1. n * Period \in Nat
        BY <1>1, ProductType
    <2>2. (n + 1) * Period = n * Period + 1 * Period
        BY <1>1, ProductSum
    <2>3. 1 * Period = Period
        BY <1>1
    <2>. QED BY <2>1, <2>2, <2>3 DEF Parts
<1>4. ASSUME NEW n \in Nat, NEW m \in Nat, n <= m
      PROVE  Parts(n) <= Parts(m)
    BY <1>1, <1>4, ProductGrows DEF Parts
<1>. QED BY <1>1, <1>2, <1>3, <1>4

\* What a limiter allowed is finite.
LEMMA AllowedFinite ==
    ASSUME NEW by
    PROVE  /\ IsFiniteSet(Allowed(by))
           /\ \A T \in SUBSET Allowed(by) : IsFiniteSet(T) /\ Cardinality(T) \in Nat
<1>1. IsFiniteSet(Allowed(by))
    BY RegulatoryApiAssumption, FS_Subset DEF Allowed
<1>. QED BY <1>1, FS_Subset, FS_CardinalityType

\* Nothing is allowed, or stops being, but by the limiter.
LEMMA SameAllowed ==
    ASSUME MoveOnly, NEW by
    PROVE  /\ Allowed(by)' = Allowed(by)
           /\ \A r \in Allowed(by) : request'[r].at = request[r].at
<1>1. \A d \in Requests :
        /\ request'[d].step \notin {"idle", "rate limited"} /\ request'[d].allowedBy = by
           <=> request[d].step \notin {"idle", "rate limited"} /\ request[d].allowedBy = by
        /\ request[d].step \notin {"idle", "rate limited"} => request'[d].at = request[d].at
    BY DEF MoveOnly, Moves
<1>. QED BY <1>1 DEF Allowed

\* A step that brings no request keeps the rate.
LEMMA MoveKeepsRate ==
    ASSUME RateInv, MoveOnly, UNCHANGED counter,
           crashes' # 0 \/ UNCHANGED <<bucket, crashes>>
    PROVE  RateInv'
<1>1. CounterCovers'
    <2>. SUFFICES ASSUME NEW w \in 0 .. MaxTime \div Period
                  PROVE  Cardinality(InPeriod(w))' <= counter[w] /\ Cardinality(InPeriod(w))' <= Rate
        BY DEF CounterCovers
    <2>1. InPeriod(w)' = InPeriod(w)
        BY SameAllowed DEF InPeriod
    <2>. QED BY <2>1 DEF RateInv, CounterCovers
<1>2. ASSUME NEW p \in Replicas, crashes' = 0
      PROVE  BucketCovers(p)'
    <2>1. /\ BucketCovers(p)
          /\ UNCHANGED bucket
        BY <1>2 DEF RateInv
    <2>2. /\ Allowed(p)' = Allowed(p)
          /\ \A r \in Allowed(p) : request'[r].at = request[r].at
        BY SameAllowed
    <2>3. \A from : Since(p, from)' = Since(p, from)
        BY <2>2 DEF Since
    <2>4. \A from, to : Within(p, from, to)' = Within(p, from, to)
        BY <2>2 DEF Within
    <2>. QED BY <2>1, <2>2, <2>3, <2>4 DEF BucketCovers
<1>. QED BY <1>1, <1>2 DEF RateInv

\* A request comes to the limiter, which lets it in by the counter of the period or
\* does not.
LEMMA CameInPeriod ==
    ASSUME RATypeOK, CounterCovers, NEW r \in Requests, request[r].step = "idle",
           \A d \in Requests : d # r => request'[d] = request[d],
           request'[r].at = clock,
           counter' = counter \/ counter' = [counter EXCEPT ![clock \div Period] = @ + 1],
           r \in Allowed(Shared)' =>
             /\ counter' = [counter EXCEPT ![clock \div Period] = @ + 1]
             /\ counter[clock \div Period] + 1 <= Rate
    PROVE  CounterCovers'
<1>. DEFINE W == 0 .. MaxTime \div Period
            now == clock \div Period
<1>. SUFFICES ASSUME NEW w \in W
              PROVE  Cardinality(InPeriod(w))' <= counter'[w] /\ Cardinality(InPeriod(w))' <= Rate
    BY DEF CounterCovers
<1>1. /\ counter \in [W -> 0 .. Cardinality(Requests)]
      /\ Cardinality(Requests) \in Nat /\ Rate \in Nat
    BY RegulatoryApiAssumption, FS_CardinalityType DEF RATypeOK
<1>2. Cardinality(InPeriod(w)) \in Nat /\ IsFiniteSet(InPeriod(w))
    <2>1. InPeriod(w) \in SUBSET Allowed(Shared)
        BY DEF InPeriod
    <2>. QED BY <2>1, AllowedFinite
<1>3. Cardinality(InPeriod(w)) <= counter[w] /\ Cardinality(InPeriod(w)) <= Rate
    BY DEF CounterCovers
<1>4. counter[w] \in Nat
    BY <1>1
<1>5. r \notin InPeriod(w)
    BY DEF InPeriod, Allowed
<1>6. \A d \in Requests \ {r} : d \in InPeriod(w)' <=> d \in InPeriod(w)
    BY DEF InPeriod, Allowed
<1>7. InPeriod(w) \subseteq Requests /\ InPeriod(w)' \subseteq Requests
    BY DEF InPeriod, Allowed
<1>8. CASE r \in InPeriod(w)'
    <2>1. r \in Allowed(Shared)' /\ now = w
        BY <1>8 DEF InPeriod
    <2>2. counter' = [counter EXCEPT ![now] = @ + 1] /\ counter[now] + 1 <= Rate
        BY <2>1
    <2>3. InPeriod(w)' = InPeriod(w) \cup {r}
        BY <1>6, <1>7, <1>8
    <2>4. Cardinality(InPeriod(w) \cup {r}) = Cardinality(InPeriod(w)) + 1
        BY <1>2, <1>5, FS_AddElement
    <2>5. Cardinality(InPeriod(w)') = Cardinality(InPeriod(w)) + 1
        BY <2>3, <2>4
    <2>6. counter'[w] = counter[w] + 1 /\ counter[w] + 1 <= Rate
        <3>. HIDE DEF now
        <3>. QED BY <1>1, <2>1, <2>2
    <2>. QED BY <1>1, <1>2, <1>3, <1>4, <2>5, <2>6
<1>9. CASE r \notin InPeriod(w)'
    <2>1. InPeriod(w)' = InPeriod(w)
        <3>1. \A d \in Requests : d \in InPeriod(w)' <=> d \in InPeriod(w)
            BY <1>5, <1>6, <1>9
        <3>. QED BY <1>7, <3>1
    <2>2. counter'[w] \in Nat /\ counter[w] <= counter'[w]
        <3>1. CASE counter' = counter
            BY <1>4, <3>1
        <3>2. CASE counter' = [counter EXCEPT ![now] = @ + 1]
            <4>. HIDE DEF now, W
            <4>1. counter'[w] = IF w = now THEN counter[w] + 1 ELSE counter[w]
                BY <1>1, <3>2
            <4>. QED BY <1>4, <4>1
        <3>3. counter' = counter \/ counter' = [counter EXCEPT ![now] = @ + 1]
            OBVIOUS
        <3>. HIDE DEF now
        <3>. QED BY <3>1, <3>2, <3>3
    <2>. QED BY <1>1, <1>2, <1>3, <1>4, <2>1, <2>2
<1>. QED BY <1>8, <1>9

\* A bucket that lets nobody in is as it was.
LEMMA BucketUntouched ==
    ASSUME NEW p, BucketCovers(p), bucket'[p] = bucket[p],
           NEW r \in Requests, request[r].step = "idle",
           \A d \in Requests : d # r => request'[d] = request[d],
           r \notin Allowed(p)'
    PROVE  BucketCovers(p)'
<1>1. r \notin Allowed(p)
    BY DEF Allowed
<1>2. \A d \in Requests : d \in Allowed(p)' <=> d \in Allowed(p)
    <2>. TAKE d \in Requests
    <2>1. CASE d = r
        BY <1>1, <2>1
    <2>2. CASE d # r
        BY <2>2 DEF Allowed
    <2>. QED BY <2>1, <2>2
<1>3. Allowed(p)' \subseteq Requests /\ Allowed(p) \subseteq Requests
    BY DEF Allowed
<1>4. Allowed(p)' = Allowed(p)
    BY <1>2, <1>3
<1>5. \A d \in Allowed(p) : request'[d].at = request[d].at
    BY <1>1, <1>3
<1>6. \A from : Since(p, from)' = Since(p, from)
    BY <1>4, <1>5 DEF Since
<1>7. \A from, to : Within(p, from, to)' = Within(p, from, to)
    BY <1>4, <1>5 DEF Within
<1>. QED BY <1>4, <1>5, <1>6, <1>7 DEF BucketCovers

\* A request comes to a bucket, which is refilled for the time that went by and gives
\* one token away if it lets it in.
LEMMA CameInBucket ==
    ASSUME RATypeInv, NEW p \in Replicas, BucketCovers(p),
           NEW r \in Requests, request[r].step = "idle",
           \A d \in Requests : d # r => request'[d] = request[d],
           request'[r].at = clock,
           bucket'[p].at = clock, bucket'[p].tokens \in Nat,
           bucket'[p].tokens = IF r \in Allowed(p)' THEN Refilled(p) - Period ELSE Refilled(p)
    PROVE  BucketCovers(p)'
<1>. DEFINE at == bucket[p].at
            tokens == bucket[p].tokens
            left == bucket'[p].tokens
            full == Refilled(p)
<1>1. /\ at \in Nat /\ clock \in Nat /\ at <= clock
      /\ tokens \in Nat /\ full \in Nat /\ full <= Size /\ Size \in Nat /\ Rate \in Nat /\ Period \in Nat
      /\ full <= tokens + (clock - at) * Rate
    <2>1. RATypeOK /\ at <= clock
        BY DEF RATypeInv, Punctual
    <2>2. Size \in Nat /\ Rate \in Nat /\ Period \in Nat
        BY PartsDo
    <2>3. bucket[p] \in [tokens : 0 .. Size, at : 0 .. MaxTime]
        BY <2>1 DEF RATypeOK, Size
    <2>4. at \in Nat /\ clock \in Nat /\ tokens \in Nat
        BY <2>1, <2>2, <2>3, EnvironmentAssumption DEF RATypeOK, EnvironmentOK
    <2>5. full \in 0 .. Size /\ full <= tokens + (clock - at) * Rate
        BY <2>1, RefillBounds DEF Size
    <2>. HIDE DEF at, tokens, full
    <2>. QED BY <2>1, <2>2, <2>4, <2>5
<1>2. r \notin Allowed(p)
    BY DEF Allowed
<1>3. \A d \in Requests \ {r} :
        /\ d \in Allowed(p)' <=> d \in Allowed(p)
        /\ request'[d] = request[d]
    BY DEF Allowed
<1>4. Allowed(p)' \subseteq Requests /\ Allowed(p) \subseteq Requests
    BY DEF Allowed
<1>5. \A d \in Allowed(p) : request[d].at \in Nat /\ request[d].at <= at
    <2>. TAKE d \in Allowed(p)
    <2>1. d \in Requests /\ request[d].step # "idle" /\ RATypeOK
        BY DEF Allowed, RATypeInv
    <2>2. request[d].at \in 0 .. MaxTime
        BY <2>1, RecordOf DEF Records
    <2>. QED BY <2>2, EnvironmentAssumption DEF BucketCovers
<1>6. \A d \in Allowed(p)' : request'[d].at <= bucket'[p].at
    <2>. TAKE d \in Allowed(p)'
    <2>1. CASE d = r
        BY <1>1, <2>1
    <2>2. CASE d # r
        <3>1. d \in Allowed(p) /\ request'[d] = request[d]
            BY <1>3, <1>4, <2>2
        <3>2. request[d].at \in Nat /\ request[d].at <= at
            BY <1>5, <3>1
        <3>. HIDE DEF at
        <3>. QED BY <1>1, <3>1, <3>2
    <2>. QED BY <2>1, <2>2
<1>7. ASSUME NEW from \in 0 .. clock
      PROVE  /\ Cardinality(Since(p, from)) \in Nat
             /\ IsFiniteSet(Since(p, from))
             /\ Parts(Cardinality(Since(p, from))) + full <= Size + (clock - from) * Rate
    <2>. DEFINE n == Cardinality(Since(p, from))
                part == Parts(n)
    <2>1. n \in Nat /\ IsFiniteSet(Since(p, from))
        <3>1. Since(p, from) \in SUBSET Allowed(p)
            BY DEF Since
        <3>. QED BY <3>1, AllowedFinite
    <2>a. part \in Nat
        BY <2>1, PartsDo
    <2>2. from \in Nat /\ from <= clock
        BY <1>1
    <2>3. CASE from <= at
        <3>1. part + tokens <= Size + (at - from) * Rate
            <4>1. from \in 0 .. at
                BY <1>1, <2>2, <2>3
            <4>. QED BY <4>1 DEF BucketCovers
        <3>2. (clock - from) * Rate = (at - from) * Rate + (clock - at) * Rate
            <4>1. at - from \in Nat /\ clock - at \in Nat /\ clock - from = (at - from) + (clock - at)
                BY <1>1, <2>2, <2>3
            <4>. QED BY <1>1, <4>1, ProductSum
        <3>3. (at - from) * Rate \in Nat /\ (clock - at) * Rate \in Nat
            <4>1. at - from \in Nat /\ clock - at \in Nat
                BY <1>1, <2>2, <2>3
            <4>. QED BY <1>1, <4>1, ProductType
        <3>. DEFINE x == (at - from) * Rate
                    y == (clock - at) * Rate
                    z == (clock - from) * Rate
        <3>4. part + tokens <= Size + x /\ z = x + y /\ x \in Nat /\ y \in Nat /\ full <= tokens + y
            BY <1>1, <3>1, <3>2, <3>3
        <3>5. part \in Nat /\ tokens \in Nat /\ full \in Nat /\ Size \in Nat
            BY <1>1, <2>a
        <3>. HIDE DEF x, y, z, part, tokens, full
        <3>6. part + full <= Size + z
            BY <3>4, <3>5
        <3>. QED BY <2>1, <3>6 DEF z, part
    <2>4. CASE at < from
        <3>1. \A d \in Allowed(p) : ~ (request[d].at >= from)
            <4>. TAKE d \in Allowed(p)
            <4>1. request[d].at \in Nat /\ request[d].at <= at
                BY <1>5
            <4>. HIDE DEF at
            <4>. QED BY <1>1, <2>2, <2>4, <4>1
        <3>2. Since(p, from) = {}
            BY <3>1 DEF Since
        <3>3. part = 0
            BY <3>2, FS_EmptySet, PartsDo
        <3>4. (clock - from) * Rate \in Nat
            <4>1. clock - from \in Nat
                BY <1>1, <2>2
            <4>. QED BY <1>1, <4>1, ProductType
        <3>. DEFINE z == (clock - from) * Rate
        <3>5. z \in Nat
            BY <3>4
        <3>. HIDE DEF part, z, full
        <3>6. part + full <= Size + z
            BY <1>1, <3>3, <3>5
        <3>. QED BY <2>1, <3>6 DEF part, z
    <2>. QED BY <1>1, <2>2, <2>3, <2>4
<1>8. ASSUME NEW from \in 0 .. clock
      PROVE  /\ Parts(Cardinality(Since(p, from)')) + left <= Size + (clock - from) * Rate
             /\ IsFiniteSet(Since(p, from)') /\ Cardinality(Since(p, from)') \in Nat
    <2>1. \A d \in Requests \ {r} : d \in Since(p, from)' <=> d \in Since(p, from)
        BY <1>3 DEF Since
    <2>2. Since(p, from)' \subseteq Requests /\ Since(p, from) \subseteq Requests /\ r \notin Since(p, from)
        BY <1>2, <1>4 DEF Since
    <2>3. r \in Since(p, from)' <=> r \in Allowed(p)'
        <3>1. request'[r].at >= from
            BY <1>1
        <3>. QED BY <3>1 DEF Since
    <2>4. /\ Cardinality(Since(p, from)) \in Nat
          /\ IsFiniteSet(Since(p, from))
          /\ Parts(Cardinality(Since(p, from))) + full <= Size + (clock - from) * Rate
        BY <1>7
    <2>. DEFINE n == Cardinality(Since(p, from))
                z == (clock - from) * Rate
    <2>5. CASE r \in Allowed(p)'
        <3>1. Since(p, from)' = Since(p, from) \cup {r}
            BY <2>1, <2>2, <2>3, <2>5
        <3>2. Cardinality(Since(p, from) \cup {r}) = n + 1 /\ IsFiniteSet(Since(p, from) \cup {r})
            BY <2>2, <2>4, FS_AddElement
        <3>3. left = full - Period
            BY <2>5
        <3>4. n \in Nat /\ Parts(n) + full <= Size + z /\ full \in Nat /\ Period \in Nat
            BY <1>1, <2>4
        <3>5. Cardinality(Since(p, from)') = n + 1 /\ IsFiniteSet(Since(p, from)')
            BY <3>1, <3>2
        <3>. HIDE DEF n, z, left, full
        <3>6. n + 1 \in Nat /\ Parts(n) \in Nat /\ Parts(n + 1) = Parts(n) + Period
            BY <3>4, PartsDo
        <3>7. Parts(n + 1) + left = Parts(n) + full
            BY <3>3, <3>4, <3>6
        <3>. QED BY <3>4, <3>5, <3>6, <3>7 DEF z
    <2>6. CASE r \notin Allowed(p)'
        <3>1. \A d \in Requests : d \in Since(p, from)' <=> d \in Since(p, from)
            BY <2>1, <2>2, <2>3, <2>6
        <3>2. Since(p, from)' = Since(p, from)
            BY <2>2, <3>1
        <3>. QED BY <2>4, <2>6, <3>2
    <2>. QED BY <2>5, <2>6
<1>9. ASSUME NEW from \in 0 .. MaxTime, NEW to \in 0 .. MaxTime, from <= to
      PROVE  Parts(Cardinality(Within(p, from, to)')) <= Size + (to - from) * Rate
    <2>1. from \in Nat /\ to \in Nat
        BY EnvironmentAssumption
    <2>2. Parts(Cardinality(Within(p, from, to))) <= Size + (to - from) * Rate
        BY <1>9 DEF BucketCovers
    <2>3. \A d \in Requests \ {r} : d \in Within(p, from, to)' <=> d \in Within(p, from, to)
        BY <1>3 DEF Within
    <2>4. /\ Within(p, from, to)' \subseteq Requests /\ Within(p, from, to) \subseteq Requests
          /\ r \notin Within(p, from, to)
        BY <1>2, <1>4 DEF Within
    <2>5. CASE r \in Within(p, from, to)'
        <3>1. clock \in from .. to
            BY <2>5 DEF Within
        <3>2. from \in 0 .. clock
            BY <1>1, <2>1, <3>1
        <3>3. Within(p, from, to)' \subseteq Since(p, from)'
            <4>. SUFFICES ASSUME NEW d \in Within(p, from, to)'
                          PROVE  d \in Since(p, from)'
                OBVIOUS
            <4>1. d \in Allowed(p)' /\ request'[d].at \in from .. to
                BY DEF Within
            <4>2. request'[d].at >= from
                BY <2>1, <4>1
            <4>. QED BY <4>1, <4>2 DEF Since
        <3>4. /\ Parts(Cardinality(Since(p, from)')) + left <= Size + (clock - from) * Rate
              /\ IsFiniteSet(Since(p, from)') /\ Cardinality(Since(p, from)') \in Nat
            BY <1>8, <3>2
        <3>5. /\ Cardinality(Within(p, from, to)') <= Cardinality(Since(p, from)')
              /\ Cardinality(Within(p, from, to)') \in Nat
            <4>1. /\ IsFiniteSet(Within(p, from, to)')
                  /\ Cardinality(Within(p, from, to)') <= Cardinality(Since(p, from)')
                BY <3>3, <3>4, FS_Subset
            <4>. QED BY <4>1, FS_CardinalityType
        <3>6. /\ (clock - from) * Rate <= (to - from) * Rate
              /\ (clock - from) * Rate \in Nat /\ (to - from) * Rate \in Nat
            <4>1. clock - from \in Nat /\ to - from \in Nat /\ clock - from <= to - from
                BY <1>1, <2>1, <3>1
            <4>. QED BY <1>1, <4>1, ProductGrows, ProductType
        <3>. DEFINE n == Cardinality(Within(p, from, to)')
                    m == Cardinality(Since(p, from)')
                    x == (clock - from) * Rate
                    z == (to - from) * Rate
        <3>7. /\ Parts(m) + left <= Size + x /\ m \in Nat /\ n <= m /\ n \in Nat
              /\ x <= z /\ x \in Nat /\ z \in Nat /\ left \in Nat /\ Size \in Nat
            BY <1>1, <3>4, <3>5, <3>6
        <3>. HIDE DEF n, m, x, z, left
        <3>8. Parts(n) \in Nat /\ Parts(m) \in Nat /\ Parts(n) <= Parts(m)
            BY <3>7, PartsDo
        <3>9. Parts(n) <= Size + z
            BY <3>7, <3>8
        <3>. QED BY <3>9 DEF n, z
    <2>6. CASE r \notin Within(p, from, to)'
        <3>1. \A d \in Requests : d \in Within(p, from, to)' <=> d \in Within(p, from, to)
            BY <2>3, <2>4, <2>6
        <3>2. Within(p, from, to)' = Within(p, from, to)
            BY <2>4, <3>1
        <3>. QED BY <2>2, <3>2
    <2>. QED BY <2>5, <2>6
<1>. QED BY <1>6, <1>8, <1>9 DEF BucketCovers

\* Every step keeps the rate: a limiter lets in by its counter or its bucket.
LEMMA RateStep ==
    ASSUME RATypeInv, RateInv, [RANext]_raVars
    PROVE  RateInv'
<1>0. RATypeOK /\ CounterCovers
    BY DEF RATypeInv, RateInv
<1>1. ASSUME NEW r \in Requests, NEW p \in Replicas, NEW c \in Costs,
             ArriveMemory(r, p, c) \/ ArriveFallback(r, p, c)
      PROVE  RateInv'
    <2>1. /\ bucket' \in [Replicas -> [tokens : 0 .. Rate * Period, at : 0 .. MaxTime]]
          /\ \A q \in Replicas : q # p => bucket'[q] = bucket[q]
          /\ bucket'[p].at = clock
          /\ \E step \in Outcomes :
                /\ Lands(r, p, c, p, step)
                /\ bucket'[p].tokens =
                     IF step = "rate limited" THEN Refilled(p) ELSE Refilled(p) - Period
          /\ request[r] = NoRequest
          /\ \/ counter' = counter
             \/ counter' = [counter EXCEPT ![clock \div Period] = @ + 1]
          /\ UNCHANGED crashes
        BY <1>1, ArriveDoes
    <2>2. PICK step \in Outcomes :
                /\ Lands(r, p, c, p, step)
                /\ bucket'[p].tokens =
                     IF step = "rate limited" THEN Refilled(p) ELSE Refilled(p) - Period
        BY <2>1
    <2>3. p \in Stores /\ p # Shared
        BY RegulatoryApiAssumption DEF Stores
    <2>4. /\ request'[r].at = clock /\ request'[r].allowedBy = p /\ request'[r].step = step
          /\ \A d \in Requests : d # r => request'[d] = request[d]
        <3>1. RATypeOK /\ Lands(r, p, c, p, step) /\ p \in Stores
            BY <1>0, <2>2, <2>3
        <3>. QED BY <3>1, LandsDoes
    <2>5. request[r].step = "idle"
        BY <2>1, NotYet
    <2>6. /\ r \in Allowed(p)' <=> step # "rate limited"
          /\ \A by : by # p => r \notin Allowed(by)'
        BY <2>4 DEF Allowed, Outcomes
    <2>7. CounterCovers'
        BY <1>0, <2>1, <2>3, <2>4, <2>5, <2>6, CameInPeriod
    <2>8. bucket'[p].tokens \in Nat
        <3>1. bucket' \in [Replicas -> [tokens : 0 .. Rate * Period, at : 0 .. MaxTime]]
            BY <2>1
        <3>2. bucket' \in [Replicas -> [tokens : 0 .. Size, at : 0 .. MaxTime]]
            BY <3>1 DEF Size
        <3>3. bucket'[p].tokens \in 0 .. Size
            BY <3>2
        <3>4. Size \in Nat
            BY PartsDo
        <3>. QED BY <3>3, <3>4
    <2>9. ASSUME NEW q \in Replicas, crashes' = 0
          PROVE  BucketCovers(q)'
        <3>1. BucketCovers(q)
            BY <2>1, <2>9 DEF RateInv
        <3>2. CASE q = p
            <4>1. bucket'[p].tokens = IF r \in Allowed(p)' THEN Refilled(p) - Period ELSE Refilled(p)
                BY <2>2, <2>6
            <4>. QED BY <2>1, <2>4, <2>5, <2>8, <3>1, <3>2, <4>1, CameInBucket
        <3>3. CASE q # p
            BY <2>1, <2>4, <2>5, <2>6, <3>1, <3>3, BucketUntouched
        <3>. QED BY <3>2, <3>3
    <2>. QED BY <2>7, <2>9 DEF RateInv
<1>2. ASSUME NEW r \in Requests, NEW p \in Replicas, NEW c \in Costs, ArriveRedis(r, p, c)
      PROVE  RateInv'
    <2>1. /\ request[r] = NoRequest
          /\ counter' = [counter EXCEPT ![clock \div Period] = @ + 1]
          /\ UNCHANGED <<bucket, crashes>>
        BY <1>2 DEF ArriveRedis
    <2>2. PICK step \in Outcomes :
                /\ Lands(r, p, c, Shared, step)
                /\ step # "rate limited" => counter[clock \div Period] + 1 <= Rate
        BY <1>2 DEF ArriveRedis, Arrived, Lands, Outcomes
    <2>3. Shared \in Stores
        BY DEF Stores
    <2>4. /\ request'[r].at = clock /\ request'[r].allowedBy = Shared /\ request'[r].step = step
          /\ \A d \in Requests : d # r => request'[d] = request[d]
        <3>1. RATypeOK /\ Lands(r, p, c, Shared, step)
            BY <1>0, <2>2
        <3>. QED BY <2>3, <3>1, LandsDoes
    <2>5. request[r].step = "idle"
        BY <2>1, NotYet
    <2>6. r \in Allowed(Shared)' => counter[clock \div Period] + 1 <= Rate
        <3>1. r \in Allowed(Shared)' => step # "rate limited"
            BY <2>4 DEF Allowed
        <3>. QED BY <2>2, <3>1
    <2>7. CounterCovers'
        BY <1>0, <2>1, <2>4, <2>5, <2>6, CameInPeriod
    <2>8. ASSUME NEW q \in Replicas, crashes' = 0
          PROVE  BucketCovers(q)'
        <3>1. BucketCovers(q) /\ bucket'[q] = bucket[q]
            BY <2>1, <2>8 DEF RateInv
        <3>2. r \notin Allowed(q)'
            <4>1. q # Shared
                BY RegulatoryApiAssumption
            <4>. QED BY <2>4, <4>1 DEF Allowed
        <3>. QED BY <2>4, <2>5, <3>1, <3>2, BucketUntouched
    <2>. QED BY <2>7, <2>8 DEF RateInv
<1>3. ASSUME NEW r \in Requests, PreCheck(r) \/ GetCount(r) \/ GetEpsilon(r)
      PROVE  RateInv'
    <2>1. MoveOnly
        BY <1>0, <1>3, PreCheckDoes, GetCountDoes, GetEpsilonDoes
    <2>2. UNCHANGED <<bucket, counter, crashes>>
        BY <1>3 DEF PreCheck, GetCount, GetEpsilon
    <2>. QED BY <2>1, <2>2, MoveKeepsRate
<1>4. ASSUME NEW r \in Requests, MeterRuns(r)
      PROVE  RateInv'
    <2>1. MoveOnly /\ UNCHANGED <<bucket, counter, crashes>>
        BY <1>0, <1>4, RecordDoes
    <2>. QED BY <2>1, MoveKeepsRate
<1>5. ASSUME NEW r \in Requests, MeterFails(r)
      PROVE  RateInv'
    <2>1. MoveOnly
        BY <1>0, <1>5, MeterFailsDoes
    <2>2. UNCHANGED <<bucket, counter, crashes>>
        BY <1>5 DEF MeterFails
    <2>. QED BY <2>1, <2>2, MoveKeepsRate
<1>6. ASSUME NEW p \in Replicas, Restart(p)
      PROVE  RateInv'
    <2>1. MoveOnly
        BY <1>0, <1>6, RestartDoes
    <2>2. crashes' # 0 /\ UNCHANGED counter
        <3>1. crashes \in 0 .. MaxCrashes
            BY <1>0 DEF RATypeOK
        <3>2. crashes' = crashes + 1 /\ UNCHANGED counter
            BY <1>6 DEF Restart
        <3>. QED BY <3>1, <3>2
    <2>. QED BY <2>1, <2>2, MoveKeepsRate
<1>7. CASE RATick
    <2>1. MoveOnly
        BY <1>7 DEF RATick, MoveOnly
    <2>. QED BY <1>7, <2>1, MoveKeepsRate DEF RATick
<1>8. CASE UNCHANGED raVars
    <2>1. MoveOnly
        BY <1>8 DEF raVars, MoveOnly
    <2>. QED BY <1>8, <2>1, MoveKeepsRate DEF raVars
<1>. QED BY <1>1, <1>2, <1>3, <1>4, <1>5, <1>6, <1>7, <1>8 DEF RANext, MeterRuns

\* A full bucket and counters at zero cover that nothing was allowed.
LEMMA RateInit ==
    ASSUME RAInit
    PROVE  RateInv
<1>1. \A r \in Requests : request[r].step = "idle"
    BY DEF RAInit, NoRequest
<1>2. Rate \in Nat /\ Size \in Nat /\ Parts(0) = 0 /\ MaxTime \in Nat
    BY EnvironmentAssumption, PartsDo
<1>3. CounterCovers
    <2>. SUFFICES ASSUME NEW w \in 0 .. MaxTime \div Period
                  PROVE  Cardinality(InPeriod(w)) <= counter[w] /\ Cardinality(InPeriod(w)) <= Rate
        BY DEF CounterCovers
    <2>1. InPeriod(w) = {}
        BY <1>1 DEF InPeriod, Allowed
    <2>2. Cardinality(InPeriod(w)) = 0
        BY <2>1, FS_EmptySet
    <2>3. counter[w] = 0
        BY DEF RAInit
    <2>. QED BY <1>2, <2>2, <2>3
<1>4. ASSUME NEW p \in Replicas
      PROVE  BucketCovers(p)
    <2>0. Allowed(p) = {}
        BY <1>1 DEF Allowed
    <2>1. bucket[p].tokens = Size /\ bucket[p].at = 0
        BY DEF RAInit, FullBucket, Size
    <2>2. \A from \in 0 .. bucket[p].at :
            Parts(Cardinality(Since(p, from))) + bucket[p].tokens <= Size + (bucket[p].at - from) * Rate
        <3>. TAKE from \in 0 .. bucket[p].at
        <3>1. from = 0
            BY <2>1
        <3>2. Cardinality(Since(p, from)) = 0
            <4>1. Since(p, from) = {}
                BY <2>0 DEF Since
            <4>. QED BY <4>1, FS_EmptySet
        <3>3. 0 * Rate \in Nat
            BY <1>2, ProductType
        <3>4. bucket[p].at - from = 0
            BY <2>1, <3>1
        <3>. QED BY <1>2, <2>1, <3>2, <3>3, <3>4
    <2>3. \A from, to \in 0 .. MaxTime :
            from <= to => Parts(Cardinality(Within(p, from, to))) <= Size + (to - from) * Rate
        <3>. TAKE from, to \in 0 .. MaxTime
        <3>. HAVE from <= to
        <3>1. Cardinality(Within(p, from, to)) = 0
            <4>1. Within(p, from, to) = {}
                BY <2>0 DEF Within
            <4>. QED BY <4>1, FS_EmptySet
        <3>2. (to - from) * Rate \in Nat
            <4>1. to - from \in Nat
                BY <1>2
            <4>. QED BY <1>2, <4>1, ProductType
        <3>. QED BY <1>2, <3>1, <3>2
    <2>. QED BY <2>0, <2>2, <2>3 DEF BucketCovers
<1>. QED BY <1>3, <1>4 DEF RateInv

\* What covers the buckets and the counters keeps the rate.
LEMMA RateInvKeepsRate ==
    ASSUME RATypeInv, RateInv
    PROVE  RateIsKept
<1>1. DOMAIN counter = 0 .. MaxTime \div Period
    BY DEF RATypeInv, RATypeOK
<1>2. \A w \in DOMAIN counter :
        Cardinality({r \in Allowed(Shared) : request[r].at \div Period = w}) <= Rate
    BY <1>1 DEF RateInv, CounterCovers, InPeriod
<1>3. ASSUME NEW p \in Replicas, NEW from \in 0 .. MaxTime, NEW to \in 0 .. MaxTime,
             crashes = 0 /\ from <= to
      PROVE  Cardinality({r \in Allowed(p) : request[r].at \in from .. to}) * Period
                <= Rate * Period + (to - from) * Rate
    BY <1>3 DEF RateInv, BucketCovers, Within, Parts, Size
<1>. QED BY <1>2, <1>3 DEF RateIsKept

\* The counters and buckets cover what the limiters allowed: nothing is allowed that no token
\* or count was taken for.
THEOREM LimitersCover == RASpec => [](RATypeInv /\ RateInv)
<1>1. RAInit => RATypeInv /\ RateInv
    BY RATypeInit, RateInit
<1>2. RATypeInv /\ RateInv /\ [RANext]_raVars => (RATypeInv /\ RateInv)'
    BY RATypeStep, RateStep
<1>. QED BY <1>1, <1>2, PTL DEF RASpec

\* B2-11: in no stretch of time does a bucket allow more than its size and the refill of that
\* stretch, and in no period does the counter in Redis allow more than the rate, for any
\* rate, period and clock (rate_limiter.py:79-129).
THEOREM RateIsKeptHolds == RASpec => []RateIsKept
<1>1. RATypeInv /\ RateInv => RateIsKept
    BY RateInvKeepsRate
<1>. QED BY <1>1, LimitersCover, PTL

-----------------------------------------------------------------------------
(*                     THE AML GATE WITH TENANTS                           *)

\* The record of a call that was screened.
CallRecords == [step : CallSteps, tenant : Tenants, bene : Benes, amount : Amounts,
                object : {NoObject} \cup Objects, now : 0 .. MaxTime,
                late : BOOLEAN, read : Nat, flagged : BOOLEAN,
                answer : {"none", "PASSED", "RAISED"}]

\* What a call may be: not begun, refused or screened.
CallStates == {NoCall} \cup {Refused(r) : r \in Refusals} \cup CallRecords

\* The calls that may still make a checker.
Makers == {c \in Calls : call[c] = NoCall \/ CallAt(c, "install")}

\* There are objects enough for the calls that may still make one.
Slots == made + Cardinality(Makers) <= Cardinality(Calls)

\* In memory a call finds a checker when it gets there, and goes on with it.
Armed ==
    ~ Redis => \A c \in Calls :
        /\ CallAt(c, "fetch") => checkers[call[c].tenant] # NoObject
        /\ CallAt(c, "check") \/ c \in Passed => call[c].object # NoObject

\* Only calls in memory make checkers and write the register in two steps.
NoMemorySteps == Redis => \A c \in Calls : call[c].step \notin {"install", "write"}

\* The type invariant, with what keeps the checkers within their numbers.
TVTypeInv == TVTypeOK /\ Slots /\ Armed /\ NoMemorySteps

\* A call that is under way, or ended otherwise than refused, has a whole record.
LEMMA CallOf ==
    ASSUME TVTypeOK, NEW c \in Calls,
           \/ call[c].step \notin {"idle", "done"}
           \/ call[c].step = "done" /\ call[c].answer \notin Refusals
    PROVE  call[c] \in CallRecords
<1>1. call[c] \in CallStates
    BY DEF TVTypeOK, CallStates, CallRecords
<1>2. NoCall.step = "idle"
    BY DEF NoCall
<1>3. \A r : Refused(r).step = "done" /\ Refused(r).answer = r
    BY DEF Refused
<1>. QED BY <1>1, <1>2, <1>3 DEF CallStates

\* A call that passed has a whole record.
LEMMA PassedCall ==
    ASSUME TVTypeOK, NEW c \in Passed
    PROVE  c \in Calls /\ call[c] \in CallRecords
<1>1. c \in Calls
    BY DEF Passed
<1>2. \/ call[c].step \notin {"idle", "done"}
      \/ call[c].step = "done" /\ call[c].answer \notin Refusals
    BY DEF Passed, Refusals
<1>. QED BY <1>1, <1>2, CallOf

\* The constants and the bounds are natural numbers and finite sets.
LEMMA TVNumbers ==
           /\ Cardinality(Calls) \in Nat
           /\ MaxTime \in Nat /\ MaxFaults \in Nat /\ Window \in Nat \ {0}
           /\ Amounts \subseteq Nat \ {0}
           /\ Objects = 1 .. Cardinality(Calls)
           /\ IsFiniteSet(Calls) /\ IsFiniteSet(Tenants)
    BY TenantVelocityAssumption, EnvironmentAssumption, FS_CardinalityType DEF Objects

\* What a call came with stays with it.
Carries(c) ==
    /\ call[c] \in CallRecords /\ call'[c] \in CallRecords
    /\ call'[c].tenant = call[c].tenant /\ call'[c].bene = call[c].bene
    /\ call'[c].amount = call[c].amount /\ call'[c].late = call[c].late
    /\ call[c].step # "fetch" =>
          call'[c].object = call[c].object /\ call'[c].now = call[c].now

\* The other calls stay as they are.
Rest(c) ==
    /\ \A d \in Calls : d # c => call'[d] = call[d]
    /\ call' \in [Calls -> CallStates]

\* A call that gets a new state gets it alone.
LEMMA RestOf ==
    ASSUME TVTypeOK, NEW c \in Calls, NEW new, new \in CallStates, call' = [call EXCEPT ![c] = new]
    PROVE  Rest(c) /\ call'[c] = new
    BY DEF TVTypeOK, Rest, CallStates, CallRecords

\* _get_or_create_tenant_checker: a call that found none installs a checker.
LEMMA InstallDoes ==
    ASSUME TVTypeOK, NEW c \in Calls, Install(c)
    PROVE  /\ Rest(c) /\ Carries(c)
           /\ call[c].step = "install" /\ call'[c].step = "fetch"
<1>1. call[c].step = "install" /\ call' = [call EXCEPT ![c].step = "fetch"]
    BY DEF Install, CallAt, CallGoes
<1>. DEFINE new == [call[c] EXCEPT !.step = "fetch"]
<1>2. call[c] \in CallRecords
    BY <1>1, CallOf
<1>3. new \in CallRecords /\ new.step = "fetch"
    BY <1>2 DEF CallRecords, CallSteps
<1>4. /\ new.tenant = call[c].tenant /\ new.bene = call[c].bene
      /\ new.amount = call[c].amount /\ new.object = call[c].object
      /\ new.late = call[c].late /\ new.now = call[c].now
    BY <1>2 DEF CallRecords
<1>5. call' = [call EXCEPT ![c] = new]
    BY <1>1
<1>. HIDE DEF new
<1>6. Rest(c) /\ call'[c] = new
    BY <1>3, <1>5, RestOf DEF CallStates
<1>. QED BY <1>1, <1>2, <1>3, <1>4, <1>6 DEF Carries

\* _get_or_create_tenant_checker: a call in memory gets the object the dictionary holds.
LEMMA FetchDoes ==
    ASSUME TVTypeInv, NEW c \in Calls, Fetch(c)
    PROVE  /\ Rest(c) /\ Carries(c)
           /\ call[c].step = "fetch" /\ call'[c].step = "check"
           /\ call'[c].object = checkers[call'[c].tenant] /\ call'[c].object # NoObject
<1>0. TVTypeOK /\ Armed
    BY DEF TVTypeInv
<1>1. /\ call[c].step = "fetch" /\ ~ Redis
      /\ call' = [call EXCEPT ![c].step = "check",
                              ![c].object = checkers[call[c].tenant]]
    BY DEF Fetch, CallAt
<1>2. call[c] \in CallRecords
    BY <1>0, <1>1, CallOf
<1>3. PICK o \in Objects : o = checkers[call[c].tenant] /\ o # NoObject
    <2>1. call[c].tenant \in Tenants /\ checkers[call[c].tenant] # NoObject
        BY <1>0, <1>1, <1>2 DEF CallRecords, Armed, CallAt
    <2>. QED BY <1>0, <2>1 DEF TVTypeOK
<1>. DEFINE new == [call[c] EXCEPT !.step = "check", !.object = o]
<1>4. new \in CallRecords /\ new.step = "check" /\ new.object = o
    BY <1>2 DEF CallRecords, CallSteps
<1>5. /\ new.tenant = call[c].tenant /\ new.bene = call[c].bene
      /\ new.amount = call[c].amount /\ new.late = call[c].late
    BY <1>2 DEF CallRecords
<1>6. call' = [call EXCEPT ![c] = new]
    BY <1>1, <1>3
<1>. HIDE DEF new
<1>7. Rest(c) /\ call'[c] = new
    BY <1>0, <1>4, <1>6, RestOf DEF CallStates
<1>. QED BY <1>1, <1>2, <1>3, <1>4, <1>5, <1>7 DEF Carries

\* atomic_check_and_add: a call with Redis reads the clock before it sends the script.
LEMMA ReadClockDoes ==
    ASSUME TVTypeOK, NEW c \in Calls, ReadClock(c)
    PROVE  /\ Rest(c) /\ Carries(c) /\ Redis
           /\ call[c].step = "fetch" /\ call'[c].step = "check"
           /\ call'[c].object = call[c].object
<1>1. /\ call[c].step = "fetch" /\ Redis
      /\ call' = [call EXCEPT ![c].step = "check", ![c].now = clock]
    BY DEF ReadClock, CallAt
<1>. DEFINE new == [call[c] EXCEPT !.step = "check", !.now = clock]
<1>2. call[c] \in CallRecords
    BY <1>1, CallOf
<1>3. new \in CallRecords /\ new.step = "check"
    <2>1. clock \in 0 .. MaxTime
        BY DEF TVTypeOK, EnvironmentOK
    <2>. QED BY <1>2, <2>1 DEF CallRecords, CallSteps
<1>4. /\ new.tenant = call[c].tenant /\ new.bene = call[c].bene
      /\ new.amount = call[c].amount /\ new.object = call[c].object
      /\ new.late = call[c].late
    BY <1>2 DEF CallRecords
<1>5. call' = [call EXCEPT ![c] = new]
    BY <1>1
<1>. HIDE DEF new
<1>6. Rest(c) /\ call'[c] = new
    BY <1>3, <1>5, RestOf DEF CallStates
<1>. QED BY <1>1, <1>2, <1>3, <1>4, <1>6 DEF Carries

\* A call that passed is in the register, or in memory has read what to add to; with Redis
\* the reply may be lost.
LEMMA RegisterDoes ==
    ASSUME TVTypeOK, NEW c \in Calls, Register(c)
    PROVE  /\ Rest(c) /\ Carries(c)
           /\ call[c].step = "register"
           /\ \/ Redis /\ call'[c].step = "detect"
              \/ Redis /\ call'[c].step = "done" /\ call'[c].answer = "RAISED"
              \/ ~ Redis /\ call'[c].step = "write"
<1>1. call[c].step = "register"
    BY DEF Register, CallAt
<1>2. call[c] \in CallRecords
    BY <1>1, CallOf
<1>3. PICK new :
        /\ call' = [call EXCEPT ![c] = new]
        /\ \/ Redis /\ new = [call[c] EXCEPT !.step = "detect"]
           \/ Redis /\ new = [call[c] EXCEPT !.step = "done", !.answer = "RAISED"]
           \/ ~ Redis /\ new = [call[c] EXCEPT !.step = "write",
                                               !.read = registry[call[c].tenant]]
    <2>1. CASE Redis
        <3>1. CASE call' = [call EXCEPT ![c].step = "detect"]
            BY <2>1, <3>1
        <3>2. CASE call' = [call EXCEPT ![c].step = "done", ![c].answer = "RAISED"]
            BY <2>1, <3>2
        <3>. QED BY <2>1, <3>1, <3>2 DEF Register, CallGoes, Returns
    <2>2. CASE ~ Redis
        <3>1. call' = [call EXCEPT ![c].step = "write", ![c].read = registry[call[c].tenant]]
            BY <2>2 DEF Register
        <3>. QED BY <2>2, <3>1
    <2>. QED BY <2>1, <2>2
<1>4. registry[call[c].tenant] \in Nat
    BY <1>2 DEF TVTypeOK, CallRecords
<1>5. new \in CallRecords
    BY <1>2, <1>3, <1>4 DEF CallRecords, CallSteps
<1>6. /\ new.tenant = call[c].tenant /\ new.bene = call[c].bene
      /\ new.amount = call[c].amount /\ new.object = call[c].object
      /\ new.late = call[c].late /\ new.now = call[c].now
    BY <1>2, <1>3 DEF CallRecords
<1>7. \/ Redis /\ new.step = "detect"
      \/ Redis /\ new.step = "done" /\ new.answer = "RAISED"
      \/ ~ Redis /\ new.step = "write"
    BY <1>2, <1>3 DEF CallRecords
<1>8. Rest(c) /\ call'[c] = new
    BY <1>3, <1>5, RestOf DEF CallStates
<1>. QED BY <1>1, <1>2, <1>5, <1>6, <1>7, <1>8 DEF Carries

\* A call in memory writes the register back.
LEMMA WriteDoes ==
    ASSUME TVTypeOK, NEW c \in Calls, Write(c)
    PROVE  /\ Rest(c) /\ Carries(c)
           /\ call[c].step = "write" /\ call'[c].step = "detect"
<1>1. call[c].step = "write" /\ call' = [call EXCEPT ![c].step = "detect"]
    BY DEF Write, CallAt, CallGoes
<1>. DEFINE new == [call[c] EXCEPT !.step = "detect"]
<1>2. call[c] \in CallRecords
    BY <1>1, CallOf
<1>3. new \in CallRecords /\ new.step = "detect"
    BY <1>2 DEF CallRecords, CallSteps
<1>4. /\ new.tenant = call[c].tenant /\ new.bene = call[c].bene
      /\ new.amount = call[c].amount /\ new.object = call[c].object
      /\ new.late = call[c].late /\ new.now = call[c].now
    BY <1>2 DEF CallRecords
<1>5. call' = [call EXCEPT ![c] = new]
    BY <1>1
<1>. HIDE DEF new
<1>6. Rest(c) /\ call'[c] = new
    BY <1>3, <1>5, RestOf DEF CallStates
<1>. QED BY <1>1, <1>2, <1>3, <1>4, <1>6 DEF Carries

\* A call whose Redis command fails keeps its record.
LEMMA ReturnsDoes ==
    ASSUME TVTypeOK, NEW c \in Calls, call[c].step \in {"check", "register", "detect"},
           Returns(c, "RAISED")
    PROVE  /\ Rest(c) /\ Carries(c)
           /\ call'[c].step = "done" /\ call'[c].answer = "RAISED"
<1>1. call' = [call EXCEPT ![c].step = "done", ![c].answer = "RAISED"]
    BY DEF Returns
<1>. DEFINE new == [call[c] EXCEPT !.step = "done", !.answer = "RAISED"]
<1>2. call[c] \in CallRecords
    BY CallOf
<1>3. new \in CallRecords /\ new.step = "done" /\ new.answer = "RAISED"
    BY <1>2 DEF CallRecords, CallSteps
<1>4. /\ new.tenant = call[c].tenant /\ new.bene = call[c].bene
      /\ new.amount = call[c].amount /\ new.object = call[c].object
      /\ new.late = call[c].late /\ new.now = call[c].now
    BY <1>2 DEF CallRecords
<1>5. call' = [call EXCEPT ![c] = new]
    BY <1>1
<1>. HIDE DEF new
<1>6. Rest(c) /\ call'[c] = new
    BY <1>3, <1>5, RestOf DEF CallStates
<1>. QED BY <1>2, <1>3, <1>4, <1>6 DEF Carries

\* A call fails with its Redis command.
LEMMA RaiseDoes ==
    ASSUME TVTypeOK, NEW c \in Calls, Raise(c)
    PROVE  /\ Rest(c) /\ Carries(c)
           /\ call[c].step \in {"check", "register", "detect"}
           /\ call'[c].step = "done" /\ call'[c].answer = "RAISED"
    BY ReturnsDoes DEF Raise, CallAt

\* The answer of the structuring detector.
Flags(c) ==
    /\ Cardinality(Present) >= 2
    /\ DollarCap[call[c].tenant] > 0
    /\ Combined(c) > DollarCap[call[c].tenant]

\* A call that asks the detector passes, flagged or not.
LEMMA DetectDoes ==
    ASSUME TVTypeOK, NEW c \in Calls, Detect(c)
    PROVE  /\ Rest(c) /\ Carries(c)
           /\ call[c].step = "detect"
           /\ call'[c].step = "done" /\ call'[c].answer = "PASSED"
           /\ call'[c].flagged = Flags(c)
<1>. DEFINE flag == Flags(c)
            new == [call[c] EXCEPT !.step = "done", !.answer = "PASSED", !.read = 0,
                                   !.flagged = flag]
<1>1. /\ call[c].step = "detect"
      /\ call' = [call EXCEPT ![c] = new]
    BY DEF Detect, CallAt, Flags
<1>2. call[c] \in CallRecords
    BY <1>1, CallOf
<1>3. flag \in BOOLEAN
    BY DEF Flags
<1>. HIDE DEF flag
<1>4. new \in CallRecords
    BY <1>2, <1>3 DEF CallRecords, CallSteps
<1>5. new.step = "done" /\ new.answer = "PASSED" /\ new.flagged = flag
    BY <1>2 DEF CallRecords
<1>6. /\ new.tenant = call[c].tenant /\ new.bene = call[c].bene
      /\ new.amount = call[c].amount /\ new.object = call[c].object
      /\ new.late = call[c].late /\ new.now = call[c].now
    BY <1>2 DEF CallRecords
<1>. HIDE DEF new
<1>7. Rest(c) /\ call'[c] = new
    BY <1>1, <1>4, RestOf DEF CallStates
<1>. QED BY <1>1, <1>2, <1>4, <1>5, <1>6, <1>7 DEF Carries, flag

\* A screening makes a refusal, or the record of a call.
Screened(c) == {Refused("SANCTIONS")} \cup
    {d \in CallRecords :
        d.object = NoObject /\ d.step = IF Redis \/ checkers[d.tenant] # NoObject THEN "fetch" ELSE "install"}

\* The screening refuses a call or lets it find, or make, its tenant's checker.
LEMMA ScreenDoes ==
    ASSUME TVTypeOK, NEW c \in Calls, NEW t \in Tenants, NEW b \in Benes, NEW a \in Amounts,
           NEW clear \in BOOLEAN, Screen(c, t, b, a, clear)
    PROVE  /\ call[c] = NoCall /\ Rest(c) /\ call'[c] \in Screened(c)
           /\ UNCHANGED <<backend, checkers, made, window, bpi, registry, clock, faults,
                   newest>>
<1>1. /\ call[c] = NoCall
      /\ UNCHANGED <<backend, checkers, made, window, bpi, registry, clock, faults, newest>>
    BY DEF Screen
<1>. DEFINE step == IF Redis \/ checkers[t] # NoObject THEN "fetch" ELSE "install"
            new == [step |-> step,
                tenant |-> t, bene |-> b, amount |-> a, object |-> NoObject,
                now |-> 0, late |-> FALSE, read |-> 0, flagged |-> FALSE,
                answer |-> "none"]
<1>2. CASE ~ clear
    <2>1. call' = [call EXCEPT ![c] = Refused("SANCTIONS")]
        BY <1>2 DEF Screen
    <2>2. Refused("SANCTIONS") \in CallStates
        BY DEF CallStates, Refusals
    <2>3. Rest(c) /\ call'[c] = Refused("SANCTIONS")
        BY <2>1, <2>2, RestOf
    <2>. QED BY <1>1, <2>3 DEF Screened
<1>3. CASE clear
    <2>1. call' = [call EXCEPT ![c] = new]
        BY <1>3 DEF Screen
    <2>2. step \in CallSteps /\ 0 \in 0 .. MaxTime
        BY TVNumbers DEF CallSteps
    <2>3. new \in CallRecords /\ new.step = step /\ new.tenant = t /\ new.object = NoObject
        <3>. HIDE DEF step
        <3>. QED BY <2>2 DEF CallRecords
    <2>. HIDE DEF new
    <2>4. Rest(c) /\ call'[c] = new
        BY <2>1, <2>3, RestOf DEF CallStates
    <2>. QED BY <1>1, <2>3, <2>4 DEF Screened
<1>. QED BY <1>2, <1>3

\* The candidate is in the caps, and recorded.
Admits(c, t, s, now, live) ==
    /\ Verdict(c, live) = "PASSED"
    /\ window' = [window EXCEPT ![s] = live \cup {c}]
    /\ call[c] \in CallRecords /\ call'[c] \in CallRecords
    /\ call'[c].step = "register" /\ call'[c].answer = call[c].answer
    /\ call'[c].tenant = t /\ call'[c].amount = call[c].amount
    /\ call'[c].now = now /\ (call'[c].late <=> newest[t] > now)
    /\ call'[c].object = call[c].object

\* The candidate is not, and blocked.
Blocks(c, s, live) ==
    /\ window' = [window EXCEPT ![s] = live]
    /\ \E r \in Refusals : call'[c] = Refused(r)

\* It was judged, but its caller does not hear it.
Loses(c, s, live) ==
    /\ Redis
    /\ \/ window' = [window EXCEPT ![s] = live \cup {c}]
       \/ window' = [window EXCEPT ![s] = live]
    /\ Carries(c) /\ call[c].step # "fetch"
    /\ call'[c].step = "done" /\ call'[c].answer = "RAISED"

\* The time a check goes by.
CheckTime(c) == IF Redis THEN call[c].now ELSE clock

\* check_and_record: with one time and one window the candidate is admitted, blocked or lost.
LEMMA CheckDoes ==
    ASSUME TVTypeInv, NEW c \in Calls, CheckAndRecord(c)
    PROVE  /\ call[c].step = "check"
           /\ Rest(c)
           /\ UNCHANGED <<backend, checkers, made, bpi, registry>>
           /\ clock' = clock /\ faults' \in 0 .. MaxFaults
           /\ \E t \in Tenants, s \in Tenants \cup Objects, now \in 0 .. MaxTime, live \in SUBSET Calls :
                /\ t = call[c].tenant /\ s = StoreOf(c)
                /\ now = CheckTime(c) /\ live = Live(window[s], now)
                /\ Admits(c, t, s, now, live) \/ Blocks(c, s, live) \/ Loses(c, s, live)
                /\ newest' = [newest EXCEPT ![t] = IF now > @ THEN now ELSE @]
<1>0. TVTypeOK /\ Armed
    BY DEF TVTypeInv
<1>1. /\ call[c].step = "check"
      /\ UNCHANGED <<backend, checkers, made, bpi, registry>>
    BY DEF CheckAndRecord, CallAt
<1>2. call[c] \in CallRecords
    BY <1>0, <1>1, CallOf
<1>3. call[c].tenant \in Tenants
    BY <1>2 DEF CallRecords
<1>4. PICK t \in Tenants : t = call[c].tenant
    BY <1>3
<1>5. StoreOf(c) \in Tenants \cup Objects
    <2>1. CASE Redis
        BY <1>3, <2>1 DEF StoreOf
    <2>2. CASE ~ Redis
        <3>1. call[c].object # NoObject
            BY <1>0, <1>1, <2>2 DEF Armed, CallAt
        <3>. QED BY <1>2, <2>2, <3>1 DEF CallRecords, StoreOf
    <2>. QED BY <2>1, <2>2
<1>6. PICK s \in Tenants \cup Objects : s = StoreOf(c)
    BY <1>5
<1>7. CheckTime(c) \in 0 .. MaxTime
    BY <1>0, <1>2 DEF CheckTime, CallRecords, TVTypeOK, EnvironmentOK
<1>8. PICK now \in 0 .. MaxTime : now = CheckTime(c)
    BY <1>7
<1>9. Live(window[s], now) \in SUBSET Calls
    BY <1>0 DEF Live, TVTypeOK
<1>10. PICK live \in SUBSET Calls : live = Live(window[s], now)
    BY <1>9
<1>11. PICK verdict : verdict = Verdict(c, live)
    OBVIOUS
<1>12. verdict = "PASSED" \/ verdict \in Refusals
    BY <1>11 DEF Verdict, Refusals
<1>13. /\ window' = [window EXCEPT ![s] = IF verdict = "PASSED" THEN live \cup {c} ELSE live]
       /\ newest' = [newest EXCEPT ![t] = IF now > @ THEN now ELSE @]
       /\ \/ /\ call' = [call EXCEPT ![c] =
                   IF verdict = "PASSED"
                     THEN [@ EXCEPT !.step = "register", !.now = now, !.late = newest[t] > now]
                     ELSE Refused(verdict)]
             /\ UNCHANGED <<clock, faults>>
          \/ Redis /\ RedisFails /\ Returns(c, "RAISED")
    BY <1>4, <1>6, <1>8, <1>10, <1>11 DEF CheckAndRecord, CheckTime
<1>14. clock' = clock /\ faults' \in 0 .. MaxFaults
    BY <1>0, <1>13, TVNumbers DEF RedisFails, TVTypeOK, EnvironmentOK
<1>15. SUFFICES Rest(c) /\ (Admits(c, t, s, now, live) \/ Blocks(c, s, live) \/ Loses(c, s, live))
    BY <1>1, <1>4, <1>6, <1>8, <1>10, <1>13, <1>14
<1>16. CASE /\ verdict = "PASSED"
            /\ call' = [call EXCEPT ![c] = [@ EXCEPT !.step = "register", !.now = now,
                                                   !.late = newest[t] > now]]
    <2>. DEFINE late == newest[t] > now
                new == [call[c] EXCEPT !.step = "register", !.now = now, !.late = late]
    <2>1. late \in BOOLEAN
        OBVIOUS
    <2>2. call' = [call EXCEPT ![c] = new]
        BY <1>16
    <2>. HIDE DEF late
    <2>3. new \in CallRecords
        BY <1>2, <2>1 DEF CallRecords, CallSteps
    <2>4. /\ new.step = "register" /\ new.answer = call[c].answer
          /\ new.tenant = call[c].tenant /\ new.amount = call[c].amount
          /\ new.now = now /\ new.late = late /\ new.object = call[c].object
        BY <1>2 DEF CallRecords
    <2>. HIDE DEF new
    <2>5. Rest(c) /\ call'[c] = new
        BY <1>0, <2>2, <2>3, RestOf DEF CallStates
    <2>6. window' = [window EXCEPT ![s] = live \cup {c}]
        BY <1>13, <1>16
    <2>7. call'[c].late <=> newest[t] > now
        BY <2>4, <2>5 DEF late
    <2>8. Admits(c, t, s, now, live)
        BY <1>2, <1>4, <1>11, <1>16, <2>3, <2>4, <2>5, <2>6, <2>7 DEF Admits
    <2>. QED BY <2>5, <2>8
<1>17. CASE verdict # "PASSED" /\ call' = [call EXCEPT ![c] = Refused(verdict)]
    <2>1. window' = [window EXCEPT ![s] = live]
        BY <1>13, <1>17
    <2>2. verdict \in Refusals /\ Refused(verdict) \in CallStates
        BY <1>12, <1>17 DEF CallStates
    <2>3. Rest(c) /\ call'[c] = Refused(verdict)
        BY <1>0, <1>17, <2>2, RestOf
    <2>4. Blocks(c, s, live)
        BY <2>1, <2>2, <2>3 DEF Blocks
    <2>. QED BY <2>3, <2>4
<1>18. CASE Redis /\ Returns(c, "RAISED")
    <2>1. Rest(c) /\ Carries(c) /\ call'[c].step = "done" /\ call'[c].answer = "RAISED"
        BY <1>0, <1>1, <1>18, ReturnsDoes
    <2>2. \/ window' = [window EXCEPT ![s] = live \cup {c}]
          \/ window' = [window EXCEPT ![s] = live]
        BY <1>13
    <2>3. Loses(c, s, live)
        BY <1>1, <1>18, <2>1, <2>2 DEF Loses
    <2>. QED BY <2>1, <2>3
<1>. QED BY <1>13, <1>16, <1>17, <1>18

-----------------------------------------------------------------------------
(* Types. *)

\* A call that makes a checker, or does not come to it, is a maker no more.
LEMMA MakersShrink ==
    ASSUME NEW c \in Calls, Rest(c), c \in Makers \/ c \notin Makers'
    PROVE  /\ Cardinality(Makers)' <= Cardinality(Makers)
           /\ Cardinality(Makers)' \in Nat /\ Cardinality(Makers) \in Nat
           /\ c \in Makers /\ c \notin Makers' =>
                Cardinality(Makers)' + 1 <= Cardinality(Makers)
<1>1. \A d \in Calls \ {c} : d \in Makers' <=> d \in Makers
    BY DEF Rest, Makers, CallAt
<1>2. Makers \subseteq Calls /\ Makers' \subseteq Calls
    BY DEF Makers
<1>3. Makers' \subseteq Makers
    BY <1>1, <1>2
<1>4. IsFiniteSet(Makers)
    BY <1>2, TVNumbers, FS_Subset
<1>5. IsFiniteSet(Makers') /\ Cardinality(Makers') <= Cardinality(Makers)
    BY <1>3, <1>4, FS_Subset
<1>6. Cardinality(Makers') \in Nat /\ Cardinality(Makers) \in Nat
    BY <1>4, <1>5, FS_CardinalityType
<1>7. ASSUME c \in Makers, c \notin Makers'
      PROVE  Cardinality(Makers') + 1 <= Cardinality(Makers)
    <2>1. Makers' \subseteq Makers \ {c}
        BY <1>3, <1>7
    <2>2. IsFiniteSet(Makers \ {c}) /\ Cardinality(Makers \ {c}) = Cardinality(Makers) - 1
        BY <1>4, <1>7, FS_RemoveElement
    <2>3. Cardinality(Makers') <= Cardinality(Makers \ {c})
        BY <2>1, <2>2, FS_Subset
    <2>. DEFINE n == Cardinality(Makers)
                n2 == Cardinality(Makers')
    <2>4. n2 <= n - 1 /\ n \in Nat /\ n2 \in Nat
        BY <1>6, <2>2, <2>3
    <2>. HIDE DEF n, n2
    <2>5. n2 + 1 <= n
        BY <2>4
    <2>. QED BY <2>5 DEF n, n2
<1>. QED BY <1>5, <1>6, <1>7

\* There stay objects enough.
LEMMA SlotsKept ==
    ASSUME TVTypeInv, NEW c \in Calls, Rest(c), UNCHANGED made,
           c \in Makers \/ c \notin Makers'
    PROVE  Slots'
<1>1. /\ Cardinality(Makers)' <= Cardinality(Makers)
      /\ Cardinality(Makers)' \in Nat /\ Cardinality(Makers) \in Nat
    BY MakersShrink
<1>2. /\ made \in Nat /\ Cardinality(Calls) \in Nat
      /\ made + Cardinality(Makers) <= Cardinality(Calls)
    BY TVNumbers DEF TVTypeInv, TVTypeOK, Slots
<1>. DEFINE n == Cardinality(Makers)
            n2 == Cardinality(Makers)'
            N == Cardinality(Calls)
<1>3. n2 <= n /\ n \in Nat /\ n2 \in Nat /\ made \in Nat /\ N \in Nat /\ made + n <= N
    BY <1>1, <1>2
<1>. HIDE DEF n, n2, N
<1>4. made + n2 <= N
    BY <1>3
<1>. QED BY <1>4 DEF Slots, n2, N

\* The gate starts well.
LEMMA TVTypeInit ==
    ASSUME TVInit
    PROVE  TVTypeInv
<1>1. TVTypeOK
    <2>1. /\ checkers \in [Tenants -> {NoObject} \cup Objects]
          /\ window \in [Tenants \cup Objects -> SUBSET Calls]
          /\ registry \in [Tenants -> Nat]
          /\ call \in [Calls -> CallStates]
          /\ newest \in [Tenants -> 0 .. MaxTime]
          /\ made \in 0 .. Cardinality(Calls) /\ bpi \subseteq Calls /\ backend \in Backends
        BY TVNumbers DEF TVInit, CallStates
    <2>2. EnvironmentOK
        BY TVNumbers DEF TVInit, EnvironmentInit, EnvironmentOK
    <2>. QED BY <2>1, <2>2 DEF TVTypeOK, CallStates, CallRecords
<1>2. Slots
    <2>1. Makers = Calls
        BY DEF TVInit, Makers
    <2>. QED BY <2>1, TVNumbers DEF Slots, TVInit
<1>3. \A c \in Calls : call[c].step = "idle"
    BY DEF TVInit, NoCall
<1>. QED BY <1>1, <1>2, <1>3 DEF TVTypeInv, Armed, NoMemorySteps, CallAt, Passed

\* Whoever stays as it was stays in Passed, or out of it.
LEMMA PassedRest ==
    ASSUME NEW c \in Calls, Rest(c)
    PROVE  \A d \in Calls \ {c} : d \in Passed' <=> d \in Passed
    BY DEF Rest, Passed

\* Of a step of one call, only that call has to be looked at.
LEMMA ArmedKept ==
    ASSUME Armed, NEW c \in Calls, Rest(c), UNCHANGED <<backend, checkers>>,
           ~ Redis =>
              /\ call'[c].step = "fetch" => checkers[call'[c].tenant] # NoObject
              /\ call'[c].step = "check" \/ c \in Passed' => call'[c].object # NoObject
    PROVE  Armed'
<1>. SUFFICES ASSUME ~ Redis, NEW d \in Calls
              PROVE  /\ call'[d].step = "fetch" => checkers[call'[d].tenant] # NoObject
                     /\ call'[d].step = "check" \/ d \in Passed' => call'[d].object # NoObject
    BY DEF Armed, CallAt, Redis
<1>1. CASE d = c
    BY <1>1
<1>2. CASE d # c
    <2>1. call'[d] = call[d] /\ (d \in Passed' <=> d \in Passed)
        BY <1>2, PassedRest DEF Rest
    <2>. QED BY <2>1 DEF Armed, CallAt
<1>. QED BY <1>1, <1>2

\* Every step of the gate keeps the types: no call finds an object that was not made.
LEMMA TVTypeStep ==
    ASSUME TVTypeInv, [TVNext]_tvVars
    PROVE  TVTypeInv'
<1>0. TVTypeOK /\ Slots /\ Armed /\ NoMemorySteps
    BY DEF TVTypeInv
<1>a. ASSUME NEW c \in Calls, call[c].step \notin {"idle", "install"}
      PROVE  c \notin Makers
    BY <1>a DEF Makers, CallAt, NoCall
<1>b. ASSUME NEW c \in Calls, call'[c].step \notin {"idle", "install"}
      PROVE  c \notin Makers'
    BY <1>b DEF Makers, CallAt, NoCall
\* A step of one call that leaves the checkers alone.
<1>c. ASSUME NEW c \in Calls, Rest(c), UNCHANGED <<backend, checkers, made>>,
             call'[c].step \notin {"idle", "install", "fetch"},
             call'[c].step = "write" => ~ Redis,
             \/ Redis
             \/ call'[c].object # NoObject
             \/ call'[c].step = "done" /\ call'[c].answer # "PASSED"
      PROVE  Slots' /\ Armed' /\ NoMemorySteps'
    <2>1. Slots'
        BY <1>b, <1>c, SlotsKept
    <2>2. c \in Passed' => Redis \/ call'[c].object # NoObject
        BY <1>c DEF Passed
    <2>3. call'[c].step = "check" => Redis \/ call'[c].object # NoObject
        BY <1>c
    <2>4. Armed'
        BY <1>0, <1>c, <2>2, <2>3, ArmedKept
    <2>5. NoMemorySteps'
        BY <1>0, <1>c DEF Rest, NoMemorySteps, Redis
    <2>. QED BY <2>1, <2>4, <2>5
\* A call in memory that is past its fetch has its object.
<1>d. ASSUME NEW c \in Calls, call[c].step \in {"check", "register", "write", "detect"}
      PROVE  Redis \/ call[c].object # NoObject
    BY <1>0, <1>d DEF Armed, CallAt, Passed
<1>1. ASSUME NEW c \in Calls, NEW t \in Tenants, NEW b \in Benes, NEW a \in Amounts,
             NEW clear \in BOOLEAN, Screen(c, t, b, a, clear)
      PROVE  TVTypeInv'
    <2>1. /\ call[c] = NoCall /\ Rest(c) /\ call'[c] \in Screened(c)
          /\ UNCHANGED <<backend, checkers, made, window, bpi, registry, clock, faults,
                         newest>>
        BY <1>0, <1>1, ScreenDoes
    <2>2. Slots'
        <3>1. c \in Makers
            BY <2>1 DEF Makers
        <3>. QED BY <2>1, <3>1, SlotsKept
    <2>3. /\ call'[c].step = "fetch" => Redis \/ checkers[call'[c].tenant] # NoObject
          /\ Redis => call'[c].step \notin {"install", "write"}
          /\ call'[c].step # "check" /\ c \notin Passed'
        BY <2>1 DEF Screened, Refused, Passed
    <2>4. Armed' /\ NoMemorySteps'
        <3>1. Armed'
            BY <1>0, <2>1, <2>3, ArmedKept
        <3>. QED BY <1>0, <2>1, <2>3, <3>1 DEF Rest, NoMemorySteps, Redis
    <2>. QED BY <1>0, <2>1, <2>2, <2>4 DEF TVTypeInv, TVTypeOK, EnvironmentOK, Rest, CallStates, CallRecords
<1>2. ASSUME NEW c \in Calls, Install(c)
      PROVE  TVTypeInv'
    <2>1. /\ Rest(c) /\ Carries(c)
          /\ call[c].step = "install" /\ call'[c].step = "fetch"
        BY <1>0, <1>2, InstallDoes
    <2>2. /\ made' = made + 1
          /\ checkers' = [checkers EXCEPT ![call[c].tenant] = made + 1]
          /\ UNCHANGED <<backend, window, bpi, registry, clock, faults, newest>>
        BY <1>2 DEF Install
    <2>3. call[c].tenant \in Tenants /\ call'[c].tenant = call[c].tenant
        BY <2>1 DEF Carries, CallRecords
    <2>4. made + 1 \in Objects /\ Slots' /\ made' \in 0 .. Cardinality(Calls)
        <3>1. c \in Makers /\ c \notin Makers'
            BY <1>b, <2>1 DEF Makers, CallAt
        <3>2. /\ Cardinality(Makers)' + 1 <= Cardinality(Makers)
              /\ Cardinality(Makers)' \in Nat /\ Cardinality(Makers) \in Nat
            BY <2>1, <3>1, MakersShrink
        <3>3. /\ made \in Nat /\ Cardinality(Calls) \in Nat
              /\ made + Cardinality(Makers) <= Cardinality(Calls)
            BY <1>0, TVNumbers DEF TVTypeOK, Slots
        <3>. DEFINE n == Cardinality(Makers)
                    n2 == Cardinality(Makers)'
                    N == Cardinality(Calls)
        <3>4. n2 + 1 <= n /\ n \in Nat /\ n2 \in Nat /\ made \in Nat /\ N \in Nat /\ made + n <= N
            BY <3>2, <3>3
        <3>. HIDE DEF n, n2, N
        <3>5. made + 1 \in 1 .. N /\ (made + 1) + n2 <= N
            BY <3>4
        <3>6. made' \in 0 .. N /\ made' + n2 <= N
            BY <2>2, <3>5
        <3>. QED BY <3>5, <3>6 DEF Slots, n2, N, Objects
    <2>5. checkers' \in [Tenants -> {NoObject} \cup Objects]
        BY <1>0, <2>2, <2>3, <2>4 DEF TVTypeOK
    <2>6. Armed'
        <3>1. made + 1 # NoObject
            BY <2>4, TVNumbers DEF NoObject
        <3>2. \A u \in Tenants : checkers'[u] = IF u = call[c].tenant THEN made + 1 ELSE checkers[u]
            BY <1>0, <2>2 DEF TVTypeOK
        <3>a. c \notin Passed'
            BY <2>1 DEF Passed
        <3>b. ASSUME NEW d \in Calls, ~ Redis, call'[d].step = "check" \/ d \in Passed'
              PROVE  call'[d].object # NoObject
            <4>1. d # c
                BY <2>1, <3>a, <3>b
            <4>2. call'[d] = call[d] /\ (d \in Passed' <=> d \in Passed)
                BY <2>1, <4>1, PassedRest DEF Rest
            <4>. QED BY <1>0, <3>b, <4>2 DEF Armed, CallAt
        <3>. SUFFICES ASSUME NEW d \in Calls, ~ Redis, call'[d].step = "fetch"
                      PROVE  checkers'[call'[d].tenant] # NoObject
            BY <2>2, <3>b DEF Armed, CallAt, Redis
        <3>3. CASE d = c
            BY <2>3, <3>1, <3>2, <3>3
        <3>4. CASE d # c
            <4>1. call'[d] = call[d]
                BY <2>1, <3>4 DEF Rest
            <4>2. call[d].tenant \in Tenants /\ checkers[call[d].tenant] # NoObject
                <5>1. call[d] \in CallRecords
                    BY <1>0, <4>1, CallOf
                <5>. QED BY <1>0, <4>1, <5>1 DEF Armed, CallAt, CallRecords
            <4>. QED BY <3>1, <3>2, <4>1, <4>2
        <3>. QED BY <3>3, <3>4
    <2>7. NoMemorySteps'
        BY <1>0, <2>1, <2>2 DEF NoMemorySteps, Redis
    <2>. QED BY <1>0, <2>1, <2>2, <2>4, <2>5, <2>6, <2>7
         DEF TVTypeInv, TVTypeOK, EnvironmentOK, Rest, CallStates, CallRecords
<1>3. ASSUME NEW c \in Calls, ReadClock(c)
      PROVE  TVTypeInv'
    <2>1. Rest(c) /\ call[c].step = "fetch" /\ call'[c].step = "check" /\ Redis
        BY <1>0, <1>3, ReadClockDoes
    <2>2. UNCHANGED <<backend, checkers, made, window, bpi, registry, clock, faults, newest>>
        BY <1>3 DEF ReadClock
    <2>3. Slots' /\ Armed' /\ NoMemorySteps'
        BY <1>c, <2>1, <2>2
    <2>. QED BY <1>0, <2>1, <2>2, <2>3 DEF TVTypeInv, TVTypeOK, EnvironmentOK, Rest, CallStates, CallRecords
<1>f. ASSUME NEW c \in Calls, Fetch(c)
      PROVE  TVTypeInv'
    <2>1. Rest(c) /\ call'[c].step = "check" /\ call'[c].object # NoObject
        BY <1>f, FetchDoes
    <2>2. UNCHANGED <<backend, checkers, made, window, bpi, registry, clock, faults, newest>>
        BY <1>f DEF Fetch
    <2>3. Slots' /\ Armed' /\ NoMemorySteps'
        BY <1>c, <2>1, <2>2
    <2>. QED BY <1>0, <2>1, <2>2, <2>3 DEF TVTypeInv, TVTypeOK, EnvironmentOK, Rest, CallStates, CallRecords
<1>4. ASSUME NEW c \in Calls, CheckAndRecord(c)
      PROVE  TVTypeInv'
    <2>1. /\ Rest(c) /\ call[c].step = "check"
          /\ UNCHANGED <<backend, checkers, made, bpi, registry>>
          /\ clock' = clock /\ faults' \in 0 .. MaxFaults
          /\ \E t \in Tenants, s \in Tenants \cup Objects, now \in 0 .. MaxTime, live \in SUBSET Calls :
                /\ Admits(c, t, s, now, live) \/ Blocks(c, s, live) \/ Loses(c, s, live)
                /\ newest' = [newest EXCEPT ![t] = IF now > @ THEN now ELSE @]
        BY <1>4, CheckDoes
    <2>2. PICK t \in Tenants, s \in Tenants \cup Objects, now \in 0 .. MaxTime, live \in SUBSET Calls :
                /\ Admits(c, t, s, now, live) \/ Blocks(c, s, live) \/ Loses(c, s, live)
                /\ newest' = [newest EXCEPT ![t] = IF now > @ THEN now ELSE @]
        BY <2>1
    <2>3. window' \in [Tenants \cup Objects -> SUBSET Calls]
        BY <1>0, <2>2 DEF Admits, Blocks, Loses, TVTypeOK
    <2>4. newest' \in [Tenants -> 0 .. MaxTime]
        BY <1>0, <2>2 DEF TVTypeOK
    <2>5. \/ call'[c].step = "register" /\ call'[c].object = call[c].object
          \/ call'[c].step = "done" /\ call'[c].answer # "PASSED"
        <3>1. CASE Admits(c, t, s, now, live)
            BY <3>1 DEF Admits
        <3>2. CASE Blocks(c, s, live)
            BY <3>2 DEF Blocks, Refused, Refusals
        <3>3. CASE Loses(c, s, live)
            BY <3>3 DEF Loses
        <3>. QED BY <2>2, <3>1, <3>2, <3>3
    <2>6. Slots' /\ Armed' /\ NoMemorySteps'
        BY <1>c, <1>d, <2>1, <2>5
    <2>. QED BY <1>0, <2>1, <2>3, <2>4, <2>6
         DEF TVTypeInv, TVTypeOK, EnvironmentOK, Rest, CallStates, CallRecords
<1>5. ASSUME NEW c \in Calls, Register(c)
      PROVE  TVTypeInv'
    <2>1. /\ Rest(c) /\ call[c].step = "register" /\ Carries(c)
          /\ \/ Redis /\ call'[c].step = "detect"
             \/ Redis /\ call'[c].step = "done" /\ call'[c].answer = "RAISED"
             \/ ~ Redis /\ call'[c].step = "write"
        BY <1>0, <1>5, RegisterDoes
    <2>2. /\ UNCHANGED <<backend, checkers, made, window, newest>>
          /\ bpi' = bpi \cup {c}
          /\ \/ registry' = [registry EXCEPT ![call[c].tenant] = @ + call[c].amount]
             \/ registry' = registry
          /\ UNCHANGED <<clock, faults>> \/ RedisFails
        BY <1>5 DEF Register
    <2>5. clock' = clock /\ faults' \in 0 .. MaxFaults
        BY <1>0, <2>2, TVNumbers DEF RedisFails, TVTypeOK, EnvironmentOK
    <2>3. Slots' /\ Armed' /\ NoMemorySteps'
        <3>1. Redis \/ call'[c].object # NoObject
            BY <1>d, <2>1 DEF Carries
        <3>. QED BY <1>c, <2>1, <2>2, <3>1
    <2>4. registry' \in [Tenants -> Nat]
        <3>1. call[c].tenant \in Tenants /\ call[c].amount \in Nat
            BY <2>1, TVNumbers DEF Carries, CallRecords
        <3>2. registry[call[c].tenant] + call[c].amount \in Nat
            BY <1>0, <3>1 DEF TVTypeOK
        <3>. QED BY <1>0, <2>2, <3>1, <3>2 DEF TVTypeOK
    <2>. QED BY <1>0, <2>1, <2>2, <2>3, <2>4, <2>5
         DEF TVTypeInv, TVTypeOK, EnvironmentOK, Rest, CallStates, CallRecords
<1>6. ASSUME NEW c \in Calls, Write(c)
      PROVE  TVTypeInv'
    <2>1. Rest(c) /\ call[c].step = "write" /\ call'[c].step = "detect" /\ Carries(c)
        BY <1>0, <1>6, WriteDoes
    <2>2. /\ UNCHANGED <<backend, checkers, made, window, bpi, clock, faults, newest>>
          /\ registry' = [registry EXCEPT ![call[c].tenant] = call[c].read + call[c].amount]
        BY <1>6 DEF Write
    <2>3. Slots' /\ Armed' /\ NoMemorySteps'
        BY <1>c, <1>d, <2>1, <2>2 DEF Carries
    <2>4. registry' \in [Tenants -> Nat]
        <3>1. call[c].read \in Nat /\ call[c].amount \in Nat
            BY <2>1, TVNumbers DEF Carries, CallRecords
        <3>2. call[c].read + call[c].amount \in Nat
            BY <3>1
        <3>. QED BY <1>0, <2>2, <3>2 DEF TVTypeOK
    <2>. QED BY <1>0, <2>1, <2>2, <2>3, <2>4
         DEF TVTypeInv, TVTypeOK, EnvironmentOK, Rest, CallStates, CallRecords
<1>7. ASSUME NEW c \in Calls, Detect(c)
      PROVE  TVTypeInv'
    <2>1. Rest(c) /\ Carries(c) /\ call[c].step = "detect" /\ call'[c].step = "done"
        BY <1>0, <1>7, DetectDoes
    <2>2. UNCHANGED <<backend, checkers, made, window, bpi, registry, clock, faults, newest>>
        BY <1>7 DEF Detect
    <2>3. Slots' /\ Armed' /\ NoMemorySteps'
        BY <1>c, <1>d, <2>1, <2>2 DEF Carries
    <2>. QED BY <1>0, <2>1, <2>2, <2>3 DEF TVTypeInv, TVTypeOK, EnvironmentOK, Rest, CallStates, CallRecords
<1>8. ASSUME NEW c \in Calls, Raise(c)
      PROVE  TVTypeInv'
    <2>1. Rest(c) /\ call'[c].step = "done" /\ call'[c].answer = "RAISED"
        BY <1>0, <1>8, RaiseDoes
    <2>2. /\ UNCHANGED <<backend, checkers, made, window, registry, clock, newest>>
          /\ bpi' = bpi \/ bpi' = bpi \cup {c}
          /\ faults < MaxFaults /\ faults' = faults + 1
        BY <1>8 DEF Raise, RedisFails
    <2>3. Slots' /\ Armed' /\ NoMemorySteps'
        BY <1>c, <2>1, <2>2
    <2>4. faults' \in 0 .. MaxFaults
        BY <1>0, <2>2, TVNumbers DEF TVTypeOK, EnvironmentOK
    <2>. QED BY <1>0, <2>1, <2>2, <2>3, <2>4
         DEF TVTypeInv, TVTypeOK, EnvironmentOK, Rest, CallStates, CallRecords
<1>9. CASE TVTick
    <2>1. /\ UNCHANGED <<backend, checkers, made, window, bpi, registry, call, newest, faults>>
          /\ clock < MaxTime /\ clock' = clock + 1
        BY <1>9 DEF TVTick, TimePasses
    <2>2. clock' \in 0 .. MaxTime
        BY <1>0, <2>1, TVNumbers DEF TVTypeOK, EnvironmentOK
    <2>3. Slots' /\ Armed' /\ NoMemorySteps'
        BY <1>0, <2>1 DEF Slots, Makers, Armed, NoMemorySteps, CallAt, Redis, Passed
    <2>. QED BY <1>0, <2>1, <2>2, <2>3 DEF TVTypeInv, TVTypeOK, EnvironmentOK
<1>10. CASE UNCHANGED tvVars
    BY <1>0, <1>10 DEF tvVars, TVTypeInv, TVTypeOK, EnvironmentOK, Slots, Makers, Armed,
                       NoMemorySteps, CallAt, Redis, Passed
<1>. QED BY <1>1, <1>2, <1>3, <1>f, <1>4, <1>5, <1>6, <1>7, <1>8, <1>9, <1>10 DEF TVNext, Step

\* The checkers, windows, register and calls of the AML gate have their types, and in memory
\* a call that comes to its check finds a checker, whoever else makes one
\* (aml_checker.py:391-401).
THEOREM TVTypeCorrect == TVSpec => [](TVTypeOK /\ Armed)
<1>1. TVInit => TVTypeInv
    BY TVTypeInit
<1>2. TVTypeInv /\ [TVNext]_tvVars => TVTypeInv'
    BY TVTypeStep
<1>3. TVTypeInv => TVTypeOK /\ Armed
    BY DEF TVTypeInv
<1>. QED BY <1>1, <1>2, <1>3, PTL DEF TVSpec

-----------------------------------------------------------------------------
(* Sums of amounts. *)

\* The amounts of some calls are summed like those of all, over fewer.
LEMMA AmountsOnSet ==
    ASSUME NEW f, NEW S, S \subseteq Calls
    PROVE  SumFunction([d \in S |-> f[d].amount])
             = SumFunctionOnSet([d \in Calls |-> f[d].amount], S)
<1>. DEFINE g == [d \in S |-> f[d].amount]
            h == [d \in Calls |-> f[d].amount]
<1>1. IsFiniteSet(S)
    BY TVNumbers, FS_Subset
<1>2. \A d \in S : g[d] = h[d]
    OBVIOUS
<1>3. SumFunction(g) = SumFunctionOnSet(g, S)
    BY DEF SumFunction
<1>. HIDE DEF g, h
<1>4. SumFunctionOnSet(g, S) = SumFunctionOnSet(h, S)
    BY <1>1, <1>2, SumSame
<1>. QED BY <1>3, <1>4 DEF g, h

\* Some of the amounts, as they are later, sum to no more.
LEMMA AmountsLess ==
    ASSUME NEW f, NEW g, NEW S, S \subseteq Calls, NEW P, P \subseteq S,
           \A d \in S : f[d].amount \in Nat,
           \A d \in P : g[d].amount = f[d].amount
    PROVE  /\ SumFunction([d \in P |-> g[d].amount]) <= SumFunction([d \in S |-> f[d].amount])
           /\ SumFunction([d \in P |-> g[d].amount]) \in Nat
           /\ SumFunction([d \in S |-> f[d].amount]) \in Nat
<1>. DEFINE F == [d \in Calls |-> f[d].amount]
            G == [d \in Calls |-> g[d].amount]
<1>1. IsFiniteSet(S) /\ IsFiniteSet(P) /\ P \subseteq Calls
    BY TVNumbers, FS_Subset
<1>2. /\ SumFunction([d \in P |-> g[d].amount]) = SumFunctionOnSet(G, P)
      /\ SumFunction([d \in S |-> f[d].amount]) = SumFunctionOnSet(F, S)
    BY <1>1, AmountsOnSet
<1>3. (\A d \in S : F[d] \in Nat) /\ (\A d \in P : F[d] \in Nat) /\ (\A d \in P : G[d] = F[d])
    BY <1>1
<1>. HIDE DEF F, G
<1>4. SumFunctionOnSet(G, P) = SumFunctionOnSet(F, P)
    BY <1>1, <1>3, SumSame
<1>5. SumFunctionOnSet(F, P) <= SumFunctionOnSet(F, S)
    BY <1>1, <1>3, SumMonotone
<1>6. SumFunctionOnSet(F, P) \in Nat /\ SumFunctionOnSet(F, S) \in Nat
    BY <1>1, <1>3, SumType
<1>. QED BY <1>2, <1>4, <1>5, <1>6

\* One more call adds its amount.
LEMMA AmountAdded ==
    ASSUME NEW f, NEW S, S \subseteq Calls, NEW c \in Calls, c \notin S,
           \A d \in S \cup {c} : f[d].amount \in Nat
    PROVE  SumFunction([d \in S \cup {c} |-> f[d].amount])
             = SumFunction([d \in S |-> f[d].amount]) + f[c].amount
<1>. DEFINE F == [d \in Calls |-> f[d].amount]
<1>1. IsFiniteSet(S) /\ S \cup {c} \subseteq Calls
    BY TVNumbers, FS_Subset
<1>2. /\ SumFunction([d \in S \cup {c} |-> f[d].amount]) = SumFunctionOnSet(F, S \cup {c})
      /\ SumFunction([d \in S |-> f[d].amount]) = SumFunctionOnSet(F, S)
    BY <1>1, AmountsOnSet
<1>3. (\A d \in S \cup {c} : F[d] \in Nat) /\ F[c] = f[c].amount
    BY <1>1
<1>. HIDE DEF F
<1>4. SumFunctionOnSet(F, S \cup {c}) = SumFunctionOnSet(F, S) + F[c]
    BY <1>1, <1>3, SumAdd
<1>. QED BY <1>2, <1>3, <1>4

-----------------------------------------------------------------------------
(* The caps of the rolling window. *)

\* A call is in a window from the check on.
Recorded == {"register", "write", "detect", "done"}

\* What is in a window is a call that was recorded there.
WindowRecords ==
    \A s \in Tenants \cup Objects : \A d \in window[s] :
        call[d] \in CallRecords /\ call[d].step \in Recorded

\* The calls that got an object, which is in memory.
Holders == {d \in Calls : call[d] \in CallRecords /\ call[d].object # NoObject}

\* An object is the checker of one tenant, and only its calls hold it.
Own ==
    /\ \A t \in Tenants : checkers[t] <= made
    /\ \A t, u \in Tenants : checkers[t] = checkers[u] /\ checkers[t] # NoObject => t = u
    /\ \A d \in Holders :
          /\ call[d].object \in 1 .. made
          /\ \A t \in Tenants : call[d].object = checkers[t] => call[d].tenant = t
          /\ \A e \in Holders : call[d].object = call[e].object => call[d].tenant = call[e].tenant

\* The window a call that passed was recorded in.
Home(d) == IF Redis THEN call[d].tenant ELSE call[d].object

\* A call that passed is in its window until a check went by it.
WindowHolds ==
    \A d \in Passed :
        call[d].now + Window > newest[call[d].tenant] => d \in window[Home(d)]

\* The calls of a tenant that are in the rolling window which ends at some time.
Inside(t, end) ==
    {c \in Passed : call[c].tenant = t /\ ~ call[c].late
                    /\ call[c].now <= end /\ call[c].now + Window > end}

\* They are within the tenant's caps.
InCaps(t, end) ==
    /\ DollarCap[t] > 0 => SumOf(Inside(t, end)) <= DollarCap[t]
    /\ CountCap[t] > 0 => Cardinality(Inside(t, end)) <= CountCap[t]

\* The windows hold what lives, the objects are of one tenant each, and the caps are kept.
CapInv == WindowRecords /\ Own /\ WindowHolds /\ RollingCap

\* The property, part by part.
LEMMA RollingCapIs ==
    RollingCap <=> \A t \in Tenants, end \in 0 .. MaxTime : Redis \/ OneChecker(t) => InCaps(t, end)
    BY DEF RollingCap, InCaps, Inside

\* A step after which no call has passed that had not, and in memory the same.
NonePasses ==
    /\ UNCHANGED backend
    /\ Passed' \subseteq Passed
    /\ ~ Redis => Passed \subseteq Passed'
    /\ \A d \in Passed' :
          /\ call'[d].tenant = call[d].tenant /\ call'[d].amount = call[d].amount
          /\ call'[d].object = call[d].object /\ call'[d].now = call[d].now
          /\ call'[d].late = call[d].late

\* Where no call passes that had not, no window sums to more than it did.
LEMMA NonePassesKeepsCap ==
    ASSUME TVTypeInv, RollingCap, NonePasses
    PROVE  RollingCap'
<1>. SUFFICES ASSUME NEW t \in Tenants, NEW end \in 0 .. MaxTime, (Redis \/ OneChecker(t))'
              PROVE  InCaps(t, end)'
    BY DEF RollingCap, InCaps, Inside
<1>1. Redis \/ OneChecker(t)
    <2>1. CASE Redis'
        BY <2>1 DEF NonePasses, Redis
    <2>2. CASE OneChecker(t)' /\ ~ Redis
        <3>1. Passed' = Passed
            BY <2>2 DEF NonePasses
        <3>2. \A d \in Passed : call'[d].tenant = call[d].tenant /\ call'[d].object = call[d].object
            BY <3>1 DEF NonePasses
        <3>. QED BY <2>2, <3>1, <3>2 DEF OneChecker
    <2>. QED BY <2>1, <2>2
<1>2. InCaps(t, end)
    BY <1>1, RollingCapIs
<1>3. /\ Inside(t, end)' \subseteq Inside(t, end)
      /\ \A d \in Inside(t, end)' : call'[d].amount = call[d].amount
    BY DEF Inside, NonePasses
<1>4. \A d \in Inside(t, end) : d \in Calls /\ call[d].amount \in Nat
    BY PassedCall, TVNumbers DEF Inside, TVTypeInv, CallRecords
<1>5. /\ SumOf(Inside(t, end))' <= SumOf(Inside(t, end))
      /\ SumOf(Inside(t, end))' \in Nat /\ SumOf(Inside(t, end)) \in Nat
    <2>. DEFINE P == Inside(t, end)'
                S == Inside(t, end)
    <2>1. P \subseteq S /\ S \subseteq Calls /\ (\A d \in P : call'[d].amount = call[d].amount)
          /\ \A d \in S : call[d].amount \in Nat
        BY <1>3, <1>4
    <2>. HIDE DEF P, S
    <2>2. /\ SumFunction([d \in P |-> call'[d].amount]) <= SumFunction([d \in S |-> call[d].amount])
          /\ SumFunction([d \in P |-> call'[d].amount]) \in Nat
          /\ SumFunction([d \in S |-> call[d].amount]) \in Nat
        BY <2>1, AmountsLess
    <2>. QED BY <2>2 DEF SumOf, P, S
<1>6. /\ Cardinality(Inside(t, end)') <= Cardinality(Inside(t, end))
      /\ Cardinality(Inside(t, end)') \in Nat /\ Cardinality(Inside(t, end)) \in Nat
    <2>1. IsFiniteSet(Inside(t, end))
        BY <1>4, TVNumbers, FS_Subset
    <2>. QED BY <1>3, <2>1, FS_Subset, FS_CardinalityType
<1>7. DollarCap[t] \in Nat /\ CountCap[t] \in Nat
    BY TenantVelocityAssumption
<1>. DEFINE m == SumOf(Inside(t, end))
            m2 == SumOf(Inside(t, end))'
            n == Cardinality(Inside(t, end))
            n2 == Cardinality(Inside(t, end)')
<1>8. /\ DollarCap[t] > 0 => m <= DollarCap[t]
      /\ CountCap[t] > 0 => n <= CountCap[t]
      /\ m2 <= m /\ m \in Nat /\ m2 \in Nat /\ n2 <= n /\ n \in Nat /\ n2 \in Nat
    BY <1>2, <1>5, <1>6 DEF InCaps
<1>. HIDE DEF m, m2, n, n2
<1>9. (DollarCap[t] > 0 => m2 <= DollarCap[t]) /\ (CountCap[t] > 0 => n2 <= CountCap[t])
    BY <1>7, <1>8
<1>. QED BY <1>9 DEF InCaps, m2, n2

\* A step of a call other than its check.
Advances(c) == Install(c) \/ Fetch(c) \/ ReadClock(c) \/ Register(c) \/ Write(c) \/ Detect(c) \/ Raise(c)

\* What all those steps have in common: the call keeps what it came with, and passes no
\* earlier and, in memory, no later than it did.
LEMMA AdvanceDoes ==
    ASSUME TVTypeInv, NEW c \in Calls, Advances(c)
    PROVE  /\ Rest(c) /\ Carries(c)
           /\ UNCHANGED <<backend, window, newest>>
           /\ c \in Passed' => c \in Passed
           /\ c \in Passed /\ ~ Redis => c \in Passed'
           /\ c \in Passed => call[c].step # "fetch"
           /\ call[c].step \in Recorded => call'[c].step \in Recorded
<1>0. TVTypeOK
    BY DEF TVTypeInv
<1>1. UNCHANGED <<backend, window, newest>>
    BY DEF Advances, Install, Fetch, ReadClock, Register, Write, Detect, Raise
<1>. USE DEF Passed, Recorded
<1>2. CASE Install(c)
    BY <1>0, <1>1, <1>2, InstallDoes
<1>3. CASE ReadClock(c) \/ Fetch(c)
    BY <1>0, <1>1, <1>3, ReadClockDoes, FetchDoes
<1>4. CASE Register(c)
    <2>1. /\ Rest(c) /\ Carries(c) /\ call[c].step = "register"
          /\ \/ call'[c].step \in {"detect", "write"}
             \/ Redis /\ call'[c].step = "done" /\ call'[c].answer = "RAISED"
        BY <1>0, <1>4, RegisterDoes
    <2>. QED BY <1>1, <2>1
<1>5. CASE Write(c)
    BY <1>0, <1>1, <1>5, WriteDoes
<1>6. CASE Detect(c)
    <2>1. /\ Rest(c) /\ Carries(c) /\ call[c].step = "detect"
          /\ call'[c].step = "done" /\ call'[c].answer = "PASSED"
        BY <1>0, <1>6, DetectDoes
    <2>. QED BY <1>1, <2>1
<1>7. CASE Raise(c)
    <2>1. /\ Rest(c) /\ Carries(c)
          /\ call[c].step \in {"check", "register", "detect"}
          /\ call'[c].step = "done" /\ call'[c].answer = "RAISED"
        BY <1>0, <1>7, RaiseDoes
    <2>2. Redis
        BY <1>7 DEF Raise
    <2>. QED BY <1>1, <2>1, <2>2
<1>. QED BY <1>2, <1>3, <1>4, <1>5, <1>6, <1>7 DEF Advances

\* They let no call pass.
LEMMA AdvanceIsQuiet ==
    ASSUME TVTypeInv, NEW c \in Calls, Advances(c)
    PROVE  NonePasses
<1>1. /\ Rest(c) /\ Carries(c) /\ UNCHANGED backend
      /\ c \in Passed' => c \in Passed
      /\ c \in Passed /\ ~ Redis => c \in Passed'
      /\ c \in Passed => call[c].step # "fetch"
    BY AdvanceDoes
<1>2. Passed \subseteq Calls /\ Passed' \subseteq Calls
    BY DEF Passed
<1>3. \A d \in Calls \ {c} : d \in Passed' <=> d \in Passed
    BY <1>1, PassedRest
<1>4. Passed' \subseteq Passed
    BY <1>1, <1>2, <1>3
<1>5. ~ Redis => Passed \subseteq Passed'
    BY <1>1, <1>2, <1>3
<1>6. ASSUME NEW d \in Passed'
      PROVE  /\ call'[d].tenant = call[d].tenant /\ call'[d].amount = call[d].amount
             /\ call'[d].object = call[d].object /\ call'[d].now = call[d].now
             /\ call'[d].late = call[d].late
    <2>1. CASE d = c
        BY <1>1, <2>1 DEF Carries
    <2>2. CASE d # c
        BY <1>1, <1>2, <2>2 DEF Rest
    <2>. QED BY <2>1, <2>2
<1>. QED BY <1>1, <1>4, <1>5, <1>6 DEF NonePasses

\* What such a step keeps of the windows.
LEMMA QuietKeepsWindows ==
    ASSUME WindowHolds, NonePasses, UNCHANGED <<window, newest>>
    PROVE  WindowHolds'
<1>. SUFFICES ASSUME NEW d \in Passed', call'[d].now + Window > newest'[call'[d].tenant]
              PROVE  d \in window'[Home(d)']
    BY DEF WindowHolds
<1>1. /\ d \in Passed /\ call'[d].now = call[d].now /\ call'[d].tenant = call[d].tenant
      /\ call'[d].object = call[d].object /\ Home(d)' = Home(d)
    BY DEF NonePasses, Home, Redis
<1>. QED BY <1>1 DEF WindowHolds

\* Who holds an object has it, and no call gets one.
NoneGets ==
    \A d \in Holders' : /\ d \in Holders
                        /\ call'[d].object = call[d].object /\ call'[d].tenant = call[d].tenant

\* So it is when the call keeps its object, or is no holder any more.
LEMMA KeepsObjects ==
    ASSUME NEW c \in Calls, Rest(c),
           c \in Holders' => /\ c \in Holders
                             /\ call'[c].object = call[c].object
                             /\ call'[c].tenant = call[c].tenant
    PROVE  NoneGets
<1>1. ASSUME NEW d \in Holders', d # c
      PROVE  d \in Holders /\ call'[d] = call[d]
    BY <1>1 DEF Holders, Rest
<1>. QED BY <1>1 DEF NoneGets

\* Who owns an object stays.
LEMMA QuietKeepsOwn ==
    ASSUME Own, NoneGets, UNCHANGED <<checkers, made>>
    PROVE  Own'
<1>1. ASSUME NEW d \in Holders'
      PROVE  /\ call'[d].object \in 1 .. made
             /\ \A t \in Tenants : call'[d].object = checkers[t] => call'[d].tenant = t
             /\ \A e \in Holders' : call'[d].object = call'[e].object => call'[d].tenant = call'[e].tenant
    BY <1>1 DEF NoneGets, Own
<1>. QED BY <1>1 DEF Own

\* A new checker is nobody's yet.
LEMMA InstallKeepsOwn ==
    ASSUME TVTypeInv, Own, NEW c \in Calls, Install(c), NoneGets
    PROVE  Own'
<1>0. /\ made' = made + 1 /\ made \in Nat
      /\ checkers' = [checkers EXCEPT ![call[c].tenant] = made + 1]
      /\ checkers \in [Tenants -> {NoObject} \cup Objects]
    BY TVNumbers DEF Install, TVTypeInv, TVTypeOK
<1>1. \A t \in Tenants : checkers'[t] = IF t = call[c].tenant THEN made + 1 ELSE checkers[t]
    BY <1>0
<1>2. \A t \in Tenants : checkers[t] \in Nat /\ checkers[t] <= made
    BY <1>0, TVNumbers DEF Own, NoObject
<1>3. \A t \in Tenants : checkers'[t] <= made'
    BY <1>0, <1>1, <1>2
<1>4. ASSUME NEW t \in Tenants, NEW u \in Tenants, checkers'[t] = checkers'[u], checkers'[t] # NoObject
      PROVE  t = u
    <2>1. checkers[t] # made + 1 /\ checkers[u] # made + 1
        BY <1>0, <1>2
    <2>2. \A v, w \in Tenants : checkers[v] = checkers[w] /\ checkers[v] # NoObject => v = w
        BY DEF Own
    <2>. QED BY <1>1, <1>4, <2>1, <2>2
<1>5. ASSUME NEW d \in Holders'
      PROVE  /\ call'[d].object \in 1 .. made'
             /\ \A t \in Tenants : call'[d].object = checkers'[t] => call'[d].tenant = t
             /\ \A e \in Holders' : call'[d].object = call'[e].object => call'[d].tenant = call'[e].tenant
    <2>1. d \in Holders /\ call'[d].tenant = call[d].tenant /\ call'[d].object = call[d].object
        BY <1>5 DEF NoneGets
    <2>2. /\ call[d].object \in 1 .. made
          /\ \A t \in Tenants : call[d].object = checkers[t] => call[d].tenant = t
        BY <2>1 DEF Own
    <2>3. call[d].object \in 1 .. made' /\ call[d].object # made + 1
        BY <1>0, <2>2
    <2>4. \A e \in Holders' : call'[d].object = call'[e].object => call'[d].tenant = call'[e].tenant
        BY <1>5 DEF NoneGets, Own
    <2>. QED BY <1>1, <2>1, <2>2, <2>3, <2>4
<1>. QED BY <1>3, <1>4, <1>5 DEF Own

\* A call gets the object of its own tenant.
LEMMA FetchKeepsOwn ==
    ASSUME TVTypeInv, Own, NEW c \in Calls, Fetch(c)
    PROVE  Own'
<1>0. UNCHANGED <<checkers, made>> /\ TVTypeOK
    BY DEF Fetch, TVTypeInv
<1>1. /\ Rest(c) /\ call'[c] \in CallRecords
      /\ call'[c].object = checkers[call'[c].tenant] /\ call'[c].object # NoObject
    BY FetchDoes DEF Carries
<1>2. PICK t \in Tenants : t = call'[c].tenant
    BY <1>1 DEF CallRecords
<1>3. checkers[t] \in 1 .. made
    <2>1. checkers[t] \in 1 .. Cardinality(Calls) /\ Cardinality(Calls) \in Nat /\ made \in Nat
        BY <1>0, <1>1, <1>2, TVNumbers DEF TVTypeOK
    <2>. QED BY <2>1 DEF Own
<1>4. \A d \in Holders' : d # c => d \in Holders /\ call'[d] = call[d]
    BY <1>1 DEF Holders, Rest
<1>5. \A u \in Tenants : call'[c].object = checkers[u] => t = u
    BY <1>1, <1>2 DEF Own
<1>6. ASSUME NEW d \in Holders'
      PROVE  /\ call'[d].object \in 1 .. made
             /\ \A u \in Tenants : call'[d].object = checkers[u] => call'[d].tenant = u
    <2>1. CASE d = c
        BY <1>1, <1>2, <1>3, <1>5, <2>1
    <2>2. CASE d # c
        BY <1>4, <2>2 DEF Own
    <2>. QED BY <2>1, <2>2
<1>7. ASSUME NEW d \in Holders', NEW e \in Holders', call'[d].object = call'[e].object
      PROVE  call'[d].tenant = call'[e].tenant
    <2>1. CASE d = c \/ e = c
        BY <1>1, <1>2, <1>6, <1>7, <2>1
    <2>2. CASE d # c /\ e # c
        BY <1>4, <1>7, <2>2 DEF Own
    <2>. QED BY <2>1, <2>2
<1>. QED BY <1>0, <1>6, <1>7 DEF Own

\* What is in the windows stays recorded.
LEMMA AdvanceKeepsRecords ==
    ASSUME TVTypeInv, WindowRecords, NEW c \in Calls, Advances(c)
    PROVE  WindowRecords'
<1>1. /\ Rest(c) /\ Carries(c) /\ UNCHANGED window
      /\ call[c].step \in Recorded => call'[c].step \in Recorded
    BY AdvanceDoes
<1>2. ASSUME NEW s \in Tenants \cup Objects, NEW d \in window[s]
      PROVE  call'[d] \in CallRecords /\ call'[d].step \in Recorded
    <2>1. d \in Calls
        BY DEF TVTypeInv, TVTypeOK
    <2>2. call[d] \in CallRecords /\ call[d].step \in Recorded
        BY DEF WindowRecords
    <2>3. CASE d = c
        BY <1>1, <2>2, <2>3 DEF Carries
    <2>4. CASE d # c
        BY <1>1, <2>1, <2>2, <2>4 DEF Rest
    <2>. QED BY <2>3, <2>4
<1>. QED BY <1>1, <1>2 DEF WindowRecords

\* The check of a call passes by the windows of the other calls.
LEMMA CheckKeepsHeld ==
    ASSUME TVTypeInv, WindowHolds, Own, NEW c \in Calls, NEW t \in Tenants,
           NEW s \in Tenants \cup Objects, NEW now \in 0 .. MaxTime, NEW live,
           t = call[c].tenant, s = StoreOf(c), live = Live(window[s], now),
           call[c].step = "check",
           live \subseteq window'[s],
           \A r \in Tenants \cup Objects : r # s => window'[r] = window[r],
           newest' = [newest EXCEPT ![t] = IF now > @ THEN now ELSE @],
           NEW d \in Passed, call'[d] = call[d], UNCHANGED backend,
           call[d].now + Window > newest'[call[d].tenant]
    PROVE  d \in window'[Home(d)]
<1>0. TVTypeOK
    BY DEF TVTypeInv
<1>1. /\ d \in Calls /\ call[d].tenant \in Tenants /\ call[d].now \in 0 .. MaxTime
    BY <1>0, PassedCall DEF CallRecords
<1>2. /\ newest \in [Tenants -> 0 .. MaxTime] /\ MaxTime \in Nat /\ Window \in Nat
    BY <1>0, TVNumbers DEF TVTypeOK
<1>3. newest'[call[d].tenant] >= newest[call[d].tenant] /\ newest'[t] >= now
    BY <1>1, <1>2
<1>4. newest[call[d].tenant] \in Nat /\ newest'[call[d].tenant] \in Nat /\ call[d].now \in Nat
      /\ now \in Nat
    BY <1>1, <1>2
<1>5. call[d].now + Window > newest[call[d].tenant]
    BY <1>2, <1>3, <1>4
<1>6. d \in window[Home(d)]
    BY <1>5 DEF WindowHolds
<1>a. ~ Redis => d \in Holders
    <2>1. call[d] \in CallRecords
        BY <1>0, PassedCall
    <2>. QED BY <1>1, <2>1 DEF TVTypeInv, Armed, Holders
<1>b. ~ Redis => c \in Holders
    <2>1. call[c] \in CallRecords
        BY <1>0, CallOf
    <2>. QED BY <2>1 DEF TVTypeInv, Armed, CallAt, Holders
<1>7. Home(d) \in Tenants \cup Objects
    <2>1. CASE Redis
        BY <1>1, <2>1 DEF Home
    <2>2. CASE ~ Redis
        <3>1. call[d].object \in 1 .. made
            BY <1>a, <2>2 DEF Own
        <3>2. made \in 0 .. Cardinality(Calls) /\ Cardinality(Calls) \in Nat
            BY <1>0, TVNumbers DEF TVTypeOK
        <3>. QED BY <2>2, <3>1, <3>2, TVNumbers DEF Home
    <2>. QED BY <2>1, <2>2
<1>8. CASE Home(d) # s
    BY <1>6, <1>7, <1>8
<1>9. CASE Home(d) = s
    <2>1. call[d].tenant = t
        <3>1. CASE Redis
            BY <1>9, <3>1 DEF Home, StoreOf
        <3>2. CASE ~ Redis
            <4>1. call[d].object = call[c].object
                BY <1>9, <3>2 DEF Home, StoreOf
            <4>. QED BY <1>a, <1>b, <3>2, <4>1 DEF Own
        <3>. QED BY <3>1, <3>2
    <2>2. call[d].now + Window > now
        BY <1>2, <1>3, <1>4, <2>1
    <2>3. call[d].now + Window >= now
        BY <1>2, <1>4, <2>2
    <2>4. d \in Live(window[s], now)
        BY <1>6, <1>9, <2>2, <2>3 DEF Live
    <2>. QED BY <1>9, <2>4
<1>. QED BY <1>8, <1>9

\* Neither does a step whose call has not passed before or after it.
LEMMA BlockedIsQuiet ==
    ASSUME NEW c \in Calls, Rest(c), UNCHANGED backend, c \notin Passed, c \notin Passed'
    PROVE  NonePasses
<1>1. \A d \in Calls \ {c} : d \in Passed' <=> d \in Passed
    BY PassedRest
<1>2. Passed \subseteq Calls /\ Passed' \subseteq Calls
    BY DEF Passed
<1>3. Passed' = Passed
    BY <1>1, <1>2
<1>4. \A d \in Passed' : call'[d] = call[d]
    BY <1>2 DEF Rest
<1>. QED BY <1>3, <1>4 DEF NonePasses

\* A call that is screened is in no window, and has not passed.
LEMMA ScreenKeepsCap ==
    ASSUME TVTypeInv, CapInv, NEW c \in Calls, NEW t \in Tenants, NEW b \in Benes,
           NEW a \in Amounts, NEW clear \in BOOLEAN, Screen(c, t, b, a, clear)
    PROVE  CapInv'
<1>0. /\ TVTypeOK /\ call[c] = NoCall /\ Rest(c) /\ call'[c] \in Screened(c)
      /\ UNCHANGED <<backend, checkers, made, window, newest>>
    BY ScreenDoes DEF TVTypeInv
<1>1. call[c].step = "idle"
    BY <1>0 DEF NoCall
<1>2. c \notin Passed
    BY <1>1 DEF Passed
<1>3. c \notin Passed'
    <2>1. \/ call'[c].step = "done" /\ call'[c].answer = "SANCTIONS"
          \/ call'[c].step \in {"fetch", "install"}
        BY <1>0 DEF Screened, Refused
    <2>. QED BY <2>1 DEF Passed
<1>4. NonePasses
    BY <1>0, <1>2, <1>3, BlockedIsQuiet
<1>8. NoneGets
    <2>1. CASE call'[c] = Refused("SANCTIONS")
        <3>1. c \notin Holders'
            BY <2>1 DEF Refused, Holders, CallRecords
        <3>. QED BY <1>0, <3>1, KeepsObjects
    <2>2. CASE call'[c].object = NoObject
        <3>1. c \notin Holders'
            BY <2>2 DEF Holders
        <3>. QED BY <1>0, <3>1, KeepsObjects
    <2>. QED BY <1>0, <2>1, <2>2 DEF Screened
<1>5. RollingCap' /\ WindowHolds' /\ Own'
    BY <1>0, <1>4, <1>8, NonePassesKeepsCap, QuietKeepsWindows, QuietKeepsOwn DEF CapInv
<1>6. ASSUME NEW s \in Tenants \cup Objects, NEW d \in window[s]
      PROVE  call'[d] \in CallRecords /\ call'[d].step \in Recorded
    <2>1. call[d] \in CallRecords /\ call[d].step \in Recorded
        BY DEF CapInv, WindowRecords
    <2>2. d \in Calls
        BY <1>0 DEF TVTypeOK
    <2>3. d # c
        BY <1>1, <2>1 DEF Recorded
    <2>. QED BY <1>0, <2>1, <2>2, <2>3 DEF Rest
<1>7. WindowRecords'
    BY <1>0, <1>6 DEF WindowRecords
<1>. QED BY <1>5, <1>7 DEF CapInv

\* The steps but for the screening and the check keep the caps.
LEMMA AdvanceKeepsCap ==
    ASSUME TVTypeInv, CapInv, NEW c \in Calls, Advances(c)
    PROVE  CapInv'
<1>1. UNCHANGED <<backend, window, newest>>
    BY AdvanceDoes
<1>2. NonePasses
    BY AdvanceIsQuiet
<1>3. RollingCap' /\ WindowHolds' /\ WindowRecords'
    BY <1>1, <1>2, NonePassesKeepsCap, QuietKeepsWindows, AdvanceKeepsRecords DEF CapInv
<1>4. Own'
    <2>1. CASE Fetch(c)
        BY <2>1, FetchKeepsOwn DEF CapInv
    <2>2. CASE ~ Fetch(c)
        <3>1. NoneGets
            <4>1. Rest(c) /\ Carries(c)
                BY AdvanceDoes
            <4>2. call[c].step # "fetch" \/ call'[c].object = call[c].object
                BY <2>2, InstallDoes, ReadClockDoes, RegisterDoes, WriteDoes, DetectDoes, RaiseDoes
                DEF Advances, TVTypeInv
            <4>. QED BY <4>1, <4>2, KeepsObjects DEF Carries, Holders
        <3>2. CASE Install(c)
            BY <3>1, <3>2, InstallKeepsOwn DEF CapInv
        <3>3. CASE ~ Install(c)
            <4>1. UNCHANGED <<checkers, made>>
                BY <2>2, <3>3 DEF Advances, ReadClock, Register, Write, Detect, Raise
            <4>. QED BY <3>1, <4>1, QuietKeepsOwn DEF CapInv
        <3>. QED BY <3>2, <3>3
    <2>. QED BY <2>1, <2>2
<1>. QED BY <1>3, <1>4 DEF CapInv

\* So does the clock.
LEMMA StillKeepsCap ==
    ASSUME TVTypeInv, CapInv, UNCHANGED <<backend, checkers, made, window, call, newest>>
    PROVE  CapInv'
<1>1. Passed' = Passed
    BY DEF Passed
<1>2. NonePasses
    BY <1>1 DEF NonePasses
<1>3. RollingCap' /\ WindowHolds' /\ Own'
    <2>1. NoneGets
        BY DEF NoneGets, Holders
    <2>. QED BY <1>2, <2>1, NonePassesKeepsCap, QuietKeepsWindows, QuietKeepsOwn DEF CapInv
<1>4. WindowRecords'
    BY DEF CapInv, WindowRecords
<1>. QED BY <1>3, <1>4 DEF CapInv

\* What a check of call c does apart from its verdict: tenant t, window s, time now.
Checks(c, t, s, now, live) ==
    /\ t = call[c].tenant /\ s = StoreOf(c) /\ live = Live(window[s], now)
    /\ call[c].step = "check"
    /\ Rest(c) /\ UNCHANGED <<backend, checkers, made>>
    /\ newest' = [newest EXCEPT ![t] = IF now > @ THEN now ELSE @]

\* A check whose caller is not let on.
Fails(c, s, live) == Blocks(c, s, live) \/ Loses(c, s, live)

\* A check is admitted, or not, by what lives in its window.
LEMMA CheckedIs ==
    ASSUME TVTypeInv, NEW c \in Calls, CheckAndRecord(c)
    PROVE  \E t \in Tenants, s \in Tenants \cup Objects, now \in 0 .. MaxTime, live \in SUBSET Calls :
              /\ Checks(c, t, s, now, live)
              /\ Admits(c, t, s, now, live) \/ Fails(c, s, live)
<1>1. PICK t \in Tenants, s \in Tenants \cup Objects, now \in 0 .. MaxTime, live \in SUBSET Calls :
                /\ t = call[c].tenant /\ s = StoreOf(c)
                /\ now = CheckTime(c) /\ live = Live(window[s], now)
                /\ Admits(c, t, s, now, live) \/ Blocks(c, s, live) \/ Loses(c, s, live)
                /\ newest' = [newest EXCEPT ![t] = IF now > @ THEN now ELSE @]
    BY CheckDoes
<1>2. /\ call[c].step = "check"
      /\ Rest(c)
      /\ UNCHANGED <<backend, checkers, made>>
    BY CheckDoes
<1>. QED BY <1>1, <1>2 DEF Checks, Fails

\* A call that is checked has not passed, and is in no window.
LEMMA CheckedHadNot ==
    ASSUME TVTypeInv, CapInv, NEW c \in Calls, NEW t, NEW s, NEW now, NEW live,
           Checks(c, t, s, now, live)
    PROVE  /\ c \notin Passed
           /\ \A r \in Tenants \cup Objects : c \notin window[r]
<1>1. call[c].step = "check"
    BY DEF Checks
<1>2. call[c].step \notin Recorded
    BY <1>1 DEF Recorded
<1>. QED BY <1>1, <1>2 DEF Passed, CapInv, WindowRecords

\* The windows after a check hold what was in them, and the one it went by what lives
\* and perhaps the candidate.
LEMMA CheckKeepsRecords ==
    ASSUME TVTypeInv, CapInv, NEW c \in Calls, NEW t, NEW s \in Tenants \cup Objects,
           NEW now, NEW live, Checks(c, t, s, now, live),
           \/ window' = [window EXCEPT ![s] = live]
           \/ /\ window' = [window EXCEPT ![s] = live \cup {c}]
              /\ call'[c] \in CallRecords /\ call'[c].step \in Recorded
    PROVE  WindowRecords'
<1>. SUFFICES ASSUME NEW r \in Tenants \cup Objects, NEW d \in window'[r]
              PROVE  call'[d] \in CallRecords /\ call'[d].step \in Recorded
    BY DEF WindowRecords
<1>1. window \in [Tenants \cup Objects -> SUBSET Calls]
    BY DEF TVTypeInv, TVTypeOK
<1>2. live \subseteq window[s]
    BY DEF Checks, Live
<1>3. CASE d \in window[r]
    <2>1. call[d] \in CallRecords /\ call[d].step \in Recorded
        BY <1>3 DEF CapInv, WindowRecords
    <2>2. d # c
        BY <1>3, CheckedHadNot
    <2>3. d \in Calls
        BY <1>1, <1>3
    <2>. QED BY <2>1, <2>2, <2>3 DEF Checks, Rest
<1>4. CASE d \notin window[r]
    <2>1. d = c /\ call'[c] \in CallRecords /\ call'[c].step \in Recorded
        BY <1>1, <1>2, <1>4
    <2>. QED BY <2>1
<1>. QED BY <1>3, <1>4

\* A call that is blocked, or does not hear that it is not, keeps the caps.
LEMMA FailKeepsCap ==
    ASSUME TVTypeInv, CapInv, NEW c \in Calls, NEW t \in Tenants, NEW s \in Tenants \cup Objects,
           NEW now \in 0 .. MaxTime, NEW live \in SUBSET Calls,
           Checks(c, t, s, now, live), Fails(c, s, live)
    PROVE  CapInv'
<1>1. c \notin Passed
    BY CheckedHadNot
<1>2. c \notin Passed'
    <2>1. call'[c].step = "done" /\ call'[c].answer # "PASSED"
        BY DEF Fails, Blocks, Loses, Refused, Refusals
    <2>. QED BY <2>1 DEF Passed
<1>3. Rest(c) /\ UNCHANGED <<backend, checkers, made>>
    BY DEF Checks
<1>4. NonePasses
    BY <1>1, <1>2, <1>3, BlockedIsQuiet
<1>a. NoneGets
    <2>1. CASE Blocks(c, s, live)
        <3>1. c \notin Holders'
            BY <2>1 DEF Blocks, Refused, Holders, CallRecords
        <3>. QED BY <1>3, <3>1, KeepsObjects
    <2>2. CASE Loses(c, s, live)
        BY <1>3, <2>2, KeepsObjects DEF Loses, Carries, Holders
    <2>. QED BY <2>1, <2>2 DEF Fails
<1>5. RollingCap' /\ Own'
    BY <1>3, <1>4, <1>a, NonePassesKeepsCap, QuietKeepsOwn DEF CapInv
<1>6. \/ window' = [window EXCEPT ![s] = live]
      \/ /\ window' = [window EXCEPT ![s] = live \cup {c}]
         /\ call'[c] \in CallRecords /\ call'[c].step \in Recorded
    BY DEF Fails, Blocks, Loses, Carries, Recorded
<1>7. WindowRecords'
    BY <1>6, CheckKeepsRecords
<1>8. ASSUME NEW d \in Passed', call'[d].now + Window > newest'[call'[d].tenant]
      PROVE  d \in window'[Home(d)']
    <2>1. d \in Passed /\ d \in Calls /\ d # c
        BY <1>2, <1>4 DEF NonePasses, Passed
    <2>2. call'[d] = call[d] /\ Home(d)' = Home(d)
        BY <1>3, <2>1 DEF Rest, Home, Redis
    <2>3. /\ live \subseteq window'[s]
          /\ \A r \in Tenants \cup Objects : r # s => window'[r] = window[r]
        BY <1>6 DEF TVTypeInv, TVTypeOK
    <2>4. call[d].now + Window > newest'[call[d].tenant]
        BY <1>8, <2>2
    <2>5. d \in window'[Home(d)]
        <3>1. /\ t = call[c].tenant /\ s = StoreOf(c) /\ live = Live(window[s], now)
              /\ call[c].step = "check" /\ UNCHANGED backend
              /\ newest' = [newest EXCEPT ![t] = IF now > @ THEN now ELSE @]
            BY DEF Checks
        <3>2. WindowHolds /\ Own
            BY DEF CapInv
        <3>. QED BY <2>1, <2>2, <2>3, <2>4, <3>1, <3>2, CheckKeepsHeld
    <2>. QED BY <2>2, <2>5
<1>9. WindowHolds'
    BY <1>8 DEF WindowHolds
<1>. QED BY <1>5, <1>7, <1>9 DEF CapInv

-----------------------------------------------------------------------------
(* A call that is admitted. *)

\* A call that is admitted passes, alone.
LEMMA AdmittedPasses ==
    ASSUME NEW c \in Calls, NEW t, NEW s, NEW now, NEW live,
           Checks(c, t, s, now, live), Admits(c, t, s, now, live)
    PROVE  /\ Passed' = Passed \cup {c}
           /\ \A d \in Passed : d # c => call'[d] = call[d]
           /\ Redis' <=> Redis
<1>1. Rest(c) /\ UNCHANGED backend
    BY DEF Checks
<1>2. c \in Passed'
    BY DEF Admits, Passed
<1>3. \A d \in Calls \ {c} : d \in Passed' <=> d \in Passed
    BY <1>1, PassedRest
<1>4. Passed \subseteq Calls /\ Passed' \subseteq Calls
    BY DEF Passed
<1>5. Passed' = Passed \cup {c}
    BY <1>2, <1>3, <1>4
<1>. QED BY <1>1, <1>4, <1>5 DEF Rest, Redis

\* It keeps the object it has.
LEMMA AdmitKeepsOwn ==
    ASSUME TVTypeInv, CapInv, NEW c \in Calls, NEW t \in Tenants, NEW s \in Tenants \cup Objects,
           NEW now \in 0 .. MaxTime, NEW live \in SUBSET Calls,
           Checks(c, t, s, now, live), Admits(c, t, s, now, live)
    PROVE  Own'
<1>1. Rest(c) /\ UNCHANGED <<checkers, made>>
    BY DEF Checks
<1>2. NoneGets
    BY <1>1, KeepsObjects DEF Checks, Admits, Holders
<1>. QED BY <1>1, <1>2, QuietKeepsOwn DEF CapInv

\* It is in its window, and so are the others until a check went by them.
LEMMA AdmitKeepsWindows ==
    ASSUME TVTypeInv, CapInv, NEW c \in Calls, NEW t \in Tenants, NEW s \in Tenants \cup Objects,
           NEW now \in 0 .. MaxTime, NEW live \in SUBSET Calls,
           Checks(c, t, s, now, live), Admits(c, t, s, now, live)
    PROVE  WindowHolds'
<1>1. /\ window' = [window EXCEPT ![s] = live \cup {c}]
      /\ window \in [Tenants \cup Objects -> SUBSET Calls]
    BY DEF Admits, TVTypeInv, TVTypeOK
<1>2. /\ live \subseteq window'[s] /\ c \in window'[s]
      /\ \A r \in Tenants \cup Objects : r # s => window'[r] = window[r]
    BY <1>1
<1>3. ASSUME NEW d \in Passed', call'[d].now + Window > newest'[call'[d].tenant]
      PROVE  d \in window'[Home(d)']
    <2>1. CASE d = c
        <3>1. Home(c)' = s
            <4>1. CASE Redis
                BY <4>1, AdmittedPasses DEF Home, Admits, Checks, StoreOf
            <4>2. CASE ~ Redis
                BY <4>2, AdmittedPasses DEF Home, Admits, Checks, StoreOf
            <4>. QED BY <4>1, <4>2
        <3>. QED BY <1>2, <2>1, <3>1
    <2>2. CASE d # c
        <3>1. d \in Passed /\ call'[d] = call[d]
            BY <2>2, AdmittedPasses
        <3>2. Home(d)' = Home(d)
            BY <3>1, AdmittedPasses DEF Home
        <3>3. call[d].now + Window > newest'[call[d].tenant]
            BY <1>3, <3>1
        <3>4. d \in window'[Home(d)]
            BY <1>2, <3>1, <3>3, CheckKeepsHeld DEF Checks, CapInv
        <3>. QED BY <3>2, <3>4
    <2>. QED BY <2>1, <2>2
<1>. QED BY <1>3 DEF WindowHolds

\* In a window that the candidate ends, the others are recorded and live.
LEMMA InsideLives ==
    ASSUME TVTypeInv, CapInv, NEW c \in Calls, NEW t \in Tenants, NEW s \in Tenants \cup Objects,
           NEW now \in 0 .. MaxTime, NEW live \in SUBSET Calls,
           Checks(c, t, s, now, live), Admits(c, t, s, now, live),
           NEW end \in 0 .. MaxTime, (Redis \/ OneChecker(t))',
           c \in Inside(t, end)', NEW d \in Inside(t, end)', d # c
    PROVE  d \in live
<1>0. /\ TVTypeOK /\ MaxTime \in Nat /\ Window \in Nat /\ now \in Nat /\ end \in Nat
      /\ newest[t] \in Nat
    BY TVNumbers DEF TVTypeInv, TVTypeOK
<1>1. d \in Passed /\ call'[d] = call[d] /\ d \in Passed' /\ c \in Passed'
    BY AdmittedPasses DEF Inside
<1>2. /\ call[d].tenant = t /\ call[d].now <= end /\ call[d].now + Window > end
      /\ call[d].now \in Nat
    <2>1. call[d] \in CallRecords
        BY <1>0, <1>1, PassedCall
    <2>2. call[d].now \in Nat
        BY <1>0, <2>1 DEF CallRecords
    <2>. QED BY <1>1, <2>2 DEF Inside
<1>3. call'[c].now = now /\ call'[c].tenant = t /\ ~ call'[c].late /\ now <= end
    BY DEF Admits, Inside
<1>4. newest[t] <= now
    <2>1. ~ (newest[t] > now)
        BY <1>3 DEF Admits
    <2>. QED BY <1>0, <2>1
<1>5. /\ call[d].now + Window > newest[t]
      /\ call[d].now + Window > now
      /\ call[d].now + Window >= now
    BY <1>0, <1>2, <1>3, <1>4
<1>6. d \in window[Home(d)]
    BY <1>1, <1>2, <1>5 DEF CapInv, WindowHolds
<1>7. Home(d) = s
    <2>1. CASE Redis
        BY <1>2, <2>1 DEF Home, Checks, StoreOf
    <2>2. CASE ~ Redis
        <3>1. OneChecker(t)'
            BY <2>2, AdmittedPasses
        <3>2. call'[d].object = call'[c].object
            BY <1>1, <1>2, <1>3, <3>1 DEF OneChecker
        <3>3. call'[c].object = s
            BY <2>2 DEF Admits, Checks, StoreOf
        <3>. QED BY <1>1, <2>2, <3>2, <3>3 DEF Home
    <2>. QED BY <2>1, <2>2
<1>8. live = Live(window[s], now)
    BY DEF Checks
<1>. QED BY <1>5, <1>6, <1>7, <1>8 DEF Live

\* The verdict keeps both caps of what lives and the candidate.
LEMMA VerdictKeepsCaps ==
    ASSUME NEW c \in Calls, NEW live \in SUBSET Calls, NEW t \in Tenants,
           t = call[c].tenant, Verdict(c, live) = "PASSED",
           SumOf(live) \in Nat, call[c].amount \in Nat, Cardinality(live) \in Nat
    PROVE  /\ DollarCap[t] > 0 => SumOf(live) + call[c].amount <= DollarCap[t]
           /\ CountCap[t] > 0 => Cardinality(live) + 1 <= CountCap[t]
<1>1. ~ (DollarCap[t] > 0 /\ SumOf(live) + call[c].amount > DollarCap[t])
    BY DEF Verdict
<1>2. ~ (CountCap[t] > 0 /\ Cardinality(live) + 1 > CountCap[t])
    <2>. DEFINE over == DollarCap[t] > 0 /\ SumOf(live) + call[c].amount > DollarCap[t]
                many == CountCap[t] > 0 /\ Cardinality(live) + 1 > CountCap[t]
                thick == Concentrates(c, live)
    <2>1. "PASSED" = IF over THEN "DOLLAR_CAP_EXCEEDED" ELSE IF many THEN "COUNT_CAP_EXCEEDED"
                     ELSE IF thick THEN "BENEFICIARY_CONCENTRATION_EXCEEDED" ELSE "PASSED"
        BY Zenon DEF Verdict
    <2>2. ~ over
        BY <1>1
    <2>. HIDE DEF over, many, thick
    <2>3. ~ many
        BY <2>1, <2>2
    <2>. QED BY <2>3 DEF many
<1>3. DollarCap[t] \in Nat /\ CountCap[t] \in Nat
    BY TenantVelocityAssumption
<1>. DEFINE m == SumOf(live)
            n == Cardinality(live)
            a == call[c].amount
<1>4. /\ m \in Nat /\ n \in Nat /\ a \in Nat
      /\ ~ (DollarCap[t] > 0 /\ m + a > DollarCap[t])
      /\ ~ (CountCap[t] > 0 /\ n + 1 > CountCap[t])
    BY <1>1, <1>2
<1>. HIDE DEF m, n, a
<1>5. (DollarCap[t] > 0 => m + a <= DollarCap[t]) /\ (CountCap[t] > 0 => n + 1 <= CountCap[t])
    BY <1>3, <1>4
<1>. QED BY <1>5 DEF m, n, a

\* What is in a window with the candidate is within the caps.
LEMMA AdmittedInCaps ==
    ASSUME TVTypeInv, CapInv, NEW c \in Calls, NEW t \in Tenants, NEW s \in Tenants \cup Objects,
           NEW now \in 0 .. MaxTime, NEW live \in SUBSET Calls,
           Checks(c, t, s, now, live), Admits(c, t, s, now, live),
           NEW S, S \subseteq live \cup {c},
           \A d \in S : call'[d].amount = call[d].amount
    PROVE  /\ DollarCap[t] > 0 => SumFunction([d \in S |-> call'[d].amount]) <= DollarCap[t]
           /\ CountCap[t] > 0 => Cardinality(S) <= CountCap[t]
<1>1. live \subseteq window[s] /\ c \notin live
    <2>1. live \subseteq window[s]
        BY DEF Checks, Live
    <2>. QED BY <2>1, CheckedHadNot
<1>2. \A d \in live \cup {c} : call[d].amount \in Nat
    <2>1. \A d \in live : call[d] \in CallRecords
        BY <1>1 DEF CapInv, WindowRecords
    <2>2. call[c] \in CallRecords
        BY DEF Admits
    <2>. QED BY <2>1, <2>2, TVNumbers DEF CallRecords
<1>3. IsFiniteSet(live) /\ IsFiniteSet(live \cup {c}) /\ Cardinality(live) \in Nat
      /\ Cardinality(live \cup {c}) = Cardinality(live) + 1
    <2>1. IsFiniteSet(live)
        BY TVNumbers, FS_Subset
    <2>. QED BY <1>1, <2>1, FS_AddElement, FS_CardinalityType
<1>4. Cardinality(S) <= Cardinality(live) + 1 /\ Cardinality(S) \in Nat
    <2>1. IsFiniteSet(S) /\ Cardinality(S) <= Cardinality(live \cup {c})
        BY <1>3, FS_Subset
    <2>. QED BY <1>3, <2>1, FS_CardinalityType
<1>. DEFINE T == live \cup {c}
            m == SumFunction([d \in S |-> call'[d].amount])
<1>5. SumOf(T) = SumOf(live) + call[c].amount
    BY <1>1, <1>2, AmountAdded DEF SumOf
<1>6. m <= SumOf(T) /\ m \in Nat /\ SumOf(live) \in Nat
    <2>1. T \subseteq Calls /\ S \subseteq T /\ live \subseteq T
          /\ (\A d \in T : call[d].amount \in Nat)
          /\ \A d \in S : call'[d].amount = call[d].amount
        BY <1>2
    <2>. HIDE DEF T
    <2>2. m <= SumOf(T) /\ m \in Nat
        BY <2>1, AmountsLess DEF SumOf
    <2>3. \A d \in live : call[d].amount = call[d].amount
        OBVIOUS
    <2>4. SumOf(live) \in Nat
        BY <2>1, <2>3, AmountsLess DEF SumOf
    <2>. QED BY <2>2, <2>4
<1>7. t = call[c].tenant /\ Verdict(c, live) = "PASSED" /\ call[c].amount \in Nat
    BY <1>2 DEF Checks, Admits
<1>8. /\ DollarCap[t] > 0 => SumOf(live) + call[c].amount <= DollarCap[t]
      /\ CountCap[t] > 0 => Cardinality(live) + 1 <= CountCap[t]
    BY <1>3, <1>6, <1>7, VerdictKeepsCaps
<1>9. DollarCap[t] \in Nat /\ CountCap[t] \in Nat
    BY TenantVelocityAssumption
<1>. DEFINE k == SumOf(live) + call[c].amount
            n == Cardinality(S)
            l == Cardinality(live)
<1>10. /\ m <= k /\ m \in Nat /\ k \in Nat /\ n <= l + 1 /\ n \in Nat /\ l \in Nat
       /\ DollarCap[t] > 0 => k <= DollarCap[t]
       /\ CountCap[t] > 0 => l + 1 <= CountCap[t]
    <2>1. k \in Nat
        BY <1>6, <1>7
    <2>. QED BY <1>3, <1>4, <1>5, <1>6, <1>8, <2>1
<1>. HIDE DEF m, k, n, l
<1>11. (DollarCap[t] > 0 => m <= DollarCap[t]) /\ (CountCap[t] > 0 => n <= CountCap[t])
    BY <1>9, <1>10
<1>. QED BY <1>11 DEF m, n

\* A window without the candidate is as it was.
LEMMA OutsideStays ==
    ASSUME TVTypeInv, CapInv, NEW c \in Calls, NEW t \in Tenants, NEW s \in Tenants \cup Objects,
           NEW now \in 0 .. MaxTime, NEW live \in SUBSET Calls,
           Checks(c, t, s, now, live), Admits(c, t, s, now, live),
           NEW u \in Tenants, NEW end \in 0 .. MaxTime, (Redis \/ OneChecker(u))',
           c \notin Inside(u, end)'
    PROVE  InCaps(u, end)'
<1>1. Inside(u, end)' = Inside(u, end)
    <2>1. Inside(u, end)' \subseteq Passed /\ Inside(u, end) \subseteq Passed
          /\ Inside(u, end) \subseteq Passed'
        BY AdmittedPasses DEF Inside
    <2>2. c \notin Inside(u, end)
        BY <2>1, CheckedHadNot
    <2>3. \A d \in Passed : d # c => (d \in Inside(u, end)' <=> d \in Inside(u, end))
        BY AdmittedPasses DEF Inside
    <2>. QED BY <2>1, <2>2, <2>3
<1>2. \A d \in Inside(u, end) : call'[d] = call[d]
    BY <1>1, AdmittedPasses DEF Inside
<1>3. Redis \/ OneChecker(u)
    <2>1. CASE Redis'
        BY <2>1, AdmittedPasses
    <2>2. CASE OneChecker(u)'
        <3>1. \A d \in Passed : call'[d] = call[d]
            BY AdmittedPasses, CheckedHadNot
        <3>. QED BY <2>2, <3>1, AdmittedPasses DEF OneChecker
    <2>. QED BY <2>1, <2>2
<1>4. InCaps(u, end)
    BY <1>3, RollingCapIs DEF CapInv
<1>5. SumOf(Inside(u, end))' = SumOf(Inside(u, end))
    BY <1>1, <1>2 DEF SumOf
<1>. QED BY <1>1, <1>4, <1>5 DEF InCaps

\* A call that is admitted keeps every window within the caps: in those it is in, the others
\* are among what its check summed; those it is not in are as they were.
LEMMA AdmitKeepsRolling ==
    ASSUME TVTypeInv, CapInv, NEW c \in Calls, NEW t \in Tenants, NEW s \in Tenants \cup Objects,
           NEW now \in 0 .. MaxTime, NEW live \in SUBSET Calls,
           Checks(c, t, s, now, live), Admits(c, t, s, now, live)
    PROVE  RollingCap'
<1>. SUFFICES ASSUME NEW u \in Tenants, NEW end \in 0 .. MaxTime, (Redis \/ OneChecker(u))'
              PROVE  InCaps(u, end)'
    BY DEF RollingCap, InCaps, Inside
<1>1. CASE c \notin Inside(u, end)'
    BY <1>1, OutsideStays
<1>2. CASE c \in Inside(u, end)'
    <2>1. u = t
        BY <1>2 DEF Inside, Admits
    <2>2. \A d \in Inside(t, end)' : d # c => d \in live
        BY <1>2, <2>1, InsideLives
    <2>3. \A d \in Inside(t, end)' : call'[d].amount = call[d].amount
        BY AdmittedPasses DEF Inside, Admits
    <2>4. PICK S : S = Inside(t, end)'
        OBVIOUS
    <2>5. S \subseteq live \cup {c} /\ \A d \in S : call'[d].amount = call[d].amount
        BY <2>2, <2>3, <2>4
    <2>6. /\ DollarCap[t] > 0 => SumFunction([d \in S |-> call'[d].amount]) <= DollarCap[t]
          /\ CountCap[t] > 0 => Cardinality(S) <= CountCap[t]
        BY <2>5, AdmittedInCaps
    <2>. QED BY <2>1, <2>4, <2>6 DEF InCaps, SumOf
<1>. QED BY <1>1, <1>2

\* The caps are kept by every check, whatever races with it.
LEMMA CheckKeepsCap ==
    ASSUME TVTypeInv, CapInv, NEW c \in Calls, CheckAndRecord(c)
    PROVE  CapInv'
<1>1. PICK t \in Tenants, s \in Tenants \cup Objects, now \in 0 .. MaxTime, live \in SUBSET Calls :
          /\ Checks(c, t, s, now, live)
          /\ Admits(c, t, s, now, live) \/ Fails(c, s, live)
    BY CheckedIs
<1>2. CASE Fails(c, s, live)
    BY <1>1, <1>2, FailKeepsCap
<1>3. CASE Admits(c, t, s, now, live)
    <2>1. Own' /\ WindowHolds' /\ RollingCap'
        BY <1>1, <1>3, AdmitKeepsOwn, AdmitKeepsWindows, AdmitKeepsRolling
    <2>2. WindowRecords'
        <3>1. /\ window' = [window EXCEPT ![s] = live \cup {c}]
              /\ call'[c] \in CallRecords /\ call'[c].step \in Recorded
            BY <1>3 DEF Admits, Recorded
        <3>. QED BY <1>1, <3>1, CheckKeepsRecords
    <2>. QED BY <2>1, <2>2 DEF CapInv
<1>. QED BY <1>1, <1>2, <1>3

\* Nothing has passed, and every window is empty.
LEMMA CapInit == ASSUME TVInit PROVE CapInv
<1>1. /\ Passed = {} /\ (\A t \in Tenants : checkers[t] = NoObject) /\ made = 0
      /\ \A s \in Tenants \cup Objects : window[s] = {}
    BY DEF TVInit, Passed, NoCall
<1>4. Holders = {}
    BY DEF TVInit, Holders, CallRecords, NoCall
<1>2. WindowRecords /\ Own /\ WindowHolds
    BY <1>1, <1>4 DEF WindowRecords, Own, WindowHolds, NoObject
<1>3. \A t \in Tenants, end \in 0 .. MaxTime : InCaps(t, end)
    <2>. TAKE t \in Tenants, end \in 0 .. MaxTime
    <2>1. Inside(t, end) = {}
        BY <1>1 DEF Inside
    <2>2. SumOf({}) = 0
        BY SumEmpty DEF SumOf, SumFunction
    <2>3. Cardinality({}) = 0
        BY FS_EmptySet
    <2>4. DollarCap[t] \in Nat /\ CountCap[t] \in Nat
        BY TenantVelocityAssumption
    <2>. QED BY <2>1, <2>2, <2>3, <2>4 DEF InCaps
<1>. QED BY <1>2, <1>3, RollingCapIs DEF CapInv

\* Every step of the gate keeps the caps.
LEMMA CapStep == ASSUME TVTypeInv, CapInv, [TVNext]_tvVars PROVE CapInv'
<1>1. ASSUME NEW c \in Calls, NEW t \in Tenants, NEW b \in Benes, NEW a \in Amounts,
             NEW clear \in BOOLEAN, Screen(c, t, b, a, clear)
      PROVE  CapInv'
    BY <1>1, ScreenKeepsCap
<1>2. ASSUME NEW c \in Calls, Advances(c) PROVE CapInv'
    BY <1>2, AdvanceKeepsCap
<1>3. ASSUME NEW c \in Calls, CheckAndRecord(c) PROVE CapInv'
    BY <1>3, CheckKeepsCap
<1>4. CASE TVTick \/ UNCHANGED tvVars
    <2>1. UNCHANGED <<backend, checkers, made, window, call, newest>>
        BY <1>4 DEF TVTick, tvVars
    <2>. QED BY <2>1, StillKeepsCap
<1>. QED BY <1>1, <1>2, <1>3, <1>4 DEF TVNext, Step, Advances

\* The invariant of the rolling windows: what passed is in the window of its tenant, or of its
\* checker, until a check went by it.
THEOREM WindowsAreKept == TVSpec => [](TVTypeInv /\ CapInv)
<1>1. TVInit => TVTypeInv /\ CapInv
    BY TVTypeInit, CapInit
<1>2. TVTypeInv /\ CapInv /\ [TVNext]_tvVars => (TVTypeInv /\ CapInv)'
    BY TVTypeStep, CapStep
<1>. QED BY <1>1, <1>2, PTL DEF TVSpec

\* EPG-25: the transactions of a tenant in one rolling window never pass its caps together,
\* for any number of calls, tenants, amounts and any caps, where the tenant has had one
\* checker or the windows are in Redis, and late scripts apart (velocity.py:597-674).
THEOREM RollingCapHolds == TVSpec => []RollingCap
<1>1. CapInv => RollingCap
    BY DEF CapInv
<1>. QED BY <1>1, WindowsAreKept, PTL

-----------------------------------------------------------------------------
(* The register of the structuring detector. *)

\* The calls that are in the register and did not fail after it.
Registered == {c \in Calls : \/ CallAt(c, "detect")
                             \/ CallAt(c, "done") /\ call[c].answer = "PASSED"}

\* No Redis command has failed a call.
NoneRaised == \A c \in Calls : CallAt(c, "done") => call[c].answer # "RAISED"

\* Two tenants have moved more than the cap of either.
Spread ==
    /\ Cardinality({call[c].tenant : c \in Registered}) >= 2
    /\ \A t \in Tenants : 0 < DollarCap[t] /\ DollarCap[t] < SumOf(Registered)

\* With Redis and no failure the register is the sum of what was put into it, and
\* the last of the calls to ask the detector sees all of it.
RegistrySums ==
    Redis /\ NoneRaised =>
        /\ SumFunction(registry) = SumOf(Registered)
        /\ \A c \in Registered : registry[call[c].tenant] > 0
        /\ Spread /\ (\A c \in Calls : ~ CallAt(c, "detect")) => \E c \in Registered : call[c].flagged

\* A call in the register has a tenant and an amount.
LEMMA RegisteredCall ==
    ASSUME TVTypeOK, NEW c \in Registered
    PROVE  /\ c \in Calls /\ call[c].tenant \in Tenants
           /\ call[c].amount \in Nat \ {0}
<1>1. c \in Passed
    BY DEF Registered, Passed, CallAt
<1>2. c \in Calls /\ call[c] \in CallRecords
    BY <1>1, PassedCall
<1>. QED BY <1>2, TVNumbers DEF CallRecords

\* The other calls stay in the register, or out of it.
LEMMA RegisteredRest ==
    ASSUME NEW c \in Calls, Rest(c)
    PROVE  /\ \A d \in Calls \ {c} : d \in Registered' <=> d \in Registered
           /\ \A d \in Calls \ {c} : call'[d] = call[d]
           /\ Registered \subseteq Calls /\ Registered' \subseteq Calls
    BY DEF Rest, Registered, CallAt

\* A step of a call that is not in the register, and does not get there.
LEMMA RegistryStays ==
    ASSUME RegistrySums, NEW c \in Calls, Rest(c), UNCHANGED <<backend, registry>>,
           c \notin Registered, c \notin Registered', call[c].step # "done"
    PROVE  RegistrySums'
<1>1. Registered' = Registered /\ \A d \in Registered : d # c /\ call'[d] = call[d]
    BY RegisteredRest
<1>2. SUFFICES ASSUME Redis', NoneRaised'
               PROVE  /\ SumFunction(registry) = SumOf(Registered)'
                      /\ \A d \in Registered' : registry[call'[d].tenant] > 0
                      /\ Spread' /\ (\A d \in Calls : ~ CallAt(d, "detect"))' =>
                            \E d \in Registered' : call'[d].flagged
    BY DEF RegistrySums
<1>3. Redis /\ NoneRaised
    BY <1>2, RegisteredRest DEF Redis, NoneRaised, CallAt
<1>4. SumOf(Registered)' = SumOf(Registered)
    BY <1>1 DEF SumOf
<1>5. {call'[d].tenant : d \in Registered'} = {call[d].tenant : d \in Registered}
    BY <1>1
<1>6. Spread' => Spread
    BY <1>4, <1>5 DEF Spread
<1>7. (\A d \in Calls : ~ CallAt(d, "detect"))' => \A d \in Calls : ~ CallAt(d, "detect")
    BY RegisteredRest DEF CallAt, Registered
<1>8. /\ SumFunction(registry) = SumOf(Registered)
      /\ \A d \in Registered : registry[call[d].tenant] > 0
      /\ Spread /\ (\A d \in Calls : ~ CallAt(d, "detect")) => \E d \in Registered : call[d].flagged
    BY <1>3 DEF RegistrySums
<1>9. Spread' /\ (\A d \in Calls : ~ CallAt(d, "detect"))' => \E d \in Registered' : call'[d].flagged
    BY <1>1, <1>6, <1>7, <1>8
<1>. QED BY <1>1, <1>4, <1>8, <1>9

\* record of the detector: with Redis the register grows by the amount, in one step.
LEMMA RegisterKeepsSums ==
    ASSUME TVTypeInv, RegistrySums, NEW c \in Calls, Register(c)
    PROVE  RegistrySums'
<1>. SUFFICES ASSUME Redis', NoneRaised'
              PROVE  /\ SumFunction(registry)' = SumOf(Registered)'
                     /\ \A d \in Registered' : registry'[call'[d].tenant] > 0
                     /\ \E d \in Calls : CallAt(d, "detect")'
    BY DEF RegistrySums
<1>0. TVTypeOK /\ registry \in [Tenants -> Nat]
    BY DEF TVTypeInv, TVTypeOK
<1>1. /\ Rest(c) /\ Carries(c) /\ call[c].step = "register"
      /\ \/ Redis /\ call'[c].step = "detect"
         \/ Redis /\ call'[c].step = "done" /\ call'[c].answer = "RAISED"
         \/ ~ Redis /\ call'[c].step = "write"
    BY <1>0, RegisterDoes
<1>2. Redis
    BY DEF Register, Redis
<1>3. NoneRaised
    BY <1>1, RegisteredRest DEF NoneRaised, CallAt
<1>4. call'[c].step = "detect" /\ c \in Registered' /\ c \notin Registered
    BY <1>1, <1>2 DEF Registered, CallAt, NoneRaised
<1>5. Registered' = Registered \cup {c} /\ Registered \subseteq Calls
      /\ \A d \in Registered : d # c /\ call'[d] = call[d]
    BY <1>1, <1>4, RegisteredRest
<1>6. PICK t \in Tenants : t = call[c].tenant
    BY <1>1 DEF Carries, CallRecords
<1>7. PICK a \in Nat \ {0} : a = call[c].amount
    BY <1>1, TVNumbers DEF Carries, CallRecords
<1>8. call'[c].tenant = t /\ call'[c].amount = a
    BY <1>1, <1>6, <1>7 DEF Carries
<1>9. registry' = [registry EXCEPT ![t] = @ + a]
    BY <1>2, <1>6, <1>7 DEF Register
<1>10. /\ registry'[t] = registry[t] + a
       /\ \A u \in Tenants \ {t} : registry'[u] = registry[u]
       /\ DOMAIN registry = Tenants /\ DOMAIN registry' = Tenants
       /\ \A u \in Tenants : registry[u] \in Nat
    BY <1>0, <1>9
<1>11. SumFunction(registry)' = SumFunction(registry) + a
    <2>1. a \in Nat
        BY <1>7
    <2>2. IsFiniteSet(Tenants)
        BY TVNumbers
    <2>3. PICK old, new : old = registry /\ new = registry'
        OBVIOUS
    <2>4. /\ \A u \in Tenants : old[u] \in Nat
          /\ new[t] = old[t] + a
          /\ \A u \in Tenants \ {t} : new[u] = old[u]
        BY <1>10, <2>3
    <2>5. SumFunctionOnSet(new, Tenants) = SumFunctionOnSet(old, Tenants) + a
        <3>. HIDE <2>3
        <3>. QED BY <2>1, <2>2, <2>4, SumRaise
    <2>. QED BY <1>10, <2>3, <2>5 DEF SumFunction
<1>12. SumOf(Registered)' = SumOf(Registered) + a
    <2>1. PICK S, f : S = Registered /\ f = call'
        OBVIOUS
    <2>2. \A d \in Registered : call[d].amount \in Nat
        BY <1>0, RegisteredCall
    <2>3. S \subseteq Calls /\ c \notin S /\ \A d \in S \cup {c} : f[d].amount \in Nat
        BY <1>4, <1>5, <1>7, <1>8, <2>1, <2>2
    <2>4. SumFunction([d \in S \cup {c} |-> f[d].amount])
             = SumFunction([d \in S |-> f[d].amount]) + f[c].amount
        BY <2>3, AmountAdded
    <2>5. [d \in S |-> f[d].amount] = [d \in Registered |-> call[d].amount]
        BY <1>5, <2>1
    <2>6. SumOf(Registered)' = SumFunction([d \in S \cup {c} |-> f[d].amount])
        BY <1>5, <2>1 DEF SumOf
    <2>. QED BY <1>8, <2>1, <2>4, <2>5, <2>6 DEF SumOf
<1>13. /\ SumFunction(registry) = SumOf(Registered)
       /\ \A d \in Registered : registry[call[d].tenant] > 0
    BY <1>2, <1>3 DEF RegistrySums
<1>14. ASSUME NEW d \in Registered'
       PROVE  registry'[call'[d].tenant] > 0
    <2>1. CASE d = c
        BY <1>7, <1>8, <1>10, <2>1
    <2>2. CASE d # c
        <3>1. d \in Registered /\ call'[d] = call[d]
            BY <1>5, <2>2
        <3>2. PICK u \in Tenants : u = call[d].tenant
            BY <1>0, <3>1, RegisteredCall
        <3>3. registry[u] > 0
            BY <1>13, <3>1, <3>2
        <3>4. registry'[u] > 0
            BY <1>7, <1>10, <3>3
        <3>. QED BY <3>1, <3>2, <3>4
    <2>. QED BY <2>1, <2>2
<1>. QED BY <1>4, <1>11, <1>12, <1>13, <1>14 DEF CallAt

\* The last to ask sees every tenant that is in the register, and the whole sum.
LEMMA DetectKeepsSums ==
    ASSUME TVTypeInv, RegistrySums, NEW c \in Calls, Detect(c)
    PROVE  RegistrySums'
<1>. SUFFICES ASSUME Redis', NoneRaised'
              PROVE  /\ SumFunction(registry)' = SumOf(Registered)'
                     /\ \A d \in Registered' : registry'[call'[d].tenant] > 0
                     /\ Spread' => call'[c].flagged
                     /\ c \in Registered'
    BY DEF RegistrySums
<1>0. TVTypeOK /\ registry \in [Tenants -> Nat] /\ UNCHANGED <<backend, registry>>
    BY DEF TVTypeInv, TVTypeOK, Detect
<1>1. /\ Rest(c) /\ Carries(c)
      /\ call[c].step = "detect"
      /\ call'[c].step = "done" /\ call'[c].answer = "PASSED"
      /\ call'[c].flagged = Flags(c)
    BY <1>0, DetectDoes
<1>2. Redis
    BY <1>0 DEF Redis
<1>3. NoneRaised
    BY <1>1, RegisteredRest DEF NoneRaised, CallAt
<1>4. c \in Registered' /\ c \in Registered
    BY <1>1 DEF Registered, CallAt
<1>5. Registered' = Registered /\ Registered \subseteq Calls
    BY <1>1, <1>4, RegisteredRest
<1>6. \A d \in Registered : call'[d].tenant = call[d].tenant /\ call'[d].amount = call[d].amount
    BY <1>1, <1>5, RegisteredRest DEF Carries
<1>7. /\ SumFunction(registry) = SumOf(Registered)
      /\ \A d \in Registered : registry[call[d].tenant] > 0
    BY <1>2, <1>3 DEF RegistrySums
<1>8. SumOf(Registered)' = SumOf(Registered)
    BY <1>5, <1>6 DEF SumOf
<1>9. {call'[d].tenant : d \in Registered'} = {call[d].tenant : d \in Registered}
    BY <1>5, <1>6
<1>10. ASSUME Spread' PROVE Flags(c)
    <2>. DEFINE moved == {call[d].tenant : d \in Registered}
    <2>1. moved \subseteq Present /\ Present \subseteq Tenants
        BY <1>0, <1>7, RegisteredCall DEF Present
    <2>2. Cardinality(moved) >= 2
        BY <1>9, <1>10 DEF Spread
    <2>3. IsFiniteSet(Present)
        BY <2>1, TVNumbers, FS_Subset
    <2>4. /\ IsFiniteSet(moved) /\ Cardinality(moved) <= Cardinality(Present)
          /\ Cardinality(moved) \in Nat /\ Cardinality(Present) \in Nat
        <3>. HIDE DEF moved
        <3>. QED BY <2>1, <2>3, FS_Subset, FS_CardinalityType
    <2>. HIDE DEF moved
    <2>5. Cardinality(Present) >= 2
        BY <2>2, <2>4
    <2>6. call[c].tenant \in Tenants
        BY <1>0, <1>4, RegisteredCall
    <2>7. 0 < DollarCap[call[c].tenant] /\ DollarCap[call[c].tenant] < SumOf(Registered)
        BY <1>8, <1>10, <2>6 DEF Spread
    <2>8. PICK u \in Tenants : u = call[c].tenant
        BY <2>6
    <2>9. DollarCap[u] \in Nat
        BY TenantVelocityAssumption
    <2>10. SumOf(Registered) \in Nat
        <3>1. \A d \in Registered : call[d].amount \in Nat /\ call[d].amount = call[d].amount
            BY <1>0, RegisteredCall
        <3>. QED BY <1>5, <3>1, AmountsLess DEF SumOf
    <2>11. DollarCap[u] > 0 /\ Combined(c) > DollarCap[u]
        BY <1>7, <2>7, <2>8, <2>9, <2>10 DEF Combined
    <2>. QED BY <2>5, <2>8, <2>11 DEF Flags
<1>11. \A d \in Registered' : registry'[call'[d].tenant] > 0
    BY <1>0, <1>5, <1>6, <1>7
<1>12. SumFunction(registry)' = SumOf(Registered)'
    BY <1>0, <1>7, <1>8
<1>. QED BY <1>1, <1>4, <1>10, <1>11, <1>12

\* The register is empty.
LEMMA RegistryInit == ASSUME TVInit PROVE RegistrySums
<1>1. Registered = {}
    BY DEF TVInit, Registered, CallAt, NoCall
<1>2. SumFunction(registry) = 0
    <2>1. DOMAIN registry = Tenants /\ \A t \in Tenants : registry[t] = 0
        BY DEF TVInit
    <2>2. SumFunctionOnSet(registry, Tenants) = 0
        BY <2>1, TVNumbers, SumZero
    <2>. QED BY <2>1, <2>2 DEF SumFunction
<1>3. SumOf({}) = 0
    BY SumEmpty DEF SumOf, SumFunction
<1>4. ~ Spread
    <2>1. {call[c].tenant : c \in {}} = {}
        OBVIOUS
    <2>2. Cardinality({}) = 0
        BY FS_EmptySet
    <2>. QED BY <1>1, <2>1, <2>2 DEF Spread
<1>. QED BY <1>1, <1>2, <1>3, <1>4 DEF RegistrySums

\* Every step keeps the register and the flag that follows from it.
LEMMA RegistryStep ==
    ASSUME TVTypeInv, RegistrySums, [TVNext]_tvVars
    PROVE  RegistrySums'
<1>0. TVTypeOK
    BY DEF TVTypeInv
<1>a. ASSUME NEW c \in Calls, call[c].step \notin {"detect", "done"},
             Rest(c), UNCHANGED <<backend, registry>>,
             \/ call'[c].step \notin {"detect", "done"}
             \/ call'[c].step = "done" /\ call'[c].answer # "PASSED"
      PROVE  RegistrySums'
    <2>1. c \notin Registered /\ c \notin Registered' /\ call[c].step # "done"
        BY <1>a DEF Registered, CallAt
    <2>. QED BY <1>a, <2>1, RegistryStays
<1>b. ASSUME ~ Redis' PROVE RegistrySums'
    BY <1>b DEF RegistrySums
<1>1. ASSUME NEW c \in Calls, NEW t \in Tenants, NEW b \in Benes, NEW a \in Amounts,
             NEW clear \in BOOLEAN, Screen(c, t, b, a, clear)
      PROVE  RegistrySums'
    <2>1. /\ call[c] = NoCall /\ Rest(c) /\ call'[c] \in Screened(c)
          /\ UNCHANGED <<backend, registry>>
        BY <1>0, <1>1, ScreenDoes
    <2>2. call[c].step = "idle"
        BY <2>1 DEF NoCall
    <2>3. \/ call'[c].step = "done" /\ call'[c].answer = "SANCTIONS"
          \/ call'[c].step \in {"fetch", "install"}
        BY <2>1 DEF Screened, Refused
    <2>. QED BY <1>a, <2>1, <2>2, <2>3
<1>2. ASSUME NEW c \in Calls, Install(c) PROVE RegistrySums'
    <2>1. call[c].step = "install" /\ UNCHANGED backend
        BY <1>2 DEF Install, CallAt
    <2>2. ~ Redis'
        BY <2>1 DEF TVTypeInv, NoMemorySteps, Redis
    <2>. QED BY <1>b, <2>2
<1>3. ASSUME NEW c \in Calls, ReadClock(c) \/ Fetch(c) PROVE RegistrySums'
    <2>1. Rest(c) /\ call[c].step = "fetch" /\ call'[c].step = "check"
        BY <1>0, <1>3, ReadClockDoes, FetchDoes
    <2>2. UNCHANGED <<backend, registry>>
        BY <1>3 DEF ReadClock, Fetch
    <2>. QED BY <1>a, <2>1, <2>2
<1>4. ASSUME NEW c \in Calls, CheckAndRecord(c) PROVE RegistrySums'
    <2>1. /\ call[c].step = "check" /\ Rest(c) /\ UNCHANGED <<backend, registry>>
        BY <1>4, CheckDoes
    <2>2. PICK t \in Tenants, s \in Tenants \cup Objects, now \in 0 .. MaxTime, live \in SUBSET Calls :
              Admits(c, t, s, now, live) \/ Fails(c, s, live)
        BY <1>4, CheckedIs
    <2>3. \/ call'[c].step = "register"
          \/ call'[c].step = "done" /\ call'[c].answer # "PASSED"
        BY <2>2 DEF Admits, Fails, Blocks, Loses, Refused, Refusals
    <2>. QED BY <1>a, <2>1, <2>3
<1>5. ASSUME NEW c \in Calls, Register(c) PROVE RegistrySums'
    BY <1>5, RegisterKeepsSums
<1>6. ASSUME NEW c \in Calls, Write(c) PROVE RegistrySums'
    <2>1. call[c].step = "write" /\ UNCHANGED backend
        BY <1>6 DEF Write, CallAt
    <2>2. ~ Redis'
        BY <2>1 DEF TVTypeInv, NoMemorySteps, Redis
    <2>. QED BY <1>b, <2>2
<1>7. ASSUME NEW c \in Calls, Detect(c) PROVE RegistrySums'
    BY <1>7, DetectKeepsSums
<1>8. ASSUME NEW c \in Calls, Raise(c) PROVE RegistrySums'
    <2>1. call'[c].step = "done" /\ call'[c].answer = "RAISED"
        BY <1>0, <1>8, RaiseDoes
    <2>2. ~ NoneRaised'
        BY <2>1 DEF NoneRaised, CallAt
    <2>. QED BY <2>2 DEF RegistrySums
<1>9. CASE TVTick \/ UNCHANGED tvVars
    <2>1. UNCHANGED <<backend, registry, call>>
        BY <1>9 DEF TVTick, tvVars
    <2>. QED BY <2>1 DEF RegistrySums, Redis, NoneRaised, Registered, Spread, SumOf, CallAt
<1>. QED BY <1>1, <1>2, <1>3, <1>4, <1>5, <1>6, <1>7, <1>8, <1>9 DEF TVNext, Step

\* When all have ended without failure, who passed is in the register.
LEMMA SumsFlag ==
    ASSUME RegistrySums
    PROVE  StructuringIsFlagged
<1>. SUFFICES ASSUME Redis, \A c \in Calls : call[c].step \in {"idle", "done"},
                     \A c \in Calls : call[c].step = "done" => call[c].answer # "RAISED",
                     Cardinality({call[c].tenant : c \in Passed}) >= 2,
                     \A t \in Tenants : 0 < DollarCap[t] /\ DollarCap[t] < SumOf(Passed)
              PROVE  \E c \in Passed : call[c].flagged
    BY DEF StructuringIsFlagged
<1>1. Passed = Registered
    BY DEF Passed, Registered, CallAt
<1>2. NoneRaised /\ (\A c \in Calls : ~ CallAt(c, "detect"))
    BY DEF NoneRaised, CallAt
<1>3. Spread
    BY <1>1 DEF Spread
<1>. QED BY <1>1, <1>2, <1>3 DEF RegistrySums

\* With Redis and no failed command the register is the sum of what was put into it, and the
\* last call to ask the detector was flagged if it had to be.
THEOREM RegisterIsExact == TVSpec => [](TVTypeInv /\ RegistrySums)
<1>1. TVInit => TVTypeInv /\ RegistrySums
    BY TVTypeInit, RegistryInit
<1>2. TVTypeInv /\ RegistrySums /\ [TVNext]_tvVars => (TVTypeInv /\ RegistrySums)'
    BY TVTypeStep, RegistryStep
<1>. QED BY <1>1, <1>2, PTL DEF TVSpec

\* FATF R.21: with Redis and no failed command, when the calls that passed moved more through
\* two tenants than the cap of either, one of them was flagged, in whatever order they
\* recorded and asked, for any number of calls (tenant_velocity.py:155-207, 287-304).
THEOREM StructuringIsFlaggedHolds == TVSpec => []StructuringIsFlagged
<1>1. RegistrySums => StructuringIsFlagged
    BY SumsFlag
<1>. QED BY <1>1, RegisterIsExact, PTL
=============================================================================
