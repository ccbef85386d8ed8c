---------------------- MODULE RebalanceStrategy_proofs ----------------------
(***************************************************************************)
(* Proofs about RebalanceStrategy, for any nodes, metrics and thresholds.  *)
(*                                                                         *)
(* The plans of a round are plans of the strategy that made them for the   *)
(* round's own snapshot (PlanInv), whatever is reported meanwhile.  What   *)
(* is to be shown of them then follows from how nodes are paired: the      *)
(* order has no node twice, and a pair never reaches its middle.           *)
(*                                                                         *)
(* That the composite strategy always finds a strategy to plan with needs  *)
(* the sums behind the scores to be numbers: they are folds over the nodes *)
(* of a snapshot, and a set of nodes without a sum would have a smallest   *)
(* subset without one.                                                     *)
(***************************************************************************)
EXTENDS RebalanceStrategy, FiniteSetTheorems, WellFoundedInduction, TLAPS

\* What the collector may hold.
Snapshots == UNION {[d -> Metric] : d \in SUBSET Nodes}

PlanInv ==
  /\ strategy \in Strategies
  /\ metrics \in Snapshots /\ snapshot \in Snapshots
  /\ \/ plans = <<>>
     \/ phase = "planned" /\ maker \in Single /\ plans \in GeneratePlan(maker, snapshot)

-----------------------------------------------------------------------------
LEMMA LargerOf ==
  ASSUME NEW a \in Int, NEW b \in Int
  PROVE  /\ Max({a, b}) \in {a, b} /\ Max({a, b}) >= a /\ Max({a, b}) >= b
<1>1. \E x \in {a, b} : \A y \in {a, b} : x >= y
  <2>1. CASE a >= b
    BY <2>1
  <2>2. CASE b >= a
    BY <2>2
  <2> QED BY <2>1, <2>2
<1>2. Max({a, b}) \in {a, b} /\ \A y \in {a, b} : Max({a, b}) >= y
  BY <1>1 DEF Max
<1> QED BY <1>2

LEMMA SmallerOf ==
  ASSUME NEW a \in Int, NEW b \in Int
  PROVE  /\ Min({a, b}) \in {a, b} /\ Min({a, b}) <= a /\ Min({a, b}) <= b
<1>1. \E x \in {a, b} : \A y \in {a, b} : x =< y
  <2>1. CASE a <= b
    BY <2>1
  <2>2. CASE b <= a
    BY <2>2
  <2> QED BY <2>1, <2>2
<1>2. Min({a, b}) \in {a, b} /\ \A y \in {a, b} : Min({a, b}) =< y
  BY <1>1 DEF Min
<1> QED BY <1>2

\* A comparison of floating point numbers that succeeds may be an equality.
LEMMA GreaterMeans ==
  ASSUME NEW a \in Int, NEW b \in Int, TRUE \in Greater(a, b)
  PROVE  a >= b
<1>1. CASE a = b
  BY <1>1
<1>2. CASE a # b
  <2>1. a > b
    BY <1>2, Zenon DEF Greater
  <2> QED BY <2>1
<1> QED BY <1>1, <1>2

(***************************************************************************)
(* Sums.  The fold in Sum is a recursive function: that there is one, and  *)
(* what it yields, is shown by induction over the subsets of its domain.   *)
(***************************************************************************)
\* Induction over finite sets, as the existence of a smallest counterexample:
\* among subsets of a finite set there is one that contains no other.
LEMMA SmallestSubset ==
  ASSUME NEW S, IsFiniteSet(S), NEW T, T \subseteq SUBSET S, T # {}
  PROVE  \E U \in T : \A V \in T : V \subseteq U => V = U
<1>1. IsWellFoundedOn(StrictSubsetOrdering(S), SUBSET S)
  BY FS_StrictSubsetOrderingWellFounded, FS_FiniteSubsetsOfFinite
<1>2. \E U \in T : \A V \in T : ~(<<V, U>> \in StrictSubsetOrdering(S))
  BY <1>1, WFMin
<1> QED BY <1>2 DEF StrictSubsetOrdering

OneOf(s) == CHOOSE x \in s : TRUE

\* g gives the sum of f over every subset of its domain, one element at a time.
SumsUp(f, g) ==
  g = [s \in SUBSET DOMAIN f |-> IF s = {} THEN 0 ELSE f[OneOf(s)] + g[s \ {OneOf(s)}]]

\* A pile of f[n] things for each n: its size is the sum.
Pile(f, s) == UNION {{n} \X (1..f[n]) : n \in s}

LEMMA PileFinite ==
  ASSUME NEW f, NEW s, IsFiniteSet(s), \A n \in s : f[n] \in Nat
  PROVE  IsFiniteSet(Pile(f, s)) /\ Cardinality(Pile(f, s)) \in Nat
<1> DEFINE Of(n) == {n} \X (1..f[n])
           all == {Of(n) : n \in s}
<1>1. \A n \in s : IsFiniteSet(Of(n))
  <2> SUFFICES ASSUME NEW n \in s PROVE IsFiniteSet(Of(n))
    OBVIOUS
  <2>1. IsFiniteSet({n})
    BY FS_Singleton
  <2>2. IsFiniteSet(1..f[n])
    BY FS_Interval
  <2> QED BY <2>1, <2>2, FS_Product
<1>2. IsFiniteSet(all)
  <2> DEFINE h == [n \in s |-> Of(n)]
  <2>1. h \in Surjection(s, all)
    BY DEF Surjection
  <2> HIDE DEF h, all
  <2> QED BY <2>1, FS_Surjection
<1>3. IsFiniteSet(UNION all)
  <2>1. \A S \in all : IsFiniteSet(S)
    BY <1>1
  <2> HIDE DEF all
  <2> QED BY <1>2, <2>1, FS_UNION
<1> QED BY <1>3, FS_CardinalityType DEF Pile

LEMMA PileGrows ==
  ASSUME NEW f, NEW s, IsFiniteSet(s), \A n \in s : f[n] \in Nat, NEW x \in s
  PROVE  Cardinality(Pile(f, s)) = f[x] + Cardinality(Pile(f, s \ {x}))
<1> DEFINE one == {x} \X (1..f[x])
           rest == Pile(f, s \ {x})
<1>1. Pile(f, s) = one \union rest
  <2>1. ASSUME NEW e \in Pile(f, s) PROVE e \in one \union rest
    BY <2>1 DEF Pile
  <2>2. ASSUME NEW e \in one \union rest PROVE e \in Pile(f, s)
    BY <2>2 DEF Pile
  <2> QED BY <2>1, <2>2
<1>2. one \cap rest = {}
  BY DEF Pile
<1>3. IsFiniteSet(one) /\ Cardinality(one) = f[x]
  <2>1. IsFiniteSet({x}) /\ Cardinality({x}) = 1
    BY FS_Singleton
  <2>2. IsFiniteSet(1..f[x]) /\ Cardinality(1..f[x]) = f[x]
    <3>1. 1 \in Int /\ f[x] \in Int /\ f[x] >= 0
      OBVIOUS
    <3>2. /\ IsFiniteSet(1..f[x])
          /\ Cardinality(1..f[x]) = IF 1 > f[x] THEN 0 ELSE f[x] - 1 + 1
      BY <3>1, FS_Interval
    <3> QED BY <3>1, <3>2
  <2>3. IsFiniteSet(one) /\ Cardinality(one) = Cardinality({x}) * Cardinality(1..f[x])
    BY <2>1, <2>2, FS_Product
  <2> QED BY <2>1, <2>2, <2>3
<1>4. IsFiniteSet(rest) /\ Cardinality(rest) \in Nat
  <2>1. IsFiniteSet(s \ {x})
    BY FS_Difference
  <2> QED BY <2>1, PileFinite
<1> HIDE DEF one, rest
<1>5. Cardinality(one \union rest) = Cardinality(one) + Cardinality(rest) - Cardinality(one \cap rest)
  BY <1>3, <1>4, FS_Union
<1>6. Cardinality(one \cap rest) = 0
  BY <1>2, FS_EmptySet
<1>7. Cardinality(Pile(f, s)) = f[x] + Cardinality(rest)
  BY <1>1, <1>3, <1>4, <1>5, <1>6
<1> QED BY <1>7 DEF rest

LEMMA SumsUpExists ==
  ASSUME NEW f, IsFiniteSet(DOMAIN f), \A n \in DOMAIN f : f[n] \in Nat
  PROVE  \E g : SumsUp(f, g)
<1> DEFINE g == [s \in SUBSET DOMAIN f |-> Cardinality(Pile(f, s))]
<1>1. ASSUME NEW s \in SUBSET DOMAIN f
      PROVE  g[s] = IF s = {} THEN 0 ELSE f[OneOf(s)] + g[s \ {OneOf(s)}]
  <2>1. CASE s = {}
    <3>1. Pile(f, s) = {}
      BY <2>1 DEF Pile
    <3> QED BY <2>1, <3>1, FS_EmptySet
  <2>2. CASE s # {}
    <3>1. OneOf(s) \in s
      BY <2>2 DEF OneOf
    <3>2. IsFiniteSet(s)
      BY FS_Subset
    <3>3. Cardinality(Pile(f, s)) = f[OneOf(s)] + Cardinality(Pile(f, s \ {OneOf(s)}))
      BY <3>1, <3>2, PileGrows
    <3>4. g[s] = Cardinality(Pile(f, s)) /\ g[s \ {OneOf(s)}] = Cardinality(Pile(f, s \ {OneOf(s)}))
      OBVIOUS
    <3> QED BY <2>2, <3>3, <3>4
  <2> QED BY <2>1, <2>2
<1>2. g = [s \in SUBSET DOMAIN f |-> g[s]]
  OBVIOUS
<1> HIDE DEF g
<1>3. g = [s \in SUBSET DOMAIN f |-> IF s = {} THEN 0 ELSE f[OneOf(s)] + g[s \ {OneOf(s)}]]
  BY <1>1, <1>2
<1>4. SumsUp(f, g)
  BY <1>3 DEF SumsUp
<1> QED BY <1>4

\* The sum of natural numbers is one.
LEMMA SumIsNat ==
  ASSUME NEW f, IsFiniteSet(DOMAIN f), \A n \in DOMAIN f : f[n] \in Nat
  PROVE  Sum(f) \in Nat
<1> DEFINE g == CHOOSE h : SumsUp(f, h)
<1>1. Sum(f) = g[DOMAIN f]
  BY DEF Sum, MapThenSumSet, MapThenFoldSet, SumsUp, OneOf
<1>2. SumsUp(f, g)
  BY SumsUpExists
<1> HIDE DEF g
<1>3. \A s \in SUBSET DOMAIN f : g[s] = IF s = {} THEN 0 ELSE f[OneOf(s)] + g[s \ {OneOf(s)}]
  BY <1>2 DEF SumsUp
<1> DEFINE Bad == {s \in SUBSET DOMAIN f : g[s] \notin Nat}
<1>4. Bad = {}
  <2> SUFFICES ASSUME Bad # {} PROVE FALSE
    OBVIOUS
  <2>1. PICK s \in Bad : \A v \in Bad : v \subseteq s => v = s
    <3>1. Bad \subseteq SUBSET DOMAIN f
      OBVIOUS
    <3> HIDE DEF Bad
    <3> QED BY <3>1, SmallestSubset
  <2>2. s # {} 
    BY <1>3
  <2>3. OneOf(s) \in s
    BY <2>2 DEF OneOf
  <2>4. s \ {OneOf(s)} \notin Bad
    BY <2>1, <2>3
  <2>5. g[s \ {OneOf(s)}] \in Nat
    BY <2>4
  <2>6. g[s] = f[OneOf(s)] + g[s \ {OneOf(s)}]
    BY <1>3, <2>2
  <2>7. f[OneOf(s)] \in Nat
    BY <2>3
  <2> QED BY <2>5, <2>6, <2>7
<1>5. g[DOMAIN f] \in Nat
  BY <1>4
<1> QED BY <1>1, <1>5

-----------------------------------------------------------------------------
LEMMA SnapshotNumbers ==
  ASSUME NEW snap \in Snapshots
  PROVE  /\ IsFiniteSet(DOMAIN snap) /\ Cardinality(DOMAIN snap) \in Nat
         /\ \A n \in DOMAIN snap : /\ snap[n].cpu \in Nat /\ snap[n].mem \in Nat
                                   /\ snap[n].disk \in Nat /\ snap[n].shards \in Nat
         /\ TotalShards(snap) \in Nat
<1>1. DOMAIN snap \subseteq Nodes /\ \A n \in DOMAIN snap : snap[n] \in Metric
  BY DEF Snapshots
<1>2. IsFiniteSet(DOMAIN snap)
  BY <1>1, FS_Subset, StrategyAssumption
<1>3. \A n \in DOMAIN snap : /\ snap[n].cpu \in Nat /\ snap[n].mem \in Nat
                             /\ snap[n].disk \in Nat /\ snap[n].shards \in Nat
  BY <1>1 DEF Metric
<1>4. TotalShards(snap) \in Nat
  <2> DEFINE f == [n \in DOMAIN snap |-> snap[n].shards]
  <2>1. DOMAIN f = DOMAIN snap /\ \A n \in DOMAIN f : f[n] \in Nat
    BY <1>3
  <2>2. Sum(f) \in Nat
    <3> HIDE DEF f
    <3> QED BY <2>1, <1>2, SumIsNat
  <2> QED BY <2>2 DEF TotalShards
<1>5. Cardinality(DOMAIN snap) \in Nat
  BY <1>2, FS_CardinalityType
<1> QED BY <1>2, <1>3, <1>4, <1>5

\* Two numbers at most halfway from opposite ends do not meet.
LEMMA Sides ==
  ASSUME NEW n \in Nat, NEW i \in Int, NEW j \in Int, i >= 1, j >= 1,
         i <= n \div 2, j <= n \div 2
  PROVE  /\ i \in 1..n /\ n - i + 1 \in 1..n
         /\ i # n - j + 1
         /\ i # j => n - i + 1 # n - j + 1
<1>1. 2 * (n \div 2) <= n
  OBVIOUS
<1> DEFINE h == n \div 2
<1>2. h \in Int /\ 2 * h <= n
  BY <1>1
<1> HIDE DEF h
<1> QED BY <1>2 DEF h

\* The plan is one for the i-th pair of an order of n nodes; w and sh are what
\* the strategy gives to PairPlans.
PairedPlan(order, i, n, plan, w, sh) ==
  /\ i \in Int /\ i >= 1 /\ i <= n \div 2
  /\ plan.source = order[i] /\ plan.target = order[n - i + 1]
  /\ plan.shards = sh[<<plan.source, plan.target>>]
  /\ TRUE \in w[<<plan.source, plan.target>>]

LEMMA PlanShape ==
  ASSUME NEW load, NEW maxPairs \in Int, NEW w, NEW sh, IsFiniteSet(DOMAIN load),
         NEW n, n = Cardinality(DOMAIN load),
         NEW p \in PairPlans(load, maxPairs, w, sh)
  PROVE  \E order \in [1..n -> DOMAIN load] : \E s :
           /\ \A i, j \in 1..n : i # j => order[i] # order[j]
           /\ \A j, k \in DOMAIN p : j # k => s[j] # s[k]
           /\ \A k \in DOMAIN p : PairedPlan(order, s[k], n, p[k], w, sh)
<1> DEFINE Pairs == 1..Min({maxPairs, n \div 2})
           Plan(order, i) == [source |-> order[i], target |-> Target(order, i),
                              shards |-> sh[Between(order, i)], priority |-> 11 - i]
<1>1. PICK order \in Sorted(load) :
        p \in UNION {{[k \in DOMAIN s |-> Plan(order, s[k])] : s \in Ascending(c)} :
                       c \in Chosen(order, Pairs, w)}
  BY DEF PairPlans
<1>2. PICK c \in Chosen(order, Pairs, w) :
        p \in {[k \in DOMAIN s |-> Plan(order, s[k])] : s \in Ascending(c)}
  BY <1>1
<1>3. PICK s \in Ascending(c) : p = [k \in DOMAIN s |-> Plan(order, s[k])]
  BY <1>2
<1>4. /\ order \in [1..n -> DOMAIN load]
      /\ \A i, j \in 1..n : i # j => order[i] # order[j]
  BY DEF Sorted, SetToSeqs
<1>5. n \in Nat
  BY FS_CardinalityType
<1>6. Len(order) = n
  BY <1>4, <1>5
<1>7. /\ \A j, k \in DOMAIN s : j # k => s[j] # s[k]
      /\ \A k \in DOMAIN s : s[k] \in c
  BY DEF Ascending, SetToSeqs
<1>8. /\ c \subseteq Pairs /\ \A i \in c : TRUE \in w[Between(order, i)]
  BY Zenon DEF Chosen
<1>9. \A i \in Pairs : i \in Int /\ i >= 1 /\ i <= n \div 2
  <2> DEFINE h == n \div 2
  <2>1. h \in Int
    BY <1>5
  <2> HIDE DEF h
  <2>2. Min({maxPairs, h}) \in Int /\ Min({maxPairs, h}) <= h
    BY <2>1, SmallerOf
  <2>3. \A i \in 1..Min({maxPairs, h}) : i \in Int /\ i >= 1 /\ i <= h
    BY <2>1, <2>2
  <2> QED BY <2>3, Zenon DEF h
<1>10. ASSUME NEW k \in DOMAIN p PROVE PairedPlan(order, s[k], n, p[k], w, sh)
  <2>1. k \in DOMAIN s /\ p[k] = Plan(order, s[k])
    BY <1>3
  <2>2. s[k] \in Int /\ s[k] >= 1 /\ s[k] <= n \div 2 /\ TRUE \in w[Between(order, s[k])]
    BY <2>1, <1>7, <1>8, <1>9, Zenon
  <2>3. /\ p[k].source = order[s[k]] /\ p[k].target = order[n - s[k] + 1]
        /\ p[k].shards = sh[Between(order, s[k])]
    BY <2>1, <1>6 DEF Target
  <2>4. Between(order, s[k]) = <<p[k].source, p[k].target>>
    BY <2>3, <1>6 DEF Between, Target
  <2> QED BY <2>2, <2>3, <2>4, Zenon DEF PairedPlan
<1>11. \A j, k \in DOMAIN p : j # k => s[j] # s[k]
  BY <1>3, <1>7
<1> QED BY <1>4, <1>10, <1>11, Zenon

\* Plans made from the pairs have no node in common, and all their nodes are in
\* the snapshot.
LEMMA PairsApart ==
  ASSUME NEW load, NEW maxPairs \in Int, NEW w, NEW sh, IsFiniteSet(DOMAIN load),
         NEW p \in PairPlans(load, maxPairs, w, sh)
  PROVE  /\ \A j, k \in DOMAIN p : j # k =>
              {p[j].source, p[j].target} \cap {p[k].source, p[k].target} = {}
         /\ \A k \in DOMAIN p :
              /\ p[k].source \in DOMAIN load /\ p[k].target \in DOMAIN load
              /\ p[k].shards = sh[<<p[k].source, p[k].target>>]
              /\ TRUE \in w[<<p[k].source, p[k].target>>]
<1> DEFINE n == Cardinality(DOMAIN load)
<1>1. n \in Nat
  BY FS_CardinalityType
<1>0. PICK order \in [1..n -> DOMAIN load] : \E s :
        /\ \A i, j \in 1..n : i # j => order[i] # order[j]
        /\ \A j, k \in DOMAIN p : j # k => s[j] # s[k]
        /\ \A k \in DOMAIN p : PairedPlan(order, s[k], n, p[k], w, sh)
  BY PlanShape
<1>2. PICK s :
        /\ \A i, j \in 1..n : i # j => order[i] # order[j]
        /\ \A j, k \in DOMAIN p : j # k => s[j] # s[k]
        /\ \A k \in DOMAIN p : PairedPlan(order, s[k], n, p[k], w, sh)
  BY <1>0, Zenon
<1> HIDE DEF n
<1>3. ASSUME NEW j \in DOMAIN p, NEW k \in DOMAIN p, j # k
      PROVE  {p[j].source, p[j].target} \cap {p[k].source, p[k].target} = {}
  <2> DEFINE a == s[j]
             b == s[k]
  <2>1. /\ a # b /\ a \in Int /\ a >= 1 /\ a <= n \div 2 /\ b \in Int /\ b >= 1 /\ b <= n \div 2
        /\ p[j].source = order[a] /\ p[j].target = order[n - a + 1]
        /\ p[k].source = order[b] /\ p[k].target = order[n - b + 1]
    BY <1>2, <1>3, Zenon DEF PairedPlan
  <2> HIDE DEF a, b
  <2>2. /\ a \in 1..n /\ b \in 1..n /\ n - a + 1 \in 1..n /\ n - b + 1 \in 1..n
        /\ a # n - b + 1 /\ b # n - a + 1 /\ n - a + 1 # n - b + 1
    BY <2>1, <1>1, Sides
  <2>3. /\ order[a] # order[b] /\ order[a] # order[n - b + 1]
        /\ order[n - a + 1] # order[b] /\ order[n - a + 1] # order[n - b + 1]
    BY <2>1, <2>2, <1>2, Zenon
  <2> QED BY <2>1, <2>3, Zenon
<1>4. ASSUME NEW k \in DOMAIN p
      PROVE  /\ p[k].source \in DOMAIN load /\ p[k].target \in DOMAIN load
             /\ p[k].shards = sh[<<p[k].source, p[k].target>>]
             /\ TRUE \in w[<<p[k].source, p[k].target>>]
  <2> DEFINE a == s[k]
  <2>1. /\ a \in Int /\ a >= 1 /\ a <= n \div 2
        /\ p[k].source = order[a] /\ p[k].target = order[n - a + 1]
        /\ p[k].shards = sh[<<p[k].source, p[k].target>>]
        /\ TRUE \in w[<<p[k].source, p[k].target>>]
    BY <1>2, Zenon DEF PairedPlan
  <2> HIDE DEF a
  <2>2. a \in 1..n /\ n - a + 1 \in 1..n
    BY <2>1, <1>1, Sides
  <2>3. order[a] \in DOMAIN load /\ order[n - a + 1] \in DOMAIN load
    BY <2>2, <1>0
  <2> QED BY <2>1, <2>3, Zenon
<1> QED BY <1>3, <1>4, Zenon

LEMMA LoadNumbers ==
  ASSUME NEW snap \in Snapshots, NEW t \in Single
  PROVE  /\ DOMAIN Load(t, snap) = DOMAIN snap
         /\ \A n \in DOMAIN snap : Load(t, snap)[n] \in Nat
<1>1. DOMAIN Load(t, snap) = DOMAIN snap
  BY DEF Load
<1>2. ASSUME NEW n \in DOMAIN snap PROVE Load(t, snap)[n] \in Nat
  <2>1. /\ snap[n].cpu \in Nat /\ snap[n].mem \in Nat /\ snap[n].disk \in Nat /\ snap[n].shards \in Nat
        /\ TotalShards(snap) \in Nat /\ Cardinality(DOMAIN snap) \in Nat
    BY SnapshotNumbers
  <2>2. CASE t = "capacity" \/ t = "access"
    BY <2>1, <2>2 DEF Load
  <2>3. CASE t = "weighted"
    <3> DEFINE own == 2 * snap[n].cpu + snap[n].mem + snap[n].disk
               total == TotalShards(snap)
               count == Cardinality(DOMAIN snap)
               held == snap[n].shards
    <3>1. own \in Nat /\ total \in Nat /\ count \in Nat /\ held \in Nat
      BY <2>1
    <3>2. calculateNodeScore(snap, n) = IF total = 0 THEN own ELSE total * own + 10 * count * held
      BY DEF calculateNodeScore
    <3> HIDE DEF own, total, count, held
    <3>3. calculateNodeScore(snap, n) \in Nat
      BY <3>1, <3>2
    <3> QED BY <3>3, <2>3 DEF Load
  <2> QED BY <2>2, <2>3 DEF Single
<1> QED BY <1>1, <1>2

\* What a strategy's test of a pair says of their loads.
LEMMA WorthwhileIsHeavier ==
  ASSUME NEW d \in Int, NEW total \in Nat
  PROVE  /\ TRUE \in (IF d = 0 THEN {FALSE} ELSE Greater(20 * d, Max({1, total}))) => d > 0
         /\ TRUE \in Greater(d, 1) => d > 0
         /\ TRUE \in {d >= 2} => d > 0
<1>1. ASSUME TRUE \in (IF d = 0 THEN {FALSE} ELSE Greater(20 * d, Max({1, total}))) PROVE d > 0
  <2>1. d # 0
    BY <1>1, Zenon
  <2>2. TRUE \in Greater(20 * d, Max({1, total}))
    BY <1>1, <2>1, Zenon
  <2>3. Max({1, total}) \in Int /\ Max({1, total}) >= 1 /\ 20 * d \in Int
    BY LargerOf
  <2>4. 20 * d >= Max({1, total})
    BY <2>2, <2>3, GreaterMeans
  <2> QED BY <2>3, <2>4
<1>2. ASSUME TRUE \in Greater(d, 1) PROVE d > 0
  <2>1. 1 \in Int
    OBVIOUS
  <2>2. d >= 1
    BY <1>2, <2>1, GreaterMeans, Zenon
  <2> QED BY <2>2
<1>3. ASSUME TRUE \in {d >= 2} PROVE d > 0
  <2>1. d >= 2
    BY <1>3, Zenon
  <2> QED BY <2>1
<1> QED BY <1>1, <1>2, <1>3, Zenon

\* What every plan of a round is like.
GoodPlan(t, snap, plan) ==
  /\ plan.source \in DOMAIN snap /\ plan.target \in DOMAIN snap
  /\ Load(t, snap)[plan.source] > Load(t, snap)[plan.target]
  /\ t = "weighted" =>
       plan.shards = shardsToMigrate(snap[plan.source].shards, snap[plan.target].shards)

Apart(p) ==
  \A j, k \in DOMAIN p : j # k => {p[j].source, p[j].target} \cap {p[k].source, p[k].target} = {}

LEMMA GeneratedPlans ==
  ASSUME NEW snap \in Snapshots, NEW t \in Single, NEW p \in GeneratePlan(t, snap)
  PROVE  Apart(p) /\ \A k \in DOMAIN p : GoodPlan(t, snap, p[k])
<1> DEFINE load == Load(t, snap)
<1>1. /\ DOMAIN load = DOMAIN snap /\ IsFiniteSet(DOMAIN load)
      /\ \A n \in DOMAIN snap : load[n] \in Int
  BY LoadNumbers, SnapshotNumbers
<1>2. TotalShards(snap) \in Nat /\ Cardinality(DOMAIN snap) \in Nat
  BY SnapshotNumbers
<1>3. (Cardinality(DOMAIN snap) + 2) \div 3 \in Int
  BY <1>2
\* From here on, w and sh are what the strategy gives to PairPlans.
<1>4. ASSUME NEW maxPairs \in Int, NEW w, NEW sh, p \in PairPlans(load, maxPairs, w, sh),
             \A a, b \in DOMAIN snap : TRUE \in w[<<a, b>>] => load[a] - load[b] > 0,
             t = "weighted" => \A a, b \in DOMAIN snap :
               sh[<<a, b>>] = shardsToMigrate(snap[a].shards, snap[b].shards)
      PROVE  Apart(p) /\ \A k \in DOMAIN p : GoodPlan(t, snap, p[k])
  <2> HIDE DEF load
  <2>1. Apart(p)
    BY <1>1, <1>4, PairsApart DEF Apart
  <2>2. ASSUME NEW k \in DOMAIN p PROVE GoodPlan(t, snap, p[k])
    <3>1. /\ p[k].source \in DOMAIN load /\ p[k].target \in DOMAIN load
          /\ p[k].shards = sh[<<p[k].source, p[k].target>>]
          /\ TRUE \in w[<<p[k].source, p[k].target>>]
      BY <1>1, <1>4, PairsApart
    <3>2. p[k].source \in DOMAIN snap /\ p[k].target \in DOMAIN snap
      BY <3>1, <1>1
    <3>3. load[p[k].source] - load[p[k].target] > 0
      BY <3>1, <3>2, <1>4, Zenon
    <3>4. load[p[k].source] > load[p[k].target]
      BY <3>2, <3>3, <1>1
    <3>5. t = "weighted" =>
            p[k].shards = shardsToMigrate(snap[p[k].source].shards, snap[p[k].target].shards)
      BY <3>1, <3>2, <1>4, Zenon
    <3> QED BY <3>2, <3>4, <3>5, Zenon DEF GoodPlan, load
  <2> QED BY <2>1, <2>2
<1>5. \A a, b \in DOMAIN snap :
        <<a, b>> \in Ends(snap) /\ Difference(load, <<a, b>>) = load[a] - load[b]
          /\ load[a] - load[b] \in Int
  BY <1>1 DEF Ends, Difference
<1>6. CASE t = "weighted"
  <2> DEFINE w == [e \in Ends(snap) |-> IF Difference(load, e) = 0 THEN {FALSE}
                     ELSE Greater(20 * Difference(load, e), Max({1, TotalShards(snap)}))]
             sh == [e \in Ends(snap) |-> shardsToMigrate(snap[e[1]].shards, snap[e[2]].shards)]
  <2>1. p \in PairPlans(load, (Cardinality(DOMAIN snap) + 2) \div 3, w, sh)
    BY <1>6 DEF GeneratePlan, GenerateWeighted
  <2>2. ASSUME NEW a \in DOMAIN snap, NEW b \in DOMAIN snap, TRUE \in w[<<a, b>>]
        PROVE  load[a] - load[b] > 0
    <3> DEFINE d == load[a] - load[b]
    <3>1. w[<<a, b>>] = (IF d = 0 THEN {FALSE} ELSE Greater(20 * d, Max({1, TotalShards(snap)})))
      BY <1>5, Zenon
    <3>2. d \in Int
      BY <1>5
    <3> HIDE DEF d, w
    <3>3. d > 0
      BY <3>1, <3>2, <2>2, <1>2, WorthwhileIsHeavier
    <3> QED BY <3>3 DEF d
  <2>3. \A a, b \in DOMAIN snap : sh[<<a, b>>] = shardsToMigrate(snap[a].shards, snap[b].shards)
    BY <1>5
  <2> HIDE DEF load, w, sh
  <2> QED BY <2>1, <2>2, <2>3, <1>3, <1>4
<1>7. CASE t = "capacity"
  <2> DEFINE w == [e \in Ends(snap) |-> Greater(Difference(load, e), 1)]
             sh == [e \in Ends(snap) |-> Max({1, (3 * snap[e[1]].shards) \div 10})]
  <2>1. p \in PairPlans(load, (Cardinality(DOMAIN snap) + 2) \div 3, w, sh)
    BY <1>7 DEF GeneratePlan, GenerateCapacity
  <2>2. ASSUME NEW a \in DOMAIN snap, NEW b \in DOMAIN snap, TRUE \in w[<<a, b>>]
        PROVE  load[a] - load[b] > 0
    <3> DEFINE d == load[a] - load[b]
    <3>1. w[<<a, b>>] = Greater(d, 1)
      BY <1>5, Zenon
    <3>2. d \in Int
      BY <1>5
    <3> HIDE DEF d, w
    <3>3. d > 0
      BY <3>1, <3>2, <2>2, WorthwhileIsHeavier, <1>2
    <3> QED BY <3>3 DEF d
  <2>3. t # "weighted"
    BY <1>7
  <2> HIDE DEF load, w, sh
  <2> QED BY <2>1, <2>2, <2>3, <1>3, <1>4
<1>8. CASE t = "access"
  <2> DEFINE w == [e \in Ends(snap) |-> {Difference(load, e) >= 2}]
             sh == [e \in Ends(snap) |-> Max({1, snap[e[1]].shards \div 5})]
  <2>1. p \in PairPlans(load, 2, w, sh)
    BY <1>8 DEF GeneratePlan, GenerateAccess
  <2>2. ASSUME NEW a \in DOMAIN snap, NEW b \in DOMAIN snap, TRUE \in w[<<a, b>>]
        PROVE  load[a] - load[b] > 0
    <3> DEFINE d == load[a] - load[b]
    <3>1. w[<<a, b>>] = {d >= 2}
      BY <1>5, Zenon
    <3>2. d \in Int
      BY <1>5
    <3> HIDE DEF d, w
    <3>3. d > 0
      BY <3>1, <3>2, <2>2, WorthwhileIsHeavier, <1>2
    <3> QED BY <3>3 DEF d
  <2>3. t # "weighted" /\ 2 \in Int
    BY <1>8
  <2> HIDE DEF load, w, sh
  <2> QED BY <2>1, <2>2, <2>3, <1>4
<1> QED BY <1>6, <1>7, <1>8 DEF Single

-----------------------------------------------------------------------------
(***************************************************************************)
(* The composite finds a best strategy.  A strategy asks for a round only  *)
(* if its loads differ, so it is a candidate of GeneratePlan; of the       *)
(* candidates one has the highest score, because the comparison of scores, *)
(* here without division, is total and transitive.                         *)
(***************************************************************************)
LEMMA MulMono ==
  ASSUME NEW x \in Int, NEW y \in Int, NEW k \in Nat, x >= y
  PROVE  k * x >= k * y
OBVIOUS

LEMMA MulCancel ==
  ASSUME NEW x \in Int, NEW y \in Int, NEW k \in Nat, k > 0, k * x >= k * y
  PROVE  x >= y
OBVIOUS

\* a / A >= b / B >= c / C, written without division.
LEMMA RatioTransitive ==
  ASSUME NEW a \in Nat, NEW b \in Nat, NEW c \in Nat, b > 0,
         NEW A \in Nat, NEW B \in Nat, NEW C \in Nat,
         a * B >= b * A, b * C >= c * B
  PROVE  a * C >= c * A
<1>0. /\ a * B \in Int /\ b * A \in Int /\ b * C \in Int /\ c * B \in Int
      /\ a * C \in Nat /\ c * A \in Nat
  OBVIOUS
<1>1. C * (a * B) >= C * (b * A)
  BY <1>0, MulMono
<1>2. A * (b * C) >= A * (c * B)
  BY <1>0, MulMono
<1>3. C * (a * B) = B * (a * C) /\ C * (b * A) = A * (b * C) /\ A * (c * B) = B * (c * A)
  OBVIOUS
<1>4. B * (a * C) >= B * (c * A)
  BY <1>0, <1>1, <1>2, <1>3
<1>5. CASE B > 0
  BY <1>0, <1>4, <1>5, MulCancel
<1>6. CASE B = 0
  <2>1. b * A <= 0
    BY <1>6
  <2>2. A = 0
    BY <2>1
  <2> QED BY <2>2, <1>0
<1> QED BY <1>5, <1>6

\* R compares the elements of C.
Ranks(R, C) ==
  /\ \A t, u \in C : <<t, u>> \in R \/ <<u, t>> \in R
  /\ \A t, u, v \in C : <<t, u>> \in R /\ <<u, v>> \in R => <<t, v>> \in R

\* t is highest among the elements of X that are in C.
Highest(t, X, C, R) == t \in C /\ \A u \in C \cap X : <<t, u>> \in R

LEMMA OneMore ==
  ASSUME NEW C, NEW R, Ranks(R, C), NEW X, \E t : Highest(t, X, C, R), NEW x
  PROVE  \E t : Highest(t, X \union {x}, C, R)
<1>1. PICK t : Highest(t, X, C, R)
  OBVIOUS
<1>2. CASE x \notin C \/ <<t, x>> \in R
  <2>1. Highest(t, X \union {x}, C, R)
    BY <1>1, <1>2 DEF Highest
  <2> QED BY <2>1
<1>3. CASE x \in C /\ <<x, t>> \in R
  <2>1. Highest(x, X \union {x}, C, R)
    BY <1>1, <1>3 DEF Highest, Ranks
  <2> QED BY <2>1
<1> QED BY <1>1, <1>2, <1>3 DEF Highest, Ranks

LEMMA HighestOfSingle ==
  ASSUME NEW C, C \subseteq Single, C # {}, NEW R, Ranks(R, C)
  PROVE  \E t \in C : \A u \in C : <<t, u>> \in R
<1>1. \E t : Highest(t, {}, C, R)
  BY DEF Highest
<1>2. \E t : Highest(t, {} \union {"weighted"}, C, R)
  BY <1>1, OneMore
<1>3. \E t : Highest(t, ({} \union {"weighted"}) \union {"capacity"}, C, R)
  BY <1>2, OneMore
<1>4. \E t : Highest(t, (({} \union {"weighted"}) \union {"capacity"}) \union {"access"}, C, R)
  BY <1>3, OneMore
<1> QED BY <1>4 DEF Highest, Single

LEMMA ScoreNumbers ==
  ASSUME NEW snap \in Snapshots, NEW t \in Single
  PROVE  Sum(Load(t, snap)) \in Nat /\ Spread(Load(t, snap)) \in Int
<1> DEFINE load == Load(t, snap)
<1>1. /\ DOMAIN load = DOMAIN snap /\ IsFiniteSet(DOMAIN load) /\ Cardinality(DOMAIN load) \in Nat
      /\ \A n \in DOMAIN load : load[n] \in Nat
  BY LoadNumbers, SnapshotNumbers
<1> HIDE DEF load
<1>2. Sum(load) \in Nat
  BY <1>1, SumIsNat
<1>3. Sum(Squares(load)) \in Nat
  <2>1. DOMAIN Squares(load) = DOMAIN load
    BY DEF Squares
  <2>2. \A n \in DOMAIN load : Squares(load)[n] \in Nat
    BY <1>1 DEF Squares
  <2> QED BY <2>1, <2>2, <1>1, SumIsNat
<1>4. Spread(load) \in Int
  BY <1>1, <1>2, <1>3 DEF Spread
<1> QED BY <1>2, <1>4 DEF load

\* The thresholds are positive, so a strategy that asks for a round has a
\* positive score.
LEMMA ImbalancedScores ==
  ASSUME NEW load, Sum(load) \in Nat, Spread(load) \in Int, NEW threshold \in Int,
         TRUE \in Imbalanced(load, NewBaseStrategy(threshold))
  PROVE  Scores(load)
<1> DEFINE th == NewBaseStrategy(threshold)
           total == Sum(load)
<1>1. th \in Int /\ th > 0
  BY DEF NewBaseStrategy
<1>2. total # 0
  BY Zenon DEF Imbalanced
<1>3. TRUE \in Greater(100 * Spread(load), th * th * total * total)
  BY <1>2, Zenon DEF Imbalanced
<1> HIDE DEF th, total
<1>4. total \in Nat
  BY DEF total
<1>5. th * th > 0 /\ th * th \in Nat
  BY <1>1
<1>6. total * total > 0 /\ total * total \in Nat
  BY <1>2, <1>4
<1>7. th * th * total * total \in Int /\ th * th * total * total > 0
  <2> DEFINE k == th * th
  <2>1. k * total * total = k * (total * total)
    BY <1>1, <1>4
  <2>2. k * (total * total) > 0 /\ k * (total * total) \in Int
    <3> DEFINE q == total * total
    <3>1. k > 0 /\ k \in Nat /\ q > 0 /\ q \in Nat
      BY <1>5, <1>6
    <3> HIDE DEF k, q
    <3>2. k * q > 0 /\ k * q \in Int
      BY <3>1
    <3> QED BY <3>2 DEF q
  <2> QED BY <2>1, <2>2
<1>8. 100 * Spread(load) >= th * th * total * total
  <2>1. 100 * Spread(load) \in Int
    OBVIOUS
  <2> QED BY <2>1, <1>3, <1>7, GreaterMeans
<1> QED BY <1>7, <1>8 DEF Scores

LEMMA OutcomesBoolean ==
  ASSUME NEW snap
  PROVE  /\ EvaluateWeighted(snap) \subseteq BOOLEAN
         /\ EvaluateCapacity(snap) \subseteq BOOLEAN
         /\ EvaluateAccess(snap) \subseteq BOOLEAN
<1>1. ASSUME NEW load, NEW threshold PROVE Imbalanced(load, threshold) \subseteq BOOLEAN
  <2> DEFINE a == 100 * Spread(load)
             b == threshold * threshold * Sum(load) * Sum(load)
  <2>1. (a > b) \in BOOLEAN
    <3> HIDE DEF a, b
    <3> QED BY SMT
  <2>2. Greater(a, b) \subseteq BOOLEAN
    <3> HIDE DEF a, b
    <3> QED BY <2>1, Zenon DEF Greater
  <2> QED BY <2>2, Zenon DEF Imbalanced
<1> QED BY <1>1, Zenon DEF EvaluateWeighted, EvaluateCapacity, EvaluateAccess

\* When the composite asks for a round, one of its strategies did.
LEMMA CompositeHasCandidate ==
  ASSUME NEW snap \in Snapshots, TRUE \in EvaluateComposite(snap)
  PROVE  \E t \in Single : Scores(Load(t, snap))
<1>1. \A t \in Single : Sum(Load(t, snap)) \in Nat /\ Spread(Load(t, snap)) \in Int
  BY ScoreNumbers
<1>2. "weighted" \in Single /\ "capacity" \in Single /\ "access" \in Single
  BY DEF Single
<1>3. 0 \in Int /\ CapacityThreshold \in Int /\ AccessThreshold \in Int
  BY StrategyAssumption
<1>4. PICK w \in EvaluateWeighted(snap), c \in EvaluateCapacity(snap), a \in EvaluateAccess(snap) :
        w \/ c \/ a
  BY Zenon DEF EvaluateComposite
<1>5. TRUE \in EvaluateWeighted(snap) \/ TRUE \in EvaluateCapacity(snap) \/ TRUE \in EvaluateAccess(snap)
  BY <1>4, OutcomesBoolean, Zenon
<1>6. CASE TRUE \in EvaluateWeighted(snap)
  <2>1. Scores(Load("weighted", snap))
    BY <1>1, <1>2, <1>3, <1>6, ImbalancedScores DEF EvaluateWeighted
  <2> QED BY <2>1, <1>2
<1>7. CASE TRUE \in EvaluateCapacity(snap)
  <2>1. Scores(Load("capacity", snap))
    BY <1>1, <1>2, <1>3, <1>7, ImbalancedScores DEF EvaluateCapacity
  <2> QED BY <2>1, <1>2
<1>8. CASE TRUE \in EvaluateAccess(snap)
  <2>1. Scores(Load("access", snap))
    BY <1>1, <1>2, <1>3, <1>8, ImbalancedScores DEF EvaluateAccess
  <2> QED BY <2>1, <1>2
<1> QED BY <1>5, <1>6, <1>7, <1>8

\* Of the strategies that score, one scores highest.
LEMMA BestIsFound ==
  ASSUME NEW snap \in Snapshots, NEW t0 \in Single, Scores(Load(t0, snap))
  PROVE  NoStrategy \notin BestStrategy(snap)
<1> DEFINE AtLeast(x, y) == Spread(x) * Sum(y) * Sum(y) >= Spread(y) * Sum(x) * Sum(x)
           candidates == {t \in Single : Scores(Load(t, snap))}
           best == {t \in candidates : \A u \in candidates \ {t} : AtLeast(Load(t, snap), Load(u, snap))}
           P(t) == Spread(Load(t, snap))
           Q(t) == Sum(Load(t, snap)) * Sum(Load(t, snap))
           R == {e \in Single \X Single : P(e[1]) * Q(e[2]) >= P(e[2]) * Q(e[1])}
<1>1. \A t \in candidates : P(t) \in Nat /\ P(t) > 0 /\ Q(t) \in Nat
  BY ScoreNumbers DEF Scores
<1>2. \A t, u \in candidates : <<t, u>> \in R <=> P(t) * Q(u) >= P(u) * Q(t)
  OBVIOUS
<1>3. \A t, u \in candidates : AtLeast(Load(t, snap), Load(u, snap)) <=> <<t, u>> \in R
  <2> SUFFICES ASSUME NEW t \in candidates, NEW u \in candidates
               PROVE  AtLeast(Load(t, snap), Load(u, snap)) <=> P(t) * Q(u) >= P(u) * Q(t)
    BY <1>2
  <2> DEFINE a == Spread(Load(t, snap))
             b == Spread(Load(u, snap))
             x == Sum(Load(t, snap))
             y == Sum(Load(u, snap))
  <2>1. a \in Int /\ b \in Int /\ x \in Int /\ y \in Int
    BY ScoreNumbers
  <2> HIDE DEF a, b, x, y
  <2>2. a * y * y = a * (y * y) /\ b * x * x = b * (x * x)
    BY <2>1
  <2> QED BY <2>2 DEF a, b, x, y
<1> HIDE DEF P, Q
<1>4. \A t, u \in candidates : <<t, u>> \in R \/ <<u, t>> \in R
  <2> SUFFICES ASSUME NEW t \in candidates, NEW u \in candidates
               PROVE  P(t) * Q(u) >= P(u) * Q(t) \/ P(u) * Q(t) >= P(t) * Q(u)
    BY <1>2
  <2>1. P(t) * Q(u) \in Int /\ P(u) * Q(t) \in Int
    BY <1>1
  <2> QED BY <2>1
<1>5. \A t, u, v \in candidates : <<t, u>> \in R /\ <<u, v>> \in R => <<t, v>> \in R
  <2> SUFFICES ASSUME NEW t \in candidates, NEW u \in candidates, NEW v \in candidates,
                      P(t) * Q(u) >= P(u) * Q(t), P(u) * Q(v) >= P(v) * Q(u)
               PROVE  P(t) * Q(v) >= P(v) * Q(t)
    BY <1>2
  <2>1. /\ P(t) \in Nat /\ P(u) \in Nat /\ P(v) \in Nat /\ P(u) > 0
        /\ Q(t) \in Nat /\ Q(u) \in Nat /\ Q(v) \in Nat
    BY <1>1
  <2> HIDE DEF candidates
  <2> QED BY <2>1, RatioTransitive
<1> HIDE DEF R
<1>6. candidates \subseteq Single /\ candidates # {}
  OBVIOUS
<1>7. PICK t \in candidates : \A u \in candidates : <<t, u>> \in R
  <2> HIDE DEF candidates
  <2>1. Ranks(R, candidates)
    BY <1>4, <1>5 DEF Ranks
  <2> QED BY <2>1, <1>6, HighestOfSingle
<1>8. t \in best
  BY <1>3, <1>7
<1>9. BestStrategy(snap) = IF best = {} THEN {NoStrategy} ELSE best
  BY DEF BestStrategy
<1>10. BestStrategy(snap) = best
  BY <1>8, <1>9
<1>11. NoStrategy \notin Single
  BY DEF NoStrategy, Single
<1> QED BY <1>10, <1>11

-----------------------------------------------------------------------------
(***************************************************************************)
(* The invariant and what follows from it.                                 *)
(***************************************************************************)
LEMMA PlanInit == Init => PlanInv
<1> SUFFICES ASSUME Init PROVE PlanInv
  OBVIOUS
<1>1. NoMetrics \in [{} -> Metric]
  BY DEF NoMetrics
<1>2. NoMetrics \in Snapshots
  BY <1>1 DEF Snapshots
<1> QED BY <1>2 DEF Init, PlanInv

LEMMA PlanStep == PlanInv /\ [Next]_vars => PlanInv'
<1> SUFFICES ASSUME PlanInv, [Next]_vars PROVE PlanInv'
  OBVIOUS
<1> USE DEF PlanInv
<1>1. NoMetrics \in Snapshots
  <2>1. NoMetrics \in [{} -> Metric]
    BY DEF NoMetrics
  <2> QED BY <2>1 DEF Snapshots
<1>2. ASSUME NEW n \in Nodes, NEW m \in Metrics, UpdateNodeMetrics(n, m) PROVE PlanInv'
  <2>1. PICK d \in SUBSET Nodes : metrics \in [d -> Metric]
    BY DEF Snapshots
  <2>2. metrics' \in [d \union {n} -> Metric]
    BY <1>2, <2>1, StrategyAssumption DEF UpdateNodeMetrics
  <2>3. metrics' \in Snapshots
    BY <2>2 DEF Snapshots
  <2>4. UNCHANGED <<strategy, phase, snapshot, maker, plans>>
    BY <1>2 DEF UpdateNodeMetrics
  <2> QED BY <2>3, <2>4
<1>3. CASE GetAllMetrics
  BY <1>3 DEF GetAllMetrics
<1>4. CASE RoundOver
  BY <1>1, <1>4 DEF RoundOver
<1>5. CASE EvaluateRound
  <2>1. \/ phase = "evaluating" /\ UNCHANGED <<strategy, metrics, snapshot, maker, plans>>
        \/ RoundOver
    BY <1>5, Zenon DEF EvaluateRound
  <2> QED BY <2>1, <1>4
<1>6. CASE GenerateRound
  <2>1. PICK t \in IF strategy = "composite" THEN BestStrategy(snapshot) ELSE {strategy} :
          /\ maker' = t /\ plans' \in GeneratePlan(t, snapshot)
          /\ phase' = IF t = NoStrategy THEN "panicked" ELSE "planned"
    BY <1>6 DEF GenerateRound, PlanSource
  <2>2. UNCHANGED <<strategy, metrics, snapshot>>
    BY <1>6 DEF GenerateRound
  <2>3. BestStrategy(snapshot) \subseteq Single \union {NoStrategy}
    BY DEF BestStrategy
  <2>4. t \in Single \union {NoStrategy}
    BY <2>1, <2>3, StrategyAssumption
  <2>5. CASE t = NoStrategy
    <3>1. plans' = <<>>
      BY <2>1, <2>5 DEF GeneratePlan, NoStrategy
    <3> QED BY <3>1, <2>2
  <2>6. CASE t \in Single
    <3>1. t # NoStrategy
      BY <2>6 DEF Single, NoStrategy
    <3> QED BY <3>1, <2>1, <2>2, <2>6
  <2> QED BY <2>4, <2>5, <2>6
<1>7. CASE SubmitPlans
  BY <1>7, <1>4 DEF SubmitPlans
<1>8. CASE UNCHANGED vars
  BY <1>8 DEF vars
<1> QED BY <1>2, <1>3, <1>5, <1>6, <1>7, <1>8 DEF Next

LEMMA PlanInvariance == Spec => []PlanInv
BY PlanInit, PlanStep, PTL DEF Spec

\* What the invariant says of the plans of a round.
LEMMA PlansAreGood ==
  ASSUME PlanInv
  PROVE  Apart(plans) /\ \A k \in DOMAIN plans : maker \in Single /\ GoodPlan(maker, snapshot, plans[k])
<1>1. CASE plans = <<>>
  <2>1. DOMAIN plans = {}
    BY <1>1
  <2> QED BY <2>1 DEF Apart
<1>2. CASE maker \in Single /\ plans \in GeneratePlan(maker, snapshot)
  BY <1>2, GeneratedPlans DEF PlanInv
<1> QED BY <1>1, <1>2 DEF PlanInv

\* The amount of the weighted strategy: at most half the difference, unless
\* that is less than one shard.
LEMMA ModestAmount ==
  ASSUME NEW a \in Nat, NEW b \in Nat
  PROVE  \/ shardsToMigrate(a, b) = 1
         \/ a - shardsToMigrate(a, b) >= b + shardsToMigrate(a, b)
<1> DEFINE half == (a - b) \div 2
           cap == Max({1, a \div 4})
           least == Min({half, cap})
<1>1. half \in Int /\ 2 * half <= a - b
  OBVIOUS
<1>2. cap \in Int
  <2> DEFINE quarter == a \div 4
  <2>1. quarter \in Int /\ 1 \in Int
    OBVIOUS
  <2> HIDE DEF quarter
  <2>2. Max({1, quarter}) \in {1, quarter}
    BY <2>1, LargerOf, Zenon
  <2>3. Max({1, quarter}) \in Int
    BY <2>1, <2>2
  <2> QED BY <2>3, Zenon DEF quarter
<1> HIDE DEF half, cap
<1>3. least \in Int /\ least <= half
  BY <1>1, <1>2, SmallerOf
<1> HIDE DEF least
<1>4. Max({1, least}) = 1 \/ Max({1, least}) = least
  <2>1. 1 \in Int
    OBVIOUS
  <2>2. Max({1, least}) \in {1, least}
    BY <2>1, <1>3, LargerOf, Zenon
  <2> QED BY <2>2
<1>5. shardsToMigrate(a, b) = Max({1, least})
  BY DEF shardsToMigrate, least, cap, half
<1> QED BY <1>1, <1>3, <1>4, <1>5

\* GeneratePlan never uses a node in two plans of a round: pairs are taken from
\* both ends of the sorted nodes and the loop ends before they meet.
THEOREM NoNodeInTwoPlans == Spec => []PlansDisjoint
<1>1. PlanInv => PlansDisjoint
  <2> SUFFICES ASSUME PlanInv PROVE PlansDisjoint
    OBVIOUS
  <2>1. Apart(plans)
    BY PlansAreGood
  <2> QED BY <2>1, Zenon DEF Apart, PlansDisjoint
<1> QED BY <1>1, PlanInvariance, PTL

\* Every plan of every strategy goes from a node with more load to one with
\* less, in the snapshot that evaluateAndRebalance decided on.
THEOREM DownhillOnly == Spec => []SourceHeavier
<1>1. PlanInv => SourceHeavier
  <2> SUFFICES ASSUME PlanInv, NEW i \in DOMAIN plans
               PROVE  /\ {plans[i].source, plans[i].target} \subseteq DOMAIN snapshot
                      /\ Load(maker, snapshot)[plans[i].source] > Load(maker, snapshot)[plans[i].target]
    BY DEF SourceHeavier
  <2>1. GoodPlan(maker, snapshot, plans[i])
    BY PlansAreGood
  <2> QED BY <2>1, Zenon DEF GoodPlan
<1> QED BY <1>1, PlanInvariance, PTL

\* The caps of WeightedScoreStrategy.GeneratePlan: a plan that moves more than
\* the one shard it has to leaves its source no lighter than its target, for
\* every pair of nodes that may get a plan.
THEOREM NoOvershoot == Spec => []NeverOvershoots
<1>1. PlanInv => NeverOvershoots
  <2> SUFFICES ASSUME PlanInv, maker = "weighted", NEW i \in DOMAIN plans
               PROVE  \/ plans[i].shards = 1
                      \/ snapshot[plans[i].source].shards - plans[i].shards
                           >= snapshot[plans[i].target].shards + plans[i].shards
    BY DEF NeverOvershoots
  <2> DEFINE a == snapshot[plans[i].source].shards
             b == snapshot[plans[i].target].shards
  <2>1. /\ plans[i].source \in DOMAIN snapshot /\ plans[i].target \in DOMAIN snapshot
        /\ plans[i].shards = shardsToMigrate(a, b)
    BY PlansAreGood DEF GoodPlan
  <2>2. a \in Nat /\ b \in Nat
    BY <2>1, SnapshotNumbers DEF PlanInv
  <2> HIDE DEF a, b
  <2>3. plans[i].shards = 1 \/ a - plans[i].shards >= b + plans[i].shards
    BY <2>1, <2>2, ModestAmount
  <2> QED BY <2>3 DEF a, b
<1> QED BY <1>1, PlanInvariance, PTL

\* What a round that generates plans knows: its strategy asked for them, on
\* the snapshot the plans are made from.
AskedInv ==
  /\ phase # "panicked"
  /\ phase = "planning" => TRUE \in Evaluate(strategy, snapshot)

LEMMA EvaluateIsBoolean ==
  ASSUME NEW t \in Strategies, NEW snap, NEW need \in Evaluate(t, snap)
  PROVE  need \in BOOLEAN
<1>1. EvaluateComposite(snap) \subseteq BOOLEAN
  BY Zenon DEF EvaluateComposite
<1>2. t \in {"weighted", "capacity", "access", "composite"}
  BY StrategyAssumption DEF Single
<1>3. Evaluate(t, snap) \subseteq BOOLEAN
  BY <1>1, <1>2, OutcomesBoolean DEF Evaluate
<1> QED BY <1>3

LEMMA AskedStep == PlanInv /\ AskedInv /\ [Next]_vars => AskedInv'
<1> SUFFICES ASSUME PlanInv, AskedInv, [Next]_vars PROVE AskedInv'
  OBVIOUS
<1> USE DEF AskedInv
<1>1. ASSUME NEW n \in Nodes, NEW m \in Metrics, UpdateNodeMetrics(n, m) PROVE AskedInv'
  BY <1>1 DEF UpdateNodeMetrics
<1>2. CASE GetAllMetrics
  BY <1>2 DEF GetAllMetrics
<1>3. CASE RoundOver
  BY <1>3 DEF RoundOver
<1>4. CASE EvaluateRound
  <2>1. PICK need \in Evaluate(strategy, snapshot) :
          \/ need /\ phase' = "planning" /\ UNCHANGED <<strategy, metrics, snapshot, maker, plans>>
          \/ ~need /\ RoundOver
    BY <1>4, Zenon DEF EvaluateRound
  <2>2. CASE ~need /\ RoundOver
    BY <2>2, <1>3
  <2>3. CASE need /\ phase' = "planning" /\ UNCHANGED <<strategy, metrics, snapshot, maker, plans>>
    <3>1. need = TRUE
      BY <2>1, <2>3, EvaluateIsBoolean, Zenon DEF PlanInv
    <3>2. TRUE \in Evaluate(strategy, snapshot)
      BY <2>1, <3>1, Zenon
    <3> QED BY <2>3, <3>2
  <2> QED BY <2>1, <2>2, <2>3, Zenon
<1>5. CASE GenerateRound
  <2>1. PICK t \in IF strategy = "composite" THEN BestStrategy(snapshot) ELSE {strategy} :
          phase' = IF t = NoStrategy THEN "panicked" ELSE "planned"
    BY <1>5 DEF GenerateRound, PlanSource
  <2>2. t # NoStrategy
    <3>1. CASE strategy = "composite"
      <4>1. TRUE \in EvaluateComposite(snapshot)
        BY <1>5, <3>1, Zenon DEF GenerateRound, Evaluate
      <4>2. NoStrategy \notin BestStrategy(snapshot)
        BY <4>1, CompositeHasCandidate, BestIsFound DEF PlanInv
      <4> QED BY <2>1, <3>1, <4>2
    <3>2. CASE strategy # "composite"
      BY <2>1, <3>2, StrategyAssumption DEF PlanInv, Single, NoStrategy
    <3> QED BY <3>1, <3>2
  <2> QED BY <2>1, <2>2
<1>6. CASE SubmitPlans
  BY <1>6, <1>3 DEF SubmitPlans
<1>7. CASE UNCHANGED vars
  BY <1>7 DEF vars
<1> QED BY <1>1, <1>2, <1>4, <1>5, <1>6, <1>7 DEF Next

\* The composite's GeneratePlan never dereferences a nil best strategy: one of
\* its parts asked for the round, has a positive score, and a highest score
\* exists.
THEOREM AlwaysAPlanner == Spec => []NeverPanics
<1>1. Init => AskedInv
  BY DEF Init, AskedInv
<1>2. AskedInv => NeverPanics
  BY DEF AskedInv, NeverPanics
<1> QED BY <1>1, <1>2, AskedStep, PlanInvariance, PTL DEF Spec
=============================================================================
