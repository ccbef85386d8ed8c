-------------------------- MODULE RebalanceStrategy --------------------------
(***************************************************************************)
(* What a rebalancing round decides: the metric collector                  *)
(* (core/cluster/rebalance/metrics.go) and the balance strategies          *)
(* (rebalance/strategy.go) as the manager's evaluateAndRebalance calls     *)
(* them.  Rebalance.tla has the other half of a round, what becomes of the *)
(* plans.                                                                  *)
(*                                                                         *)
(* Loads are in tenths: cpu and disk in units of 10 %, memory in units of  *)
(* 10 GB.  Floating point is replaced by exact arithmetic on fractions,    *)
(* and a comparison that is an equality there may go either way.           *)
(***************************************************************************)
EXTENDS Integers, Sequences, FiniteSets, FiniteSetsExt, SequencesExt

CONSTANTS Nodes,             \* node identifiers
          Metrics,           \* the metrics nodes report: records as Metric below
          Strategies,        \* strategies the manager may be built with
          CapacityThreshold, \* NewCapacityBalanceStrategy's argument, in tenths
          AccessThreshold    \* NewAccessFrequencyStrategy's argument, in tenths

Metric == [cpu : Nat, mem : Nat, disk : Nat, shards : Nat]
Single == {"weighted", "capacity", "access"}
NoStrategy == "nil"

ASSUME StrategyAssumption ==
  /\ IsFiniteSet(Nodes)
  /\ Metrics \subseteq Metric
  /\ Strategies \subseteq Single \union {"composite"}
  /\ CapacityThreshold \in Int /\ AccessThreshold \in Int

VARIABLES strategy,  \* the manager's strategy
          metrics,   \* the collector's map; its domain is the reporting nodes
          phase,     \* the round: idle, evaluating, planning, planned, panicked
          snapshot,  \* the copy GetAllMetrics gave to the round
          maker,     \* the strategy that generated the plans
          plans      \* the plans of the round, a sequence

vars == <<strategy, metrics, phase, snapshot, maker, plans>>

NoMetrics == [n \in {} |-> 0]

-----------------------------------------------------------------------------
(***************************************************************************)
(* Measures of load: what a strategy sorts and compares the nodes by.      *)
(***************************************************************************)
Sum(load) == MapThenSumSet(LAMBDA n : load[n], DOMAIN load)

TotalShards(snap) == Sum([n \in DOMAIN snap |-> snap[n].shards])

\* With the manager's weights 0.4, 0.2, 0.2, 0.2, times half the total shards.
calculateNodeScore(snap, n) ==
  LET own == 2 * snap[n].cpu + snap[n].mem + snap[n].disk
  IN  IF TotalShards(snap) = 0 THEN own
      ELSE TotalShards(snap) * own + 10 * Cardinality(DOMAIN snap) * snap[n].shards

Load(s, snap) ==
  [n \in DOMAIN snap |-> CASE s = "weighted" -> calculateNodeScore(snap, n)
                           [] s = "capacity" -> snap[n].disk
                           [] s = "access"   -> snap[n].cpu]

(***************************************************************************)
(* Evaluate.  The imbalance score is the coefficient of variation in per   *)
(* cent, 100 * sqrt(Spread) / Sum.                                         *)
(***************************************************************************)
Squares(load) == [n \in DOMAIN load |-> load[n] * load[n]]
Spread(load) == Cardinality(DOMAIN load) * Sum(Squares(load)) - Sum(load) * Sum(load)

\* The outcomes of a > b on floating point numbers that stand for a and b.
Greater(a, b) == IF a = b THEN BOOLEAN ELSE {a > b}

\* The possible answers of a strategy: score > threshold.
Imbalanced(load, threshold) ==
  IF Cardinality(DOMAIN load) < 2 \/ Sum(load) = 0 THEN {FALSE}
  ELSE Greater(100 * Spread(load), threshold * threshold * Sum(load) * Sum(load))

NewBaseStrategy(threshold) == IF threshold <= 0 THEN 2 ELSE threshold

EvaluateWeighted(snap) == Imbalanced(Load("weighted", snap), NewBaseStrategy(0))
EvaluateCapacity(snap) == Imbalanced(Load("capacity", snap), NewBaseStrategy(CapacityThreshold))
EvaluateAccess(snap)   == Imbalanced(Load("access", snap), NewBaseStrategy(AccessThreshold))

\* A round is needed when one of the composite's strategies needs it.
EvaluateComposite(snap) ==
  {need \in BOOLEAN :
     \E w \in EvaluateWeighted(snap), c \in EvaluateCapacity(snap), a \in EvaluateAccess(snap) :
       need <=> w \/ c \/ a}

Evaluate(s, snap) ==
  CASE s = "weighted"  -> EvaluateWeighted(snap)
    [] s = "capacity"  -> EvaluateCapacity(snap)
    [] s = "access"    -> EvaluateAccess(snap)
    [] s = "composite" -> EvaluateComposite(snap)

(***************************************************************************)
(* GeneratePlan.                                                           *)
(***************************************************************************)
\* sort.Slice is not stable and map order is random: any descending order.
Sorted(load) ==
  {order \in SetToSeqs(DOMAIN load) :
     \A i, j \in DOMAIN order : i < j => load[order[i]] >= load[order[j]]}

\* Faulty variant: the lightest node is everybody's target.
Target_Last(order, i) == order[Len(order)]

\* The i-th heaviest node is paired with the i-th lightest.
Target(order, i) == order[Len(order) - i + 1]

Between(order, i) == <<order[i], Target(order, i)>>

\* The pairs that may get a plan.  By source and target, worthwhile is the set
\* of outcomes of the test of their difference.
Chosen(order, pairs, worthwhile) ==
  {c \in SUBSET pairs :
     \A i \in pairs : IF i \in c THEN TRUE \in worthwhile[Between(order, i)]
                               ELSE FALSE \in worthwhile[Between(order, i)]}

\* The loop over the pairs goes upwards.
Ascending(c) == {s \in SetToSeqs(c) : \A i, j \in DOMAIN s : i < j => s[i] < s[j]}

\* The plans for the first maxPairs pairs whose difference is worthwhile; shards
\* is the number to migrate by source and target.
PairPlans(load, maxPairs, worthwhile, shards) ==
  LET Pairs == 1..Min({maxPairs, Cardinality(DOMAIN load) \div 2})
      Plan(order, i) == [source |-> order[i], target |-> Target(order, i),
                         shards |-> shards[Between(order, i)], priority |-> 11 - i]
      PlansOf(order) ==
        UNION {{[k \in DOMAIN s |-> Plan(order, s[k])] : s \in Ascending(c)} :
                 c \in Chosen(order, Pairs, worthwhile)}
  IN  UNION {PlansOf(order) : order \in Sorted(load)}

\* Faulty variant: the difference of the pair does not limit the migration.
shardsToMigrate_Quarter(source, target) == Max({1, source \div 4})

\* Half the difference, at most a quarter of the source, at least one.
shardsToMigrate(source, target) ==
  Max({1, Min({(source - target) \div 2, Max({1, source \div 4})})})

Ends(snap) == (DOMAIN snap) \X (DOMAIN snap)
Difference(load, e) == load[e[1]] - load[e[2]]

GenerateWeighted(snap) ==
  LET load == Load("weighted", snap)
  IN  PairPlans(load, (Cardinality(DOMAIN snap) + 2) \div 3,
        [e \in Ends(snap) |-> IF Difference(load, e) = 0 THEN {FALSE}
                              ELSE Greater(20 * Difference(load, e), Max({1, TotalShards(snap)}))],
        [e \in Ends(snap) |-> shardsToMigrate(snap[e[1]].shards, snap[e[2]].shards)])

GenerateCapacity(snap) ==
  LET load == Load("capacity", snap)
  IN  PairPlans(load, (Cardinality(DOMAIN snap) + 2) \div 3,
        [e \in Ends(snap) |-> Greater(Difference(load, e), 1)],
        [e \in Ends(snap) |-> Max({1, (3 * snap[e[1]].shards) \div 10})])

GenerateAccess(snap) ==
  LET load == Load("access", snap)
  IN  PairPlans(load, 2,
        [e \in Ends(snap) |-> {Difference(load, e) >= 2}],
        [e \in Ends(snap) |-> Max({1, snap[e[1]].shards \div 5})])

\* Faulty variant: highestScore starts at 100.
Scores_Hundred(load) == Spread(load) > Sum(load) * Sum(load)

\* A score that the composite's search for the highest one, from 0, takes.
Scores(load) == Spread(load) > 0

\* The strategies GeneratePlan may be handed to: one with the highest score.
BestStrategy(snap) ==
  LET candidates == {t \in Single : Scores(Load(t, snap))}
      AtLeast(x, y) == Spread(x) * Sum(y) * Sum(y) >= Spread(y) * Sum(x) * Sum(x)
      best == {t \in candidates : \A u \in candidates \ {t} : AtLeast(Load(t, snap), Load(u, snap))}
  IN  IF best = {} THEN {NoStrategy} ELSE best

GeneratePlan(s, snap) ==
  CASE s = "weighted" -> GenerateWeighted(snap)
    [] s = "capacity" -> GenerateCapacity(snap)
    [] s = "access"   -> GenerateAccess(snap)
    [] OTHER          -> {<<>>}

-----------------------------------------------------------------------------
(***************************************************************************)
(* The collector and a round of the manager.                               *)
(***************************************************************************)
Init ==
  /\ strategy \in Strategies
  /\ metrics = NoMetrics
  /\ phase = "idle"
  /\ snapshot = NoMetrics
  /\ maker = NoStrategy
  /\ plans = <<>>

UpdateNodeMetrics(n, m) ==
  /\ metrics' = [k \in DOMAIN metrics \union {n} |-> IF k = n THEN m ELSE metrics[k]]
  /\ UNCHANGED <<strategy, phase, snapshot, maker, plans>>

GetAllMetrics ==
  /\ phase = "idle"
  /\ Cardinality(DOMAIN metrics) >= 2
  /\ snapshot' = metrics
  /\ phase' = "evaluating"
  /\ UNCHANGED <<strategy, metrics, maker, plans>>

RoundOver ==
  /\ phase' = "idle"
  /\ snapshot' = NoMetrics /\ maker' = NoStrategy /\ plans' = <<>>
  /\ UNCHANGED <<strategy, metrics>>

EvaluateRound ==
  /\ phase = "evaluating"
  /\ \E need \in Evaluate(strategy, snapshot) :
       \/ need /\ phase' = "planning" /\ UNCHANGED <<strategy, metrics, snapshot, maker, plans>>
       \/ ~need /\ RoundOver

\* Faulty variant: the plans are made from the collector's live metrics.
PlanSource_Live == metrics

PlanSource == snapshot

\* A nil best strategy is dereferenced.
GenerateRound ==
  /\ phase = "planning"
  /\ \E s \in IF strategy = "composite" THEN BestStrategy(PlanSource) ELSE {strategy} :
       /\ maker' = s
       /\ plans' \in GeneratePlan(s, PlanSource)
       /\ phase' = IF s = NoStrategy THEN "panicked" ELSE "planned"
  /\ UNCHANGED <<strategy, metrics, snapshot>>

\* SubmitTasks (see Rebalance); no plans at all is a success as well.
SubmitPlans == phase = "planned" /\ RoundOver

Next ==
  \/ \E n \in Nodes, m \in Metrics : UpdateNodeMetrics(n, m)
  \/ GetAllMetrics \/ EvaluateRound \/ GenerateRound \/ SubmitPlans

Spec == Init /\ [][Next]_vars

-----------------------------------------------------------------------------
\* No node takes part in two plans of a round, so that the migrations of a
\* round, which run concurrently, have no node in common.
PlansDisjoint ==
  \A i, j \in DOMAIN plans :
    i # j => {plans[i].source, plans[i].target} \cap {plans[j].source, plans[j].target} = {}

\* A plan moves load downhill: by the measure of the strategy that made it,
\* and in the metrics the round was evaluated on, its source carries more than
\* its target, whatever was reported meanwhile.
SourceHeavier ==
  \A i \in DOMAIN plans :
    /\ {plans[i].source, plans[i].target} \subseteq DOMAIN snapshot
    /\ Load(maker, snapshot)[plans[i].source] > Load(maker, snapshot)[plans[i].target]

\* The weighted strategy does not overshoot: apart from the one shard that it
\* moves in any case (also when the source has as many shards as the target, or
\* fewer), a migration leaves the source with at least as many shards as the
\* target, so that two nodes never swap their roles by more than one shard.
NeverOvershoots ==
  maker = "weighted" =>
    \A i \in DOMAIN plans :
      \/ plans[i].shards = 1
      \/ snapshot[plans[i].source].shards - plans[i].shards
           >= snapshot[plans[i].target].shards + plans[i].shards

\* A round never calls GeneratePlan on no strategy: the composite finds a best
\* one whenever one of its parts asked for the round.
NeverPanics == phase # "panicked"
=============================================================================
