-------------------------- MODULE Rebalance_proofs --------------------------
(***************************************************************************)
(* Proofs about Rebalance, for any tasks, workers, queue capacity and      *)
(* interval.                                                               *)
(*                                                                         *)
(* That the reported status is true needs to know what a worker has moved  *)
(* and what is left (Accounted); that the books stay right needs every     *)
(* task to be in one place at most (HeldOnce), and a task still to be sent *)
(* to be nowhere yet (NotYetHeld).  That rounds keep their distance needs  *)
(* what the loop knew when it looked at lastRebalance (LookedAt) to stay   *)
(* true until it submits, and what the latest submission has to do with    *)
(* lastRebalance (PastRounds).                                             *)
(***************************************************************************)
EXTENDS Rebalance, TLAPS

\* A worker has a task from the moment it takes one to the moment it records
\* the outcome, and waits for a shard only if one is left.
WorkerPlaces ==
  \A w \in Workers :
    /\ worker[w].at \in {"idle", "exited"} <=> worker[w].task = NoTask
    /\ worker[w].at = "wait" => worker[w].left > 0

\* Tasks that SubmitTasks has not sent are neither in the queue nor with a
\* worker; only while it runs is there anything to send.
NotYetHeld ==
  /\ eval # "submitting" => toSubmit = {}
  /\ \A t \in Tasks :
       /\ (t \in toSubmit \/ State[t] = "none") => /\ \A w \in Workers : worker[w].task # t
                                                   /\ \A i \in 1..Len(queue) : queue[i] # t
       /\ State[t] = "none" => cancelling # t

\* No task is in two places.
HeldOnce ==
  /\ \A v, w \in Workers : worker[v].task = worker[w].task /\ worker[v].task # NoTask => v = w
  /\ \A i, j \in 1..Len(queue) : queue[i] = queue[j] => i = j
  /\ \A w \in Workers, i \in 1..Len(queue) : worker[w].task # queue[i]

\* What a worker has moved and what it has left make up its task, and where it
\* is in the loop agrees with them; nothing is moved before a worker begins.
Accounted ==
  /\ \A w \in Workers, t \in Tasks : worker[w].task = t =>
       /\ moved[t] + worker[w].left = shards[t]
       /\ worker[w].at = "taken" => moved[t] = 0
       /\ worker[w].at \in {"top", "wait", "completed"} => shards[t] > 0
       /\ worker[w].at = "completed" => worker[w].left = 0
       /\ worker[w].at = "failed" => worker[w].left > 0 \/ shards[t] = 0
  /\ \A t \in Tasks :
       (t \in toSubmit \/ State[t] = "none" \/ \E i \in 1..Len(queue) : queue[i] = t) => moved[t] = 0

\* The interval the loop has found to be over is still over.
LookedAt ==
  eval \in {"evaluating", "submitting"} /\ lastRebalance # -1
    => clock - lastRebalance >= MinInterval

\* The latest submission belongs to the current round, or came no later than
\* lastRebalance.
PastRounds ==
  /\ lastRebalance <= clock
  /\ submitted.time <= clock
  /\ submitted.round \notin {0, Round} => submitted.time <= lastRebalance

WorkerRecord ==
  [task : Tasks \union {NoTask}, left : 0..MaxShards,
   at : {"idle", "exited", "taken", "top", "wait", "completed", "failed"}]

PlaceInv == TypeOK /\ WorkerPlaces /\ NotYetHeld /\ HeldOnce /\ Accounted
TaskInv  == PlaceInv /\ StatusIsTrue
RoundInv == TypeOK /\ LookedAt /\ PastRounds

-----------------------------------------------------------------------------
LEMMA TypeInit == Init => TypeOK
<1> SUFFICES ASSUME Init PROVE TypeOK
  OBVIOUS
<1>. USE RebalanceAssumption DEF Init, TaskState
<1>1. /\ State \in [Tasks -> TaskState] /\ shards \in [Tasks -> 0..MaxShards]
      /\ queue \in Seq(Tasks) /\ Len(queue) <= QueueCap
  OBVIOUS
<1>2. worker \in [Workers -> WorkerRecord]
  BY DEF Idle, WorkerRecord
<1>3. isRebalancing \in BOOLEAN /\ (isRebalancing <=> eval \in {"evaluating", "submitting"})
  OBVIOUS
<1>4. /\ cancelling \in Tasks \union {NoTask}
      /\ eval \in {"idle", "evaluating", "submitting", "done"}
      /\ toSubmit \subseteq Tasks
      /\ lastRebalance \in Nat \union {-1} /\ trigger \in BOOLEAN
      /\ clock \in Nat /\ ctxDone \in BOOLEAN
      /\ stop \in {"no", "waiting", "done", "timedout"}
      /\ submitted \in [time : Nat, round : Nat]
  OBVIOUS
<1>5. moved \in [Tasks -> 0..MaxShards] /\ cancelled \subseteq Tasks
  OBVIOUS
<1> QED BY <1>1, <1>2, <1>3, <1>4, <1>5 DEF TypeOK, WorkerRecord

LEMMA InvInit == Init => TaskInv /\ RoundInv
BY TypeInit, RebalanceAssumption
   DEF Init, TaskInv, PlaceInv, RoundInv, WorkerPlaces, NotYetHeld, HeldOnce, Accounted, LookedAt,
       PastRounds, Round, Idle, StatusIsTrue, Active, Owned, Sending, AllMoved

LEMMA TypeStep == ASSUME TypeOK, WorkerPlaces, Accounted, [Next]_vars PROVE TypeOK'
<1>. USE RebalanceAssumption DEF TypeOK, TaskState, taskVars, evalVars, history
<1>1. CASE UNCHANGED vars
  BY <1>1 DEF vars
<1>2. CASE TriggerRebalance
  BY <1>2 DEF TriggerRebalance
<1>3. ASSUME NEW g \in {"ticker", "trigger"}, EvaluateStart(g) PROVE TypeOK'
  BY <1>3 DEF EvaluateStart, TooSoon
<1>4. CASE EvaluateNothing
  BY <1>4 DEF EvaluateNothing, EvaluateEnd
<1>5. CASE GeneratePlan
  BY <1>5 DEF GeneratePlan
<1>6. ASSUME NEW t \in Tasks, SubmitTask(t) PROVE TypeOK'
  <2>1. submitted' \in [time : Nat, round : Nat]
    BY <1>6 DEF SubmitTask, Round
  <2>2. State' \in [Tasks -> TaskState]
    BY <1>6 DEF SubmitTask
  <2> QED BY <1>6, <2>1, <2>2 DEF SubmitTask
<1>7. ASSUME NEW t \in Tasks, SubmitSend(t) PROVE TypeOK'
  <2>1. queue' \in Seq(Tasks) /\ Len(queue') <= QueueCap
    <3>1. Append(queue, t) \in Seq(Tasks) /\ Len(Append(queue, t)) = Len(queue) + 1
      BY <1>7
    <3>2. Len(queue) \in Nat
      OBVIOUS
    <3> HIDE DEF TypeOK
    <3>3. CASE Len(queue) < QueueCap
      BY <1>7, <3>1, <3>2, <3>3 DEF SubmitSend
    <3>4. CASE ~(Len(queue) < QueueCap)
      BY <1>7, <3>4 DEF SubmitSend, TypeOK
    <3> QED BY <3>3, <3>4
  <2>2. State' \in [Tasks -> TaskState]
    BY <1>7 DEF SubmitSend
  <2>3. isRebalancing' \in BOOLEAN /\ (isRebalancing' <=> eval' \in {"evaluating", "submitting"})
    BY <1>7 DEF SubmitSend
  <2> QED BY <1>7, <2>1, <2>2, <2>3 DEF SubmitSend
<1>8. CASE SubmitDone
  BY <1>8 DEF SubmitDone, EvaluateEnd
<1>9. CASE EvaluateExit
  BY <1>9 DEF EvaluateExit
<1>10. ASSUME NEW w \in Workers, WorkerTake(w) PROVE TypeOK'
  <2>1. Head(queue) \in Tasks /\ Tail(queue) \in Seq(Tasks) /\ Len(Tail(queue)) <= QueueCap
    BY <1>10 DEF WorkerTake
  <2>2. worker' \in [Workers -> WorkerRecord]
    BY <1>10, <2>1 DEF WorkerTake, WorkerRecord
  <2>3. isRebalancing' \in BOOLEAN /\ (isRebalancing' <=> eval' \in {"evaluating", "submitting"})
    BY <1>10 DEF WorkerTake, WorkerVarsOnly
  <2> QED BY <1>10, <2>1, <2>2, <2>3 DEF WorkerTake, WorkerVarsOnly, WorkerRecord
<1>11. ASSUME NEW w \in Workers, WorkerStart(w) PROVE TypeOK'
  <2>1. worker[w] \in WorkerRecord
    BY DEF WorkerRecord
  <2>2. worker'[w] \in WorkerRecord /\ \A v \in Workers \ {w} : worker'[v] = worker[v]
    BY <1>11, <2>1, ZenonT(30) DEF WorkerStart, WorkerRecord
  <2>3. worker' \in [Workers -> WorkerRecord]
    BY <1>11, <2>2 DEF WorkerStart, WorkerRecord
  <2>4. State' \in [Tasks -> TaskState]
    BY <1>11 DEF WorkerStart
  <2>5. isRebalancing' \in BOOLEAN /\ (isRebalancing' <=> eval' \in {"evaluating", "submitting"})
    BY <1>11 DEF WorkerStart, WorkerVarsOnly
  <2> QED BY <1>11, <2>3, <2>4, <2>5 DEF WorkerStart, WorkerVarsOnly, WorkerRecord
<1>12. ASSUME NEW w \in Workers, WorkerTop(w) PROVE TypeOK'
  <2>1. worker[w] \in WorkerRecord
    BY DEF WorkerRecord
  <2>2. worker'[w] \in WorkerRecord /\ \A v \in Workers \ {w} : worker'[v] = worker[v]
    BY <1>12, <2>1, ZenonT(30) DEF WorkerTop, WorkerRecord
  <2>3. worker' \in [Workers -> WorkerRecord]
    BY <1>12, <2>2 DEF WorkerTop, WorkerRecord
  <2>4. isRebalancing' \in BOOLEAN /\ (isRebalancing' <=> eval' \in {"evaluating", "submitting"})
    BY <1>12 DEF WorkerTop, WorkerVarsOnly
  <2> QED BY <1>12, <2>3, <2>4 DEF WorkerTop, WorkerVarsOnly, WorkerRecord
<1>13. ASSUME NEW w \in Workers, WorkerShardDone(w) PROVE TypeOK'
  <2>1. worker[w] \in WorkerRecord
    BY DEF WorkerRecord
  <2>2. worker'[w] \in WorkerRecord /\ \A v \in Workers \ {w} : worker'[v] = worker[v]
    <3>0. worker[w].left > 0 /\ worker[w].left \in 0..MaxShards
      BY <1>13, <2>1, Zenon DEF WorkerPlaces, WorkerShardDone, WorkerRecord
    <3>1. worker[w].left > 0 /\ worker[w].left - 1 \in 0..MaxShards
      BY <3>0
    <3>2. worker'[w] = [worker[w] EXCEPT !.at = "top", !.left = worker[w].left - 1]
      BY <1>13 DEF WorkerShardDone
    <3> QED BY <1>13, <2>1, <3>1, <3>2 DEF WorkerShardDone, WorkerRecord
  <2>3. worker' \in [Workers -> WorkerRecord]
    BY <1>13, <2>2 DEF WorkerShardDone, WorkerRecord
  <2>4. isRebalancing' \in BOOLEAN /\ (isRebalancing' <=> eval' \in {"evaluating", "submitting"})
    BY <1>13 DEF WorkerShardDone, WorkerVarsOnly
  <2>5. moved' \in [Tasks -> 0..MaxShards]
    <3>0. worker[w].task \in Tasks /\ worker[w].left > 0 /\ worker[w].left \in 0..MaxShards
      <4> HIDE DEF TypeOK
      <4> QED BY <1>13, <2>1 DEF WorkerPlaces, WorkerShardDone, WorkerRecord
    <3>1. worker[w].task \in Tasks /\ worker[w].left > 0 /\ worker[w].left \in Nat
      BY <3>0
    <3>2. moved[worker[w].task] + worker[w].left = shards[worker[w].task]
      BY <3>1 DEF Accounted
    <3>3. moved[worker[w].task] + 1 \in 0..MaxShards
      BY <3>1, <3>2
    <3> QED BY <1>13, <3>1, <3>3 DEF WorkerShardDone
  <2> QED BY <1>13, <2>3, <2>4, <2>5 DEF WorkerShardDone, WorkerVarsOnly, WorkerRecord
<1>14. ASSUME NEW w \in Workers, WorkerInterrupted(w) PROVE TypeOK'
  <2>1. worker[w] \in WorkerRecord
    BY DEF WorkerRecord
  <2>2. worker'[w] \in WorkerRecord /\ \A v \in Workers \ {w} : worker'[v] = worker[v]
    BY <1>14, <2>1, ZenonT(30) DEF WorkerInterrupted, WorkerRecord
  <2>3. worker' \in [Workers -> WorkerRecord]
    BY <1>14, <2>2 DEF WorkerInterrupted, WorkerRecord
  <2>4. isRebalancing' \in BOOLEAN /\ (isRebalancing' <=> eval' \in {"evaluating", "submitting"})
    BY <1>14 DEF WorkerInterrupted, WorkerVarsOnly
  <2> QED BY <1>14, <2>3, <2>4 DEF WorkerInterrupted, WorkerVarsOnly, WorkerRecord
<1>15. ASSUME NEW w \in Workers, WorkerFinish(w) PROVE TypeOK'
  <2>1. State' \in [Tasks -> TaskState]
    BY <1>15 DEF WorkerFinish
  <2>2. worker' \in [Workers -> WorkerRecord]
    BY <1>15 DEF WorkerFinish, Idle, WorkerRecord
  <2> QED BY <1>15, <2>1, <2>2 DEF WorkerFinish, WorkerVarsOnly, WorkerRecord
<1>16. ASSUME NEW w \in Workers, WorkerExit(w) PROVE TypeOK'
  BY <1>16 DEF WorkerExit, WorkerVarsOnly, Idle, Exited
<1>17. ASSUME NEW t \in Tasks, CancelCheck(t) PROVE TypeOK'
  BY <1>17 DEF CancelCheck
<1>18. CASE CancelSet
  BY <1>18 DEF CancelSet
<1>19. CASE StopCancel
  BY <1>19 DEF StopCancel
<1>20. CASE StopReturn
  BY <1>20 DEF StopReturn
<1>21. CASE Tick
  BY <1>21 DEF Tick
<1> HIDE DEF TypeOK
<1> QED BY <1>1, <1>2, <1>3, <1>4, <1>5, <1>6, <1>8, <1>9, <1>10, <1>12, <1>13, <1>14, <1>15,
           <1>16, <1>17, <1>18, <1>19, <1>20, <1>21, <1>7, <1>11
        DEF Next, Evaluation, Worker

-----------------------------------------------------------------------------
\* The facts about places and books, the type apart.
Places == WorkerPlaces /\ NotYetHeld /\ HeldOnce /\ Accounted

\* A task that is stored is still nowhere else.
LEMMA SubmitKeeps ==
  ASSUME PlaceInv, NEW t \in Tasks, SubmitTask(t)
  PROVE  Places'
<1>1. /\ t \in toSubmit /\ eval = "submitting"
      /\ UNCHANGED <<worker, queue, cancelling, toSubmit, eval, moved, shards>>
  BY DEF SubmitTask, evalVars
<1>2. State'[t] = "pending" /\ \A u \in Tasks \ {t} : State'[u] = State[u]
  BY DEF SubmitTask, PlaceInv, TypeOK
<1>3. WorkerPlaces' /\ HeldOnce'
  BY <1>1 DEF PlaceInv, WorkerPlaces, HeldOnce
<1>4. NotYetHeld'
  BY <1>1, <1>2 DEF PlaceInv, NotYetHeld
<1>5. Accounted'
  BY <1>1, <1>2 DEF PlaceInv, Accounted
<1> QED BY <1>3, <1>4, <1>5 DEF Places

\* A task that is sent is new to the queue and to the workers.
LEMMA SendKeeps ==
  ASSUME PlaceInv, NEW t \in Tasks, SubmitSend(t)
  PROVE  Places'
<1>1. /\ t \in toSubmit /\ State[t] # "none" /\ toSubmit' = toSubmit \ {t}
      /\ UNCHANGED <<worker, cancelling, eval, moved, shards>>
  BY DEF SubmitSend, Sending, history
<1>2. /\ \A w \in Workers : worker[w].task # t
      /\ \A i \in 1..Len(queue) : queue[i] # t
      /\ moved[t] = 0
  BY <1>1 DEF PlaceInv, NotYetHeld, Accounted
<1>3. WorkerPlaces'
  BY <1>1 DEF PlaceInv, WorkerPlaces
<1>4. CASE Len(queue) < QueueCap
  <2>1. queue' = Append(queue, t) /\ State' = State
    BY <1>4 DEF SubmitSend
  <2>2. /\ Len(queue') = Len(queue) + 1 /\ Len(queue) \in Nat
        /\ \A i \in 1..Len(queue) : queue'[i] = queue[i]
        /\ queue'[Len(queue) + 1] = t
    BY <2>1 DEF PlaceInv, TypeOK
  <2>3. \A i \in 1..Len(queue') : i \in 1..Len(queue) \/ i = Len(queue) + 1
    BY <2>2
  <2>4. HeldOnce'
    BY <1>1, <1>2, <2>2, <2>3 DEF PlaceInv, HeldOnce
  <2>5. NotYetHeld'
    BY <1>1, <1>2, <2>1, <2>2, <2>3 DEF PlaceInv, NotYetHeld
  <2>6. \A u \in Tasks : (\E i \in 1..Len(queue') : queue'[i] = u)
                           => u = t \/ \E i \in 1..Len(queue) : queue[i] = u
    BY <2>2, <2>3
  <2>7. Accounted'
    <3> HIDE DEF TypeOK
    <3> QED BY <1>1, <1>2, <2>1, <2>6 DEF PlaceInv, Accounted
  <2> QED BY <1>3, <2>4, <2>5, <2>7 DEF Places
<1>5. CASE ~(Len(queue) < QueueCap)
  <2>1. queue' = queue /\ State'[t] = "failed" /\ \A u \in Tasks \ {t} : State'[u] = State[u]
    BY <1>5 DEF SubmitSend, PlaceInv, TypeOK
  <2>2. HeldOnce'
    BY <1>1, <2>1 DEF PlaceInv, HeldOnce
  <2>3. NotYetHeld'
    BY <1>1, <2>1 DEF PlaceInv, NotYetHeld
  <2>4. Accounted'
    BY <1>1, <2>1 DEF PlaceInv, Accounted
  <2> QED BY <1>3, <2>2, <2>3, <2>4 DEF Places
<1> QED BY <1>4, <1>5

\* Taking the head of the queue moves it from one place to another.
LEMMA TakeKeeps ==
  ASSUME PlaceInv, NEW w \in Workers, WorkerTake(w)
  PROVE  Places'
<1>. DEFINE t == queue[1]
<1>1. queue \in Seq(Tasks) /\ Len(queue) \in Nat \ {0} /\ t \in Tasks /\ Head(queue) = t
  BY DEF WorkerTake, PlaceInv, TypeOK
<1>2. /\ Len(queue') = Len(queue) - 1
      /\ \A i \in 1..Len(queue') : i + 1 \in 1..Len(queue) /\ queue'[i] = queue[i + 1]
  BY <1>1 DEF WorkerTake
<1>3. /\ worker'[w].task = t /\ worker'[w].at = "taken" /\ worker'[w].left = shards[t]
      /\ \A v \in Workers \ {w} : worker'[v] = worker[v]
  BY <1>1 DEF WorkerTake, PlaceInv, TypeOK
<1>4. UNCHANGED <<State, toSubmit, cancelling, eval, moved, shards>>
  BY DEF WorkerTake, WorkerVarsOnly, evalVars
<1>5. t # NoTask
  BY <1>1, RebalanceAssumption
<1>6. 1 \in 1..Len(queue)
  BY <1>1
<1>7. \A i \in 1..Len(queue') : queue'[i] # t
  BY <1>1, <1>2 DEF PlaceInv, HeldOnce
<1>8. \A v \in Workers : worker[v].task # t
  BY <1>6 DEF PlaceInv, HeldOnce
<1>9. t \notin toSubmit /\ State[t] # "none" /\ moved[t] = 0
  BY <1>1, <1>6 DEF PlaceInv, NotYetHeld, Accounted
<1>10. shards[t] \in Nat
  BY <1>1, RebalanceAssumption DEF PlaceInv, TypeOK
<1> HIDE DEF t
<1>11. WorkerPlaces'
  BY <1>3, <1>5 DEF PlaceInv, WorkerPlaces
<1>12. NotYetHeld'
  BY <1>1, <1>2, <1>3, <1>4, <1>7, <1>9 DEF PlaceInv, NotYetHeld
<1>13. HeldOnce'
  <2>1. \A u, v \in Workers : worker'[u].task = worker'[v].task /\ worker'[u].task # NoTask => u = v
    BY <1>3, <1>8 DEF PlaceInv, HeldOnce
  <2>2. \A i, j \in 1..Len(queue') : queue'[i] = queue'[j] => i = j
    BY <1>1, <1>2 DEF PlaceInv, HeldOnce
  <2>3. \A v \in Workers, i \in 1..Len(queue') : worker'[v].task # queue'[i]
    BY <1>1, <1>2, <1>3, <1>7 DEF PlaceInv, HeldOnce
  <2> QED BY <2>1, <2>2, <2>3 DEF HeldOnce
<1>14. Accounted'
  <2>1. \A u \in Tasks : (\E i \in 1..Len(queue') : queue'[i] = u)
                           => \E i \in 1..Len(queue) : queue[i] = u
    BY <1>2
  <2>2. \A u \in Tasks : (u \in toSubmit' \/ State'[u] = "none"
                            \/ \E i \in 1..Len(queue') : queue'[i] = u) => moved'[u] = 0
    BY <1>4, <2>1 DEF PlaceInv, Accounted
  <2>3. moved'[t] + worker'[w].left = shards'[t]
    BY <1>3, <1>4, <1>9, <1>10
  <2>4. ASSUME NEW v \in Workers, NEW u \in Tasks, worker'[v].task = u
        PROVE  /\ moved'[u] + worker'[v].left = shards'[u]
               /\ worker'[v].at = "taken" => moved'[u] = 0
               /\ worker'[v].at \in {"top", "wait", "completed"} => shards'[u] > 0
               /\ worker'[v].at = "completed" => worker'[v].left = 0
               /\ worker'[v].at = "failed" => worker'[v].left > 0 \/ shards'[u] = 0
    <3>1. CASE v = w
      BY <1>3, <1>4, <1>9, <2>3, <2>4, <3>1
    <3>2. CASE v # w
      BY <1>3, <1>4, <2>4, <3>2 DEF PlaceInv, Accounted
    <3> QED BY <3>1, <3>2
  <2> QED BY <2>2, <2>4 DEF Accounted
<1> QED BY <1>11, <1>12, <1>13, <1>14 DEF Places

\* A worker in the middle of a task keeps its books.
LEMMA WorkerBooks ==
  ASSUME PlaceInv, NEW w \in Workers, NEW t \in Tasks, t = worker[w].task,
         WorkerStart(w) \/ WorkerTop(w) \/ WorkerShardDone(w) \/ WorkerInterrupted(w)
  PROVE  /\ worker'[w].task = t
         /\ worker'[w].at \notin {"idle", "exited"}
         /\ worker'[w].at = "wait" => worker'[w].left > 0
         /\ moved'[t] + worker'[w].left = shards[t]
         /\ worker'[w].at # "taken"
         /\ worker'[w].at \in {"top", "wait", "completed"} => shards[t] > 0
         /\ worker'[w].at = "completed" => worker'[w].left = 0
         /\ worker'[w].at = "failed" => worker'[w].left > 0 \/ shards[t] = 0
<1>1. worker[w] \in WorkerRecord /\ shards[t] \in Nat /\ moved[t] \in Nat
  BY RebalanceAssumption DEF PlaceInv, TypeOK, WorkerRecord
<1>2. worker[w].left \in Nat
  BY <1>1, RebalanceAssumption DEF WorkerRecord
<1>3. /\ moved[t] + worker[w].left = shards[t]
      /\ worker[w].at = "taken" => moved[t] = 0
      /\ worker[w].at \in {"top", "wait", "completed"} => shards[t] > 0
      /\ worker[w].at = "wait" => worker[w].left > 0
  BY DEF PlaceInv, Accounted, WorkerPlaces
<1>4. CASE WorkerStart(w)
  <2>1. worker[w].at = "taken" /\ moved' = moved
    BY <1>4 DEF WorkerStart
  <2>2. worker'[w] = [worker[w] EXCEPT !.at = IF worker[w].left = 0 THEN "failed" ELSE "top"]
    BY <1>4 DEF WorkerStart, PlaceInv, TypeOK
  <2> QED BY <1>1, <1>2, <1>3, <2>1, <2>2 DEF WorkerRecord
<1>5. CASE WorkerTop(w)
  <2>1. worker[w].at = "top" /\ moved' = moved
    BY <1>5 DEF WorkerTop
  <2>2. worker'[w] = [worker[w] EXCEPT !.at = IF worker[w].left = 0 THEN "completed"
                                              ELSE IF ctxDone THEN "failed" ELSE "wait"]
    BY <1>5 DEF WorkerTop, PlaceInv, TypeOK
  <2> QED BY <1>1, <1>2, <1>3, <2>1, <2>2 DEF WorkerRecord
<1>6. CASE WorkerShardDone(w)
  <2>1. worker[w].at = "wait" /\ moved'[t] = moved[t] + 1
    BY <1>6 DEF WorkerShardDone, PlaceInv, TypeOK
  <2>2. worker'[w] = [worker[w] EXCEPT !.at = "top", !.left = worker[w].left - 1]
    BY <1>6 DEF WorkerShardDone, PlaceInv, TypeOK
  <2>3. /\ worker'[w].at = "top" /\ worker'[w].task = worker[w].task
        /\ worker'[w].left = worker[w].left - 1
    BY <1>1, <2>2 DEF WorkerRecord
  <2> QED BY <1>1, <1>2, <1>3, <2>1, <2>3
<1>7. CASE WorkerInterrupted(w)
  <2>1. worker[w].at = "wait" /\ moved' = moved
    BY <1>7 DEF WorkerInterrupted
  <2>2. worker'[w] = [worker[w] EXCEPT !.at = "failed"]
    BY <1>7 DEF WorkerInterrupted, PlaceInv, TypeOK
  <2> QED BY <1>1, <1>2, <1>3, <2>1, <2>2 DEF WorkerRecord
<1> QED BY <1>4, <1>5, <1>6, <1>7

\* A worker that goes on with its task.
LEMMA WorkKeeps ==
  ASSUME PlaceInv, NEW w \in Workers,
         WorkerStart(w) \/ WorkerTop(w) \/ WorkerShardDone(w) \/ WorkerInterrupted(w)
  PROVE  Places'
<1>. DEFINE t == worker[w].task
<1>1. UNCHANGED <<queue, toSubmit, cancelling, eval, shards>>
  BY DEF WorkerStart, WorkerTop, WorkerShardDone, WorkerInterrupted, WorkerVarsOnly, evalVars
<1>2. worker[w] \in WorkerRecord
  BY DEF PlaceInv, TypeOK, WorkerRecord
<1>3. worker[w].at \notin {"idle", "exited"}
  BY DEF WorkerStart, WorkerTop, WorkerShardDone, WorkerInterrupted
<1>4. t \in Tasks /\ t # NoTask
  BY <1>2, <1>3, RebalanceAssumption DEF PlaceInv, WorkerPlaces, WorkerRecord
<1>5. /\ worker'[w].task = t
      /\ worker'[w].at \notin {"idle", "exited"}
      /\ worker'[w].at = "wait" => worker'[w].left > 0
      /\ moved'[t] + worker'[w].left = shards[t]
      /\ worker'[w].at # "taken"
      /\ worker'[w].at \in {"top", "wait", "completed"} => shards[t] > 0
      /\ worker'[w].at = "completed" => worker'[w].left = 0
      /\ worker'[w].at = "failed" => worker'[w].left > 0 \/ shards[t] = 0
  <2> HIDE DEF t
  <2>1. t = worker[w].task
    BY DEF t
  <2> QED BY <1>4, <2>1, WorkerBooks
<1>6. \A v \in Workers \ {w} : worker'[v] = worker[v]
  BY DEF PlaceInv, TypeOK, WorkerStart, WorkerTop, WorkerShardDone, WorkerInterrupted
<1>7. \A u \in Tasks \ {t} : State'[u] = State[u] /\ moved'[u] = moved[u]
  BY <1>4 DEF PlaceInv, TypeOK, WorkerStart, WorkerTop, WorkerShardDone, WorkerInterrupted
<1>8. State[t] # "none" /\ t \notin toSubmit /\ \A i \in 1..Len(queue) : queue[i] # t
  BY <1>4 DEF PlaceInv, NotYetHeld, HeldOnce
<1>9. State'[t] # "none"
  BY <1>4, <1>8 DEF PlaceInv, TypeOK, WorkerStart, WorkerTop, WorkerShardDone, WorkerInterrupted
<1>10. \A v \in Workers : worker[v].task = t => v = w
  BY <1>4 DEF PlaceInv, HeldOnce
<1> HIDE DEF t
<1>11. WorkerPlaces'
  BY <1>4, <1>5, <1>6 DEF PlaceInv, WorkerPlaces
<1>12. \A v \in Workers : worker'[v].task = worker[v].task
  BY <1>5, <1>6 DEF t
<1>13. HeldOnce'
  BY <1>1, <1>12 DEF PlaceInv, HeldOnce
<1>14. NotYetHeld'
  <2>1. \A u \in Tasks : State'[u] = "none" => State[u] = "none"
    BY <1>7, <1>9
  <2> QED BY <1>1, <1>12, <2>1 DEF PlaceInv, NotYetHeld
<1>15. Accounted'
  <2>1. \A u \in Tasks : (u \in toSubmit' \/ State'[u] = "none"
                            \/ \E i \in 1..Len(queue') : queue'[i] = u) => moved'[u] = 0
    BY <1>1, <1>7, <1>8, <1>9 DEF PlaceInv, Accounted
  <2>2. ASSUME NEW v \in Workers, NEW u \in Tasks, worker'[v].task = u
        PROVE  /\ moved'[u] + worker'[v].left = shards'[u]
               /\ worker'[v].at = "taken" => moved'[u] = 0
               /\ worker'[v].at \in {"top", "wait", "completed"} => shards'[u] > 0
               /\ worker'[v].at = "completed" => worker'[v].left = 0
               /\ worker'[v].at = "failed" => worker'[v].left > 0 \/ shards'[u] = 0
    <3>1. CASE v = w
      BY <1>1, <1>5, <2>2, <3>1
    <3>2. CASE v # w
      <4>1. worker'[v] = worker[v] /\ u # t
        BY <1>6, <1>10, <1>12, <2>2, <3>2
      <4> QED BY <1>1, <1>7, <2>2, <4>1 DEF PlaceInv, Accounted
    <3> QED BY <3>1, <3>2
  <2> QED BY <2>1, <2>2 DEF Accounted
<1> QED BY <1>11, <1>13, <1>14, <1>15 DEF Places

\* A worker that ends its task or exits holds nothing.
LEMMA FinishKeeps ==
  ASSUME PlaceInv, NEW w \in Workers, WorkerFinish(w) \/ WorkerExit(w)
  PROVE  Places'
<1>1. UNCHANGED <<queue, toSubmit, cancelling, eval, moved, shards>>
  BY DEF WorkerFinish, WorkerExit, WorkerVarsOnly, evalVars
<1>2. \A v \in Workers \ {w} : worker'[v] = worker[v]
  BY DEF PlaceInv, TypeOK, WorkerFinish, WorkerExit
<1>3. \A t \in Tasks : State'[t] = "none" => State[t] = "none"
  BY DEF WorkerFinish, WorkerExit, PlaceInv, TypeOK
<1>4. worker'[w].task = NoTask /\ worker'[w].at \in {"idle", "exited"}
  BY DEF WorkerFinish, WorkerExit, Idle, Exited, PlaceInv, TypeOK
<1>5. NoTask \notin Tasks /\ \A i \in 1..Len(queue) : queue[i] \in Tasks /\ queue[i] # NoTask
  BY RebalanceAssumption DEF PlaceInv, TypeOK
<1>6. WorkerPlaces'
  BY <1>2, <1>4 DEF PlaceInv, WorkerPlaces
<1>7. NotYetHeld'
  BY <1>1, <1>2, <1>3, <1>4, <1>5 DEF PlaceInv, NotYetHeld
<1>8. HeldOnce'
  BY <1>1, <1>2, <1>4, <1>5 DEF PlaceInv, HeldOnce
<1>9. Accounted'
  BY <1>1, <1>2, <1>3, <1>4, <1>5 DEF PlaceInv, Accounted
<1> QED BY <1>6, <1>7, <1>8, <1>9 DEF Places

\* Plans are made for tasks that are nowhere yet.
LEMMA PlanKeeps ==
  ASSUME PlaceInv, GeneratePlan
  PROVE  Places'
<1>1. UNCHANGED <<State, worker, queue, cancelling, moved>> /\ eval' = "submitting"
  BY DEF GeneratePlan, history
<1>2. PICK new \in SUBSET {t \in Tasks : State[t] = "none"} :
        /\ toSubmit' = new
        /\ \A t \in Tasks \ new : shards'[t] = shards[t]
  BY DEF GeneratePlan, PlaceInv, TypeOK
<1>3. WorkerPlaces' /\ HeldOnce'
  BY <1>1 DEF PlaceInv, WorkerPlaces, HeldOnce
<1>4. NotYetHeld'
  BY <1>1, <1>2 DEF PlaceInv, NotYetHeld
<1>5. \A w \in Workers, t \in Tasks : worker[w].task = t => shards'[t] = shards[t]
  BY <1>2 DEF PlaceInv, NotYetHeld
<1>6. Accounted'
  BY <1>1, <1>2, <1>5 DEF PlaceInv, Accounted
<1> QED BY <1>3, <1>4, <1>6 DEF Places

LEMMA PlaceStep == ASSUME PlaceInv, [Next]_vars PROVE PlaceInv'
<1>1. TypeOK'
  BY TypeStep DEF PlaceInv
<1>2. SUFFICES Places'
  BY <1>1 DEF PlaceInv, Places
<1>3. ASSUME UNCHANGED <<queue, worker, toSubmit, moved, shards>>,
             eval' = "submitting" \/ eval' = eval \/ toSubmit = {},
             eval = "submitting" => eval' = "submitting" \/ toSubmit = {},
             \A t \in Tasks : State'[t] = "none" => State[t] = "none" /\ cancelling' # t
      PROVE  Places'
  <2>1. WorkerPlaces' /\ HeldOnce'
    BY <1>3 DEF PlaceInv, WorkerPlaces, HeldOnce
  <2>2. NotYetHeld'
    BY <1>3 DEF PlaceInv, NotYetHeld
  <2>3. Accounted'
    BY <1>3 DEF PlaceInv, Accounted
  <2> QED BY <2>1, <2>2, <2>3 DEF Places
<1>4. CASE CancelSet
  BY <1>3, <1>4, RebalanceAssumption DEF CancelSet, evalVars, PlaceInv, TypeOK, NotYetHeld
<1>5. CASE EvaluateNothing \/ SubmitDone \/ EvaluateExit
  BY <1>3, <1>5 DEF EvaluateNothing, SubmitDone, EvaluateEnd, EvaluateExit, taskVars, history,
                    PlaceInv, NotYetHeld
<1>6. CASE TriggerRebalance \/ StopCancel \/ StopReturn \/ Tick \/ UNCHANGED vars
  BY <1>3, <1>6 DEF TriggerRebalance, StopCancel, StopReturn, Tick, vars, taskVars, evalVars,
                    history, PlaceInv, NotYetHeld
<1>7. ASSUME NEW g \in {"ticker", "trigger"}, EvaluateStart(g)
      PROVE  Places'
  BY <1>3, <1>7 DEF EvaluateStart, taskVars, history, PlaceInv, NotYetHeld
<1>8. ASSUME NEW t \in Tasks, CancelCheck(t) PROVE Places'
  BY <1>3, <1>8 DEF CancelCheck, Active, taskVars, evalVars, history, PlaceInv, TypeOK, NotYetHeld
<1>9. ASSUME NEW w \in Workers, Worker(w) PROVE Places'
  BY <1>9, TakeKeeps, WorkKeeps, FinishKeeps DEF Worker
<1> QED BY <1>4, <1>5, <1>6, <1>7, <1>8, <1>9, SubmitKeeps, SendKeeps, PlanKeeps
        DEF Next, Evaluation

-----------------------------------------------------------------------------
\* One task's part of StatusIsTrue.
TaskStatus(t) ==
  /\ Active(t) => Owned(t)
  /\ State[t] = "completed" => AllMoved(t)
  /\ State[t] = "failed" /\ ~Owned(t) /\ AllMoved(t) => t \in cancelled

\* Who overwrites a task's State leaves the status true: the submitter, which
\* has the task or fails it before anything is moved ...
LEMMA SubmitStatus ==
  ASSUME TaskInv, NEW t \in Tasks, SubmitTask(t) \/ SubmitSend(t), NEW u \in Tasks
  PROVE  TaskStatus(u)'
<1>1. UNCHANGED <<worker, moved, shards, cancelled>> /\ TaskStatus(u)
  BY DEF SubmitTask, SubmitSend, history, TaskInv, StatusIsTrue, TaskStatus
<1>2. t \in toSubmit /\ moved[t] = 0 /\ shards[t] \in Nat
  BY RebalanceAssumption
     DEF SubmitTask, SubmitSend, Sending, TaskInv, PlaceInv, Accounted, TypeOK
<1>3. ~AllMoved(t) /\ ~AllMoved(t)'
  BY <1>1, <1>2 DEF AllMoved
<1>4. CASE SubmitTask(t)
  <2>1. /\ UNCHANGED <<queue, toSubmit>> /\ State'[t] = "pending"
        /\ \A v \in Tasks \ {t} : State'[v] = State[v]
    BY <1>4 DEF SubmitTask, evalVars, TaskInv, PlaceInv, TypeOK
  <2> QED BY <1>1, <1>2, <1>3, <2>1 DEF TaskStatus, Active, Owned, Sending, AllMoved
<1>5. CASE SubmitSend(t)
  <2>1. toSubmit' = toSubmit \ {t}
    BY <1>5 DEF SubmitSend
  <2>2. queue \in Seq(Tasks) /\ Len(queue) \in Nat
    BY DEF TaskInv, PlaceInv, TypeOK
  <2>3. CASE Len(queue) < QueueCap
    <3>1. queue' = Append(queue, t) /\ State' = State
      BY <1>5, <2>3 DEF SubmitSend
    <3>2. /\ \A i \in 1..Len(queue) : i \in 1..Len(queue') /\ queue'[i] = queue[i]
          /\ Len(queue) + 1 \in 1..Len(queue') /\ queue'[Len(queue) + 1] = t
      BY <2>2, <3>1
    <3>3. Owned(t)'
      BY <3>2 DEF Owned
    <3>4. u # t /\ Owned(u) => Owned(u)'
      BY <1>1, <2>1, <3>1, <3>2 DEF Owned, Sending
    <3> QED BY <1>1, <1>3, <3>1, <3>3, <3>4 DEF TaskStatus, Active, AllMoved
  <2>4. CASE ~(Len(queue) < QueueCap)
    <3>1. queue' = queue /\ State'[t] = "failed" /\ \A v \in Tasks \ {t} : State'[v] = State[v]
      BY <1>5, <2>4 DEF SubmitSend, TaskInv, PlaceInv, TypeOK
    <3> QED BY <1>1, <1>3, <2>1, <3>1 DEF TaskStatus, Active, Owned, Sending, AllMoved
  <2> QED BY <2>3, <2>4
<1> QED BY <1>4, <1>5

\* ... the worker, which has the task until it records what it did ...
LEMMA WorkerStatus ==
  ASSUME TaskInv, PlaceInv', NEW w \in Workers, Worker(w), NEW u \in Tasks
  PROVE  TaskStatus(u)'
<1>1. UNCHANGED <<toSubmit, shards, cancelled>> /\ TaskStatus(u)
  BY DEF Worker, WorkerTake, WorkerStart, WorkerTop, WorkerShardDone, WorkerInterrupted,
         WorkerFinish, WorkerExit, WorkerVarsOnly, evalVars, TaskInv, StatusIsTrue, TaskStatus
<1>2. worker[w] \in WorkerRecord /\ PlaceInv
  BY DEF TaskInv, PlaceInv, TypeOK, WorkerRecord
<1>3. \A v \in Workers \ {w} : worker'[v] = worker[v]
  BY <1>2 DEF PlaceInv, TypeOK, Worker, WorkerTake, WorkerStart, WorkerTop, WorkerShardDone,
              WorkerInterrupted, WorkerFinish, WorkerExit
<1>4. CASE WorkerTake(w)
  <2>1. UNCHANGED <<State, moved>> /\ worker'[w].task = Head(queue) /\ worker[w].task = NoTask
    BY <1>2, <1>4 DEF WorkerTake, Idle, PlaceInv, TypeOK
  <2>2. /\ queue \in Seq(Tasks) /\ Len(queue) \in Nat \ {0} /\ Head(queue) = queue[1]
        /\ queue' = Tail(queue)
    BY <1>2, <1>4 DEF WorkerTake, PlaceInv, TypeOK
  <2>3. \A i \in 1..Len(queue) : i = 1 \/ (i - 1 \in 1..Len(queue') /\ queue'[i - 1] = queue[i])
    BY <2>2
  <2>4. \A i \in 1..Len(queue') : i + 1 \in 1..Len(queue) /\ queue'[i] = queue[i + 1]
    BY <2>2
  <2>5. Owned(u) => Owned(u)'
    <3>1. CASE \E i \in 1..Len(queue) : queue[i] = u
      BY <2>1, <2>2, <2>3, <3>1 DEF Owned
    <3>2. CASE \E v \in Workers : worker[v].task = u
      BY <1>3, <2>1, <3>2, RebalanceAssumption DEF Owned
    <3> QED BY <1>1, <2>1, <3>1, <3>2 DEF Owned, Sending
  <2> QED BY <1>1, <2>1, <2>5 DEF TaskStatus, Active, AllMoved
<1>5. CASE WorkerExit(w)
  <2>1. UNCHANGED <<State, moved, queue>> /\ worker'[w].task = NoTask /\ worker[w].task = NoTask
    BY <1>2, <1>5 DEF WorkerExit, Idle, Exited, PlaceInv, TypeOK
  <2>2. Owned(u) <=> Owned(u)'
    BY <1>1, <1>3, <2>1 DEF Owned, Sending
  <2> QED BY <1>1, <2>1, <2>2 DEF TaskStatus, Active, AllMoved
<1>6. CASE WorkerStart(w) \/ WorkerTop(w) \/ WorkerShardDone(w) \/ WorkerInterrupted(w)
  <2>1. worker[w].at \notin {"idle", "exited"}
    BY <1>6 DEF WorkerStart, WorkerTop, WorkerShardDone, WorkerInterrupted
  <2>2. PICK t \in Tasks : t = worker[w].task
    BY <1>2, <2>1 DEF PlaceInv, WorkerPlaces, WorkerRecord
  <2>3. worker'[w].task = t
    BY <1>2, <1>6, <2>2, WorkerBooks
  <2>4. UNCHANGED queue /\ \A v \in Tasks \ {t} : State'[v] = State[v] /\ moved'[v] = moved[v]
    BY <1>2, <1>6, <2>2
       DEF PlaceInv, TypeOK, WorkerStart, WorkerTop, WorkerShardDone, WorkerInterrupted
  <2>5. State'[t] = State[t] \/ State'[t] = "running"
    BY <1>2, <1>6, <2>2
       DEF PlaceInv, TypeOK, WorkerStart, WorkerTop, WorkerShardDone, WorkerInterrupted
  <2>6. moved'[t] = moved[t] \/ worker[w].at = "wait"
    BY <1>6 DEF WorkerStart, WorkerTop, WorkerShardDone, WorkerInterrupted
  <2>7. /\ worker[w].at = "wait" => worker[w].left > 0
        /\ moved[t] + worker[w].left = shards[t]
        /\ moved[t] \in Nat /\ shards[t] \in Nat /\ worker[w].left \in Nat
    <3>1. /\ worker[w].at = "wait" => worker[w].left > 0
          /\ moved[t] + worker[w].left = shards[t]
      BY <1>2, <2>2 DEF PlaceInv, WorkerPlaces, Accounted
    <3>2. moved[t] \in Nat /\ shards[t] \in Nat
      <4>1. moved \in [Tasks -> 0..MaxShards] /\ shards \in [Tasks -> 0..MaxShards]
        BY <1>2 DEF PlaceInv, TypeOK
      <4> QED BY <4>1, RebalanceAssumption
    <3>3. worker[w].left \in Nat
      BY <1>2, RebalanceAssumption DEF WorkerRecord
    <3> QED BY <3>1, <3>2, <3>3
  <2>8. Owned(t) /\ Owned(t)'
    BY <2>2, <2>3 DEF Owned
  <2>9. u # t /\ (State'[u] # "none" <=> State[u] # "none") => (Owned(u) <=> Owned(u)')
    <3>1. \A v \in Workers : worker'[v].task = worker[v].task
      BY <1>3, <2>2, <2>3
    <3> QED BY <1>1, <2>4, <3>1 DEF Owned, Sending
  <2>10. CASE u = t
    <3>1. State'[t] = "completed" => State[t] = "completed"
      BY <2>5
    <3>2. State[t] = "completed" => moved[t] = shards[t] /\ shards[t] > 0
      BY <1>1, <2>10 DEF TaskStatus, AllMoved
    <3>3. State[t] = "completed" => worker[w].at # "wait"
      BY <2>7, <3>2
    <3>4. State'[t] = "completed" => AllMoved(t)'
      BY <1>1, <2>6, <3>1, <3>2, <3>3 DEF AllMoved
    <3> QED BY <2>8, <2>10, <3>4 DEF TaskStatus
  <2>11. CASE u # t
    BY <1>1, <2>4, <2>9, <2>11 DEF TaskStatus, Active, AllMoved
  <2> QED BY <2>10, <2>11
<1>7. CASE WorkerFinish(w)
  <2>1. PICK t \in Tasks : t = worker[w].task
    BY <1>2, <1>7 DEF WorkerFinish, PlaceInv, WorkerPlaces, WorkerRecord
  <2>2. /\ UNCHANGED <<queue, moved>> /\ State'[t] = worker[w].at
        /\ worker[w].at \in {"completed", "failed"}
        /\ \A v \in Tasks \ {t} : State'[v] = State[v]
    BY <1>2, <1>7, <2>1 DEF WorkerFinish, PlaceInv, TypeOK
  <2>3. worker'[w].task = NoTask
    BY <1>2, <1>7 DEF WorkerFinish, Idle, PlaceInv, TypeOK
  <2>4. /\ moved[t] + worker[w].left = shards[t]
        /\ worker[w].at = "completed" => worker[w].left = 0 /\ shards[t] > 0
        /\ worker[w].at = "failed" => worker[w].left > 0 \/ shards[t] = 0
        /\ moved[t] \in Nat /\ shards[t] \in Nat /\ worker[w].left \in Nat
    <3>1. /\ moved[t] + worker[w].left = shards[t]
          /\ worker[w].at = "completed" => worker[w].left = 0 /\ shards[t] > 0
          /\ worker[w].at = "failed" => worker[w].left > 0 \/ shards[t] = 0
      BY <1>2, <2>1 DEF PlaceInv, Accounted
    <3>2. moved[t] \in Nat /\ shards[t] \in Nat
      <4>1. moved \in [Tasks -> 0..MaxShards] /\ shards \in [Tasks -> 0..MaxShards]
        BY <1>2 DEF PlaceInv, TypeOK
      <4> QED BY <4>1, RebalanceAssumption
    <3>3. worker[w].left \in Nat
      BY <1>2, RebalanceAssumption DEF WorkerRecord
    <3> QED BY <3>1, <3>2, <3>3
  <2>5. worker[w].at = "completed" => AllMoved(t)'
    BY <1>1, <2>2, <2>4 DEF AllMoved
  <2>6. worker[w].at = "failed" => ~AllMoved(t)'
    BY <1>1, <2>2, <2>4 DEF AllMoved
  <2>7. u # t => (Owned(u) <=> Owned(u)')
    BY <1>1, <1>3, <2>1, <2>2, <2>3, RebalanceAssumption DEF Owned, Sending
  <2>8. CASE u = t
    BY <2>2, <2>5, <2>6, <2>8 DEF TaskStatus, Active
  <2>9. CASE u # t
    BY <1>1, <2>2, <2>7, <2>9 DEF TaskStatus, Active, AllMoved
  <2> QED BY <2>8, <2>9
<1> QED BY <1>4, <1>5, <1>6, <1>7 DEF Worker

\* ... and CancelTask, which only ever writes "failed" and is remembered.
LEMMA CancelStatus ==
  ASSUME TaskInv, CancelSet, NEW u \in Tasks
  PROVE  TaskStatus(u)'
<1>1. /\ UNCHANGED <<queue, worker, toSubmit, moved, shards>> /\ TaskStatus(u)
      /\ cancelling \in Tasks /\ cancelled' = cancelled \union {cancelling}
      /\ State'[cancelling] = "failed" /\ \A v \in Tasks \ {cancelling} : State'[v] = State[v]
  BY DEF CancelSet, evalVars, TaskInv, PlaceInv, TypeOK, StatusIsTrue, TaskStatus
<1> QED BY <1>1 DEF TaskStatus, Active, Owned, Sending, AllMoved

LEMMA TaskStep == ASSUME TaskInv, [Next]_vars PROVE TaskInv'
<1>1. PlaceInv'
  BY PlaceStep DEF TaskInv
<1>2. SUFFICES ASSUME NEW u \in Tasks PROVE TaskStatus(u)'
  BY <1>1 DEF TaskInv, StatusIsTrue, TaskStatus
<1>3. TaskStatus(u)
  BY DEF TaskInv, StatusIsTrue, TaskStatus
<1>4. CASE UNCHANGED <<State, queue, worker, toSubmit, moved, shards, cancelled>>
  BY <1>3, <1>4 DEF TaskStatus, Active, Owned, Sending, AllMoved
<1>5. CASE GeneratePlan
  <2>1. UNCHANGED <<State, worker, queue, moved, cancelled>> /\ toSubmit = {}
    BY <1>5 DEF GeneratePlan, history, TaskInv, PlaceInv, NotYetHeld
  <2>2. PICK new \in SUBSET {t \in Tasks : State[t] = "none"} :
          /\ toSubmit' = new
          /\ \A t \in Tasks \ new : shards'[t] = shards[t]
    BY <1>5 DEF GeneratePlan, TaskInv, PlaceInv, TypeOK
  <2>3. CASE State[u] = "none"
    BY <2>1, <2>3 DEF TaskStatus, Active
  <2>4. CASE State[u] # "none"
    <3>1. u \notin new /\ shards'[u] = shards[u]
      BY <2>2, <2>4
    <3>2. Owned(u) <=> Owned(u)'
      BY <2>1, <2>2, <3>1 DEF Owned, Sending
    <3> QED BY <1>3, <2>1, <3>1, <3>2 DEF TaskStatus, Active, AllMoved
  <2> QED BY <2>3, <2>4
<1>6. CASE TriggerRebalance \/ EvaluateNothing \/ SubmitDone \/ EvaluateExit \/ StopCancel
           \/ StopReturn \/ Tick \/ UNCHANGED vars
  BY <1>4, <1>6 DEF TriggerRebalance, EvaluateNothing, SubmitDone, EvaluateEnd, EvaluateExit,
                    StopCancel, StopReturn, Tick, vars, taskVars, evalVars, history
<1>7. ASSUME NEW g \in {"ticker", "trigger"}, EvaluateStart(g)
      PROVE  TaskStatus(u)'
  BY <1>4, <1>7 DEF EvaluateStart, taskVars, history
<1>8. ASSUME NEW t \in Tasks, CancelCheck(t) PROVE TaskStatus(u)'
  BY <1>4, <1>8 DEF CancelCheck, taskVars, evalVars, history
<1> QED BY <1>1, <1>5, <1>6, <1>7, <1>8, SubmitStatus, WorkerStatus, CancelStatus
        DEF Next, Evaluation

LEMMA TaskInvariance == Spec => []TaskInv
BY InvInit, TaskStep, PTL DEF Spec

\* Every state of the rebalance manager and its migrator has the declared
\* shape; the shape includes that pendingTasks never exceeds its capacity and
\* that isRebalancing is set exactly while the loop evaluates or submits.
THEOREM TypeCorrect == Spec => []TypeOK
BY TaskInvariance, PTL DEF TaskInv, PlaceInv

\* What GetTaskStatus answers about a task is true, for any number of workers,
\* tasks and shards and any queue capacity, however SubmitTasks, the workers
\* and CancelTask overwrite each other's State: no task is left pending or
\* running with nobody to end it, none is completed with shards unmoved, and
\* none is failed with all shards moved unless it was cancelled.
THEOREM StatusAlwaysTrue == Spec => []StatusIsTrue
BY TaskInvariance, PTL DEF TaskInv

-----------------------------------------------------------------------------
LEMMA RoundStep == ASSUME RoundInv, TypeOK', [Next]_vars PROVE RoundInv'
<1>. USE RebalanceAssumption DEF RoundInv, LookedAt, PastRounds, Round, TypeOK, taskVars, evalVars, history
<1>1. CASE UNCHANGED vars \/ TriggerRebalance \/ EvaluateExit \/ CancelSet \/ StopCancel \/ StopReturn
  BY <1>1 DEF vars, TriggerRebalance, EvaluateExit, CancelSet, StopCancel, StopReturn
<1>2. ASSUME NEW g \in {"ticker", "trigger"}, EvaluateStart(g) PROVE RoundInv'
  BY <1>2 DEF EvaluateStart, TooSoon
<1>3. CASE EvaluateNothing \/ GeneratePlan
  BY <1>3 DEF EvaluateNothing, EvaluateEnd, GeneratePlan
<1>4. ASSUME NEW t \in Tasks, SubmitTask(t) PROVE RoundInv'
  BY <1>4 DEF SubmitTask
<1>5. ASSUME NEW t \in Tasks, SubmitSend(t) PROVE RoundInv'
  <2>1. UNCHANGED <<eval, lastRebalance, submitted, clock>>
    BY <1>5 DEF SubmitSend
  <2> QED BY <2>1
<1>6. CASE SubmitDone
  BY <1>6 DEF SubmitDone, EvaluateEnd
<1>7. ASSUME NEW w \in Workers, Worker(w) PROVE RoundInv'
  BY <1>7 DEF Worker, WorkerTake, WorkerStart, WorkerTop, WorkerShardDone, WorkerInterrupted, WorkerFinish,
              WorkerExit, WorkerVarsOnly
<1>8. ASSUME NEW t \in Tasks, CancelCheck(t) PROVE RoundInv'
  BY <1>8 DEF CancelCheck
<1>9. CASE Tick
  BY <1>9 DEF Tick
<1> HIDE DEF RoundInv
<1> QED BY <1>1, <1>2, <1>3, <1>4, <1>6, <1>7, <1>8, <1>9, <1>5 DEF Next, Evaluation

\* Only SubmitTask changes the record of the latest submission.
LEMMA SubmissionStep ==
  ASSUME RoundInv, [Next]_vars, submitted' # submitted, submitted.round \notin {0, Round}
  PROVE  clock - submitted.time >= MinInterval
<1>1. \E t \in Tasks : SubmitTask(t)
  BY DEF Next, vars, Evaluation, Worker, TriggerRebalance, EvaluateStart, EvaluateNothing,
         EvaluateEnd, GeneratePlan, SubmitDone, EvaluateExit, SubmitSend, WorkerTake, WorkerStart, WorkerTop,
         WorkerShardDone, WorkerInterrupted, WorkerFinish, WorkerExit, WorkerVarsOnly, CancelCheck,
         CancelSet, StopCancel, StopReturn, Tick, taskVars, history
<1>2. eval = "submitting"
  BY <1>1 DEF SubmitTask
<1> QED BY <1>2, RebalanceAssumption DEF RoundInv, LookedAt, PastRounds, TypeOK

\* Submissions of different rounds are at least MinMigrationInterval apart,
\* for every interval: evaluate looks at lastRebalance once, long before it
\* submits, and TriggerRebalance may call it at any time, but the clock only
\* grows and only the loop itself moves lastRebalance.
THEOREM RoundsKeepDistance == Spec => RoundsApart
<1>1. ASSUME RoundInv, [Next]_vars
      PROVE  [submitted' # submitted /\ submitted.round \notin {0, Round}
                => clock - submitted.time >= MinInterval]_vars
  BY <1>1, SubmissionStep
<1> QED BY <1>1, InvInit, RoundStep, TypeCorrect, PTL DEF Spec, RoundsApart
=============================================================================
