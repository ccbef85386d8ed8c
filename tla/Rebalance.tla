------------------------------ MODULE Rebalance ------------------------------
(***************************************************************************)
(* Rebalancing: the evaluation loop of the rebalance manager               *)
(* (internal/metaserver/core/cluster/rebalance/manager.go) composed with   *)
(* the migrator's task queue and worker pool (rebalance/migrator.go).      *)
(*                                                                         *)
(* Task records are shared between the submitter, the workers and          *)
(* CancelTask without any lock: looking at a task's State and assigning it *)
(* are steps of their own.  What the strategy decides (whether to          *)
(* rebalance, which plans) is left open here; a plan is a task with a      *)
(* number of shards.                                                       *)
(***************************************************************************)
EXTENDS Integers, Sequences, FiniteSets

CONSTANTS Tasks,       \* tasks, each submitted at most once (uuid)
          Workers,     \* maxConcurrent worker goroutines
          QueueCap,    \* capacity of pendingTasks (100 in the code)
          MaxShards,   \* bound on the shards of a plan
          MinInterval, \* cfg.MinMigrationInterval, in clock units
          MaxClock     \* bound on the clock

NoTask == "no task"

ASSUME RebalanceAssumption ==
  /\ NoTask \notin Tasks
  /\ QueueCap \in Nat /\ MaxShards \in Nat /\ MinInterval \in Nat /\ MaxClock \in Nat

VARIABLES State,         \* MigrationTask.State; "none" before SubmitTasks
          shards,        \* len(Plan.ShardIDs)
          queue,         \* pendingTasks
          worker,        \* per worker: its task, the shards left, where it is
          cancelling,    \* the task CancelTask has found active, or NoTask
          eval,          \* the evaluation loop: idle, evaluating, submitting, done
          toSubmit,      \* plans SubmitTasks has still to submit
          isRebalancing,
          lastRebalance, \* -1 is the zero time
          trigger,       \* a signal is in triggerCh
          clock,         \* time.Now()
          ctxDone,       \* Stop has cancelled the context
          stop,          \* Stop: no, waiting, done, timedout
          submitted,     \* history: time and round of the latest submission
          moved,         \* history: the shards of a task that have been moved
          cancelled      \* history: the tasks CancelTask has answered true for

history == <<submitted, moved, cancelled>>
taskVars == <<State, shards, queue, history>>
evalVars == <<eval, toSubmit, isRebalancing, lastRebalance, trigger>>
vars == <<taskVars, worker, cancelling, evalVars, clock, ctxDone, stop>>

TaskState == {"none", "pending", "running", "completed", "failed"}
Active(t) == State[t] \in {"pending", "running"}
Idle   == [task |-> NoTask, left |-> 0, at |-> "idle"]
Exited == [task |-> NoTask, left |-> 0, at |-> "exited"]

Init ==
  /\ State = [t \in Tasks |-> "none"]
  /\ shards = [t \in Tasks |-> 0]
  /\ queue = <<>>
  /\ worker = [w \in Workers |-> Idle]
  /\ cancelling = NoTask
  /\ eval = "idle" /\ toSubmit = {} /\ isRebalancing = FALSE
  /\ lastRebalance = -1 /\ trigger = FALSE
  /\ clock = 0 /\ ctxDone = FALSE /\ stop = "no"
  /\ submitted = [time |-> 0, round |-> 0]
  /\ moved = [t \in Tasks |-> 0] /\ cancelled = {}

(***************************************************************************)
(* The evaluation loop.                                                    *)
(***************************************************************************)
TriggerRebalance ==
  /\ trigger' = TRUE
  /\ UNCHANGED <<taskVars, worker, cancelling, eval, toSubmit, isRebalancing, lastRebalance,
                 clock, ctxDone, stop>>

\* Faulty variant: the minimum interval is not looked at.
TooSoon_Never == FALSE

TooSoon == lastRebalance # -1 /\ clock - lastRebalance < MinInterval

\* The ticker (which may fire at any time) or the trigger starts an evaluation.
EvaluateStart(signal) ==
  /\ eval = "idle"
  /\ signal = "trigger" => trigger
  /\ trigger' = (trigger /\ signal # "trigger")
  /\ IF isRebalancing \/ TooSoon
       THEN UNCHANGED <<eval, isRebalancing>>
       ELSE eval' = "evaluating" /\ isRebalancing' = TRUE
  /\ UNCHANGED <<taskVars, worker, cancelling, toSubmit, lastRebalance, clock, ctxDone, stop>>

\* Faulty variant: the flag is not reset.
EvaluateEnd_FlagLeft ==
  /\ eval' = "idle"
  /\ UNCHANGED <<isRebalancing, taskVars, worker, cancelling, trigger, clock, ctxDone, stop>>

EvaluateEnd ==
  /\ eval' = "idle"
  /\ isRebalancing' = FALSE
  /\ UNCHANGED <<taskVars, worker, cancelling, trigger, clock, ctxDone, stop>>

\* Too few nodes, no imbalance, or GeneratePlan fails.
EvaluateNothing ==
  /\ eval = "evaluating"
  /\ EvaluateEnd
  /\ UNCHANGED <<toSubmit, lastRebalance>>

\* GeneratePlan answers with plans; no plans at all is a success as well.
GeneratePlan ==
  /\ eval = "evaluating"
  /\ \E new \in SUBSET {t \in Tasks : State[t] = "none"}, n \in 0..MaxShards :
       /\ toSubmit' = new
       /\ shards' = [t \in Tasks |-> IF t \in new THEN n ELSE shards[t]]
  /\ eval' = "submitting"
  /\ UNCHANGED <<State, queue, history, worker, cancelling, isRebalancing,
                 lastRebalance, trigger, clock, ctxDone, stop>>

\* Rounds are told apart by the lastRebalance they began with.
Round == lastRebalance + 2

\* SubmitTasks has stored the task and not yet sent it to the queue.
Sending(t) == t \in toSubmit /\ State[t] # "none"

\* One iteration of SubmitTasks: the task becomes visible to CancelTask ...
SubmitTask(t) ==
  /\ eval = "submitting"
  /\ t \in toSubmit
  /\ \A u \in Tasks : ~Sending(u)
  /\ State' = [State EXCEPT ![t] = "pending"]
  /\ submitted' = [time |-> clock, round |-> Round]
  /\ UNCHANGED <<shards, queue, moved, cancelled, worker, cancelling, evalVars, clock,
                 ctxDone, stop>>

\* Faulty variant: a task that finds no room stays pending.
SubmitSend_Dropped(t) ==
  /\ Sending(t)
  /\ toSubmit' = toSubmit \ {t}
  /\ queue' = IF Len(queue) < QueueCap THEN Append(queue, t) ELSE queue
  /\ UNCHANGED <<State, shards, history, worker, cancelling, eval, isRebalancing, lastRebalance,
                 trigger, clock, ctxDone, stop>>

\* ... and is sent to the queue without waiting; a full queue fails it.
SubmitSend(t) ==
  /\ Sending(t)
  /\ toSubmit' = toSubmit \ {t}
  /\ IF Len(queue) < QueueCap
       THEN queue' = Append(queue, t) /\ UNCHANGED State
       ELSE State' = [State EXCEPT ![t] = "failed"] /\ UNCHANGED queue
  /\ UNCHANGED <<shards, history, worker, cancelling, eval, isRebalancing, lastRebalance,
                 trigger, clock, ctxDone, stop>>

SubmitDone ==
  /\ eval = "submitting"
  /\ toSubmit = {}
  /\ lastRebalance' = clock
  /\ EvaluateEnd
  /\ UNCHANGED toSubmit

EvaluateExit ==
  /\ eval = "idle"
  /\ ctxDone
  /\ eval' = "done"
  /\ UNCHANGED <<taskVars, worker, cancelling, toSubmit, isRebalancing, lastRebalance, trigger,
                 clock, ctxDone, stop>>

(***************************************************************************)
(* The workers.  A shard is a look at the context ("top") followed by a    *)
(* wait that the shard's end or the context ends.                          *)
(***************************************************************************)
WorkerVarsOnly ==
  UNCHANGED <<shards, submitted, cancelled, cancelling, evalVars, clock, ctxDone, stop>>

WorkerTake(w) ==
  /\ worker[w] = Idle
  /\ queue # <<>>
  /\ queue' = Tail(queue)
  /\ worker' = [worker EXCEPT ![w] =
                  [task |-> Head(queue), left |-> shards[Head(queue)], at |-> "taken"]]
  /\ UNCHANGED <<State, moved>>
  /\ WorkerVarsOnly

\* processTask begins, whatever CancelTask has made of State; a task without
\* shards fails.
WorkerStart(w) ==
  /\ worker[w].at = "taken"
  /\ State' = [State EXCEPT ![worker[w].task] = "running"]
  /\ worker' = [worker EXCEPT ![w].at = IF worker[w].left = 0 THEN "failed" ELSE "top"]
  /\ UNCHANGED <<queue, moved>>
  /\ WorkerVarsOnly

WorkerTop(w) ==
  /\ worker[w].at = "top"
  /\ worker' = [worker EXCEPT ![w].at = IF worker[w].left = 0 THEN "completed"
                                        ELSE IF ctxDone THEN "failed" ELSE "wait"]
  /\ UNCHANGED <<State, queue, moved>>
  /\ WorkerVarsOnly

WorkerShardDone(w) ==
  /\ worker[w].at = "wait"
  /\ worker' = [worker EXCEPT ![w].at = "top", ![w].left = @ - 1]
  /\ moved' = [moved EXCEPT ![worker[w].task] = @ + 1]
  /\ UNCHANGED <<State, queue>>
  /\ WorkerVarsOnly

WorkerInterrupted(w) ==
  /\ worker[w].at = "wait"
  /\ ctxDone
  /\ worker' = [worker EXCEPT ![w].at = "failed"]
  /\ UNCHANGED <<State, queue, moved>>
  /\ WorkerVarsOnly

\* Faulty variant: the outcome is not recorded.
WorkerFinish_NotRecorded(w) ==
  /\ worker[w].at \in {"completed", "failed"}
  /\ worker' = [worker EXCEPT ![w] = Idle]
  /\ UNCHANGED <<State, queue, moved>>
  /\ WorkerVarsOnly

\* processTask records the outcome, whatever has happened to State meanwhile.
WorkerFinish(w) ==
  /\ worker[w].at \in {"completed", "failed"}
  /\ State' = [State EXCEPT ![worker[w].task] = worker[w].at]
  /\ worker' = [worker EXCEPT ![w] = Idle]
  /\ UNCHANGED <<queue, moved>>
  /\ WorkerVarsOnly

\* Faulty variant: a worker waits for the queue only.
WorkerExit_Never(w) ==
  /\ worker[w] = Idle /\ ctxDone /\ queue # <<>>
  /\ worker' = [worker EXCEPT ![w] = Exited]
  /\ UNCHANGED <<State, queue, moved>>
  /\ WorkerVarsOnly

\* select may take the cancelled context although tasks are waiting.
WorkerExit(w) ==
  /\ worker[w] = Idle
  /\ ctxDone
  /\ worker' = [worker EXCEPT ![w] = Exited]
  /\ UNCHANGED <<State, queue, moved>>
  /\ WorkerVarsOnly

(***************************************************************************)
(* CancelTask: a look at State, then the assignment.                       *)
(***************************************************************************)
CancelCheck(t) ==
  /\ cancelling = NoTask
  /\ Active(t)
  /\ cancelling' = t
  /\ UNCHANGED <<taskVars, worker, evalVars, clock, ctxDone, stop>>

CancelSet ==
  /\ cancelling # NoTask
  /\ State' = [State EXCEPT ![cancelling] = "failed"]
  /\ cancelled' = cancelled \union {cancelling}
  /\ cancelling' = NoTask
  /\ UNCHANGED <<shards, queue, submitted, moved, worker, evalVars, clock, ctxDone, stop>>

(***************************************************************************)
(* Stop: cancel, then wait for the workers, at most 30 s.                  *)
(***************************************************************************)
StopCancel ==
  /\ stop = "no"
  /\ stop' = "waiting"
  /\ ctxDone' = TRUE
  /\ UNCHANGED <<taskVars, worker, cancelling, evalVars, clock>>

StopReturn ==
  /\ stop = "waiting"
  /\ \/ (\A w \in Workers : worker[w] = Exited) /\ stop' = "done"
     \/ stop' = "timedout"
  /\ UNCHANGED <<taskVars, worker, cancelling, evalVars, clock, ctxDone>>

Tick ==
  /\ clock < MaxClock
  /\ clock' = clock + 1
  /\ UNCHANGED <<taskVars, worker, cancelling, evalVars, ctxDone, stop>>

Evaluation ==
  \/ \E signal \in {"ticker", "trigger"} : EvaluateStart(signal)
  \/ EvaluateNothing \/ GeneratePlan
  \/ \E t \in Tasks : SubmitTask(t) \/ SubmitSend(t)
  \/ SubmitDone \/ EvaluateExit

Worker(w) ==
  \/ WorkerTake(w) \/ WorkerStart(w) \/ WorkerTop(w) \/ WorkerShardDone(w)
  \/ WorkerInterrupted(w) \/ WorkerFinish(w) \/ WorkerExit(w)

Next ==
  \/ TriggerRebalance \/ Evaluation
  \/ \E w \in Workers : Worker(w)
  \/ \E t \in Tasks : CancelCheck(t)
  \/ CancelSet \/ StopCancel \/ StopReturn \/ Tick

Spec == Init /\ [][Next]_vars

(***************************************************************************)
(* Fairness: the workers are scheduled and their shard timers fire, and    *)
(* CancelTask and SubmitTasks go on once called (neither waits).  Nothing  *)
(* is assumed of the rest of the evaluation loop, of the callers or of the *)
(* choice a worker's select makes.                                         *)
(***************************************************************************)
Fairness ==
  /\ \A w \in Workers : WF_vars(Worker(w))
  /\ WF_vars(CancelSet)
  /\ WF_vars(\E t \in Tasks : SubmitSend(t))

FairSpec == Spec /\ Fairness

-----------------------------------------------------------------------------
\* The shape of the state.
TypeOK ==
  /\ State \in [Tasks -> TaskState]
  /\ shards \in [Tasks -> 0..MaxShards]
  /\ queue \in Seq(Tasks) /\ Len(queue) <= QueueCap
  /\ worker \in [Workers -> [task : Tasks \union {NoTask}, left : 0..MaxShards,
                             at : {"idle", "exited", "taken", "top", "wait", "completed", "failed"}]]
  /\ cancelling \in Tasks \union {NoTask}
  /\ eval \in {"idle", "evaluating", "submitting", "done"}
  /\ toSubmit \subseteq Tasks
  /\ isRebalancing \in BOOLEAN /\ (isRebalancing <=> eval \in {"evaluating", "submitting"})
  /\ lastRebalance \in Nat \union {-1} /\ trigger \in BOOLEAN
  /\ clock \in Nat /\ ctxDone \in BOOLEAN
  /\ stop \in {"no", "waiting", "done", "timedout"}
  /\ submitted \in [time : Nat, round : Nat]
  /\ moved \in [Tasks -> 0..MaxShards] /\ cancelled \subseteq Tasks

\* Somebody is going to bring the task further: SubmitTasks, the queue or a
\* worker has it.
Owned(t) ==
  \/ Sending(t)
  \/ \E i \in 1..Len(queue) : queue[i] = t
  \/ \E w \in Workers : worker[w].task = t

AllMoved(t) == shards[t] > 0 /\ moved[t] = shards[t]

\* What GetTaskStatus answers is true, however the assignments of State by
\* SubmitTasks, a worker and CancelTask fall: a task that is pending or running
\* is with somebody who will end it, one that is completed has had every shard
\* moved, and one that has ended failed although every shard was moved had been
\* cancelled.  (The converse is not promised: a task whose cancellation
\* CancelTask confirmed may go on and end completed.)
StatusIsTrue ==
  \A t \in Tasks :
    /\ Active(t) => Owned(t)
    /\ State[t] = "completed" => AllMoved(t)
    /\ State[t] = "failed" /\ ~Owned(t) /\ AllMoved(t) => t \in cancelled

\* Tasks of different rounds are submitted at least MinMigrationInterval
\* apart, whether the ticker or TriggerRebalance starts the rounds and however
\* long a round takes.
RoundsApart ==
  [][submitted' # submitted /\ submitted.round \notin {0, Round}
       => clock - submitted.time >= MinInterval]_vars

\* Every accepted task ends, completed or failed, unless the manager stops.
TaskEnds ==
  \A t \in Tasks : (State[t] = "pending") ~> (State[t] \in {"completed", "failed"} \/ ctxDone)

\* After Stop every worker exits, also one that is in the middle of a shard
\* or finds tasks in the queue, so that Stop has something to wait for.
WorkersExit ==
  \A w \in Workers : ctxDone ~> (worker[w] = Exited)
=============================================================================
