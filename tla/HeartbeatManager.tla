-------------------------- MODULE HeartbeatManager --------------------------
(***************************************************************************)
(* The heartbeat manager: a timeout failure detector                       *)
(* (internal/metaserver/core/cluster/heartbeat/manager.go).                *)
(*                                                                         *)
(* nodeStates is guarded by mu, and state changes go to stateChangeCh, a   *)
(* buffered channel, while mu is held: a full channel blocks the sender    *)
(* inside its critical section.  A critical section that sends nothing is  *)
(* one step; one that sends keeps mu until the send has gone through.      *)
(* FailCount is never read and is left out, and so is sendHeartbeats, which *)
(* changes nothing here (the heartbeats of other nodes are RecordHeartbeat).*)
(***************************************************************************)
EXTENDS Integers, Sequences

CONSTANTS Nodes,          \* nodes that may be monitored
          Self,           \* cfg.NodeID
          SuspectTimeout, \* cfg.SuspectTimeout, in clock units
          DeadTimeout,    \* cfg.DeadTimeout, in clock units
          ChanCap,        \* capacity of stateChangeCh (100 in the code)
          MaxClock        \* bound on the clock

ASSUME HeartbeatAssumption ==
  /\ SuspectTimeout \in Nat /\ DeadTimeout \in Nat /\ MaxClock \in Nat
  /\ ChanCap \in Nat \ {0}

VARIABLES monitored, \* keys of nodeStates
          state,     \* nodeStates[n].State
          last,      \* nodeStates[n].LastHeartbeat
          silent,    \* history: nodes RegisterNode made healthy without an event
          clock,     \* time.Now()
          mu,        \* holder of mu: free, check (checkHeartbeats), rec (RecordHeartbeat)
          out,       \* the state change its holder is sending, or NoEvent
          stateCh,   \* stateChangeCh
          checker,   \* checkHeartbeats: idle, locking, scanning, done
          checkNow,  \* the "now" of its current pass
          scan,      \* nodes its current pass has not looked at
          hbStopped  \* Stop has cancelled the context

nodeVars    == <<monitored, state, last, silent>>
checkerVars == <<checker, checkNow, scan>>
hbVars      == <<nodeVars, clock, mu, out, stateCh, checkerVars, hbStopped>>

Status      == {"healthy", "suspect", "dead"}
StateChange == [node : Nodes, state : Status]
NoEvent     == [node |-> "none", state |-> "none"]
Change(n, s) == [node |-> n, state |-> s]

HBInit ==
  /\ monitored = {}
  /\ state = [n \in Nodes |-> "healthy"]
  /\ last = [n \in Nodes |-> 0]
  /\ silent = {}
  /\ clock = 0
  /\ mu = "free" /\ out = NoEvent /\ stateCh = <<>>
  /\ checker = "idle" /\ checkNow = 0 /\ scan = {}
  /\ hbStopped = FALSE

(***************************************************************************)
(* Registration.  The record of a node that is not a key of nodeStates is  *)
(* kept at its initial value.                                              *)
(***************************************************************************)
Forget(gone) ==
  /\ monitored' = monitored \ gone
  /\ state' = [n \in Nodes |-> IF n \in gone THEN "healthy" ELSE state[n]]
  /\ last' = [n \in Nodes |-> IF n \in gone THEN 0 ELSE last[n]]
  /\ silent' = silent \ gone

RegisterNode(n) ==
  /\ mu = "free"
  /\ monitored' = monitored \union {n}
  /\ state' = [state EXCEPT ![n] = "healthy"]
  /\ last' = [last EXCEPT ![n] = clock]
  /\ silent' = silent \union {n}
  /\ UNCHANGED <<clock, mu, out, stateCh, checkerVars, hbStopped>>

UnregisterNode(n) ==
  /\ mu = "free"
  /\ Forget({n})
  /\ UNCHANGED <<clock, mu, out, stateCh, checkerVars, hbStopped>>

\* Faulty variant: a recovery is recorded but not announced.
RecordHeartbeat_NoEvent(n) ==
  /\ mu = "free"
  /\ monitored' = monitored \union {n}
  /\ state' = [state EXCEPT ![n] = "healthy"]
  /\ last' = [last EXCEPT ![n] = clock]
  /\ IF n \in monitored
       THEN UNCHANGED <<mu, out, silent>>
       ELSE mu' = "rec" /\ out' = Change(n, "healthy") /\ silent' = silent \ {n}
  /\ UNCHANGED <<clock, stateCh, checkerVars, hbStopped>>

\* A heartbeat of n: a node that was not healthy, or not known, is announced
\* healthy; mu is then kept until the channel has taken the event.
RecordHeartbeat(n) ==
  /\ mu = "free"
  /\ monitored' = monitored \union {n}
  /\ state' = [state EXCEPT ![n] = "healthy"]
  /\ last' = [last EXCEPT ![n] = clock]
  /\ IF n \in monitored /\ state[n] = "healthy"
       THEN UNCHANGED <<mu, out, silent>>
       ELSE mu' = "rec" /\ out' = Change(n, "healthy") /\ silent' = silent \ {n}
  /\ UNCHANGED <<clock, stateCh, checkerVars, hbStopped>>

\* Faulty variant: RecordHeartbeat returns without unlocking.
Send_NoUnlock ==
  /\ out # NoEvent
  /\ Len(stateCh) < ChanCap
  /\ stateCh' = Append(stateCh, out)
  /\ out' = NoEvent
  /\ UNCHANGED <<mu, nodeVars, clock, checkerVars, hbStopped>>

\* The channel has room: the event goes in.  RecordHeartbeat is then over,
\* checkHeartbeats goes on with the next node.
Send ==
  /\ out # NoEvent
  /\ Len(stateCh) < ChanCap
  /\ stateCh' = Append(stateCh, out)
  /\ out' = NoEvent
  /\ mu' = IF mu = "rec" THEN "free" ELSE mu
  /\ UNCHANGED <<nodeVars, clock, checkerVars, hbStopped>>

(***************************************************************************)
(* checkHeartbeats: "now" is read before the lock is taken.                *)
(***************************************************************************)
CheckTick ==
  /\ checker = "idle"
  /\ checker' = "locking"
  /\ checkNow' = clock
  /\ UNCHANGED <<nodeVars, clock, mu, out, stateCh, scan, hbStopped>>

CheckLock ==
  /\ checker = "locking"
  /\ mu = "free"
  /\ mu' = "check"
  /\ checker' = "scanning"
  /\ scan' = monitored
  /\ UNCHANGED <<nodeVars, clock, out, stateCh, checkNow, hbStopped>>

Silence(n) == checkNow - last[n]

\* Faulty variant: a silent node is declared dead at once.
Verdict_DeadAtOnce(n) ==
  IF n # Self /\ Silence(n) > SuspectTimeout THEN "dead" ELSE state[n]

\* Faulty variant: a suspect node is never declared dead.
Verdict_NeverDead(n) ==
  IF n # Self /\ state[n] = "healthy" /\ Silence(n) > SuspectTimeout
    THEN "suspect" ELSE state[n]

\* What a pass makes of a node's state.
Verdict(n) ==
  CASE n # Self /\ state[n] = "healthy" /\ Silence(n) > SuspectTimeout -> "suspect"
    [] n # Self /\ state[n] = "suspect" /\ Silence(n) > DeadTimeout    -> "dead"
    [] OTHER -> state[n]

CheckNode(n) ==
  /\ checker = "scanning" /\ out = NoEvent
  /\ n \in scan
  /\ scan' = scan \ {n}
  /\ state' = [state EXCEPT ![n] = Verdict(n)]
  /\ IF Verdict(n) # state[n]
       THEN out' = Change(n, Verdict(n)) /\ silent' = silent \ {n}
       ELSE UNCHANGED <<out, silent>>
  /\ UNCHANGED <<monitored, last, clock, mu, stateCh, checker, checkNow, hbStopped>>

CheckUnlock ==
  /\ checker = "scanning" /\ out = NoEvent /\ scan = {}
  /\ mu' = "free"
  /\ checker' = "idle"
  /\ checkNow' = 0
  /\ UNCHANGED <<nodeVars, clock, out, stateCh, scan, hbStopped>>

CheckExit ==
  /\ checker = "idle"
  /\ hbStopped
  /\ checker' = "done"
  /\ UNCHANGED <<nodeVars, clock, mu, out, stateCh, checkNow, scan, hbStopped>>

(***************************************************************************)
(* cleanupDeadNodes: nodes dead for long are forgotten, without an event.  *)
(***************************************************************************)
LongDead == {n \in monitored : state[n] = "dead" /\ clock - last[n] > 3 * DeadTimeout}

CleanupDeadNodes ==
  /\ mu = "free"
  /\ LongDead # {}
  /\ Forget(LongDead)
  /\ UNCHANGED <<clock, mu, out, stateCh, checkerVars, hbStopped>>

Tick ==
  /\ clock < MaxClock
  /\ clock' = clock + 1
  /\ UNCHANGED <<nodeVars, mu, out, stateCh, checkerVars, hbStopped>>

\* checkHeartbeats by itself, and everything that happens in the manager
\* besides calls of RegisterNode and UnregisterNode.
Check == CheckTick \/ CheckLock \/ (\E n \in Nodes : CheckNode(n)) \/ CheckUnlock \/ CheckExit

HBNext ==
  \/ \E n \in Nodes : RecordHeartbeat(n)
  \/ Send \/ Check \/ CleanupDeadNodes \/ Tick

HBTypeOK ==
  /\ monitored \subseteq Nodes
  /\ state \in [Nodes -> Status]
  /\ last \in [Nodes -> Nat]
  /\ silent \subseteq Nodes
  /\ clock \in Nat /\ checkNow \in Nat
  /\ mu \in {"free", "check", "rec"}
  /\ out \in StateChange \union {NoEvent}
  /\ stateCh \in Seq(StateChange) /\ Len(stateCh) <= ChanCap
  /\ checker \in {"idle", "locking", "scanning", "done"}
  /\ scan \subseteq Nodes
  /\ hbStopped \in BOOLEAN
=============================================================================
