---------------------------- MODULE ClusterEvents ----------------------------
(***************************************************************************)
(* The event loop of the cluster manager                                   *)
(* (internal/metaserver/core/cluster/manager.go) composed with the         *)
(* heartbeat manager it consumes state changes from.                       *)
(*                                                                         *)
(* The loop is the only reader of stateChangeCh.  When a leader handles a  *)
(* dead node it calls back into the heartbeat manager (UnregisterNode) and *)
(* so needs its mutex, which a sender blocked on the full channel holds.   *)
(*                                                                         *)
(* Leadership is what Raft reports (electionMgr.IsLeader); membership      *)
(* changes are proposals to Raft, of which the latest one per node is kept.*)
(* Leader change events are not here: the channel they should come from is *)
(* never made (common/consensus/raft/node.go).                             *)
(***************************************************************************)
EXTENDS HeartbeatManager

CONSTANTS Numeric, \* nodes whose identifier strconv.ParseUint accepts
          MayLead, \* whether this node may become leader
          Admin    \* nodes that are also administered through the API

ASSUME ClusterAssumption ==
  Numeric \subseteq Nodes /\ MayLead \in BOOLEAN /\ Admin \subseteq Nodes

VARIABLES loop,     \* eventLoop: select, react, unregister, done
          ev,       \* the state change it handles
          view,     \* state.nodes
          isLeader, \* electionMgr.IsLeader()
          proposal, \* the last membership change proposed for a node
          stopping  \* Stop: no, cancelled, stopped

loopVars == <<loop, ev, view, isLeader, proposal, stopping>>
vars     == <<hbVars, loopVars>>

Init ==
  /\ HBInit
  /\ loop = "select" /\ ev = NoEvent
  /\ view = [n \in Nodes |-> "unknown"]
  /\ isLeader = FALSE
  /\ proposal = [n \in Nodes |-> "none"]
  /\ stopping = "no"

\* eventLoop takes a state change; handleNodeStateChange records it.
LoopReceive ==
  /\ loop = "select"
  /\ stateCh # <<>>
  /\ ev' = Head(stateCh)
  /\ stateCh' = Tail(stateCh)
  /\ view' = [view EXCEPT ![ev'.node] = ev'.state]
  /\ loop' = "react"
  /\ UNCHANGED <<nodeVars, clock, mu, out, checkerVars, hbStopped, isLeader, proposal, stopping>>

\* Propose answers false once Raft has stopped, and AddPeer and RemovePeer
\* report that as success; an identifier that is no number is an error.
Propose(n, change) ==
  \/ proposal' = [proposal EXCEPT ![n] = change]
  \/ hbStopped /\ UNCHANGED proposal

\* The reaction of a leader: RemovePeer for a dead node, which goes on to
\* unregister it, AddPeer for a healthy one (isPeerActive is always false).
LoopReact ==
  /\ loop = "react"
  /\ IF isLeader /\ ev.node \in Numeric
       THEN \/ ev.state = "dead" /\ Propose(ev.node, "remove") /\ loop' = "unregister"
            \/ ev.state = "healthy" /\ Propose(ev.node, "add") /\ loop' = "select"
            \/ ev.state = "suspect" /\ UNCHANGED proposal /\ loop' = "select"
       ELSE UNCHANGED proposal /\ loop' = "select"
  /\ ev' = IF loop' = "unregister" THEN ev ELSE NoEvent
  /\ UNCHANGED <<hbVars, view, isLeader, stopping>>

LoopUnregister ==
  /\ loop = "unregister"
  /\ UnregisterNode(ev.node)
  /\ loop' = "select"
  /\ ev' = NoEvent
  /\ UNCHANGED <<view, isLeader, proposal, stopping>>

\* The same operations called from outside the loop.
Administer(n) ==
  /\ n \in Admin
  /\ \/ RegisterNode(n) /\ UNCHANGED proposal
     \/ UnregisterNode(n) /\ UNCHANGED proposal
     \/ n \in Numeric /\ Propose(n, "add") /\ UNCHANGED hbVars
     \/ n \in Numeric /\ Propose(n, "remove") /\ UnregisterNode(n)
  /\ UNCHANGED <<loop, ev, view, isLeader, stopping>>

\* select may take the cancelled context although events are waiting.
LoopExit ==
  /\ loop = "select"
  /\ stopping # "no"
  /\ loop' = "done"
  /\ UNCHANGED <<hbVars, ev, view, isLeader, proposal, stopping>>

\* External: Raft elects or deposes this node.
LeaderFlip ==
  /\ MayLead
  /\ isLeader' = ~isLeader
  /\ UNCHANGED <<hbVars, loop, ev, view, proposal, stopping>>

\* Stop cancels the loop, waits for it or for its own context to end, and
\* stops the other managers, the heartbeat manager last.
StopCancel ==
  /\ stopping = "no"
  /\ stopping' = "cancelled"
  /\ UNCHANGED <<hbVars, loop, ev, view, isLeader, proposal>>

StopManagers ==
  /\ stopping = "cancelled"
  /\ stopping' = "stopped"
  /\ hbStopped' = TRUE
  /\ UNCHANGED <<nodeVars, clock, mu, out, stateCh, checkerVars, loop, ev, view, isLeader,
                 proposal>>

EventLoop == LoopReceive \/ LoopReact \/ LoopUnregister \/ LoopExit

Next ==
  \/ HBNext /\ UNCHANGED loopVars
  \/ \E n \in Nodes : Administer(n)
  \/ EventLoop \/ LeaderFlip \/ StopCancel \/ StopManagers

Spec == Init /\ [][Next]_vars

(***************************************************************************)
(* Fairness: both goroutines are scheduled, the check ticker fires, a      *)
(* blocked channel send goes through when there is room, a waiter gets a   *)
(* free mutex in the end (sync.RWMutex does not starve writers), and time  *)
(* passes.  Heartbeats, registrations, leadership and Stop are up to the   *)
(* environment.                                                            *)
(***************************************************************************)
ByItself(A) == A /\ UNCHANGED loopVars

Fairness ==
  /\ WF_vars(ByItself(Send)) /\ WF_vars(ByItself(Tick))
  /\ WF_vars(ByItself(CheckTick)) /\ SF_vars(ByItself(CheckLock))
  /\ \A n \in Nodes : WF_vars(ByItself(CheckNode(n)))
  /\ WF_vars(ByItself(CheckUnlock)) /\ SF_vars(ByItself(CheckExit))
  /\ WF_vars(LoopReceive) /\ WF_vars(LoopReact) /\ SF_vars(LoopUnregister)
  /\ WF_vars(LoopExit)

FairSpec == Spec /\ Fairness

-----------------------------------------------------------------------------
\* The shape of the state; mu is held exactly by a scanning checker or by a
\* RecordHeartbeat that is still sending.
TypeOK ==
  /\ HBTypeOK
  /\ (checker = "scanning") <=> (mu = "check")
  /\ mu = "rec" => out # NoEvent
  /\ mu = "free" => out = NoEvent
  /\ loop \in {"select", "react", "unregister", "done"}
  /\ ev \in StateChange \union {NoEvent}
  /\ (loop \in {"react", "unregister"}) <=> (ev # NoEvent)
  /\ view \in [Nodes -> Status \union {"unknown"}]
  /\ isLeader \in BOOLEAN
  /\ proposal \in [Nodes -> {"none", "add", "remove"}]
  /\ stopping \in {"no", "cancelled", "stopped"}

\* Everything announced and not yet seen by the loop, oldest first.
InFlight == IF out = NoEvent THEN stateCh ELSE Append(stateCh, out)

\* The state of n once the loop has caught up.
Announced(n) ==
  LET about == {i \in 1..Len(InFlight) : InFlight[i].node = n}
  IN IF about = {}
       THEN view[n]
       ELSE InFlight[CHOOSE i \in about : \A j \in about : j <= i].state

\* No state change is lost or overtaken between the failure detector and the
\* cluster state: the latest announcement about a monitored node, delivered or
\* still in the channel, is the node's state, however the checker, heartbeats
\* and removals interleave.  (RegisterNode alone changes a state silently.)
AnnouncedIsState ==
  \A n \in monitored \ silent : Announced(n) = state[n]

\* A node is declared dead only after it was suspected and has really been
\* silent for DeadTimeout, although "now" is read before the lock is taken
\* and heartbeats may arrive in between.
DeadMeansSilent ==
  [][\A n \in Nodes :
       state'[n] = "dead" /\ state[n] # "dead"
         => state[n] = "suspect" /\ clock - last[n] > DeadTimeout]_vars

\* The deadlock of checker and event loop: the loop waits for mu in
\* UnregisterNode, whose holder waits for room in the channel only the loop
\* empties.
Stuck == loop = "unregister" /\ out # NoEvent /\ Len(stateCh) = ChanCap

\* A monitored node that falls silent for good is reported dead to a cluster
\* manager that goes on running, although the checker, RecordHeartbeat and the
\* loop's own UnregisterNode compete for mu: nothing but the deadlock of
\* RemovedIsUnregistered keeps the report from coming.
SilentNodeReported ==
  \A n \in Nodes \ {Self} :
    <>[](/\ stopping = "no"
         /\ n \in monitored
         /\ MaxClock - last[n] > DeadTimeout
         /\ MaxClock - last[n] > SuspectTimeout)
      => (<>(view[n] = "dead") \/ <>[]Stuck)

\* RemovePeer also takes the node out of the heartbeat manager
\* ("同时从心跳管理中注销节点"): the loop gets past UnregisterNode.
RemovedIsUnregistered ==
  (loop = "unregister") ~> (loop # "unregister" \/ stopping # "no")
=============================================================================
