----------------------------- MODULE NodeCache -----------------------------
(***************************************************************************)
(* The node information cache of the cluster manager                       *)
(* (internal/metaserver/core/cluster/manager.go): callers of GetNodeInfo   *)
(* and ListNodes look a node up in the cache, read its state from the      *)
(* heartbeat manager and fill the cache, each step under a lock of its     *)
(* own, while states change and cached entries are deleted.                *)
(*                                                                         *)
(* Of a node's information only the status varies: GetNodeMetrics reads a  *)
(* map nobody writes, and no leader is ever recorded (see README), so the  *)
(* metrics are nil and IsLeader is false.  HeartbeatManager and            *)
(* ClusterEvents have the details of what changes a status.                *)
(***************************************************************************)
EXTENDS Integers, FiniteSets, TLC

CONSTANTS Nodes,      \* node identifiers
          Callers,    \* goroutines that ask for node information
          TTL,        \* cacheTTL, in clock ticks
          MaxPending  \* bound on the deletions of one entry still to be made

ASSUME CacheAssumption == TTL \in Nat \ {0} /\ MaxPending \in Nat \ {0}

Unknown == "unknown"   \* NodeStatusUnknown: the node is not registered
Unread == "unread"     \* GetNodeInfo has not read the node's state yet
NoNode == "no node"

VARIABLES
  status,   \* per node what the heartbeat manager says
  pending,  \* per node the deletions of its entry announced and not yet made
  cache,    \* nodeCache: partial function to status and age
  caller    \* per caller the nodes still to answer for, and the one being built

vars == <<status, pending, cache, caller>>

NoCall == [known |-> <<>>, at |-> NoNode]

Init ==
  /\ status = [n \in Nodes |-> Unknown]
  /\ pending = [n \in Nodes |-> 0]
  /\ cache = <<>>
  /\ caller = [c \in Callers |-> NoCall]

Without(f, n) == [k \in DOMAIN f \ {n} |-> f[k]]

-----------------------------------------------------------------------------
(***************************************************************************)
(* Changes.  A change the event loop is told of, an unregistration and a   *)
(* report of metrics are followed by the deletion of the entry, some time  *)
(* later and in any order with other steps.                                *)
(***************************************************************************)
Announce(n) ==
  /\ pending[n] < MaxPending
  /\ pending' = [pending EXCEPT ![n] = @ + 1]

\* RecordHeartbeat and checkHeartbeats.
StateChange(n) ==
  /\ \E s \in CASE status[n] = "healthy" -> {"suspect"}
                [] status[n] = "suspect" -> {"healthy", "dead"}
                [] OTHER                 -> {"healthy"} :
       status' = [status EXCEPT ![n] = s]
  /\ Announce(n)
  /\ UNCHANGED <<cache, caller>>

UnregisterNode(n) ==
  /\ status' = [status EXCEPT ![n] = Unknown]
  /\ Announce(n)
  /\ UNCHANGED <<cache, caller>>

\* RegisterNode and cleanupDeadNodes tell nobody.
SilentChange(n) ==
  /\ \/ status' = [status EXCEPT ![n] = "healthy"]
     \/ status[n] = "dead" /\ status' = [status EXCEPT ![n] = Unknown]
  /\ UNCHANGED <<pending, cache, caller>>

UpdateNodeMetrics(n) ==
  /\ Announce(n)
  /\ UNCHANGED <<status, cache, caller>>

\* The second half of UnregisterNode and UpdateNodeMetrics, and the first of
\* handleNodeStateChange.
DeleteCached(n) ==
  /\ pending[n] > 0
  /\ pending' = [pending EXCEPT ![n] = @ - 1]
  /\ cache' = Without(cache, n)
  /\ UNCHANGED <<status, caller>>

Tick ==
  /\ cache' = [n \in DOMAIN cache |-> [cache[n] EXCEPT !.age = IF @ < TTL THEN @ + 1 ELSE @]]
  /\ UNCHANGED <<status, pending, caller>>

-----------------------------------------------------------------------------
(***************************************************************************)
(* Calls.                                                                  *)
(***************************************************************************)
GetNodeInfo(c, n) ==
  /\ caller[c] = NoCall
  /\ caller' = [caller EXCEPT ![c].known = n :> Unread]
  /\ UNCHANGED <<status, pending, cache>>

\* The states of the registered nodes at one moment.
GetAllNodeStates == [n \in {n \in Nodes : status[n] # Unknown} |-> status[n]]

ListNodes(c) ==
  /\ caller[c] = NoCall
  /\ caller' = [caller EXCEPT ![c].known = GetAllNodeStates]
  /\ UNCHANGED <<status, pending, cache>>

\* The caller has its answer for n.
Answered(c, n) == caller' = [caller EXCEPT ![c] = [known |-> Without(@.known, n), at |-> NoNode]]

Valid(n) == n \in DOMAIN cache /\ cache[n].age < TTL

\* Faulty variant: a hit renews the entry.
getCachedNodeInfo_Sliding(c, n) ==
  /\ caller[c].at = NoNode /\ n \in DOMAIN caller[c].known
  /\ \/ Valid(n) /\ Answered(c, n) /\ cache' = [cache EXCEPT ![n].age = 0]
     \/ ~Valid(n) /\ caller' = [caller EXCEPT ![c].at = n] /\ UNCHANGED cache
  /\ UNCHANGED <<status, pending>>

getCachedNodeInfo(c, n) ==
  /\ caller[c].at = NoNode /\ n \in DOMAIN caller[c].known
  /\ \/ Valid(n) /\ Answered(c, n)
     \/ ~Valid(n) /\ caller' = [caller EXCEPT ![c].at = n]
  /\ UNCHANGED <<status, pending, cache>>

\* An unregistered node is an error.
GetNodeState(c, n) ==
  /\ caller[c].at = n /\ caller[c].known[n] = Unread
  /\ IF status[n] = Unknown THEN Answered(c, n)
     ELSE caller' = [caller EXCEPT ![c].known[n] = status[n]]
  /\ UNCHANGED <<status, pending, cache>>

\* Of the information the caller builds from what it read, the part that
\* varies.
buildNodeInfo(c, n) == caller[c].known[n]

updateNodeInfoCache(c, n) ==
  /\ caller[c].at = n /\ caller[c].known[n] # Unread
  /\ cache' = (n :> [status |-> buildNodeInfo(c, n), age |-> 0]) @@ cache
  /\ Answered(c, n)
  /\ UNCHANGED <<status, pending>>

CallStep(c) ==
  \E n \in Nodes : getCachedNodeInfo(c, n) \/ GetNodeState(c, n) \/ updateNodeInfoCache(c, n)

Next ==
  \/ \E n \in Nodes : StateChange(n) \/ UnregisterNode(n) \/ SilentChange(n)
                      \/ UpdateNodeMetrics(n) \/ DeleteCached(n)
  \/ Tick
  \/ \E c \in Callers : ListNodes(c) \/ CallStep(c) \/ \E n \in Nodes : GetNodeInfo(c, n)

Spec == Init /\ [][Next]_vars

\* A call that has begun goes on (no step of it waits for anything but a
\* lock), and time passes.  Nobody need ask, and no deletion need ever come.
FairSpec == Spec /\ WF_vars(Tick) /\ \A c \in Callers : WF_vars(CallStep(c))

-----------------------------------------------------------------------------
Fresh(n) == Valid(n) => cache[n].status = status[n]

\* A caller that read a state before it changed may fill the cache after the
\* change and after the deletion that should have made the cache forget it.
\* Still no stale entry is served for good: once the states of the nodes are
\* at rest, every entry that is served comes to agree with them, although the
\* entry is asked for again and again and its deletion may be long over.
EventuallyFresh == <>[][UNCHANGED status]_vars => <>[](\A n \in Nodes : Fresh(n))
=============================================================================
