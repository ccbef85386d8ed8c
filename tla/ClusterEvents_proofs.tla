------------------------ MODULE ClusterEvents_proofs ------------------------
(***************************************************************************)
(* Proofs about ClusterEvents and the heartbeat manager in it, for any     *)
(* nodes, timeouts and channel capacity.                                   *)
(*                                                                         *)
(* TypeOK is inductive and carries the locking discipline (who holds mu    *)
(* and what it is sending).  With it AnnouncedIsState is inductive too:    *)
(* the argument is about the last event of a sequence concerning a node,   *)
(* and what appending an event and taking the first one do to it.          *)
(***************************************************************************)
EXTENDS ClusterEvents, SequenceTheorems, WellFoundedInduction, TLAPS

\* The "now" of a pass is never ahead of the clock.
CheckedPast == checkNow <= clock

-----------------------------------------------------------------------------
\* Announced for any sequence of events and any cluster state.
LatestIn(q, v, n) ==
  LET about == {i \in 1..Len(q) : q[i].node = n}
  IN IF about = {}
       THEN v[n]
       ELSE q[CHOOSE i \in about : \A j \in about : j <= i].state

\* i is the last event of q about n.
IsLatest(q, n, i) ==
  /\ i \in 1..Len(q) /\ q[i].node = n
  /\ \A j \in 1..Len(q) : q[j].node = n => j <= i

LEMMA LeastNatural ==
  ASSUME NEW T, T \subseteq Nat, T # {}
  PROVE  \E m \in T : \A k \in T : m <= k
<1>1. PICK m \in T : \A k \in T : ~(<<k, m>> \in OpToRel(<, Nat))
  BY NatLessThanWellFounded, WFMin
<1>2. \A k \in T : ~(k < m)
  BY <1>1 DEF OpToRel
<1> QED BY <1>2

LEMMA LatestExists ==
  ASSUME NEW S, NEW q \in Seq(S), NEW n, NEW k \in 1..Len(q), q[k].node = n
  PROVE  \E i \in 1..Len(q) : IsLatest(q, n, i)
<1> DEFINE D == {d \in Nat : d < Len(q) /\ q[Len(q) - d].node = n}
<1>1. Len(q) \in Nat /\ Len(q) - k \in D
  <2>1. Len(q) - (Len(q) - k) = k
    OBVIOUS
  <2> QED BY <2>1
<1>2. D \subseteq Nat /\ D # {}
  BY <1>1
<1>3. PICK d \in D : \A e \in D : d <= e
  BY <1>2, LeastNatural
<1>4. \A j \in 1..Len(q) : q[j].node = n => Len(q) - j \in D
  <2>1. \A j \in 1..Len(q) : Len(q) - (Len(q) - j) = j /\ Len(q) - j \in Nat /\ Len(q) - j < Len(q)
    OBVIOUS
  <2> QED BY <2>1
<1>5. \A j \in 1..Len(q) : q[j].node = n => j <= Len(q) - d
  BY <1>1, <1>3, <1>4
<1>6. Len(q) - d \in 1..Len(q) /\ q[Len(q) - d].node = n
  BY <1>1
<1> QED BY <1>5, <1>6 DEF IsLatest

LEMMA LatestSome ==
  ASSUME NEW S, NEW q \in Seq(S), NEW v, NEW n, NEW i \in 1..Len(q), IsLatest(q, n, i)
  PROVE  LatestIn(q, v, n) = q[i].state
<1> DEFINE about == {j \in 1..Len(q) : q[j].node = n}
           final == CHOOSE j \in about : \A h \in about : h <= j
<1>1. i \in about /\ \A h \in about : h <= i
  BY DEF IsLatest
<1>2. final \in about /\ \A h \in about : h <= final
  BY <1>1
<1>3. final = i
  BY <1>1, <1>2
<1> QED BY <1>1, <1>3 DEF LatestIn

LEMMA LatestNone ==
  ASSUME NEW q, NEW v, NEW n, \A i \in 1..Len(q) : q[i].node # n
  PROVE  LatestIn(q, v, n) = v[n]
BY DEF LatestIn

\* An appended event is the latest about its node and changes no other.
LEMMA LatestAppend ==
  ASSUME NEW S, NEW q \in Seq(S), NEW e \in S, NEW v, NEW n
  PROVE  LatestIn(Append(q, e), v, n) = IF e.node = n THEN e.state ELSE LatestIn(q, v, n)
<1> DEFINE p == Append(q, e)
<1>1. /\ p \in Seq(S) /\ Len(p) = Len(q) + 1 /\ Len(q) \in Nat
      /\ p[Len(q) + 1] = e /\ \A i \in 1..Len(q) : p[i] = q[i]
  OBVIOUS
<1> HIDE DEF p
<1>2. CASE e.node = n
  <2>1. IsLatest(p, n, Len(q) + 1) /\ Len(q) + 1 \in 1..Len(p)
    BY <1>1, <1>2 DEF IsLatest
  <2>2. LatestIn(p, v, n) = p[Len(q) + 1].state
    BY <1>1, <2>1, LatestSome
  <2> QED BY <1>1, <1>2, <2>2 DEF p
<1>3. CASE e.node # n /\ \A i \in 1..Len(q) : q[i].node # n
  <2>1. \A i \in 1..Len(p) : p[i].node # n
    BY <1>1, <1>3
  <2>2. LatestIn(p, v, n) = v[n] /\ LatestIn(q, v, n) = v[n]
    BY <1>3, <2>1, LatestNone
  <2> QED BY <1>3, <2>2 DEF p
<1>4. CASE e.node # n /\ \E i \in 1..Len(q) : q[i].node = n
  <2>1. PICK i \in 1..Len(q) : IsLatest(q, n, i)
    BY <1>4, LatestExists
  <2>2. IsLatest(p, n, i) /\ i \in 1..Len(p)
    BY <1>1, <1>4, <2>1 DEF IsLatest
  <2>3. LatestIn(p, v, n) = p[i].state /\ LatestIn(q, v, n) = q[i].state
    BY <1>1, <2>1, <2>2, LatestSome
  <2> QED BY <1>1, <1>4, <2>3 DEF p
<1> QED BY <1>2, <1>3, <1>4

\* Recording the first event and dropping it changes nothing.
LEMMA LatestTail ==
  ASSUME NEW S, NEW q \in Seq(S), q # <<>>, NEW v, NEW w, NEW n,
         w[n] = IF Head(q).node = n THEN Head(q).state ELSE v[n]
  PROVE  LatestIn(Tail(q), w, n) = LatestIn(q, v, n)
<1> DEFINE p == Tail(q)
<1>1. /\ p \in Seq(S) /\ Len(p) = Len(q) - 1 /\ Len(q) \in Nat \ {0} /\ Head(q) = q[1]
      /\ \A i \in 1..Len(p) : i + 1 \in 1..Len(q) /\ p[i] = q[i + 1]
  OBVIOUS
<1> HIDE DEF p
<1>2. CASE \A i \in 1..Len(q) : q[i].node # n
  <2>1. \A i \in 1..Len(p) : p[i].node # n
    BY <1>1, <1>2
  <2>2. LatestIn(p, w, n) = w[n] /\ LatestIn(q, v, n) = v[n]
    BY <1>2, <2>1, LatestNone
  <2>3. q[1].node # n
    BY <1>1, <1>2
  <2> QED BY <1>1, <2>2, <2>3 DEF p
<1>3. ASSUME NEW i \in 1..Len(q), IsLatest(q, n, i) PROVE LatestIn(p, w, n) = LatestIn(q, v, n)
  <2>1. LatestIn(q, v, n) = q[i].state
    BY <1>3, LatestSome
  <2>2. CASE i = 1
    <3>1. \A j \in 1..Len(p) : p[j].node # n
      BY <1>1, <1>3, <2>2 DEF IsLatest
    <3> QED BY <1>1, <1>3, <2>1, <2>2, <3>1, LatestNone DEF IsLatest
  <2>3. CASE i # 1
    <3>1. IsLatest(p, n, i - 1) /\ i - 1 \in 1..Len(p) /\ p[i - 1] = q[i]
      <4>1. i - 1 \in 1..Len(p) /\ (i - 1) + 1 = i
        BY <1>1, <2>3
      <4>2. p[i - 1] = q[i]
        BY <1>1, <4>1
      <4>3. \A j \in 1..Len(p) : p[j].node = n => j <= i - 1
        BY <1>1, <1>3 DEF IsLatest
      <4> QED BY <1>3, <4>1, <4>2, <4>3 DEF IsLatest
    <3> QED BY <1>1, <2>1, <3>1, LatestSome
  <2> QED BY <2>2, <2>3
<1> QED BY <1>2, <1>3, LatestExists DEF p

-----------------------------------------------------------------------------
LEMMA NoEventIsNone == NoEvent \notin StateChange
BY DEF NoEvent, StateChange, Status

LEMMA ChangeType ==
  ASSUME NEW n \in Nodes, NEW s \in Status
  PROVE  /\ Change(n, s) \in StateChange /\ Change(n, s) # NoEvent
         /\ Change(n, s).node = n /\ Change(n, s).state = s
BY NoEventIsNone DEF Change, StateChange

LEMMA EventType ==
  ASSUME NEW e \in StateChange
  PROVE  e.node \in Nodes /\ e.state \in Status
BY DEF StateChange

LEMMA VerdictType == ASSUME HBTypeOK, NEW n \in Nodes PROVE Verdict(n) \in Status
BY DEF HBTypeOK, Verdict, Status

LEMMA TypeInit == Init => TypeOK
<1> SUFFICES ASSUME Init PROVE TypeOK
  OBVIOUS
<1>1. stateCh \in Seq(StateChange) /\ Len(stateCh) <= ChanCap
  BY HeartbeatAssumption DEF Init, HBInit
<1>2. HBTypeOK
  BY <1>1 DEF Init, HBInit, HBTypeOK, Status
<1> QED BY <1>2 DEF Init, HBInit, TypeOK

\* The steps of the heartbeat manager by itself.
LEMMA HeartbeatType == ASSUME TypeOK, HBNext, UNCHANGED loopVars PROVE TypeOK'
<1>. USE HeartbeatAssumption DEF TypeOK, HBTypeOK, loopVars
<1>1. ASSUME NEW n \in Nodes, RecordHeartbeat(n) PROVE TypeOK'
  <2>1. "healthy" \in Status
    BY DEF Status
  <2>2. Change(n, "healthy") \in StateChange /\ Change(n, "healthy") # NoEvent
    BY <2>1, ChangeType
  <2> QED BY <1>1, <2>1, <2>2 DEF RecordHeartbeat, checkerVars
<1>2. CASE Send
  <2>1. out \in StateChange
    BY <1>2 DEF Send
  <2>2. stateCh' \in Seq(StateChange) /\ Len(stateCh') <= ChanCap
    BY <1>2, <2>1 DEF Send
  <2> QED BY <1>2, <2>2 DEF Send, nodeVars, checkerVars
<1>3. CASE CheckTick \/ CheckLock \/ CheckUnlock \/ CheckExit
  BY <1>3 DEF CheckTick, CheckLock, CheckUnlock, CheckExit, nodeVars
<1>4. ASSUME NEW n \in Nodes, CheckNode(n) PROVE TypeOK'
  <2>1. Verdict(n) \in Status /\ Change(n, Verdict(n)) \in StateChange
        /\ Change(n, Verdict(n)) # NoEvent
    BY VerdictType, ChangeType
  <2> QED BY <1>4, <2>1 DEF CheckNode
<1>5. CASE CleanupDeadNodes
  <2>1. "healthy" \in Status
    BY DEF Status
  <2> QED BY <1>5, <2>1 DEF CleanupDeadNodes, Forget, checkerVars
<1>6. CASE Tick
  BY <1>6 DEF Tick, nodeVars, checkerVars
<1> HIDE DEF TypeOK
<1> QED BY <1>1, <1>2, <1>3, <1>4, <1>5, <1>6 DEF HBNext, Check

LEMMA RegistrationType ==
  ASSUME HBTypeOK, NEW n \in Nodes, RegisterNode(n) \/ UnregisterNode(n)
  PROVE  HBTypeOK' /\ UNCHANGED <<clock, mu, out, stateCh, checkerVars, hbStopped>>
<1>1. "healthy" \in Status
  BY DEF Status
<1> QED BY <1>1, SMTT(20) DEF HBTypeOK, RegisterNode, UnregisterNode, Forget, checkerVars

LEMMA ProposalType ==
  ASSUME TypeOK, NEW n \in Nodes, NEW c \in {"add", "remove"}, Propose(n, c)
  PROVE  proposal' \in [Nodes -> {"none", "add", "remove"}]
BY DEF TypeOK, Propose

LEMMA TypeStep == ASSUME TypeOK, [Next]_vars PROVE TypeOK'
<1>0. CASE UNCHANGED vars
  BY <1>0 DEF TypeOK, HBTypeOK, vars, hbVars, loopVars, nodeVars, checkerVars
<1>1. ASSUME NEW n \in Nodes, Administer(n) PROVE TypeOK'
  <2>1. proposal' \in [Nodes -> {"none", "add", "remove"}]
    BY <1>1, ProposalType DEF Administer, TypeOK
  <2>2. HBTypeOK' /\ UNCHANGED <<clock, mu, out, stateCh, checkerVars, hbStopped>>
    <3>1. CASE UNCHANGED hbVars
      BY <3>1 DEF hbVars, nodeVars, checkerVars, TypeOK, HBTypeOK
    <3> QED BY <1>1, <3>1, RegistrationType DEF Administer, TypeOK
  <2> QED BY <1>1, <2>1, <2>2 DEF TypeOK, Administer, checkerVars
<1>2. CASE LoopReceive
  <2>1. Head(stateCh) \in StateChange /\ Tail(stateCh) \in Seq(StateChange)
        /\ Len(Tail(stateCh)) <= ChanCap
    BY <1>2, HeartbeatAssumption DEF LoopReceive, TypeOK, HBTypeOK
  <2>2. ev' \in StateChange /\ ev' # NoEvent /\ ev'.node \in Nodes /\ ev'.state \in Status
    BY <1>2, <2>1, NoEventIsNone, EventType DEF LoopReceive
  <2> QED BY <1>2, <2>1, <2>2 DEF LoopReceive, TypeOK, HBTypeOK, nodeVars, checkerVars
<1>3. CASE LoopReact
  <2>1. ev \in StateChange /\ ev.node \in Nodes
    BY <1>3, EventType DEF LoopReact, TypeOK
  <2>2. proposal' \in [Nodes -> {"none", "add", "remove"}]
    BY <1>3, <2>1, ProposalType DEF LoopReact, TypeOK
  <2>3. loop' \in {"select", "unregister"}
    BY <1>3 DEF LoopReact
  <2>4. ev' \in StateChange \union {NoEvent}
        /\ (loop' \in {"react", "unregister"} <=> ev' # NoEvent)
    BY <1>3, <2>1, <2>3, NoEventIsNone DEF LoopReact
  <2>5. UNCHANGED <<hbVars, view, isLeader, stopping>>
    BY <1>3 DEF LoopReact
  <2> QED BY <2>2, <2>3, <2>4, <2>5 DEF TypeOK, HBTypeOK, hbVars, nodeVars, checkerVars
<1>4. CASE LoopUnregister
  <2>1. ev.node \in Nodes
    BY <1>4, EventType DEF LoopUnregister, TypeOK
  <2>2. HBTypeOK' /\ UNCHANGED <<clock, mu, out, stateCh, checkerVars, hbStopped>>
    BY <1>4, <2>1, RegistrationType DEF LoopUnregister, TypeOK
  <2> QED BY <1>4, <2>2 DEF LoopUnregister, TypeOK, checkerVars
<1>5. CASE LoopExit \/ LeaderFlip \/ StopCancel \/ StopManagers
  BY <1>5, ZenonT(30) DEF LoopExit, LeaderFlip, StopCancel, StopManagers, TypeOK, HBTypeOK, hbVars, nodeVars,
              checkerVars
<1> QED BY <1>0, <1>1, <1>2, <1>3, <1>4, <1>5, HeartbeatType DEF Next, EventLoop

\* Every state has the declared shape.  The shape includes the locking
\* discipline: mu is held by a scanning checker or by a RecordHeartbeat whose
\* event the channel has not taken, and nobody else is ever sending.
THEOREM TypeCorrect == Spec => []TypeOK
BY TypeInit, TypeStep, PTL DEF Spec

-----------------------------------------------------------------------------
LEMMA AnnouncedIsLatest ==
  /\ \A n : Announced(n) = LatestIn(InFlight, view, n)
  /\ \A n : Announced(n)' = LatestIn(InFlight', view', n)
BY DEF Announced, LatestIn

LEMMA InFlightType == TypeOK => InFlight \in Seq(StateChange)
BY DEF TypeOK, HBTypeOK, InFlight

\* A step that leaves events and records alone, but for forgetting nodes.
LEMMA QuietStep ==
  ASSUME AnnouncedIsState, UNCHANGED <<out, stateCh, view>>,
         \A n \in monitored' \ silent' : n \in monitored \ silent /\ state'[n] = state[n]
  PROVE  AnnouncedIsState'
<1>1. InFlight' = InFlight
  BY DEF InFlight
<1>2. \A n : Announced(n)' = Announced(n)
  BY <1>1, AnnouncedIsLatest
<1> QED BY <1>2 DEF AnnouncedIsState

\* A step that gives node n the state s and begins to send the change.
LEMMA AnnouncingStep ==
  ASSUME AnnouncedIsState, TypeOK, out = NoEvent, UNCHANGED <<stateCh, view>>,
         NEW n \in Nodes, NEW s \in Status, out' = Change(n, s), state' = [state EXCEPT ![n] = s],
         monitored' \subseteq monitored \union {n}, silent' = silent \ {n}
  PROVE  AnnouncedIsState'
<1>1. Change(n, s) \in StateChange /\ Change(n, s).node = n /\ Change(n, s).state = s
      /\ Change(n, s) # NoEvent
  BY ChangeType
<1>2. InFlight = stateCh /\ InFlight' = Append(stateCh, Change(n, s)) /\ stateCh \in Seq(StateChange)
  BY <1>1 DEF InFlight, TypeOK, HBTypeOK
<1>3. \A m : Announced(m)' = IF n = m THEN s ELSE Announced(m)
  <2> SUFFICES ASSUME NEW m PROVE Announced(m)' = IF n = m THEN s ELSE Announced(m)
    OBVIOUS
  <2>1. LatestIn(Append(stateCh, Change(n, s)), view, m)
          = IF Change(n, s).node = m THEN Change(n, s).state ELSE LatestIn(stateCh, view, m)
    BY <1>1, <1>2, LatestAppend
  <2> QED BY <1>1, <1>2, <2>1, AnnouncedIsLatest
<1>4. \A m \in Nodes : state'[m] = IF n = m THEN s ELSE state[m]
  BY DEF TypeOK, HBTypeOK
<1>5. \A m \in monitored' \ silent' : m \in Nodes /\ (m # n => m \in monitored \ silent)
  BY DEF TypeOK, HBTypeOK
<1> QED BY <1>3, <1>4, <1>5 DEF AnnouncedIsState

LEMMA HeartbeatAnnounces ==
  ASSUME AnnouncedIsState, TypeOK, HBNext, UNCHANGED loopVars
  PROVE  AnnouncedIsState'
<1>0. view' = view
  BY DEF loopVars
<1>1. ASSUME NEW n \in Nodes, RecordHeartbeat(n) PROVE AnnouncedIsState'
  <2>1. CASE n \in monitored /\ state[n] = "healthy"
    BY <1>0, <1>1, <2>1, QuietStep DEF RecordHeartbeat, TypeOK, HBTypeOK
  <2>2. CASE ~(n \in monitored /\ state[n] = "healthy")
    <3>1. out = NoEvent
      BY <1>1 DEF RecordHeartbeat, TypeOK
    <3>2. "healthy" \in Status
      BY DEF Status
    <3> QED BY <1>0, <1>1, <2>2, <3>1, <3>2, AnnouncingStep DEF RecordHeartbeat
  <2> QED BY <2>1, <2>2
<1>2. CASE Send
  <2>1. InFlight' = InFlight
    BY <1>2 DEF Send, InFlight
  <2>2. \A n : Announced(n)' = Announced(n)
    BY <1>0, <2>1, AnnouncedIsLatest
  <2> QED BY <1>2, <2>2 DEF Send, nodeVars, AnnouncedIsState
<1>3. CASE CheckTick \/ CheckLock \/ CheckUnlock \/ CheckExit \/ Tick
  <2>1. UNCHANGED <<nodeVars, out, stateCh>>
    BY <1>3 DEF CheckTick, CheckLock, CheckUnlock, CheckExit, Tick
  <2> QED BY <1>0, <2>1, QuietStep DEF nodeVars
<1>4. ASSUME NEW n \in Nodes, CheckNode(n) PROVE AnnouncedIsState'
  <2>1. CASE Verdict(n) = state[n]
    BY <1>0, <1>4, <2>1, QuietStep DEF CheckNode, TypeOK, HBTypeOK
  <2>2. CASE Verdict(n) # state[n]
    <3>1. Verdict(n) \in Status
      BY VerdictType DEF TypeOK
    <3> QED BY <1>0, <1>4, <2>2, <3>1, AnnouncingStep DEF CheckNode
  <2> QED BY <2>1, <2>2
<1>5. CASE CleanupDeadNodes
  <2>1. \A n \in monitored' \ silent' : n \in monitored \ silent /\ state'[n] = state[n]
    BY <1>5 DEF CleanupDeadNodes, Forget, LongDead, TypeOK, HBTypeOK
  <2> QED BY <1>0, <1>5, <2>1, QuietStep DEF CleanupDeadNodes
<1> QED BY <1>1, <1>2, <1>3, <1>4, <1>5 DEF HBNext, Check

\* Registration makes a node silent, unregistration removes it.
LEMMA RegistrationQuiet ==
  ASSUME TypeOK, NEW n \in Nodes, RegisterNode(n) \/ UnregisterNode(n)
  PROVE  /\ UNCHANGED <<out, stateCh>>
         /\ \A m \in monitored' \ silent' : m \in monitored \ silent /\ state'[m] = state[m]
BY DEF RegisterNode, UnregisterNode, Forget, TypeOK, HBTypeOK

LEMMA AnnouncedStep ==
  ASSUME AnnouncedIsState, TypeOK, [Next]_vars
  PROVE  AnnouncedIsState'
<1>1. CASE UNCHANGED <<nodeVars, out, stateCh, view>>
  BY <1>1, QuietStep DEF nodeVars
<1>2. ASSUME NEW n \in Nodes, Administer(n) PROVE AnnouncedIsState'
  <2>1. CASE UNCHANGED hbVars
    BY <1>1, <1>2, <2>1 DEF Administer, hbVars
  <2>2. CASE RegisterNode(n) \/ UnregisterNode(n)
    BY <1>2, <2>2, RegistrationQuiet, QuietStep DEF Administer
  <2> QED BY <1>2, <2>1, <2>2 DEF Administer
<1>3. CASE LoopReceive
  <2>1. /\ stateCh \in Seq(StateChange) /\ stateCh # <<>> /\ Head(stateCh).node \in Nodes
        /\ stateCh' = Tail(stateCh) /\ out' = out
        /\ view' = [view EXCEPT ![Head(stateCh).node] = Head(stateCh).state]
    BY <1>3, EventType DEF LoopReceive, TypeOK, HBTypeOK
  <2>2. InFlight \in Seq(StateChange) /\ InFlight # <<>> /\ Head(InFlight) = Head(stateCh)
        /\ InFlight' = Tail(InFlight)
    <3>1. CASE out = NoEvent
      BY <2>1, <3>1 DEF InFlight
    <3>2. CASE out # NoEvent
      <4>1. out \in StateChange /\ InFlight = Append(stateCh, out)
            /\ InFlight' = Append(Tail(stateCh), out)
        BY <2>1, <3>2 DEF InFlight, TypeOK, HBTypeOK
      <4> QED BY <2>1, <4>1
    <3> QED BY <3>1, <3>2
  <2>3. \A n \in Nodes : view'[n] = IF Head(stateCh).node = n THEN Head(stateCh).state ELSE view[n]
    BY <2>1 DEF TypeOK
  <2>4. \A n \in Nodes : Announced(n)' = Announced(n)
    <3> SUFFICES ASSUME NEW n \in Nodes PROVE Announced(n)' = Announced(n)
      OBVIOUS
    <3>1. LatestIn(Tail(InFlight), view', n) = LatestIn(InFlight, view, n)
      BY <2>2, <2>3, LatestTail
    <3> QED BY <2>2, <3>1, AnnouncedIsLatest
  <2>5. UNCHANGED nodeVars /\ monitored \subseteq Nodes
    BY <1>3 DEF LoopReceive, TypeOK, HBTypeOK
  <2> QED BY <2>4, <2>5 DEF AnnouncedIsState, nodeVars
<1>4. CASE LoopUnregister
  <2>1. ev.node \in Nodes
    BY <1>4, EventType DEF LoopUnregister, TypeOK
  <2> QED BY <1>4, <2>1, RegistrationQuiet, QuietStep DEF LoopUnregister
<1>5. CASE UNCHANGED vars \/ LoopReact \/ LoopExit \/ LeaderFlip \/ StopCancel \/ StopManagers
  <2>1. UNCHANGED <<nodeVars, out, stateCh, view>>
    BY <1>5 DEF vars, loopVars, hbVars, LoopReact, LoopExit, LeaderFlip, StopCancel, StopManagers
  <2> QED BY <1>1, <2>1
<1> QED BY <1>2, <1>3, <1>4, <1>5, HeartbeatAnnounces DEF Next, EventLoop

\* No state change is lost, duplicated or overtaken on its way from the
\* failure detector to the cluster state, for any nodes, timeouts and channel
\* capacity: mu is held until the channel has taken an event, so announcements
\* enter it in the order of the state changes, and the loop is its only reader.
THEOREM NoChangeLost == Spec => []AnnouncedIsState
<1>1. Init => AnnouncedIsState
  BY DEF Init, HBInit, AnnouncedIsState
<1> QED BY <1>1, TypeCorrect, AnnouncedStep, PTL DEF Spec

-----------------------------------------------------------------------------
LEMMA CheckedPastStep == ASSUME TypeOK, CheckedPast, [Next]_vars PROVE CheckedPast'
<1> USE DEF CheckedPast, TypeOK, HBTypeOK
<1>1. CASE UNCHANGED <<clock, checkNow>>
  BY <1>1
<1>2. CASE CheckTick \/ CheckUnlock \/ Tick
  BY <1>2 DEF CheckTick, CheckUnlock, Tick, checkerVars
<1> HIDE DEF CheckedPast, TypeOK, HBTypeOK
<1>3. CASE HBNext
  BY <1>1, <1>2, <1>3 DEF HBNext, Check, RecordHeartbeat, Send, CheckLock, CheckNode, CheckExit,
                          CleanupDeadNodes, checkerVars
<1>4. ASSUME NEW n \in Nodes, Administer(n) PROVE CheckedPast'
  BY <1>1, <1>4 DEF Administer, RegisterNode, UnregisterNode, hbVars, checkerVars
<1>5. CASE EventLoop \/ LeaderFlip \/ StopCancel \/ StopManagers \/ UNCHANGED vars
  BY <1>1, <1>5 DEF EventLoop, LoopReceive, LoopReact, LoopUnregister, LoopExit, UnregisterNode,
                    LeaderFlip, StopCancel, StopManagers, vars, hbVars, checkerVars
<1> QED BY <1>3, <1>4, <1>5 DEF Next

\* Only a pass of the checker turns a state into "dead".
LEMMA OnlyCheckKills ==
  ASSUME TypeOK, [Next]_vars, NEW n \in Nodes, state'[n] = "dead", state[n] # "dead"
  PROVE  CheckNode(n)
<1> USE DEF TypeOK, HBTypeOK
<1>1. state' # state
  OBVIOUS
<1>2. ASSUME NEW m \in Nodes, RecordHeartbeat(m) \/ RegisterNode(m) \/ UnregisterNode(m)
      PROVE  FALSE
  BY <1>2 DEF RecordHeartbeat, RegisterNode, UnregisterNode, Forget
<1>3. ~CleanupDeadNodes
  BY DEF CleanupDeadNodes, Forget
<1>4. ~LoopUnregister
  BY <1>2, EventType DEF LoopUnregister
<1>5. ASSUME NEW m \in Nodes, CheckNode(m) PROVE CheckNode(n)
  BY <1>5 DEF CheckNode
<1> HIDE DEF TypeOK, HBTypeOK
<1>6. ASSUME NEW m \in Nodes, Administer(m) PROVE FALSE
  BY <1>1, <1>2, <1>6 DEF Administer, hbVars, nodeVars
<1>7. HBNext
  BY <1>1, <1>4, <1>6 DEF Next, EventLoop, LoopReceive, LoopReact, LoopExit, LeaderFlip, StopCancel,
                          StopManagers, vars, hbVars, nodeVars
<1> QED BY <1>1, <1>2, <1>3, <1>5, <1>7 DEF HBNext, Check, Send, CheckTick, CheckLock, CheckUnlock,
                                            CheckExit, Tick, nodeVars

\* A node is declared dead only from suspect and only after more than
\* DeadTimeout of real silence: checkHeartbeats uses a "now" from before it
\* had the lock, which is never ahead of the clock, so a heartbeat that came
\* in between can only delay the verdict.
THEOREM DeadOnlyIfSilent == Spec => DeadMeansSilent
<1>1. ASSUME TypeOK, CheckedPast, [Next]_vars, NEW n \in Nodes, state'[n] = "dead", state[n] # "dead"
      PROVE  state[n] = "suspect" /\ clock - last[n] > DeadTimeout
  <2>1. CheckNode(n)
    BY <1>1, OnlyCheckKills
  <2>2. Verdict(n) = "dead"
    BY <1>1, <2>1 DEF CheckNode, TypeOK, HBTypeOK
  <2>3. state[n] = "suspect" /\ Silence(n) > DeadTimeout
    BY <1>1, <2>2 DEF Verdict
  <2> QED BY <1>1, <2>3, HeartbeatAssumption DEF Silence, CheckedPast, TypeOK, HBTypeOK
<1>2. Init => CheckedPast
  BY DEF Init, HBInit, CheckedPast
<1>3. ASSUME TypeOK, CheckedPast, [Next]_vars
      PROVE  [\A n \in Nodes : state'[n] = "dead" /\ state[n] # "dead"
                => state[n] = "suspect" /\ clock - last[n] > DeadTimeout]_vars
  BY <1>1, <1>3
<1> QED BY <1>2, <1>3, TypeCorrect, CheckedPastStep, PTL DEF Spec, DeadMeansSilent
=============================================================================
