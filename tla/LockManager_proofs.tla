------------------------ MODULE LockManager_proofs ------------------------
(***************************************************************************)
(* Proofs about LockManager, for any clients, owners, paths, lock types    *)
(* and timeouts.                                                           *)
(*                                                                         *)
(* WriterExcludesOthers is not inductive: that nobody holds a path beside  *)
(* its writer follows from the map entry naming the one client that does,  *)
(* and the entry survives only because every pending deletion (a client    *)
(* that has loaded its entry in Unlock, the cleanup with a doomed path)    *)
(* aims at an entry of its own, or at a path that has overrun.  The        *)
(* invariant is stronger than the property: as tryLock compares owners, in *)
(* this code even readers with different owners do not share.              *)
(*                                                                         *)
(* The second part maps the steps of LockManager to those of the abstract  *)
(* LockService.                                                            *)
(***************************************************************************)
EXTENDS LockManager, TLAPS

\* The entry of a path nobody overran names its holder.
HolderOwnsEntry ==
  \A c \in Clients : \A p \in Paths \ overrun :
    p \in holds[c] => Locked(p) /\ pathLocks[p].by = c

\* A client between the two steps of Unlock deletes its own entry, and has
\* given the path up.
DeleterOwnsEntry ==
  \A c \in Clients : pc[c] = "deleting" =>
    /\ req[c].path \notin holds[c]
    /\ req[c].path \notin overrun =>
         Locked(req[c].path) /\ pathLocks[req[c].path].by = c

\* An entry records the owner identifier of the client that stored it.
EntryOwner ==
  \A p \in Paths : Locked(p) => pathLocks[p].Owner = OwnerOf[pathLocks[p].by]

\* The cleanup goroutine works from a time that has passed, so what it takes
\* for expired has overrun.
CleanerIsLate ==
  /\ cleanNow <= clock
  /\ doomed # NoPath => doomed \in overrun
  /\ \A p \in Paths : Locked(p) /\ Overstayed(pathLocks[p], clock) => p \in overrun

LockInv ==
  TypeOK /\ HolderOwnsEntry /\ DeleterOwnsEntry /\ EntryOwner /\ CleanerIsLate
-----------------------------------------------------------------------------
\* A stored entry is not the absent one: the type of a lock is never "none".
LEMMA EntryIsLocked ==
  ASSUME NEW l \in LockInfo
  PROVE  l # NoLock
BY TypeAssumption DEF LockInfo, NoLock

\* A request is not the absent one: its path is a path.
LEMMA RequestIsSomething ==
  ASSUME NEW r \in Request
  PROVE  r # NoReq
<1>1. r.path \in Paths
  BY DEF Request
<1>2. NoReq.path = "no path"
  BY DEF NoReq, NoPath
<1> QED BY <1>1, <1>2, PathAssumption

\* A client in a call has a request with a path and a type.
LEMMA InCall ==
  ASSUME TypeOK, NEW c \in Clients, pc[c] # "idle"
  PROVE  req[c] \in Request /\ req[c].path \in Paths /\ req[c].type \in LockTypes
BY DEF TypeOK, Request

\* What Settle drops from overrun is a path nobody has to do with any more.
LEMMA Settled ==
  ASSUME Settle
  PROVE  /\ overrun' \subseteq overrun
         /\ \A p \in overrun \ overrun' :
              /\ pathLocks'[p] = NoLock
              /\ doomed' # p
              /\ \A d \in Clients : /\ p \notin holds'[d]
                                   /\ pc'[d] = "deleting" => req'[d].path # p
BY DEF Settle, InUse, Locked

LEMMA TypeInit == Init => TypeOK
<1> SUFFICES ASSUME Init PROVE TypeOK
  OBVIOUS
<1> USE DEF Init
<1>1. pathLocks \in [Paths -> LockInfo \union {NoLock}]
  OBVIOUS
<1>2. /\ pc \in [Clients -> {"idle", "trying", "waiting", "deleting"}]
      /\ req \in [Clients -> Request \union {NoReq}]
      /\ \A c \in Clients : (pc[c] = "idle") <=> (req[c] = NoReq)
  OBVIOUS
<1>3. stopped \in BOOLEAN
  OBVIOUS
<1>4. /\ holds \in [Clients -> SUBSET Paths] /\ writes \in [Clients -> SUBSET Paths]
      /\ sweep \subseteq Paths /\ overrun \subseteq Paths
  OBVIOUS
<1>5. clock \in Nat /\ cleanNow \in Nat /\ doomed \in Paths \union {NoPath}
  OBVIOUS
<1>6. cleaner \in {"off", "on", "done"}
  OBVIOUS
<1> QED BY <1>1, <1>2, <1>3, <1>4, <1>5, <1>6 DEF TypeOK
LEMMA TypeStep ==
  ASSUME TypeOK, [Next]_vars
  PROVE  TypeOK'
<1> USE DEF TypeOK
<1>1. CASE UNCHANGED vars
  BY <1>1 DEF vars
<1>2. ASSUME NEW c \in Clients, NEW p \in Paths, NEW t \in LockTypes, LockCall(c, p, t)
      PROVE  TypeOK'
  <2>1. [path |-> p, type |-> t, deadline |-> clock + WaitTimeout] \in Request
    BY TimeAssumption DEF Request
  <2> QED BY <1>2, <2>1, RequestIsSomething DEF LockCall, cleanerVars
<1>3. ASSUME NEW c \in Clients, TryStore(c) PROVE TypeOK'
  <2>1. req[c].path \in Paths /\ req[c].type \in LockTypes
    BY <1>3, InCall DEF TryStore
  <2>2. [Owner |-> OwnerOf[c], by |-> c, Type |-> req[c].type, Timestamp |-> clock] \in LockInfo
    BY <2>1, OwnerAssumption DEF LockInfo
  <2> QED BY <1>3, <2>1, <2>2 DEF TryStore, Granted, cleanerVars
<1>4. ASSUME NEW c \in Clients, TryJoin(c) PROVE TypeOK'
  <2>1. req[c].path \in Paths
    BY <1>4, InCall DEF TryJoin
  <2> QED BY <1>4, <2>1 DEF TryJoin, Granted, cleanerVars
<1>5. ASSUME NEW c \in Clients, TryFail(c) PROVE TypeOK'
  BY <1>5 DEF TryFail, cleanerVars
<1>6. ASSUME NEW c \in Clients, Retry(c) \/ CtxDone(c) PROVE TypeOK'
  BY <1>6 DEF Retry, CtxDone, cleanerVars
<1>7. ASSUME NEW c \in Clients, NEW p \in Paths, UnlockLoad(c, p) PROVE TypeOK'
  <2>1. CASE Locked(p) /\ pathLocks[p].Owner = OwnerOf[c]
    <3>1. [path |-> p, type |-> pathLocks[p].Type, deadline |-> 0] \in Request
      BY <2>1 DEF Request, LockInfo, Locked
    <3> QED BY <1>7, <2>1, <3>1, RequestIsSomething DEF UnlockLoad, Settle, cleanerVars
  <2>2. CASE ~(Locked(p) /\ pathLocks[p].Owner = OwnerOf[c])
    BY <1>7, <2>2 DEF UnlockLoad, Settle, cleanerVars
  <2> QED BY <2>1, <2>2
<1>8. ASSUME NEW c \in Clients, UnlockDelete(c) PROVE TypeOK'
  BY <1>8 DEF UnlockDelete, Settle, cleanerVars
<1>9. CASE Start \/ Stop
  BY <1>9 DEF Start, Stop
<1>10. CASE CleanupTick \/ CleanupExit \/ CleanupDelete
  BY <1>10 DEF CleanupTick, CleanupExit, CleanupDelete, Settle
<1>11. ASSUME NEW p \in Paths, CleanupVisit(p) PROVE TypeOK'
  BY <1>11 DEF CleanupVisit
<1>12. CASE Tick
  BY <1>12 DEF Tick, cleanerVars
<1> QED BY <1>1, <1>2, <1>3, <1>4, <1>5, <1>6, <1>7, <1>8, <1>9, <1>10,
           <1>11, <1>12 DEF Next, Client, Cleanup, CleanupPass

\* Every state of the lock manager has the declared shape.
THEOREM TypeCorrect == Spec => []TypeOK
BY TypeInit, TypeStep, PTL DEF Spec

-----------------------------------------------------------------------------
\* With distinct owner identifiers the entry a client finds under its own
\* identifier is one it stored itself.
LEMMA OwnEntry ==
  ASSUME LockInv, DistinctOwners, NEW c \in Clients, NEW p \in Paths,
         Locked(p), pathLocks[p].Owner = OwnerOf[c]
  PROVE  pathLocks[p].by = c
<1>1. pathLocks[p].by \in Clients
  BY DEF LockInv, TypeOK, Locked, LockInfo
<1>2. OwnerOf[pathLocks[p].by] = OwnerOf[c]
  BY DEF LockInv, EntryOwner
<1> QED BY <1>1, <1>2 DEF DistinctOwners

LEMMA LockInvInit == Init => LockInv
<1> SUFFICES ASSUME Init PROVE LockInv
  OBVIOUS
<1>1. TypeOK
  BY TypeInit
<1>2. HolderOwnsEntry /\ DeleterOwnsEntry /\ EntryOwner
  BY DEF Init, HolderOwnsEntry, DeleterOwnsEntry, EntryOwner, Locked
<1>3. CleanerIsLate
  BY DEF Init, CleanerIsLate, Locked
<1> QED BY <1>1, <1>2, <1>3 DEF LockInv

LEMMA LockInvStep ==
  ASSUME LockInv, DistinctOwners, [Next]_vars
  PROVE  LockInv'
<1> TypeOK'
  BY TypeStep DEF LockInv
<1> USE DEF LockInv
<1>1. CASE UNCHANGED vars
  BY <1>1 DEF vars, TypeOK, HolderOwnsEntry, DeleterOwnsEntry, EntryOwner, CleanerIsLate,
     Locked, Overstayed
\* Steps that leave the map, the holders and the pending deletions alone.
<1>2. ASSUME NEW c \in Clients,
             \/ \E p \in Paths, t \in LockTypes : LockCall(c, p, t)
             \/ TryFail(c) \/ Retry(c) \/ CtxDone(c)
      PROVE  LockInv'
  <2>1. UNCHANGED <<pathLocks, clock, cleanerVars, holds, overrun>>
    BY <1>2 DEF LockCall, TryFail, Retry, CtxDone
  <2>2. HolderOwnsEntry' /\ EntryOwner' /\ CleanerIsLate'
    BY <2>1 DEF HolderOwnsEntry, EntryOwner, CleanerIsLate, Locked, Overstayed, cleanerVars
  <2>3. \A d \in Clients : pc'[d] = "deleting" => pc[d] = "deleting" /\ req'[d] = req[d]
    BY <1>2 DEF LockCall, TryFail, Retry, CtxDone, TypeOK
  <2>4. DeleterOwnsEntry'
    BY <2>1, <2>3 DEF DeleterOwnsEntry, Locked
  <2> QED BY <2>2, <2>4
<1>3. ASSUME NEW c \in Clients, TryStore(c)
      PROVE  LockInv'
  <2> DEFINE q == req[c].path
             e == [Owner |-> OwnerOf[c], by |-> c, Type |-> req[c].type, Timestamp |-> clock]
  <2>1. q \in Paths /\ req[c].type \in LockTypes
    BY <1>3, InCall DEF TryStore
  <2>2. e \in LockInfo
    BY <2>1, OwnerAssumption DEF LockInfo, TypeOK
  <2>3. e # NoLock
    BY <2>2, EntryIsLocked
  <2>4. /\ pathLocks'[q] = e
        /\ \A p \in Paths : p # q => pathLocks'[p] = pathLocks[p]
        /\ UNCHANGED <<clock, cleanerVars, overrun>>
    BY <1>3, <2>1 DEF TryStore, TypeOK
  <2>5. \A d \in Clients : holds'[d] = IF d = c THEN holds[d] \union {q} ELSE holds[d]
    BY <1>3 DEF TryStore, Granted, TypeOK
  <2>6. HolderOwnsEntry'
    <3> SUFFICES ASSUME NEW d \in Clients, NEW p \in Paths, p \notin overrun', p \in holds'[d]
                 PROVE  Locked(p)' /\ (pathLocks[p].by)' = d
      BY DEF HolderOwnsEntry
    <3>1. CASE p = q
      <4>1. d = c
        BY <1>3, <2>4, <2>5, <3>1 DEF HolderOwnsEntry, TryStore
      <4> QED BY <2>3, <2>4, <3>1, <4>1 DEF Locked
    <3>2. CASE p # q
      <4>1. p \notin overrun /\ p \in holds[d]
        BY <2>4, <2>5, <3>2
      <4>2. Locked(p) /\ pathLocks[p].by = d
        BY <4>1 DEF HolderOwnsEntry
      <4> QED BY <2>4, <3>2, <4>2 DEF Locked
    <3> QED BY <3>1, <3>2
  <2>7. DeleterOwnsEntry'
    <3> SUFFICES ASSUME NEW d \in Clients, pc'[d] = "deleting"
                 PROVE  /\ (req[d].path \notin holds[d])'
                        /\ (req[d].path \notin overrun =>
                              Locked(req[d].path) /\ pathLocks[req[d].path].by = d)'
      BY DEF DeleterOwnsEntry
    <3>1. d # c /\ pc[d] = "deleting" /\ req'[d] = req[d]
      BY <1>3 DEF TryStore, Granted, TypeOK
    <3>2. req[d].path \in Paths
      BY <3>1, InCall
    <3>3. holds'[d] = holds[d] /\ req[d].path \notin holds[d]
      BY <2>5, <3>1 DEF DeleterOwnsEntry
    <3>4. req[d].path \notin overrun => req[d].path # q
      BY <1>3, <3>1 DEF DeleterOwnsEntry, TryStore
    <3> QED BY <2>4, <3>1, <3>2, <3>3, <3>4 DEF DeleterOwnsEntry, Locked
  <2>8. EntryOwner'
    BY <2>4 DEF EntryOwner, Locked
  <2>9. CleanerIsLate'
    <3>1. clock - e.Timestamp = 0
      BY DEF TypeOK
    <3>2. ~Overstayed(e, clock)
      BY <3>1, TimeAssumption DEF Overstayed
    <3> QED BY <2>4, <3>2 DEF CleanerIsLate, Locked, cleanerVars, Overstayed
  <2> QED BY <2>6, <2>7, <2>8, <2>9
<1>4. ASSUME NEW c \in Clients, TryJoin(c)
      PROVE  LockInv'
  <2> DEFINE q == req[c].path
  <2>1. q \in Paths
    BY <1>4, InCall DEF TryJoin
  <2>2. Locked(q) /\ pathLocks[q].by = c
    BY <1>4, <2>1, OwnEntry DEF TryJoin, MayJoin
  <2>3. /\ UNCHANGED <<pathLocks, clock, cleanerVars, overrun>>
        /\ \A d \in Clients : holds'[d] = IF d = c THEN holds[d] \union {q} ELSE holds[d]
        /\ \A d \in Clients : pc'[d] = "deleting" =>
             d # c /\ pc[d] = "deleting" /\ req'[d] = req[d]
    BY <1>4 DEF TryJoin, Granted, TypeOK
  <2>4. HolderOwnsEntry'
    <3> SUFFICES ASSUME NEW d \in Clients, NEW p \in Paths, p \notin overrun', p \in holds'[d]
                 PROVE  Locked(p)' /\ (pathLocks[p].by)' = d
      BY DEF HolderOwnsEntry
    <3>1. p \notin overrun /\ (p \in holds[d] \/ (d = c /\ p = q))
      BY <2>3
    <3>2. Locked(p) /\ pathLocks[p].by = d
      BY <2>2, <3>1 DEF HolderOwnsEntry
    <3> QED BY <2>3, <3>2 DEF Locked
  <2>5. DeleterOwnsEntry'
    BY <2>3 DEF DeleterOwnsEntry, Locked
  <2>6. EntryOwner' /\ CleanerIsLate'
    BY <2>3 DEF EntryOwner, CleanerIsLate, Locked, Overstayed, cleanerVars
  <2> QED BY <2>4, <2>5, <2>6
<1>5. ASSUME NEW c \in Clients, NEW q \in Paths, UnlockLoad(c, q)
      PROVE  LockInv'
  <2>1. Settle
    BY <1>5 DEF UnlockLoad
  <2>2. /\ UNCHANGED <<pathLocks, clock, cleanerVars>>
        /\ \A d \in Clients : holds'[d] = IF d = c THEN holds[d] \ {q} ELSE holds[d]
    BY <1>5 DEF UnlockLoad, TypeOK
  <2>3. HolderOwnsEntry' /\ EntryOwner' /\ CleanerIsLate'
    <3>1. HolderOwnsEntry'
      <4> SUFFICES ASSUME NEW d \in Clients, NEW p \in Paths, p \notin overrun', p \in holds'[d]
                   PROVE  Locked(p)' /\ (pathLocks[p].by)' = d
        BY DEF HolderOwnsEntry
      <4>1. p \notin overrun /\ p \in holds[d]
        <5>1. p \notin overrun
          BY <2>1 DEF Settle, InUse
        <5> QED BY <2>2, <5>1
      <4>2. Locked(p) /\ pathLocks[p].by = d
        BY <4>1 DEF HolderOwnsEntry
      <4> QED BY <2>2, <4>1, <4>2 DEF Locked
    <3>2. EntryOwner'
      BY <2>2 DEF EntryOwner, Locked
    <3>3. CleanerIsLate'
      BY <2>1, <2>2, Settled DEF CleanerIsLate, Locked, Overstayed, cleanerVars
    <3> QED BY <3>1, <3>2, <3>3
  <2>4. DeleterOwnsEntry'
    <3>1. CASE Locked(q) /\ pathLocks[q].Owner = OwnerOf[c]
      <4>1. pathLocks[q].by = c
        BY <3>1, OwnEntry
      <4>2. /\ req'[c].path = q
            /\ \A d \in Clients \ {c} : pc'[d] = pc[d] /\ req'[d] = req[d]
        BY <1>5, <3>1 DEF UnlockLoad, TypeOK
      <4>3. q \notin holds'[c]
        BY <2>2
      <4>4. ASSUME NEW d \in Clients, pc'[d] = "deleting"
            PROVE  /\ (req[d].path \notin holds[d])'
                   /\ (req[d].path \notin overrun =>
                         Locked(req[d].path) /\ pathLocks[req[d].path].by = d)'
        <5>1. CASE d = c
          BY <2>2, <3>1, <4>1, <4>2, <4>3, <5>1 DEF Locked
        <5>2. CASE d # c
          <6>1. pc[d] = "deleting" /\ req'[d] = req[d] /\ holds'[d] = holds[d]
            BY <2>2, <4>2, <4>4, <5>2
          <6>2. req[d].path \notin overrun' => req[d].path \notin overrun
            BY <2>1, <4>4, <6>1 DEF Settle, InUse
          <6>3. /\ req[d].path \notin holds[d]
                /\ req[d].path \notin overrun =>
                     Locked(req[d].path) /\ pathLocks[req[d].path].by = d
            BY <6>1 DEF DeleterOwnsEntry
          <6> QED BY <2>2, <6>1, <6>2, <6>3 DEF Locked
        <5> QED BY <5>1, <5>2
      <4> QED BY <4>4 DEF DeleterOwnsEntry
    <3>2. CASE ~(Locked(q) /\ pathLocks[q].Owner = OwnerOf[c])
      <4>1. UNCHANGED <<pc, req>>
        BY <1>5, <3>2 DEF UnlockLoad
      <4> QED BY <2>1, <2>2, <4>1, Settled DEF DeleterOwnsEntry, Locked
    <3> QED BY <3>1, <3>2
  <2> QED BY <2>3, <2>4
<1>6. ASSUME NEW c \in Clients, UnlockDelete(c)
      PROVE  LockInv'
  <2> DEFINE q == req[c].path
  <2>1. q \in Paths /\ q \notin holds[c] /\ (q \notin overrun => pathLocks[q].by = c)
    BY <1>6, InCall DEF UnlockDelete, DeleterOwnsEntry
  <2>2. Settle
    BY <1>6 DEF UnlockDelete
  <2>3. /\ UNCHANGED <<clock, cleanerVars, holds>>
        /\ pathLocks'[q] = NoLock
        /\ \A p \in Paths : p # q => pathLocks'[p] = pathLocks[p]
        /\ \A d \in Clients : pc'[d] = "deleting" =>
             d # c /\ pc[d] = "deleting" /\ req'[d] = req[d]
    BY <1>6, <2>1 DEF UnlockDelete, TypeOK
  <2>4. HolderOwnsEntry'
    <3> SUFFICES ASSUME NEW d \in Clients, NEW p \in Paths, p \notin overrun', p \in holds'[d]
                 PROVE  Locked(p)' /\ (pathLocks[p].by)' = d
      BY DEF HolderOwnsEntry
    <3>1. p \notin overrun /\ p \in holds[d]
      <4>1. p \notin overrun
        BY <2>2 DEF Settle, InUse
      <4> QED BY <2>3, <4>1
    <3>2. Locked(p) /\ pathLocks[p].by = d
      BY <3>1 DEF HolderOwnsEntry
    <3> QED BY <2>1, <2>3, <3>1, <3>2 DEF Locked
  <2>5. DeleterOwnsEntry'
    <3>1. \A d \in Clients : pc[d] = "deleting" => req[d].path \in Paths
      BY InCall
    <3> QED BY <2>2, <2>1, <2>3, <3>1, Settled DEF DeleterOwnsEntry, Locked
  <2>6. EntryOwner'
    BY <2>3 DEF EntryOwner, Locked
  <2>7. CleanerIsLate'
    BY <2>2, <2>3, Settled DEF CleanerIsLate, Locked, Overstayed, cleanerVars
  <2> QED BY <2>4, <2>5, <2>6, <2>7
<1>7. CASE Start \/ Stop \/ CleanupTick \/ CleanupExit
  <2>1. UNCHANGED <<pathLocks, clock, pc, req, doomed, holds, overrun>>
    BY <1>7 DEF Start, Stop, CleanupTick, CleanupExit
  <2>2. cleanNow' = cleanNow \/ cleanNow' = clock
    BY <1>7 DEF Start, Stop, CleanupTick, CleanupExit
  <2>3. HolderOwnsEntry' /\ DeleterOwnsEntry' /\ EntryOwner'
    BY <2>1 DEF HolderOwnsEntry, DeleterOwnsEntry, EntryOwner, Locked
  <2>4. CleanerIsLate'
    BY <2>1, <2>2 DEF CleanerIsLate, Locked, Overstayed, TypeOK
  <2> QED BY <2>3, <2>4
<1>8. ASSUME NEW q \in Paths, CleanupVisit(q)
      PROVE  LockInv'
  <2>1. UNCHANGED <<pathLocks, clock, pc, req, holds, overrun, cleanNow>>
    BY <1>8 DEF CleanupVisit
  <2>2. HolderOwnsEntry' /\ DeleterOwnsEntry' /\ EntryOwner'
    BY <2>1 DEF HolderOwnsEntry, DeleterOwnsEntry, EntryOwner, Locked
  <2>3. doomed' # NoPath => doomed' \in overrun
    <3> SUFFICES ASSUME doomed' # NoPath PROVE doomed' \in overrun
      OBVIOUS
    <3>1. doomed' = q /\ Locked(q) /\ IsExpired(pathLocks[q], cleanNow)
      BY <1>8 DEF CleanupVisit
    <3>2. pathLocks[q].Timestamp \in Nat
      BY <3>1 DEF TypeOK, LockInfo, Locked
    <3>3. cleanNow \in Nat /\ clock \in Nat /\ cleanNow <= clock
      BY DEF TypeOK, CleanerIsLate
    <3>4. Overstayed(pathLocks[q], clock)
      BY <3>1, <3>2, <3>3, TimeAssumption DEF IsExpired, Overstayed
    <3> QED BY <3>1, <3>4 DEF CleanerIsLate
  <2>4. CleanerIsLate'
    BY <2>1, <2>3 DEF CleanerIsLate, Locked, Overstayed
  <2> QED BY <2>2, <2>4
<1>9. CASE CleanupDelete
  <2>1. doomed \in overrun /\ doomed \in Paths
    BY <1>9 DEF CleanupDelete, CleanerIsLate, TypeOK
  <2>2. Settle
    BY <1>9 DEF CleanupDelete
  <2>3. /\ UNCHANGED <<clock, pc, req, cleanNow, holds>>
        /\ doomed' = NoPath
        /\ pathLocks'[doomed] = NoLock
        /\ \A p \in Paths : p # doomed => pathLocks'[p] = pathLocks[p]
    BY <1>9, <2>1 DEF CleanupDelete, TypeOK
  <2>4. HolderOwnsEntry' /\ EntryOwner' /\ CleanerIsLate'
    <3>1. HolderOwnsEntry'
      <4> SUFFICES ASSUME NEW d \in Clients, NEW p \in Paths, p \notin overrun', p \in holds'[d]
                   PROVE  Locked(p)' /\ (pathLocks[p].by)' = d
        BY DEF HolderOwnsEntry
      <4>1. p \notin overrun /\ p \in holds[d]
        <5>1. p \notin overrun
          BY <2>2 DEF Settle, InUse
        <5> QED BY <2>3, <5>1
      <4>2. Locked(p) /\ pathLocks[p].by = d
        BY <4>1 DEF HolderOwnsEntry
      <4> QED BY <2>1, <2>3, <4>1, <4>2 DEF Locked
    <3>2. EntryOwner'
      BY <2>3 DEF EntryOwner, Locked
    <3>3. CleanerIsLate'
      BY <2>2, <2>3, Settled DEF CleanerIsLate, Locked, Overstayed
    <3> QED BY <3>1, <3>2, <3>3
  <2>5. DeleterOwnsEntry'
    <3>1. \A d \in Clients : pc[d] = "deleting" => req[d].path \in Paths
      BY InCall
    <3> QED BY <2>2, <2>1, <2>3, <3>1, Settled DEF DeleterOwnsEntry, Locked
  <2> QED BY <2>4, <2>5
<1>10. CASE Tick
  <2>1. /\ UNCHANGED <<pathLocks, pc, req, cleanerVars, holds>>
        /\ overrun \subseteq overrun'
        /\ clock' = clock + 1
        /\ \A p \in Paths : Locked(p) /\ Overstayed(pathLocks[p], clock + 1) => p \in overrun'
    BY <1>10 DEF Tick
  <2>2. HolderOwnsEntry' /\ DeleterOwnsEntry' /\ EntryOwner'
    BY <2>1 DEF HolderOwnsEntry, DeleterOwnsEntry, EntryOwner, Locked
  <2>3. CleanerIsLate'
    BY <2>1 DEF CleanerIsLate, Locked, Overstayed, TypeOK, cleanerVars
  <2> QED BY <2>2, <2>3
<1> QED BY <1>1, <1>2, <1>3, <1>4, <1>5, <1>6, <1>7, <1>8, <1>9, <1>10
        DEF Next, Client, Cleanup, CleanupPass

\* What a client was granted for writing it holds.
WritesHeld == \A c \in Clients : writes[c] \subseteq holds[c]

LEMMA WritesHeldStep ==
  ASSUME TypeOK, WritesHeld, [Next]_vars
  PROVE  WritesHeld'
<1> USE DEF TypeOK
<1>1. ASSUME NEW c \in Clients, TryStore(c) \/ TryJoin(c) PROVE WritesHeld'
  <2>1. /\ \A d \in Clients \ {c} : holds'[d] = holds[d] /\ writes'[d] = writes[d]
        /\ holds'[c] = holds[c] \union {req[c].path}
        /\ writes'[c] \subseteq writes[c] \union {req[c].path}
    BY <1>1 DEF TryStore, TryJoin, Granted
  <2> QED BY <2>1 DEF WritesHeld
<1>2. ASSUME NEW c \in Clients, NEW p \in Paths, UnlockLoad(c, p) PROVE WritesHeld'
  <2>1. /\ \A d \in Clients \ {c} : holds'[d] = holds[d] /\ writes'[d] = writes[d]
        /\ holds'[c] = holds[c] \ {p}
        /\ writes'[c] = writes[c] \ {p}
    BY <1>2 DEF UnlockLoad
  <2> QED BY <2>1 DEF WritesHeld
<1>3. CASE UNCHANGED <<holds, writes>>
  BY <1>3 DEF WritesHeld
<1>4. \/ \E c \in Clients : \/ TryStore(c) \/ TryJoin(c)
                           \/ \E p \in Paths : UnlockLoad(c, p)
      \/ UNCHANGED <<holds, writes>>
  BY DEF Next, Client, Cleanup, CleanupPass, LockCall, TryFail, Retry, CtxDone, UnlockDelete,
     Start, Stop, CleanupTick, CleanupVisit, CleanupDelete, CleanupExit, Tick, vars
<1> QED BY <1>1, <1>2, <1>3, <1>4

\* The exclusion of a read-write lock for any number of clients and paths:
\* unless a lock on a path has outlived lockTimeout since the path was last out
\* of use, nobody holds it beside a goroutine that was granted it with a type
\* other than Read.
THEOREM MutualExclusion == Spec => []WriterExcludesOthers
<1>1. CASE DistinctOwners
  <2>1. Init => LockInv /\ WritesHeld
    <3>1. Init => WritesHeld
      BY DEF Init, WritesHeld
    <3> QED BY <3>1, LockInvInit
  <2>2. LockInv /\ WritesHeld /\ [Next]_vars => LockInv' /\ WritesHeld'
    <3>1. LockInv => TypeOK
      BY DEF LockInv
    <3> QED BY <1>1, <3>1, LockInvStep, WritesHeldStep
  <2>3. LockInv /\ WritesHeld => WriterExcludesOthers
    <3> SUFFICES ASSUME LockInv, WritesHeld,
                        NEW p \in Paths \ overrun, NEW c \in Clients, NEW d \in Clients,
                        p \in writes[c], p \in holds[d]
                 PROVE  c = d
      BY DEF WriterExcludesOthers
    <3>1. p \in holds[c]
      BY DEF WritesHeld
    <3> QED BY <3>1 DEF LockInv, HolderOwnsEntry
  <2> QED BY <2>1, <2>2, <2>3, PTL DEF Spec
<1>2. CASE ~DistinctOwners
  <2>1. WriterExcludesOthers
    BY <1>2 DEF WriterExcludesOthers
  <2> QED BY <2>1, PTL
<1> QED BY <1>1, <1>2

\* No entry of a path that has not overrun is taken away from its holder: the
\* check-then-delete of Unlock and of the cleanup is harmless within
\* lockTimeout, for any number of clients and paths.
THEOREM HolderKeepsLock == Spec => OnlyHolderReleases
<1>1. CASE DistinctOwners
  <2>1. Init => LockInv
    BY LockInvInit
  <2>2. LockInv /\ [Next]_vars => LockInv'
    BY <1>1, LockInvStep
  <2>3. LockInv /\ [Next]_vars => [ReleaseByHolder]_vars
    <3> SUFFICES ASSUME LockInv, Next, NEW p \in Paths, p \notin overrun, Locked(p),
                        pathLocks'[p] # pathLocks[p]
                 PROVE  \E c \in Clients : /\ pc[c] = "deleting" /\ pc'[c] = "idle"
                                           /\ req[c].path = p
                                           /\ pathLocks[p].by = c
      BY DEF ReleaseByHolder
    <3>1. ASSUME NEW c \in Clients, TryStore(c) PROVE FALSE
      BY <3>1 DEF TryStore, LockInv, TypeOK
    <3>2. CASE CleanupDelete
      BY <3>2 DEF CleanupDelete, LockInv, CleanerIsLate, TypeOK
    <3>3. ASSUME NEW c \in Clients, UnlockDelete(c)
          PROVE  /\ pc[c] = "deleting" /\ pc'[c] = "idle"
                 /\ req[c].path = p /\ pathLocks[p].by = c
      <4>1. req[c].path = p
        BY <3>3 DEF UnlockDelete, LockInv, TypeOK
      <4> QED BY <3>3, <4>1 DEF UnlockDelete, LockInv, DeleterOwnsEntry, TypeOK
    <3>4. \/ \E c \in Clients : TryStore(c) \/ UnlockDelete(c)
          \/ CleanupDelete
      BY DEF Next, Client, Cleanup, CleanupPass, LockCall, TryJoin, TryFail, Retry, CtxDone, UnlockLoad,
         Start, Stop, CleanupTick, CleanupVisit, CleanupExit, Tick
    <3> QED BY <3>1, <3>2, <3>3, <3>4
  <2> QED BY <2>1, <2>2, <2>3, PTL DEF Spec, OnlyHolderReleases
<1>2. CASE ~DistinctOwners
  <2>1. [ReleaseByHolder]_vars
    BY <1>2 DEF ReleaseByHolder
  <2> QED BY <2>1, PTL DEF OnlyHolderReleases
<1> QED BY <1>1, <1>2

-----------------------------------------------------------------------------
(***************************************************************************)
(* LockManager implements LockService.  Beside LockInv this needs to know  *)
(* that no entry is left over: its client holds the path or is about to    *)
(* delete it, so that Lock can only join what its caller already holds;    *)
(* and that a path which overran is in use, so that a step lets only the   *)
(* path recover that it works on.                                          *)
(***************************************************************************)
EntryInUse ==
  \A c \in Clients : \A p \in Paths \ overrun :
    Locked(p) /\ pathLocks[p].by = c =>
      p \in holds[c] \/ (pc[c] = "deleting" /\ req[c].path = p)

LEMMA EntryInUseStep ==
  ASSUME LockInv, EntryInUse, DistinctOwners, [Next]_vars
  PROVE  EntryInUse'
<1> USE DEF LockInv
\* A step that leaves the entries of a client, what it holds and what it is
\* about to delete alone keeps them in use.
<1>1. CASE UNCHANGED <<pathLocks, holds, overrun>> /\
           \A d \in Clients : pc[d] = "deleting" => pc'[d] = "deleting" /\ req'[d] = req[d]
  BY <1>1 DEF EntryInUse, Locked
<1>2. ASSUME NEW c \in Clients,
             \/ \E p \in Paths, t \in LockTypes : LockCall(c, p, t)
             \/ TryFail(c) \/ Retry(c) \/ CtxDone(c)
      PROVE  EntryInUse'
  <2>1. UNCHANGED <<pathLocks, holds, overrun>>
    BY <1>2 DEF LockCall, TryFail, Retry, CtxDone
  <2>2. \A d \in Clients : pc[d] = "deleting" => pc'[d] = "deleting" /\ req'[d] = req[d]
    BY <1>2 DEF LockCall, TryFail, Retry, CtxDone, TypeOK
  <2> QED BY <1>1, <2>1, <2>2
<1>3. ASSUME NEW c \in Clients, TryStore(c) \/ TryJoin(c)
      PROVE  EntryInUse'
  <2> DEFINE q == req[c].path
  <2>1. q \in Paths
    BY <1>3, InCall DEF TryStore, TryJoin
  <2>2. /\ overrun' = overrun
        /\ pathLocks'[q] = pathLocks[q] \/ pathLocks'[q].by = c
        /\ \A p \in Paths : p # q => pathLocks'[p] = pathLocks[p]
    BY <1>3, <2>1 DEF TryStore, TryJoin, TypeOK
  <2>3. /\ q \in holds'[c]
        /\ \A d \in Clients : holds[d] \subseteq holds'[d]
        /\ \A d \in Clients : pc[d] = "deleting" => pc'[d] = "deleting" /\ req'[d] = req[d]
    BY <1>3 DEF TryStore, TryJoin, Granted, TypeOK
  <2>4. ASSUME NEW d \in Clients, NEW p \in Paths, p \notin overrun', Locked(p)', (pathLocks[p].by)' = d
        PROVE  p \in holds'[d] \/ (pc'[d] = "deleting" /\ req'[d].path = p)
    <3>1. CASE d = c /\ p = q
      BY <2>3, <3>1
    <3>2. CASE pathLocks'[p] = pathLocks[p]
      <4>1. p \in holds[d] \/ (pc[d] = "deleting" /\ req[d].path = p)
        BY <2>2, <2>4, <3>2 DEF EntryInUse, Locked
      <4> QED BY <2>3, <4>1
    <3> QED BY <2>2, <2>4, <3>1, <3>2
  <2> QED BY <2>4 DEF EntryInUse
<1>4. ASSUME NEW c \in Clients, NEW q \in Paths, UnlockLoad(c, q)
      PROVE  EntryInUse'
  <2>1. Settle
    BY <1>4 DEF UnlockLoad
  <2>2. /\ UNCHANGED pathLocks
        /\ pc[c] = "idle"
        /\ \A d \in Clients : holds'[d] = IF d = c THEN holds[d] \ {q} ELSE holds[d]
        /\ \A d \in Clients \ {c} : pc'[d] = pc[d] /\ req'[d] = req[d]
    BY <1>4 DEF UnlockLoad, TypeOK
  <2>3. ASSUME NEW d \in Clients, NEW p \in Paths, p \notin overrun, Locked(p), pathLocks[p].by = d
        PROVE  p \in holds'[d] \/ (pc'[d] = "deleting" /\ req'[d].path = p)
    <3>1. CASE d = c /\ p = q
      <4>1. pathLocks[q].Owner = OwnerOf[c]
        BY <2>3, <3>1 DEF EntryOwner
      <4>2. pc'[c] = "deleting" /\ req'[c].path = q
        BY <1>4, <2>3, <3>1, <4>1 DEF UnlockLoad, TypeOK
      <4> QED BY <3>1, <4>2
    <3>2. CASE d = c /\ p # q
      BY <2>2, <2>3, <3>2 DEF EntryInUse
    <3>3. CASE d # c
      <4>1. holds'[d] = holds[d] /\ pc'[d] = pc[d] /\ req'[d] = req[d]
        BY <2>2, <3>3
      <4>2. p \in holds[d] \/ (pc[d] = "deleting" /\ req[d].path = p)
        BY <2>3 DEF EntryInUse
      <4> QED BY <4>1, <4>2
    <3> QED BY <3>1, <3>2, <3>3
  <2> QED BY <2>1, <2>2, <2>3, Settled DEF EntryInUse, Locked
<1>5. ASSUME NEW c \in Clients, UnlockDelete(c)
      PROVE  EntryInUse'
  <2> DEFINE q == req[c].path
  <2>1. q \in Paths /\ pc[c] = "deleting"
    BY <1>5, InCall DEF UnlockDelete
  <2>2. Settle
    BY <1>5 DEF UnlockDelete
  <2>3. /\ UNCHANGED holds
        /\ pathLocks'[q] = NoLock
        /\ \A p \in Paths : p # q => pathLocks'[p] = pathLocks[p]
        /\ \A d \in Clients \ {c} : pc'[d] = pc[d] /\ req'[d] = req[d]
    BY <1>5, <2>1 DEF UnlockDelete, TypeOK
  <2>4. ASSUME NEW d \in Clients, NEW p \in Paths, p \notin overrun, Locked(p)', (pathLocks[p].by)' = d
        PROVE  p \in holds'[d] \/ (pc'[d] = "deleting" /\ req'[d].path = p)
    <3>1. p # q /\ Locked(p) /\ pathLocks[p].by = d
      BY <2>3, <2>4 DEF Locked
    <3>2. p \in holds[d] \/ (d # c /\ pc[d] = "deleting" /\ req[d].path = p)
      BY <2>4, <3>1 DEF EntryInUse
    <3> QED BY <2>3, <3>2
  <2> QED BY <2>2, <2>4, Settled DEF EntryInUse, Locked
<1>6. CASE Start \/ Stop \/ CleanupTick \/ CleanupExit \/ (\E p \in Paths : CleanupVisit(p)) \/ UNCHANGED vars
  <2>1. UNCHANGED <<pathLocks, holds, overrun, pc, req>>
    BY <1>6 DEF Start, Stop, CleanupTick, CleanupExit, CleanupVisit, vars
  <2> QED BY <1>1, <2>1
<1>7. CASE CleanupDelete
  <2>1. doomed \in overrun /\ doomed \in Paths
    BY <1>7 DEF CleanupDelete, CleanerIsLate, TypeOK
  <2>2. Settle
    BY <1>7 DEF CleanupDelete
  <2>3. /\ UNCHANGED <<pc, req, holds>>
        /\ \A p \in Paths \ overrun : pathLocks'[p] = pathLocks[p]
    BY <1>7, <2>1 DEF CleanupDelete, TypeOK
  <2> QED BY <2>2, <2>3, Settled DEF EntryInUse, Locked
<1>8. CASE Tick
  <2>1. UNCHANGED <<pathLocks, pc, req, holds>> /\ overrun \subseteq overrun'
    BY <1>8 DEF Tick
  <2> QED BY <2>1 DEF EntryInUse, Locked
<1> QED BY <1>2, <1>3, <1>4, <1>5, <1>6, <1>7, <1>8 DEF Next, Client, Cleanup, CleanupPass

\* A path that overran is in use: it leaves overrun with its last user.
OverrunInUse == \A p \in overrun : InUse(p)

LEMMA OverrunInUseStep ==
  ASSUME TypeOK, OverrunInUse, [Next]_vars
  PROVE  OverrunInUse'
<1> USE DEF TypeOK
<1>1. CASE Settle
  BY <1>1 DEF Settle, OverrunInUse
\* Without Settle, whoever uses a path still does after the step.
<1>2. ASSUME overrun' = overrun,
             \A p \in Paths : Locked(p) => Locked(p)',
             doomed # NoPath => doomed' = doomed,
             \A d \in Clients : holds[d] \subseteq holds'[d],
             \A d \in Clients : pc[d] = "deleting" => pc'[d] = "deleting" /\ req'[d] = req[d]
      PROVE  OverrunInUse'
  <2> SUFFICES ASSUME NEW p \in Paths, p \in overrun PROVE InUse(p)'
    BY <1>2 DEF OverrunInUse
  <2>1. InUse(p) /\ p # NoPath
    BY PathAssumption DEF OverrunInUse, NoPath
  <2>2. CASE Locked(p) \/ doomed = p
    BY <1>2, <2>1, <2>2 DEF InUse
  <2>3. ASSUME NEW d \in Clients, p \in holds[d] \/ (pc[d] = "deleting" /\ req[d].path = p)
        PROVE  InUse(p)'
    <3>1. p \in holds'[d] \/ (pc'[d] = "deleting" /\ req'[d].path = p)
      BY <1>2, <2>3
    <3> QED BY <3>1 DEF InUse
  <2> QED BY <2>1, <2>2, <2>3 DEF InUse
<1>3. ASSUME NEW c \in Clients,
             \/ \E p \in Paths, t \in LockTypes : LockCall(c, p, t)
             \/ TryFail(c) \/ Retry(c) \/ CtxDone(c) \/ TryJoin(c)
      PROVE  OverrunInUse'
  <2>1. UNCHANGED <<pathLocks, doomed, overrun>>
    BY <1>3 DEF LockCall, TryFail, Retry, CtxDone, TryJoin, cleanerVars
  <2>2. \A d \in Clients : holds[d] \subseteq holds'[d]
    BY <1>3 DEF LockCall, TryFail, Retry, CtxDone, TryJoin, Granted
  <2>3. \A d \in Clients : pc[d] = "deleting" => pc'[d] = "deleting" /\ req'[d] = req[d]
    BY <1>3 DEF LockCall, TryFail, Retry, CtxDone, TryJoin, Granted
  <2> QED BY <1>2, <2>1, <2>2, <2>3 DEF Locked
<1>4. ASSUME NEW c \in Clients, TryStore(c)
      PROVE  OverrunInUse'
  <2>1. \A p \in Paths : Locked(p) => pathLocks'[p] = pathLocks[p]
    BY <1>4 DEF TryStore
  <2>2. UNCHANGED <<doomed, overrun>>
    BY <1>4 DEF TryStore, cleanerVars
  <2>3. /\ \A d \in Clients : holds[d] \subseteq holds'[d]
        /\ \A d \in Clients : pc[d] = "deleting" => pc'[d] = "deleting" /\ req'[d] = req[d]
    BY <1>4 DEF TryStore, Granted
  <2> QED BY <1>2, <2>1, <2>2, <2>3 DEF Locked
<1>5. CASE (\E c \in Clients : UnlockDelete(c) \/ \E p \in Paths : UnlockLoad(c, p)) \/ CleanupDelete
  BY <1>1, <1>5 DEF UnlockLoad, UnlockDelete, CleanupDelete
<1>6. CASE Start \/ Stop \/ CleanupTick \/ CleanupExit \/ (\E p \in Paths : CleanupVisit(p)) \/ UNCHANGED vars
  <2>1. UNCHANGED <<pathLocks, holds, overrun, pc, req>>
    BY <1>6 DEF Start, Stop, CleanupTick, CleanupExit, CleanupVisit, vars
  <2>2. doomed # NoPath => doomed' = doomed
    BY <1>6 DEF Start, Stop, CleanupTick, CleanupExit, CleanupVisit, vars
  <2> QED BY <1>2, <2>1, <2>2 DEF Locked
<1>7. CASE Tick
  <2>1. UNCHANGED <<pathLocks, pc, req, doomed, holds>>
    BY <1>7 DEF Tick, cleanerVars
  <2>2. \A p \in overrun' : p \in overrun \/ Locked(p)
    BY <1>7 DEF Tick
  <2>3. \A p \in overrun' : InUse(p)
    BY <2>2 DEF OverrunInUse, InUse
  <2> QED BY <2>1, <2>3 DEF OverrunInUse, InUse, Locked
<1> QED BY <1>3, <1>4, <1>5, <1>6, <1>7 DEF Next, Client, Cleanup, CleanupPass

\* A step that ends the use of one path only makes no other path recover, and
\* this one only when nothing of it is left.
LEMMA SettlesOne ==
  ASSUME TypeOK, OverrunInUse, Settle, NEW q \in Paths,
         \A p \in Paths : p # q /\ InUse(p) => InUse(p)'
  PROVE  \/ overrun' = overrun
         \/ q \in overrun /\ overrun' = overrun \ {q}
<1>1. \A p \in overrun : p # q => InUse(p)'
  BY DEF TypeOK, OverrunInUse
<1> QED BY <1>1 DEF Settle

LEMMA ServiceInit == Init => EntryInUse /\ OverrunInUse /\ WritesHeld /\ Service!Init
<1> SUFFICES ASSUME Init PROVE EntryInUse /\ OverrunInUse /\ WritesHeld /\ Service!Init
  OBVIOUS
<1>1. \A p \in Paths : ~Locked(p)
  BY DEF Init, Locked
<1>2. \A p \in Paths : HoldersOf(p) = {} /\ WritersOf(p) = {}
  BY DEF Init, HoldersOf, WritersOf
<1>3. overrun = {} /\ WritesHeld
  BY DEF Init, WritesHeld
<1> QED BY <1>1, <1>2, <1>3 DEF EntryInUse, OverrunInUse, Service!Init

\* The abstract state of one path, for the leaves below.
Held(p) == IF p \in overrun THEN {} ELSE HoldersOf(p)
Wrote(p) == IF p \in overrun THEN {} ELSE WritersOf(p)
Kept    == {p \in Paths \ overrun : Locked(p)}

LEMMA ServiceStep ==
  ASSUME LockInv, EntryInUse, OverrunInUse, WritesHeld, DistinctOwners, [Next]_vars
  PROVE  [Service!Next]_(Service!vars)
<1> USE DEF LockInv
\* A stuttering step of the service, in terms of Held and Kept.
<1>1. ASSUME \A p \in Paths : Held(p)' = Held(p) /\ Wrote(p)' = Wrote(p),
             Kept' = Kept, overrun' = overrun
      PROVE  UNCHANGED Service!vars
  BY <1>1 DEF Service!vars, Held, Wrote, Kept
<1>2. CASE UNCHANGED <<pathLocks, holds, writes, overrun>>
  <2>1. (\A p \in Paths : Held(p)' = Held(p) /\ Wrote(p)' = Wrote(p)) /\ Kept' = Kept
    BY <1>2 DEF Held, Wrote, Kept, HoldersOf, WritersOf, Locked
  <2> QED BY <1>1, <1>2, <2>1
\* A path recovers with its last user; the service sees nothing else.
<1>3. ASSUME NEW q \in Paths, Settle, q \in overrun, overrun' = overrun \ {q},
             \A p \in Paths : p # q => Held(p)' = Held(p) /\ Wrote(p)' = Wrote(p),
             \A p \in Paths : p # q => (p \in Kept' <=> p \in Kept)
      PROVE  [Service!Next]_(Service!vars)
  <2>1. HoldersOf(q)' = {} /\ WritersOf(q)' = {} /\ ~Locked(q)'
    <3>1. ~InUse(q)'
      BY <1>3 DEF Settle
    <3>2. WritesHeld'
      BY WritesHeldStep
    <3> QED BY <3>1, <3>2 DEF InUse, HoldersOf, WritersOf, WritesHeld
  <2>2. \A p \in Paths : Held(p)' = Held(p) /\ Wrote(p)' = Wrote(p)
    BY <1>3, <2>1 DEF Held, Wrote
  <2>3. Kept' = Kept
    BY <1>3, <2>1 DEF Kept
  <2>4. Service!Recover(q)
    BY <1>3, <2>2, <2>3 DEF Service!Recover, Held, Wrote, Kept
  <2> QED BY <2>4 DEF Service!Next
<1>4. ASSUME NEW c \in Clients,
             \/ \E p \in Paths, t \in LockTypes : LockCall(c, p, t)
             \/ TryFail(c) \/ Retry(c) \/ CtxDone(c)
      PROVE  UNCHANGED <<pathLocks, holds, writes, overrun>>
  BY <1>4 DEF LockCall, TryFail, Retry, CtxDone
<1>5. ASSUME NEW c \in Clients, TryStore(c)
      PROVE  [Service!Next]_(Service!vars)
  <2> DEFINE e == [Owner |-> OwnerOf[c], by |-> c, Type |-> req[c].type, Timestamp |-> clock]
  <2>1. req[c].path \in Paths /\ req[c].type \in LockTypes
    BY <1>5, InCall DEF TryStore
  <2>2. PICK q \in Paths : q = req[c].path
    BY <2>1
  <2>3. e # NoLock
    <3>1. e \in LockInfo
      BY <2>1, OwnerAssumption DEF LockInfo, TypeOK
    <3> QED BY <3>1, EntryIsLocked
  <2>4. /\ overrun' = overrun /\ ~Locked(q)
        /\ pathLocks'[q] = e
        /\ \A p \in Paths : p # q => pathLocks'[p] = pathLocks[p]
        /\ \A d \in Clients : holds'[d] = IF d = c THEN holds[d] \union {q} ELSE holds[d]
        /\ \A d \in Clients : writes'[d] = IF d = c /\ req[c].type # "Read"
                                             THEN writes[d] \union {q} ELSE writes[d]
    BY <1>5, <2>2 DEF TryStore, Granted, TypeOK
  <2>5. Locked(q)' /\ \A p \in Paths : p # q => (Locked(p)' <=> Locked(p))
    BY <2>3, <2>4 DEF Locked
  <2>6. \A p \in Paths : p # q => HoldersOf(p)' = HoldersOf(p) /\ WritersOf(p)' = WritersOf(p)
    BY <2>4 DEF HoldersOf, WritersOf
  <2>7. CASE q \in overrun
    <3>1. \A p \in Paths : Held(p)' = Held(p) /\ Wrote(p)' = Wrote(p)
      BY <2>4, <2>6, <2>7 DEF Held, Wrote
    <3>2. Kept' = Kept
      BY <2>4, <2>5, <2>7 DEF Kept
    <3> QED BY <1>1, <2>4, <3>1, <3>2
  <2>8. CASE q \notin overrun
    <3>0. \A d \in Clients : q \notin holds[d] /\ q \notin writes[d]
      BY <2>4, <2>8 DEF HolderOwnsEntry, WritesHeld
    <3>1. /\ HoldersOf(q) = {} /\ WritersOf(q) = {}
          /\ HoldersOf(q)' = {c}
          /\ WritersOf(q)' = IF req[c].type = "Read" THEN {} ELSE {c}
      BY <2>4, <3>0 DEF HoldersOf, WritersOf
    <3>2. /\ Held(q) = {} /\ Wrote(q) = {}
          /\ Held(q)' = {c}
          /\ Wrote(q)' = IF req[c].type = "Read" THEN {} ELSE {c}
          /\ \A p \in Paths : p # q => Held(p)' = Held(p) /\ Wrote(p)' = Wrote(p)
      BY <2>4, <2>6, <2>8, <3>1 DEF Held, Wrote
    <3>3. Kept' = Kept \union {q} /\ q \notin Kept
      BY <2>2, <2>4, <2>5, <2>8 DEF Kept
    <3>4. CASE req[c].type = "Read"
      <4>1. \A p \in Paths : Wrote(p)' = Wrote(p)
        BY <3>2, <3>4
      <4>2. \A p \in Paths : Held(p)' = IF p = q THEN Held(p) \union {c} ELSE Held(p)
        BY <3>2
      <4>3. Service!GrantRead(c, q)
        BY <2>2, <2>4, <2>8, <3>2, <3>3, <4>1, <4>2
           DEF Service!GrantRead, Held, Wrote, Kept
      <4> QED BY <2>2, <4>3 DEF Service!Next
    <3>5. CASE req[c].type # "Read"
      <4>1. Service!GrantWrite(c, q)
        BY <2>2, <2>4, <2>8, <3>2, <3>3, <3>5 DEF Service!GrantWrite, Held, Wrote, Kept
      <4> QED BY <2>2, <4>1 DEF Service!Next
    <3> QED BY <3>4, <3>5
  <2> QED BY <2>7, <2>8
<1>6. ASSUME NEW c \in Clients, TryJoin(c)
      PROVE  UNCHANGED Service!vars
  <2> DEFINE q == req[c].path
  <2>1. q \in Paths /\ pc[c] = "trying"
    BY <1>6, InCall DEF TryJoin
  <2>2. Locked(q) /\ pathLocks[q].by = c
    BY <1>6, <2>1, OwnEntry DEF TryJoin, MayJoin
  <2>3. q \notin overrun => q \in holds[c]
    BY <2>1, <2>2 DEF EntryInUse
  <2>4. /\ UNCHANGED <<pathLocks, overrun>>
        /\ \A d \in Clients : holds'[d] = IF d = c THEN holds[d] \union {q} ELSE holds[d]
        /\ writes' = writes
    BY <1>6 DEF TryJoin, Granted, MayJoin, canShareLock, TypeOK
  <2>5. \A p \in Paths : Held(p)' = Held(p) /\ Wrote(p)' = Wrote(p)
    BY <2>3, <2>4 DEF Held, Wrote, HoldersOf, WritersOf
  <2>6. Kept' = Kept
    BY <2>4 DEF Kept, Locked
  <2> QED BY <1>1, <2>4, <2>5, <2>6
<1>7. ASSUME NEW c \in Clients, NEW q \in Paths, UnlockLoad(c, q)
      PROVE  [Service!Next]_(Service!vars)
  <2>1. /\ UNCHANGED <<pathLocks, doomed>>
        /\ \A d \in Clients : holds'[d] = IF d = c THEN holds[d] \ {q} ELSE holds[d]
        /\ \A d \in Clients : writes'[d] = IF d = c THEN writes[d] \ {q} ELSE writes[d]
        /\ \A d \in Clients : pc[d] = "deleting" => pc'[d] = "deleting" /\ req'[d] = req[d]
    BY <1>7 DEF UnlockLoad, TypeOK, cleanerVars
  <2>2. \A p \in Paths : p # q => HoldersOf(p)' = HoldersOf(p) /\ WritersOf(p)' = WritersOf(p)
    BY <2>1 DEF HoldersOf, WritersOf
  <2>3. overrun' = overrun \/ (q \in overrun /\ overrun' = overrun \ {q})
    <3>1. Settle
      BY <1>7 DEF UnlockLoad
    <3>2. ASSUME NEW p \in Paths, p # q, InUse(p) PROVE InUse(p)'
      BY <2>1, <3>2 DEF InUse, Locked
    <3> QED BY <3>1, <3>2, SettlesOne
  <2>4. CASE q \in overrun /\ overrun' = overrun \ {q}
    <3>1. \A p \in Paths : p # q => Held(p)' = Held(p) /\ Wrote(p)' = Wrote(p)
      BY <2>2, <2>4 DEF Held, Wrote
    <3>2. \A p \in Paths : p # q => (p \in Kept' <=> p \in Kept)
      BY <2>1, <2>4 DEF Kept, Locked
    <3> QED BY <1>7, <1>3, <2>4, <3>1, <3>2 DEF UnlockLoad
  <2>5. CASE overrun' = overrun /\ (q \in overrun \/ q \notin holds[c])
    <3>0. q \notin holds[c] => q \notin writes[c]
      BY DEF WritesHeld
    <3>1. \A p \in Paths : Held(p)' = Held(p) /\ Wrote(p)' = Wrote(p)
      <4>1. q \notin holds[c] => HoldersOf(q)' = HoldersOf(q)
        BY <2>1 DEF HoldersOf
      <4>2. q \notin holds[c] => WritersOf(q)' = WritersOf(q)
        BY <2>1, <3>0 DEF WritersOf
      <4> QED BY <2>2, <2>5, <4>1, <4>2 DEF Held, Wrote
    <3>2. Kept' = Kept
      BY <2>1, <2>5 DEF Kept, Locked
    <3> QED BY <1>1, <2>5, <3>1, <3>2
  <2>6. CASE overrun' = overrun /\ q \notin overrun /\ q \in holds[c]
    <3>. Kept' = Kept
      BY <2>1, <2>6 DEF Kept, Locked
    <3>0. \A d \in Clients : q \in holds[d] => d = c
      BY <2>6 DEF HolderOwnsEntry
    <3>1. HoldersOf(q) = {c} /\ HoldersOf(q)' = {}
      <4>1. HoldersOf(q) = {c}
        BY <2>6, <3>0 DEF HoldersOf
      <4>2. \A d \in Clients : q \notin holds'[d]
        BY <2>1, <3>0
      <4> QED BY <4>1, <4>2 DEF HoldersOf
    <3>2. WritersOf(q) \subseteq {c} /\ WritersOf(q)' = {}
      <4>1. \A d \in Clients : q \in writes[d] => d = c
        BY <3>0 DEF WritesHeld
      <4> QED BY <2>1, <4>1 DEF WritersOf
    <3>3. \A p \in Paths : /\ Held(p)' = IF p = q THEN Held(p) \ {c} ELSE Held(p)
                           /\ Wrote(p)' = IF p = q THEN Wrote(p) \ {c} ELSE Wrote(p)
      BY <2>2, <2>6, <3>1, <3>2 DEF Held, Wrote
    <3>4. c \in Held(q)
      BY <2>6, <3>1 DEF Held
    <3>5. Service!GiveBack(c, q)
      BY <2>6, <3>3, <3>4 DEF Service!GiveBack, Held, Wrote, Kept
    <3> QED BY <3>5 DEF Service!Next
  <2> QED BY <2>5, <2>6, <2>3, <2>4
<1>8. ASSUME NEW c \in Clients, UnlockDelete(c)
      PROVE  [Service!Next]_(Service!vars)
  <2>1. req[c].path \in Paths
    BY <1>8, InCall DEF UnlockDelete
  <2>2. PICK q \in Paths :
          /\ q = req[c].path /\ q \notin holds[c]
          /\ q \notin overrun => Locked(q) /\ pathLocks[q].by = c
    BY <1>8, <2>1 DEF UnlockDelete, DeleterOwnsEntry
  <2>3. /\ UNCHANGED <<holds, writes, doomed>>
        /\ pathLocks'[q] = NoLock
        /\ \A p \in Paths : p # q => pathLocks'[p] = pathLocks[p]
        /\ \A d \in Clients : pc[d] = "deleting" =>
             (d = c /\ req[d].path = q) \/ (pc'[d] = "deleting" /\ req'[d] = req[d])
    BY <1>8, <2>2 DEF UnlockDelete, TypeOK, cleanerVars
  <2>4. \A p \in Paths : HoldersOf(p)' = HoldersOf(p) /\ WritersOf(p)' = WritersOf(p)
    BY <2>3 DEF HoldersOf, WritersOf
  <2>5. ~Locked(q)' /\ \A p \in Paths : p # q => (Locked(p)' <=> Locked(p))
    BY <2>3 DEF Locked
  <2>6. overrun' = overrun \/ (q \in overrun /\ overrun' = overrun \ {q})
    <3>1. Settle
      BY <1>8 DEF UnlockDelete
    <3>2. ASSUME NEW p \in Paths, p # q, InUse(p) PROVE InUse(p)'
      BY <2>3, <2>5, <3>2 DEF InUse
    <3> QED BY <3>1, <3>2, SettlesOne
  <2>7. CASE q \in overrun /\ overrun' = overrun \ {q}
    <3>1. \A p \in Paths : p # q => Held(p)' = Held(p) /\ Wrote(p)' = Wrote(p)
      BY <2>4, <2>7 DEF Held, Wrote
    <3>2. \A p \in Paths : p # q => (p \in Kept' <=> p \in Kept)
      BY <2>5, <2>7 DEF Kept
    <3> QED BY <1>8, <1>3, <2>7, <3>1, <3>2 DEF UnlockDelete
  <2>8. overrun' = overrun => \A p \in Paths : Held(p)' = Held(p) /\ Wrote(p)' = Wrote(p)
    BY <2>4 DEF Held, Wrote
  <2>9. CASE overrun' = overrun /\ q \in overrun
    <3>1. Kept' = Kept
      BY <2>5, <2>9 DEF Kept
    <3> QED BY <1>1, <2>8, <2>9, <3>1
  <2>10. CASE overrun' = overrun /\ q \notin overrun
    <3>1. Held(q) = {}
      BY <2>2, <2>10 DEF Held, HoldersOf, HolderOwnsEntry
    <3>2. Kept' = Kept \ {q} /\ q \in Kept
      BY <2>2, <2>5, <2>10 DEF Kept
    <3>3. Service!Free(q)
      BY <2>8, <2>10, <3>1, <3>2 DEF Service!Free, Held, Wrote, Kept
    <3> QED BY <2>2, <3>3 DEF Service!Next
  <2> QED BY <2>9, <2>10, <2>6, <2>7
<1>9. CASE Start \/ Stop \/ CleanupTick \/ CleanupExit \/ (\E p \in Paths : CleanupVisit(p)) \/ UNCHANGED vars
  <2>1. UNCHANGED <<pathLocks, holds, writes, overrun>>
    BY <1>9 DEF Start, Stop, CleanupTick, CleanupExit, CleanupVisit, vars
  <2> QED BY <1>2, <2>1
<1>10. CASE CleanupDelete
  <2>1. PICK q \in Paths : q = doomed /\ q \in overrun
    BY <1>10 DEF CleanupDelete, CleanerIsLate, TypeOK
  <2>2. /\ UNCHANGED <<holds, writes, pc, req>>
        /\ \A p \in Paths : p # q => pathLocks'[p] = pathLocks[p]
    BY <1>10, <2>1 DEF CleanupDelete, TypeOK
  <2>3. \A p \in Paths : HoldersOf(p)' = HoldersOf(p) /\ WritersOf(p)' = WritersOf(p)
    BY <2>2 DEF HoldersOf, WritersOf
  <2>4. \A p \in Paths : p # q => (Locked(p)' <=> Locked(p))
    BY <2>2 DEF Locked
  <2>5. overrun' = overrun \/ (q \in overrun /\ overrun' = overrun \ {q})
    <3>1. Settle
      BY <1>10 DEF CleanupDelete
    <3>2. ASSUME NEW p \in Paths, p # q, InUse(p) PROVE InUse(p)'
      BY <2>1, <2>2, <2>4, <3>2 DEF InUse
    <3> QED BY <3>1, <3>2, SettlesOne
  <2>6. CASE overrun' = overrun
    <3>1. \A p \in Paths : Held(p)' = Held(p) /\ Wrote(p)' = Wrote(p)
      BY <2>3, <2>6 DEF Held, Wrote
    <3>2. Kept' = Kept
      BY <2>1, <2>4, <2>6 DEF Kept
    <3> QED BY <1>1, <2>6, <3>1, <3>2
  <2>7. CASE overrun' = overrun \ {q}
    <3>1. \A p \in Paths : p # q => Held(p)' = Held(p) /\ Wrote(p)' = Wrote(p)
      BY <2>3, <2>7 DEF Held, Wrote
    <3>2. \A p \in Paths : p # q => (p \in Kept' <=> p \in Kept)
      BY <2>4, <2>7 DEF Kept
    <3> QED BY <1>10, <1>3, <2>1, <2>7, <3>1, <3>2 DEF CleanupDelete
  <2> QED BY <2>5, <2>6, <2>7
<1>11. CASE Tick
  <2>1. PICK late : late = overrun' \ overrun
    OBVIOUS
  <2>2. /\ UNCHANGED <<pathLocks, holds, writes>>
        /\ overrun' = overrun \union late
        /\ late \subseteq Paths
        /\ \A p \in late : Locked(p) /\ p \notin overrun
    BY <1>11, <2>1 DEF Tick
  <2>3. \A p \in Paths : /\ HoldersOf(p)' = HoldersOf(p) /\ WritersOf(p)' = WritersOf(p)
                         /\ Locked(p)' <=> Locked(p)
    BY <2>2 DEF HoldersOf, WritersOf, Locked
  <2>4. CASE late = {}
    <3>1. overrun' = overrun
      BY <2>2, <2>4
    <3> QED BY <1>2, <2>2, <3>1
  <2>5. CASE late # {}
    <3>1. \A p \in Paths : /\ Held(p)' = IF p \in late THEN {} ELSE Held(p)
                           /\ Wrote(p)' = IF p \in late THEN {} ELSE Wrote(p)
      BY <2>2, <2>3 DEF Held, Wrote
    <3>2. Kept' = Kept \ late /\ late \subseteq Kept
      BY <2>2, <2>3 DEF Kept
    <3>3. Service!Lapse(late)
      BY <2>2, <2>5, <3>1, <3>2 DEF Service!Lapse, Held, Wrote, Kept
    <3> QED BY <2>2, <3>3 DEF Service!Next
  <2> QED BY <2>4, <2>5
<1> QED BY <1>2, <1>4, <1>5, <1>6, <1>7, <1>8, <1>9, <1>10, <1>11
        DEF Next, Client, Cleanup, CleanupPass

\* To goroutines that each have an owner identifier of their own, Lock, Unlock
\* and the cleanup goroutine implement the abstract LockService, for any
\* number of goroutines and paths and any timeouts.
THEOREM ImplementsLockService ==
  ASSUME DistinctOwners
  PROVE  Spec => RefinesLockService
<1> DEFINE Inv == LockInv /\ EntryInUse /\ OverrunInUse /\ WritesHeld
<1>1. Init => Inv /\ Service!Init
  BY LockInvInit, ServiceInit
<1>2. Inv /\ [Next]_vars => Inv'
  <2>1. LockInv => TypeOK
    BY DEF LockInv
  <2> QED BY <2>1, LockInvStep, EntryInUseStep, OverrunInUseStep, WritesHeldStep
<1>3. Inv /\ [Next]_vars => [Service!Next]_(Service!vars)
  BY ServiceStep
<1> QED BY <1>1, <1>2, <1>3, PTL DEF Spec, RefinesLockService, Service!Spec
=============================================================================
