---------------------------- MODULE LockManager ----------------------------
(***************************************************************************)
(* The path lock manager of the metadata server                            *)
(* (internal/metaserver/core/metadata/lock/manager.go).                    *)
(*                                                                         *)
(* pathLocks is a sync.Map: each Load, LoadOrStore and Delete is atomic,   *)
(* and nothing else is.  Unlock is a Load followed by a Delete, and the    *)
(* cleanup goroutine loads an entry, looks at its age and then deletes     *)
(* whatever the path holds by then.  Both are two steps here.              *)
(*                                                                         *)
(* A client is one goroutine that calls Lock and Unlock; the owner string  *)
(* it passes is OwnerOf[c], which several goroutines may share.            *)
(***************************************************************************)
EXTENDS Integers

CONSTANTS Clients,     \* goroutines that use the lock manager
          Owners,      \* owner identifiers they pass
          OwnerOf,     \* the owner identifier of each client
          Paths,       \* locked paths
          LockTypes,   \* lock types the clients ask for
          LockTimeout, \* lockTimeout, in clock units
          WaitTimeout, \* waitTimeout, in clock units
          MaxClock     \* bound on the clock

ASSUME OwnerAssumption == OwnerOf \in [Clients -> Owners]
ASSUME PathAssumption  == "no path" \notin Paths
ASSUME TypeAssumption  == LockTypes \subseteq {"Read", "Write", "IntentRead", "IntentWrite"}
ASSUME TimeAssumption  == /\ LockTimeout \in Nat
                          /\ WaitTimeout \in Nat
                          /\ MaxClock \in Nat

VARIABLES pathLocks,   \* sync.Map from a path to its LockInfo
          clock,       \* time.Now()
          pc,          \* where each client is in Lock or Unlock
          req,         \* the call a client is in: path, type, deadline
          sweep,       \* paths the current Range of the cleanup has not visited
          cleanNow,    \* the "now" the current Range compares with
          doomed,      \* the path the cleanup is about to delete, or NoPath
          cleaner,     \* life cycle of the cleanup goroutine
          stopped,     \* cleanupCh has been closed by Stop
          holds,       \* history: paths a client was granted and has not unlocked
          writes,      \* history: those of them granted with a type other than Read
          overrun      \* history: paths whose lock was held past LockTimeout
                       \* since they were last out of use

vars == <<pathLocks, clock, pc, req, sweep, cleanNow, doomed, cleaner, stopped,
          holds, writes, overrun>>

NoLock == [Owner |-> "none", by |-> "none", Type |-> "none", Timestamp |-> 0]
NoPath == "no path"
NoReq  == [path |-> NoPath, type |-> "none", deadline |-> 0]

\* "by" is history: the client whose LoadOrStore created the entry.
LockInfo == [Owner : Owners, by : Clients, Type : LockTypes, Timestamp : Nat]
Request  == [path : Paths, type : LockTypes, deadline : Nat]

Locked(p)        == pathLocks[p] # NoLock

IsExpired(l, now) == now - l.Timestamp > LockTimeout

\* What lockTimeout promises a holder ("锁的最长持有时间"): ghost, for overrun.
Overstayed(l, now) == now - l.Timestamp > LockTimeout

\* A path is in use while the map has an entry for it, somebody believes to
\* hold it, or its deletion is under way.
InUse(p) ==
  \/ Locked(p)
  \/ doomed = p
  \/ \E c \in Clients : p \in holds[c] \/ (pc[c] = "deleting" /\ req[c].path = p)

\* An overrun is over when nobody has anything left to do with the path.
Settle == overrun' = {p \in overrun : InUse(p)'}

DistinctOwners == \A c, d \in Clients : OwnerOf[c] = OwnerOf[d] => c = d

Init ==
  /\ pathLocks = [p \in Paths |-> NoLock]
  /\ clock = 0
  /\ pc = [c \in Clients |-> "idle"]
  /\ req = [c \in Clients |-> NoReq]
  /\ sweep = {}
  /\ cleanNow = 0
  /\ doomed = NoPath
  /\ cleaner = "off"
  /\ stopped = FALSE
  /\ holds = [c \in Clients |-> {}]
  /\ writes = [c \in Clients |-> {}]
  /\ overrun = {}

cleanerVars == <<sweep, cleanNow, doomed, cleaner, stopped>>

(***************************************************************************)
(* Lock: tryLock, then wait and retry until the deadline.                  *)
(***************************************************************************)
canShareLock(existing, requested) == existing = "Read" /\ requested = "Read"

\* Faulty variant: any reader may join, whoever the owner is.
MayJoin_AnyOwner(l, t, owner) == canShareLock(l.Type, t)

\* tryLock answers true for an existing entry only when the lock can be
\* shared and belongs to the same owner.
MayJoin(l, t, owner) == canShareLock(l.Type, t) /\ l.Owner = owner

\* Faulty variant: the deadline lies in the past.
LockCall_PastDeadline(c, p, t) ==
  /\ pc[c] = "idle"
  /\ clock + WaitTimeout < MaxClock
  /\ pc' = [pc EXCEPT ![c] = "trying"]
  /\ req' = [req EXCEPT ![c] =
               [path |-> p, type |-> t, deadline |-> clock - WaitTimeout]]
  /\ UNCHANGED <<pathLocks, clock, cleanerVars, holds, writes, overrun>>

\* The bound on the clock admits only calls whose deadline can still pass.
LockCall(c, p, t) ==
  /\ pc[c] = "idle"
  /\ clock + WaitTimeout < MaxClock
  /\ pc' = [pc EXCEPT ![c] = "trying"]
  /\ req' = [req EXCEPT ![c] =
               [path |-> p, type |-> t, deadline |-> clock + WaitTimeout]]
  /\ UNCHANGED <<pathLocks, clock, cleanerVars, holds, writes, overrun>>

Granted(c) ==
  /\ pc' = [pc EXCEPT ![c] = "idle"]
  /\ req' = [req EXCEPT ![c] = NoReq]
  /\ holds' = [holds EXCEPT ![c] = @ \union {req[c].path}]
  /\ writes' = IF req[c].type = "Read"
                 THEN writes ELSE [writes EXCEPT ![c] = @ \union {req[c].path}]

\* LoadOrStore stores the entry: nobody holds the path.
TryStore(c) ==
  /\ pc[c] = "trying"
  /\ ~Locked(req[c].path)
  /\ pathLocks' = [pathLocks EXCEPT ![req[c].path] =
                     [Owner |-> OwnerOf[c], by |-> c, Type |-> req[c].type,
                      Timestamp |-> clock]]
  /\ Granted(c)
  /\ UNCHANGED <<clock, cleanerVars, overrun>>

\* LoadOrStore loads an entry the caller may share; the entry stays as it is.
TryJoin(c) ==
  /\ pc[c] = "trying"
  /\ Locked(req[c].path)
  /\ MayJoin(pathLocks[req[c].path], req[c].type, OwnerOf[c])
  /\ Granted(c)
  /\ UNCHANGED <<pathLocks, clock, cleanerVars, overrun>>

\* Faulty variant: the deadline is never looked at.
TryFail_NoDeadline(c) ==
  /\ pc[c] = "trying"
  /\ Locked(req[c].path)
  /\ ~MayJoin(pathLocks[req[c].path], req[c].type, OwnerOf[c])
  /\ pc' = [pc EXCEPT ![c] = "waiting"]
  /\ UNCHANGED <<pathLocks, clock, req, cleanerVars, holds, writes, overrun>>

\* LoadOrStore loads an entry the caller may not share: it waits for the
\* retry, or its deadline has passed and Lock returns the timeout error.
TryFail(c) ==
  /\ pc[c] = "trying"
  /\ Locked(req[c].path)
  /\ ~MayJoin(pathLocks[req[c].path], req[c].type, OwnerOf[c])
  /\ IF clock > req[c].deadline
       THEN /\ pc' = [pc EXCEPT ![c] = "idle"]
            /\ req' = [req EXCEPT ![c] = NoReq]
       ELSE /\ pc' = [pc EXCEPT ![c] = "waiting"]
            /\ UNCHANGED req
  /\ UNCHANGED <<pathLocks, clock, cleanerVars, holds, writes, overrun>>

\* 100 ms later the loop tries again.
Retry(c) ==
  /\ pc[c] = "waiting"
  /\ pc' = [pc EXCEPT ![c] = "trying"]
  /\ UNCHANGED <<pathLocks, clock, req, cleanerVars, holds, writes, overrun>>

\* The caller's context ends while Lock waits.
CtxDone(c) ==
  /\ pc[c] = "waiting"
  /\ pc' = [pc EXCEPT ![c] = "idle"]
  /\ req' = [req EXCEPT ![c] = NoReq]
  /\ UNCHANGED <<pathLocks, clock, cleanerVars, holds, writes, overrun>>

(***************************************************************************)
(* Unlock: Load and look at the owner; Delete in a second step.  The early *)
(* returns (no entry, somebody else's entry) leave the map alone.          *)
(***************************************************************************)
\* Faulty variant: the owner of the loaded entry is not compared.
UnlockLoad_AnyOwner(c, p) ==
  /\ pc[c] = "idle"
  /\ holds' = [holds EXCEPT ![c] = @ \ {p}]
  /\ writes' = [writes EXCEPT ![c] = @ \ {p}]
  /\ Locked(p)
  /\ pc' = [pc EXCEPT ![c] = "deleting"]
  /\ req' = [req EXCEPT ![c] =
               [path |-> p, type |-> pathLocks[p].Type, deadline |-> 0]]
  /\ UNCHANGED <<pathLocks, clock, cleanerVars>>
  /\ Settle

\* Faulty variant: a shared lock is left to its other readers, who are not
\* counted.
UnlockLoad_KeepsRead(c, p) ==
  /\ pc[c] = "idle"
  /\ holds' = [holds EXCEPT ![c] = @ \ {p}]
  /\ writes' = [writes EXCEPT ![c] = @ \ {p}]
  /\ IF Locked(p) /\ pathLocks[p].Owner = OwnerOf[c] /\ pathLocks[p].Type # "Read"
       THEN /\ pc' = [pc EXCEPT ![c] = "deleting"]
            /\ req' = [req EXCEPT ![c] =
                         [path |-> p, type |-> pathLocks[p].Type, deadline |-> 0]]
       ELSE UNCHANGED <<pc, req>>
  /\ UNCHANGED <<pathLocks, clock, cleanerVars>>
  /\ Settle

UnlockLoad(c, p) ==
  /\ pc[c] = "idle"
  /\ holds' = [holds EXCEPT ![c] = @ \ {p}]
  /\ writes' = [writes EXCEPT ![c] = @ \ {p}]
  /\ IF Locked(p) /\ pathLocks[p].Owner = OwnerOf[c]
       THEN /\ pc' = [pc EXCEPT ![c] = "deleting"]
            /\ req' = [req EXCEPT ![c] =
                         [path |-> p, type |-> pathLocks[p].Type, deadline |-> 0]]
       ELSE UNCHANGED <<pc, req>>
  /\ UNCHANGED <<pathLocks, clock, cleanerVars>>
  /\ Settle

UnlockDelete(c) ==
  /\ pc[c] = "deleting"
  /\ pathLocks' = [pathLocks EXCEPT ![req[c].path] = NoLock]
  /\ pc' = [pc EXCEPT ![c] = "idle"]
  /\ req' = [req EXCEPT ![c] = NoReq]
  /\ UNCHANGED <<clock, cleanerVars, holds, writes>>
  /\ Settle

(***************************************************************************)
(* The cleanup goroutine: on each tick a Range over the map.               *)
(***************************************************************************)
Start ==
  /\ cleaner = "off"
  /\ cleaner' = "on"
  /\ UNCHANGED <<pathLocks, clock, pc, req, sweep, cleanNow, doomed, stopped,
                 holds, writes, overrun>>

\* close(cleanupCh); the metadata manager stops the lock manager once.
Stop ==
  /\ ~stopped
  /\ stopped' = TRUE
  /\ UNCHANGED <<pathLocks, clock, pc, req, sweep, cleanNow, doomed, cleaner,
                 holds, writes, overrun>>

CleanupIdle == cleaner = "on" /\ sweep = {} /\ doomed = NoPath

\* Faulty variant: "now" is read once, before the loop.
CleanupTick_StaleNow ==
  /\ CleanupIdle
  /\ sweep' = {p \in Paths : Locked(p)}
  /\ UNCHANGED <<pathLocks, clock, pc, req, cleanNow, doomed, cleaner, stopped,
                 holds, writes, overrun>>

CleanupTick ==
  /\ CleanupIdle
  /\ cleanNow' = clock
  /\ sweep' = {p \in Paths : Locked(p)}
  /\ UNCHANGED <<pathLocks, clock, pc, req, doomed, cleaner, stopped, holds, writes,
                 overrun>>

\* The Range function sees the value the key has when it is visited.
CleanupVisit(p) ==
  /\ cleaner = "on"
  /\ doomed = NoPath
  /\ p \in sweep
  /\ sweep' = sweep \ {p}
  /\ doomed' = IF Locked(p) /\ IsExpired(pathLocks[p], cleanNow) THEN p ELSE NoPath
  /\ UNCHANGED <<pathLocks, clock, pc, req, cleanNow, cleaner, stopped, holds, writes,
                 overrun>>

CleanupDelete ==
  /\ doomed # NoPath
  /\ pathLocks' = [pathLocks EXCEPT ![doomed] = NoLock]
  /\ doomed' = NoPath
  /\ UNCHANGED <<clock, pc, req, sweep, cleanNow, cleaner, stopped, holds, writes>>
  /\ Settle

\* select picks the closed cleanupCh.
CleanupExit ==
  /\ CleanupIdle
  /\ stopped
  /\ cleaner' = "done"
  /\ UNCHANGED <<pathLocks, clock, pc, req, sweep, cleanNow, doomed, stopped,
                 holds, writes, overrun>>

Tick ==
  /\ clock < MaxClock
  /\ clock' = clock + 1
  /\ overrun' = overrun \union
                  {p \in Paths : Locked(p) /\ Overstayed(pathLocks[p], clock + 1)}
  /\ UNCHANGED <<pathLocks, pc, req, cleanerVars, holds, writes>>

Client(c) ==
  \/ \E p \in Paths, t \in LockTypes : LockCall(c, p, t)
  \/ TryStore(c) \/ TryJoin(c) \/ TryFail(c) \/ Retry(c) \/ CtxDone(c)
  \/ \E p \in Paths : UnlockLoad(c, p)
  \/ UnlockDelete(c)

CleanupPass ==
  \/ CleanupTick
  \/ \E p \in Paths : CleanupVisit(p)
  \/ CleanupDelete

Cleanup == CleanupPass \/ CleanupExit

Next ==
  \/ \E c \in Clients : Client(c)
  \/ Start \/ Stop \/ Cleanup \/ Tick

Spec == Init /\ [][Next]_vars

(***************************************************************************)
(* Fairness.  A goroutine inside Lock or Unlock is scheduled; the retry    *)
(* timer and the cleanup ticker fire; time passes.  Nobody is obliged to   *)
(* call Lock, Unlock, Start or Stop, or to cancel a context.               *)
(***************************************************************************)
Trying(c) == TryStore(c) \/ TryJoin(c) \/ TryFail(c)

Fairness ==
  /\ \A c \in Clients : WF_vars(Trying(c)) /\ WF_vars(Retry(c)) /\ WF_vars(UnlockDelete(c))
  /\ WF_vars(CleanupPass) /\ WF_vars(Tick)

FairSpec == Spec /\ Fairness

-----------------------------------------------------------------------------
\* The shape of the state; a client has a request exactly while it is in a
\* call, and the cleanup is about to delete something only while it runs.
TypeOK ==
  /\ pathLocks \in [Paths -> LockInfo \union {NoLock}]
  /\ clock \in Nat
  /\ pc \in [Clients -> {"idle", "trying", "waiting", "deleting"}]
  /\ req \in [Clients -> Request \union {NoReq}]
  /\ \A c \in Clients : (pc[c] = "idle") <=> (req[c] = NoReq)
  /\ sweep \subseteq Paths
  /\ cleanNow \in Nat
  /\ doomed \in Paths \union {NoPath}
  /\ cleaner \in {"off", "on", "done"}
  /\ stopped \in BOOLEAN
  /\ holds \in [Clients -> SUBSET Paths]
  /\ writes \in [Clients -> SUBSET Paths]
  /\ overrun \subseteq Paths

\* The exclusion of a read-write lock: a goroutine that was granted a path with
\* any type but Read is the only one that believes to hold it, whatever Lock,
\* Unlock and the cleanup goroutine do meanwhile, as long as no lock on that
\* path was kept longer than lockTimeout since the path was last out of use.
\* Readers may share; that tryLock lets only one owner's readers share is a
\* restriction this property does not ask for.
WriterExcludesOthers ==
  DistinctOwners =>
    \A p \in Paths \ overrun : \A c, d \in Clients :
      p \in writes[c] /\ p \in holds[d] => c = d

\* The step of OnlyHolderReleases.
ReleaseByHolder ==
  DistinctOwners =>
    \A p \in Paths \ overrun :
      Locked(p) /\ pathLocks'[p] # pathLocks[p]
        => \E c \in Clients : /\ pc[c] = "deleting" /\ pc'[c] = "idle"
                              /\ req[c].path = p
                              /\ pathLocks[p].by = c

\* While locks are kept shorter than lockTimeout, an entry leaves the map only
\* because the goroutine that created it calls Unlock: neither the two-step
\* Unlock of another goroutine nor the cleanup takes a lock away.
OnlyHolderReleases == [][ReleaseByHolder]_vars

\* The refinement mapping: who believes to hold a path, who to hold it for
\* more than reading, and whether the map has an entry for it, as long as the
\* path has not overrun.
HoldersOf(p) == {c \in Clients : p \in holds[c]}
WritersOf(p) == {c \in Clients : p \in writes[c]}

Service == INSTANCE LockService WITH
  holders <- [p \in Paths |-> IF p \in overrun THEN {} ELSE HoldersOf(p)],
  writers <- [p \in Paths |-> IF p \in overrun THEN {} ELSE WritersOf(p)],
  kept    <- {p \in Paths \ overrun : Locked(p)},
  lapsed  <- overrun

\* Goroutines with owner identifiers of their own see a read-write lock
\* service: Lock grants a path for writing only when it is free, for reading
\* only when nobody writes, Unlock takes it back from a client that has it, its
\* entry leaves the map only when the last client has given it back, and an
\* entry nobody holds any more cannot be joined.
RefinesLockService == Service!Spec

\* A lock whose holder never unlocks is removed once it is older than
\* lockTimeout, provided the cleanup runs and is not stopped.
AbandonedLockReclaimed ==
  \A p \in Paths :
    (cleaner = "on" /\ Locked(p) /\ Overstayed(pathLocks[p], clock))
      ~> (stopped \/ ~Locked(p) \/ ~Overstayed(pathLocks[p], clock))

\* A call of Lock returns, granted or with an error, even when the path is
\* never released: the deadline ends the retry loop.
LockCallReturns ==
  \A c \in Clients : (pc[c] \in {"trying", "waiting"}) ~> (pc[c] = "idle")
=============================================================================
