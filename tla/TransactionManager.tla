------------------------- MODULE TransactionManager -------------------------
(***************************************************************************)
(* The metadata transaction manager                                        *)
(* (internal/metaserver/core/metadata/transaction/manager.go) with its two *)
(* callers: WithTransaction, and the HTTP middleware that wraps every write *)
(* request (internal/metaserver/server/middleware/transaction.go).         *)
(*                                                                         *)
(* txMap is a sync.Map, and the fields of a Transaction are read and       *)
(* written without any lock by the request goroutine, the cleanup          *)
(* goroutine and Stop.  Each use of sql.Tx is a step of its own, and so is *)
(* each later assignment to State.  sql.Tx is external: it is decided once *)
(* and answers ErrTxDone from then on, and database/sql rolls it back when *)
(* the context it was begun with ends.                                     *)
(*                                                                         *)
(* A request is one goroutine that runs one transaction; its transaction   *)
(* goes by the same name.                                                  *)
(***************************************************************************)
EXTENDS Integers

CONSTANTS FnRequests,  \* callers of WithTransaction
          MwRequests,  \* write requests that go through the middleware
          Timeout,     \* txTimeout, in clock units
          MaxClock     \* bound on the clock

Requests == FnRequests \union MwRequests
NoTx     == "no transaction"

ASSUME RequestAssumption == FnRequests \intersect MwRequests = {} /\ NoTx \notin Requests
ASSUME TimeAssumption    == Timeout \in Nat /\ MaxClock \in Nat

VARIABLES txMap,    \* requests whose Transaction is in txMap
          State,    \* Transaction.State; "none" before Begin
          start,    \* Transaction.StartTime
          sqlTx,    \* the sql.Tx: none, open, committed, rolledback, or unknown when
                    \* the driver failed while it committed
          pc,       \* where each request is
          cont,     \* where a request goes on after Rollback returns
          told,     \* what its caller or HTTP client was told: none, ok, error
          clock,    \* time.Now()
          cleaner,  \* life cycle of the cleanup goroutine
          sweep,    \* entries its current Range has not visited
          cleanNow, \* the "now" of the current Range, 0 outside it
          victim,   \* the transaction whose State it is about to overwrite
          stop,     \* progress of Stop: no, sweeping, done
          stopLeft, \* entries the Range of Stop has still to visit
          atStop    \* history: active entries when Stop began

cleanerVars == <<cleaner, sweep, cleanNow, victim>>
stopVars    == <<stop, stopLeft, atStop>>
vars == <<txMap, State, start, sqlTx, pc, cont, told, clock,
          cleanerVars, stopVars>>

Positions == {"new", "storing", "running", "commit", "committing", "commitSet",
              "abortSet", "rollback", "rollingback", "rollbackSet", "deferred", "done"}

Init ==
  /\ txMap = {}
  /\ State = [r \in Requests |-> "none"]
  /\ start = [r \in Requests |-> 0]
  /\ sqlTx = [r \in Requests |-> "none"]
  /\ pc = [r \in Requests |-> "new"]
  /\ cont = [r \in Requests |-> "done"]
  /\ told = [r \in Requests |-> "none"]
  /\ clock = 0
  /\ cleaner = "off" /\ sweep = {} /\ cleanNow = 0 /\ victim = NoTx
  /\ stop = "no" /\ stopLeft = {} /\ atStop = {}

Goto(r, l)   == pc' = [pc EXCEPT ![r] = l]
Decide(r, o) == sqlTx' = [sqlTx EXCEPT ![r] = o]
Tell(r, a)   == told' = [told EXCEPT ![r] = a]

(***************************************************************************)
(* Begin: the database opens the sql.Tx; the entry is stored afterwards.   *)
(***************************************************************************)
BeginGetTx(r) ==
  /\ pc[r] = "new"
  /\ \/ Decide(r, "open") /\ Goto(r, "storing") /\ UNCHANGED told
     \/ Goto(r, "done") /\ Tell(r, "error") /\ UNCHANGED sqlTx
  /\ UNCHANGED <<txMap, State, start, cont, clock, cleanerVars, stopVars>>

\* Faulty variant: the start time is off by one.
BeginStore_WrongTime(r) ==
  /\ pc[r] = "storing"
  /\ txMap' = txMap \union {r}
  /\ State' = [State EXCEPT ![r] = "active"]
  /\ start' = [start EXCEPT ![r] = clock - 1]
  /\ Goto(r, "running")
  /\ UNCHANGED <<sqlTx, cont, told, clock, cleanerVars, stopVars>>

BeginStore(r) ==
  /\ pc[r] = "storing"
  /\ txMap' = txMap \union {r}
  /\ State' = [State EXCEPT ![r] = "active"]
  /\ start' = [start EXCEPT ![r] = clock]
  /\ Goto(r, "running")
  /\ UNCHANGED <<sqlTx, cont, told, clock, cleanerVars, stopVars>>

\* WithTransaction: fn returns nil, returns an error, or panics; a panic goes
\* straight to the deferred function.
FnReturns(r) ==
  /\ r \in FnRequests
  /\ pc[r] = "running"
  /\ \/ Goto(r, "commit") /\ UNCHANGED <<cont, told>>
     \/ Goto(r, "rollback") /\ cont' = [cont EXCEPT ![r] = "deferred"] /\ Tell(r, "error")
     \/ Goto(r, "deferred") /\ Tell(r, "error") /\ UNCHANGED cont
  /\ UNCHANGED <<txMap, State, start, sqlTx, clock, cleanerVars, stopVars>>

\* The middleware: the wrapped handler has run.  With a status of 200 to 399
\* the transaction is committed; the response may already be on the wire (the
\* recorder passes WriteHeader through).  Any other status, or a panic: the
\* middleware returns and neither commits nor rolls back.
HandlerReturns(r) ==
  /\ r \in MwRequests
  /\ pc[r] = "running"
  /\ \/ Goto(r, "commit") /\ \E a \in {"none", "ok"} : Tell(r, a)
     \/ Goto(r, "done") /\ Tell(r, "error")
  /\ UNCHANGED <<txMap, State, start, sqlTx, cont, clock, cleanerVars, stopVars>>

(***************************************************************************)
(* Commit.                                                                 *)
(***************************************************************************)
\* What a caller does with the answer of Commit.  WithTransaction returns it
\* through its deferred function.  The middleware answers an error with
\* http.Error, which comes too late for a response already written; after a
\* successful Commit it calls Rollback.
AfterCommit(r, answer) ==
  IF r \in FnRequests
    THEN Goto(r, "deferred") /\ Tell(r, answer) /\ UNCHANGED cont
    ELSE /\ Tell(r, IF told[r] = "ok" THEN "ok" ELSE answer)
         /\ Goto(r, IF answer = "ok" THEN "rollback" ELSE "done")
         /\ cont' = [cont EXCEPT ![r] = "done"]

CommitCheck(r) ==
  /\ pc[r] = "commit"
  /\ IF r \in txMap /\ State[r] = "active"
       THEN Goto(r, "committing") /\ UNCHANGED <<cont, told>>
       ELSE AfterCommit(r, "error")
  /\ UNCHANGED <<txMap, State, start, sqlTx, clock, cleanerVars, stopVars>>

\* Faulty variant: the error of sql.Tx.Commit is ignored.
CommitTx_ErrorIgnored(r) ==
  /\ pc[r] = "committing"
  /\ Goto(r, "commitSet")
  /\ sqlTx' = [sqlTx EXCEPT ![r] = IF @ = "open" THEN "committed" ELSE @]
  /\ UNCHANGED <<txMap, State, start, cont, told, clock, cleanerVars, stopVars>>

\* sql.Tx.Commit: it commits, or fails in the driver, in which case the
\* database may have done either, or answers ErrTxDone.
CommitTx(r) ==
  /\ pc[r] = "committing"
  /\ \/ sqlTx[r] = "open" /\ Decide(r, "committed") /\ Goto(r, "commitSet")
     \/ sqlTx[r] = "open" /\ Decide(r, "unknown") /\ Goto(r, "abortSet")
     \/ sqlTx[r] # "open" /\ Goto(r, "abortSet") /\ UNCHANGED sqlTx
  /\ UNCHANGED <<txMap, State, start, cont, told, clock, cleanerVars, stopVars>>

CommitSet(r) ==
  /\ pc[r] = "commitSet"
  /\ State' = [State EXCEPT ![r] = "committed"]
  /\ txMap' = txMap \ {r}
  /\ AfterCommit(r, "ok")
  /\ UNCHANGED <<start, sqlTx, clock, cleanerVars, stopVars>>

\* After a failed commit the entry stays in txMap.
AbortSet(r) ==
  /\ pc[r] = "abortSet"
  /\ State' = [State EXCEPT ![r] = "aborted"]
  /\ AfterCommit(r, "error")
  /\ UNCHANGED <<txMap, start, sqlTx, clock, cleanerVars, stopVars>>

(***************************************************************************)
(* Rollback, and the deferred function of WithTransaction.                 *)
(***************************************************************************)
RollbackCheck(r) ==
  /\ pc[r] = "rollback"
  /\ Goto(r, IF r \in txMap /\ State[r] = "active" THEN "rollingback" ELSE cont[r])
  /\ UNCHANGED <<txMap, State, start, sqlTx, cont, told, clock, cleanerVars, stopVars>>

\* Faulty variant: the entry is dropped without rolling the sql.Tx back.
RollbackTx_Forgotten(r) ==
  /\ pc[r] = "rollingback"
  /\ Goto(r, "rollbackSet")
  /\ UNCHANGED <<txMap, State, start, sqlTx, cont, told, clock, cleanerVars, stopVars>>

\* On an error (ErrTxDone, or the driver fails and the connection is dropped)
\* the State stays active and the entry stays in txMap.
RollbackTx(r) ==
  /\ pc[r] = "rollingback"
  /\ \/ sqlTx[r] = "open" /\ Decide(r, "rolledback")
        /\ (Goto(r, "rollbackSet") \/ Goto(r, cont[r]))
     \/ sqlTx[r] # "open" /\ Goto(r, cont[r]) /\ UNCHANGED sqlTx
  /\ UNCHANGED <<txMap, State, start, cont, told, clock, cleanerVars, stopVars>>

RollbackSet(r) ==
  /\ pc[r] = "rollbackSet"
  /\ State' = [State EXCEPT ![r] = "aborted"]
  /\ txMap' = txMap \ {r}
  /\ Goto(r, cont[r])
  /\ UNCHANGED <<start, sqlTx, cont, told, clock, cleanerVars, stopVars>>

\* Faulty variant: the deferred function does not roll back.
Deferred_NoRollback(r) ==
  /\ pc[r] = "deferred"
  /\ cont' = [cont EXCEPT ![r] = "done"]
  /\ Goto(r, "done")
  /\ UNCHANGED <<txMap, State, start, sqlTx, told, clock, cleanerVars, stopVars>>

Deferred(r) ==
  /\ pc[r] = "deferred"
  /\ cont' = [cont EXCEPT ![r] = "done"]
  /\ Goto(r, IF State[r] = "active" THEN "rollback" ELSE "done")
  /\ UNCHANGED <<txMap, State, start, sqlTx, told, clock, cleanerVars, stopVars>>

\* External: the context ends (the client goes away, the caller cancels, or
\* net/http cancels it after the handler), and database/sql rolls back.
CtxEnd(r) ==
  /\ sqlTx[r] = "open"
  /\ Decide(r, "rolledback")
  /\ UNCHANGED <<txMap, State, start, pc, cont, told, clock, cleanerVars, stopVars>>

(***************************************************************************)
(* The cleanup goroutine.  Looking at State and calling sql.Tx.Rollback    *)
(* are one step, because Rollback has no effect on a decided sql.Tx;       *)
(* overwriting State is a later one.                                       *)
(***************************************************************************)
requestVars == <<pc, cont, told>>

Start ==
  /\ cleaner = "off"
  /\ cleaner' = "on"
  /\ UNCHANGED <<txMap, State, start, sqlTx, requestVars, clock, sweep, cleanNow, victim, stopVars>>

CleanupIdle == cleaner = "on" /\ sweep = {} /\ victim = NoTx

CleanupTick ==
  /\ CleanupIdle
  /\ sweep' = txMap
  /\ cleanNow' = IF txMap = {} THEN 0 ELSE clock
  /\ UNCHANGED <<txMap, State, start, sqlTx, requestVars, clock, cleaner, victim, stopVars>>

Expired(r, now) == now - start[r] > Timeout

\* Faulty variant: an expired transaction is marked but not rolled back.
CleanupVisit_NoRollback(r) ==
  /\ r \in sweep /\ victim = NoTx
  /\ sweep' = sweep \ {r}
  /\ cleanNow' = IF sweep' = {} THEN 0 ELSE cleanNow
  /\ victim' = IF r \in txMap /\ State[r] = "active" /\ Expired(r, cleanNow) THEN r ELSE NoTx
  /\ UNCHANGED <<txMap, State, start, sqlTx, requestVars, clock, cleaner, stopVars>>

CleanupVisit(r) ==
  /\ r \in sweep /\ victim = NoTx
  /\ sweep' = sweep \ {r}
  /\ cleanNow' = IF sweep' = {} THEN 0 ELSE cleanNow
  /\ IF r \in txMap /\ State[r] = "active" /\ Expired(r, cleanNow)
       THEN /\ victim' = r
            /\ sqlTx' = [sqlTx EXCEPT ![r] = IF @ = "open" THEN "rolledback" ELSE @]
       ELSE UNCHANGED <<victim, sqlTx>>
  /\ UNCHANGED <<txMap, State, start, requestVars, clock, cleaner, stopVars>>

CleanupAbort ==
  /\ victim # NoTx
  /\ State' = [State EXCEPT ![victim] = "aborted"]
  /\ victim' = NoTx
  /\ UNCHANGED <<txMap, start, sqlTx, requestVars, clock, cleaner, sweep, cleanNow, stopVars>>

CleanupExit ==
  /\ CleanupIdle
  /\ stop # "no"
  /\ cleaner' = "done"
  /\ UNCHANGED <<txMap, State, start, sqlTx, requestVars, clock, sweep, cleanNow, victim, stopVars>>

(***************************************************************************)
(* Stop: close cleanupCh, then a Range that rolls back the active ones.    *)
(* An entry stored during the Range may be visited or missed.              *)
(***************************************************************************)
StopBegin ==
  /\ stop = "no"
  /\ stop' = "sweeping"
  /\ stopLeft' = txMap
  /\ atStop' = {r \in txMap : State[r] = "active"}
  /\ UNCHANGED <<txMap, State, start, sqlTx, requestVars, clock, cleanerVars>>

\* Faulty variant: only transactions that have timed out are rolled back.
StopVisit_ExpiredOnly(r) ==
  /\ stop = "sweeping"
  /\ r \in stopLeft \union txMap
  /\ stopLeft' = stopLeft \ {r}
  /\ sqlTx' = [sqlTx EXCEPT ![r] =
       IF State[r] = "active" /\ @ = "open" /\ Expired(r, clock) THEN "rolledback" ELSE @]
  /\ UNCHANGED <<txMap, State, start, requestVars, clock, cleanerVars, stop, atStop>>

StopVisit(r) ==
  /\ stop = "sweeping"
  /\ r \in stopLeft \union txMap
  /\ stopLeft' = stopLeft \ {r}
  /\ sqlTx' = [sqlTx EXCEPT ![r] =
       IF State[r] = "active" /\ @ = "open" THEN "rolledback" ELSE @]
  /\ UNCHANGED <<txMap, State, start, requestVars, clock, cleanerVars, stop, atStop>>

StopEnd ==
  /\ stop = "sweeping" /\ stopLeft = {}
  /\ stop' = "done"
  /\ UNCHANGED <<txMap, State, start, sqlTx, requestVars, clock, cleanerVars, stopLeft, atStop>>

Tick ==
  /\ clock < MaxClock
  /\ clock' = clock + 1
  /\ UNCHANGED <<txMap, State, start, sqlTx, requestVars, cleanerVars, stopVars>>

\* The steps a request goroutine takes by itself once it is in Begin or once
\* the work of the transaction is done.
Manager(r) ==
  \/ BeginStore(r)
  \/ CommitCheck(r) \/ CommitTx(r) \/ CommitSet(r) \/ AbortSet(r)
  \/ RollbackCheck(r) \/ RollbackTx(r) \/ RollbackSet(r) \/ Deferred(r)

Request(r) ==
  \/ BeginGetTx(r) \/ FnReturns(r) \/ HandlerReturns(r)
  \/ Manager(r)

CleanupPass == CleanupTick \/ (\E r \in Requests : CleanupVisit(r)) \/ CleanupAbort

Cleanup == CleanupPass \/ CleanupExit

Stop == StopBegin \/ (\E r \in Requests : StopVisit(r)) \/ StopEnd

Next ==
  \/ \E r \in Requests : Request(r) \/ CtxEnd(r)
  \/ Start \/ Cleanup \/ Stop \/ Tick

Spec == Init /\ [][Next]_vars

(***************************************************************************)
(* Fairness: request goroutines inside the manager run on, the cleanup     *)
(* ticker fires, and time passes.  fn and the HTTP handlers need not       *)
(* return, and a context need not end.                                     *)
(***************************************************************************)
Fairness ==
  /\ \A r \in Requests : WF_vars(Manager(r))
  /\ WF_vars(CleanupPass) /\ WF_vars(Tick)

FairSpec == Spec /\ Fairness

-----------------------------------------------------------------------------
\* The shape of the state.
TypeOK ==
  /\ txMap \subseteq Requests
  /\ State \in [Requests -> {"none", "active", "committed", "aborted"}]
  /\ start \in [Requests -> Nat]
  /\ sqlTx \in [Requests -> {"none", "open", "committed", "rolledback", "unknown"}]
  /\ pc \in [Requests -> Positions]
  /\ cont \in [Requests -> {"deferred", "done"}]
  /\ told \in [Requests -> {"none", "ok", "error"}]
  /\ clock \in Nat /\ cleanNow \in Nat
  /\ cleaner \in {"off", "on", "done"}
  /\ sweep \subseteq Requests
  /\ victim \in Requests \union {NoTx}
  /\ stop \in {"no", "sweeping", "done"}
  /\ stopLeft \subseteq Requests /\ atStop \subseteq Requests

\* WithTransaction answers truthfully, whatever the cleanup, Stop or a
\* cancelled context do at the same time: nil means the database committed,
\* an error means it did not (unless the driver failed in Commit).
AnswerIsTruth ==
  \A r \in FnRequests :
    /\ told[r] = "ok" => sqlTx[r] = "committed"
    /\ told[r] = "error" => sqlTx[r] # "committed"

\* No sql.Tx is orphaned: the manager forgets a transaction, or stops calling
\* it active, only after the database has decided it.
ForgottenOnlyDecided ==
  \A r \in Requests :
    sqlTx[r] = "open" /\ pc[r] \notin {"new", "storing"}
      => r \in txMap /\ State[r] = "active"

\* Stop rolls back all active transactions ("回滚所有活跃事务"): of those active
\* when it was called none is open when it returns, even if their requests
\* commit or roll back meanwhile.
StopDecidesActive ==
  stop = "done" => \A r \in atStop : sqlTx[r] # "open"

\* A transaction older than its timeout does not stay open even if its request
\* never returns, provided the cleanup runs and is not stopped.  It may still
\* be its own request that decides it: Commit does not look at the age, so a
\* commit that comes after the timeout and before the cleanup succeeds.
ExpiredIsDecided ==
  \A r \in Requests :
    (cleaner = "on" /\ r \in txMap /\ sqlTx[r] = "open" /\ Expired(r, clock))
      ~> (sqlTx[r] # "open" \/ stop # "no")

\* Once fn has returned or panicked, WithTransaction leaves the transaction
\* decided: the explicit calls and the deferred one cover every path.
ReturnDecides ==
  \A r \in FnRequests :
    (pc[r] \in {"commit", "rollback", "deferred"}) ~> (pc[r] = "done" /\ sqlTx[r] # "open")
=============================================================================
