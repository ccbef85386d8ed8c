--------------------- MODULE TransactionManager_proofs ---------------------
(***************************************************************************)
(* Proofs about TransactionManager, for any requests and timeouts.         *)
(*                                                                         *)
(* The fields of a transaction are written by three goroutines without a   *)
(* lock, and the properties are not inductive: that nobody forgets an open *)
(* sql.Tx rests on every writer of State having seen it decided first      *)
(* (DecidedFirst for the request, VictimDecided for the cleanup), and on   *)
(* nobody knowing a transaction that has not begun (KnownBegun).           *)
(***************************************************************************)
EXTENDS TransactionManager, TLAPS

Begun(r) == pc[r] \notin {"new", "storing"}

\* Where the answer of WithTransaction is still open.
Unanswered == {"new", "storing", "running", "commit", "committing", "commitSet", "abortSet"}

\* What the request goroutine knows of its sql.Tx at each position.
DecidedFirst ==
  \A r \in Requests :
    /\ pc[r] = "new" => sqlTx[r] = "none"
    /\ pc[r] \in {"new", "storing", "running", "commit", "committing"} => sqlTx[r] # "committed"
    /\ pc[r] = "commitSet" => sqlTx[r] = "committed"
    /\ pc[r] = "abortSet" => sqlTx[r] \notin {"open", "committed"}
    /\ pc[r] = "rollbackSet" => sqlTx[r] = "rolledback"

\* Whoever is in one of the manager's collections has begun.
KnownBegun ==
  \A r \in Requests :
    r \in txMap \/ r \in sweep \/ r \in stopLeft \/ r \in atStop \/ r = victim => Begun(r)

\* The cleanup overwrites the State of decided transactions only.
VictimDecided == victim # NoTx => sqlTx[victim] # "open"

\* WithTransaction answers last.
AnsweredLate ==
  \A r \in FnRequests : pc[r] \in Unanswered => told[r] = "none"

\* The Range of Stop leaves only decided transactions behind it.
StopProgress ==
  /\ stop = "no" => atStop = {}
  /\ stop = "done" => stopLeft = {}
  /\ \A r \in atStop : r \in stopLeft \/ sqlTx[r] # "open"

TxInv ==
  /\ TypeOK
  /\ DecidedFirst /\ KnownBegun /\ VictimDecided /\ AnsweredLate /\ StopProgress
  /\ ForgottenOnlyDecided /\ AnswerIsTruth

-----------------------------------------------------------------------------
LEMMA TypeInit == Init => TypeOK
BY TimeAssumption DEF Init, TypeOK, Positions

LEMMA TypeStep == ASSUME TypeOK, [Next]_vars PROVE TypeOK'
<1> USE DEF TypeOK
<1>1. CASE UNCHANGED vars
  BY <1>1 DEF vars, cleanerVars, stopVars
<1>2. ASSUME NEW r \in Requests, BeginGetTx(r) PROVE TypeOK'
  BY <1>2 DEF BeginGetTx, Decide, Goto, Tell, Positions, cleanerVars, stopVars
<1>3. ASSUME NEW r \in Requests, BeginStore(r) PROVE TypeOK'
  BY <1>3 DEF BeginStore, Goto, Positions, cleanerVars, stopVars
<1>4. ASSUME NEW r \in Requests, FnReturns(r) PROVE TypeOK'
  BY <1>4 DEF FnReturns, Goto, Tell, Positions, cleanerVars, stopVars
<1>5. ASSUME NEW r \in Requests, HandlerReturns(r) PROVE TypeOK'
  BY <1>5 DEF HandlerReturns, Goto, Tell, Positions, cleanerVars, stopVars
<1>6. ASSUME NEW r \in Requests, NEW a \in {"ok", "error"}, AfterCommit(r, a)
      PROVE  /\ pc' \in [Requests -> Positions] /\ cont' \in [Requests -> {"deferred", "done"}]
             /\ told' \in [Requests -> {"none", "ok", "error"}]
  BY <1>6 DEF AfterCommit, Goto, Tell, Positions
<1>7. ASSUME NEW r \in Requests, CommitCheck(r) PROVE TypeOK'
  <2>1. CASE AfterCommit(r, "error")
    BY <1>6, <1>7, <2>1 DEF CommitCheck, cleanerVars, stopVars
  <2>2. CASE Goto(r, "committing") /\ UNCHANGED <<cont, told>>
    BY <1>7, <2>2 DEF CommitCheck, Goto, Positions, cleanerVars, stopVars
  <2> QED BY <1>7, <2>1, <2>2 DEF CommitCheck
<1>8. ASSUME NEW r \in Requests, CommitTx(r) PROVE TypeOK'
  BY <1>8 DEF CommitTx, Decide, Goto, Positions, cleanerVars, stopVars
<1>9. ASSUME NEW r \in Requests, CommitSet(r) PROVE TypeOK'
  BY <1>6, <1>9 DEF CommitSet, cleanerVars, stopVars
<1>10. ASSUME NEW r \in Requests, AbortSet(r) PROVE TypeOK'
  BY <1>6, <1>10 DEF AbortSet, cleanerVars, stopVars
<1>11. ASSUME NEW r \in Requests, RollbackCheck(r) PROVE TypeOK'
  BY <1>11 DEF RollbackCheck, Goto, Positions, cleanerVars, stopVars
<1>12. ASSUME NEW r \in Requests, RollbackTx(r) PROVE TypeOK'
  BY <1>12 DEF RollbackTx, Decide, Goto, Positions, cleanerVars, stopVars
<1>13. ASSUME NEW r \in Requests, RollbackSet(r) PROVE TypeOK'
  BY <1>13 DEF RollbackSet, Goto, Positions, cleanerVars, stopVars
<1>14. ASSUME NEW r \in Requests, Deferred(r) PROVE TypeOK'
  BY <1>14 DEF Deferred, Goto, Positions, cleanerVars, stopVars
<1>15. ASSUME NEW r \in Requests, CtxEnd(r) PROVE TypeOK'
  BY <1>15 DEF CtxEnd, Decide, cleanerVars, stopVars
<1>16. CASE Start \/ CleanupTick \/ CleanupExit
  BY <1>16 DEF Start, CleanupTick, CleanupExit, requestVars, stopVars
<1>17. ASSUME NEW r \in Requests, CleanupVisit(r) PROVE TypeOK'
  BY <1>17 DEF CleanupVisit, requestVars, stopVars
<1>18. CASE CleanupAbort
  BY <1>18 DEF CleanupAbort, requestVars, stopVars
<1>19. CASE StopBegin \/ StopEnd
  BY <1>19 DEF StopBegin, StopEnd, requestVars, cleanerVars
<1>20. ASSUME NEW r \in Requests, StopVisit(r) PROVE TypeOK'
  BY <1>20 DEF StopVisit, requestVars, cleanerVars
<1>21. CASE Tick
  BY <1>21 DEF Tick, requestVars, cleanerVars, stopVars
<1> HIDE DEF TypeOK
<1> QED BY <1>1, <1>2, <1>3, <1>4, <1>5, <1>7, <1>8, <1>9, <1>10, <1>11, <1>12, <1>13, <1>14,
           <1>15, <1>16, <1>17, <1>18, <1>19, <1>20, <1>21
        DEF Next, Request, Manager, Cleanup, CleanupPass, Stop

\* Every state of the transaction manager has the declared shape.
THEOREM TypeCorrect == Spec => []TypeOK
BY TypeInit, TypeStep, PTL DEF Spec

-----------------------------------------------------------------------------
LEMMA InvInit == Init => TxInv
BY TypeInit, RequestAssumption
   DEF Init, TxInv, DecidedFirst, KnownBegun, VictimDecided, AnsweredLate, StopProgress,
       ForgottenOnlyDecided, AnswerIsTruth, Begun, Unanswered, Requests

\* A step of a request goroutine, or the end of its context.
LEMMA RequestStep ==
  ASSUME TxInv, NEW r \in Requests, Request(r) \/ CtxEnd(r)
  PROVE  TxInv'
<1>0. TypeOK'
  BY TypeStep DEF TxInv, Next
<1>. USE <1>0, RequestAssumption DEF TxInv, TypeOK, DecidedFirst, KnownBegun, VictimDecided, AnsweredLate, StopProgress, ForgottenOnlyDecided, AnswerIsTruth, Begun, Unanswered, Requests, cleanerVars, stopVars
<1>1. CASE BeginGetTx(r)
  BY <1>1 DEF BeginGetTx, Decide, Goto, Tell
<1>2. CASE BeginStore(r)
  BY <1>2 DEF BeginStore, Goto
<1>3. CASE FnReturns(r)
  BY <1>3 DEF FnReturns, Goto, Tell
<1>4. CASE HandlerReturns(r)
  BY <1>4 DEF HandlerReturns, Goto, Tell
<1>5. CASE CommitCheck(r)
  BY <1>5 DEF CommitCheck, AfterCommit, Goto, Tell
<1>6. CASE CommitTx(r)
  BY <1>6 DEF CommitTx, Decide, Goto
<1>7. CASE CommitSet(r)
  BY <1>7 DEF CommitSet, AfterCommit, Goto, Tell
<1>8. CASE AbortSet(r)
  BY <1>8 DEF AbortSet, AfterCommit, Goto, Tell
<1>9. CASE RollbackCheck(r)
  BY <1>9 DEF RollbackCheck, Goto
<1>10. CASE RollbackTx(r)
  BY <1>10 DEF RollbackTx, Decide, Goto
<1>11. CASE RollbackSet(r)
  BY <1>11 DEF RollbackSet, Goto
<1>12. CASE Deferred(r)
  BY <1>12 DEF Deferred, Goto
<1>13. CASE CtxEnd(r)
  BY <1>13 DEF CtxEnd, Decide
<1> HIDE DEF TxInv
<1> QED BY <1>1, <1>2, <1>3, <1>4, <1>5, <1>6, <1>7, <1>8, <1>9, <1>10, <1>11, <1>12, <1>13 DEF Request, Manager

\* A step of the cleanup goroutine, of Stop, or of the clock.
LEMMA ManagerStep ==
  ASSUME TxInv, Start \/ Cleanup \/ Stop \/ Tick
  PROVE  TxInv'
<1>0. TypeOK'
  BY TypeStep DEF TxInv, Next
<1>. USE <1>0, RequestAssumption
     DEF TxInv, TypeOK, DecidedFirst, KnownBegun, VictimDecided, AnsweredLate, StopProgress,
         ForgottenOnlyDecided, AnswerIsTruth, Begun, Unanswered, Requests,
         requestVars, cleanerVars, stopVars
<1>1. CASE Start
  BY <1>1 DEF Start
<1>2. CASE CleanupTick
  BY <1>2 DEF CleanupTick
<1>3. ASSUME NEW r \in Requests, CleanupVisit(r) PROVE TxInv'
  BY <1>3 DEF CleanupVisit
<1>4. CASE CleanupAbort
  BY <1>4 DEF CleanupAbort
<1>5. CASE CleanupExit
  BY <1>5 DEF CleanupExit
<1>6. CASE StopBegin
  BY <1>6 DEF StopBegin
<1>7. ASSUME NEW r \in Requests, StopVisit(r) PROVE TxInv'
  BY <1>7 DEF StopVisit
<1>8. CASE StopEnd
  BY <1>8 DEF StopEnd
<1>9. CASE Tick
  BY <1>9 DEF Tick
<1> HIDE DEF TxInv
<1> QED BY <1>1, <1>2, <1>3, <1>4, <1>5, <1>6, <1>7, <1>8, <1>9 DEF Cleanup, CleanupPass, Stop

LEMMA Invariance == Spec => []TxInv
<1>1. ASSUME TxInv, [Next]_vars PROVE TxInv'
  <2>1. CASE UNCHANGED vars
    BY <1>1, <2>1
       DEF vars, cleanerVars, stopVars, TxInv, TypeOK, DecidedFirst, KnownBegun, VictimDecided,
           AnsweredLate, StopProgress, ForgottenOnlyDecided, AnswerIsTruth, Begun
  <2> QED BY <1>1, <2>1, RequestStep, ManagerStep DEF Next
<1> QED BY <1>1, InvInit, PTL DEF Spec

\* WithTransaction never lies to its caller, for any number of requests: nil
\* only after sql.Tx.Commit succeeded, an error only if the database has not
\* committed, though the cleanup, Stop and a cancelled context may decide the
\* same sql.Tx between its check of State and its call of Commit.
THEOREM Truthful == Spec => []AnswerIsTruth
BY Invariance, PTL DEF TxInv

\* Neither Commit, Rollback, the cleanup nor Stop ever drops an entry from
\* txMap, or marks it finished, while its sql.Tx is still open.
THEOREM NothingOrphaned == Spec => []ForgottenOnlyDecided
BY Invariance, PTL DEF TxInv

\* When Stop returns, every transaction that was active when it was called has
\* been decided, by Stop itself or by its own request.
THEOREM StopIsComplete == Spec => []StopDecidesActive
<1>1. TxInv => StopDecidesActive
  BY DEF TxInv, StopProgress, StopDecidesActive
<1> QED BY <1>1, Invariance, PTL
=============================================================================
