-------------------------- MODULE Database_proofs --------------------------
(***************************************************************************)
(* Proofs about Database, for any processes, migrators and lists of        *)
(* migrations.                                                             *)
(*                                                                         *)
(* None of the four properties is inductive.  That a started core has its  *)
(* schema rests on what every start has reached so far (SchemaProgress),   *)
(* which survives because nothing is ever dropped.  That the migrations    *)
(* are applied once and on top of those before them in the list rests on   *)
(* the write lock: between the INSERT of a version and the commit nobody   *)
(* else records one (FreshVersion), and a migrator has all versions before *)
(* its position behind it, although it has read schema_migrations only     *)
(* once (SeenIsPast).                                                      *)
(***************************************************************************)
EXTENDS Database, SequenceTheorems, TLAPS

AllObjects == {Statements[i].object : i \in DOMAIN Statements}

\* How far a start has come, by phase.
HasSchema == {"insertRoot", "initSystemUser", "insertUser", "meta", "cluster", "running"}
HasRoot   == {"initSystemUser", "insertUser", "meta", "cluster", "running"}
HasUser   == {"meta", "cluster", "running"}
Starting  == {"schema", "insertRoot", "initSystemUser", "insertUser", "meta"}

MigState ==
  [phase : {"idle", "apply", "record", "commit"}, list : Seq(Versions),
   seen : SUBSET Versions, next : Nat \ {0}]
MigType == [Migrators -> MigState]

CoreType ==
  /\ objects \subseteq AllObjects
  /\ rows \subseteq {"root", "system"}
  /\ phase \in [Servers -> {"new", "failed", "stopping", "stopped", "schema"} \union HasSchema]
  /\ next \in [Servers -> Nat \ {0}]
  /\ conn \in [Servers -> {"nil", "open", "closed"}]
  /\ parts \in [Servers -> SUBSET {"lock", "tx", "ns", "cluster"}]

DBType ==
  /\ CoreType
  /\ recorded \subseteq Versions
  /\ applied \in Seq([list : Seq(Versions), at : Nat \ {0}])
  /\ mig \in MigType

\* The statements a start has executed have left their objects.
SchemaProgress ==
  \A s \in Servers :
    /\ phase[s] = "schema" =>
         \A i \in DOMAIN Statements : i < next[s] => Statements[i].object \in objects
    /\ phase[s] \in HasSchema => objects = AllObjects
    /\ phase[s] \in HasRoot => "root" \in rows
    /\ phase[s] \in HasUser => "system" \in rows

\* A connection is open from the start of the schema to Stop, and no part
\* runs before it.
OpenWhileUsed ==
  \A s \in Servers :
    /\ phase[s] \in Starting \union {"cluster", "running"} => conn[s] = "open"
    /\ phase[s] \in Starting \union {"new"} => parts[s] = {}

\* The transaction that commits is the only one that records its version.
FreshVersion ==
  \A g \in Migrators :
    /\ mig[g].phase \in {"record", "commit"} => Remaining(g)
    /\ mig[g].phase = "commit" /\ writer = g => Version(g) \notin recorded

\* A migrator has every version before its position behind it.
SeenIsPast ==
  \A g \in Migrators : mig[g].phase # "idle" =>
    /\ mig[g].seen \subseteq recorded
    /\ \A i \in 1..(mig[g].next - 1) : mig[g].list[i] \in recorded

DBInv ==
  /\ DBType
  /\ SchemaProgress /\ OpenWhileUsed /\ PartsOverDatabase
  /\ FreshVersion /\ SeenIsPast /\ MigratedExactlyOnce /\ EarlierOnesFirst

-----------------------------------------------------------------------------
\* The statements are a sequence.
LEMMA StatementsDomain ==
  /\ Len(Statements) \in Nat
  /\ DOMAIN Statements = 1..Len(Statements)
<1> DEFINE Elements(seq, n) == {seq[i] : i \in 1..n}
           St == Elements(ensureMigrationTable, 1) \union Elements(createTableStatements, 7)
                   \union Elements(createIndexStatements, 8)
<1>1. ensureMigrationTable \in Seq(Elements(ensureMigrationTable, 1))
  BY DEF ensureMigrationTable
<1>2. createTableStatements \in Seq(Elements(createTableStatements, 7))
  BY DEF createTableStatements
<1>3. createIndexStatements \in Seq(Elements(createIndexStatements, 8))
  BY DEF createIndexStatements
<1>4. Statements \in Seq(St)
  BY <1>1, <1>2, <1>3, SeqMonotonic DEF Statements
<1> QED BY <1>4

-----------------------------------------------------------------------------
LEMMA IdleType ==
  Idle \in MigState
BY DEF Idle, MigState

\* How the steps of a migrator change its state.
LEMMA MigUpdates ==
  ASSUME mig \in MigType, NEW g \in Migrators
  PROVE  /\ [mig EXCEPT ![g].next = @ + 1] \in MigType
         /\ [mig EXCEPT ![g].phase = "record"] \in MigType
         /\ [mig EXCEPT ![g].phase = "commit"] \in MigType
         /\ [mig EXCEPT ![g].phase = "apply", ![g].next = @ + 1] \in MigType
<1>1. mig[g] \in MigState
  BY DEF MigType
<1>2. /\ [mig[g] EXCEPT !.next = @ + 1] \in MigState
      /\ [mig[g] EXCEPT !.phase = "record"] \in MigState
      /\ [mig[g] EXCEPT !.phase = "commit"] \in MigState
      /\ [mig[g] EXCEPT !.phase = "apply", !.next = @ + 1] \in MigState
  <2> DEFINE S == Seq(Versions)
             V == SUBSET Versions
             N == Nat \ {0}
             R == [phase : {"idle", "apply", "record", "commit"}, list : S, seen : V, next : N]
  <2>1. MigState = R
    BY DEF MigState
  <2>2. \A n \in N : n + 1 \in N
    OBVIOUS
  <2> HIDE DEF S, V, N
  <2> QED BY <1>1, <2>1, <2>2
<1> QED BY <1>2 DEF MigType

\* The version at a migrator's position is one of the versions.
LEMMA VersionType ==
  ASSUME DBType, NEW g \in Migrators, Remaining(g)
  PROVE  Version(g) \in Versions
<1>1. mig[g].list \in Seq(Versions) /\ mig[g].next \in Nat \ {0}
  BY DEF DBType, MigType, MigState
<1>2. mig[g].next \in 1..Len(mig[g].list)
  BY <1>1 DEF Remaining
<1> QED BY <1>1, <1>2 DEF Version

LEMMA InvInit == Init => DBInv
<1> SUFFICES ASSUME Init PROVE DBInv
  OBVIOUS
<1> USE DEF Init
<1>2. DBType
  BY IdleType DEF DBType, CoreType, MigType
<1>3. SchemaProgress /\ OpenWhileUsed /\ PartsOverDatabase
  BY DEF SchemaProgress, OpenWhileUsed, PartsOverDatabase, HasSchema, HasRoot, HasUser, Starting
<1>4. \A g \in Migrators : mig[g].phase = "idle"
  BY DEF Idle
<1>5. FreshVersion /\ SeenIsPast
  BY <1>4 DEF FreshVersion, SeenIsPast
<1>6. MigratedExactlyOnce /\ EarlierOnesFirst
  BY DEF MigratedExactlyOnce, EarlierOnesFirst
<1> QED BY <1>2, <1>3, <1>5, <1>6 DEF DBInv

\* Stop only takes parts away.
LEMMA StoppingParts ==
  ASSUME NEW s \in Servers, Stop(s),
         parts \in [Servers -> SUBSET {"lock", "tx", "ns", "cluster"}]
  PROVE  /\ parts' \in [Servers -> SUBSET {"lock", "tx", "ns", "cluster"}]
         /\ \A t \in Servers : parts'[t] \subseteq parts[t]
<1>1. CASE UNCHANGED parts
  BY <1>1
<1>2. ASSUME NEW x, parts' = [parts EXCEPT ![s] = @ \ {x}]
      PROVE  /\ parts' \in [Servers -> SUBSET {"lock", "tx", "ns", "cluster"}]
             /\ \A t \in Servers : parts'[t] \subseteq parts[t]
  BY <1>2
<1> QED BY <1>1, <1>2 DEF Stop

LEMMA TypeStep ==
  ASSUME DBType, FreshVersion, [Next]_vars
  PROVE  DBType'
<1> USE DEF DBType, CoreType
<1>1. CASE UNCHANGED vars
  BY <1>1 DEF vars, dbVars, coreVars
<1>2. ASSUME NEW s \in Servers, Open(s) PROVE DBType'
  BY <1>2 DEF Open, Goto, dbVars
<1>3. ASSUME NEW s \in Servers, ExecStatement(s) PROVE DBType'
  <2>1. next[s] \in DOMAIN Statements
    BY <1>3, StatementsDomain DEF ExecStatement
  <2>2. Statements[next[s]].object \in AllObjects
    BY <2>1 DEF AllObjects
  <2>3. CASE CloseAndFail(s)
    BY <2>3 DEF CloseAndFail, Goto, dbVars
  <2>4. CASE ~CloseAndFail(s)
    <3>1. /\ objects' = objects \union {Statements[next[s]].object}
          /\ next' = [next EXCEPT ![s] = @ + 1]
          /\ UNCHANGED <<rows, recorded, applied, writer, phase, conn, parts, mig>>
      BY <1>3, <2>4 DEF ExecStatement
    <3> QED BY <2>2, <3>1
  <2> QED BY <2>3, <2>4
<1>4. ASSUME NEW s \in Servers, initRootDirectory(s) \/ initSystemUser(s) PROVE DBType'
  BY <1>4 DEF initRootDirectory, initSystemUser, CheckRow, InsertRow, CloseAndFail, Goto, dbVars, HasSchema
<1>5. ASSUME NEW s \in Servers, MetaStart(s) PROVE DBType'
  <2>1. phase' \in [Servers -> {"new", "failed", "stopping", "stopped", "schema"} \union HasSchema]
    BY <1>5 DEF MetaStart, Goto, HasSchema
  <2>2. parts' \in [Servers -> SUBSET {"lock", "tx", "ns", "cluster"}]
    <3> DEFINE P == SUBSET {"lock", "tx", "ns", "cluster"}
    <3>1. {"lock", "tx", "ns"} \in P /\ {"lock", "tx"} \in P
      OBVIOUS
    <3>2. parts \in [Servers -> P]
      OBVIOUS
    <3> HIDE DEF P
    <3>3. parts' \in [Servers -> P]
      BY <1>5, <3>1, <3>2 DEF MetaStart
    <3> QED BY <3>3 DEF P
  <2> QED BY <1>5, <2>1, <2>2 DEF MetaStart, dbVars
<1>6. ASSUME NEW s \in Servers, Stop(s) PROVE DBType'
  <2>1. phase' \in [Servers -> {"new", "failed", "stopping", "stopped", "schema"} \union HasSchema]
    BY <1>6 DEF Stop, Goto
  <2>2. parts' \in [Servers -> SUBSET {"lock", "tx", "ns", "cluster"}]
    BY <1>6, StoppingParts
  <2> QED BY <1>6, <2>1, <2>2 DEF Stop, CloseDatabase, dbVars
<1>7. ASSUME NEW s \in Servers, Restart(s) PROVE DBType'
  BY <1>7, IdleType DEF Restart, Goto, MigType
<1>8. ASSUME NEW g \in Migrators, GetAppliedMigrations(g) \/ SkipMigration(g) \/ ExecMigration(g) \/ InsertVersion(g)
      PROVE  DBType'
  <2>1. mig' \in MigType
    <3>1. CASE GetAppliedMigrations(g)
      <4>1. PICK list \in Lists :
              mig' = [mig EXCEPT ![g] = [phase |-> "apply", list |-> list, seen |-> recorded, next |-> 1]]
        BY <3>1 DEF GetAppliedMigrations
      <4>2. list \in Seq(Versions)
        BY DatabaseAssumption
      <4>3. [phase |-> "apply", list |-> list, seen |-> recorded, next |-> 1] \in MigState
        BY <4>2 DEF MigState
      <4> QED BY <4>1, <4>3 DEF MigType
    <3>2. CASE SkipMigration(g)
      BY <3>2, MigUpdates DEF SkipMigration
    <3>3. CASE ExecMigration(g)
      BY <3>3, MigUpdates DEF ExecMigration
    <3>4. CASE InsertVersion(g)
      BY <3>4, MigUpdates DEF InsertVersion
    <3> QED BY <1>8, <3>1, <3>2, <3>3, <3>4
  <2> QED BY <1>8, <2>1 DEF GetAppliedMigrations, SkipMigration, ExecMigration, InsertVersion, dbVars, coreVars
<1>9. ASSUME NEW g \in Migrators, FreshVersion, Commit(g) PROVE DBType'
  <2>1. Version(g) \in Versions
    BY <1>9, VersionType DEF Commit, FreshVersion
  <2>2. [list |-> mig[g].list, at |-> mig[g].next] \in [list : Seq(Versions), at : Nat \ {0}]
    BY DEF MigType, MigState
  <2>3. applied' \in Seq([list : Seq(Versions), at : Nat \ {0}])
    BY <1>9, <2>2 DEF Commit
  <2>4. mig' \in MigType
    BY <1>9, MigUpdates DEF Commit
  <2> QED BY <1>9, <2>1, <2>3, <2>4 DEF Commit, coreVars
<1>10. ASSUME NEW g \in Migrators, Rollback(g) \/ MigrationsDone(g) PROVE DBType'
  <2>1. mig' = [mig EXCEPT ![g] = Idle] /\ UNCHANGED <<objects, rows, recorded, applied, coreVars>>
    BY <1>10 DEF Rollback, MigrationsDone, AfterFailure, dbVars
  <2> QED BY <2>1, IdleType DEF coreVars, MigType
<1>11. ASSUME NEW s \in Servers, StatementFails(s) PROVE DBType'
  BY <1>11 DEF StatementFails, CloseAndFail, Goto, dbVars
<1>12. ASSUME NEW s \in Servers, ClusterStart(s) PROVE DBType'
  BY <1>12 DEF ClusterStart, Goto, dbVars, HasSchema
<1> QED BY <1>1, <1>2, <1>3, <1>4, <1>5, <1>6, <1>7, <1>8, <1>9, <1>10, <1>11, <1>12 DEF Next

-----------------------------------------------------------------------------
CoreInv == SchemaProgress /\ OpenWhileUsed /\ PartsOverDatabase

\* The steps of the migrators leave the processes and the schema alone.
LEMMA MigratorOnly ==
  ASSUME NEW g \in Migrators,
         \/ GetAppliedMigrations(g) \/ SkipMigration(g) \/ ExecMigration(g) \/ InsertVersion(g)
         \/ Commit(g) \/ Rollback(g) \/ MigrationsDone(g)
  PROVE  UNCHANGED <<objects, rows, phase, next, conn, parts>>
BY DEF GetAppliedMigrations, SkipMigration, ExecMigration, InsertVersion, Commit, Rollback,
       MigrationsDone, dbVars, coreVars

\* A start, a stop and a failure, by what they keep for the invariant.
LEMMA CoreStep ==
  ASSUME DBInv, [Next]_vars
  PROVE  CoreInv'
<1> DEFINE Core == <<objects, rows, phase, next, conn, parts>>
<1>0. CoreType /\ SchemaProgress /\ OpenWhileUsed /\ PartsOverDatabase
  BY DEF DBInv, DBType
<1>1. CASE UNCHANGED Core
  BY <1>0, <1>1 DEF CoreInv, SchemaProgress, OpenWhileUsed, PartsOverDatabase
<1> USE <1>0 DEF CoreInv, CoreType, SchemaProgress, OpenWhileUsed, PartsOverDatabase, HasSchema, HasRoot,
            HasUser, Starting
<1>2. ASSUME NEW s \in Servers, CloseAndFail(s), phase[s] \in Starting PROVE CoreInv'
  BY <1>2 DEF CloseAndFail, Goto, dbVars
<1>3. ASSUME NEW s \in Servers, Open(s) PROVE CoreInv'
  BY <1>3, StatementsDomain DEF Open, Goto, dbVars
<1>4. ASSUME NEW s \in Servers, ExecStatement(s) PROVE CoreInv'
  <2>1. CASE CloseAndFail(s)
    BY <1>2, <1>4, <2>1 DEF ExecStatement
  <2>2. CASE ~CloseAndFail(s)
    <3>1. /\ objects' = objects \union {Statements[next[s]].object}
          /\ next' = [next EXCEPT ![s] = @ + 1]
          /\ phase[s] = "schema"
          /\ UNCHANGED <<rows, phase, conn, parts>>
      BY <1>4, <2>2 DEF ExecStatement
    <3>2. objects' \subseteq AllObjects
      BY <1>4, TypeStep DEF Next, DBInv, DBType
    <3>3. SchemaProgress'
      BY <3>1, <3>2, StatementsDomain
    <3> QED BY <3>1, <3>3
  <2> QED BY <2>1, <2>2
<1>5. ASSUME NEW s \in Servers, StatementFails(s) PROVE CoreInv'
  BY <1>2, <1>5 DEF StatementFails
<1>6. ASSUME NEW s \in Servers, initRootDirectory(s) PROVE CoreInv'
  <2>1. CASE next[s] > Len(Statements) /\ CheckRow(s, "schema", "root", "insertRoot", "initSystemUser")
    <3>1. AllObjects \subseteq objects
      BY <2>1, StatementsDomain DEF CheckRow, AllObjects
    <3> QED BY <2>1, <3>1 DEF CheckRow, Goto, dbVars
  <2>2. CASE InsertRow(s, "insertRoot", "root", "initSystemUser")
    BY <1>2, <2>2 DEF InsertRow, Goto
  <2> QED BY <1>6, <2>1, <2>2 DEF initRootDirectory
<1>7. ASSUME NEW s \in Servers, initSystemUser(s) PROVE CoreInv'
  BY <1>2, <1>7 DEF initSystemUser, CheckRow, InsertRow, Goto, dbVars
<1>8. ASSUME NEW s \in Servers, MetaStart(s) PROVE CoreInv'
  BY <1>8 DEF MetaStart, Goto, dbVars
<1>9. ASSUME NEW s \in Servers, ClusterStart(s) PROVE CoreInv'
  BY <1>9 DEF ClusterStart, Goto, dbVars
<1>10. ASSUME NEW s \in Servers, Stop(s) PROVE CoreInv'
  <2>1. /\ phase' = [phase EXCEPT ![s] = phase'[s]] /\ phase'[s] \in {"stopping", "stopped"}
        /\ UNCHANGED <<objects, rows, next>>
    BY <1>10 DEF Stop, CloseDatabase, Goto, dbVars
  <2>2. SchemaProgress'
    BY <2>1
  <2>3. CASE StopDone(s)
    <3>1. UNCHANGED parts /\ conn' = [conn EXCEPT ![s] = "closed"] /\ parts[s] = {}
      BY <1>10, <2>3 DEF Stop, StopDone, CloseDatabase
    <3> QED BY <2>1, <2>2, <3>1
  <2>4. CASE ~StopDone(s)
    <3>1. UNCHANGED conn /\ \A t \in Servers : parts'[t] \subseteq parts[t]
      BY <1>10, <2>4, StoppingParts DEF Stop
    <3> QED BY <2>1, <2>2, <3>1
  <2> QED BY <2>3, <2>4
<1>11. ASSUME NEW s \in Servers, Restart(s) PROVE CoreInv'
  BY <1>11 DEF Restart, Goto
<1> HIDE DEF CoreType, SchemaProgress, OpenWhileUsed, PartsOverDatabase, HasSchema, HasRoot,
             HasUser, Starting, CoreInv
<1> QED BY <1>1, <1>3, <1>4, <1>5, <1>6, <1>7, <1>8, <1>9, <1>10, <1>11, MigratorOnly
        DEF Next, vars, dbVars, coreVars

-----------------------------------------------------------------------------
MigrationInv == FreshVersion /\ SeenIsPast /\ MigratedExactlyOnce /\ EarlierOnesFirst

\* The steps of the processes record no version; a restart takes the write lock
\* away and forgets the migrators of its process.
LEMMA ServerOnly ==
  ASSUME DBType, NEW s \in Servers,
         \/ Open(s) \/ ExecStatement(s) \/ StatementFails(s)
         \/ initRootDirectory(s) \/ initSystemUser(s)
         \/ MetaStart(s) \/ ClusterStart(s) \/ Stop(s) \/ Restart(s)
  PROVE  /\ UNCHANGED <<recorded, applied>>
         /\ writer' \in {writer, NoOne}
         /\ \A g \in Migrators : mig'[g] \in {mig[g], Idle}
<1>1. CASE UNCHANGED <<recorded, applied, writer, mig>>
  BY <1>1
<1>2. CASE Open(s) \/ StatementFails(s) \/ MetaStart(s) \/ ClusterStart(s)
  BY <1>1, <1>2 DEF Open, StatementFails, CloseAndFail, MetaStart, ClusterStart, dbVars
<1>3. CASE ExecStatement(s)
  BY <1>1, <1>3 DEF ExecStatement, CloseAndFail, dbVars
<1>4. CASE initRootDirectory(s) \/ initSystemUser(s)
  BY <1>1, <1>4 DEF initRootDirectory, initSystemUser, CheckRow, InsertRow, CloseAndFail, dbVars
<1>5. CASE Stop(s)
  BY <1>1, <1>5 DEF Stop, CloseDatabase, dbVars
<1>6. CASE Restart(s)
  BY <1>6 DEF Restart
<1> QED BY <1>2, <1>3, <1>4, <1>5, <1>6

\* A step of g that records nothing keeps what is said of the other migrators.
LEMMA OthersKept ==
  ASSUME DBInv, NEW g \in Migrators, UNCHANGED <<recorded, applied>>,
         writer' \in {writer, g, NoOne},
         \A h \in Migrators \ {g} : mig'[h] = mig[h],
         mig'[g].phase \in {"record", "commit"} => Remaining(g)',
         mig'[g].phase = "commit" => Version(g)' \notin recorded,
         mig'[g].phase # "idle" =>
           /\ mig'[g].seen \subseteq recorded
           /\ \A i \in 1..(mig'[g].next - 1) : mig'[g].list[i] \in recorded
  PROVE  MigrationInv'
<1>0. \A h \in Migrators : h # NoOne
  BY DatabaseAssumption
<1>1. FreshVersion'
  BY <1>0 DEF DBInv, FreshVersion, Remaining, Version
<1>2. SeenIsPast'
  BY DEF DBInv, SeenIsPast
<1>3. MigratedExactlyOnce' /\ EarlierOnesFirst'
  BY DEF DBInv, MigratedExactlyOnce, EarlierOnesFirst
<1> QED BY <1>1, <1>2, <1>3 DEF MigrationInv

\* A commit of g, whose version is new and whose earlier versions are recorded.
LEMMA CommitKeeps ==
  ASSUME DBInv, NEW g \in Migrators, Commit(g)
  PROVE  MigrationInv'
<1> DEFINE n == mig[g].next
           l == mig[g].list
           v == Version(g)
           new == [list |-> l, at |-> n]
           L == Len(applied)
<1>1. /\ writer = g /\ mig[g].phase = "commit"
      /\ recorded' = recorded \union {v}
      /\ applied' = Append(applied, new)
      /\ writer' = NoOne
      /\ mig'[g] = [mig[g] EXCEPT !.phase = "apply", !.next = @ + 1]
      /\ \A h \in Migrators \ {g} : mig'[h] = mig[h]
  BY DEF Commit, DBInv, DBType, MigType, MigState
<1>2. n \in Nat \ {0} /\ l \in Seq(Versions) /\ v = l[n]
  BY DEF DBInv, DBType, MigType, MigState, Version
<1>3. v \notin recorded
  BY <1>1 DEF DBInv, FreshVersion
<1>4. \A i \in 1..(n - 1) : l[i] \in recorded
  BY <1>1 DEF DBInv, SeenIsPast
<1>5. mig'[g].phase = "apply" /\ mig'[g].seen = mig[g].seen
      /\ mig'[g].list = l /\ mig'[g].next = n + 1
  BY <1>1 DEF DBInv, DBType, MigType, MigState
<1>6. /\ L \in Nat /\ DOMAIN applied = 1..L
      /\ DOMAIN applied' = 1..(L + 1)
      /\ applied'[L + 1] = new
      /\ \A k \in 1..L : applied'[k] = applied[k]
  BY <1>1, <1>2 DEF DBInv, DBType, MigType, MigState
<1>7. VersionOf(new) = v /\ new.at = n /\ new.list = l
  BY <1>2 DEF VersionOf
<1>8. FreshVersion'
  <2>1. \A h \in Migrators : h # NoOne
    BY DatabaseAssumption
  <2>2. \A h \in Migrators \ {g} : mig[h].phase \in {"record", "commit"} => Remaining(h)
    BY DEF DBInv, FreshVersion
  <2> QED BY <1>1, <1>5, <2>1, <2>2 DEF FreshVersion, Remaining
<1>9. SeenIsPast'
  <2>1. \A i \in 1..((n + 1) - 1) : l[i] \in recorded'
    BY <1>1, <1>2, <1>4
  <2>2. mig[g].seen \subseteq recorded'
    BY <1>1 DEF DBInv, SeenIsPast
  <2>3. ASSUME NEW h \in Migrators, mig'[h].phase # "idle"
        PROVE  /\ mig'[h].seen \subseteq recorded'
               /\ \A i \in 1..(mig'[h].next - 1) : mig'[h].list[i] \in recorded'
    <3>1. CASE h = g
      BY <1>5, <2>1, <2>2, <3>1
    <3>2. CASE h # g
      BY <1>1, <2>3, <3>2 DEF DBInv, SeenIsPast
    <3> QED BY <3>1, <3>2
  <2> QED BY <2>3 DEF SeenIsPast
<1> HIDE DEF n, l, v, new, L
\* Every earlier commit keeps its place and its version.
<1>10. \A k \in 1..L : VersionOf(applied'[k]) = VersionOf(applied[k]) /\ VersionOf(applied[k]) \in recorded
  BY <1>6 DEF DBInv, MigratedExactlyOnce
<1>11. VersionOf(applied'[L + 1]) = v
  BY <1>6, <1>7
<1>12. MigratedExactlyOnce'
  <2>1. recorded' = {VersionOf(applied'[k]) : k \in DOMAIN applied'}
    <3>1. recorded = {VersionOf(applied[k]) : k \in 1..L}
      BY <1>6 DEF DBInv, MigratedExactlyOnce
    <3>2. \A x : x \in recorded' <=> \E k \in 1..(L + 1) : x = VersionOf(applied'[k])
      <4>1. \A k \in 1..(L + 1) : k \in 1..L \/ k = L + 1
        BY <1>6
      <4>2. \A k \in 1..L : k \in 1..(L + 1)
        BY <1>6
      <4>3. L + 1 \in 1..(L + 1)
        BY <1>6
      <4>4. ASSUME NEW x \in recorded' PROVE \E k \in 1..(L + 1) : x = VersionOf(applied'[k])
        <5>1. CASE x = v
          BY <1>11, <4>3, <5>1
        <5>2. CASE x \in recorded
          BY <1>10, <3>1, <4>2, <5>2
        <5> QED BY <1>1, <5>1, <5>2
      <4>5. ASSUME NEW k \in 1..(L + 1) PROVE VersionOf(applied'[k]) \in recorded'
        BY <1>1, <1>10, <1>11, <4>1
      <4> QED BY <4>4, <4>5
    <3> QED BY <1>6, <3>2
  <2>2. ASSUME NEW j \in DOMAIN applied', NEW k \in DOMAIN applied',
               VersionOf(applied'[j]) = VersionOf(applied'[k])
        PROVE  j = k
    <3>1. (j \in 1..L \/ j = L + 1) /\ (k \in 1..L \/ k = L + 1)
      BY <1>6
    <3>2. CASE j \in 1..L /\ k \in 1..L
      BY <1>6, <1>10, <2>2, <3>2 DEF DBInv, MigratedExactlyOnce
    <3>3. CASE j = L + 1 /\ k \in 1..L
      BY <1>3, <1>10, <1>11, <2>2, <3>3
    <3>4. CASE j \in 1..L /\ k = L + 1
      BY <1>3, <1>10, <1>11, <2>2, <3>4
    <3> QED BY <3>1, <3>2, <3>3, <3>4
  <2> QED BY <2>1, <2>2 DEF MigratedExactlyOnce
<1>13. EarlierOnesFirst'
  <2> SUFFICES ASSUME NEW k \in 1..(L + 1), NEW i \in 1..(applied'[k].at - 1)
               PROVE  \E j \in 1..(k - 1) : VersionOf(applied'[j]) = applied'[k].list[i]
    BY <1>6 DEF EarlierOnesFirst
  <2>1. CASE k = L + 1
    <3>1. applied'[k].list[i] \in recorded
      BY <1>4, <1>6, <1>7, <2>1
    <3>2. PICK j \in 1..L : VersionOf(applied[j]) = applied'[k].list[i]
      BY <1>6, <3>1 DEF DBInv, MigratedExactlyOnce
    <3>3. j \in 1..(k - 1)
      BY <1>6, <2>1
    <3> QED BY <1>10, <3>2, <3>3
  <2>2. CASE k \in 1..L
    <3>1. applied'[k] = applied[k]
      BY <1>6, <2>2
    <3>2. PICK j \in 1..(k - 1) : VersionOf(applied[j]) = applied[k].list[i]
      BY <1>6, <2>2, <3>1 DEF DBInv, EarlierOnesFirst
    <3>3. j \in 1..L
      BY <1>6, <2>2
    <3> QED BY <1>10, <3>1, <3>2, <3>3
  <2> QED BY <1>6, <2>1, <2>2
<1> QED BY <1>8, <1>9, <1>12, <1>13 DEF MigrationInv

LEMMA MigrationStep ==
  ASSUME DBInv, [Next]_vars
  PROVE  MigrationInv'
<1>1. CASE UNCHANGED vars
  BY <1>1 DEF vars, dbVars, coreVars, DBInv, MigrationInv, FreshVersion, SeenIsPast, Remaining, Version,
              MigratedExactlyOnce, EarlierOnesFirst
<1>2. ASSUME NEW s \in Servers,
             \/ Open(s) \/ ExecStatement(s) \/ StatementFails(s)
             \/ initRootDirectory(s) \/ initSystemUser(s)
             \/ MetaStart(s) \/ ClusterStart(s) \/ Stop(s) \/ Restart(s)
      PROVE  MigrationInv'
  <2>1. /\ UNCHANGED <<recorded, applied>>
        /\ writer' \in {writer, NoOne}
        /\ \A g \in Migrators : mig'[g] \in {mig[g], Idle}
    BY <1>2, ServerOnly DEF DBInv
  <2>2. Idle.phase = "idle" /\ \A g \in Migrators : g # NoOne
    BY DatabaseAssumption DEF Idle
  <2>3. FreshVersion'
    BY <2>1, <2>2 DEF DBInv, FreshVersion, Remaining, Version
  <2>4. SeenIsPast'
    BY <2>1, <2>2 DEF DBInv, SeenIsPast
  <2> QED BY <2>1, <2>3, <2>4 DEF DBInv, MigrationInv, MigratedExactlyOnce, EarlierOnesFirst
<1>3. ASSUME NEW g \in Migrators, GetAppliedMigrations(g) PROVE MigrationInv'
  <2>1. PICK list \in Lists :
          mig' = [mig EXCEPT ![g] = [phase |-> "apply", list |-> list, seen |-> recorded, next |-> 1]]
    BY <1>3 DEF GetAppliedMigrations
  <2>2. /\ mig'[g].phase = "apply" /\ mig'[g].seen = recorded /\ mig'[g].next = 1
        /\ \A h \in Migrators \ {g} : mig'[h] = mig[h]
    BY <2>1 DEF DBInv, DBType, MigType, MigState
  <2> QED BY <1>3, <2>2, OthersKept DEF GetAppliedMigrations, dbVars
\* A version that was seen as applied is recorded.
<1>4. ASSUME NEW g \in Migrators, SkipMigration(g) PROVE MigrationInv'
  <2>1. /\ mig[g].phase = "apply" /\ mig[g].list[mig[g].next] \in mig[g].seen
        /\ mig'[g].phase = "apply" /\ mig'[g].seen = mig[g].seen
        /\ mig'[g].list = mig[g].list /\ mig'[g].next = mig[g].next + 1
        /\ \A h \in Migrators \ {g} : mig'[h] = mig[h]
    BY <1>4 DEF SkipMigration, Version, DBInv, DBType, MigType, MigState
  <2>2. mig[g].next \in Nat /\ mig'[g].seen \subseteq recorded
    BY <2>1 DEF DBInv, DBType, MigType, MigState, SeenIsPast
  <2>3. \A i \in 1..(mig'[g].next - 1) : mig'[g].list[i] \in recorded
    BY <2>1, <2>2 DEF DBInv, SeenIsPast
  <2> QED BY <1>4, <2>1, <2>2, <2>3, OthersKept DEF SkipMigration, dbVars
<1>5. ASSUME NEW g \in Migrators, ExecMigration(g) PROVE MigrationInv'
  <2>1. /\ mig[g].phase = "apply" /\ Remaining(g)
        /\ mig'[g].phase = "record" /\ mig'[g].seen = mig[g].seen
        /\ mig'[g].list = mig[g].list /\ mig'[g].next = mig[g].next
        /\ \A h \in Migrators \ {g} : mig'[h] = mig[h]
    BY <1>5 DEF ExecMigration, DBInv, DBType, MigType, MigState
  <2>2. Remaining(g)'
    BY <2>1 DEF Remaining
  <2>3. /\ mig[g].seen \subseteq recorded
        /\ \A i \in 1..(mig[g].next - 1) : mig[g].list[i] \in recorded
    BY <2>1 DEF DBInv, SeenIsPast
  <2> QED BY <1>5, <2>1, <2>2, <2>3, OthersKept DEF ExecMigration
<1>6. ASSUME NEW g \in Migrators, InsertVersion(g) PROVE MigrationInv'
  <2>1. /\ mig[g].phase = "record" /\ Version(g) \notin recorded
        /\ mig'[g].phase = "commit" /\ mig'[g].seen = mig[g].seen
        /\ mig'[g].list = mig[g].list /\ mig'[g].next = mig[g].next
        /\ \A h \in Migrators \ {g} : mig'[h] = mig[h]
    BY <1>6 DEF InsertVersion, Recordable, DBInv, DBType, MigType, MigState
  <2>2. Remaining(g)' /\ Version(g)' \notin recorded
    BY <2>1 DEF DBInv, FreshVersion, Remaining, Version
  <2>3. /\ mig[g].seen \subseteq recorded
        /\ \A i \in 1..(mig[g].next - 1) : mig[g].list[i] \in recorded
    BY <2>1 DEF DBInv, SeenIsPast
  <2> QED BY <1>6, <2>1, <2>2, <2>3, OthersKept DEF InsertVersion, dbVars
<1>7. ASSUME NEW g \in Migrators, Rollback(g) \/ MigrationsDone(g) PROVE MigrationInv'
  <2>1. /\ UNCHANGED <<recorded, applied>>
        /\ writer' \in {writer, NoOne}
        /\ mig'[g] = Idle
        /\ \A h \in Migrators \ {g} : mig'[h] = mig[h]
    BY <1>7 DEF Rollback, MigrationsDone, AfterFailure, dbVars, DBInv, DBType, MigType, MigState
  <2>2. mig'[g].phase = "idle"
    BY <2>1 DEF Idle
  <2> QED BY <2>1, <2>2, OthersKept
<1> QED BY <1>1, <1>2, <1>3, <1>4, <1>5, <1>6, <1>7, CommitKeeps DEF Next

-----------------------------------------------------------------------------
LEMMA InvStep == DBInv /\ [Next]_vars => DBInv'
BY TypeStep, CoreStep, MigrationStep DEF DBInv, CoreInv, MigrationInv

LEMMA Invariance == Spec => []DBInv
BY InvInit, InvStep, PTL DEF Spec

\* A core whose Start returned nil has its whole schema, the root directory
\* and the system user, however many processes start, fail and crash over the
\* database at the same time.
THEOREM SchemaReady == Spec => []StartedMeansReady
<1>1. DBInv => StartedMeansReady
  BY DEF DBInv, DBType, CoreType, SchemaProgress, StartedMeansReady, AllObjects, HasSchema, HasRoot, HasUser
<1> QED BY <1>1, Invariance, PTL

\* Stop closes the database after the transaction manager that uses it.
THEOREM DatabaseClosedLast == Spec => []PartsOverDatabase
<1>1. DBInv => PartsOverDatabase
  BY DEF DBInv
<1> QED BY <1>1, Invariance, PTL

\* Any number of goroutines in any number of processes, with any lists, apply
\* each migration at most once, exactly when they record it.
THEOREM ExactlyOnce == Spec => []MigratedExactlyOnce
<1>1. DBInv => MigratedExactlyOnce
  BY DEF DBInv
<1> QED BY <1>1, Invariance, PTL

\* ApplyMigrations applies a migration only on top of those before it in its
\* caller's list, however the list is ordered and whatever fails, crashes or is
\* applied by others on the way.
THEOREM ListOrderKept == Spec => []EarlierOnesFirst
<1>1. DBInv => EarlierOnesFirst
  BY DEF DBInv
<1> QED BY <1>1, Invariance, PTL
=============================================================================
