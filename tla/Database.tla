------------------------------ MODULE Database ------------------------------
(***************************************************************************)
(* The database below the metadata core: opening and initialising it       *)
(* (core/database/manager.go, schema.go), migrations in transactions       *)
(* (migrations.go, operations.go), and the start and stop of the parts     *)
(* that use it (core/core.go, core/metadata/manager.go).                   *)
(*                                                                         *)
(* The database is SQLite, the only one of the three supported types whose *)
(* dialect all the statements are in: one writer at a time, transactional  *)
(* DDL.  It outlives the processes that use it; each Server is a process   *)
(* that may crash and be started again.                                    *)
(***************************************************************************)
EXTENDS Integers, Sequences, FiniteSets

CONSTANTS Servers,        \* processes that open the same database
          Migrators,      \* goroutines that call ApplyMigrations
          Home,           \* the process of each of them
          Versions,       \* the versions of all migrations
          Lists           \* the slices of migrations that callers may pass, in any order

NoOne == "no one"

ASSUME DatabaseAssumption ==
  /\ Home \in [Migrators -> Servers]
  /\ Lists \subseteq Seq(Versions)
  /\ NoOne \notin Migrators

VARIABLES
  objects,   \* database: tables and indexes that exist
  rows,      \* database: "root" directory and "system" user, if inserted
  recorded,  \* database: versions in schema_migrations
  applied,   \* database: the migrations in effect, in the order of their commits
  writer,    \* database: the migrator whose transaction has the write lock
  phase,     \* MetaCore per process: where Start and Stop are
  next,      \* index of the next schema statement
  conn,      \* the *sql.DB: nil, open, closed
  parts,     \* started parts of the core
  mig        \* per migrator: phase, its list, versions seen applied, next position

dbVars == <<objects, rows, recorded, applied, writer>>
coreVars == <<phase, next, conn, parts>>
vars == <<dbVars, coreVars, mig>>

-----------------------------------------------------------------------------
(***************************************************************************)
(* The statements of Schema.Initialize in their order, and whether they    *)
(* say IF NOT EXISTS.                                                      *)
(***************************************************************************)
Guarded(name) == [object |-> name, ifNotExists |-> TRUE]
Bare(name) == [object |-> name, ifNotExists |-> FALSE]

ensureMigrationTable == <<Guarded("schema_migrations")>>

createTableStatements ==
  <<Guarded("directories"), Guarded("files"), Guarded("chunks"),
    Bare("datanodes"), Bare("replicas"), Bare("users"), Bare("permissions")>>

createIndexStatements ==
  <<Guarded("idx_dirs_parent"), Guarded("idx_files_parent"), Guarded("idx_chunks_file"),
    Guarded("idx_replicas_chunk"), Guarded("idx_replicas_node"),
    Bare("idx_users_username"), Bare("idx_permissions_object"), Bare("idx_permissions_user")>>

Statements == ensureMigrationTable \o createTableStatements \o createIndexStatements

Idle == [phase |-> "idle", list |-> <<>>, seen |-> {}, next |-> 1]

Init ==
  /\ objects = {} /\ rows = {} /\ recorded = {} /\ applied = <<>> /\ writer = NoOne
  /\ phase = [s \in Servers |-> "new"] /\ next = [s \in Servers |-> 1]
  /\ conn = [s \in Servers |-> "nil"] /\ parts = [s \in Servers |-> {}]
  /\ mig = [g \in Migrators |-> Idle]

-----------------------------------------------------------------------------
(***************************************************************************)
(* Manager.Start.  Any statement may fail, if only because the five        *)
(* seconds that all of them share are over.                                *)
(***************************************************************************)
Goto(s, p) == phase' = [phase EXCEPT ![s] = p]

\* An error from the ping or from Initialize closes the connections.
CloseAndFail(s) ==
  /\ Goto(s, "failed")
  /\ conn' = [conn EXCEPT ![s] = "closed"]
  /\ UNCHANGED <<dbVars, next, parts, mig>>

\* sql.Open; a ping that fails is like the failure of the first statement.
Open(s) ==
  /\ phase[s] = "new"
  /\ Goto(s, "schema")
  /\ conn' = [conn EXCEPT ![s] = "open"]
  /\ next' = [next EXCEPT ![s] = 1]
  /\ UNCHANGED <<dbVars, parts, mig>>

ExecStatement(s) ==
  LET st == Statements[next[s]]
  IN  /\ phase[s] = "schema" /\ next[s] <= Len(Statements) /\ writer = NoOne
      /\ \/ /\ st.object \notin objects \/ st.ifNotExists
            /\ objects' = objects \union {st.object}
            /\ next' = [next EXCEPT ![s] = @ + 1]
            /\ UNCHANGED <<rows, recorded, applied, writer, phase, conn, parts, mig>>
         \/ /\ st.object \in objects /\ ~st.ifNotExists
            /\ CloseAndFail(s)

StatementFails(s) ==
  /\ phase[s] \in {"schema", "insertRoot", "initSystemUser", "insertUser"}
  /\ CloseAndFail(s)

\* SELECT COUNT(*), then the next step: INSERT if there was no such row.
CheckRow(s, here, row, insert, otherwise) ==
  /\ phase[s] = here
  /\ Goto(s, IF row \in rows THEN otherwise ELSE insert)
  /\ UNCHANGED <<dbVars, next, conn, parts, mig>>

\* The primary key is fixed: a second row is refused.
InsertRow(s, here, row, otherwise) ==
  /\ phase[s] = here /\ writer = NoOne
  /\ IF row \in rows THEN CloseAndFail(s)
     ELSE /\ rows' = rows \union {row}
          /\ Goto(s, otherwise)
          /\ UNCHANGED <<objects, recorded, applied, writer, next, conn, parts, mig>>

initRootDirectory(s) ==
  \/ next[s] > Len(Statements) /\ CheckRow(s, "schema", "root", "insertRoot", "initSystemUser")
  \/ InsertRow(s, "insertRoot", "root", "initSystemUser")

\* Faulty variant: the system user is left to be created on demand.
initSystemUser_Lazy(s) ==
  /\ phase[s] = "initSystemUser"
  /\ Goto(s, "meta")
  /\ UNCHANGED <<dbVars, next, conn, parts, mig>>

initSystemUser(s) ==
  \/ CheckRow(s, "initSystemUser", "system", "insertUser", "meta")
  \/ InsertRow(s, "insertUser", "system", "meta")

-----------------------------------------------------------------------------
(***************************************************************************)
(* MetaCore and metadata.Manager.  What was started before a failure is    *)
(* not stopped again.                                                      *)
(***************************************************************************)
\* The namespace manager looks the root directory up, which may fail.
MetaStart(s) ==
  /\ phase[s] = "meta"
  /\ \/ /\ "root" \in rows
        /\ Goto(s, "cluster")
        /\ parts' = [parts EXCEPT ![s] = {"lock", "tx", "ns"}]
     \/ /\ Goto(s, "failed")
        /\ parts' = [parts EXCEPT ![s] = {"lock", "tx"}]
  /\ UNCHANGED <<dbVars, next, conn, mig>>

ClusterStart(s) ==
  /\ phase[s] = "cluster"
  /\ Goto(s, "running")
  /\ parts' = [parts EXCEPT ![s] = @ \union {"cluster"}]
  /\ UNCHANGED <<dbVars, next, conn, mig>>

\* Faulty variant: the database is closed while parts still run.
StopDone_Early(s) == "tx" \in parts[s]

StopDone(s) == parts[s] = {}

StopOrder == <<"cluster", "ns", "tx", "lock">>

\* Manager.Stop.  A transaction in use keeps its connection and may go on.
CloseDatabase(s) ==
  /\ conn' = [conn EXCEPT ![s] = "closed"]
  /\ UNCHANGED <<dbVars, mig>>

\* MetaCore.Stop: the parts in the reverse order, then the database.  A part
\* leaves when its Stop returns; the cleanup goroutine of the transaction
\* manager has only been told to end by then.
Stop(s) ==
  /\ phase[s] \in {"running", "failed", "stopping"}
  /\ \/ /\ ~StopDone(s)
        /\ \E i \in DOMAIN StopOrder :
             /\ StopOrder[i] \in parts[s] /\ \A j \in 1..(i - 1) : StopOrder[j] \notin parts[s]
             /\ parts' = [parts EXCEPT ![s] = @ \ {StopOrder[i]}]
        /\ Goto(s, "stopping")
        /\ UNCHANGED <<dbVars, next, conn, mig>>
     \/ /\ StopDone(s)
        /\ CloseDatabase(s)
        /\ Goto(s, "stopped")
        /\ UNCHANGED <<next, parts>>

\* The process ends, or is killed, and a new one takes its place: now the
\* database rolls back what the process had open.
Restart(s) ==
  /\ phase[s] # "new"
  /\ Goto(s, "new")
  /\ conn' = [conn EXCEPT ![s] = "nil"]
  /\ parts' = [parts EXCEPT ![s] = {}]
  /\ next' = [next EXCEPT ![s] = 1]
  /\ mig' = [g \in Migrators |-> IF Home[g] = s THEN Idle ELSE mig[g]]
  /\ writer' = IF \E g \in Migrators : Home[g] = s /\ writer = g THEN NoOne ELSE writer
  /\ UNCHANGED <<objects, rows, recorded, applied>>

-----------------------------------------------------------------------------
(***************************************************************************)
(* ApplyMigrations.  The applied versions are read once; each other one of *)
(* the caller's list is applied and recorded in a transaction of its own,  *)
(* in the order of the list.  A list may be unsorted, have gaps, name a    *)
(* version twice, and be another one than that of a concurrent call.       *)
(***************************************************************************)
GetAppliedMigrations(g) ==
  /\ mig[g].phase = "idle" /\ conn[Home[g]] = "open" /\ phase[Home[g]] = "running"
  /\ \E list \in Lists :
       mig' = [mig EXCEPT ![g] = [phase |-> "apply", list |-> list, seen |-> recorded, next |-> 1]]
  /\ UNCHANGED <<dbVars, coreVars>>

Remaining(g) == mig[g].next <= Len(mig[g].list)
Version(g) == mig[g].list[mig[g].next]

SkipMigration(g) ==
  /\ mig[g].phase = "apply" /\ Remaining(g) /\ Version(g) \in mig[g].seen
  /\ mig' = [mig EXCEPT ![g].next = @ + 1]
  /\ UNCHANGED <<dbVars, coreVars>>

\* GetTx and the migration's SQL, which takes the write lock.
ExecMigration(g) ==
  /\ mig[g].phase = "apply" /\ Remaining(g) /\ Version(g) \notin mig[g].seen
  /\ conn[Home[g]] = "open" /\ writer = NoOne
  /\ writer' = g
  /\ mig' = [mig EXCEPT ![g].phase = "record"]
  /\ UNCHANGED <<objects, rows, recorded, applied, coreVars>>

\* Faulty variant: INSERT OR IGNORE.
Recordable_Always(g) == TRUE

\* The version is the primary key.
Recordable(g) == Version(g) \notin recorded

InsertVersion(g) ==
  /\ mig[g].phase = "record" /\ writer = g /\ Recordable(g)
  /\ mig' = [mig EXCEPT ![g].phase = "commit"]
  /\ UNCHANGED <<dbVars, coreVars>>

Commit(g) ==
  /\ mig[g].phase = "commit" /\ writer = g
  /\ recorded' = recorded \union {Version(g)}
  /\ applied' = Append(applied, [list |-> mig[g].list, at |-> mig[g].next])
  /\ writer' = NoOne
  /\ mig' = [mig EXCEPT ![g].phase = "apply", ![g].next = @ + 1]
  /\ UNCHANGED <<objects, rows, coreVars>>

\* Faulty variant: the next migration is tried after a failed one.
AfterFailure_Continue(g) == [mig[g] EXCEPT !.phase = "apply", !.next = @ + 1]

\* ApplyMigrations returns the error.
AfterFailure(g) == Idle

\* DoInTransaction: an error of any statement, or of the commit, rolls back.
Rollback(g) ==
  /\ mig[g].phase # "idle" /\ Remaining(g) /\ Version(g) \notin mig[g].seen
  /\ writer' = IF writer = g THEN NoOne ELSE writer
  /\ mig' = [mig EXCEPT ![g] = AfterFailure(g)]
  /\ UNCHANGED <<objects, rows, recorded, applied, coreVars>>

MigrationsDone(g) ==
  /\ mig[g].phase = "apply" /\ ~Remaining(g)
  /\ mig' = [mig EXCEPT ![g] = Idle]
  /\ UNCHANGED <<dbVars, coreVars>>

Next ==
  \/ \E s \in Servers :
       \/ Open(s) \/ ExecStatement(s) \/ StatementFails(s)
       \/ initRootDirectory(s) \/ initSystemUser(s)
       \/ MetaStart(s) \/ ClusterStart(s) \/ Stop(s) \/ Restart(s)
  \/ \E g \in Migrators :
       \/ GetAppliedMigrations(g) \/ SkipMigration(g) \/ ExecMigration(g) \/ InsertVersion(g)
       \/ Commit(g) \/ Rollback(g) \/ MigrationsDone(g)

Spec == Init /\ [][Next]_vars

-----------------------------------------------------------------------------
\* A core whose Start returned nil has the whole schema, the root directory
\* and the system user below it, whichever of the processes created them.
\* It promises no recovery: after a start that died past the first bare CREATE
\* no Start returns nil again.
StartedMeansReady ==
  \A s \in Servers : phase[s] = "running" =>
    /\ objects = {Statements[i].object : i \in DOMAIN Statements}
    /\ rows = {"root", "system"}

\* Until the Stop of a core's transaction manager, which rolls back what it has
\* open, has returned, the core's connection is open: also after a start that
\* failed half-way, Stop closes the database last.
PartsOverDatabase == \A s \in Servers : "tx" \in parts[s] => conn[s] = "open"

VersionOf(m) == m.list[m.at]

\* However many goroutines apply the migrations, with whatever lists, each is
\* in the database at most once, and it is there exactly when
\* schema_migrations says so.
MigratedExactlyOnce ==
  /\ recorded = {VersionOf(applied[k]) : k \in DOMAIN applied}
  /\ \A j, k \in DOMAIN applied : VersionOf(applied[j]) = VersionOf(applied[k]) => j = k

\* A migration takes effect on top of all that stand before it in the list of
\* the call that applied it, whoever has applied those: a call that fails at
\* one of them goes no further, and what it read as applied stays applied.
EarlierOnesFirst ==
  \A k \in DOMAIN applied : \A i \in 1..(applied[k].at - 1) :
    \E j \in 1..(k - 1) : VersionOf(applied[j]) = applied[k].list[i]
=============================================================================
