# TLA+ verification of DFS_v1's metadata server

DFS_v1 is a distributed file system in Go.  What is implemented of it is the
metadata server: the data server, the client and the top-level command are
stubs.  This directory holds TLA+ models of the server's core, from the callers
of its HTTP client down to the database, the TLC configurations that check them,
TLAPS proofs about eight of them, and `PROJECT.json`, which maps every definition
to the source lines it models.

    tlc -workers 2 -config Lock.cfg MCLockManager         # check a model
    tlc -workers 2 -config Service.cfg MCMetadataService  # about two minutes
    tlapm LockManager_proofs.tla                          # check the proofs
    tlapm MetadataService_proofs.tla                      # several minutes

Line numbers below are those of the files under `src/`; `core/` is short for
`src/internal/metaserver/core/`, `server/` for `src/internal/metaserver/server/`.

## 1. The system

| Component | State | Operations | Interacts with |
|---|---|---|---|
| Path lock manager (`core/metadata/lock`) | `pathLocks`, a `sync.Map` from path to owner, type and time | `Lock` (retry until a deadline), `Unlock`, `Start`, `Stop`, cleanup goroutine | every metadata operation |
| Transaction manager (`core/metadata/transaction`) | `txMap`, a `sync.Map` of transactions with unlocked fields | `Begin`, `Commit`, `Rollback`, `WithTransaction`, cleanup goroutine, `Stop` | `database/sql`, the HTTP middleware (`server/middleware/transaction.go`) |
| Heartbeat manager (`core/cluster/heartbeat`) | node states under a mutex, bounded `stateChangeCh` | `RegisterNode`, `UnregisterNode`, `RecordHeartbeat`, checker and cleanup goroutines | sends state changes to the cluster manager |
| Cluster manager (`core/cluster/manager.go`) | its view of the nodes, a cache of node information | event loop, administration, `GetNodeInfo`, `ListNodes`, `Start`, `Stop` | reads state changes, calls heartbeat, election and rebalance managers back |
| Election manager (`core/cluster/election`) | current leader, timer, a mutex | `AddPeer`, `RemovePeer`, monitor goroutine, `Stop` | proposes to the Raft node, reads `applyCh` |
| Raft node and storage (`src/common/consensus/raft`) | log entries, snapshot, proposal and apply channels | the `Ready` loop, `serveProposals`, `Propose`, `Stop`, the storage's reads | etcd's Raft library (external) |
| Rebalance manager, migrator (`core/cluster/rebalance`) | round flag and time, task records, bounded queue, worker pool | evaluation loop, `TriggerRebalance`, `SubmitTasks`, workers, `CancelTask`, `Stop` | strategies, cluster manager |
| Rebalance strategies and metrics (`core/cluster/rebalance/strategy.go`, `metrics.go`) | node metrics under a mutex | `Evaluate`, `GeneratePlan` of four strategies, `UpdateNodeMetrics`, `GetAllMetrics` | rebalance manager |
| Metadata store (`server/store.go`) | maps of files and directories under a lock | create, read, update, delete, list | HTTP handlers |
| HTTP handlers (`server/api/v1`) | none | file, directory, cluster and administration requests | store, cluster manager |
| Rate limiter (`server/middleware/rate_limit.go`) | times of recent requests per client under a mutex | `allow`, cleanup goroutine | in front of the handlers |
| HTTP client and server (`src/common/network/http`) | the listener; the retry policy | `DoRequest` with retries and a timeout, `Start`, `Stop` | the network, the handlers |
| Server life cycle (`server/server.go`) | running flag, HTTP server | `Start`, `Stop` | all of the above |
| Metadata core (`core/core.go`, `core/metadata/manager.go`) | started parts | ordered start and stop | database, lock, transaction, namespace, cluster managers |
| Database layer (`core/database`) | the `*sql.DB`; in the database the tables, the initial rows, `schema_migrations` | `Start`, `Schema.Initialize`, `ApplyMigrations`, `DoInTransaction`, `Stop` | metadata core, `database/sql` |
| Namespace manager, metadata repository | a cache, SQL rows | CRUD | transaction and lock manager, database |
| Tokens, authentication, configuration | small maps, a file watcher | issue, validate, load, watch | HTTP API |

What is hard here is concurrency without locks, channels of bounded size, and
steps that fail half-way:

* `sync.Map` makes single accesses atomic, but `Unlock` and both cleanups are a
  read, a test and a later write; the fields of transactions and migration tasks
  are shared between goroutines without any lock;
* state changes are sent on a bounded channel inside a critical section, while
  the only reader calls back into the same critical section;
* transactions are decided by whoever comes first: the request, the timeout,
  `Stop`, or the end of a request context;
* the Raft library goes on changing its log while a batch is being stored, and
  the loop that stores it blocks on a bounded channel;
* timeouts compare with a `now` read before waiting for a mutex;
* the cluster manager fills its cache with a state it read earlier, possibly
  after the deletion that was to make the cache forget it;
* a request the client has given up, and retries, may still be on its way to the
  server, and the store forgets everything when the server crashes;
* a server can be stopped before the goroutine that runs its HTTP server has got
  going;
* the schema is created statement by statement, outside any transaction, by every
  process that starts, and migrations are applied by whoever calls for them, after
  a look at the applied versions that is stale by then;
* plans are made from a snapshot of the metrics while nodes go on reporting, and
  which of two equal nodes comes first is chance.

`PROJECT.json` lists these hazards at their lines with the properties that would
catch them going wrong.

## 2. Modules

| Module | Models | Composition |
|---|---|---|
| `LockService` | abstract: what the clients of the lock manager may rely on | |
| `LockManager` | `core/metadata/lock/manager.go` | implements `LockService` |
| `TransactionManager` | `core/metadata/transaction/manager.go`, `server/middleware/transaction.go` | |
| `HeartbeatManager` | `core/cluster/heartbeat/manager.go` | |
| `ClusterEvents` | `core/cluster/manager.go`: event loop, administration, Stop | extends `HeartbeatManager` |
| `Rebalance` | `core/cluster/rebalance/manager.go` and `migrator.go` | |
| `RaftNode` | `src/common/consensus/raft/node.go` with the election manager's use of it | |
| `NodeCache` | `core/cluster/manager.go`: `GetNodeInfo`, `ListNodes` and the cache | a view of the node states that abstracts from `HeartbeatManager` and `ClusterEvents` |
| `RebalanceStrategy` | `core/cluster/rebalance/strategy.go`, `metrics.go` and the round that calls them | the half of a round before the one in `Rebalance` |
| `FileService` | abstract: what the callers of the HTTP client may rely on | |
| `MemoryStore` | `server/store.go` as operators, without state of its own | |
| `MetadataService` | HTTP client, network, rate limiter, handlers, server life cycle | instantiates `MemoryStore`; implements `FileService` |
| `Database` | `core/database`, `core/core.go`, `core/metadata/manager.go` | |
| `..._proofs` | theorems about `LockManager` (with `LockService`), `TransactionManager`, `ClusterEvents` (with `HeartbeatManager`), `Rebalance`, `RebalanceStrategy`, `RaftNode`, `MetadataService` (with `MemoryStore` and `FileService`) and `Database` | extend the module of that name and `TLAPS` |
| `MC...` | the instances TLC checks | extend the module of that name |

Conventions.  An action is what a goroutine does between two points where
another can interfere: a critical section is one action (unless it sends on a
channel), a `sync.Map` operation is one action, and a test whose result is used
later is separated from its use.  `time.Now()` is the variable `clock`, advanced
by `Tick` up to `MaxClock`; timeouts are in clock units.  Definitions with a
suffix (`Unlock_X`) are faulty variants of the definition that follows: plausible
mistakes that show that each property notices them.  Variables marked "history"
are no program state.

**LockManager.** `pathLocks` is the map; `pc` and `req` say where each client
goroutine is in `Lock` (`trying`, `waiting` for the retry timer) or `Unlock`
(`deleting`, between the `Load` with the owner test and the `Delete`).  The
cleanup goroutine has `sweep` (what its `Range` has still to visit), `cleanNow`
(its `now`, read once per tick) and `doomed` (the path it found expired and is
about to delete).  `holds`, `writes` and `overrun` are history: what a client was
granted, what it was granted with another type than `Read`, and the paths where a
lock was kept longer than `lockTimeout`.  A path leaves
`overrun` (`Settle`) when it is out of use: no entry, no holder, and no deletion
under way in `Unlock` or in the cleanup.  Until then nothing is promised about
it, because a late holder's `Unlock` and the cleanup may still delete what
somebody else has stored.  `LockService` states the promise of a read-write lock
without clock, owners or retries: a free path is granted to one writer or to any
number of readers, who give it back, after which it becomes free; it may lapse,
and recover.  The code uses less than this allows: it never lets readers with
different owners share (section 5).  The mapping takes the holders, the writers
and the entries of the paths that are not in `overrun`.

**TransactionManager.** A request is a goroutine with one transaction, run by
`WithTransaction` or by the middleware.  `sqlTx` is the external `sql.Tx`: it is
decided once, answers `ErrTxDone` from then on, is rolled back when its context
ends, and may fail in `Commit` with an unknown outcome.  `Commit` and `Rollback`
are three steps each: test of `State`, call of the database, assignment of
`State` with the deletion from `txMap`.  The cleanup's rollback and its
assignment of `State` are two steps.  Transaction identifiers are taken to be
distinct (they are the time in nanoseconds).

**HeartbeatManager, ClusterEvents.** `mu` has a holder only across a send that
may block; `out` is what that holder is sending.  The checker reads `checkNow`,
waits for `mu` and scans the nodes in any order, as Go ranges over a map.  The
event loop receives, records (`view`), and as a leader reacts: `RemovePeer` of a
dead node (a proposal, then `UnregisterNode`, for which it needs `mu`) or
`AddPeer` of a healthy one.  Leadership flips as Raft decides.

**Rebalance.** The evaluation loop, a queue of `QueueCap` tasks, and workers that
go through a plan shard by shard.  Every read and write of a task's `State` is a
step, and so are the send to and the receive from the queue.  `moved` and
`cancelled` are history: the shards of each task that were moved, and the tasks
that `CancelTask` has marked.  Whether and what to rebalance is the strategy's choice, left open here.

**RebalanceStrategy.** A round takes a `snapshot` of the collector's `metrics`,
evaluates the manager's strategy on it and lets that strategy (for the composite:
the one with the highest score, `maker`) generate `plans`; reports arrive between
these steps.  Every measure the code computes in floating point is an exact
fraction here, multiplied out; where the two sides of a comparison are equal,
rounding decides in the code and both outcomes are allowed in the model.  Nodes
with equal loads come in any order, because `sort.Slice` is not stable and Go's
map order is random.

**RaftNode.** The library is external and modelled by what it does to its log:
append, overwrite by a newer term, commit, accept a snapshot, change role; new
entries stay `unstable` until `Advance` acknowledges them.  `ReceiveReady` is
`handleReady` up to its first send: storing entries, compaction by a snapshot.
`toApply` is what is left of its snapshot message and of the loop over the
committed entries.  `SendApply` is each blocking send to `applyCh`, or the
passing over of an entry without contents; `Advance` is the rest.  A gap makes
the code panic, and a storage that reports entries the library never handed over
makes the library panic; both end the behaviour.  `handed` and `sent` are
history: what the `Ready` batches add up to, and what went to `applyCh`.  In this
repository snapshots reach a node only through `Step`; nothing creates one.

**NodeCache.** A caller looks a node up, reads its state, and stores what it read:
three steps, each under a lock of its own, for one node (`GetNodeInfo`) or for
the nodes of one reading of all states (`ListNodes`).  Of a node's information
only the status varies: its metrics are always nil and it is never the leader
(section 5).  `pending` counts the deletions of an entry that have been announced
and not made yet; a change of status that sends no event announces none.  Time is
the age of the cached entries.

**MemoryStore, MetadataService, FileService.** The store's methods run under its
mutex, so each is an operator from a store to a store and an error code; its early
returns are a sequence of `Check`s, of which the first that fails decides.  A path
is the sequence of the names between its slashes; two slashes never follow each
other, because the router (gorilla/mux) redirects such requests.  A call goes through up to
`MaxRetries` + 1 attempts; each attempt has its own place in `net` (`nowhere`, `sent`,
`admitted` by the limiter, `answered`), which it keeps after the caller has given up,
so that a delayed attempt can still be handled.  The rate limiter records attempts
with their ages instead of times; `admitted` is history, the attempts it let pass
within the last window.
`Crash` loses the store and the limiter's memory.  `FileService` is the abstract
specification: every call takes effect at most `MaxEffects` times, atomically, its
answer is the outcome of one of its own effects or says nothing, and files are lost
only all together.  A success changes exactly the file of the request, a failure
nothing, and each failure but a rejection is given only when its reason is true.  It
says what the code does, not what the tests ask: an update sets the fields in
`Applied`, which are not all (`UpdateApplied` is the test's expectation, and violated),
and a directory is never made (section 5).  The refinement mapping counts as
effects of a call its attempts that the server has handled, and translates HTTP
statuses to outcomes.

**Database.** Each process goes through `Start` statement by statement, with a
failure possible at each, then starts the parts of the core; it may stop, crash
and start again over the same database.  Migrators are goroutines that call
`ApplyMigrations`, several to a process, each call with one of the `Lists`: the code
neither sorts a list nor looks for gaps or repetitions, so any sequence of versions
is one, and two calls may disagree.  The database is SQLite (external): one writer
at a time, transactional DDL.  Closing the `*sql.DB` lets no new transaction begin
but leaves one that is in use alone, which may still commit; only the end of the
process rolls it back.  `applied` is history: the migrations in effect in the order of
their commits, each with the list and the position of the call that applied it.

## 3. Runs

Passing runs:

| Run | Instance | Shows |
|---|---|---|
| `lock_manager` | 2 clients, 1 path, read and write locks, `lockTimeout` 1, 4 clock units | a writer is alone, and an entry is its creator's, while `lockTimeout` is respected, and again once a path that overran is out of use; the clients see the read-write `LockService`; reclamation of abandoned locks; `Lock` returns |
| `transactions` | one `WithTransaction`, one middleware request, timeout 0 (older than its own clock unit) | answers are true, no `sql.Tx` is orphaned, `Stop` decides what was active, expired and returned transactions are decided (one way or the other) |
| `cluster_safety` | 2 nodes, channel of 1, administration, leadership changes | no state change lost or overtaken; nobody is declared dead without silence; a node that falls silent for good is reported dead, unless the checker and the loop are in the deadlock of `cluster_removal` |
| `rebalance` | 2 tasks, 2 workers, queue of 1 | the status of a task is true, rounds apart, tasks end, workers exit |
| `raft_node` | log of 3, 2 terms, 1 member, channels of 1 | handed over is stored; applied in order and completely |
| `raft_live` | log of 2, 2 terms | committed entries are applied; `Stop` frees the mutex `Propose` is called under |
| `node_cache` | 1 node, 3 callers, TTL of 2 units, 2 pending deletions | a stale fill may outlive its deletion, but no stale entry is served for good |
| `strategy` | 4 nodes, 4 kinds of load, all strategies | plans of a round share no node, move load downhill in the metrics the round was decided on, swap no roles by more than one shard; the composite always finds a strategy |
| `service` | 2 calls from one address, one with a retry, limit 1 per window of 1 unit, 1 crash | the service implements `FileService`; a path is created once; the limiter's window holds; every call returns |
| `database` | 2 processes, 3 migrators, 3 versions, the lists 2, 1, 5 and 5, 2, 5 | a started core has its whole schema; the database is closed after its users; every migration is applied once, and on top of those before it in its list |

Two runs show a disagreement between the code and what its comments and tests say:

* `cluster_removal`: `RemovedIsUnregistered` is violated because the checker sends
  with the mutex held while the event loop waits for that mutex: both stop for good;
* `service_update`: `UpdateApplied` is violated because a size in a PUT arrives as a
  `float64`, which `UpdateFile` (`server/store.go:155`) skips without an error;
  the integration test (`src/test/integration/metaserver/metaserver_api_test.go:139`)
  expects the size it sent.

Other disagreements are listed in section 5.

What some of these properties do not say.  The three safety properties of locks are about
locks kept within `lockTimeout`; what the two-step deletions do to the next owner of
a lock that was kept longer is in section 5.  `ExpiredIsDecided` does not say
that an expired transaction is rolled back: a commit that comes before the cleanup
succeeds.  `StatusIsTrue` does not say that a confirmed cancellation stops a task.
`WorkersExit` asks that the workers leave after `Stop`, not how fast: a worker in the
middle of a shard may be let go by the shard's own timer.  `StopFreesMutex` begins
with `Stop`; before it a `Propose` may block under the mutex for as long as the
proposal queue does not move.  `RateWindow` looks back to the last crash, with which
the limiter forgets everything; the run's window of one unit expires as a whole, a
window that expires in part is covered by the theorem only.  `NeverOvershoots`
allows the one shard that is moved in any case: between two nodes with the same number
of shards, or with fewer on the source, this shard makes the difference in shards
larger, and a difference of one may go back and forth.  `StartedMeansReady` is about
starts that succeed: after one that died past the first bare `CREATE` none does.
`PartsOverDatabase` is about the parts themselves: the cleanup goroutine of the
transaction manager is told to end by `Stop` (`transaction/manager.go:66`) and not
waited for.

**Bounds.**  Two goroutines are enough for the races of two-step operations,
because the third party is always the cleanup or `Stop`, which is modelled too;
channels and queues of one slot are full after one send, so that blocking
happens; the clock goes far enough for an entry to be created, to expire and to
be replaced (`lock_manager`: `lockTimeout` + a wait + two more units).  In
`transactions` a timeout of 0 units means that a transaction is expired as soon
as the clock has moved once, and the clock moves once: both orders of expiry
and commit occur.  In `cluster_safety` the timeouts are 0 units for the same
reason: a node is suspect, and then dead, by any later clock than its last heartbeat's,
and the second unit leaves room for a heartbeat in between; the proofs cover all
timeouts.  `cluster_safety` has a leader and two nodes, so that the event loop
unregisters one node while the checker reports the other.  Three log entries in two terms are enough for an overwrite of
stored entries and a snapshot that splits the log.  In `node_cache` nothing
relates two nodes, so one is enough; the third caller fills the cache while the
second holds a stale state and the first is being answered from the cache.  Four
nodes make two pairs, the least number at which two plans can meet in a node; the
four loads differ in each component, include an idle node without shards and one
with a single shard, and put the strategies in disagreement over the order.  In
`service` one retry is enough for two attempts of the same call to be under way
while the other call changes the same file, and a limit of one request makes the
limiter refuse the retry.  In `database` two migrators share a process and one is
in another: a crash takes two of them down and leaves the third.  The two lists
have a gap, are not sorted, name a version twice and contradict each other.
`MaxClock` only ends time:
`Lock` is not called with a deadline beyond it, and `SilentNodeReported` asks only
about silence that has become long enough by then.

**Deadlock** is checked except where all goroutines may have ended: transactions
(all requests done and `Stop` over) and the Raft node.

**Fairness.**  Weak fairness says that a goroutine inside the modelled code is
scheduled, that tickers and retry timers fire, and that time passes.  Strong
fairness is used only for acquiring `mu` in `ClusterEvents`: Go's `sync.Mutex`
switches to hand-off when a waiter starves.  `MetadataService` is fair only to
the client's own steps (its sleep between attempts, sending, and the 30 s timeout
of a request), not to the network or the server: `CallReturns` holds with a server
that never answers.  `NodeCache` is fair to time and to the steps of a call that
has begun, not to deletions.  Nothing is assumed of callers,
callbacks, HTTP handlers, contexts, of the Raft library, or of which ready branch
a `select` takes.

## 4. Proofs

Each theorem holds for every value of the constants that satisfies the named
assumption of its module: any number of clients, requests, nodes, tasks,
workers, processes, migrators, calls and retries, any timeout and any capacity.
Each property below is also checked by a run, and each inductive invariant was
checked by TLC on the instance of that run before it was proved.

| Module | Theorem | States |
|---|---|---|
| `LockManager_proofs` | `TypeCorrect` | `[]TypeOK` |
| | `MutualExclusion` | `[]WriterExcludesOthers` |
| | `HolderKeepsLock` | `OnlyHolderReleases` (action property) |
| | `ImplementsLockService` | `RefinesLockService` (refinement), for distinct owners |
| `TransactionManager_proofs` | `TypeCorrect` | `[]TypeOK` |
| | `Truthful` | `[]AnswerIsTruth` |
| | `NothingOrphaned` | `[]ForgottenOnlyDecided` |
| | `StopIsComplete` | `[]StopDecidesActive` |
| `ClusterEvents_proofs` | `TypeCorrect` | `[]TypeOK` |
| | `NoChangeLost` | `[]AnnouncedIsState` |
| | `DeadOnlyIfSilent` | `DeadMeansSilent` (action property) |
| `Rebalance_proofs` | `TypeCorrect` | `[]TypeOK` |
| | `StatusAlwaysTrue` | `[]StatusIsTrue` |
| | `RoundsKeepDistance` | `RoundsApart` (action property) |
| `RebalanceStrategy_proofs` | `NoNodeInTwoPlans` | `[]PlansDisjoint` |
| | `DownhillOnly` | `[]SourceHeavier` |
| | `NoOvershoot` | `[]NeverOvershoots` |
| | `AlwaysAPlanner` | `[]NeverPanics` |
| `RaftNode_proofs` | `TypeCorrect` | `[]TypeOK` |
| | `HandedStaysStored` | `[]HandedIsStored` |
| | `AppliedOrdered` | `[]AppliedInOrder` |
| | `AppliedAll` | `[]AppliedIsComplete` |
| `MetadataService_proofs` | `LimitHolds` | `[]RateWindow` |
| | `CreationsPaidFor` | `[]CreatedOnce` |
| | `ImplementsFileService` | `RefinesFileService` (refinement) |
| `Database_proofs` | `SchemaReady` | `[]StartedMeansReady` |
| | `DatabaseClosedLast` | `[]PartsOverDatabase` |
| | `ExactlyOnce` | `[]MigratedExactlyOnce` |
| | `ListOrderKept` | `[]EarlierOnesFirst` |

The assumptions say that placeholders (no path, no transaction, no task, no
migrator) are not members of the sets they complete, that times, capacities and
counts are naturals, and that constant functions have their domains and ranges;
`ServiceAssumption` adds that requests are of the shape `Request` gives them and
that the window is not empty.  Where a property needs more (distinct owners in
`LockManager`), that is a premise of the property itself, and of the one
refinement theorem that needs it.

**LockManager.**  Neither safety property is inductive.  That nobody holds a path
beside its writer needs that a client that holds it has its own entry in the map, which
needs that neither a pending `Delete` of `Unlock` nor the cleanup's is aimed at
it.  `LockInv` is the conjunction of `TypeOK` and

* `HolderOwnsEntry`: a holder's entry is in the map under its name, unless the
  path was overrun;
* `DeleterOwnsEntry`: a client between `Unlock`'s test and delete still owns the
  entry, unless overrun;
* `EntryOwner`: an entry's owner is the identifier of the client that stored it;
* `CleanerIsLate`: `cleanNow` is never ahead of the clock, and a path the
  cleanup is about to delete has been overrun.

`HolderKeepsLock` follows by looking at the step that changes an entry.

The refinement needs two more invariants.  `EntryInUse`: the client that stored
an entry holds the path or is deleting the entry, so that `Lock` can only join a
read lock its caller already has, which the service does not notice.  `OverrunInUse`:
a path in `overrun` is in use, so that the three steps that end a use let only
their own path recover (`SettlesOne`).  Then storing an entry is `GrantRead` or `GrantWrite`, the
first step of `Unlock` is `GiveBack`, its second `Free`, a tick that makes locks
too old is one `Lapse` of all of them, the last use of a path that overran is
`Recover`, and everything else stutters (`ServiceStep`).

**TransactionManager.**  Three goroutines write the fields of a transaction
without a lock.  `TxInv` says why that does no harm to what the request is told:

* `DecidedFirst`: at the position where the request assigns `State`, its `sql.Tx`
  has already been decided that way, and it is not committed by anyone before;
* `KnownBegun`: nobody knows a transaction that has not begun, so that neither
  the cleanup nor `Stop` can come in between `BeginTx` and the entry in `txMap`;
* `VictimDecided`: what the cleanup is about to mark aborted is decided;
* `AnsweredLate`: `WithTransaction` has told nothing while it is still deciding;
* `StopProgress`: what was active when `Stop` began is still before its `Range`,
  or decided;

with `ForgottenOnlyDecided` and `AnswerIsTruth` themselves.  They depend on each
other: an overwritten `State` is harmless only because the victim is decided.

**ClusterEvents.**  `TypeOK` carries the locking discipline (who holds `mu`, and
that only a holder is sending), and with it `AnnouncedIsState` is inductive.  The
work is in the lemmas about the last event concerning a node in a sequence:
appending an event about the node makes it the last one (`LatestAppend`), and
receiving the first event either leaves the last one or makes the event loop's
view take its value (`LatestTail`).  Every step is then quiet (`QuietStep`) or
announces the one state it changes (`AnnouncingStep`).  `DeadMeansSilent` needs
only that the checker's `now` is not ahead of the clock (`CheckedPast`).

**Rebalance.**  `State` is written by the submitter, a worker and any number of
`CancelTask`s without a lock, so `StatusIsTrue` cannot rest on `State`.  It rests on
`Accounted` (what a worker has moved of its task and what it has left make up the
task's shards, and where the worker is in its loop agrees with them), which stays true
because of `HeldOnce` (no two places have the same task), `NotYetHeld` (a task still
to be sent is nowhere, so that `SubmitTasks` puts no second copy into the queue) and
`WorkerPlaces` (which workers have a task at all).  `RoundsApart` needs
`LookedAt` (the interval the loop has found to be over stays over until it
submits) and `PastRounds` (the latest submission of an earlier round was no later
than `lastRebalance`).

**RebalanceStrategy.**  `PlanInv` says that the plans of a round are plans of the
strategy that made them for the round's own snapshot; metrics reported meanwhile
change another variable.  The work is in the operators.  `PlanShape` takes a set
of plans apart into an order of the nodes and the numbers of the pairs chosen,
`Sides` says that two numbers at most half of n are never equal to each other's
counterpart from the other end, and `PairsApart` combines them.
`WorthwhileIsHeavier` is what passing the test of a difference means, for each
strategy and with floating point ties decided either way, and `ModestAmount` is
the arithmetic of the caps.  `StrategyAssumption` adds that the nodes are finite.

`NeverPanics` is about the composite strategy, which asks each of its parts
whether to rebalance and later dereferences the one with the highest positive
score.  `AskedInv` carries the first answer to the second question: while a round
is planned, the evaluation of its snapshot said yes.  A part that says yes found
its loads unequal beyond a threshold, so its score is positive
(`ImbalancedScores`; ties in floating point included), and a non-empty set of
parts has a highest score because the comparison of two scores, multiplied out,
is total and transitive (`RatioTransitive`, `BestIsFound`).  All of this is
arithmetic on sums over the nodes of a snapshot, which must be known to be
numbers.  `Sum` is a fold, a recursive function on sets; that such a function exists is
shown by a witness that counts a pile of units (`SumsUpExists`), and that its
values are naturals by induction over subsets in first-order form: if some set
had no natural as its sum, there would be a smallest such subset, and taking one
node away contradicts that (`SmallestSubset`, `SumIsNat`).

**RaftNode.**  None of the three safety properties is inductive, because each
compares the storage or the messages with a log the library changes meanwhile.
`RaftInv` is typing and

* `StorageInv`: the indexes of the stored log are consecutive, and it holds every
  entry handed over and not replaced (`AppendedLog` and `CompactedLog` show that
  the three ways to append and the compaction keep this);
* `UnstableInv`: the library's unstable log has consecutive indexes from its
  offset on, lies behind its snapshot, and reaches at least to `commit`;
* `Readable`: the storage has every index that is still to be applied below the
  unstable log.  `Committed` takes entries from both, and `CommittedLog` shows
  from this that it yields exactly the indexes of the batch, without a hole;
* `ReadyStored`: the same for the entries of the `Ready` in hand, which `Advance`
  will make the library forget although it may have appended other ones since;
* `BatchInv`: a batch ends between `applied` and `commit`, and a snapshot that
  arrives during it lies beyond it;
* `OrderInv`: what was sent precedes what is about to be sent, and neither goes
  beyond the batch;
* `CompleteInv`: every entry with contents up to the end of the batch, handed
  over or still unstable, is sent or about to be.  The unstable ones are needed
  because they may have been applied before: when the library overwrites the end
  of a batch while it is handled, `Advance` forgets none of it, and its committed
  beginning is handed over once more.

One lemma per action (`LibAppendKeeps`, `ReceiveKeeps`, `SendApplyKeeps`,
`AdvanceKeeps`, ...) preserves it.  The panics keep it too, since they only end
the loop.

**MetadataService.**

* `LimiterInv`: within the window, what the limiter has recorded is exactly what
  it let pass, because both age together and the cleanup removes only what has
  left the window; so the test against the limit bounds the history.
* `ServiceInv` is `AttemptInv` (attempts are made one after the other: those to
  come are nowhere, answers carry a status of a handler or of the limiter) and
  `StoreInv` (no directory but the root exists, and nothing at all before the
  start and after the stop of the server).
* What the handlers do to the store is stated once (`Served`, from one lemma per
  operation): a request is refused and changes nothing, or it is carried out and
  changes its own file.  `CleanTwice` is why cleaning a path in the handler and
  again in the store is harmless.
* Refinement: the mapping counts the answered attempts of a call as its effects.
  A step that answers no attempt (`Quiet`) maps to a stutter, to `Issue`,
  `Return` or `Lose`; a step that answers one (`Answers`) maps to one `Effect`
  whose outcome and change are those of the handler.  There are at most
  `MaxRetries` + 1 of these, because attempts are distinct.  `MapInit` and
  `MapStep` are the two halves; `FileService` states no fairness, so the
  refinement is complete.
* `CreatedOnce` is a count over all answered attempts.  `Balanced(k)` strengthens
  it with the file itself: the 201s for `k` are at most the crashes, the
  successful deletions and one more if the file exists or the server has stopped.  A creation
  is answered 201 only when the file was not there, which is when that one is
  still to be had; a crash and a deletion pay for the file they remove.  The sets
  are finite because only one attempt is answered in a step (`CountInv`).

**Database.**  `DBInv` is its typing and

* `SchemaProgress`: what the statements of a start so far have created is there
  (nothing is ever dropped), whichever process created it;
* `OpenWhileUsed`: the connection is open through all phases of a start, and the
  parts of the core start after it;
* `FreshVersion`: between the `INSERT` of a version and the commit nobody else
  records that version, because of the write lock;
* `SeenIsPast`: every version before a migrator's position in its list is recorded,
  although it read `schema_migrations` only once: those it skipped because what is
  recorded stays recorded, the others because it stops at the first failure;

with `PartsOverDatabase`, `MigratedExactlyOnce` and `EarlierOnesFirst`.  Versions are
compared for equality only, so the order and the gaps of a list play no part.

**Only model-checked.**  Every safety property and both refinements have a
theorem.  What states liveness, under fairness, is left to TLC: `LockCallReturns`,
`AbandonedLockReclaimed`, `ExpiredIsDecided`, `ReturnDecides`,
`SilentNodeReported`, `TaskEnds`, `WorkersExit`, `StopFreesMutex`,
`CommittedIsApplied`, `EventuallyFresh` (the one property of `NodeCache`) and
`CallReturns`.

## 5. Not modelled, and other disagreements seen

Not modelled:

* the namespace manager and its repository: they do not fit the schema and the
  models they are used with (`ResolvePath` asserts a type at `manager.go:142` that
  the repository never returns), so that there is no behaviour to be faithful to
  beyond the first failing call;
* the token manager, which nothing in the server uses; authentication, whose
  tables do not interact with anything; the middlewares for authentication and
  transactions in the request path, which the server installs with nil services
  (the transaction middleware is modelled in `TransactionManager`);
* configuration loading, logging, errors, metrics, utilities: parsing, formatting
  and reflection without interaction; the configuration file watcher is planned;
* the generic repository and query builder, which assemble SQL text;
* the cluster and administration handlers, which decode a request and call the
  cluster manager;
* `handleLeaderChange` (unreachable, see below), the election timer and the vote
  handlers, which log, answer, or reset a timer nobody depends on;
* the Raft protocol itself, `go.etcd.io/etcd/raft`;
* the data server, the client and the command line: stubs.

While modelling, these were seen too, without a run of their own:

* `lock/README.md:4` calls the lock a read-write lock ("分布式读写锁") and the comment
  at `lock/manager.go:159` lets two reads share, but `tryLock` (line 149) asks for the
  same owner as well: readers with different owners never share, and as only two reads
  pass, an owner can never upgrade a read lock (the comment at 150 speaks of it);
* the cleanup may remove an expired entry between `Unlock`'s test of the owner and
  its `Delete` (`lock/manager.go:128`): `Unlock` then deletes the next owner's lock,
  which line 123 ("尝试释放他人的锁") means to refuse.  This and the next one need a
  lock kept beyond `lockTimeout`;
* the lock's cleanup deletes on the strength of an entry read earlier
  (`lock/manager.go:78`) and may remove a lock taken meanwhile by the next owner;
* the transaction cleanup may mark a transaction aborted that has just committed
  (`transaction/manager.go:105`); a commit after the timeout succeeds until
  the cleanup's next pass (146), though the test at
  `src/test/unit/metaserver/core/transaction/manager_test.go:108` asserts an error; entries of failed commits
  and expired transactions never leave `txMap` (151); two `Begin`s in one
  nanosecond share an identifier (123); the middleware's success response is on
  the wire before `Commit` is tried; its `else` (`transaction.go:58`) belongs to the
  wrong `if`, so that a failed request's transaction stays active until it expires
  (comments at 53 and 59 say it is rolled back);
* after `Stop` nobody drains `stateChangeCh`, so a blocked checker never ends
  (`cluster/manager.go:294`); a Dead event that is handled after the node came
  back unregisters a live node, which is then added as a peer again, unmonitored
  (372; the comment at 253 promises monitoring);
* `rebalance.Manager.GetNodeMetrics` reads a map that nobody writes
  (`rebalance/manager.go:137`), so node information never carries the metrics
  `cluster/manager.go:397` promises; no leader is ever recorded, so `GetLeader`
  always fails and `IsLeader` is false; `GetClusterSnapshot` reads twice and may
  report more healthy nodes than nodes; `rebalance.NewManager` uses its
  configuration before the nil check;
* a cancelled task that is still queued is started and may complete, although
  `CancelTask` answered true (`migrator.go:179`, against its documentation at 263);
  `CancelTask` may mark a task failed that has just completed
  (`migrator.go:275`); `isRebalancing` covers only the submission of a round
  (`rebalance/manager.go:182`); the migrator's `Stop` calls all tasks finished
  with tasks still queued (`migrator.go:82`);
* `RaftNode.leaderCh` is never made (`node.go:157`), so the election manager
  never hears of a leader, and the cluster manager's leader handling is
  unreachable; the transport sends nothing (`election/manager.go:467`);
  `AddPeer` and `RemovePeer` return nil when `Propose` answers false (409, 442)
  and propose a configuration change as an ordinary command;
* `handleReady` stores the entries of a `Ready` before its snapshot: entries that
  follow the snapshot may then leave a gap ("有间隙，不应该发生", `node.go:204`),
  and entries that a snapshot makes obsolete are kept when they lie beyond its
  index (220); a run loop blocked on a full `applyCh` whose reader has ended never
  sees `done`; `isLeader` stays true after `Stop`;
* the storage's `Entries` cuts an answer at a size the library gives (`node.go:340`);
  the model reads all, because the commands of this program are a few bytes;
* strategies: the special threshold for two nodes (`strategy.go:106`) is dead code,
  because `NewBaseStrategy(0)` has already set 20; "at most 25 % of the source"
  (177) is exceeded for sources with fewer than four shards, and a source without
  shards gets a plan for one; a pair with the same number of shards, or fewer on the
  source, still moves one (187), which widens the gap in shards; the capacity strategy's comment speaks of the shards
  of both nodes, the code uses the source's; the "standard deviations" of
  `ClusterStats` are variances; the composite hands the plan to the strategy with
  the highest score even if it did not ask for a round;
* `MemoryStore.CreateDirectory` (`store.go:314`) takes the directory itself for its
  parent and always answers NotFound, although
  `src/test/unit/metaserver/store/directory_test.go:25` and
  `src/test/integration/metaserver/metaserver_api_test.go:68` expect a directory:
  only files in the root can exist; the root cannot be named over HTTP, so every
  listing is a 404; `countChildren` does not count subdirectories;
* `UpdateFile` ignores every field whose JSON type is not the Go type it asserts
  (numbers, maps, arrays) and still answers 200 (run `service_update`); a retried POST may get 409, and a
  retried DELETE 404, for its own effect; a late duplicate of a PUT may overwrite
  a newer one.  `FileService` allows all of this, and no more;
* the HTTP server may start to listen after `Stop` has returned; `Start` cannot be
  repeated in the same process; `server.go` calls functions that do not exist
  (`httpServer.Shutdown`, `RouteGroup.Use`) and never starts the core;
* database: some `CREATE` statements lack IF NOT EXISTS (`schema.go:164` and on; 121
  has it, and the comment at 66 expects it): the second `Start` over an initialised
  database always fails, so only one start can ever succeed; MySQL has no
  CREATE INDEX IF NOT EXISTS and PostgreSQL no `?` parameters, so that only SQLite
  works; the ping and all statements share five seconds; a failure in the
  namespace manager's start leaves the lock and transaction managers and the
  connection running until `Stop`; `Stop` closes the database while migrations and
  the transaction manager's cleanup goroutine may still be under way; `ApplyMigrations`
  takes its list as it comes, so that `GetSchemaVersion`, the largest version, says
  nothing about the smaller ones; `DoInTransaction` leaves its transaction open
  when its callback panics.

## 6. Plan

Done: the lock and transaction managers, the failure detector with the cluster
manager's event loop, rebalancing from the metrics to the migrations, the Raft
node, the service from client to store and the lock manager with their abstract
specifications, the database below the core, the node cache; the proofs of
section 4.

Left: the configuration file watcher and the token manager, as small modules.
