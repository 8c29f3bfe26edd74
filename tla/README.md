# Shunter: TLA+ models, checks and proofs

Shunter runs an application module (tables, reducers, subscriptions) in one Go
process: an in-memory store, one executor goroutine that owns every commit, a
commit log that persists behind it, and subscriptions that are re-evaluated
after each commit and fanned out to WebSocket clients. These modules model the
parts in which an unlucky order of steps or an unlucky shape of data can lose a
transaction, answer a caller wrongly, show a client rows that are not there or
stop the process from stopping, check them with TLC and prove the central
properties with TLAPS.

Source lines for every definition are in `PROJECT.json` (`map`).

## The system

| Part | State | Operations that change it | What makes it hard |
|---|---|---|---|
| Protocol (`protocol/`) | connections, outbound queues, pending responses | upgrade, read loop, handlers, writer, keepalive, close | a dozen goroutines per connection end in any order; full queues |
| Executor (`executor/`) | inbox, fatal latch, shutdown flags, next ID | submit, dispatch, commit pipeline, startup sweeps, shutdown drain | submitters race shutdown; failures after the commit point |
| Scheduler (`executor/scheduler*.go`) | in-flight and replay sets, `sys_scheduled` | scan, enqueue, complete, advance or delete the row | a rescan races a completion; repeats and restarts |
| Store (`store/`) | tables, indexes, sequences, committed ID | transaction overlay, validation, commit, snapshot, replay | net effects of a transaction; constraints inside it |
| Durability worker (`commitlog/durability.go`) | queue, durable ID, waiters | enqueue, batch, fsync, rotate, wait, close | acknowledgement, failure and Close race |
| Commit log (`commitlog/`) | segments, snapshots, resume plan | append, rotate, snapshot, compact, recover, repair | crashes between any two file operations |
| Subscriptions (`subscription/`) | queries, indexes, fan-out queue | register, unregister, evaluate, broadcast, drop | deltas must equal re-evaluation; delivery order |
| Runtime (`lifecycle.go`, `local.go`, ...) | lifecycle state, worker graph | Build, Start, Close, local calls | Close meets a half-done Start |
| Reads (`protocol/handle_oneoff.go`, `handle_subscribe.go`, `declared_read.go`) | visibility filters, read catalogue | compile, authorise, narrow, scan, order, limit | four paths to one answer; limits applied before filters |
| Schema, contracts, codecs, auth, CLI, codegen, clients | none that changes at run time, or another process | | not modelled; `PROJECT.json` says why for each |

A commit goes protocol → executor inbox → reducer on a transaction → store
commit → `EnqueueCommitted` → subscription evaluation → fan-out queue →
response. The durability worker fsyncs behind it; `WaitUntilDurable`, snapshots
and durable replies wait for it. `Runtime.Close` stops the parts from the
outside in: protocol, scheduler, executor, fan-out, durability worker.

## Modules

| Module | Models | Used by |
|---|---|---|
| `DurabilityWorker` | `DurabilityWorker`: `EnqueueCommitted`, `run`, `processBatch`, `WaitUntilDurable`, `Close`, `Runtime.WaitUntilDurable` | `MCDurabilityWorker`, `DurabilityWorkerProofs` |
| `CommitLog` | the data directory over several process lifetimes: segments, snapshots, recovery, resume plan, compaction, repair, crashes | `MCCommitLog` |
| `DurableHistory` | abstract: a history that grows, of which confirmed parts survive | refined by `CommitLog` |
| `Executor` | `Executor`: submit, `Startup`, `Run`, dispatch, handlers, `postCommit`, `Shutdown` | `MCExecutor`, `ExecutorInvariant`, `ExecutorPipelineProofs`, `ExecutorProofs` |
| `ReducerService` | abstract: an accepted command has at most one effect and one truthful answer | refined by `Executor` |
| `FanOut` | from a commit to the clients' caches: evaluation, fan-out worker, outbound queues, procedures' holds, teardown | `MCFanOut` |
| `Scheduler` | `sys_scheduled`, the scheduler's goroutine, the scheduled path of the executor, crash and replay | its own `.cfg` |
| `Store` | tables, indexes, the transaction overlay, commit, changesets, recovery, snapshots and the read lock | `MCStore` |
| `BTreeIndex` | one paged index: splits, merges, seeks, ranges | `MCStore` |
| `Predicate` | predicates, what matches them, their validation | the six below |
| `DeltaEvaluation` | the rows a query gains and loses in a transaction | `QueryEvaluation` |
| `QueryEvaluation` | initial snapshots, aggregates, windows, the dispatch over delta evaluators, and `Result`, the reference they are compared with | `Pruning`, `SQLCompile` |
| `Pruning` | candidate indexes: where a query is placed and whom a change selects | `QueryIdentity` |
| `QueryIdentity` | canonical form and encoding: which queries share an evaluation | `SubscriptionManager` |
| `SubscriptionManager` | register and unregister sets, quotas, evaluate after a commit, drop clients | `MCSubscriptionManager` |
| `SQLCompile` | from a parsed statement and the caller's visibility filters to a predicate, projection and window | `OneOffQuery` |
| `OneOffQuery` | execution of a compiled query against a snapshot | `ReadRequests` |
| `ReadRequests` | raw queries and subscriptions, declared queries and views, from authorisation to answer | `MCReadRequests` |
| `Connections` | admission, dispatch, teardown of connections, and the executor's inbox as they use it | `Runtime` |
| `Runtime` | Build, Start, Close, ListenAndServe, the data directory's lease, composed with `Connections` | `MCRuntime` |

The models meet at these interfaces. `Executor` contains the durability worker as
two steps (`DurableAdvance`, `DurabilityFails`); that a wait for an enqueued ID
ends is what `DurabilityWorker` shows (`EnqueuedWaitEnds`). `CommitLog` contains
the worker as append, fsync and rotate steps and the executor's
`handleCreateSnapshot` as a wait for the durable ID. `FanOut` contains the
executor as a commit followed by the hand-over and the drain of dropped clients,
which `Executor` has as `EvalAndBroadcast` and `drainDroppedClients`, and the
durability worker as a durable ID that grows or fails; what a delta is, `FanOut`
leaves to `SubscriptionManager`, whose operations are single steps because the
executor calls them from its goroutine. `Connections` and `Scheduler` contain the
executor as a bounded inbox served one command at a time. `Runtime` extends
`Connections` and adds the lifecycle around it, with the log as the highest ID
written. A reducer's reads and writes, one step of `Executor`, are `Store`.

### DurabilityWorker

One step per channel operation, critical section, file operation and atomic
store. The executor goroutine (`enq`), the worker (`pc`, `batch`, `item`),
`Close` (`closer`) and waiters (`wstate`) interleave freely. A segment is the
range of IDs it holds and the part an fsync has covered (`synced`). Every file
operation of a batch may fail. `Init` covers the three ways a resume plan may
open the log: a segment that ends at the recovered ID, a fresh segment, and an
existing empty one, for which the code reports a durable ID of 0.

### CommitLog

A changeset is the number of the process lifetime that committed it, so that
two transactions with one ID from different lifetimes are told apart, and a
state is the sequence of changesets that made it. Segment files carry a header
flag, records, a torn tail and the number of synced records; snapshot
directories a lock, a published body and its state. `Build`, `StartInPlace`,
`StartFresh` and `Close` are the process; `ProcessCrash` keeps the page cache,
`PowerLoss` keeps any prefix of what was not fsynced and any prefix of the
directory operations that were not synced; with `"io"` among the faults every
operation of a snapshot or compaction may fail.

### Executor

One step per atomic access, channel operation and call into another component.
Commands are model values whose kind is chosen in `Init`: a call (reducer call
or OnConnect), OnDisconnect, subscription cleanup, subscription
(un)registration, snapshot. `effects` is the in-memory history: the author of
each transaction in commit order, the ID is the position. A response is
`"committed"`, `"ok"` (no commit needed), `"failed"` (no TxID) or `"unknown"`
(an error that carries the TxID of a commit that is visible); a second response
would be `"twice"`, which `TypeOK` excludes. Loading `shutdown` a first time and
counting the submitter are one step: nothing observable lies between them.
`Run` starts only after `Startup` succeeded, and `Shutdown` is called only when
`Startup` is over, as `Runtime.Start` and `Runtime.Close` guarantee (module
`Runtime` has both). The scheduler's direct writes to the inbox are in `Scheduler`.

### FanOut

A commit is the set of queries it changes; the result of a query is the sequence
of the transactions that changed it and a client's cache the sequence of those it
was told of, so that a lost, repeated or misplaced delta shows. The executor
(`exec`), the fan-out worker (`work`: its position in `deliver`, who is left,
whether the durability wait has succeeded), one writer per connection, procedures
and the teardown interleave. A frame that finds the queue full is lost in one
step and the connection stopped in a later one (`exec.pc = "overflow"`,
`work.lag`), because `sendOnConn` calls `requestDisconnect` after it has released
the queue's lock; in between the writer makes room and other frames pass. Maps
are iterated in any order (`deliverTo`). A message may fail to be encoded, or be
over the size limit (`encodeFails`): `sendOnConn` then returns before it reaches
the queue, the fan-out worker records the error and goes on (`handleSendError`),
and connection and subscription stay. What was owed to the client is kept in the
history variable `lost`. Only a caller's answer and direct responses have a
fallback: the answer becomes a failure without the delta (`sendUnencoded`), a
procedure's response an error, and when the fallback cannot be sent either the
connection ends. An initial snapshot is encoded before the set is published, so
there the failure is a refusal (`RefuseSet`). `Close` cancels the worker only when
`CloseAll` has disconnected everybody and the executor is down.

Not in it: the queue's byte limit (the message limit stands for both), a teardown whose
deadlines pass before its commands are admitted, a connection that returns with
the same ID, and the reuse of a query ID by one client.

### Scheduler

A database is the table and a ledger: every scheduled reducer writes its own
firing, so the ledger says what really ran. Reducers schedule, repeat and
cancel; the scheduler's goroutine (`scan`) takes a snapshot of the table and of
the in-flight firings, walks the rows, marks and queues the due ones, blocks on a
full inbox, and waits for a token or the clock; the executor (`exec`) runs a
firing and deletes or advances the row in its transaction, answers, and asks for
another attempt when it failed. A crash loses what the disk does not hold, and a
restart sweeps rows with unknown reducers and replays.

### Store and BTreeIndex

A row is the sequence of its values, an index the set of its mappings. A
transaction keeps its inserts, deletes, next IDs and sequences and the indexes it
builds on first use. Each of Insert, Delete and Update is one step, failed
attempts included; Commit checks again, waits for the readers, applies the
transaction, and appends the changeset to the log. Readers open a snapshot, read
and close in any order. Recovery rebuilds from an export and the changesets after
it, and is compared with the tables themselves.

### Subscriptions

A query is a record of predicate, projection, aggregate and window; results are
bags. `SubscriptionManager` keeps what the code keeps (query states by encoding,
pruning indexes, sets, quotas, delta-index columns) and, as history, the rows a
client that applied the snapshot and all deltas holds. `MCSubscriptionManager`
offers a catalogue of 69 queries: single tables, aggregates, windows,
joins, self-joins, cross joins, event tables and three-way joins, each over every
content of its tables and every transaction of two changes, and a scenario in
which two clients share queries.

### Reads

A statement is its parse tree. The same statement goes through the compiler as a
one-off query and as a subscription, as a declared query and as a view; the answer
is compared with the meaning of the statement over the rows the caller may see.
Scans visit rows in an order of their own, and collectors that are full end the
visit, as the code does.

### Connections and Runtime

For each socket the upgrade handler (`life`), the dispatch loop and one handler
per request (`work`), the supervisor and `Disconnect` (`tear`) interleave with
`CloseAll` and the executor. Several sockets may carry one ConnectionID, which the
client chooses. Each wait of the teardown, and the wait of `OnConnect`, may be
given up; the pair of connection and wait is then in `late`. The executor may
fail: a post-commit panic or a durability failure latches it (`executor =
"fatal"`), after which it admits and executes the two cleanup commands only and
answers the rest with an error; OnConnect may have committed its row when it is
answered so; and the cleanup of OnDisconnect may fail and leave the row. A
connection whose row such a failure left is in `kept`. `faults` bounds how often
this happens. `Runtime` adds Start step by step with
failure at every step, Close step by step, ListenAndServe, a second Runtime over
the same directory and offline users of it. Of the data only horizons are kept:
memory, log, what Start resumes from, and the ID the executor has reached.

## Checks

All bounds are in the `.cfg` files. CHECK_DEADLOCK is off where a bounded model
ends when its IDs, lifetimes, requests or commands are used up.

| Run | Shows | Bounds |
|---|---|---|
| `durability_worker` | `WaitersHearTheTruth`: acknowledged implies fsynced, errors only from a stopping worker, nobody is stranded. `AcceptedIsKept`: contiguous IDs, no send on the closed channel, a clean `Close` loses nothing. Every wait for an enqueued ID ends, `Close` returns | capacity 1, batches of 2, 3 new IDs after a recovered one, segments of 2 records, 1 waiter: the queue fills, a batch crosses a rotation, IDs run out |
| `commit_log` | what was confirmed is recoverable at every point, the resume plan opens, snapshots agree with history, refinement of `DurableHistory` | 3 IDs, 3 lifetimes, 1 record per segment (every append rotates), process crashes and I/O errors |
| `commit_log_power` | recoverability; a snapshot of this process's own commits gets its answer | the same with power loss instead |
| `executor` | `LogIsSound`: log before visibility, no hole in the log, the fatal latch. Nothing after `done`, refinement of `ReducerService`, `Shutdown` returns, commands accepted before it are answered | a call, a command of any kind, a sweep, an inbox of 1, cancelled callers, cancelled `Run` |
| `fan_out` | caches are results without gaps but for deltas that were not encoded, confirmed readers and durable callers wait for the disk, no subscription dies unheard | 2 clients, one a fast reader, 2 commits, all queues of 1, evaluation and durability failures, one message to the second client that is not encoded; a local call of the first client or a durable one of the second makes the first commit, a local call the second |
| `fan_out_live` | held frames fit, keep their order and leave a correct cache; once commits stop, a connected client becomes current in all it is told of | 1 client, 2 commits, outbound queue of 2, a procedure, a message that is not encoded, a failing socket, shutdown; either commit may be one without a caller, the first a quiet call, the second a call with its full answer |
| `subscriptions` | `ViewsAreResults`: snapshot and deltas add up to the query's result. The rows deleted by an unsubscription are those the client holds. `RegistryIsExact`: placements, quotas and query states are exactly those of the live subscriptions | the catalogue, 2 to 4 rows a table, transactions of 2 changes; 2 clients with 2 sets and 3 subscriptions each |
| `store` | every index agrees with its rows, a transaction reads its writes, accepted work commits, the changeset is the net effect, recovery restores, snapshots are points in time | 5 scenarios of 1 or 2 tables, 2 transactions, up to 5 rows, IDs and sequences up to 4; an index of 10 mappings with pages of 8 |
| `reads` | one-off answers are the window of the statement over the visible rows; snapshots of subscriptions and views are the statement's answer | 44 statements, 7 declarations, 3 sets of visibility filters, 3 callers, tables of up to 3 rows |
| `scheduler` | `FiringsAreExact`: nothing runs twice, repeats run for each interval, a mark in flight has one owner, no wakeup is lost. Due rows are queued; the goroutine stops | 2 schedules, intervals 0 and 1, the clock up to 2 (its last instant, so repeats overflow), inbox of 1, 2 calls, 1 crash |
| `runtime` | a served connection is the registered one, a teardown leaves nothing but what a wait given up or a failed lifecycle command explains, the lease covers every use of the directory, a closed runtime is quiet, Close never stalls, a ready runtime has the state of its log | 2 sockets with one ID, up to 2 requests, inbox of 1, one failure of the executor; 2 Starts, 2 Runtimes, a serving, 2 offline operations |
| `mixed_join_delta` | expected to fail, see below | one three-way join |

Two lifetimes are needed to reuse an ID after a crash and three to lose it
again; one record per segment makes rotation, compaction and empty tails
frequent; two commands and a sweep over an inbox of one put a submitter in every
position of `submit` while another is served; queues of one frame make every send
meet a full queue, and a queue of two lets a held frame and a procedure's answer
share it. Two changes are enough to touch both sides of a join, or one row and the
rows a window moves; nine keys over pages of eight split, and merge again when
enough are removed. Two schedules are needed for one to be due while another's scan is under
way, two sockets for a teardown to meet its successor. Two waiters, or more, are
interchangeable for the durability worker, and both fsync modes are covered by the
proofs.

The initial states of `runtime` split its behaviours in five (restarts without
clients, one client during Start, two clients served and closed, one client that
sends too much and an executor that fails, two clients and an executor that
fails), the clients being interchangeable (`SYMMETRY`), because their product is
out of reach; a state in which the runtime is ready is where `Start` leads to.

Fairness. The durability worker, the executor, the drain, a begun `Shutdown` or
`Close`, and a submitter inside `submit` are scheduled (weak fairness): they are
goroutines that can run. A submitter whose `select` has a ready case takes it.
So are the fan-out worker, procedures, the scheduler, and the supervisor of a
stopped connection; a writer that has a frame writes it or fails, as
`WriteTimeout` ensures. Nobody is obliged to submit, subscribe, commit, close,
cancel, crash or restart. `CloseNeverStalls` is an invariant in place of a liveness
property: until Close returns, some step of those it waits for is enabled, and
none of these repeats, so weak fairness of each would let Close return.

### Disagreements found

`mixed_join_delta` is expected to fail. SPEC-004 asks that "the accumulated deltas
applied to the initial snapshot must equal the result of re-evaluating the full
query from scratch". For a multi-way join `multiJoinDeltaRowsByRelation` reads the
relations before the changed one after the transaction for an insert and before it
for a delete. That is right for either alone, but in a transaction that inserts
into one relation and deletes from another the fragments do not add up: TLC inserts
a middle row and deletes the last one, and the client gains a row of a join that is
empty. Joins with projected columns or aggregates are evaluated before and after
instead and are right.

The other disagreements have a configuration each that is not among the runs;
`tlc -config <file> <module>` shows the execution.

| Configuration (module) | Property | Execution, and what the repository says |
|---|---|---|
| `MCCommitLogEmptyTail.cfg` (`MCCommitLog`) | `SnapshotWaitEnds` | a restart resumes on an empty last segment; the worker's durable ID is 0, so a snapshot of the recovered state waits for an ID that will not be reported, holding the executor. `commitlog/durability.go:442`: "Already-durable txIDs return an already-ready channel" |
| `MCCommitLogUnsyncedTail.cfg` (`MCCommitLog`) | `AckedSurvives` | a process is killed between write and fsync; the next one reads the record, confirms it, and a power loss drops it. `docs/operations.md:81` calls the confirmation "the supported fsync-durability acknowledgement" |
| `MCCommitLogSilentLoss.cfg` (`MCCommitLog`) | `AckedSurvives` | a snapshot is written again at its own ID after compaction relied on it; a crash leaves it locked and Build silently starts from snapshot 0. `docs/operations.md:97`: "recover safe history or fail loudly" |
| `MCCommitLogBootstrap.cfg` (`MCCommitLog`) | `BootstrapRestarts` | a crash inside the first snapshot leaves a lock that fails every later Build. `docs/operations.md:91`: "Restart the app binary against the same `DataDir`" |
| `MCExecutorAbandoned.cfg` (`MCExecutor`) | `AcceptedAnswered` | the shutdown drain finds the inbox empty, a submitter sends and leaves, the drain reads an in-flight count of 0 and returns. `executor/executor_test.go:352` fails on "accepted command was abandoned during Shutdown" |
| `MCSubPruning.cfg` (`MCSubscriptionManager`) | `ViewsAreResults` | a disjunction over two relations of a multi-way join is placed by one branch only (`placement.go:454`), and a change the other branch depends on does not select the query |
| `MCSubSnapshot.cfg` (`MCSubscriptionManager`) | `ViewsAreResults` | the initial snapshot of a self-join applies the filter of one alias to both (`register_set.go:719`) |
| `MCReadRequestsLimit.cfg` (`MCReadRequests`) | `RowLimitHolds` | a one-off multi-way join returns before its row limit is checked (`handle_oneoff.go:162`); `protocol/query_limits.go:9` bounds the rows of every answer |
| `MCSchedulerLifecycle.cfg` (`Scheduler`) | `DueIsQueued` | a schedule made by an OnConnect or OnDisconnect reducer wakes nobody (`executor/lifecycle.go` commits without `schedulerNotify`); SPEC-003:614: "When a schedule becomes due, the scheduler enqueues an internal reducer call" |
| `MCFanOutOversized.cfg` (`MCFanOut`) | `CacheHasNoGap` | a light delta cannot be encoded or is over the size limit (`protocol/sender.go:373`), the worker only records it (`fanout_worker.go:252`), and the client applies the next delta over the gap. SPEC-005:950: "Disconnect on buffer overflow rather than drop messages. Dropped deltas would corrupt the client's local cache (it would be missing rows)." |
| `MCRuntimeStranded.cfg` (`MCRuntime`) | `NoRowStranded` | OnConnect commits its row, what follows the commit panics, the client is refused and nobody sends its OnDisconnect; a cleanup that fails leaves its row as well (`executor/lifecycle.go:87`). `executor/executor.go:491`: "Terminal disconnect maintenance remains admitted so fatal state cannot strand subscription ownership or sys_clients rows" |

For this reason the passing runs keep process crashes and power loss apart, do not
write a snapshot twice at one ID, ask for answers only to commands accepted before
the shutdown began, keep inserts and deletes of a plain multi-way join in separate
transactions, leave the two query shapes above out, bound rows of other shapes
only, and let external calls make schedules. The losses of the last two rows do
happen in the passing runs; there the properties name them (`lost`, `kept`).

Four softer observations, exempted by name in the properties. When the waits of a
teardown time out, a reducer that was admitted may commit after the connection's
OnDisconnect, and its subscriptions or its row of `sys_clients` stay (`late`);
`NothingOutlivesTeardown` ties each remnant to the wait that was given up. A row
that stays makes every later connection with its ID fail until the startup sweep.
An answer to Unsubscribe or an evaluation error that cannot be encoded is not
heard (`lost`): the client goes on believing in a subscription that is gone. A
Start that fails after a durability error in its sweep, or whose re-reading of the
directory fails, may be called again although memory and log differ (`stale`). And
after a failed durability wait a fast reader may miss one transaction and see the
next (`CacheIsAResult` stops there).

### What the models assume

- A segment header reaches the disk whole or not at all; a record is whole,
  torn or absent. Directory operations persist in the order they were made.
- Operator commands for snapshots (repair, discard) run while the process is
  down, as SPEC-002 §5.5 has it.
- Compaction lists the directory and decides in one step; removals are single
  steps.
- A failed durability worker leaves the files a process crash would leave.
- A snapshot or fan-out panic is a panic of the call; reducers read and write
  only their transaction.
- Two rows hash alike or not, as the model's `Hash64` has it; a query's digest is
  its encoding.
- `sync.RWMutex` lets a waiting writer go before later readers.
- Work and byte budgets of queries are left out; row budgets are kept.

## Proofs

TLAPS checks, for every value of the constants:

`DurabilityWorkerProofs` (any capacity, batch size, fsync mode, segment size,
recovered ID, set of waiters): the safety properties of the run (`WaitersAnswered`
and `AcceptedKept` combine the theorems of their parts), and that `Close` is final. The
inductive invariant says that the IDs in flight are one contiguous run: the
channel holds the newest accepted ones, the batch the ones before, the segment
ends right before the batch's current item (`Queued`, `Working`), and
`durable <= synced < next` (`Persisted`); the rest ties flags to positions
(`Stopping`, `Enqueuing`). None of the properties is inductive alone: that a
released waiter is covered by an fsync needs the position of the worker in its
batch.

`ExecutorProofs` (any set of commands and kinds, inbox capacity, number of
sweeps, last ID), on the invariant of `ExecutorInvariant`, whose preservation
takes up that module (submitters, sweeps, receive loop),
`ExecutorPipelineProofs` (dispatch to answer) and `ExecutorProofs` (shutdown,
drain, durability): type correctness with at-most-one response, log before
visibility, no hole in the log, at most one late commit under the fatal latch,
nothing after `done`, and the refinement of `ReducerService`. The invariant says
that a queued command is sent, unanswered and without effect (`InboxInv`), that
an answer tells whether there is an effect (`AnswerInv`), that the command at
work has its effect exactly from the commit on and is the last one
(`WorkInv`), that what is not logged is being enqueued or has latched a
durability failure (`LogInv`), that an ordinary command reaches the commit under
the latch only when durability failed after its last check (`FatalInv`), and
who owns the drain (`OwnerInv`).

Assumptions are the named `ASSUME`s of the modules: sizes are positive, the
sweep is not a command. Both invariants were checked with TLC before they were
proved.

Only model-checked: liveness (outside the prover's reach), all of `CommitLog`,
whose recovery is a function of whole directories, `FanOut`, `Scheduler`, `Runtime`
with `Connections`, and `Store`; the query modules are recursive over predicates,
which the prover cannot do induction on.

## Not modelled

- Bytes: wire formats, BSATN, record and snapshot encodings, compression. They are
  pure functions with round-trip and fuzz tests of their own.
- Text: the SQL parser, literal coercion, error wording. Statements are parse trees.
- Construction: modules, schemas, contracts, code generation, the CLI. Nothing
  changes after they ran.
- Authentication: cryptography and clocks; `HandleSubscribe` is its outcome.
- Observability, memory accounting, health: no decision reads them.
- `Host`, which starts several runtimes in order and closes them in reverse, the
  HTTP server, file copying of backups, data directory metadata.
- The handle of a local declared view and procedures' own calls (`declared_read.go`,
  `procedure.go`), and the `replayQueued` map of the scheduler.
- Subscriptions: windows over event tables, byte and work budgets, cancellation in
  the middle of an evaluation, multi-column indexes.
- Fan-out: query IDs used again by one client; which messages cannot be encoded
  (any may fail, a bounded number of times).
- Runtime: commits after Start (they are `Executor`), so the horizons move in
  migrations and sweeps only; a new Runtime is built when no connection is left.
- Exhausted schedule and transaction IDs.
