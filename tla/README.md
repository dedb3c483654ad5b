# A TLA+ model of parallel-mcp

parallel-mcp is a durable orchestrator. Clients create *runs* made of *tasks*,
worker processes claim tasks under time-limited *leases*, and a store (SQLite,
Postgres or memory) keeps runs, tasks, attempts and leases consistent while
workers die, answer late, repeat their calls and race with one another.

The modules here model the three stores operation by operation, the worker loop
that drives them, the event log that tells of them, and the MCP server that
hands them to clients. TLC checks them on small instances. TLAPS proves the
safety properties of the SQLite store and its refinement of `TaskOwnership`,
those of the workers that share it and those of the in-memory store, for every
number of runs, tasks, workers, leases and overlapping calls, and those of the
migrations for every number of processes. Paths below are relative to the repository (`src/` is its root).

Contents: [components](#components) · [modules](#modules) ·
[what is abstracted](#abstractions) · [runs](#runs) · [fairness](#fairness) ·
[findings](#findings) · [proofs](#proofs) · [not modelled](#not-modelled) ·
[plan](#plan)

## Components

| Component | State it keeps | Operations that change it | Talks to |
| --- | --- | --- | --- |
| State machine, `src/src/state-machine.ts` | none | `assertTaskTransition`, `deriveRunStatus` | called by every store |
| SQLite store, `src/src/sqlite-store.ts`, `schema.ts` | tables `runs`, `tasks`, `task_attempts`, `task_leases`, `task_completions`, events, context snapshots | `createRun`, `enqueueTask`, `claimNextTask`, `heartbeatLease`, `markTaskRunning`, `pauseTask`, `resumeTask`, `completeTask`, `failTask`, `releaseTask`, `cancelRun`, `expireLeases`, `requeueDeadTask`, `pruneRuns`, `appendContextSnapshot` | one database file, several processes; SQLite admits one writer |
| Worker loop, `runWorker` in `src/src/worker.ts` | the claimed task, heartbeat/timeout/drain timers, two abort signals, the handler's promise | poll, start, heartbeat, apply the result, time out, drain, stop | the store; other processes only through the store |
| Lease sweeper, `scheduleExpireLeases` in `worker.ts` | a timer, the promise `stopped`, the caller's abort signal | start, tick (`expireLeases`), stop by `stop()`, by the signal or with the process | the store |
| Facades, `orchestrator.ts`, `async-orchestrator.ts` | default `leaseMs` | forward each call | a store |
| Bridge, `sync-to-async.ts` | none | presents the SQLite store as an asynchronous one; `transaction` | the SQLite store |
| Postgres adapter, `src/adapters/postgres/src/store.ts` | the same tables | the same, each a transaction of awaited statements at READ COMMITTED over a connection pool | many processes, truly concurrent |
| In-memory adapter, `src/adapters/memory/src/store.ts` | the same, in `Map`s | the same, each a synchronous stretch, an `await`, and a rest | callers in one process |
| Migrations, `migrations.ts` | `schema_migrations` | read what is applied, apply the rest one by one, when a store is opened | every process that opens the file |
| Event log and listeners, `insertEvent`, `addEventListener`, `listEventsSince`, `transaction` of each store | table `events`, its id counter, the listeners; the subscriber keeps the cursor | an insert inside each operation above; commit, rollback, prune | listeners in the process, subscribers that poll |
| Context snapshots | appended rows | `appendContextSnapshot`, and inside `createRun`, `enqueueTask`, `completeTask` | nobody reads them back |
| MCP server, `src/server` | the store it opened; one HTTP transport | one tool = validation + one orchestrator call, never awaiting in between | clients that repeat calls over a network |

What is hard here, and what makes each part correct:

* **One task lives in three tables.** The task row, its lease and its attempt
  are written by separate statements in nine operations. Correct: they always
  agree on who holds the task until when (`LeaseAgreement`), so that whoever
  looks at the leases sees one holder at a time (`ImplementsOwnership`).
* **A late worker races with expiry.** Heartbeat, answer, sweep and the next
  claim may come in any order, and each takes its timestamp *before* it waits
  for the write lock. Correct: a lease ends once, never before its deadline
  (`LeaseEndsOnce`, `NoPrematureLoss`), and a task completes at most once
  (`OneWinningAttempt`, `OutcomeIsFinal`).
* **The run's status is a cache** of its tasks' statuses that every operation
  must refresh. Correct: it is always the derived one (`RunStatusIsDerived`),
  so nobody works in a run that is over (`TerminalRunIsIdle`).
* **Budgets, delays, dependencies, keys, tokens** are checked in one operation
  and written in another (`AttemptBudget`, `RetryDelayServed`,
  `DependenciesDone`, `KeysUnique`, `CompletionRecordIsTrue`).
* **Three clocks per handler**: the heartbeat interval, the lease deadline and
  the handler's own timeout or grace period. Correct: a handler that was not
  told to stop owns its task (`HandlerOwnsTask`), what the store records is what
  ended the attempt (`VerdictIsRecorded`), an abandoned handler can do no harm
  (`AbandonedIsPowerless`).
* **Progress**: leases of silent workers end, runnable tasks are claimed,
  `stop()` returns, and a subscriber that polls gets every event.
* **The log is the only view from outside.** `cancelRun` tells of all its rows in
  one event, a claim writes the events of its sweep first; ids are drawn before
  the commit, given back by a rollback, deleted by `pruneRuns`. Correct: folding
  the events gives the tables (`LogRebuildsTables`), and table and cursor
  together are a queue (`ImplementsFeed`).
* **Calls are repeated.** A client that misses an answer sends its `clientToken`
  again, perhaps to another process, perhaps while the first call is still on
  its way; the store looks the token up *before* its transaction. Correct: one
  effect, and every later copy is told its result (`ImplementsOnce`).
* **Several processes open one new file.** Each reads the applied migrations once
  and applies the rest in separate transactions (`ServesCurrentSchema`).
* **Interleaved statements** in Postgres, **awaits** in the memory adapter: the
  same promises without the one-writer assumption.

The hazards, each at its line and with the properties that watch it, are listed
in `PROJECT.json`.

## Modules

```
StateMachine ── StatusProperties                      deriveRunStatus on its own
   │
RetryPolicy                                           computeNotBefore
   │
SqliteStore ── StoreProperties ──┬─ StoreRefinement (INSTANCE TaskOwnership) ─┬─ MCSqliteStore
   │                             │        │                                   └─ EventStory ──┬─ MCEventStory
   │                             │        │                                                  └─ StoryProofs
   │                             │        └── MemoryStore ── MemoryProperties ──┬─ MCMemoryStore
   │                             │                                              └─ MemoryProofs
   │                             ├─ PgStore ── PgProperties ──┬─ MCPgStore
   │                             │                           └─ PgProofs
   │                             └─ StoreProofs ── TableProofs
   │
   ├─ Worker ── WorkerProperties ──┬─ MCWorker
   │                               └─ WorkerProofs
   └─ McpServer (INSTANCE Migrations, OnceOnly) ──┬─ MCServer
                                                  └─ ServerProofs
EventLog (INSTANCE EventFeed) ── LogProofs            the log in all four stores
```

(MemoryStore extends StoreProperties; MemoryProperties and TableProofs add
StoreRefinement. TableProofs begins with the proofs about StatusProperties.
WorkerProofs, MemoryProofs, ServerProofs and StoryProofs extend TableProofs
besides the module they are about, PgProofs extends StoreProofs.)

| Module | Models | How |
| --- | --- | --- |
| `StateMachine` | `state-machine.ts`, whole | `CanTransition` is the table behind `assertTaskTransition`; `DeriveRunStatus` is the cascade of `deriveRunStatus` over the *set* of task statuses (no test in it depends on how many tasks share a status). |
| `StatusProperties` | what `recomputeRunStatus` relies on | All task-status combinations of a run, one task changed per step: the cascade matches the table of `docs/lifecycle.md`, recomputing after every single change ends where recomputing once does. |
| `RetryPolicy` | `computeNotBefore`, `toIsoTimestamp` | Delay arithmetic with the two limits of JavaScript dates: `DateLimit` (toISOString throws) and `IsoLimit` (from the year 10000 on, ISO strings sort before four-digit years, so the TEXT comparison of `not_before` is wrong). |
| `SqliteStore` | `sqlite-store.ts` | Variables are the tables (`runs`, `tasks`, `leases`, `attempts`, `completions`), the shared clock `now`, and `checked` (calls of `enqueueTask` between their check on the run and their transaction). One action per operation, atomic as its transaction is. `at` is the caller's timestamp, up to `MaxLag` behind the clock. |
| `StoreProperties` | — | The invariants and action properties of the tables, and the statements of the documentation the code does not keep. |
| `TaskOwnership` | the promise, without tables | Abstract specification: a task has at most one holder; a lease is granted once; a task that is done stays done; a dead one may be revived. |
| `EventStory` | the `insertEvent` calls of `sqlite-store.ts` | Each `Logged…` action is one operation of `SqliteStore` and the events its transaction inserts, in their order. The log itself is not kept: `story` is the fold of it by a subscriber that never sees the tables. |
| `StoreRefinement` | — | Holders are read off the *lease* table, while the operations decide by the *task* row. `ImplementsOwnership` is `TaskOwnership`'s specification under that mapping. |
| `Worker` | `worker.ts` | Adds to the store, per worker, `loop` (`polling → claimed → handling → (failing) → polling`, or `stopped`/`crashed`, with the three timers and the two abort flags), `abandoned` (handlers that still run after a timeout or drain), the history variable `verdict`, and `sweeper`, the one `scheduleExpireLeases` (`new`, `ticking`, `stopped`, or `deaf`: started with a signal that was aborted before). Every store call of the worker is the action of `SqliteStore`, or `Throws`. |
| `PgStore` | the Postgres adapter | `tx[s]` is the open transaction of session *s*: its operation, its next statement, and the rows it has written but not committed. Other sessions see the committed tables; a statement sees them overlaid with its own writes; a row somebody else has written is waited for; `UPDATE … WHERE id` rewrites the latest row. `Abort` may happen at any time: constraint violation, deadlock victim, lost connection. |
| `MemoryStore` | the memory adapter | A method is a synchronous stretch plus a continuation in `pending`, the microtask queue, first in first out. `Settle` is the rest after `await emitEvent`: `recordCompletion`, then `recomputeRunStatus`. Only `completeTask` with `nextContext` awaits *before* its writes too (`CompleteWithContext`, `SnapshotReturns`, `WritesStaleRows`); `WithContext` are the tasks completed so. `Reused` are the ids that callers pass to `createRun` and `enqueueTask` again and again: `Map.set` overwrites the row. `PoisonSpec` adds a sweep that throws half-way. |
| `EventLog` | `insertEvent`, `transaction`, `listEventsSince` of all four stores, `sync-to-async.ts` | A *unit* is one `transaction(fn)`; `fate` says of each event whether it is committed, undone or pruned. `Backend` chooses how `fn`'s calls and its transaction are related: SQLite, the bridge over it, Postgres, memory. `cursor` and `delivered` are the subscriber's. |
| `EventFeed` | the promise, without table, ids and cursor | Abstract specification: a queue; what is handed out is what was published first, each once, and only pruned events are lost. |
| `Migrations` | `runMigrations` in `migrations.ts` | `applied` is the table `schema_migrations`; `opener[p].todo` is what process *p* means to apply, computed once from a table that others go on changing. |
| `McpServer` | `src/server` over the SQLite store | Clients draw a token per call and send it again (`network`), servers open the file as in `Migrations` and work on one call at a time (`job`): `StartsCall` is the lookup that finds nothing, `ClaimTool`, `OutcomeTool` … the transaction afterwards, with the timestamp of before. Tools without a token are one step (`ServesPlainTool`). `effects` is the history of committed results. |
| `OnceOnly` | the promise, without stores and networks | Abstract specification: a call takes effect at most once; until then it may be refused; from then on each copy is told the result. |
| `MC…` | instances | Tasks, runs, retry policies, symmetry, and for `MCSqliteStore` the fairness of the liveness run. |

Mutants stand beside the definition they replace, with a comment naming the
mistake (`EndLease_LeaseStays`, `Heartbeat_Once`, …); every checked property is
violated by at least one of them.

## Abstractions

* **Data.** Payloads, outputs, errors, labels, metadata and the timestamp
  columns nothing reads back are left out. Statuses, counts, ids, deadlines,
  keys, kinds, priorities, dependencies, retry policies and tokens are kept.
* **Ids.** The code draws UUIDs unless the caller passes an id. In SQLite and Postgres
  an id that is in use is refused by the primary key, which is no step; nobody is
  assumed to pass the id of a pruned row again. The memory adapter has no such key, so
  there an id may come again at any time (`Reused`), with the same input as before.
  A deleted row is `pruned`, a row that was never inserted `absent`.
* **One row for lease and attempt.** They are inserted together and point at
  each other, so both tables are indexed by the lease's id.
* **Transactions of SQLite** are atomic steps. What the code does outside the
  transaction is not: the check of `enqueueTask` on the run, and the timestamp.
* **`expireLeases` in one step.** The code visits expired tasks one by one and
  recomputes the run after each; `RecomputeForgetsHistory` shows that the last
  recompute alone decides.
* **A call that throws** rolls back and is no step, unless somebody notices: the
  worker does (`Throws`, `StartFails`, `ReportFails`).
* **pruneRuns** may delete any runs of the requested statuses: the cutoff and the
  limit are the caller's.
* **Postgres**: statements that no other session can tell apart are one step
  (attempt and lease, last write and COMMIT). Client tokens and `kinds` are left
  out. `SerialCalls` says whether callers await one call about a lease before
  the next, as `runWorker` does, or not, as the API permits.
* **Memory**: listeners that call the store from within an event are left out.
  Retry times are representable, except in `PoisonSpec`. A task is *plain* (`Plain`)
  if its id is passed once and it is completed without `nextContext`; what is
  promised of outcomes and holders is promised of plain tasks, while the others are
  overwritten and written stale beside them.
* **Events**: payload fields that no column of the task or run depends on are left
  out. In `EventLog` one event stands for the few that one call inserts, and a
  run is what one unit wrote. DDL and `PRAGMA`s of a migration are abstracted to
  its id.
* **MCP**: JSON, schemas, HTTP status codes, sessions and the bearer token are left
  out: they refuse a call or let it through. The client is external; that it
  keeps its token for repetitions is what `failure-modes.md:33`–`34` asks of it.
  A call that arrives late is a call that is handled late. The `now` that the
  tool `expire_leases` accepts from its caller is the server's clock.
  `OneServerPerCall` says whether two servers may work on copies of one call at
  the same time.
* **Worker**: the pauses between polls are left out (a poll may come at any time),
  observers too. `BusyErrors` lets any store call fail; `PromptTimers` says that
  timers are not late by a whole time unit.

## Runs

All run with `tlc -config <cfg> <module>`. CHECK_DEADLOCK is FALSE because the
system may stop: clocks, ids and calls are bounded, all workers may have exited,
all units may be over.

| Run | Instance | Shows |
| --- | --- | --- |
| `status_function` (`StateMachine.cfg`) | every combination of statuses of three tasks | `deriveRunStatus` is the documented table, insensitive to intermediate recomputes. |
| `store_pair` (`Store_pair.cfg`) | 2 workers, 3 leases, t2 depends on t1, t1 with 2 attempts and a doubling delay; clock to 4, timestamps up to 1 late | The main run: 13 properties over every interleaving of all operations, `ImplementsOwnership` among them. |
| `store_tokens` (`Store_tokens.cfg` on `MCEventStory`) | 2 runs, 3 tasks, two of them with one key, two kinds and priorities, 2 tokens; every write with its events | Keys, idempotency records, no dangling rows, `LogRebuildsTables`. |
| `store_live` (`Store_live.cfg`) | 1 worker, 3 leases, clock to 20 | `LeaseEventuallyEnds`, `RunnableEventuallyClaimed`. |
| `worker_loop` (`Worker_loop.cfg`) | 2 workers, 1 task with 2 attempts, lease 2, timeout 4, drain 1 | Safety of the loop with its timers, `stop`, crash, cancel from here or elsewhere, a sweeper that starts and stops, abandoned handlers that heartbeat. |
| `worker_live` (`Worker_live.cfg`) | 1 worker, store calls may fail, timers may be late | `StopReturns`, `DeadWorkerLosesLease`. |
| `postgres` (`Pg_pool.cfg`) | 2 sessions, 2 tasks with one key, 2 leases | What row locks and SKIP LOCKED do achieve: a claim displaces a holder only after expiring a lease of the task itself (`OnlyASweepDisplaces`); `AttemptBudget`, `KeysUnique`, `NoDanglingRows`. |
| `memory` (`Memory_calls.cfg`) | 2 tasks, 2 leases of length 0, 2 tokens, 2 calls at their await; t1's id is passed again and again, and t1 may be completed with `nextContext`; t2 is plain | `TerminalRunIsIdle`, `RunStatusSettles`, `RecordedOutcomeIsTrue`, `ImplementsPlainOwnership`: what goes wrong with t1 does not reach the run or t2. |
| `event_feed` (`Feed_sqlite.cfg` on `EventLog`) | 3 units of up to 2 calls that commit, throw or are pruned; pages of 2 | `ImplementsFeed`, `UnitAllOrNothing`, `EventuallyDelivered` for SQLite. |
| `server` (`Server_calls.cfg` on `MCServer`) | 2 clients, 2 servers that die and come back, 2 tokens, 1 task with 2 attempts, 4 migrations, clock to 2 | `ImplementsOnce`, `ServesCurrentSchema`. |
| `pg_feed`, `postgres_sweep` | see [findings](#findings) | violated |

**Why the bounds are enough.** The store's invariants relate one task, its lease
and its run; two tasks give dependency, key and run-status interaction, and two
workers with three leases give expiry, re-claim and a late answer from the first
holder. `MaxAttempts` 2 separates retry from dead-letter. The clock bounds let a
lease expire, a delay elapse and the retried lease expire again. In
`worker_loop` the clock passes two heartbeats, the timeout and the drain;
`Horizon` stops new stops and crashes early so that their consequences fall
within the clock. `postgres` needs two sessions because each of its hazards is a
pair of overlapping transactions; leases of length 0 expire at the next tick,
which is all its time (`Pg_outcome.cfg` has a third lease for the second claim). `MaxPending` bounds overlapping calls in memory: one to
be overwritten, one that overwrites. Leases of length 0 serve there too; a heartbeat,
which has no await, then extends nothing, and `store_pair` is the run that is about it.
`event_feed` has one unit more than a page has events and than are needed to
draw ids, roll back and draw them again; an id that is reused shows with two. In
`server`, two tokens are a claim and its outcome, two servers are enough for one
to die over a call that the other gets again, and four is the number of
migrations in `migrations.ts`. For what is proved,
no bound matters.

## Fairness

* `LiveSpec` (`MCSqliteStore`): weak fairness of the clock while a timer is
  pending, of `Expire` (some process runs `scheduleExpireLeases`, or polls:
  every `claimNextTask` sweeps first) and of `Claim` (a `runWorker` loop polls
  until it is stopped). Nobody is assumed to heartbeat, answer, pause, resume,
  cancel or prune. Heartbeats stop at `HeartbeatHorizon`: a worker that
  heartbeats for ever keeps its lease for ever, as it should.
* `WorkerFairness` (`Worker`): weak fairness of what Node's event loop of a
  live process does by itself — leave the loop once the signal is aborted,
  go on after a claim, fire due timers — and of the clock and the sweeper's tick.
  Handlers may hang; stop, crash, cancel, prune, poll and resume need not happen,
  and the sweeper may be stopped.
* `FairLogSpec` (`EventLog`): weak fairness of `Poll`, the subscriber's loop. No
  writer has to commit or go on.

## Findings

Disagreements between the code and what the repository says of it. The first two
are runs of `PROJECT.json`; the others are kept as configurations to be run by
hand, each violating the property it names. A configuration with several
properties has all but one commented out.

| Configuration | Property | What happens |
| --- | --- | --- |
| `Feed_postgres.cfg` | `CursorMissesNothing` | Two transactions draw `events.id` at their INSERT (`store.ts:1539`) and commit in the other order; a subscriber that polls in between keeps the larger id as its cursor and never gets the smaller. `orchestrator.ts:263`. |
| `Pg_outcome.cfg` | `CompletedIsFinal` | `expireLeasesTx` (`store.ts:1117`–`1154`) reads without a lock and updates by id: a task completed in between is requeued. |
| | `ClaimsNeverCollide` | The same race between two claims, each of which sweeps first (`store.ts:484`): both read the expired task; the first requeues it and claims it; the UPDATE of the second, which waited for the row, requeues it again without ending the new lease, and its `FOR UPDATE SKIP LOCKED` finds the task. Two workers, two active leases. `adapters/postgres/README.md:11`, `failure-modes.md:34`. |
| `Store_poison.cfg` | `LeaseEventuallyEnds` | An uncapped exponential delay leaves the range of `Date`; `toISOString` throws inside `expireLeases` (`sqlite-store.ts:165`), the sweep rolls back, every claim starts with that sweep: no lease of any run expires any more. |
| `Worker_longlease.cfg` | `HandlerOwnsTask` | The heartbeat extends by the orchestrator's default, not by the worker's `leaseMs` (`worker.ts:400`), while the interval is a third of the latter (`:221`). |
| `Worker_stop.cfg` | `GraceKeepsTask` | `stop()` aborts the signal, heartbeats cease (`worker.ts:399`), and the lease ends within a `drainTimeoutMs` longer than it. |
| `Pg_runstatus.cfg` | `RunStatusIsDerived` | `recomputeRunStatus` (`store.ts:1568`) of two overlapping transactions: neither sees the other's task, the last write stays. `lifecycle.md:50`. |
| `Pg_held.cfg` | `HeldTaskHasLease` | `cancelRun` or a sweep that commits inside `markTaskRunning` clears the lease columns, then `running` is written over them: no sweep finds the task again. `lifecycle.md:41`. |
| `Memory_context.cfg` | `OutcomeIsFinal` | `completeTask` with `nextContext` awaits between its lease check and its writes (`store.ts:490`) and overwrites a task cancelled meanwhile. The comment at `store.ts:130` excludes such awaits. |
| `Memory_records.cfg` | `RecordsAreKept` | Two overlapping calls with one token both pass `lookupCompletion`; the later record replaces the earlier. |
| | `NoDanglingRows` | A completion is filed for a run pruned during the await. |
| | `LeaseAgreement`, `ImplementsOwnership`, `OutcomeIsFinal` | With `Reused = {t1}`: `enqueueTask` with the id of a task overwrites its row (`store.ts:247`). A held task is queued while its lease stays active, so two workers may hold it; a completed one is done again. SQLite and Postgres refuse the id. |
| | `EveryStatusSettles` | With `Reused = {r1}`: `createRun` with the id of a run makes it `pending` whatever its tasks are (`store.ts:157`), until another call recomputes it. `lifecycle.md:49`. |
| `Memory_poison.cfg` | `LeaseAgreement` | `expireLeasesSync` expires lease and attempt before `computeNotBefore` throws for a retry time out of range (`store.ts:765`): the task stays leased under a lease that has ended, every later sweep and claim throws at it. |
| `Feed_units.cfg` | `UnitAllOrNothing` | Violated with `Backend` postgres: `fn`'s calls use other connections than the transaction (`store.ts:311`); bridge: COMMIT comes before the promise of `fn` is looked at (`sync-to-async.ts:178`); memory: there is no transaction. |
| | `HeardIsStored` | With `Backend` sqlite: listeners are called before COMMIT and hear of events that roll back (`sqlite-store.ts:1455`); `lifecycle.md:66`. |
| `Server_overlap.cfg` | `ImplementsOnce` | Of two copies of a call that overlap, the second has looked the token up too early and is refused by the unique index or the lease check after the first took effect; `README.md:270`, `failure-modes.md:33`. |
| | `ImplementsOnce` | With `OneServerPerCall` and `PruneFilters <- TerminalOnly`: `pruneRuns` deletes the record of a call; a copy that comes afterwards is refused. |
| | `OpeningNeverThrows` | Two processes that open a new file both mean to apply migration 1 (`migrations.ts:92`); the second violates the primary key and its constructor throws. `README.md:261`. |
| `Worker_deaf.cfg` | `AbortedSweeperStops` | `scheduleExpireLeases` with a signal already aborted: the listener never fires and `stopped` never resolves (`worker.ts:672`); `worker.ts:607`. |
| `Store_terminal.cfg` | `TerminalTaskIsFinal` | `requeueDeadTask` leaves a terminal status; `lifecycle.md:39`. |
| | `TerminalRunIsFinal` | A completed run can be cancelled; `types.ts:12`. |
| | `OnlyTerminalRunsArePruned` | `pruneRuns` deletes active runs if asked to; `orchestrator.ts:272`. |
| | `NoTaskJoinsTerminalRun` | `enqueueTask` checks the run before its transaction; `errors.ts:45`. |
| | `RequeuedIsRunnable` | A dead task of a cancelled run is requeued where no claim looks; `sqlite-store.ts:1296`. |
| | `ExhaustedIsNotQueued` | A released last attempt sits in the queue for ever; `failure-modes.md:35`. |
| | `ReleaseConsumesNoAttempt` | `releaseTask` keeps the attempt charged by the claim; `README.md:201` and `authoring-adapters.md:44` say it does not. |
| `Store_year10000.cfg` | `RetryDelayServed` | `not_before` is compared as TEXT, and years of five digits sort first; `README.md:140`. |

The `Store_*` configurations belong to `MCSqliteStore`, `Worker_*` to `MCWorker`,
`Pg_*` to `MCPgStore`, `Memory_*` to `MCMemoryStore`, `Feed_*` to `EventLog`,
`Server_*` to `MCServer`.

What `ImplementsOnce` does *not* say: a refusal is not final. A `complete_task`
that took its timestamp after the deadline is refused; a heartbeat whose
timestamp is older but which commits later revives the lease; a copy of the
refused call then succeeds.

Seen while reading, not covered by a configuration: `failTask` after a timeout is
terminal although `README.md:144` and `authoring-adapters.md:62` promise a retry;
an error thrown while a *completed* outcome is reported turns into `failTask`
(`worker.ts:480`); a `leaseMs` below one second is never heartbeated in time
(`worker.ts:221`); Postgres `completeTask` without metadata overwrites it with
JSON `null`; `appendContextSnapshot` reads its parent before its transaction
(`sqlite-store.ts:880`); `failure-modes.md:32` names BEGIN IMMEDIATE,
better-sqlite3 begins deferred; `lifecycle.md:74`–`76` lists `task.paused`,
`task.heartbeat` and `context_snapshot.appended`, the code emits `task.blocked`
or `task.waiting_input`, `task.lease_heartbeat` and `context.snapshot.created`.

## Proofs

TLAPS proves, for `StatusProperties`' `StatusSpec`, `SqliteStore`'s `Spec`,
`PgStore`'s `PgSpec`, `EventStory`'s `LoggedSpec`, `Worker`'s `WorkerSpec`, `MemoryStore`'s `MemorySpec`,
`EventLog`'s `LogSpec`, `Migrations`' `MigrationSpec` and `McpServer`'s `ServerSpec`, and every
value of their constants:

| Theorem | Module | Says |
| --- | --- | --- |
| `DerivedAsDocumentedHolds`, `RecomputeForgetsHistoryHolds` | `TableProofs` | `deriveRunStatus` is the table of `lifecycle.md`, for any number of tasks; intermediate recomputes do not matter |
| `TypeCorrect` | `StoreProofs` | `Spec => []TypeOK` |
| `LeaseAgreementHolds` | `StoreProofs` | tasks, leases and attempts agree |
| `RunStatusIsDerivedHolds`, `TerminalRunIsIdleHolds` | `TableProofs` | the run's status is never stale; nobody works in a run that is over |
| `RunStatusIsDocumentedHolds` | `TableProofs` | that status is the one of the table in `lifecycle.md` |
| `AttemptBudgetHolds`, `DeadMeansExhaustedHolds`, `BackoffOnlyWhileQueuedHolds` | `TableProofs` | budget, dead letters, retry delay |
| `RetryDelayServedHolds` | `TableProofs` | no retried task is claimed too early, if `RetriesFitCalendar` |
| `NoDanglingRowsHolds`, `KeysUniqueHolds`, `DependenciesDoneHolds` | `TableProofs` | rows refer to rows; keys and dependencies |
| `CompletionRecordIsTrueHolds`, `OneWinningAttemptHolds` | `TableProofs` | records show the outcome; a task completes once |
| `OutcomeIsFinalHolds`, `LeaseEndsOnceHolds`, `NoPrematureLossHolds` | `TableProofs` | what no step does to an outcome or a lease |
| `ImplementsOwnershipHolds`, `ExclusiveOwnershipHolds` | `TableProofs` | the store implements `TaskOwnership`, so one holder at a time |
| `LogRebuildsTablesHolds` | `StoryProofs` | folding the events gives the tables, however many tasks one sweep or one cancellation is about |
| `StoryFollowsStore` | `StoryProofs` | `LoggedSpec => Spec`: writing events changes no behaviour of the store |
| `WorkersUseTheStore` | `WorkerProofs` | `WorkerSpec => Spec`: all of the above holds of the tables that workers share |
| `VerdictIsRecordedHolds`, `AbandonedIsPowerlessHolds`, `StoppedLeavesNoLeaseHolds` | `WorkerProofs` | the worker and the store agree on how an attempt ended, if `Calm` |
| `HandlerOwnsTaskHolds` | `WorkerProofs` | a handler not told to stop holds its lease, if `Calm` and `Proportionate` |
| `MemoryImplementsOwnershipHolds` | `MemoryProofs` | on plain tasks the in-memory store implements `TaskOwnership`, whatever is overwritten or written stale beside them |
| `RunStatusSettlesHolds`, `MemoryTerminalRunIsIdleHolds` | `MemoryProofs` | the status of a run created once is late only while a call about it waits; no run that is over is worked on |
| `RecordedOutcomeIsTrueHolds` | `MemoryProofs` | what is filed after the await of a plain task is still true |
| `OnlyASweepDisplacesHolds` | `PgProofs` | in Postgres a claim takes a task from its holder only if it has itself expired a lease of that task |
| `PgAttemptBudget` | `PgProofs` | no task is handed out more often than `maxAttempts` allows |
| `PgKeysUnique`, `PgNoDanglingRows`, `PgTypeCorrect` | `PgProofs` | what sessions commit has unique keys and refers to rows that exist |
| `UnitAllOrNothingHolds` | `LogProofs` | `transaction(fn)` stores all its events or none, if `Backend = "sqlite"` |
| `ImplementsFeedHolds` | `LogProofs` | events table and cursor implement the queue `EventFeed`, if `Backend = "sqlite"` |
| `SchemaIsCurrentHolds`, `AppliedInOrderHolds` | `ServerProofs` | a process that has the file open finds every migration applied; they are applied in order |
| `ServerOpensFiles`, `ServesCurrentSchemaHolds` | `ServerProofs` | the servers together implement `MigrationSpec`, so both hold of them: `ServesCurrentSchema` |
| `ServersUseTheStore` | `ServerProofs` | `ServerSpec => Spec`: all of the store's theorems hold of the tables behind the tools |
| `ImplementsOnceHolds` | `ServerProofs` | calls with a token are `OnceOnly`, if `OneServerPerCall` and nothing is pruned |

*Assumptions* (TLC evaluates them in each run): `NullAssumption` (NULL is not an
id), `InputAssumption` (calls are of the declared types), `BoundsAssumption`
(durations and bounds are natural numbers, prune filters are statuses),
`LimitsAssumption` (the two date limits are natural numbers), `WorkerAssumption`
(durations and filters the loops use are among those the store is called with),
`SessionAssumption` (NULL is no session, and not the name of a status),
`PendingAssumption` and `ServerAssumption` (the bound on waiting calls and
migration ids are natural numbers, reused ids and tasks with context are ids of runs and
tasks; NULL is no call and no row), and of `EventLog`
`BackendAssumption` (one of the four stores) and its `LimitsAssumption` (a limit is
a natural number, a page is not empty). The clock bound and `MaxLag` are arbitrary; ids
may be infinitely many.

*Hypotheses.* Eight theorems hold under a condition on the constants, named and
written in the theorem. Each condition is one the code needs:

* `RetriesFitCalendar`: no retry delay that a task's budget allows ends beyond the
  year 9999. `Store_pair` satisfies it; `Store_year10000.cfg` does not, and violates
  `RetryDelayServed`.
* `Calm` is `~ BusyErrors /\ MaxLag = 0`: store calls throw for their own reasons
  only, and with the time they run at. A `completeTask` that throws `SQLITE_BUSY`
  is reported as failed (`worker.ts:480`), and a stamp taken earlier lets a
  handler whose deadline is past heartbeat, so that its lease outlives the
  loop that has given up on it. `Worker_loop` is calm.
* `Proportionate`: timers are prompt, and the time to the next heartbeat fits
  into every duration a lease is granted or extended for. `Worker_loop` satisfies
  it; `Worker_longlease.cfg` does not, and violates `HandlerOwnsTask`.
* `Backend = "sqlite"`: the other three stores violate both properties of the log
  (`Feed_units.cfg`, `Feed_postgres.cfg`). `Feed_sqlite` is the run.
* `OneServerPerCall` and `PruneFilters = {}`: no two servers work on copies of one
  call at a time, and no completion record is deleted. `Server_calls` is such an
  instance; `Server_overlap.cfg` violates `ImplementsOnce` without either.

*The store.* `LeaseAgreement` is not inductive on its own. `requeueDeadTask`
tests the `dead` flag alone: it keeps agreement only because a dead task is
failed, hence idle (`DeadIsFailed`). `enqueueTask` overwrites a row that must
not be held: a task whose check has passed is still absent
(`CheckedIsAbsent`). So the invariant is

    IInv == TypeOK /\ LeaseAgreement /\ DeadIsFailed /\ CheckedIsAbsent

`StoreProofs` states the agreement as a relation `Agree(T, L, A)` between three
tables, so that the sweep at the start of `claimNextTask` can be treated as a
change of tables of its own: `Vacate` (a set of tasks leaves its leases) and
`Grant` (one idle task gets a fresh lease) preserve it, and each operation is one
of them, or both in a row. Each operation then has one lemma (`…Sound`), which also
states how it may change a row (`RowStep`); the retry invariants follow from
that. `TableProofs` adds `RunStatusIsDerived` and `TaskHasRun` to `IInv` (a task's run
has a row): most operations end in a recompute (`RecomputedSound`,
`DeriveIdempotent`); `cancelRun` does not recompute and needs that no held task is
left; `heartbeatLease` changes no status. The table of
`lifecycle.md` is used at each run: `RunStatusIsDocumentedHolds` applies
`DocumentedStatus` to the statuses of its tasks.

Its second half describes every operation but `pruneRuns` by what it does to one
lease (`LeaseStep`), one task and the completion records together (`Persists`),
and `pruneRuns` and `enqueueTask` by the rows they remove and add. The invariant
`TableInv` adds to `RunInv` what each property needs to be kept: a lease has a task
with a row, a task's dependencies have rows in its own run, a row that is new has
no attempts, a completed task has exactly one completed attempt
(`WinnersAreDone`, `OneWinnerEach`, `DoneHasWinner`), and a task with a completion
record is not dead — which is why `requeueDeadTask`, that resets a failed task,
never contradicts a record. `DependenciesDone` leans on completed being final
and on `pruneRuns` deleting whole runs.

A third part takes the same operations by what they do to the lease table:
each is one step of `TaskOwnership` or a stutter. A claim is one step although it
sweeps first, since `Grant(S, p, t, l)` takes the tasks `S` from their holders
and gives `t` to `p`. The refinement needs `IInv`: a dead task has no holder to
lose, an absent one is not overwritten. That a task then has one holder is
proved of the abstract specification, with its type invariant, and carried over
(`OwnershipInv`).

*The workers.* Every action of `WorkerNext` is brought into one of a few forms
(`WorkerForm`: rests, claims, begins, beats, beats in vain, leaves…) that say what
the loop, the handlers it abandoned and the leases do together; this is also
where it is shown to be a step of the store (`Fits`). Three invariants follow,
each with the hypotheses it needs:

    WorkerInv  a busy loop and an abandoned handler name their own lease, no two
               of them the same one
    CalmInv    a lease left behind is past its deadline for good (AbandonedSpent,
               FailingSpent); every live lease is that of a busy or crashed loop
    BeatInv    the next heartbeat comes before the lease ends (BeatInTime)

*The in-memory store.* Its operations write the same rows as the SQLite store's
before they wait, but `IInv` is of no use: with an id that is passed twice, or with
`nextContext`, tasks, leases and attempts disagree, and a lease may be active on a
task that is queued. The theorems have no condition on `Reused` and `WithContext`;
each says for which runs or tasks it speaks. They rest on two invariants.

`MemInv` is about runs and records, and needs of a row only what an overwritten one
has too (`RowFits`: dead means failed, a lease column means held):

* `RunStatusSettles`: a status is out of date only if a call about the run waits.
  Inductive because a recompute brings a run up to date whatever was recomputed
  before it (`SettledSound`), and every stretch that changes a status of a task
  joins the queue (`CallJoins`, `CallRejoins`) or recomputes at once.
* `TerminalRunIsIdle`, which does not follow from a derived status: a run that
  is recomputed late is over only if none of its tasks is held *then*, and a claim
  takes tasks of active runs only. An overwritten row is queued, a stale one
  completed: neither is held.
* `RecordsFit`: an outcome of a plain task that waits to be filed, or is filed, is the
  outcome of its task, and no two of them are about one task. A plain task that is
  decided is not taken back, because `requeueDeadTask` wants a dead one and
  `failTask` leaves the flag alone.

`OwnInv` adds who holds a plain task: its row and the active leases on it name each
other (`HoldersFit`). For that to stay, nothing that happens to another task may
touch such a lease, although operations find leases through rows and calls write
rows they read long ago. What a row of another task names (`ForeignFit`), and what a
waiting `completeTask` with `nextContext` is about (`ContextFit`), is a lease that was
granted and is not on a plain task; and a lease never changes its task. Each
operation is then a step of `TaskOwnership` on the plain tasks. `Revoke` lets leases be
granted outside them, for a claim of another task whose sweep takes plain ones from
silent holders.

Nothing is proved of `PoisonSpec`, for which `Memory_poison.cfg` violates
`LeaseAgreement`.

*Postgres.* Nothing in `PgStore` keeps task and lease agreeing (`Pg_outcome.cfg`,
`Pg_held.cfg`), so `IInv` is of no use there. What can be kept
is that rows refer to rows. The invariant `PgInv` says it of the committed tables
(`Tables`) and of each open transaction:

* `Fits`: what it has written would keep `Tables` if it committed now. A task row
  of a claim or sweep stands beside a lease of the task that it has expired, an
  enqueued row beside no other.
* `Control` and `Aim`: where in its operation it is, and that the rows its next
  statement names exist, as far as it has locked them.
* `Apart`: no two sessions have written one row: the row locks.

Others commit meanwhile, but only so much (`Advances`: rows nobody else has written,
a lease only on a task that had none or by a sweep, a deleted row for good), and
what fits goes on fitting (`FitsStays`). One case does not: a sweep has expired a
lease whose task is then pruned. It cannot go on, since the foreign keys are
gone; `Doomed` names it, and that it aborts. `CommittedTasks` says what the tables
gain from a step: nothing, one session's rows, or deletions. `OnlyASweepDisplacesHolds`
follows from it and `Handed`. For the budget, `BudgetInv` speaks of the rows
not yet committed too (`Charged`): each is written, under its lock, with the count
of the row before it, with zero, or with one more than a count below the limit
(`Charges`). The stale count a sweep has read only decides between queue and
dead letter; it is never written.

*Migrations.* The invariant (`MigrationInv`) is that what a process means to apply covers what
is missing (`MissingIsPlanned`), though its list may be out of date: the table
only grows, and a process whose list contains something applied meanwhile
throws. `AppliedInOrder` follows, because the first migration of such a list
that is not applied is the first that is missing. No step of a client, of the
network or of a tool touches the schema (`ServerStepsOpenFiles`), so the
server's steps are steps of `Migrations` or stutters.

*The event log.* The ids are in the order of the commits although a rollback
gives ids back and a later unit draws them again. The invariant `LogInv` says why:
one unit is open at a time (`OneWriter`); a unit's phase says how its events can be
(`FateFits`, from which `UnitAllOrNothing` follows); the ids of open events lie
after those of all committed ones and after the cursor (`IdsInv`), and there are
exactly as many of them as ids drawn since the last commit, so that giving them back leaves the
counter where that commit left it (`Base`). The queue of `EventFeed` is the list of
the visible events beyond the cursor, in the order of their ids. That list is a
function of a set (`InOrder`), so what the steps do to it needs lemmas about listing
a finite set by distinct numbers: the list of a union whose parts are in order is
the concatenation (`RankedConcat`: a commit), the list of what a page holds is
a prefix (a poll), the list of a part keeps the order (`RankedPart`: a prune).

*The events.* The subscriber of `EventStory` folds lists whose length depends on how
many leases a sweep finds expired and how many runs change status. `Told` is a
recursive function on `0 .. Len(es)`; that it exists, and is what its equation says,
is proved by extending it one event at a time. Each of these steps needs an
induction, and the library's induction theorems cannot be instantiated; `Climb`
does the same for a *set* of indices, from the fact that `<` is well-founded on the
naturals. Then `ToldBoth` folds a concatenation in two parts, and `SweepTold` and
`ChangesTold` show that the order in which the tasks of a sweep are visited does
not matter, because each event is about one task and each task is visited once.
Listing them takes a finite set: `FewRows`, finitely many tasks have rows, although
the set of ids may be infinite. `StoryInv` is `IInv`, `FewRows` and the property; the
agreement in `IInv` is used where a `task.resumed` clears lease columns that the code
does not touch (they are NULL already).

*The server.* `ServersUseTheStore` needs that what a server works on is a call of
the store's types taken at a time that is not in the future (`ServerType`). Calls
with a token are once-only because of three facts (`OnceInv`): an effect that is
told is recorded in the tables under its token, as a lease or a completion
record (`EffectFits`), and the store's steps keep those while nothing is pruned;
a server works only on a call that had no effect when it looked
(`JobsAreNew`) — with copies one at a time that stays so; and a token nobody drew
has none (`AbsentHasNoToken`).

*Only model-checked:* the four liveness properties and `EventuallyDelivered`, nothing
else that a passing run checks. *Out of the prover's reach:* liveness under
fairness and ENABLED; the induction theorems of the library (see
`Climb` above). No RECURSIVE definition is used: the tables are functions,
`StatusesIn` a set, `Told` and `Flat` recursive functions.

## Not modelled

* Facades: they forward each call; their default `leaseMs` is `DefaultLeaseMs` of
  `Worker`.
* Read-only operations: nothing to interleave that the writers do not show; the
  one that readers depend on, `listEventsSince`, is `Poll` of `EventLog`.
* Context snapshots: rows that are only appended. No status, lease or claim
  depends on them, and no document states a property of the chain of parents
  beyond what the foreign keys enforce: `appendContextSnapshot` reads its parent
  before its transaction, so two appends may get the same one. What the awaits
  around them do in memory is in `MemoryStore`.
* MCP: `append_context_snapshot`, the tools that only read, HTTP sessions and
  status codes, the bearer token.
* Postgres: client tokens and `kinds`. Memory: listeners that call the store.
* Testkit, benchmarks, examples: test code; quoted where it makes a claim.

## Plan

Done: the state machine; the SQLite store with its abstract specification and its
events; the worker and the sweeper; Postgres; memory; the event log of all four
stores; migrations and the MCP server; proofs of every safety property of the
SQLite store, of its refinement of `TaskOwnership`, of the workers, of the
in-memory store, of the migrations, of the event log as a queue and of calls with
a token, and that the events rebuild the tables.
Of Postgres, the proofs are about what its commits keep: `AttemptBudget`,
`KeysUnique`, `NoDanglingRows`, `OnlyASweepDisplaces`. Left for later: client tokens
and `kinds` in Postgres, listeners that call the store in memory.
