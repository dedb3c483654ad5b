------------------------------- MODULE PgStore -------------------------------
(***************************************************************************)
(* The Postgres store (PostgresParallelMcpStore in                         *)
(* adapters/postgres/src/store.ts): the same operations as SqliteStore,    *)
(* but each is a transaction of several awaited statements at READ         *)
(* COMMITTED, so that other sessions commit between them.                  *)
(*                                                                         *)
(* runs, tasks, leases and attempts are what is committed; a session keeps *)
(* the rows it has written in its transaction record.  Such a row is       *)
(* locked: another session that wants to write it waits.  A statement sees *)
(* what is committed when it starts, overlaid with the session's own       *)
(* writes; an UPDATE ... WHERE id = $n rewrites the LATEST row, whatever   *)
(* an earlier SELECT of the same transaction has seen.                     *)
(*                                                                         *)
(* Several statements are one step where nothing another session may do    *)
(* between them makes a difference: an attempt and its lease (always       *)
(* written in this order), the SELECTs of assertActiveLease (a lease that  *)
(* has ended stays ended), the last write and COMMIT.                      *)
(*                                                                         *)
(* Abstracted as in SqliteStore, and also client tokens and `kinds'.       *)
(***************************************************************************)
EXTENDS StoreProperties

CONSTANTS Sessions,  \* connections of the pools of all processes
          LeaseMs,   \* the leaseMs of every claim and heartbeat
          SerialCalls \* whether callers await one call about a lease before the next

ASSUME SessionAssumption == LeaseMs \in Nat /\ SerialCalls \in BOOLEAN /\ Null \notin TaskStatuses

VARIABLE tx  \* session -> its open transaction

pgVars == <<vars, tx>>

Nothing == <<>>

\* op: what is called; pc: its next statement; task, lease, run: the rows it is
\* about; to: the status it is to write; count: attempt_count as the sweep read
\* it; todo: the tasks the sweep has listed, or the runs pruneRuns has; next: the
\* derived run status.  The last four are its writes.
NoTx ==
  [op |-> "none", pc |-> "idle", task |-> Null, lease |-> Null, run |-> Null, worker |-> Null,
   to |-> Null, at |-> NoTime, count |-> 0, todo |-> {}, next |-> Null,
   runs |-> Nothing, tasks |-> Nothing, leases |-> Nothing, attempts |-> Nothing]

PgInit == Init /\ tx = [s \in Sessions |-> NoTx]

-----------------------------------------------------------------------------
(* Row versions and row locks.                                               *)

Overlay(own, committed) ==
  [x \in DOMAIN committed |-> IF x \in DOMAIN own THEN own[x] ELSE committed[x]]

RunsSeen(s)     == Overlay(tx[s].runs, runs)
TasksSeen(s)    == Overlay(tx[s].tasks, tasks)
LeasesSeen(s)   == Overlay(tx[s].leases, leases)
AttemptsSeen(s) == Overlay(tx[s].attempts, attempts)

Put(rows, x, row) == [y \in DOMAIN rows \union {x} |-> IF y = x THEN row ELSE rows[y]]

\* No other session has written any of the rows X.
Free(s, table, X) == \A other \in Sessions \ {s} : DOMAIN tx[other][table] \intersect X = {}

At(s, pc) == tx[s].pc = pc

Step(s, new) == tx' = [tx EXCEPT ![s] = new] /\ UNCHANGED vars

Begin(s, new) == At(s, "idle") /\ Step(s, new)

\* ROLLBACK: a lost connection, a victim of deadlock detection, a constraint
\* that is violated, a row that is required and gone.
Abort(s) ==
  /\ ~ At(s, "idle")
  /\ Step(s, NoTx)

Commit(s, last) ==
  /\ runs' = Overlay(last.runs, runs)
  /\ tasks' = Overlay(last.tasks, tasks)
  /\ leases' = Overlay(last.leases, leases)
  /\ attempts' = Overlay(last.attempts, attempts)
  /\ tx' = [tx EXCEPT ![s] = NoTx]
  /\ UNCHANGED <<now, completions, checked>>

-----------------------------------------------------------------------------
(* heartbeatLease, markTaskRunning, pauseTask, completeTask, failTask and    *)
(* releaseTask: check the lease, then write the task, then attempt and lease. *)

LeaveTo == WaitingTaskStatuses \union {"queued", "completed", "failed"}

HolderBegins(s, t, l, w, to) ==
  /\ AssertActiveLease(t, l, w, now)
  /\ to # "heartbeat" => CanTransition(tasks[t].status, to)
  /\ SerialCalls => \A o \in Sessions : tx[o].op = "holder" => tx[o].lease # l
  /\ Begin(s, [NoTx EXCEPT !.op = "holder", !.pc = "task", !.task = t, !.lease = l,
                           !.to = to, !.at = now])

HolderRow(row, to, at) ==
  CASE to = "heartbeat" -> [row EXCEPT !.leaseExpiresAt = at + LeaseMs]
    [] to = "running"   -> [row EXCEPT !.status = "running"]
    [] OTHER            -> WithoutLease(row, to)

HolderLease(row, to, at) ==
  CASE to = "heartbeat" -> [row EXCEPT !.expiresAt = at + LeaseMs]
    [] to = "running"   -> row
    [] OTHER            -> [row EXCEPT !.status = "released"]

HolderAttempt(status, to) ==
  CASE to = "heartbeat"                        -> status
    [] to \in {"running", "completed", "failed"} -> to
    [] OTHER                                   -> "released"

\* A heartbeat does not recompute the run: it commits here.
HolderWritesLease(s) ==
  LET l   == tx[s].lease
      new == [tx[s] EXCEPT
                !.pc = "derive",
                !.leases = Put(@, l, HolderLease(LeasesSeen(s)[l], tx[s].to, tx[s].at)),
                !.attempts = Put(@, l, HolderAttempt(AttemptsSeen(s)[l], tx[s].to))]
  IN  /\ At(s, "lease") /\ tx[s].op = "holder"
      /\ Free(s, "attempts", {l})
      /\ IF tx[s].to = "heartbeat" THEN Commit(s, new) ELSE Step(s, new)

-----------------------------------------------------------------------------
(* resumeTask, requeueDeadTask and enqueueTask.                              *)

ResumeBegins(s, t) ==
  /\ tasks[t].status \in WaitingTaskStatuses
  /\ CanTransition(tasks[t].status, "queued")
  /\ Begin(s, [NoTx EXCEPT !.op = "resume", !.pc = "task", !.task = t])

\* resetAttempts is the default, true; notBefore its default, absent.
RequeueBegins(s, t) ==
  /\ tasks[t].dead
  /\ Begin(s, [NoTx EXCEPT !.op = "requeue", !.pc = "task", !.task = t])

\* EnqueueCheck of SqliteStore, requireRun on the pool, has come before.
EnqueueBegins(s, t) ==
  /\ At(s, "idle")
  /\ t \in checked
  /\ EnqueueAllowed(t)
  /\ tx' = [tx EXCEPT ![s] = [NoTx EXCEPT !.op = "enqueue", !.pc = "insert",
                                          !.task = t, !.at = now]]
  /\ checked' = checked \ {t}
  /\ UNCHANGED <<now, runs, tasks, leases, attempts, completions>>

SameKey(t) == {u \in Tasks \ {t} : Input[t].key # Null /\ Input[u].key = Input[t].key
                                                       /\ RunOf(u) = RunOf(t)}

\* Mutant of Insertable: no unique index on the key.
Insertable_AnyKey(s, t) ==
  tasks[t].status = "absent" /\ Free(s, "tasks", {t}) /\ runs[RunOf(t)] \in RunStatuses

\* The primary key, UNIQUE (run_id, task_key) and the reference to the run.
Insertable(s, t) ==
  /\ tasks[t].status = "absent" /\ Free(s, "tasks", {t})
  /\ Free(s, "tasks", SameKey(t)) /\ SameKey(t) \intersect TasksOf(RunOf(t), tasks) = {}
  /\ runs[RunOf(t)] \in RunStatuses

EnqueueInserts(s) ==
  LET t == tx[s].task
  IN  /\ At(s, "insert")
      /\ Insertable(s, t)
      /\ Step(s, [tx[s] EXCEPT !.pc = "derive", !.tasks = Put(@, t, QueuedTask(tx[s].at))])

-----------------------------------------------------------------------------
(* expireLeasesTx, alone or at the start of claimNextTask.                   *)

SweepBegins(s, op, w) ==
  Begin(s, [NoTx EXCEPT !.op = op, !.pc = "sweep", !.worker = w, !.at = now,
              !.todo = {t \in Tasks : /\ tasks[t].status \in HeldStatuses
                                      /\ tasks[t].leaseExpiresAt # NoTime
                                      /\ tasks[t].leaseExpiresAt < now}])

\* requireTask on a listed id; a task that has lost its lease is passed over.
SweepReads(s) ==
  /\ At(s, "sweep")
  /\ \E t \in tx[s].todo :
       LET row == TasksSeen(s)[t]
           new == [tx[s] EXCEPT !.todo = @ \ {t}]
       IN  /\ row.status \in TaskStatuses
           /\ Step(s, IF row.leaseId = Null THEN new
                      ELSE [new EXCEPT !.pc = "lease", !.task = t, !.lease = row.leaseId,
                                       !.count = row.attemptCount])

SweepWritesLease(s) ==
  LET l == tx[s].lease
  IN  /\ At(s, "lease") /\ tx[s].op \in {"sweep", "claim"}
      /\ Free(s, "attempts", {l})
      /\ Step(s, [tx[s] EXCEPT !.pc = "task",
                    !.leases = Put(@, l, [LeasesSeen(s)[l] EXCEPT !.status = "expired"]),
                    !.attempts = Put(@, l, "expired")])

\* The decision is made on the row as read, the columns of the latest row written.
SweptRow(t, row, count, at) ==
  IF MaxAttemptsReached(t, [row EXCEPT !.attemptCount = count])
    THEN [WithoutLease(row, "failed") EXCEPT !.notBefore = NoTime, !.dead = TRUE]
    ELSE [WithoutLease(row, "queued") EXCEPT
            !.notBefore = ComputeNotBefore(Input[t].retry, count, at)]

-----------------------------------------------------------------------------
(* What the operations on one task share: the UPDATE of its row by id, then  *)
(* recomputeRunStatus, which reads first and writes the run's row later.     *)

NewRow(s, row) ==
  CASE tx[s].op = "holder"  -> HolderRow(row, tx[s].to, tx[s].at)
    [] tx[s].op = "resume"  -> [row EXCEPT !.status = "queued"]
    [] tx[s].op = "requeue" -> RequeuedRow(row, TRUE, NoTime)
    [] OTHER                -> SweptRow(tx[s].task, row, tx[s].count, tx[s].at)

WritesTask(s) ==
  LET t == tx[s].task
  IN  /\ At(s, "task")
      /\ tasks[t].status \in TaskStatuses
      /\ Free(s, "tasks", {t})
      /\ Step(s, [tx[s] EXCEPT !.pc = IF tx[s].op = "holder" THEN "lease" ELSE "derive",
                               !.tasks = Put(@, t, NewRow(s, TasksSeen(s)[t]))])

Derives(s) ==
  LET r == RunOf(tx[s].task)
  IN  /\ At(s, "derive")
      /\ Step(s, [tx[s] EXCEPT !.pc = "settle",
                    !.next = DeriveRunStatus(RunsSeen(s)[r], StatusesIn(r, TasksSeen(s)))])

\* Whether the transaction goes on: only a sweep, and a claim that has not picked.
Sweeping(s) == tx[s].op = "sweep" \/ (tx[s].op = "claim" /\ tx[s].to # "leased")

Settles(s) ==
  LET r   == RunOf(tx[s].task)
      new == [tx[s] EXCEPT !.pc = "sweep", !.task = Null, !.lease = Null, !.count = 0,
                           !.next = Null, !.runs = Put(@, r, tx[s].next)]
  IN  /\ At(s, "settle")
      /\ runs[r] \in RunStatuses
      /\ Free(s, "runs", {r})
      /\ IF Sweeping(s) THEN Step(s, new) ELSE Commit(s, new)

-----------------------------------------------------------------------------
(* The end of a sweep: a claim picks a task, with SKIP LOCKED.               *)

SweepEnds(s) ==
  /\ At(s, "sweep") /\ tx[s].op = "sweep" /\ tx[s].todo = {}
  /\ Commit(s, tx[s])

\* Mutant of Pickable: neither FOR UPDATE nor a check of the latest row.
Pickable_NoLock(s) ==
  {t \in Tasks : Claimable(t, {}, tx[s].at, tasks, runs)}

Pickable(s) ==
  {t \in Tasks : /\ Free(s, "tasks", {t})
                 /\ Claimable(t, {}, tx[s].at, TasksSeen(s), RunsSeen(s))}

ClaimPicks(s, l) ==
  LET at == tx[s].at
      w  == tx[s].worker
  IN  /\ At(s, "sweep") /\ tx[s].op = "claim" /\ tx[s].todo = {}
      /\ leases[l].status = "absent" /\ Free(s, "leases", {l})
      /\ \E t \in Pickable(s) :
           /\ \A u \in Pickable(s) : ~ ClaimedBefore(u, t, TasksSeen(s))
           /\ TasksSeen(s)[t].leaseId = Null
           /\ Step(s, [tx[s] EXCEPT
                !.pc = "derive", !.task = t, !.to = "leased",
                !.tasks = Put(@, t, ClaimedRow(TasksSeen(s)[t], l, w, at + LeaseMs)),
                !.leases = Put(@, l, [status |-> "active", task |-> t, worker |-> w,
                                      expiresAt |-> at + LeaseMs, token |-> Null]),
                !.attempts = Put(@, l, "leased")])

ClaimFindsNothing(s) ==
  /\ At(s, "sweep") /\ tx[s].op = "claim" /\ tx[s].todo = {}
  /\ \A t \in Pickable(s) : TasksSeen(s)[t].leaseId # Null
  /\ Commit(s, tx[s])

-----------------------------------------------------------------------------
(* cancelRun: the run, then its tasks, then attempts and leases.             *)

CancelBegins(s, r) ==
  /\ runs[r] \in RunStatuses \ {"cancelled"}
  /\ Begin(s, [NoTx EXCEPT !.op = "cancel", !.pc = "cancelRun", !.run = r])

CancelsRun(s) ==
  /\ At(s, "cancelRun")
  /\ runs[tx[s].run] \in RunStatuses
  /\ Free(s, "runs", {tx[s].run})
  /\ Step(s, [tx[s] EXCEPT !.pc = "cancelTasks", !.runs = Put(@, tx[s].run, "cancelled")])

CancelsTasks(s) ==
  LET T == {t \in TasksOf(tx[s].run, tasks) : tasks[t].status \notin TerminalTaskStatuses}
  IN  /\ At(s, "cancelTasks")
      /\ Free(s, "tasks", T)
      /\ Step(s, [tx[s] EXCEPT !.pc = "cancelLeases",
                               !.tasks = [t \in T |-> WithoutLease(tasks[t], "cancelled")]])

CancelsLeases(s) ==
  LET L == {l \in Leases : /\ leases[l].status = "active" \/ attempts[l] \in HeldStatuses
                           /\ RunOf(leases[l].task) = tx[s].run}
  IN  /\ At(s, "cancelLeases")
      /\ Free(s, "attempts", L)
      /\ Commit(s, [tx[s] EXCEPT
           !.leases = [l \in L |-> IF leases[l].status = "active"
                                     THEN [leases[l] EXCEPT !.status = "cancelled"] ELSE leases[l]],
           !.attempts = [l \in L |-> IF attempts[l] \in HeldStatuses THEN "cancelled" ELSE attempts[l]]])

-----------------------------------------------------------------------------
(* pruneRuns: lists the runs, then deletes them by id; the rows that refer   *)
(* to a run go with it, and a row somebody has locked is waited for.         *)

PruneBegins(s, statuses) ==
  LET R == {r \in Runs : runs[r] \in statuses}
  IN  R # {} /\ Begin(s, [NoTx EXCEPT !.op = "prune", !.pc = "delete", !.todo = R])

\* Mutant of LeasesOf: only active leases go with their run.
LeasesOf_Active(R) == {l \in Leases : leases[l].status = "active" /\ RunOf(leases[l].task) \in R}

LeasesOf(R) == {l \in Leases : leases[l].status \in LeaseStatuses /\ RunOf(leases[l].task) \in R}

PruneDeletes(s) ==
  LET R == {r \in tx[s].todo : runs[r] \in RunStatuses}
      T == {t \in Tasks : RunOf(t) \in R}
      L == LeasesOf(R)
  IN  /\ At(s, "delete")
      /\ Free(s, "runs", R) /\ Free(s, "tasks", T) /\ Free(s, "attempts", L)
      /\ Commit(s, [tx[s] EXCEPT
           !.runs = [r \in R |-> "pruned"],
           !.tasks = [t \in UNION {TasksOf(r, tasks) : r \in R} |->
                        [AbsentTask EXCEPT !.status = "pruned"]],
           !.leases = [l \in L |-> [AbsentLease EXCEPT !.status = "pruned"]],
           !.attempts = [l \in L |-> "pruned"]])

-----------------------------------------------------------------------------

Begins(s) ==
  \/ \E t \in Tasks, l \in Leases, w \in Workers, to \in LeaveTo \union {"running", "heartbeat"} :
       HolderBegins(s, t, l, w, to)
  \/ \E t \in Tasks : ResumeBegins(s, t) \/ RequeueBegins(s, t) \/ EnqueueBegins(s, t)
  \/ SweepBegins(s, "sweep", Null)
  \/ \E w \in Workers : SweepBegins(s, "claim", w)
  \/ \E r \in Runs : CancelBegins(s, r)
  \/ \E statuses \in PruneFilters : PruneBegins(s, statuses)

Continues(s) ==
  \/ WritesTask(s) \/ HolderWritesLease(s) \/ EnqueueInserts(s)
  \/ SweepReads(s) \/ SweepWritesLease(s) \/ SweepEnds(s)
  \/ \E l \in Leases : ClaimPicks(s, l)
  \/ ClaimFindsNothing(s)
  \/ Derives(s) \/ Settles(s)
  \/ CancelsRun(s) \/ CancelsTasks(s) \/ CancelsLeases(s)
  \/ PruneDeletes(s)

\* createRun inserts one row that nobody waits for; the check of enqueueTask is
\* one SELECT on the pool.
Outside ==
  /\ \/ \E r \in Runs : CreateRun(r)
     \/ \E t \in Tasks : EnqueueCheck(t) \/ EnqueueThrows(t)
     \/ Tick
  /\ UNCHANGED tx

PgNext == (\E s \in Sessions : Begins(s) \/ Continues(s) \/ Abort(s)) \/ Outside

PgSpec == PgInit /\ [][PgNext]_pgVars
=============================================================================
