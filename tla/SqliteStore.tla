----------------------------- MODULE SqliteStore -----------------------------
(***************************************************************************)
(* The durable store of parallel-mcp (SqliteParallelMcpStore in            *)
(* src/src/sqlite-store.ts): runs, tasks, attempts, leases and completion  *)
(* records, and one action per public operation that writes.               *)
(*                                                                         *)
(* SQLite admits one writer, so the body of db.transaction() is one atomic *)
(* step, whichever process runs it.  What the code does BEFORE it opens    *)
(* the transaction is a step of its own or a stale input:                  *)
(*   - enqueueTask reads the run's status first (EnqueueCheck) and inserts *)
(*     later (EnqueueTask);                                                *)
(*   - every operation takes its timestamp `at' before it waits for the    *)
(*     write lock, so `at' may lag behind the clock by up to MaxLag.       *)
(* A call that throws rolls back and leaves every table unchanged, hence   *)
(* is no step, except that an enqueueTask in flight is then over.          *)
(*                                                                         *)
(* Abstracted: payloads, labels, metadata and errors; timestamp columns    *)
(* nothing reads back (updated_at, started_at, ...); the event log; the    *)
(* context snapshots.  An attempt and its lease are inserted together and  *)
(* point at each other, so both are indexed by the lease's id.             *)
(***************************************************************************)
EXTENDS StateMachine, RetryPolicy, FiniteSets

CONSTANTS
  Runs, Tasks, Workers, Leases, Tokens, \* ids; each is used for one row only
  Null,              \* SQL's NULL in a column of ids
  Input,             \* what enqueueTask is called with for each task
  LeaseDurations,    \* the leaseMs that workers ask for
  KindFilters,       \* the `kinds' that workers ask for; {} means any
  PruneFilters,      \* the `statuses' that pruneRuns is called with
  MaxTime,           \* bound: the clock stops here
  MaxLag             \* bound: how long a caller waits for the write lock

InputRecords ==
  [run : Runs, key : STRING \union {Null}, kind : STRING, priority : Int,
   dependsOn : SUBSET Tasks, maxAttempts : Nat \union {Null}, retry : RetryPolicies]

ASSUME NullAssumption ==
  Null \notin Runs \union Tasks \union Workers \union Leases \union Tokens

ASSUME InputAssumption == Input \in [Tasks -> InputRecords]

ASSUME BoundsAssumption == /\ LeaseDurations \subseteq Nat
                           /\ PruneFilters \subseteq SUBSET RunStatuses
                           /\ MaxTime \in Nat
                           /\ MaxLag \in Nat

VARIABLES
  now,          \* the wall clock the processes share
  runs,         \* run -> its status
  tasks,        \* task -> its row
  leases,       \* lease -> its row
  attempts,     \* lease -> the status of the attempt inserted with it
  completions,  \* client token -> the outcome recorded under it, or Null
  checked       \* tasks whose enqueueTask has passed the check on the run

vars == <<now, runs, tasks, leases, attempts, completions, checked>>

-----------------------------------------------------------------------------
(* Rows.  "absent" is an id no row has yet, "pruned" one whose row is gone.  *)

NoRow == {"absent", "pruned"}

LeaseStatuses   == {"active", "released", "expired", "cancelled"}
AttemptStatuses == {"leased", "running", "completed", "failed",
                    "expired", "released", "cancelled"}

TaskRows ==
  [status : TaskStatuses \union NoRow, attemptCount : Nat, leaseId : Leases \union {Null},
   leasedBy : Workers \union {Null}, leaseExpiresAt : Int, notBefore : Int,
   dead : BOOLEAN, createdAt : Int]

LeaseRows ==
  [status : LeaseStatuses \union NoRow, task : Tasks \union {Null},
   worker : Workers \union {Null}, expiresAt : Int, token : Tokens \union {Null}]

AbsentTask ==
  [status |-> "absent", attemptCount |-> 0, leaseId |-> Null, leasedBy |-> Null,
   leaseExpiresAt |-> NoTime, notBefore |-> NoTime, dead |-> FALSE, createdAt |-> NoTime]

AbsentLease ==
  [status |-> "absent", task |-> Null, worker |-> Null, expiresAt |-> NoTime, token |-> Null]

Init ==
  /\ now = 0
  /\ runs = [r \in Runs |-> "absent"]
  /\ tasks = [t \in Tasks |-> AbsentTask]
  /\ leases = [l \in Leases |-> AbsentLease]
  /\ attempts = [l \in Leases |-> "absent"]
  /\ completions = [k \in Tokens |-> Null]
  /\ checked = {}

-----------------------------------------------------------------------------
(* Helpers shared by the operations.                                         *)

Stamps == {n \in 0 .. now : now =< n + MaxLag}

RunOf(t) == Input[t].run

TasksOf(r, T) == {t \in Tasks : RunOf(t) = r /\ T[t].status \in TaskStatuses}

StatusesIn(r, T) == {T[t].status : t \in TasksOf(r, T)}

\* recomputeRunStatus for each run of R, after the task table has become T.
Recompute(R, T) ==
  [r \in Runs |-> IF r \in R THEN DeriveRunStatus(runs[r], StatusesIn(r, T)) ELSE runs[r]]

\* The row with its three lease columns cleared and status s.
WithoutLease(row, s) ==
  [row EXCEPT !.status = s, !.leaseId = Null, !.leasedBy = Null, !.leaseExpiresAt = NoTime]

\* assertActiveLease returns instead of throwing.
AssertActiveLease(t, l, w, at) ==
  /\ tasks[t].leaseId = l
  /\ tasks[t].leasedBy = w
  /\ tasks[t].leaseExpiresAt >= at
  /\ leases[l].status = "active"
  /\ leases[l].worker = w

\* Mutant of MaxAttemptsReached: off by one.
AttemptsExceeded(t, row) ==
  Input[t].maxAttempts # Null /\ row.attemptCount > Input[t].maxAttempts

MaxAttemptsReached(t, row) ==
  Input[t].maxAttempts # Null /\ row.attemptCount >= Input[t].maxAttempts

-----------------------------------------------------------------------------
(* Runs and the queue.                                                       *)

CreateRun(r) ==
  /\ runs[r] = "absent"
  /\ runs' = [runs EXCEPT ![r] = "pending"]
  /\ UNCHANGED <<now, tasks, leases, attempts, completions, checked>>

\* enqueueTask before its transaction: the run exists and is not terminal.
EnqueueCheck(t) ==
  /\ tasks[t].status = "absent"
  /\ t \notin checked
  /\ runs[RunOf(t)] \in RunStatuses \ TerminalRunStatuses
  /\ checked' = checked \union {t}
  /\ UNCHANGED <<now, runs, tasks, leases, attempts, completions>>

\* Mutant of EnqueueAllowed: the key is not looked up inside the transaction.
EnqueueAllowed_AnyKey(t) ==
  /\ runs[RunOf(t)] \in RunStatuses
  /\ Input[t].dependsOn \subseteq TasksOf(RunOf(t), tasks) \ {t}

\* What the transaction of enqueueTask verifies: the run's row is still there,
\* the key is new, every dependency is another task of the same run.
EnqueueAllowed(t) ==
  LET siblings == TasksOf(RunOf(t), tasks)
  IN  /\ runs[RunOf(t)] \in RunStatuses
      /\ \/ Input[t].key = Null
         \/ \A s \in siblings : Input[s].key # Input[t].key
      /\ Input[t].dependsOn \subseteq siblings \ {t}

QueuedTask(at) == [AbsentTask EXCEPT !.status = "queued", !.createdAt = at]

EnqueueTask(t, at) ==
  /\ t \in checked
  /\ EnqueueAllowed(t)
  /\ tasks' = [tasks EXCEPT ![t] = QueuedTask(at)]
  /\ runs' = Recompute({RunOf(t)}, tasks')
  /\ checked' = checked \ {t}
  /\ UNCHANGED <<now, leases, attempts, completions>>

EnqueueThrows(t) ==
  /\ t \in checked
  /\ ~ EnqueueAllowed(t)
  /\ checked' = checked \ {t}
  /\ UNCHANGED <<now, runs, tasks, leases, attempts, completions>>

-----------------------------------------------------------------------------
(* Lease expiry: every table after expireLeases({now: at}).  The code visits *)
(* the expired tasks one by one; StatusProperties checks that recomputing a  *)
(* run after each of them ends where recomputing it once does.               *)

\* Mutant of Expired: expires a lease at its deadline instead of after it.
Expired_AtDeadline(at) ==
  {t \in Tasks : tasks[t].status \in HeldStatuses /\ tasks[t].leaseExpiresAt =< at}

\* Mutant of Expired: looks at leased tasks only, not at running ones.
Expired_LeasedOnly(at) ==
  {t \in Tasks : tasks[t].status = "leased" /\ tasks[t].leaseExpiresAt < at}

Expired(at) ==
  {t \in Tasks : /\ tasks[t].status \in HeldStatuses
                 /\ tasks[t].leaseExpiresAt < at
                 /\ tasks[t].leaseId # Null}

ExpiredLeases(at) == {tasks[t].leaseId : t \in Expired(at)}

RetryAt(t, at) == ComputeNotBefore(Input[t].retry, tasks[t].attemptCount, at)

\* Mutant of ExpiredRow: every expired task is dead-lettered.
ExpiredRow_AlwaysDead(t, at) ==
  [WithoutLease(tasks[t], "failed") EXCEPT !.notBefore = NoTime, !.dead = TRUE]

ExpiredRow(t, at) ==
  IF MaxAttemptsReached(t, tasks[t])
    THEN [WithoutLease(tasks[t], "failed") EXCEPT !.notBefore = NoTime, !.dead = TRUE]
    ELSE [WithoutLease(tasks[t], "queued") EXCEPT !.notBefore = RetryAt(t, at)]

TasksAfterExpiry(at) == [t \in Tasks |-> IF t \in Expired(at) THEN ExpiredRow(t, at) ELSE tasks[t]]

LeasesAfterExpiry(at) ==
  [l \in Leases |-> IF l \in ExpiredLeases(at) THEN [leases[l] EXCEPT !.status = "expired"]
                                               ELSE leases[l]]

AttemptsAfterExpiry(at) ==
  [l \in Leases |-> IF l \in ExpiredLeases(at) THEN "expired" ELSE attempts[l]]

\* toISOString throws for none of the retry times, so the transaction commits.
ExpiryCommits(at) ==
  \A t \in Expired(at) : MaxAttemptsReached(t, tasks[t]) \/ Representable(RetryAt(t, at))

\* Also a claimNextTask that finds nothing to claim.
ExpireLeases(at) ==
  /\ Expired(at) # {}
  /\ ExpiryCommits(at)
  /\ tasks' = TasksAfterExpiry(at)
  /\ leases' = LeasesAfterExpiry(at)
  /\ attempts' = AttemptsAfterExpiry(at)
  /\ runs' = Recompute({RunOf(t) : t \in Expired(at)}, tasks')
  /\ UNCHANGED <<now, completions, checked>>

-----------------------------------------------------------------------------
(* Claiming.                                                                 *)

\* Mutant of Claimable: a dependency that is over counts as done.
Claimable_AnyOutcome(t, kinds, at, T, R) ==
  /\ T[t].status = "queued"
  /\ R[RunOf(t)] \notin TerminalRunStatuses
  /\ NullOrAtMost(T[t].notBefore, at)
  /\ ~ MaxAttemptsReached(t, T[t])
  /\ \A d \in Input[t].dependsOn : T[d].status \in TerminalTaskStatuses
  /\ kinds = {} \/ Input[t].kind \in kinds

\* Mutant of Claimable: not_before is not looked at.
Claimable_AtOnce(t, kinds, at, T, R) ==
  /\ T[t].status = "queued"
  /\ R[RunOf(t)] \notin TerminalRunStatuses
  /\ ~ MaxAttemptsReached(t, T[t])
  /\ \A d \in Input[t].dependsOn : T[d].status = "completed"
  /\ kinds = {} \/ Input[t].kind \in kinds

\* Mutant of Claimable: a task with a retry delay is left out for good.
Claimable_NeverDelayed(t, kinds, at, T, R) ==
  Claimable_AtOnce(t, kinds, at, T, R) /\ T[t].notBefore = NoTime

\* The WHERE clause of claimNextTask over the tables T and R.
Claimable(t, kinds, at, T, R) ==
  /\ T[t].status = "queued"
  /\ R[RunOf(t)] \notin TerminalRunStatuses
  /\ NullOrAtMost(T[t].notBefore, at)
  /\ ~ MaxAttemptsReached(t, T[t])
  /\ \A d \in Input[t].dependsOn : T[d].status = "completed"
  /\ kinds = {} \/ Input[t].kind \in kinds

\* ORDER BY priority DESC, created_at ASC
ClaimedBefore(t, u, T) ==
  \/ Input[t].priority > Input[u].priority
  \/ Input[t].priority = Input[u].priority /\ T[t].createdAt < T[u].createdAt

\* Mutant of ClaimedRow: the two ids are bound in the wrong order.
ClaimedRow_SwappedIds(row, l, w, expiresAt) ==
  [row EXCEPT !.status = "leased", !.attemptCount = @ + 1, !.leaseId = w, !.leasedBy = l,
              !.leaseExpiresAt = expiresAt, !.notBefore = NoTime]

ClaimedRow(row, l, w, expiresAt) ==
  [row EXCEPT !.status = "leased", !.attemptCount = @ + 1, !.leaseId = l, !.leasedBy = w,
              !.leaseExpiresAt = expiresAt, !.notBefore = NoTime]

\* A clientToken that is already on a lease replays that lease (rehydrateLease)
\* or violates the unique index: either way nothing is written.
ClaimNextTask(w, l, k, kinds, ms, at) ==
  LET T == TasksAfterExpiry(at)
      R == Recompute({RunOf(t) : t \in Expired(at)}, T)
  IN  /\ leases[l].status = "absent"
      /\ k # Null => \A other \in Leases : leases[other].token # k
      /\ ExpiryCommits(at)
      /\ \E t \in Tasks :
           /\ Claimable(t, kinds, at, T, R)
           /\ \A u \in Tasks : Claimable(u, kinds, at, T, R) => ~ ClaimedBefore(u, t, T)
           /\ CanTransition(T[t].status, "leased")
           /\ T[t].leaseId = Null
           /\ tasks' = [T EXCEPT ![t] = ClaimedRow(@, l, w, at + ms)]
           /\ leases' = [LeasesAfterExpiry(at) EXCEPT
                           ![l] = [status |-> "active", task |-> t, worker |-> w,
                                   expiresAt |-> at + ms, token |-> k]]
           /\ attempts' = [AttemptsAfterExpiry(at) EXCEPT ![l] = "leased"]
           /\ runs' = Recompute({RunOf(s) : s \in Expired(at) \union {t}}, tasks')
      /\ UNCHANGED <<now, completions, checked>>

-----------------------------------------------------------------------------
(* What a worker does with its lease.                                        *)

\* Mutant of HeartbeatLease: extends the task's deadline only.
HeartbeatLease_TaskOnly(t, l, w, ms, at) ==
  /\ AssertActiveLease(t, l, w, at)
  /\ tasks' = [tasks EXCEPT ![t].leaseExpiresAt = at + ms]
  /\ UNCHANGED <<now, runs, leases, attempts, completions, checked>>

HeartbeatLease(t, l, w, ms, at) ==
  /\ AssertActiveLease(t, l, w, at)
  /\ tasks' = [tasks EXCEPT ![t].leaseExpiresAt = at + ms]
  /\ leases' = [leases EXCEPT ![l].expiresAt = at + ms]
  /\ UNCHANGED <<now, runs, attempts, completions, checked>>

MarkTaskRunning(t, l, w, at) ==
  /\ AssertActiveLease(t, l, w, at)
  /\ CanTransition(tasks[t].status, "running")
  /\ tasks' = [tasks EXCEPT ![t].status = "running"]
  /\ attempts' = [attempts EXCEPT ![l] = "running"]
  /\ runs' = Recompute({RunOf(t)}, tasks')
  /\ UNCHANGED <<now, leases, completions, checked>>

\* Mutant of EndLease: the lease row stays active.
EndLease_LeaseStays(t, l, w, at, to, attemptStatus) ==
  /\ AssertActiveLease(t, l, w, at)
  /\ CanTransition(tasks[t].status, to)
  /\ tasks' = [tasks EXCEPT ![t] = WithoutLease(@, to)]
  /\ attempts' = [attempts EXCEPT ![l] = attemptStatus]
  /\ runs' = Recompute({RunOf(t)}, tasks')
  /\ UNCHANGED <<now, leases, checked>>

\* The writes that pauseTask, completeTask, failTask and releaseTask share:
\* the task leaves the lease with status `to', the lease is released.
EndLease(t, l, w, at, to, attemptStatus) ==
  /\ AssertActiveLease(t, l, w, at)
  /\ CanTransition(tasks[t].status, to)
  /\ tasks' = [tasks EXCEPT ![t] = WithoutLease(@, to)]
  /\ leases' = [leases EXCEPT ![l].status = "released"]
  /\ attempts' = [attempts EXCEPT ![l] = attemptStatus]
  /\ runs' = Recompute({RunOf(t)}, tasks')
  /\ UNCHANGED <<now, checked>>

PauseTask(t, l, w, to, at) ==
  /\ to \in WaitingTaskStatuses
  /\ EndLease(t, l, w, at, to, "released")
  /\ UNCHANGED completions

ReleaseTask(t, l, w, at) ==
  /\ EndLease(t, l, w, at, "queued", "released")
  /\ UNCHANGED completions

\* lookupCompletion answers, or refuses, a call whose token is on record;
\* otherwise recordCompletion files the outcome in the same transaction.
RecordCompletion(k, t, outcome) ==
  IF k = Null
    THEN UNCHANGED completions
    ELSE /\ completions[k] = Null
         /\ completions' = [completions EXCEPT ![k] = [task |-> t, outcome |-> outcome]]

CompleteTask(t, l, w, k, at) ==
  /\ EndLease(t, l, w, at, "completed", "completed")
  /\ RecordCompletion(k, t, "completed")

\* Mutant of FailTask: closes the attempt the way completeTask does.
FailTask_AttemptCompleted(t, l, w, k, at) ==
  /\ EndLease(t, l, w, at, "failed", "completed")
  /\ RecordCompletion(k, t, "failed")

FailTask(t, l, w, k, at) ==
  /\ EndLease(t, l, w, at, "failed", "failed")
  /\ RecordCompletion(k, t, "failed")

-----------------------------------------------------------------------------
(* Operators of the queue: resume, requeue, cancel, prune.                   *)

\* Mutant of ResumeTask: the run is not recomputed.
ResumeTask_NoRecompute(t) ==
  /\ tasks[t].status \in WaitingTaskStatuses
  /\ tasks' = [tasks EXCEPT ![t].status = "queued"]
  /\ UNCHANGED <<now, runs, leases, attempts, completions, checked>>

ResumeTask(t) ==
  /\ tasks[t].status \in WaitingTaskStatuses
  /\ CanTransition(tasks[t].status, "queued")
  /\ tasks' = [tasks EXCEPT ![t].status = "queued"]
  /\ runs' = Recompute({RunOf(t)}, tasks')
  /\ UNCHANGED <<now, leases, attempts, completions, checked>>

RequeuedRow(row, resetAttempts, notBefore) ==
  [WithoutLease(row, "queued") EXCEPT
     !.dead = FALSE, !.notBefore = notBefore,
     !.attemptCount = IF resetAttempts THEN 0 ELSE row.attemptCount]

\* Mutant of RequeueDeadTask: requeues any failed task, dead or not.
RequeueDeadTask_AnyFailed(t, resetAttempts, notBefore) ==
  /\ tasks[t].status = "failed"
  /\ tasks' = [tasks EXCEPT ![t] = RequeuedRow(@, TRUE, notBefore)]
  /\ runs' = Recompute({RunOf(t)}, tasks')
  /\ UNCHANGED <<now, leases, attempts, completions, checked>>

RequeueDeadTask(t, resetAttempts, notBefore) ==
  /\ tasks[t].status \in TaskStatuses
  /\ tasks[t].dead
  /\ tasks' = [tasks EXCEPT ![t] = RequeuedRow(@, resetAttempts, notBefore)]
  /\ runs' = Recompute({RunOf(t)}, tasks')
  /\ UNCHANGED <<now, leases, attempts, completions, checked>>

\* Mutant of CancelRun: leaves the tasks that workers hold, and their leases.
CancelRun_QueuedOnly(r) ==
  /\ runs[r] \in RunStatuses \ {"cancelled"}
  /\ runs' = [runs EXCEPT ![r] = "cancelled"]
  /\ tasks' = [t \in Tasks |->
       IF t \in TasksOf(r, tasks) /\ tasks[t].status \notin TerminalTaskStatuses \union HeldStatuses
         THEN WithoutLease(tasks[t], "cancelled") ELSE tasks[t]]
  /\ UNCHANGED <<now, leases, attempts, completions, checked>>

\* Mutant of CancelRun: the UPDATE of the leases forgets the status filter.
CancelRun_EveryLease(r) ==
  /\ runs[r] \in RunStatuses \ {"cancelled"}
  /\ runs' = [runs EXCEPT ![r] = "cancelled"]
  /\ tasks' = [t \in Tasks |->
       IF t \in TasksOf(r, tasks) /\ tasks[t].status \notin TerminalTaskStatuses
         THEN WithoutLease(tasks[t], "cancelled") ELSE tasks[t]]
  /\ leases' = [l \in Leases |->
       IF leases[l].status \in LeaseStatuses /\ RunOf(leases[l].task) = r
         THEN [leases[l] EXCEPT !.status = "cancelled"] ELSE leases[l]]
  /\ UNCHANGED <<now, attempts, completions, checked>>

\* Mutant of CancelRun: cancels failed tasks too.
CancelRun_FailedToo(r) ==
  /\ runs[r] \in RunStatuses \ {"cancelled"}
  /\ runs' = [runs EXCEPT ![r] = "cancelled"]
  /\ tasks' = [t \in Tasks |->
       IF t \in TasksOf(r, tasks) /\ tasks[t].status # "completed"
         THEN WithoutLease(tasks[t], "cancelled") ELSE tasks[t]]
  /\ UNCHANGED <<now, leases, attempts, completions, checked>>

\* The three UPDATEs go by run_id and by each table's own status column.
CancelRun(r) ==
  /\ runs[r] \in RunStatuses \ {"cancelled"}
  /\ runs' = [runs EXCEPT ![r] = "cancelled"]
  /\ tasks' = [t \in Tasks |->
       IF t \in TasksOf(r, tasks) /\ tasks[t].status \notin TerminalTaskStatuses
         THEN WithoutLease(tasks[t], "cancelled") ELSE tasks[t]]
  /\ leases' = [l \in Leases |->
       IF leases[l].status = "active" /\ RunOf(leases[l].task) = r
         THEN [leases[l] EXCEPT !.status = "cancelled"] ELSE leases[l]]
  /\ attempts' = [l \in Leases |->
       IF attempts[l] \in HeldStatuses /\ RunOf(leases[l].task) = r
         THEN "cancelled" ELSE attempts[l]]
  /\ UNCHANGED <<now, completions, checked>>

\* Mutant of PruneRuns: the leases of the run are not deleted.
PruneRuns_KeepsLeases(statuses, R) ==
  /\ R # {}
  /\ \A r \in R : runs[r] \in statuses
  /\ runs' = [r \in Runs |-> IF r \in R THEN "pruned" ELSE runs[r]]
  /\ tasks' = [t \in Tasks |->
       IF RunOf(t) \in R /\ tasks[t].status \in TaskStatuses
         THEN [AbsentTask EXCEPT !.status = "pruned"] ELSE tasks[t]]
  /\ UNCHANGED <<now, leases, attempts, completions, checked>>

\* The cutoff and the limit are the caller's: any runs with one of the
\* requested statuses may be the ones that go.
PruneRuns(statuses, R) ==
  /\ R # {}
  /\ \A r \in R : runs[r] \in statuses
  /\ runs' = [r \in Runs |-> IF r \in R THEN "pruned" ELSE runs[r]]
  /\ tasks' = [t \in Tasks |->
       IF RunOf(t) \in R /\ tasks[t].status \in TaskStatuses
         THEN [AbsentTask EXCEPT !.status = "pruned"] ELSE tasks[t]]
  /\ leases' = [l \in Leases |->
       IF leases[l].status \in LeaseStatuses /\ RunOf(leases[l].task) \in R
         THEN [AbsentLease EXCEPT !.status = "pruned"] ELSE leases[l]]
  /\ attempts' = [l \in Leases |->
       IF leases[l].status \in LeaseStatuses /\ RunOf(leases[l].task) \in R
         THEN "pruned" ELSE attempts[l]]
  /\ completions' = [k \in Tokens |->
       IF completions[k] # Null /\ RunOf(completions[k].task) \in R
         THEN Null ELSE completions[k]]
  /\ UNCHANGED <<now, checked>>

Tick ==
  /\ now < MaxTime
  /\ now' = now + 1
  /\ UNCHANGED <<runs, tasks, leases, attempts, completions, checked>>

-----------------------------------------------------------------------------

OptionalTokens == Tokens \union {Null}

Claim(w) == \E l \in Leases, k \in OptionalTokens, kinds \in KindFilters,
               ms \in LeaseDurations, at \in Stamps : ClaimNextTask(w, l, k, kinds, ms, at)

Enqueue(t) == EnqueueCheck(t) \/ EnqueueThrows(t) \/ \E at \in Stamps : EnqueueTask(t, at)

HolderStep(t, l, w, at) ==
  \/ \E ms \in LeaseDurations : HeartbeatLease(t, l, w, ms, at)
  \/ MarkTaskRunning(t, l, w, at)
  \/ \E to \in WaitingTaskStatuses : PauseTask(t, l, w, to, at)
  \/ ReleaseTask(t, l, w, at)
  \/ \E k \in OptionalTokens : CompleteTask(t, l, w, k, at)
  \/ \E k \in OptionalTokens : FailTask(t, l, w, k, at)

OperatorStep(t) ==
  \/ ResumeTask(t)
  \/ \E reset \in BOOLEAN, notBefore \in {NoTime, now + 1} : RequeueDeadTask(t, reset, notBefore)

Expire == \E at \in Stamps : ExpireLeases(at)

Prune == \E statuses \in PruneFilters, R \in SUBSET Runs : PruneRuns(statuses, R)

Next ==
  \/ \E r \in Runs : CreateRun(r) \/ CancelRun(r)
  \/ \E t \in Tasks : Enqueue(t) \/ OperatorStep(t)
  \/ \E w \in Workers : Claim(w)
  \/ \E t \in Tasks, l \in Leases, w \in Workers, at \in Stamps : HolderStep(t, l, w, at)
  \/ Expire
  \/ Prune
  \/ Tick

Spec == Init /\ [][Next]_vars
=============================================================================
