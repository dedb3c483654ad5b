------------------------------ MODULE MemoryStore ------------------------------
(***************************************************************************)
(* The in-memory adapter (MemoryParallelMcpStore in                        *)
(* adapters/memory/src/store.ts): the operations of SqliteStore over Maps  *)
(* of one process.  A method writes its rows in one synchronous stretch,   *)
(* awaits emitEvent and only then recomputes the run and files the         *)
(* completion: in between, other calls run.  What is left to do stands in  *)
(* the microtask queue, first in first out.                                *)
(*                                                                         *)
(* cancelRun, pruneRuns, expireLeases and heartbeatLease have nothing left *)
(* to do after their await: they are the actions of SqliteStore, at `now'. *)
(*                                                                         *)
(* createRun and enqueueTask take an id from the caller if it passes one,  *)
(* and Map.set overwrites the row that has it: no primary key refuses it.  *)
(* Who passes an id twice is a parameter; the second time comes with the   *)
(* same input.                                                             *)
(*                                                                         *)
(* completeTask with nextContext is the one method that also awaits before *)
(* it writes (CompleteWithContext, SnapshotReturns, WritesStaleRows).      *)
(*                                                                         *)
(* Abstracted as in SqliteStore, and also event listeners that call the    *)
(* store.                                                                  *)
(***************************************************************************)
EXTENDS StoreProperties, Sequences

CONSTANTS
  Reused,       \* ids that createRun and enqueueTask are given more than once
  WithContext,  \* tasks that are completed with nextContext
  MaxPending    \* bound: calls that are waiting at their await at once

ASSUME PendingAssumption == /\ Reused \subseteq Runs \union Tasks
                            /\ WithContext \subseteq Tasks
                            /\ MaxPending \in Nat

VARIABLE pending  \* the continuations, in the order in which they will run

memoryVars == <<vars, pending>>

MemoryInit == Init /\ pending = <<>>

\* pc: what comes next; the rest are the values the call has in its variables.
Rest(pc, t, l, k, outcome) ==
  [pc |-> pc, task |-> t, lease |-> l, token |-> k, outcome |-> outcome,
   row |-> IF l = Null THEN Null ELSE tasks[t],
   leaseRow |-> IF l = Null THEN Null ELSE leases[l]]

Later(rest) ==
  /\ Len(pending) < MaxPending
  /\ pending' = Append(pending, rest)

\* Nothing but the recompute of the run is left to do.
RecomputesLater(t) == Later(Rest("settle", t, Null, Null, Null))

-----------------------------------------------------------------------------
(* Operations that are one synchronous stretch.                              *)

\* Sets the row whatever was there, and does not look at the tasks.
MemoryCreateRun(r) ==
  /\ runs[r] # "absent" => r \in Reused
  /\ runs' = [runs EXCEPT ![r] = "pending"]
  /\ UNCHANGED <<now, tasks, leases, attempts, completions, checked, pending>>

MemoryCancelRun(r) == CancelRun(r) /\ UNCHANGED pending

MemoryPruneRuns == Prune /\ UNCHANGED pending

MemoryExpireLeases == ExpireLeases(now) /\ UNCHANGED pending

MemoryHeartbeatLease(t, l, w) ==
  /\ \E ms \in LeaseDurations : HeartbeatLease(t, l, w, ms, now)
  /\ UNCHANGED pending

Throws(t) == t \in Expired(now) /\ ~ MaxAttemptsReached(t, tasks[t]) /\ ~ Representable(RetryAt(t, now))

\* The sweep visits the tasks in the order of their insertion and throws at t:
\* nothing undoes what it has done, neither to those before t nor to t's lease.
MemorySweepThrows ==
  \E t \in Tasks, swept \in SUBSET Expired(now) :
    LET touched == swept \union {t}
    IN  /\ Throws(t)
        /\ \A u \in swept : u # t /\ ~ Throws(u) /\ tasks[u].createdAt <= tasks[t].createdAt
        /\ \A u \in Expired(now) \ touched : tasks[u].createdAt >= tasks[t].createdAt
        /\ tasks' = [u \in Tasks |-> IF u \in swept THEN ExpiredRow(u, now) ELSE tasks[u]]
        /\ leases' = [l \in Leases |-> IF leases[l].task \in touched /\ l = tasks[leases[l].task].leaseId
                                         THEN [leases[l] EXCEPT !.status = "expired"] ELSE leases[l]]
        /\ attempts' = [l \in Leases |-> IF leases'[l] # leases[l] THEN "expired" ELSE attempts[l]]
        /\ runs' = Recompute({RunOf(u) : u \in swept}, tasks')
        /\ UNCHANGED <<now, completions, checked, pending>>

-----------------------------------------------------------------------------
(* Operations that finish later.                                             *)

\* The run's status, the key and the dependencies are checked in the stretch
\* that sets the row, whatever was there: its lease, if any, stays active, and
\* its completion stays on record.
MemoryEnqueueTask(t) ==
  /\ tasks[t].status # "absent" => t \in Reused
  /\ runs[RunOf(t)] \in RunStatuses \ TerminalRunStatuses
  /\ EnqueueAllowed(t)
  /\ tasks' = [tasks EXCEPT ![t] = QueuedTask(now)]
  /\ RecomputesLater(t)
  /\ UNCHANGED <<now, runs, leases, attempts, completions, checked>>

\* The sweep before the claim is synchronous and recomputes its runs at once.
MemoryClaimNextTask(w, l, k, kinds, ms) ==
  LET T == TasksAfterExpiry(now)
      R == Recompute({RunOf(t) : t \in Expired(now)}, T)
  IN  /\ leases[l].status = "absent"
      /\ k # Null => \A other \in Leases : leases[other].token # k
      /\ ExpiryCommits(now)
      /\ \E t \in Tasks :
           /\ Claimable(t, kinds, now, T, R)
           /\ \A u \in Tasks : Claimable(u, kinds, now, T, R) => ~ ClaimedBefore(u, t, T)
           /\ tasks' = [T EXCEPT ![t] = ClaimedRow(@, l, w, now + ms)]
           /\ leases' = [LeasesAfterExpiry(now) EXCEPT
                           ![l] = [status |-> "active", task |-> t, worker |-> w,
                                   expiresAt |-> now + ms, token |-> k]]
           /\ RecomputesLater(t)
      /\ attempts' = [AttemptsAfterExpiry(now) EXCEPT ![l] = "leased"]
      /\ runs' = R
      /\ UNCHANGED <<now, completions, checked>>

MemoryMarkTaskRunning(t, l, w) ==
  /\ AssertActiveLease(t, l, w, now)
  /\ CanTransition(tasks[t].status, "running")
  /\ tasks' = [tasks EXCEPT ![t].status = "running"]
  /\ attempts' = [attempts EXCEPT ![l] = "running"]
  /\ RecomputesLater(t)
  /\ UNCHANGED <<now, runs, leases, completions, checked>>

\* Mutant of LeaveLease: the lease row stays active.
LeaveLease_LeaseStays(t, l, w, to, attemptStatus) ==
  /\ AssertActiveLease(t, l, w, now)
  /\ CanTransition(tasks[t].status, to)
  /\ tasks' = [tasks EXCEPT ![t] = WithoutLease(@, to)]
  /\ attempts' = [attempts EXCEPT ![l] = attemptStatus]
  /\ UNCHANGED <<now, runs, leases, completions, checked>>

\* What pauseTask, releaseTask, completeTask and failTask write.
LeaveLease(t, l, w, to, attemptStatus) ==
  /\ AssertActiveLease(t, l, w, now)
  /\ CanTransition(tasks[t].status, to)
  /\ tasks' = [tasks EXCEPT ![t] = WithoutLease(@, to)]
  /\ leases' = [leases EXCEPT ![l].status = "released"]
  /\ attempts' = [attempts EXCEPT ![l] = attemptStatus]
  /\ UNCHANGED <<now, runs, completions, checked>>

MemoryPauseTask(t, l, w, to) == LeaveLease(t, l, w, to, "released") /\ RecomputesLater(t)

MemoryReleaseTask(t, l, w) == LeaveLease(t, l, w, "queued", "released") /\ RecomputesLater(t)

\* lookupCompletion finds nothing; recordCompletion comes after the await.
NoCompletion(k) == k # Null => completions[k] = Null

MemoryCompleteTask(t, l, w, k) ==
  /\ NoCompletion(k)
  /\ LeaveLease(t, l, w, "completed", "completed")
  /\ Later(Rest("settle", t, Null, k, "completed"))

MemoryFailTask(t, l, w, k) ==
  /\ NoCompletion(k)
  /\ LeaveLease(t, l, w, "failed", "failed")
  /\ Later(Rest("settle", t, Null, k, "failed"))

\* Mutant of MemoryResumeTask: nothing comes after the await.
MemoryResumeTask_NoRecompute(t) ==
  /\ tasks[t].status \in WaitingTaskStatuses
  /\ tasks' = [tasks EXCEPT ![t].status = "queued"]
  /\ UNCHANGED <<now, runs, leases, attempts, completions, checked, pending>>

MemoryResumeTask(t) ==
  /\ tasks[t].status \in WaitingTaskStatuses
  /\ CanTransition(tasks[t].status, "queued")
  /\ tasks' = [tasks EXCEPT ![t].status = "queued"]
  /\ RecomputesLater(t)
  /\ UNCHANGED <<now, runs, leases, attempts, completions, checked>>

\* Mutant of MemoryRequeueDeadTask: requeues any failed task, dead or not.
MemoryRequeueDeadTask_AnyFailed(t, resetAttempts, notBefore) ==
  /\ tasks[t].status = "failed"
  /\ tasks' = [tasks EXCEPT ![t] = RequeuedRow(@, resetAttempts, notBefore)]
  /\ RecomputesLater(t)
  /\ UNCHANGED <<now, runs, leases, attempts, completions, checked>>

MemoryRequeueDeadTask(t, resetAttempts, notBefore) ==
  /\ tasks[t].dead
  /\ tasks' = [tasks EXCEPT ![t] = RequeuedRow(@, resetAttempts, notBefore)]
  /\ RecomputesLater(t)
  /\ UNCHANGED <<now, runs, leases, attempts, completions, checked>>

-----------------------------------------------------------------------------
(* Continuations.                                                            *)

Oldest == Head(pending)

\* recordCompletion, then recomputeRunStatus, which passes over a run that is gone.
Settle ==
  LET c == Oldest
      r == RunOf(c.task)
  IN  /\ pending # <<>> /\ c.pc = "settle"
      /\ completions' = IF c.token = Null THEN completions
                        ELSE [completions EXCEPT ![c.token] = [task |-> c.task, outcome |-> c.outcome]]
      /\ runs' = IF runs[r] \in RunStatuses THEN Recompute({r}, tasks) ELSE runs
      /\ pending' = Tail(pending)
      /\ UNCHANGED <<now, tasks, leases, attempts, checked>>

\* completeTask with nextContext: awaits appendContextSnapshot, which awaits its
\* own event, between assertActiveLease and its writes.
CompleteWithContext(t, l, w, k) ==
  /\ t \in WithContext
  /\ NoCompletion(k)
  /\ AssertActiveLease(t, l, w, now)
  /\ CanTransition(tasks[t].status, "completed")
  /\ Later(Rest("snapshot", t, l, k, "completed"))
  /\ UNCHANGED vars

SnapshotReturns ==
  /\ pending # <<>> /\ Oldest.pc = "snapshot"
  /\ pending' = Append(Tail(pending), [Oldest EXCEPT !.pc = "write"])
  /\ UNCHANGED vars

\* The rows are written as they were read before the await; only the token's
\* entry in leaseByClientToken is not set again.
WritesStaleRows ==
  LET c == Oldest
  IN  /\ pending # <<>> /\ c.pc = "write"
      /\ tasks' = [tasks EXCEPT ![c.task] = WithoutLease(c.row, "completed")]
      /\ leases' = [leases EXCEPT ![c.lease] =
                      [c.leaseRow EXCEPT !.status = "released", !.token = leases[c.lease].token]]
      /\ attempts' = [attempts EXCEPT ![c.lease] = "completed"]
      /\ pending' = Append(Tail(pending), Rest("settle", c.task, Null, c.token, c.outcome))
      /\ UNCHANGED <<now, runs, completions, checked>>

-----------------------------------------------------------------------------

MemoryHolderStep(t, l, w) ==
  \/ MemoryHeartbeatLease(t, l, w)
  \/ MemoryMarkTaskRunning(t, l, w)
  \/ \E to \in WaitingTaskStatuses : MemoryPauseTask(t, l, w, to)
  \/ MemoryReleaseTask(t, l, w)
  \/ \E k \in OptionalTokens : \/ MemoryCompleteTask(t, l, w, k)
                               \/ CompleteWithContext(t, l, w, k)
                               \/ MemoryFailTask(t, l, w, k)

MemoryTaskStep(t) ==
  \/ MemoryEnqueueTask(t)
  \/ MemoryResumeTask(t)
  \/ \E reset \in BOOLEAN, notBefore \in {NoTime, now + 1} : MemoryRequeueDeadTask(t, reset, notBefore)

MemoryClaim == \E w \in Workers, l \in Leases, k \in OptionalTokens, kinds \in KindFilters,
                  ms \in LeaseDurations : MemoryClaimNextTask(w, l, k, kinds, ms)

MemoryNext ==
  \/ \E t \in Tasks : MemoryTaskStep(t)
  \/ \E t \in Tasks, l \in Leases, w \in Workers : MemoryHolderStep(t, l, w)
  \/ MemoryClaim
  \/ \E r \in Runs : MemoryCreateRun(r) \/ MemoryCancelRun(r)
  \/ MemoryExpireLeases
  \/ MemoryPruneRuns
  \/ SnapshotReturns
  \/ WritesStaleRows
  \/ Settle
  \/ Tick /\ UNCHANGED pending

MemorySpec == MemoryInit /\ [][MemoryNext]_memoryVars

\* The same with retry times that leave the range of Date, and Reused = {}: the
\* order of insertion is that of createdAt only if no row is overwritten.
PoisonSpec == MemoryInit /\ [][MemoryNext \/ MemorySweepThrows]_memoryVars
=============================================================================
