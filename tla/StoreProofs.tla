----------------------------- MODULE StoreProofs -----------------------------
(***************************************************************************)
(* Machine-checked proofs about SqliteStore, for any number of runs,       *)
(* tasks, workers, leases and tokens and for any input: the tables are     *)
(* well typed, and tasks, leases and attempts agree about who holds what.  *)
(***************************************************************************)
EXTENDS StoreProperties, TLAPS

(***************************************************************************)
(* The operators the tables are built from.                                *)
(***************************************************************************)

(* A recomputed run has a status of the table's type (deriveRunStatus).      *)
LEMMA DeriveType ==
  ASSUME NEW c \in RunStatuses \union NoRow, NEW S
  PROVE  /\ DeriveRunStatus(c, S) \in RunStatuses \union NoRow
         /\ c \in RunStatuses => DeriveRunStatus(c, S) \in RunStatuses
  BY DEF DeriveRunStatus, RunStatuses, NoRow

(* Recomputing a run again changes nothing, whatever its status was          *)
(* (deriveRunStatus).                                                        *)
LEMMA DeriveIdempotent ==
  ASSUME NEW c, NEW S \in SUBSET TaskStatuses
  PROVE  DeriveRunStatus(DeriveRunStatus(c, S), S) = DeriveRunStatus(c, S)
  BY DEF DeriveRunStatus, TaskStatuses, HeldStatuses, ActiveTaskStatuses, WaitingTaskStatuses

(* A run one of whose tasks is held derives to active (deriveRunStatus).     *)
LEMMA DeriveHeld ==
  ASSUME NEW c, NEW S, S \intersect HeldStatuses # {}
  PROVE  DeriveRunStatus(c, S) = "active"
  BY DEF DeriveRunStatus, HeldStatuses, ActiveTaskStatuses

(* A run without held tasks that is marked cancelled stays so.               *)
LEMMA DeriveCancelled ==
  ASSUME NEW S, S \intersect HeldStatuses = {}
  PROVE  DeriveRunStatus("cancelled", S) = "cancelled"
  BY DEF DeriveRunStatus

(* A retry delay is a number, a retry time a timestamp (computeNotBefore).   *)
LEMMA RetryDelayType ==
  ASSUME NEW policy \in RetryPolicies, NEW n \in Nat
  PROVE  RetryDelay(policy, n) \in Int
<1>1. AttemptOrOne(n) - 1 \in Nat
  BY DEF AttemptOrOne
<1>2. 2 ^ (AttemptOrOne(n) - 1) \in Int
  BY <1>1
<1>3. UncappedDelay(policy, n) \in Int
  BY <1>2 DEF UncappedDelay, RetryPolicies
<1> QED
  BY <1>3 DEF RetryDelay, RetryPolicies

LEMMA NotBeforeType ==
  ASSUME NEW policy \in RetryPolicies, NEW n \in Nat, NEW at \in Int
  PROVE  ComputeNotBefore(policy, n, at) \in Int
  BY RetryDelayType DEF ComputeNotBefore, NoTime

(* SQL's NULL is a member of the timestamp type.                             *)
LEMMA NoTimeInt == NoTime \in Int
  BY DEF NoTime

(* Leaving a lease clears its three columns and nothing else (pauseTask,     *)
(* completeTask, failTask, releaseTask, cancelRun, expireLeases).            *)
LEMMA WithoutLeaseRow ==
  ASSUME NEW row \in TaskRows, NEW s \in TaskStatuses
  PROVE  /\ WithoutLease(row, s) \in TaskRows
         /\ WithoutLease(row, s).status = s
         /\ WithoutLease(row, s).leaseId = Null
         /\ WithoutLease(row, s).leasedBy = Null
         /\ WithoutLease(row, s).leaseExpiresAt = NoTime
         /\ WithoutLease(row, s).attemptCount = row.attemptCount
         /\ WithoutLease(row, s).notBefore = row.notBefore
         /\ WithoutLease(row, s).dead = row.dead
  BY NoTimeInt DEF WithoutLease, TaskRows

(* A claimed row names its lease and is charged one attempt (claimNextTask). *)
LEMMA ClaimedRowRow ==
  ASSUME NEW row \in TaskRows, NEW l \in Leases, NEW w \in Workers, NEW e \in Int
  PROVE  /\ ClaimedRow(row, l, w, e) \in TaskRows
         /\ ClaimedRow(row, l, w, e).status = "leased"
         /\ ClaimedRow(row, l, w, e).leaseId = l
         /\ ClaimedRow(row, l, w, e).leasedBy = w
         /\ ClaimedRow(row, l, w, e).leaseExpiresAt = e
         /\ ClaimedRow(row, l, w, e).notBefore = NoTime
         /\ ClaimedRow(row, l, w, e).dead = row.dead
         /\ ClaimedRow(row, l, w, e).attemptCount = row.attemptCount + 1
<1>1. "leased" \in TaskStatuses
  BY DEF TaskStatuses
<1>2. row.attemptCount + 1 \in Nat
  BY DEF TaskRows
<1>3. ClaimedRow(row, l, w, e) \in TaskRows
  BY NoTimeInt, <1>1, <1>2 DEF ClaimedRow, TaskRows
<1>4. /\ ClaimedRow(row, l, w, e).status = "leased"
      /\ ClaimedRow(row, l, w, e).leaseId = l
      /\ ClaimedRow(row, l, w, e).leasedBy = w
      /\ ClaimedRow(row, l, w, e).leaseExpiresAt = e
      /\ ClaimedRow(row, l, w, e).notBefore = NoTime
      /\ ClaimedRow(row, l, w, e).dead = row.dead
  BY DEF ClaimedRow, TaskRows
<1>5. ClaimedRow(row, l, w, e).attemptCount = row.attemptCount + 1
  BY DEF ClaimedRow, TaskRows
<1> QED
  BY <1>3, <1>4, <1>5

(* Requeueing a dead row leaves it idle and keeps or resets its count.        *)
LEMMA RequeuedRowRow ==
  ASSUME NEW row \in TaskRows, NEW reset \in BOOLEAN, NEW at \in Int
  PROVE  /\ RequeuedRow(row, reset, at) \in TaskRows
         /\ RequeuedRow(row, reset, at).status = "queued"
         /\ RequeuedRow(row, reset, at).leaseId = Null
         /\ RequeuedRow(row, reset, at).leasedBy = Null
         /\ RequeuedRow(row, reset, at).leaseExpiresAt = NoTime
         /\ RequeuedRow(row, reset, at).notBefore = at
         /\ RequeuedRow(row, reset, at).dead = FALSE
         /\ RequeuedRow(row, reset, at).attemptCount \in {0, row.attemptCount}
<1> DEFINE w == WithoutLease(row, "queued")
<1>1. /\ w \in TaskRows /\ w.status = "queued" /\ w.leaseId = Null
      /\ w.leasedBy = Null /\ w.leaseExpiresAt = NoTime
  BY WithoutLeaseRow DEF TaskStatuses
<1>2. row.attemptCount \in Nat
  BY DEF TaskRows
<1> HIDE DEF w
<1> DEFINE n == IF reset THEN 0 ELSE row.attemptCount
           q == [w EXCEPT !.dead = FALSE, !.notBefore = at, !.attemptCount = n]
<1>3. n \in Nat /\ n \in {0, row.attemptCount}
  BY <1>2
<1> HIDE DEF n
<1>4. /\ q \in TaskRows /\ q.status = "queued" /\ q.leaseId = Null
      /\ q.leasedBy = Null /\ q.leaseExpiresAt = NoTime
      /\ q.notBefore = at /\ q.dead = FALSE /\ q.attemptCount = n
  BY <1>1, <1>3 DEF TaskRows
<1>5. RequeuedRow(row, reset, at) = q
  BY DEF RequeuedRow, w, n
<1> QED
  BY <1>3, <1>4, <1>5

(* Deleting or inserting a row leaves an idle one.                           *)
LEMMA AbsentTaskRow ==
  ASSUME NEW s \in TaskStatuses \union NoRow
  PROVE  /\ AbsentTask \in TaskRows
         /\ [AbsentTask EXCEPT !.status = s] \in TaskRows
         /\ [AbsentTask EXCEPT !.status = s].status = s
         /\ [AbsentTask EXCEPT !.status = s].leaseId = Null
         /\ [AbsentTask EXCEPT !.status = s].leasedBy = Null
         /\ [AbsentTask EXCEPT !.status = s].leaseExpiresAt = NoTime
         /\ [AbsentTask EXCEPT !.status = s].attemptCount = 0
         /\ [AbsentTask EXCEPT !.status = s].notBefore = NoTime
         /\ [AbsentTask EXCEPT !.status = s].dead = FALSE
  BY NoTimeInt DEF AbsentTask, TaskRows, NoRow, TaskStatuses

LEMMA QueuedTaskRow ==
  ASSUME NEW at \in Int
  PROVE  /\ QueuedTask(at) \in TaskRows
         /\ QueuedTask(at).status = "queued"
         /\ QueuedTask(at).leaseId = Null
         /\ QueuedTask(at).leasedBy = Null
         /\ QueuedTask(at).leaseExpiresAt = NoTime
         /\ QueuedTask(at).attemptCount = 0
         /\ QueuedTask(at).notBefore = NoTime
         /\ QueuedTask(at).dead = FALSE
  BY NoTimeInt DEF AbsentTask, QueuedTask, TaskRows, TaskStatuses

(* The same for the lease table.                                             *)
LEMMA AbsentLeaseRow ==
  /\ AbsentLease \in LeaseRows
  /\ [AbsentLease EXCEPT !.status = "pruned"] \in LeaseRows
  /\ [AbsentLease EXCEPT !.status = "pruned"].status = "pruned"
  /\ [AbsentLease EXCEPT !.status = "pruned"].task = Null
  BY NoTimeInt DEF AbsentLease, LeaseRows, NoRow, LeaseStatuses

(* A timestamp a caller takes is a time the clock has shown.                 *)
LEMMA StampsAreTimes ==
  ASSUME TypeOK, NEW at \in Stamps
  PROVE  at \in Nat /\ at =< now
  BY DEF Stamps, TypeOK

(* recomputeRunStatus keeps the type of the run table.                       *)
LEMMA RecomputeType ==
  ASSUME TypeOK, NEW R, NEW T
  PROVE  Recompute(R, T) \in [Runs -> RunStatuses \union NoRow]
  BY DeriveType DEF Recompute, TypeOK

(* expireLeases keeps the types of the three tables it writes.               *)
LEMMA ExpiryType ==
  ASSUME TypeOK, NEW at \in Stamps
  PROVE  /\ TasksAfterExpiry(at) \in [Tasks -> TaskRows]
         /\ LeasesAfterExpiry(at) \in [Leases -> LeaseRows]
         /\ AttemptsAfterExpiry(at) \in [Leases -> AttemptStatuses \union NoRow]
<1>1. ASSUME NEW t \in Tasks PROVE ExpiredRow(t, at) \in TaskRows
  <2>1. tasks[t] \in TaskRows /\ tasks[t].attemptCount \in Nat
    BY DEF TypeOK, TaskRows
  <2>2. RetryAt(t, at) \in Int
    <3>1. Input[t].retry \in RetryPolicies
      BY InputAssumption DEF InputRecords
    <3> QED
      BY <2>1, <3>1, NotBeforeType, StampsAreTimes DEF RetryAt
  <2>3. /\ WithoutLease(tasks[t], "failed") \in TaskRows
        /\ WithoutLease(tasks[t], "queued") \in TaskRows
    BY <2>1, WithoutLeaseRow DEF TaskStatuses
  <2>4. [WithoutLease(tasks[t], "failed") EXCEPT !.notBefore = NoTime, !.dead = TRUE] \in TaskRows
    BY <2>3, NoTimeInt DEF TaskRows
  <2>5. [WithoutLease(tasks[t], "queued") EXCEPT !.notBefore = RetryAt(t, at)] \in TaskRows
    BY <2>2, <2>3 DEF TaskRows
  <2> QED
    BY <2>4, <2>5 DEF ExpiredRow
<1>2. TasksAfterExpiry(at) \in [Tasks -> TaskRows]
  BY <1>1 DEF TasksAfterExpiry, TypeOK
<1>3. ASSUME NEW l \in Leases PROVE [leases[l] EXCEPT !.status = "expired"] \in LeaseRows
  BY DEF TypeOK, LeaseRows, LeaseStatuses
<1>4. LeasesAfterExpiry(at) \in [Leases -> LeaseRows]
  BY <1>3 DEF LeasesAfterExpiry, TypeOK
<1>5. AttemptsAfterExpiry(at) \in [Leases -> AttemptStatuses \union NoRow]
  BY DEF AttemptsAfterExpiry, TypeOK, AttemptStatuses
<1> QED
  BY <1>2, <1>4, <1>5

(***************************************************************************)
(* What the operations write to the tasks, the leases and the attempts.    *)
(* The run is recomputed in the same transaction, or later (MemoryStore).  *)
(***************************************************************************)

LeavesLease(t, l, w, at, to, a) ==
  /\ AssertActiveLease(t, l, w, at)
  /\ CanTransition(tasks[t].status, to)
  /\ tasks' = [tasks EXCEPT ![t] = WithoutLease(@, to)]
  /\ leases' = [leases EXCEPT ![l].status = "released"]
  /\ attempts' = [attempts EXCEPT ![l] = a]
  /\ checked' = checked

StartsRunning(t, l, w, at) ==
  /\ AssertActiveLease(t, l, w, at)
  /\ CanTransition(tasks[t].status, "running")
  /\ tasks' = [tasks EXCEPT ![t].status = "running"]
  /\ attempts' = [attempts EXCEPT ![l] = "running"]
  /\ UNCHANGED <<leases, checked>>

Resumes(t) ==
  /\ tasks[t].status \in WaitingTaskStatuses
  /\ tasks' = [tasks EXCEPT ![t].status = "queued"]
  /\ UNCHANGED <<leases, attempts, checked>>

Requeues(t, reset, notBefore) ==
  /\ tasks[t].dead
  /\ tasks' = [tasks EXCEPT ![t] = RequeuedRow(@, reset, notBefore)]
  /\ UNCHANGED <<leases, attempts, checked>>

Takes(t, w, l, k, kinds, ms, at) ==
  LET T == TasksAfterExpiry(at)
  IN  /\ leases[l].status = "absent"
      /\ Claimable(t, kinds, at, T, Recompute({RunOf(s) : s \in Expired(at)}, T))
      /\ tasks' = [T EXCEPT ![t] = ClaimedRow(@, l, w, at + ms)]
      /\ leases' = [LeasesAfterExpiry(at) EXCEPT
                      ![l] = [status |-> "active", task |-> t, worker |-> w,
                              expiresAt |-> at + ms, token |-> k]]
      /\ attempts' = [AttemptsAfterExpiry(at) EXCEPT ![l] = "leased"]
      /\ checked' = checked

(* They are what the store's actions write.                                  *)
LEMMA StoreWrites ==
  /\ \A t, l, w, at, to, a : EndLease(t, l, w, at, to, a) => LeavesLease(t, l, w, at, to, a)
  /\ \A t, l, w, at : MarkTaskRunning(t, l, w, at) => StartsRunning(t, l, w, at)
  /\ \A t : ResumeTask(t) => Resumes(t)
  /\ \A t, reset, notBefore :
       RequeueDeadTask(t, reset, notBefore) => Requeues(t, reset, notBefore)
  /\ \A w, l, k, kinds, ms, at :
       ClaimNextTask(w, l, k, kinds, ms, at) => \E t \in Tasks : Takes(t, w, l, k, kinds, ms, at)
<1>1. ASSUME NEW t, NEW l, NEW w, NEW at, NEW to, NEW a, EndLease(t, l, w, at, to, a)
      PROVE  LeavesLease(t, l, w, at, to, a)
  BY <1>1 DEF EndLease, LeavesLease
<1>2. ASSUME NEW t, NEW l, NEW w, NEW at, MarkTaskRunning(t, l, w, at)
      PROVE  StartsRunning(t, l, w, at)
  BY <1>2 DEF MarkTaskRunning, StartsRunning
<1>3. ASSUME NEW t, ResumeTask(t) PROVE Resumes(t)
  BY <1>3 DEF ResumeTask, Resumes
<1>4. ASSUME NEW t, NEW reset, NEW notBefore, RequeueDeadTask(t, reset, notBefore)
      PROVE  Requeues(t, reset, notBefore)
  BY <1>4 DEF RequeueDeadTask, Requeues
<1>5. ASSUME NEW w, NEW l, NEW k, NEW kinds, NEW ms, NEW at, ClaimNextTask(w, l, k, kinds, ms, at)
      PROVE  \E t \in Tasks : Takes(t, w, l, k, kinds, ms, at)
  BY <1>5 DEF ClaimNextTask, Takes
<1> QED
  BY <1>1, <1>2, <1>3, <1>4, <1>5

(***************************************************************************)
(* Type correctness.                                                       *)
(***************************************************************************)

TablesTyped(T, L, A, C) ==
  /\ T \in [Tasks -> TaskRows]
  /\ L \in [Leases -> LeaseRows]
  /\ A \in [Leases -> AttemptStatuses \union NoRow]
  /\ C \subseteq Tasks

(* Pausing, completing, failing and releasing keep the types.                *)
LEMMA LeaveType ==
  ASSUME TypeOK, NEW t \in Tasks, NEW l, NEW w, NEW at, NEW to \in TaskStatuses,
         NEW a \in AttemptStatuses, LeavesLease(t, l, w, at, to, a)
  PROVE  TablesTyped(tasks', leases', attempts', checked')
<1>1. tasks' \in [Tasks -> TaskRows]
  BY WithoutLeaseRow DEF LeavesLease, TypeOK
<1>2. leases' \in [Leases -> LeaseRows]
  BY DEF LeavesLease, TypeOK, LeaseRows, LeaseStatuses
<1> QED
  BY <1>1, <1>2 DEF LeavesLease, TypeOK, TablesTyped

(* So do the other operations that a store may split from the recompute.     *)
LEMMA RunningType ==
  ASSUME TypeOK, NEW t \in Tasks, NEW l, NEW w, NEW at, StartsRunning(t, l, w, at)
  PROVE  TablesTyped(tasks', leases', attempts', checked')
<1>1. tasks' \in [Tasks -> TaskRows]
  BY DEF StartsRunning, TypeOK, TaskRows, TaskStatuses
<1>2. attempts' \in [Leases -> AttemptStatuses \union NoRow]
  BY DEF StartsRunning, TypeOK, AttemptStatuses
<1> QED
  BY <1>1, <1>2 DEF StartsRunning, TypeOK, TablesTyped

LEMMA ResumeType ==
  ASSUME TypeOK, NEW t \in Tasks, Resumes(t)
  PROVE  TablesTyped(tasks', leases', attempts', checked')
<1>1. tasks' \in [Tasks -> TaskRows]
  BY DEF Resumes, TypeOK, TaskRows, TaskStatuses
<1> QED
  BY <1>1 DEF Resumes, TypeOK, TablesTyped

LEMMA RequeueType ==
  ASSUME TypeOK, NEW t \in Tasks, NEW reset \in BOOLEAN, NEW notBefore \in {NoTime, now + 1},
         Requeues(t, reset, notBefore)
  PROVE  TablesTyped(tasks', leases', attempts', checked')
<1>1. notBefore \in Int
  BY NoTimeInt DEF TypeOK
<1>2. RequeuedRow(tasks[t], reset, notBefore) \in TaskRows
  BY <1>1, RequeuedRowRow DEF TypeOK
<1>3. tasks' \in [Tasks -> TaskRows]
  BY <1>2 DEF Requeues, TypeOK
<1> QED
  BY <1>3 DEF Requeues, TypeOK, TablesTyped

LEMMA ClaimType ==
  ASSUME TypeOK, NEW t \in Tasks, NEW w \in Workers, NEW l \in Leases, NEW k \in OptionalTokens,
         NEW kinds, NEW ms \in LeaseDurations, NEW at \in Stamps, Takes(t, w, l, k, kinds, ms, at)
  PROVE  TablesTyped(tasks', leases', attempts', checked')
<1>1. at + ms \in Int
  BY StampsAreTimes, BoundsAssumption
<1>2. tasks' \in [Tasks -> TaskRows]
  BY <1>1, ExpiryType, ClaimedRowRow DEF Takes
<1>3. [status |-> "active", task |-> t, worker |-> w, expiresAt |-> at + ms, token |-> k] \in LeaseRows
  BY <1>1 DEF LeaseRows, LeaseStatuses, OptionalTokens
<1>4. leases' \in [Leases -> LeaseRows]
  BY <1>3, ExpiryType DEF Takes
<1>5. attempts' \in [Leases -> AttemptStatuses \union NoRow]
  BY ExpiryType DEF Takes, AttemptStatuses
<1> QED
  BY <1>2, <1>4, <1>5 DEF Takes, TypeOK, TablesTyped

(* Every operation keeps the tables well typed.                              *)
LEMMA TypeStep ==
  ASSUME TypeOK, [Next]_vars
  PROVE  TypeOK'
<1> USE DEF TypeOK
<1>1. ASSUME NEW r \in Runs, CreateRun(r) PROVE TypeOK'
  BY <1>1 DEF CreateRun, RunStatuses
<1>2. ASSUME NEW r \in Runs, CancelRun(r) PROVE TypeOK'
  <2>1. tasks' \in [Tasks -> TaskRows]
    BY <1>2, WithoutLeaseRow DEF CancelRun, TaskStatuses
  <2>2. ASSUME NEW l \in Leases PROVE [leases[l] EXCEPT !.status = "cancelled"] \in LeaseRows
    BY DEF LeaseRows, LeaseStatuses
  <2>3. leases' \in [Leases -> LeaseRows]
    BY <1>2, <2>2 DEF CancelRun
  <2>4. attempts' \in [Leases -> AttemptStatuses \union NoRow]
    BY <1>2 DEF CancelRun, AttemptStatuses
  <2> QED
    BY <1>2, <2>1, <2>3, <2>4 DEF CancelRun, RunStatuses
<1>3. ASSUME NEW t \in Tasks, EnqueueCheck(t) PROVE TypeOK'
  BY <1>3 DEF EnqueueCheck
<1>4. ASSUME NEW t \in Tasks, EnqueueThrows(t) PROVE TypeOK'
  BY <1>4 DEF EnqueueThrows
<1>5. ASSUME NEW t \in Tasks, NEW at \in Stamps, EnqueueTask(t, at) PROVE TypeOK'
  <2>0. QueuedTask(at) \in TaskRows
    <3>1. at \in Int
      BY StampsAreTimes
    <3> QED
      BY <3>1, QueuedTaskRow
  <2>1. tasks' \in [Tasks -> TaskRows]
    BY <1>5, <2>0 DEF EnqueueTask
  <2>2. runs' \in [Runs -> RunStatuses \union NoRow]
    BY <1>5, RecomputeType DEF EnqueueTask
  <2> QED
    BY <1>5, <2>1, <2>2 DEF EnqueueTask
<1>6. ASSUME NEW at \in Stamps, ExpireLeases(at) PROVE TypeOK'
  <2>1. runs' \in [Runs -> RunStatuses \union NoRow]
    BY <1>6, RecomputeType DEF ExpireLeases
  <2> QED
    BY <1>6, <2>1, ExpiryType DEF ExpireLeases
<1>7. ASSUME NEW w \in Workers, NEW l \in Leases, NEW k \in OptionalTokens, NEW kinds \in KindFilters,
             NEW ms \in LeaseDurations, NEW at \in Stamps, ClaimNextTask(w, l, k, kinds, ms, at)
      PROVE  TypeOK'
  <2>1. PICK t \in Tasks : Takes(t, w, l, k, kinds, ms, at)
    BY <1>7, StoreWrites
  <2>2. TablesTyped(tasks', leases', attempts', checked')
    BY <2>1, ClaimType
  <2>3. runs' \in [Runs -> RunStatuses \union NoRow]
    BY <1>7, RecomputeType DEF ClaimNextTask
  <2> QED
    BY <1>7, <2>2, <2>3 DEF ClaimNextTask, TablesTyped
<1>8. ASSUME NEW t \in Tasks, NEW l \in Leases, NEW w \in Workers, NEW at \in Stamps,
             HolderStep(t, l, w, at)
      PROVE  TypeOK'
  <2>1. ASSUME NEW ms \in LeaseDurations, HeartbeatLease(t, l, w, ms, at) PROVE TypeOK'
    <3>1. at + ms \in Int
      BY StampsAreTimes, BoundsAssumption
    <3>2. tasks' \in [Tasks -> TaskRows]
      BY <2>1, <3>1 DEF HeartbeatLease, TaskRows
    <3>3. leases' \in [Leases -> LeaseRows]
      BY <2>1, <3>1 DEF HeartbeatLease, LeaseRows
    <3> QED
      BY <2>1, <3>2, <3>3 DEF HeartbeatLease
  <2>2. CASE MarkTaskRunning(t, l, w, at)
    <3>1. TablesTyped(tasks', leases', attempts', checked')
      BY <2>2, StoreWrites, RunningType
    <3>2. runs' \in [Runs -> RunStatuses \union NoRow]
      BY <2>2, RecomputeType DEF MarkTaskRunning
    <3> QED
      BY <2>2, <3>1, <3>2 DEF MarkTaskRunning, TablesTyped
  <2>3. ASSUME NEW to \in TaskStatuses, NEW a \in AttemptStatuses, EndLease(t, l, w, at, to, a),
               completions' \in [Tokens -> [task : Tasks, outcome : {"completed", "failed"}] \union {Null}]
        PROVE  TypeOK'
    <3>1. TablesTyped(tasks', leases', attempts', checked')
      BY <2>3, StoreWrites, LeaveType
    <3>2. runs' \in [Runs -> RunStatuses \union NoRow]
      BY <2>3, RecomputeType DEF EndLease
    <3> QED
      BY <2>3, <3>1, <3>2 DEF EndLease, TablesTyped
  <2>4. /\ WaitingTaskStatuses \union {"queued", "completed", "failed"} \subseteq TaskStatuses
        /\ {"released", "completed", "failed"} \subseteq AttemptStatuses
    BY DEF WaitingTaskStatuses, TaskStatuses, AttemptStatuses
  <2>5. ASSUME NEW to \in WaitingTaskStatuses, PauseTask(t, l, w, to, at) PROVE TypeOK'
    BY <2>3, <2>4, <2>5 DEF PauseTask
  <2>6. CASE ReleaseTask(t, l, w, at)
    BY <2>3, <2>4, <2>6 DEF ReleaseTask
  <2>7. ASSUME NEW k \in OptionalTokens, NEW o \in {"completed", "failed"}, RecordCompletion(k, t, o)
        PROVE  completions' \in [Tokens -> [task : Tasks, outcome : {"completed", "failed"}] \union {Null}]
    BY <2>7 DEF RecordCompletion, OptionalTokens
  <2>8. ASSUME NEW k \in OptionalTokens, CompleteTask(t, l, w, k, at) PROVE TypeOK'
    BY <2>3, <2>4, <2>7, <2>8 DEF CompleteTask
  <2>9. ASSUME NEW k \in OptionalTokens, FailTask(t, l, w, k, at) PROVE TypeOK'
    BY <2>3, <2>4, <2>7, <2>9 DEF FailTask
  <2> QED
    BY <1>8, <2>1, <2>2, <2>5, <2>6, <2>8, <2>9 DEF HolderStep
<1>9. ASSUME NEW t \in Tasks, ResumeTask(t) PROVE TypeOK'
  <2>1. TablesTyped(tasks', leases', attempts', checked')
    BY <1>9, StoreWrites, ResumeType
  <2>2. runs' \in [Runs -> RunStatuses \union NoRow]
    BY <1>9, RecomputeType DEF ResumeTask
  <2> QED
    BY <1>9, <2>1, <2>2 DEF ResumeTask, TablesTyped
<1>10. ASSUME NEW t \in Tasks, NEW reset \in BOOLEAN, NEW notBefore \in {NoTime, now + 1},
              RequeueDeadTask(t, reset, notBefore)
       PROVE  TypeOK'
  <2>1. TablesTyped(tasks', leases', attempts', checked')
    BY <1>10, StoreWrites, RequeueType
  <2>2. runs' \in [Runs -> RunStatuses \union NoRow]
    BY <1>10, RecomputeType DEF RequeueDeadTask
  <2> QED
    BY <1>10, <2>1, <2>2 DEF RequeueDeadTask, TablesTyped
<1>11. ASSUME NEW statuses \in PruneFilters, NEW R \in SUBSET Runs, PruneRuns(statuses, R) PROVE TypeOK'
  <2>0. [AbsentTask EXCEPT !.status = "pruned"] \in TaskRows
    BY AbsentTaskRow, NoTimeInt DEF NoRow
  <2>1. tasks' \in [Tasks -> TaskRows]
    BY <1>11, <2>0 DEF PruneRuns
  <2>2. leases' \in [Leases -> LeaseRows]
    BY <1>11, AbsentLeaseRow DEF PruneRuns
  <2>3. runs' \in [Runs -> RunStatuses \union NoRow]
    BY <1>11 DEF PruneRuns, NoRow
  <2>4. attempts' \in [Leases -> AttemptStatuses \union NoRow]
    BY <1>11 DEF PruneRuns, NoRow
  <2>5. completions' \in [Tokens -> [task : Tasks, outcome : {"completed", "failed"}] \union {Null}]
    BY <1>11 DEF PruneRuns
  <2> QED
    BY <1>11, <2>1, <2>2, <2>3, <2>4, <2>5 DEF PruneRuns
<1>12. CASE Tick
  BY <1>12 DEF Tick
<1>13. CASE UNCHANGED vars
  BY <1>13 DEF vars
<1> QED
  BY <1>1, <1>2, <1>3, <1>4, <1>5, <1>6, <1>7, <1>8, <1>9, <1>10, <1>11, <1>12, <1>13
     DEF Next, Enqueue, OperatorStep, Claim, Expire, Prune

(* The tables hold rows of the shape schema.ts declares, in every state.     *)
THEOREM TypeCorrect == Spec => []TypeOK
<1>1. Init => TypeOK
  <2>1. AbsentTask \in TaskRows
    BY AbsentTaskRow, NoTimeInt DEF NoRow
  <2> QED
    BY <2>1, AbsentLeaseRow DEF Init, TypeOK, NoRow
<1>2. TypeOK /\ [Next]_vars => TypeOK'
  BY TypeStep
<1> QED
  BY <1>1, <1>2, PTL DEF Spec

(***************************************************************************)
(* Tasks, leases and attempts agree about who holds what.                  *)
(*                                                                         *)
(* LeaseAgreement is inductive relative to three facts about the rest of   *)
(* the state, which IInv adds: the tables are typed, a dead task is failed *)
(* (else requeueDeadTask could pull a task from under its lease), and a    *)
(* task whose enqueueTask is in flight has no row yet (else the insert     *)
(* could overwrite a held one).                                            *)
(***************************************************************************)

DeadIsFailed == \A t \in Tasks : tasks[t].dead => tasks[t].status = "failed"

CheckedIsAbsent == \A t \in checked : tasks[t].status = "absent"

IInv == TypeOK /\ LeaseAgreement /\ DeadIsFailed /\ CheckedIsAbsent

(***************************************************************************)
(* LeaseAgreement as a relation between three tables, so that it can be    *)
(* stated of the tables claimNextTask has half-way, after its expireLeases.*)
(***************************************************************************)

HoldsLease(t, T, L, A) ==
  LET l == T[t].leaseId
  IN  /\ l \in Leases
      /\ L[l].status = "active"
      /\ L[l].task = t
      /\ L[l].worker = T[t].leasedBy
      /\ L[l].expiresAt = T[t].leaseExpiresAt
      /\ A[l] = T[t].status

NoLeaseColumns(row) ==
  row.leaseId = Null /\ row.leasedBy = Null /\ row.leaseExpiresAt = NoTime

Agree(T, L, A) ==
  /\ \A t \in Tasks : T[t].status \in HeldStatuses => HoldsLease(t, T, L, A)
  /\ \A t \in Tasks : T[t].status \notin HeldStatuses => NoLeaseColumns(T[t])
  /\ \A l \in Leases : L[l].status = "active" =>
       /\ L[l].task \in Tasks
       /\ T[L[l].task].status \in HeldStatuses
       /\ T[L[l].task].leaseId = l
  /\ \A l \in Leases : A[l] \in HeldStatuses <=> L[l].status = "active"

(* Agree is LeaseAgreement on the current tables, and on the next ones.      *)
LEMMA AgreeNow == LeaseAgreement <=> Agree(tasks, leases, attempts)
  BY DEF LeaseAgreement, HeldTaskHasItsLease, IdleTaskHasNoLease, ActiveLeaseIsHeld,
         OpenAttemptHasActiveLease, Agree, HoldsLease, NoLeaseColumns

LEMMA AgreeNext == LeaseAgreement' <=> Agree(tasks', leases', attempts')
  BY DEF LeaseAgreement, HeldTaskHasItsLease, IdleTaskHasNoLease, ActiveLeaseIsHeld,
         OpenAttemptHasActiveLease, Agree, HoldsLease, NoLeaseColumns

(* The tasks of S give up, or never had, a lease; the other tasks and their  *)
(* leases are left alone (every operation but a claim and a heartbeat).      *)
Vacates(S, T, L, A, T2, L2, A2) ==
  /\ \A t \in Tasks : t \notin S => T2[t] = T[t]
  /\ \A t \in Tasks : t \in S => T2[t].status \notin HeldStatuses /\ NoLeaseColumns(T2[t])
  /\ \A l \in Leases :
       IF L[l].status = "active" /\ L[l].task \notin S
         THEN L2[l] = L[l] /\ A2[l] = A[l]
         ELSE L2[l].status # "active" /\ A2[l] \notin HeldStatuses

LEMMA Vacate ==
  ASSUME NEW T, NEW L, NEW A, NEW T2, NEW L2, NEW A2, NEW S,
         Agree(T, L, A), Vacates(S, T, L, A, T2, L2, A2)
  PROVE  Agree(T2, L2, A2)
<1> USE DEF Vacates
<1>1. ASSUME NEW t \in Tasks, T2[t].status \in HeldStatuses
      PROVE  HoldsLease(t, T2, L2, A2)
  <2>1. t \notin S /\ T2[t] = T[t] /\ HoldsLease(t, T, L, A)
    BY <1>1 DEF Agree
  <2> QED
    BY <2>1 DEF HoldsLease
<1>2. ASSUME NEW t \in Tasks, T2[t].status \notin HeldStatuses
      PROVE  NoLeaseColumns(T2[t])
  BY <1>2 DEF Agree
<1>3. ASSUME NEW l \in Leases, L2[l].status = "active"
      PROVE  /\ L2[l].task \in Tasks
             /\ T2[L2[l].task].status \in HeldStatuses
             /\ T2[L2[l].task].leaseId = l
  BY <1>3 DEF Agree
<1>4. ASSUME NEW l \in Leases
      PROVE  A2[l] \in HeldStatuses <=> L2[l].status = "active"
  BY <1>4 DEF Agree
<1> QED
  BY <1>1, <1>2, <1>3, <1>4 DEF Agree

(* A task without a lease takes a lease that is not active (claimNextTask).  *)
Grants(t, l, T, L, A, T2, L2, A2) ==
  /\ T[t].status \notin HeldStatuses
  /\ L[l].status # "active"
  /\ T2[t].status = "leased"
  /\ L2[l].status = "active"
  /\ T2[t].leaseId = l
  /\ L2[l].task = t
  /\ L2[l].worker = T2[t].leasedBy
  /\ L2[l].expiresAt = T2[t].leaseExpiresAt
  /\ A2[l] = "leased"
  /\ \A u \in Tasks : u # t => T2[u] = T[u]
  /\ \A m \in Leases : m # l => L2[m] = L[m] /\ A2[m] = A[m]

LEMMA Grant ==
  ASSUME NEW T, NEW L, NEW A, NEW T2, NEW L2, NEW A2, NEW t \in Tasks, NEW l \in Leases,
         Agree(T, L, A), Grants(t, l, T, L, A, T2, L2, A2)
  PROVE  Agree(T2, L2, A2)
<1> USE DEF Grants
<1>1. ASSUME NEW u \in Tasks, T2[u].status \in HeldStatuses
      PROVE  HoldsLease(u, T2, L2, A2)
  <2>1. CASE u = t
    BY <2>1 DEF HoldsLease
  <2>2. CASE u # t
    <3>1. T2[u] = T[u] /\ HoldsLease(u, T, L, A)
      BY <1>1, <2>2 DEF Agree
    <3>2. T[u].leaseId # l
      BY <3>1 DEF HoldsLease
    <3> QED
      BY <3>1, <3>2 DEF HoldsLease
  <2> QED
    BY <2>1, <2>2
<1>2. ASSUME NEW u \in Tasks, T2[u].status \notin HeldStatuses
      PROVE  NoLeaseColumns(T2[u])
  BY <1>2 DEF Agree, HeldStatuses
<1>3. ASSUME NEW m \in Leases, L2[m].status = "active"
      PROVE  /\ L2[m].task \in Tasks
             /\ T2[L2[m].task].status \in HeldStatuses
             /\ T2[L2[m].task].leaseId = m
  BY <1>3 DEF Agree, HeldStatuses
<1>4. ASSUME NEW m \in Leases
      PROVE  A2[m] \in HeldStatuses <=> L2[m].status = "active"
  BY <1>4 DEF Agree, HeldStatuses
<1> QED
  BY <1>1, <1>2, <1>3, <1>4 DEF Agree

(***************************************************************************)
(* What the guards of the operations say about the tables.                 *)
(***************************************************************************)

(* Whoever passes assertActiveLease is the one holder of the task.           *)
LEMMA HolderFacts ==
  ASSUME LeaseAgreement, NEW t \in Tasks, NEW l \in Leases, NEW w, NEW at,
         AssertActiveLease(t, l, w, at)
  PROVE  /\ tasks[t].status \in HeldStatuses
         /\ HoldsLease(t, tasks, leases, attempts)
         /\ tasks[t].leaseId = l
         /\ \A m \in Leases : leases[m].status = "active" /\ leases[m].task = t => m = l
<1>1. tasks[t].leaseId = l /\ l # Null
  BY NullAssumption DEF AssertActiveLease
<1>2. Agree(tasks, leases, attempts)
  BY AgreeNow
<1> QED
  BY <1>1, <1>2 DEF Agree, NoLeaseColumns, HoldsLease

(* The row expireLeases leaves: requeued, or dead because it is exhausted.   *)
LEMMA ExpiredRowRow ==
  ASSUME TypeOK, NEW t \in Tasks, NEW at \in Stamps
  PROVE  /\ NoLeaseColumns(ExpiredRow(t, at))
         /\ ExpiredRow(t, at).attemptCount = tasks[t].attemptCount
         /\ \/ /\ ExpiredRow(t, at).status = "failed"
               /\ ExpiredRow(t, at).dead = TRUE
               /\ ExpiredRow(t, at).notBefore = NoTime
               /\ MaxAttemptsReached(t, tasks[t])
            \/ /\ ExpiredRow(t, at).status = "queued"
               /\ ExpiredRow(t, at).dead = tasks[t].dead
               /\ ExpiredRow(t, at).notBefore = RetryAt(t, at)
<1>1. tasks[t] \in TaskRows
  BY DEF TypeOK
<1>2. CASE MaxAttemptsReached(t, tasks[t])
  <2> DEFINE f == WithoutLease(tasks[t], "failed")
  <2>1. f \in TaskRows /\ f.status = "failed" /\ f.attemptCount = tasks[t].attemptCount
        /\ NoLeaseColumns(f)
    BY <1>1, WithoutLeaseRow DEF TaskStatuses, NoLeaseColumns
  <2>2. ExpiredRow(t, at) = [f EXCEPT !.notBefore = NoTime, !.dead = TRUE]
    BY <1>2 DEF ExpiredRow
  <2> HIDE DEF f
  <2> QED
    BY <1>2, <2>1, <2>2 DEF TaskRows, NoLeaseColumns
<1>3. CASE ~ MaxAttemptsReached(t, tasks[t])
  <2> DEFINE q == WithoutLease(tasks[t], "queued")
  <2>1. q \in TaskRows /\ q.status = "queued" /\ q.attemptCount = tasks[t].attemptCount
        /\ q.dead = tasks[t].dead /\ NoLeaseColumns(q)
    BY <1>1, WithoutLeaseRow DEF TaskStatuses, NoLeaseColumns
  <2>2. ExpiredRow(t, at) = [q EXCEPT !.notBefore = RetryAt(t, at)]
    BY <1>3 DEF ExpiredRow
  <2> HIDE DEF q
  <2> QED
    BY <2>1, <2>2 DEF TaskRows, NoLeaseColumns
<1> QED
  BY <1>2, <1>3

(* expireLeases ends the leases of the expired tasks and no others.          *)
LEMMA AgreeAfterExpiry ==
  ASSUME TypeOK, LeaseAgreement, NEW at \in Stamps
  PROVE  /\ Agree(TasksAfterExpiry(at), LeasesAfterExpiry(at), AttemptsAfterExpiry(at))
         /\ Vacates(Expired(at), tasks, leases, attempts,
                    TasksAfterExpiry(at), LeasesAfterExpiry(at), AttemptsAfterExpiry(at))
         /\ \A l \in Leases : l \in ExpiredLeases(at) <=>
                              leases[l].status = "active" /\ leases[l].task \in Expired(at)
<1> DEFINE S == Expired(at)
<1>1. Agree(tasks, leases, attempts)
  BY AgreeNow
<1>2. ASSUME NEW l \in Leases
      PROVE  l \in ExpiredLeases(at) <=> leases[l].status = "active" /\ leases[l].task \in S
  BY <1>1 DEF Agree, HoldsLease, ExpiredLeases, Expired
<1>3. \A t \in Tasks : t \notin S => TasksAfterExpiry(at)[t] = tasks[t]
  BY DEF TasksAfterExpiry
<1>4. ASSUME NEW t \in Tasks, t \in S
      PROVE  TasksAfterExpiry(at)[t].status \notin HeldStatuses /\ NoLeaseColumns(TasksAfterExpiry(at)[t])
  <2>1. TasksAfterExpiry(at)[t] = ExpiredRow(t, at)
    BY <1>4 DEF TasksAfterExpiry
  <2> QED
    BY <2>1, ExpiredRowRow DEF HeldStatuses
<1>5. ASSUME NEW l \in Leases
      PROVE  IF leases[l].status = "active" /\ leases[l].task \in S
               THEN LeasesAfterExpiry(at)[l].status = "expired" /\ AttemptsAfterExpiry(at)[l] = "expired"
               ELSE LeasesAfterExpiry(at)[l] = leases[l] /\ AttemptsAfterExpiry(at)[l] = attempts[l]
  <2>1. [leases[l] EXCEPT !.status = "expired"].status = "expired"
    BY DEF TypeOK, LeaseRows
  <2>2. /\ LeasesAfterExpiry(at)[l] = IF l \in ExpiredLeases(at)
                                       THEN [leases[l] EXCEPT !.status = "expired"] ELSE leases[l]
        /\ AttemptsAfterExpiry(at)[l] = IF l \in ExpiredLeases(at) THEN "expired" ELSE attempts[l]
    BY DEF LeasesAfterExpiry, AttemptsAfterExpiry
  <2> QED
    BY <1>2, <2>1, <2>2
<1>6. ASSUME NEW l \in Leases
      PROVE  IF leases[l].status = "active" /\ leases[l].task \notin S
               THEN LeasesAfterExpiry(at)[l] = leases[l] /\ AttemptsAfterExpiry(at)[l] = attempts[l]
               ELSE LeasesAfterExpiry(at)[l].status # "active" /\ AttemptsAfterExpiry(at)[l] \notin HeldStatuses
  <2>1. attempts[l] \in HeldStatuses <=> leases[l].status = "active"
    BY <1>1 DEF Agree
  <2>2. "expired" \notin HeldStatuses
    BY DEF HeldStatuses
  <2> HIDE DEF S
  <2> QED
    BY <1>5, <2>1, <2>2
<1>7. Vacates(S, tasks, leases, attempts,
              TasksAfterExpiry(at), LeasesAfterExpiry(at), AttemptsAfterExpiry(at))
  <2> HIDE DEF S
  <2> QED
    BY <1>3, <1>4, <1>6 DEF Vacates
<1> QED
  BY <1>1, <1>2, <1>7, Vacate

(***************************************************************************)
(* What one operation may do to the row of a task.                         *)
(***************************************************************************)

SameCounters(old, new) ==
  /\ new.attemptCount = old.attemptCount
  /\ new.notBefore = old.notBefore
  /\ new.dead = old.dead

FreshCounters(new) == new.attemptCount = 0 /\ new.notBefore = NoTime /\ new.dead = FALSE

RowInserted(t, old, new) ==
  old.status = "absent" /\ t \in checked /\ t \notin checked' /\ new.status = "queued" /\ FreshCounters(new)

RowPruned(old, new) ==
  old.status \in TaskStatuses /\ new.status = "pruned" /\ FreshCounters(new)

\* What claimNextTask has checked: dependencies, and the retry delay of a row
\* it found queued.
ReadyToClaim(t, old) ==
  /\ \A d \in Input[t].dependsOn : tasks[d].status = "completed"
  /\ old.status = "queued" => \E at \in Stamps : NullOrAtMost(old.notBefore, at)

RowClaimed(t, old, new) ==
  /\ ReadyToClaim(t, old)
  /\ old.status \in {"queued"} \union HeldStatuses
  /\ new.status = "leased" /\ new.leaseId # old.leaseId
  /\ ~ MaxAttemptsReached(t, old)
  /\ new.attemptCount = old.attemptCount + 1
  /\ new.notBefore = NoTime
  /\ new.dead = old.dead

RowKept(old, new) ==
  /\ old.status \in HeldStatuses
  /\ \/ new.status = old.status
     \/ new.status = "running" /\ CanTransition(old.status, "running")
  /\ new.leaseId = old.leaseId
  /\ SameCounters(old, new)

RowLeft(old, new) ==
  /\ old.status \in HeldStatuses
  /\ CanTransition(old.status, new.status)
  /\ new.status \in TaskStatuses \ HeldStatuses
  /\ SameCounters(old, new)

RowExpired(t, old, new) ==
  /\ old.status \in HeldStatuses
  /\ new.attemptCount = old.attemptCount
  /\ \/ /\ new.status = "failed"
        /\ new.dead = TRUE
        /\ new.notBefore = NoTime
        /\ MaxAttemptsReached(t, old)
     \/ /\ new.status = "queued"
        /\ new.dead = old.dead
        /\ \E at \in Stamps : new.notBefore = RetryAt(t, at)

RowCancelled(old, new) ==
  /\ old.status \in TaskStatuses \ TerminalTaskStatuses
  /\ new.status = "cancelled"
  /\ SameCounters(old, new)

RowResumed(old, new) ==
  old.status \in WaitingTaskStatuses /\ new.status = "queued" /\ SameCounters(old, new)

RowRequeued(old, new) ==
  /\ old.status \in TaskStatuses
  /\ old.dead
  /\ new.status = "queued"
  /\ new.dead = FALSE
  /\ new.notBefore \in {NoTime, now + 1}
  /\ new.attemptCount \in {0, old.attemptCount}

RowStep(t) ==
  LET old == tasks[t]
      new == tasks'[t]
  IN  \/ new = old
      \/ RowInserted(t, old, new)
      \/ RowPruned(old, new)
      \/ RowClaimed(t, old, new)
      \/ RowKept(old, new)
      \/ RowLeft(old, new)
      \/ RowExpired(t, old, new)
      \/ RowCancelled(old, new)
      \/ RowResumed(old, new)
      \/ RowRequeued(old, new)

\* What every operation must show for IInv to survive it.
Sound ==
  /\ LeaseAgreement'
  /\ \A t \in Tasks : RowStep(t)
  /\ \A t \in checked' : t \in checked \/ tasks[t].status = "absent"

(* The rows and the agreement give the rest of the invariant.                *)
LEMMA SoundIsEnough ==
  ASSUME IInv, TypeOK', Sound
  PROVE  IInv'
<1>1. DeadIsFailed'
  <2> SUFFICES ASSUME NEW t \in Tasks, tasks'[t].dead PROVE tasks'[t].status = "failed"
    BY DEF DeadIsFailed
  <2>1. tasks[t].dead => tasks[t].status = "failed"
    BY DEF IInv, DeadIsFailed
  <2>2. RowStep(t)
    BY DEF Sound
  <2> QED
    BY <2>1, <2>2 DEF RowStep, RowInserted, RowPruned, RowClaimed, RowKept, RowLeft,
       RowExpired, RowCancelled, RowResumed, RowRequeued, SameCounters, FreshCounters,
       HeldStatuses, TerminalTaskStatuses, WaitingTaskStatuses
<1>2. CheckedIsAbsent'
  <2> SUFFICES ASSUME NEW t \in checked' PROVE tasks'[t].status = "absent"
    BY DEF CheckedIsAbsent
  <2>1. t \in Tasks
    BY DEF TypeOK
  <2>2. tasks[t].status = "absent"
    BY DEF Sound, IInv, CheckedIsAbsent
  <2>3. RowStep(t)
    BY <2>1 DEF Sound
  <2> QED
    BY <2>2, <2>3 DEF RowStep, RowInserted, RowPruned, RowClaimed, RowKept, RowLeft,
       RowExpired, RowCancelled, RowResumed, RowRequeued,
       HeldStatuses, TaskStatuses, WaitingTaskStatuses
<1> QED
  BY <1>1, <1>2 DEF IInv, Sound

(***************************************************************************)
(* One lemma per operation.                                                *)
(***************************************************************************)

(* Enough for an operation that leaves no lease on the tasks S it touches.   *)
LEMMA SoundIfVacates ==
  ASSUME IInv, NEW S,
         Vacates(S, tasks, leases, attempts, tasks', leases', attempts'),
         \A t \in Tasks : t \in S => RowStep(t),
         \A t \in checked' : t \in checked \/ tasks[t].status = "absent"
  PROVE  Sound
<1>1. LeaseAgreement'
  BY Vacate, AgreeNow, AgreeNext DEF IInv
<1>2. ASSUME NEW t \in Tasks PROVE RowStep(t)
  BY DEF Vacates, RowStep
<1> QED
  BY <1>1, <1>2 DEF Sound

\* The holder of lease l leaves task t as `to', and the attempt as a.
LeaseEnds(t, l, to, a) ==
  /\ tasks[t].status \in HeldStatuses
  /\ leases[l].status = "active" /\ leases[l].task = t
  /\ tasks'[t].status = to /\ SameCounters(tasks[t], tasks'[t])
  /\ \A u \in Tasks : u # t => tasks'[u] = tasks[u]
  /\ leases'[l].status = "released" /\ leases'[l].task = t /\ attempts'[l] = a
  /\ \A m \in Leases : m # l => leases'[m] = leases[m] /\ attempts'[m] = attempts[m]
  /\ Vacates({t}, tasks, leases, attempts, tasks', leases', attempts')

(* What pauseTask, completeTask, failTask and releaseTask do to the tables.  *)
LEMMA LeaveFacts ==
  ASSUME IInv, NEW t \in Tasks, NEW l \in Leases, NEW w \in Workers, NEW at \in Stamps,
         NEW to \in TaskStatuses \ HeldStatuses, NEW a \in AttemptStatuses \ HeldStatuses,
         LeavesLease(t, l, w, at, to, a)
  PROVE  LeaseEnds(t, l, to, a)
<1>1. /\ tasks[t].status \in HeldStatuses
      /\ leases[l].status = "active" /\ leases[l].task = t
      /\ \A m \in Leases : leases[m].status = "active" /\ leases[m].task = t => m = l
  BY HolderFacts DEF LeavesLease, IInv, HoldsLease
<1>2. TypeOK /\ tasks[t] \in TaskRows
  BY DEF IInv, TypeOK
<1>3. tasks'[t] = WithoutLease(tasks[t], to) /\ \A u \in Tasks : u # t => tasks'[u] = tasks[u]
  BY <1>2 DEF LeavesLease, TypeOK
<1>4. tasks'[t].status = to /\ NoLeaseColumns(tasks'[t]) /\ SameCounters(tasks[t], tasks'[t])
  BY <1>2, <1>3, WithoutLeaseRow DEF NoLeaseColumns, SameCounters
<1>5. /\ leases'[l].status = "released" /\ leases'[l].task = leases[l].task /\ attempts'[l] = a
      /\ \A m \in Leases : m # l => leases'[m] = leases[m] /\ attempts'[m] = attempts[m]
  BY <1>2 DEF LeavesLease, TypeOK, LeaseRows
<1>6. \A m \in Leases : attempts[m] \in HeldStatuses <=> leases[m].status = "active"
  BY DEF IInv, LeaseAgreement, OpenAttemptHasActiveLease
<1>7. Vacates({t}, tasks, leases, attempts, tasks', leases', attempts')
  BY <1>1, <1>3, <1>4, <1>5, <1>6 DEF Vacates
<1> QED
  BY <1>1, <1>3, <1>4, <1>5, <1>7 DEF LeaseEnds

LEMMA LeaveSound ==
  ASSUME IInv, NEW t \in Tasks, NEW l \in Leases, NEW w \in Workers, NEW at \in Stamps,
         NEW to \in TaskStatuses \ HeldStatuses, NEW a \in AttemptStatuses \ HeldStatuses,
         LeavesLease(t, l, w, at, to, a)
  PROVE  Sound
<1>1. LeaseEnds(t, l, to, a)
  BY LeaveFacts
<1>2. RowLeft(tasks[t], tasks'[t])
  BY <1>1 DEF LeaseEnds, RowLeft, LeavesLease
<1> QED
  BY <1>1, <1>2, SoundIfVacates DEF LeaseEnds, RowStep, LeavesLease

(* resumeTask: a waiting task has no lease, before and after.                *)
LEMMA ResumeSound ==
  ASSUME IInv, NEW t \in Tasks, Resumes(t)
  PROVE  /\ Sound
         /\ Vacates({t}, tasks, leases, attempts, tasks', leases', attempts')
         /\ RowResumed(tasks[t], tasks'[t])
<1>1. TypeOK /\ tasks[t] \in TaskRows
  BY DEF IInv, TypeOK
<1>2. tasks' = [tasks EXCEPT ![t].status = "queued"]
  BY DEF Resumes
<1>3. /\ tasks'[t].status = "queued" /\ SameCounters(tasks[t], tasks'[t])
      /\ tasks'[t].leaseId = tasks[t].leaseId /\ tasks'[t].leasedBy = tasks[t].leasedBy
      /\ tasks'[t].leaseExpiresAt = tasks[t].leaseExpiresAt
      /\ \A u \in Tasks : u # t => tasks'[u] = tasks[u]
  BY <1>1, <1>2 DEF TypeOK, TaskRows, SameCounters
<1>4. tasks[t].status \in WaitingTaskStatuses /\ tasks[t].status \notin HeldStatuses
  BY DEF Resumes, WaitingTaskStatuses, HeldStatuses
<1>5. NoLeaseColumns(tasks'[t]) /\ tasks'[t].status \notin HeldStatuses
  BY <1>3, <1>4 DEF IInv, LeaseAgreement, IdleTaskHasNoLease, NoLeaseColumns, HeldStatuses
<1>6. \A m \in Leases : /\ attempts[m] \in HeldStatuses <=> leases[m].status = "active"
                        /\ leases[m].status = "active" => leases[m].task # t
  BY <1>4 DEF IInv, LeaseAgreement, OpenAttemptHasActiveLease, ActiveLeaseIsHeld
<1>7. Vacates({t}, tasks, leases, attempts, tasks', leases', attempts')
  BY <1>3, <1>5, <1>6 DEF Vacates, Resumes
<1>8. RowResumed(tasks[t], tasks'[t])
  BY <1>3, <1>4 DEF RowResumed
<1> QED
  BY <1>7, <1>8, SoundIfVacates DEF RowStep, Resumes

(* requeueDeadTask: a dead task is failed, so it has no lease.               *)
LEMMA RequeueSound ==
  ASSUME IInv, NEW t \in Tasks, NEW reset \in BOOLEAN, NEW notBefore \in {NoTime, now + 1},
         Requeues(t, reset, notBefore)
  PROVE  /\ Sound
         /\ Vacates({t}, tasks, leases, attempts, tasks', leases', attempts')
         /\ RowRequeued(tasks[t], tasks'[t])
<1>1. TypeOK /\ tasks[t] \in TaskRows /\ notBefore \in Int
  BY NoTimeInt DEF IInv, TypeOK
<1>2. /\ tasks'[t] = RequeuedRow(tasks[t], reset, notBefore)
      /\ \A u \in Tasks : u # t => tasks'[u] = tasks[u]
  BY <1>1 DEF Requeues, TypeOK
<1>3. /\ tasks'[t].status = "queued" /\ NoLeaseColumns(tasks'[t]) /\ tasks'[t].dead = FALSE
      /\ tasks'[t].notBefore = notBefore
      /\ tasks'[t].attemptCount \in {0, tasks[t].attemptCount}
  <2> DEFINE q == RequeuedRow(tasks[t], reset, notBefore)
  <2>1. /\ q.status = "queued" /\ q.leaseId = Null /\ q.leasedBy = Null
        /\ q.leaseExpiresAt = NoTime /\ q.dead = FALSE /\ q.notBefore = notBefore
        /\ q.attemptCount \in {0, tasks[t].attemptCount}
    BY <1>1, RequeuedRowRow
  <2> HIDE DEF q
  <2> QED
    BY <1>2, <2>1 DEF q, NoLeaseColumns
<1>4. tasks[t].status \notin HeldStatuses
  BY DEF Requeues, IInv, DeadIsFailed, HeldStatuses
<1>6. \A m \in Leases : /\ attempts[m] \in HeldStatuses <=> leases[m].status = "active"
                        /\ leases[m].status = "active" => leases[m].task # t
  BY <1>4 DEF IInv, LeaseAgreement, OpenAttemptHasActiveLease, ActiveLeaseIsHeld
<1>7. Vacates({t}, tasks, leases, attempts, tasks', leases', attempts')
  BY <1>2, <1>3, <1>6 DEF Vacates, Requeues, HeldStatuses
<1>8. RowRequeued(tasks[t], tasks'[t])
  BY <1>3 DEF RowRequeued, Requeues, IInv, DeadIsFailed, TaskStatuses
<1> QED
  BY <1>7, <1>8, SoundIfVacates DEF RowStep, Requeues

(* enqueueTask: the row it fills in was absent.                              *)
LEMMA EnqueueSound ==
  ASSUME IInv, NEW t \in Tasks, NEW at \in Stamps, EnqueueTask(t, at)
  PROVE  /\ Sound
         /\ Vacates({t}, tasks, leases, attempts, tasks', leases', attempts')
         /\ RowInserted(t, tasks[t], tasks'[t])
<1>1. TypeOK /\ at \in Int
  BY StampsAreTimes DEF IInv
<1>2. tasks'[t] = QueuedTask(at) /\ \A u \in Tasks : u # t => tasks'[u] = tasks[u]
  BY <1>1 DEF EnqueueTask, TypeOK
<1>3. /\ tasks'[t].status = "queued" /\ NoLeaseColumns(tasks'[t])
      /\ FreshCounters(tasks'[t])
  BY <1>1, <1>2, QueuedTaskRow DEF NoLeaseColumns, FreshCounters
<1>4. t \in checked /\ t \notin checked' /\ tasks[t].status = "absent"
  BY DEF EnqueueTask, IInv, CheckedIsAbsent
<1>6. \A m \in Leases : /\ attempts[m] \in HeldStatuses <=> leases[m].status = "active"
                        /\ leases[m].status = "active" => leases[m].task # t
  BY <1>4 DEF IInv, LeaseAgreement, OpenAttemptHasActiveLease, ActiveLeaseIsHeld, HeldStatuses
<1>7. Vacates({t}, tasks, leases, attempts, tasks', leases', attempts')
  BY <1>2, <1>3, <1>6 DEF Vacates, EnqueueTask, HeldStatuses
<1>8. RowInserted(t, tasks[t], tasks'[t])
  BY <1>3, <1>4 DEF RowInserted
<1> QED
  BY <1>7, <1>8, SoundIfVacates DEF RowStep, EnqueueTask

\* The tasks cancelRun and pruneRuns write to.
OpenTasksOf(r) == {t \in Tasks : RunOf(t) = r /\ tasks[t].status \in TaskStatuses \ TerminalTaskStatuses}

RowsOf(R) == {t \in Tasks : RunOf(t) \in R /\ tasks[t].status \in TaskStatuses}

(* cancelRun: the tasks it cancels and the leases it cancels are the same    *)
(* pairs, although it finds them by run_id in three separate UPDATEs.        *)
LEMMA CancelSound ==
  ASSUME IInv, NEW r \in Runs, CancelRun(r)
  PROVE  /\ Sound
         /\ Vacates(OpenTasksOf(r), tasks, leases, attempts, tasks', leases', attempts')
         /\ \A t \in OpenTasksOf(r) : RowCancelled(tasks[t], tasks'[t])
<1> DEFINE S == OpenTasksOf(r)
<1> USE DEF OpenTasksOf
<1>1. TypeOK /\ Agree(tasks, leases, attempts)
  BY AgreeNow DEF IInv
<1>2. \A t \in Tasks : tasks'[t] = IF t \in S THEN WithoutLease(tasks[t], "cancelled") ELSE tasks[t]
  BY DEF CancelRun, TasksOf
<1>3. ASSUME NEW t \in Tasks, t \in S
      PROVE  /\ tasks'[t].status = "cancelled" /\ NoLeaseColumns(tasks'[t])
             /\ SameCounters(tasks[t], tasks'[t])
  <2>1. tasks[t] \in TaskRows /\ "cancelled" \in TaskStatuses
    BY <1>1 DEF TypeOK, TaskStatuses
  <2>2. tasks'[t] = WithoutLease(tasks[t], "cancelled")
    BY <1>2, <1>3
  <2> QED
    BY <2>1, <2>2, WithoutLeaseRow DEF NoLeaseColumns, SameCounters
<1>4. ASSUME NEW l \in Leases, leases[l].status = "active"
      PROVE  leases[l].task \in S <=> RunOf(leases[l].task) = r
  BY <1>1, <1>4 DEF Agree, HeldStatuses, TaskStatuses, TerminalTaskStatuses
<1>5. ASSUME NEW l \in Leases
      PROVE  IF leases[l].status = "active" /\ leases[l].task \notin S
               THEN leases'[l] = leases[l] /\ attempts'[l] = attempts[l]
               ELSE leases'[l].status # "active" /\ attempts'[l] \notin HeldStatuses
  <2>1. [leases[l] EXCEPT !.status = "cancelled"].status = "cancelled"
    BY <1>1 DEF TypeOK, LeaseRows
  <2>2. attempts[l] \in HeldStatuses <=> leases[l].status = "active"
    BY <1>1 DEF Agree
  <2>3. /\ leases'[l] = IF leases[l].status = "active" /\ RunOf(leases[l].task) = r
                          THEN [leases[l] EXCEPT !.status = "cancelled"] ELSE leases[l]
        /\ attempts'[l] = IF attempts[l] \in HeldStatuses /\ RunOf(leases[l].task) = r
                            THEN "cancelled" ELSE attempts[l]
    BY DEF CancelRun
  <2> HIDE DEF S
  <2> QED
    BY <1>4, <2>1, <2>2, <2>3 DEF HeldStatuses
<1>6. ASSUME NEW t \in Tasks, t \in S PROVE RowStep(t) /\ RowCancelled(tasks[t], tasks'[t])
  BY <1>3, <1>6 DEF RowStep, RowCancelled
<1> HIDE DEF OpenTasksOf
<1>7. Vacates(S, tasks, leases, attempts, tasks', leases', attempts')
  BY <1>2, <1>3, <1>5 DEF Vacates, HeldStatuses
<1> QED
  BY <1>6, <1>7, SoundIfVacates DEF CancelRun, OpenTasksOf

(* pruneRuns: the rows of a run go together.                                 *)
LEMMA PruneSound ==
  ASSUME IInv, NEW statuses, NEW R, PruneRuns(statuses, R)
  PROVE  /\ Sound
         /\ Vacates(RowsOf(R), tasks, leases, attempts, tasks', leases', attempts')
         /\ \A t \in RowsOf(R) : RowPruned(tasks[t], tasks'[t])
<1> USE DEF RowsOf
<1> DEFINE S == RowsOf(R)
           gone == [AbsentTask EXCEPT !.status = "pruned"]
<1>1. TypeOK /\ Agree(tasks, leases, attempts)
  BY AgreeNow DEF IInv
<1>2. \A t \in Tasks : tasks'[t] = IF t \in S THEN gone ELSE tasks[t]
  BY DEF PruneRuns
<1>3. gone.status = "pruned" /\ NoLeaseColumns(gone) /\ FreshCounters(gone)
  BY AbsentTaskRow DEF NoLeaseColumns, FreshCounters, NoRow
<1>4. ASSUME NEW l \in Leases, leases[l].status = "active"
      PROVE  leases[l].task \in S <=> RunOf(leases[l].task) \in R
  BY <1>1, <1>4 DEF Agree, HeldStatuses, TaskStatuses
<1>5. ASSUME NEW l \in Leases
      PROVE  IF leases[l].status = "active" /\ leases[l].task \notin S
               THEN leases'[l] = leases[l] /\ attempts'[l] = attempts[l]
               ELSE leases'[l].status # "active" /\ attempts'[l] \notin HeldStatuses
  <2>1. [AbsentLease EXCEPT !.status = "pruned"].status = "pruned"
    BY AbsentLeaseRow
  <2>2. attempts[l] \in HeldStatuses <=> leases[l].status = "active"
    BY <1>1 DEF Agree
  <2>3. /\ leases'[l] = IF leases[l].status \in LeaseStatuses /\ RunOf(leases[l].task) \in R
                          THEN [AbsentLease EXCEPT !.status = "pruned"] ELSE leases[l]
        /\ attempts'[l] = IF leases[l].status \in LeaseStatuses /\ RunOf(leases[l].task) \in R
                            THEN "pruned" ELSE attempts[l]
    BY DEF PruneRuns
  <2>4. leases[l].status = "active" => leases[l].status \in LeaseStatuses
    BY DEF LeaseStatuses
  <2> HIDE DEF S
  <2> QED
    BY <1>4, <2>1, <2>2, <2>3, <2>4 DEF HeldStatuses
<1> HIDE DEF gone
<1>6. ASSUME NEW t \in Tasks, t \in S PROVE RowStep(t) /\ RowPruned(tasks[t], tasks'[t])
  BY <1>2, <1>3, <1>6 DEF RowStep, RowPruned
<1> HIDE DEF RowsOf
<1>7. Vacates(S, tasks, leases, attempts, tasks', leases', attempts')
  BY <1>2, <1>3, <1>5 DEF Vacates, HeldStatuses
<1> QED
  BY <1>6, <1>7, SoundIfVacates DEF PruneRuns, RowsOf

(* expireLeases.                                                             *)
LEMMA ExpireSound ==
  ASSUME IInv, NEW at \in Stamps, ExpireLeases(at)
  PROVE  Sound
<1>1. LeaseAgreement'
  BY AgreeAfterExpiry, AgreeNext DEF IInv, ExpireLeases
<1>2. ASSUME NEW t \in Tasks PROVE RowStep(t)
  <2>1. tasks'[t] = IF t \in Expired(at) THEN ExpiredRow(t, at) ELSE tasks[t]
    BY DEF ExpireLeases, TasksAfterExpiry
  <2>2. CASE t \in Expired(at)
    <3>1. tasks[t].status \in HeldStatuses
      BY <2>2 DEF Expired
    <3>2. RowExpired(t, tasks[t], tasks'[t])
      BY <2>1, <2>2, <3>1, ExpiredRowRow DEF RowExpired, IInv
    <3> QED
      BY <3>2 DEF RowStep
  <2>3. CASE t \notin Expired(at)
    BY <2>1, <2>3 DEF RowStep
  <2> QED
    BY <2>2, <2>3
<1> QED
  BY <1>1, <1>2 DEF Sound, ExpireLeases

(* heartbeatLease and markTaskRunning write the same change to both sides    *)
(* of the pair they hold.                                                    *)
LEMMA KeepLeaseSound ==
  ASSUME IInv, NEW t \in Tasks, NEW l \in Leases,
         HoldsLease(t, tasks, leases, attempts), tasks[t].leaseId = l,
         tasks'[t].status \in HeldStatuses, tasks'[t].leaseId = l,
         HoldsLease(t, tasks', leases', attempts'),
         \A u \in Tasks : u # t => tasks'[u] = tasks[u],
         \A m \in Leases : m # l => leases'[m] = leases[m] /\ attempts'[m] = attempts[m],
         RowStep(t), checked' = checked
  PROVE  Sound
<1>1. Agree(tasks, leases, attempts)
  BY AgreeNow DEF IInv
<1>2. leases'[l].status = "active" /\ leases'[l].task = t /\ attempts'[l] \in HeldStatuses
  BY DEF HoldsLease
<1>3. ASSUME NEW u \in Tasks, u # t, tasks[u].status \in HeldStatuses
      PROVE  tasks[u].leaseId # l /\ HoldsLease(u, tasks', leases', attempts')
  <2>1. HoldsLease(u, tasks, leases, attempts)
    BY <1>1, <1>3 DEF Agree
  <2>2. tasks[u].leaseId # l
    BY <1>3, <2>1 DEF HoldsLease
  <2> QED
    BY <1>3, <2>1, <2>2 DEF HoldsLease
<1>4. Agree(tasks', leases', attempts')
  <2>1. \A u \in Tasks : tasks'[u].status \in HeldStatuses => HoldsLease(u, tasks', leases', attempts')
    BY <1>3
  <2>2. \A u \in Tasks : tasks'[u].status \notin HeldStatuses => NoLeaseColumns(tasks'[u])
    BY <1>1 DEF Agree
  <2>3. ASSUME NEW m \in Leases, leases'[m].status = "active"
        PROVE  /\ leases'[m].task \in Tasks
               /\ tasks'[leases'[m].task].status \in HeldStatuses
               /\ tasks'[leases'[m].task].leaseId = m
    BY <1>1, <1>2, <2>3 DEF Agree
  <2>4. \A m \in Leases : attempts'[m] \in HeldStatuses <=> leases'[m].status = "active"
    BY <1>1, <1>2 DEF Agree
  <2> QED
    BY <2>1, <2>2, <2>3, <2>4 DEF Agree
<1> QED
  BY <1>4, AgreeNext DEF Sound, RowStep

LEMMA HeartbeatSound ==
  ASSUME IInv, NEW t \in Tasks, NEW l \in Leases, NEW w \in Workers, NEW ms, NEW at,
         HeartbeatLease(t, l, w, ms, at)
  PROVE  Sound
<1>1. TypeOK /\ tasks[t] \in TaskRows /\ leases[l] \in LeaseRows
  BY DEF IInv, TypeOK
<1>2. tasks[t].status \in HeldStatuses /\ tasks[t].leaseId = l /\ HoldsLease(t, tasks, leases, attempts)
  BY HolderFacts DEF HeartbeatLease, IInv
<1>3. /\ tasks'[t].leaseExpiresAt = at + ms
      /\ tasks'[t].status = tasks[t].status
      /\ tasks'[t].leaseId = tasks[t].leaseId
      /\ tasks'[t].leasedBy = tasks[t].leasedBy
      /\ SameCounters(tasks[t], tasks'[t])
      /\ \A u \in Tasks : u # t => tasks'[u] = tasks[u]
  BY <1>1 DEF HeartbeatLease, TypeOK, TaskRows, SameCounters
<1>4. /\ leases'[l].expiresAt = at + ms
      /\ leases'[l].status = leases[l].status
      /\ leases'[l].task = leases[l].task
      /\ leases'[l].worker = leases[l].worker
      /\ attempts' = attempts
      /\ \A m \in Leases : m # l => leases'[m] = leases[m]
  BY <1>1 DEF HeartbeatLease, TypeOK, LeaseRows
<1>5. HoldsLease(t, tasks', leases', attempts')
  BY <1>2, <1>3, <1>4 DEF HoldsLease
<1>6. RowKept(tasks[t], tasks'[t])
  <2>1. tasks'[t].status = tasks[t].status /\ tasks'[t].leaseId = tasks[t].leaseId
    BY <1>3
  <2>2. SameCounters(tasks[t], tasks'[t])
    BY <1>3
  <2> QED
    BY <1>2, <2>1, <2>2 DEF RowKept
<1>8. RowStep(t)
  BY <1>6 DEF RowStep
<1>7. checked' = checked
  BY DEF HeartbeatLease
<1> QED
  BY <1>2, <1>3, <1>4, <1>5, <1>7, <1>8, KeepLeaseSound

LEMMA MarkRunningSound ==
  ASSUME IInv, NEW t \in Tasks, NEW l \in Leases, NEW w \in Workers, NEW at,
         StartsRunning(t, l, w, at)
  PROVE  Sound
<1>1. TypeOK /\ tasks[t] \in TaskRows
  BY DEF IInv, TypeOK
<1>2. tasks[t].status \in HeldStatuses /\ tasks[t].leaseId = l /\ HoldsLease(t, tasks, leases, attempts)
  BY HolderFacts DEF StartsRunning, IInv
<1>3. /\ tasks'[t].status = "running"
      /\ tasks'[t].leaseExpiresAt = tasks[t].leaseExpiresAt
      /\ tasks'[t].leaseId = tasks[t].leaseId
      /\ tasks'[t].leasedBy = tasks[t].leasedBy
      /\ SameCounters(tasks[t], tasks'[t])
      /\ \A u \in Tasks : u # t => tasks'[u] = tasks[u]
  BY <1>1 DEF StartsRunning, TypeOK, TaskRows, SameCounters
<1>4. /\ attempts'[l] = "running"
      /\ leases' = leases
      /\ \A m \in Leases : m # l => attempts'[m] = attempts[m]
  BY <1>1 DEF StartsRunning, TypeOK
<1>5. HoldsLease(t, tasks', leases', attempts')
  BY <1>2, <1>3, <1>4 DEF HoldsLease
<1>6. RowKept(tasks[t], tasks'[t])
  BY <1>2, <1>3 DEF RowKept, StartsRunning
<1>8. RowStep(t)
  BY <1>6 DEF RowStep
<1>7. checked' = checked /\ "running" \in HeldStatuses
  BY DEF StartsRunning, HeldStatuses
<1> QED
  BY <1>2, <1>3, <1>4, <1>5, <1>7, <1>8, KeepLeaseSound

(* claimNextTask: expires leases, then grants one, in one transaction.       *)
\* Task t, as expireLeases left it, is granted to lease l.
ClaimGrants(t, l, kinds, at) ==
  LET T == TasksAfterExpiry(at)
      old == T[t]
      new == tasks'[t]
  IN  /\ Claimable(t, kinds, at, T, Recompute({RunOf(s) : s \in Expired(at)}, T))
      /\ old.leaseId = Null
      /\ new.status = "leased" /\ new.leaseId = l
      /\ new.attemptCount = old.attemptCount + 1
      /\ new.notBefore = NoTime
      /\ new.dead = old.dead
      /\ Grants(t, l, T, LeasesAfterExpiry(at), AttemptsAfterExpiry(at), tasks', leases', attempts')

LEMMA ClaimFacts ==
  ASSUME IInv, NEW t \in Tasks, NEW w \in Workers, NEW l \in Leases, NEW k \in OptionalTokens,
         NEW kinds, NEW ms \in LeaseDurations, NEW at \in Stamps, Takes(t, w, l, k, kinds, ms, at)
  PROVE  ClaimGrants(t, l, kinds, at)
<1> DEFINE T == TasksAfterExpiry(at)
           L == LeasesAfterExpiry(at)
           A == AttemptsAfterExpiry(at)
           R == Recompute({RunOf(s) : s \in Expired(at)}, T)
<1>1. /\ TypeOK
      /\ T \in [Tasks -> TaskRows]
      /\ L \in [Leases -> LeaseRows]
      /\ A \in [Leases -> AttemptStatuses \union NoRow]
      /\ Agree(T, L, A)
  BY ExpiryType, AgreeAfterExpiry DEF IInv
<1>2. /\ Claimable(t, kinds, at, T, R)
      /\ tasks' = [T EXCEPT ![t] = ClaimedRow(@, l, w, at + ms)]
      /\ leases' = [L EXCEPT ![l] = [status |-> "active", task |-> t, worker |-> w,
                                      expiresAt |-> at + ms, token |-> k]]
      /\ attempts' = [A EXCEPT ![l] = "leased"]
  BY DEF Takes
<1>2a. Claimable(t, kinds, at, TasksAfterExpiry(at),
                 Recompute({RunOf(s) : s \in Expired(at)}, TasksAfterExpiry(at)))
  BY <1>2
<1>3. at + ms \in Int
  BY <1>1, StampsAreTimes, BoundsAssumption
<1>4. \A u \in Tasks : T[u] = IF u \in Expired(at) THEN ExpiredRow(u, at) ELSE tasks[u]
  BY DEF TasksAfterExpiry
<1>5. L[l].status # "active"
  <2>1. leases[l].status = "absent" /\ leases[l] \in LeaseRows
    BY <1>1 DEF Takes, TypeOK
  <2>2. [leases[l] EXCEPT !.status = "expired"].status = "expired"
    BY <2>1 DEF LeaseRows
  <2> QED
    BY <2>1, <2>2 DEF LeasesAfterExpiry
<1>6. T[t].status = "queued" /\ ~ MaxAttemptsReached(t, T[t]) /\ T[t].leaseId = Null
  BY <1>1, <1>2 DEF Claimable, Agree, NoLeaseColumns, HeldStatuses
<1> HIDE DEF T, L, A, R
<1>7. /\ tasks'[t] = ClaimedRow(T[t], l, w, at + ms)
      /\ \A u \in Tasks : u # t => tasks'[u] = T[u]
  BY <1>1, <1>2
<1>8. /\ tasks'[t].status = "leased" /\ tasks'[t].leaseId = l
      /\ tasks'[t].leasedBy = w /\ tasks'[t].leaseExpiresAt = at + ms
      /\ tasks'[t].attemptCount = T[t].attemptCount + 1
      /\ tasks'[t].notBefore = NoTime
      /\ tasks'[t].dead = T[t].dead
  <2>1. T[t] \in TaskRows
    BY <1>1
  <2> QED
    BY <1>3, <1>7, <2>1, ClaimedRowRow
<1>9. /\ leases'[l].status = "active" /\ leases'[l].task = t
      /\ leases'[l].worker = w /\ leases'[l].expiresAt = at + ms
      /\ attempts'[l] = "leased"
      /\ \A m \in Leases : m # l => leases'[m] = L[m] /\ attempts'[m] = A[m]
  BY <1>1, <1>2
<1>10. Grants(t, l, T, L, A, tasks', leases', attempts')
  BY <1>5, <1>6, <1>7, <1>8, <1>9 DEF Grants, HeldStatuses
<1> QED
  BY <1>2, <1>2a, <1>6, <1>8, <1>10 DEF ClaimGrants, T, L, A

LEMMA ClaimSound ==
  ASSUME IInv, NEW t \in Tasks, NEW w \in Workers, NEW l \in Leases, NEW k \in OptionalTokens,
         NEW kinds, NEW ms \in LeaseDurations, NEW at \in Stamps, Takes(t, w, l, k, kinds, ms, at)
  PROVE  Sound
<1> DEFINE T == TasksAfterExpiry(at)
<1>1. TypeOK /\ Agree(T, LeasesAfterExpiry(at), AttemptsAfterExpiry(at))
  BY AgreeAfterExpiry DEF IInv
<1>2. ClaimGrants(t, l, kinds, at)
  BY ClaimFacts
<1>4. \A u \in Tasks : T[u] = IF u \in Expired(at) THEN ExpiredRow(u, at) ELSE tasks[u]
  BY DEF TasksAfterExpiry
<1>6. T[t].status = "queued" /\ ~ MaxAttemptsReached(t, T[t])
  BY <1>2 DEF ClaimGrants, Claimable
<1>7. /\ tasks'[t].status = "leased" /\ tasks'[t].leaseId = l /\ T[t].leaseId = Null
      /\ tasks'[t].attemptCount = T[t].attemptCount + 1
      /\ tasks'[t].notBefore = NoTime
      /\ tasks'[t].dead = T[t].dead
      /\ Grants(t, l, T, LeasesAfterExpiry(at), AttemptsAfterExpiry(at), tasks', leases', attempts')
  BY <1>2 DEF ClaimGrants
<1>8. \A u \in Tasks : u # t => tasks'[u] = T[u]
  BY <1>7 DEF Grants
<1> HIDE DEF T
<1>11. LeaseAgreement'
  BY <1>1, <1>7, Grant, AgreeNext
<1>12. ASSUME NEW u \in Tasks, u # t PROVE RowStep(u)
  <2>1. CASE u \in Expired(at)
    <3>1. tasks[u].status \in HeldStatuses
      BY <2>1 DEF Expired
    <3>2. tasks'[u] = ExpiredRow(u, at)
      BY <1>4, <1>8, <1>12, <2>1
    <3>3. RowExpired(u, tasks[u], tasks'[u])
      BY <1>1, <3>1, <3>2, ExpiredRowRow DEF RowExpired
    <3> QED
      BY <3>3 DEF RowStep
  <2>2. CASE u \notin Expired(at)
    BY <1>4, <1>8, <1>12, <2>2 DEF RowStep
  <2> QED
    BY <2>1, <2>2
<1>13. RowClaimed(t, tasks[t], tasks'[t])
  <2>1. ReadyToClaim(t, tasks[t])
    <3>1. ASSUME NEW d \in Input[t].dependsOn PROVE tasks[d].status = "completed"
      <4>1. d \in Tasks
        BY InputAssumption DEF InputRecords
      <4>2. T[d].status = "completed"
        BY <1>2 DEF ClaimGrants, Claimable, T
      <4>3. d \in Expired(at) => T[d].status # "completed"
        BY <1>1, <1>4, <4>1, ExpiredRowRow
      <4> QED
        BY <1>4, <4>1, <4>2, <4>3
    <3>2. ASSUME tasks[t].status = "queued" PROVE NullOrAtMost(tasks[t].notBefore, at)
      <4>1. t \notin Expired(at)
        BY <3>2 DEF Expired, HeldStatuses
      <4> QED
        BY <1>2, <1>4, <4>1 DEF ClaimGrants, Claimable, T
    <3> QED
      BY <3>1, <3>2 DEF ReadyToClaim
  <2>2. CASE t \in Expired(at)
    <3>1. tasks[t].status \in HeldStatuses /\ T[t] = ExpiredRow(t, at)
      BY <1>4, <2>2 DEF Expired
    <3>2. T[t].attemptCount = tasks[t].attemptCount /\ T[t].dead = tasks[t].dead
      BY <1>1, <1>6, <3>1, ExpiredRowRow
    <3>3. ~ MaxAttemptsReached(t, tasks[t])
      BY <1>6, <3>2 DEF MaxAttemptsReached
    <3>4. tasks[t].leaseId # l
      BY <3>1 DEF IInv, LeaseAgreement, HeldTaskHasItsLease, Takes
    <3> QED
      BY <1>7, <2>1, <3>1, <3>2, <3>3, <3>4 DEF RowClaimed
  <2>3. CASE t \notin Expired(at)
    <3>1. T[t] = tasks[t]
      BY <1>4, <2>3
    <3>2. tasks[t].leaseId # l
      BY <1>7, <3>1, NullAssumption
    <3> QED
      BY <1>6, <1>7, <2>1, <3>1, <3>2 DEF RowClaimed
  <2> QED
    BY <2>2, <2>3
<1>14. checked' = checked
  BY DEF Takes
<1> QED
  BY <1>11, <1>12, <1>13, <1>14 DEF Sound, RowStep

(* Every operation is sound.                                                 *)
LEMMA StepSound ==
  ASSUME IInv, [Next]_vars
  PROVE  Sound
<1>1. ASSUME tasks' = tasks, leases' = leases, attempts' = attempts,
             \A t \in checked' : t \in checked \/ tasks[t].status = "absent"
      PROVE  Sound
  <2>1. LeaseAgreement'
    BY <1>1, AgreeNow, AgreeNext DEF IInv
  <2> QED
    BY <1>1, <2>1 DEF Sound, RowStep
<1>2. ASSUME NEW r \in Runs, CreateRun(r) PROVE Sound
  BY <1>1, <1>2 DEF CreateRun
<1>3. ASSUME NEW t \in Tasks, EnqueueCheck(t) PROVE Sound
  BY <1>1, <1>3 DEF EnqueueCheck
<1>4. ASSUME NEW t \in Tasks, EnqueueThrows(t) PROVE Sound
  BY <1>1, <1>4 DEF EnqueueThrows
<1>5. ASSUME Tick PROVE Sound
  BY <1>1, <1>5 DEF Tick
<1>6. ASSUME UNCHANGED vars PROVE Sound
  BY <1>1, <1>6 DEF vars
<1>7. ASSUME NEW t \in Tasks, NEW reset \in BOOLEAN, NEW notBefore \in {NoTime, now + 1},
             RequeueDeadTask(t, reset, notBefore)
      PROVE  Sound
  BY <1>7, StoreWrites, RequeueSound
<1>8. ASSUME NEW t \in Tasks, NEW l \in Leases, NEW w \in Workers, NEW at \in Stamps,
             HolderStep(t, l, w, at)
      PROVE  Sound
  <2>1. ASSUME NEW ms \in LeaseDurations, HeartbeatLease(t, l, w, ms, at) PROVE Sound
    BY <2>1, HeartbeatSound
  <2>2. CASE MarkTaskRunning(t, l, w, at)
    BY <2>2, StoreWrites, MarkRunningSound
  <2>3. ASSUME NEW to \in WaitingTaskStatuses, PauseTask(t, l, w, to, at) PROVE Sound
    <3>1. to \in TaskStatuses \ HeldStatuses /\ "released" \in AttemptStatuses \ HeldStatuses
      BY DEF WaitingTaskStatuses, TaskStatuses, HeldStatuses, AttemptStatuses
    <3> QED
      BY <2>3, <3>1, StoreWrites, LeaveSound DEF PauseTask
  <2>4. CASE ReleaseTask(t, l, w, at)
    <3>1. "queued" \in TaskStatuses \ HeldStatuses /\ "released" \in AttemptStatuses \ HeldStatuses
      BY DEF TaskStatuses, HeldStatuses, AttemptStatuses
    <3> QED
      BY <2>4, <3>1, StoreWrites, LeaveSound DEF ReleaseTask
  <2>5. ASSUME NEW k \in OptionalTokens, CompleteTask(t, l, w, k, at) PROVE Sound
    <3>1. "completed" \in TaskStatuses \ HeldStatuses /\ "completed" \in AttemptStatuses \ HeldStatuses
      BY DEF TaskStatuses, HeldStatuses, AttemptStatuses
    <3> QED
      BY <2>5, <3>1, StoreWrites, LeaveSound DEF CompleteTask
  <2>6. ASSUME NEW k \in OptionalTokens, FailTask(t, l, w, k, at) PROVE Sound
    <3>1. "failed" \in TaskStatuses \ HeldStatuses /\ "failed" \in AttemptStatuses \ HeldStatuses
      BY DEF TaskStatuses, HeldStatuses, AttemptStatuses
    <3> QED
      BY <2>6, <3>1, StoreWrites, LeaveSound DEF FailTask
  <2> QED
    BY <1>8, <2>1, <2>2, <2>3, <2>4, <2>5, <2>6 DEF HolderStep
<1>9. ASSUME NEW t \in Tasks, ResumeTask(t) PROVE Sound
  BY <1>9, StoreWrites, ResumeSound
<1>10. ASSUME NEW w \in Workers, NEW l \in Leases, NEW k \in OptionalTokens, NEW kinds \in KindFilters,
              NEW ms \in LeaseDurations, NEW at \in Stamps, ClaimNextTask(w, l, k, kinds, ms, at)
       PROVE  Sound
  <2>1. PICK t \in Tasks : Takes(t, w, l, k, kinds, ms, at)
    BY <1>10, StoreWrites
  <2> QED
    BY <2>1, ClaimSound
<1> QED
  BY <1>2, <1>3, <1>4, <1>5, <1>6, <1>7, <1>8, <1>9, <1>10, CancelSound, EnqueueSound,
     ExpireSound, PruneSound
     DEF Next, Enqueue, OperatorStep, Claim, Expire, Prune

(* The inductive invariant.                                                  *)
LEMMA InitIInv == Init => IInv
  BY NoTimeInt DEF Init, IInv, TypeOK, LeaseAgreement, HeldTaskHasItsLease, IdleTaskHasNoLease,
     ActiveLeaseIsHeld, OpenAttemptHasActiveLease, DeadIsFailed, CheckedIsAbsent,
     AbsentTask, AbsentLease, HeldStatuses, TaskRows, LeaseRows, NoRow

LEMMA StepIInv ==
  ASSUME IInv, [Next]_vars
  PROVE  IInv' /\ Sound
<1>1. TypeOK' /\ Sound
  BY TypeStep, StepSound DEF IInv
<1> QED
  BY <1>1, SoundIsEnough

LEMMA Inductive == Spec => []IInv
  BY InitIInv, StepIInv, PTL DEF Spec

(* In every state a held task, its lease and its attempt name one another,   *)
(* and nothing else is held.                                                 *)
THEOREM LeaseAgreementHolds == Spec => []LeaseAgreement
<1>1. IInv => LeaseAgreement
  BY DEF IInv
<1> QED
  BY <1>1, Inductive, PTL
=============================================================================
