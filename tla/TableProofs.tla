----------------------------- MODULE TableProofs -----------------------------
(***************************************************************************)
(* Machine-checked proofs of what the tables of SqliteStore say about one  *)
(* another: a run and its tasks, a task and its attempts, references       *)
(* between rows, task keys, dependencies, completion records, and the one  *)
(* attempt that completes a task.                                          *)
(*                                                                         *)
(* The first half is about runs.  deriveRunStatus is what lifecycle.md     *)
(* documents.  The stored status of a run is, in every state, the one it   *)
(* gives for the run's tasks, and therefore nobody holds a task of a run   *)
(* that is over.  Two things make it true although cancelRun and pruneRuns *)
(* do not call recomputeRunStatus: recomputing is idempotent               *)
(* (DeriveIdempotent), and an operation recomputes every run whose tasks   *)
(* it touches.                                                             *)
(*                                                                         *)
(* The second half is about rows.  Every operation but pruneRuns keeps     *)
(* every row (Persists); pruneRuns deletes the rows of a run all together, *)
(* and no row refers to another run.  TableInv is the invariant both       *)
(* preserve.                                                               *)
(*                                                                         *)
(* At the end, the refinement of TaskOwnership.                            *)
(***************************************************************************)
EXTENDS StoreProofs, StatusProperties, StoreRefinement, FiniteSetTheorems

(***************************************************************************)
(* deriveRunStatus on its own, for any number of tasks: it gives the       *)
(* status that lifecycle.md documents, and what it gives does not depend   *)
(* on when a run was last recomputed (StatusProperties).                   *)
(***************************************************************************)

(* What deriveRunStatus is applied to.                                       *)
StatusType ==
  /\ run \in RunStatuses
  /\ status \in [RunTasks -> TaskStatuses \union {"absent"}]

LEMMA OccurringType == ASSUME StatusType PROVE Occurring(status) \in SUBSET TaskStatuses
  BY DEF StatusType, Occurring

(* Each result of deriveRunStatus meets its row of the table in lifecycle.md *)
(* and, unless a cancelled run keeps its status, no other row.               *)
LEMMA DeriveDocumented ==
  ASSUME NEW c \in RunStatuses, NEW S \in SUBSET TaskStatuses
  PROVE  /\ DocumentedStatus(c, S, DeriveRunStatus(c, S))
         /\ \A r \in RunStatuses : DocumentedStatus(c, S, r) =>
              r = DeriveRunStatus(c, S) \/ DeriveRunStatus(c, S) = "cancelled"
  BY DEF DocumentedStatus, DeriveRunStatus, RunStatuses, TaskStatuses, HeldStatuses,
     ActiveTaskStatuses, WaitingTaskStatuses

(* What a run was before is forgotten by a recompute, unless it was          *)
(* cancelled.                                                                *)
LEMMA DeriveForgets ==
  ASSUME NEW c \in RunStatuses \ {"cancelled"}, NEW d \in RunStatuses \ {"cancelled"},
         NEW S \in SUBSET TaskStatuses
  PROVE  DeriveRunStatus(c, S) = DeriveRunStatus(d, S)
  BY DEF DeriveRunStatus, RunStatuses, TaskStatuses, HeldStatuses, ActiveTaskStatuses,
     WaitingTaskStatuses

LEMMA StatusInductive == StatusSpec => []StatusType
<1>1. StatusInit => StatusType
  BY DEF StatusInit, StatusType
<1>2. ASSUME StatusType, [StatusNext]_statusVars PROVE StatusType'
  <2>1. CASE UNCHANGED statusVars
    BY <1>2, <2>1 DEF StatusType, statusVars
  <2>2. ASSUME NEW t \in RunTasks, NEW to \in TaskStatuses, MoveTask(t, to) PROVE StatusType'
    <3>1. status' \in [RunTasks -> TaskStatuses \union {"absent"}]
      BY <1>2, <2>2 DEF StatusType, MoveTask
    <3>2. Occurring(status') \in SUBSET TaskStatuses
      BY <3>1 DEF Occurring
    <3>3. run' \in RunStatuses
      BY <1>2, <2>2, <3>2, DeriveType DEF StatusType, MoveTask
    <3> QED
      BY <3>1, <3>3 DEF StatusType
  <2> QED
    BY <1>2, <2>1, <2>2 DEF StatusNext
<1> QED
  BY <1>1, <1>2, PTL DEF StatusSpec

(* deriveRunStatus is the table of lifecycle.md: the order of its tests      *)
(* decides nothing but the precedence of cancellation.                       *)
THEOREM DerivedAsDocumentedHolds == StatusSpec => []DerivedAsDocumented
<1>1. StatusType => DerivedAsDocumented
  BY OccurringType, DeriveDocumented DEF StatusType, DerivedAsDocumented
<1> QED
  BY <1>1, StatusInductive, PTL

(* expireLeases, which recomputes a run after every task it expires, leaves  *)
(* it as one recompute at the end would.                                     *)
THEOREM RecomputeForgetsHistoryHolds == StatusSpec => []RecomputeForgetsHistory
<1>1. StatusType => RecomputeForgetsHistory
  BY OccurringType, DeriveForgets DEF StatusType, RecomputeForgetsHistory
<1> QED
  BY <1>1, StatusInductive, PTL

(***************************************************************************)
(* Runs and their tasks.                                                   *)
(***************************************************************************)

(* The run of a task exists as long as the task does.                        *)
TaskHasRun == \A t \in Tasks : tasks[t].status \in TaskStatuses => runs[RunOf(t)] \in RunStatuses

RunInv == IInv /\ RunStatusIsDerived /\ TaskHasRun

(* What RunStatusIsDerived says of one run.                                  *)
StatusIsDerived(r) ==
  runs[r] \in RunStatuses => runs[r] = DeriveRunStatus(runs[r], StatusesIn(r, tasks))

(* runs' is the result of recomputing R, and only tasks of R changed status. *)
Recomputed(R) ==
  /\ runs' = Recompute(R, tasks')
  /\ \A t \in Tasks : RunOf(t) \notin R => tasks'[t].status = tasks[t].status

(* A run's statuses are unchanged if its tasks' are.                         *)
LEMMA SameStatuses ==
  ASSUME NEW r, NEW T, NEW U, \A t \in Tasks : RunOf(t) = r => T[t].status = U[t].status
  PROVE  StatusesIn(r, T) = StatusesIn(r, U)
  BY DEF StatusesIn, TasksOf

(* A run's task statuses are task statuses.                                  *)
LEMMA StatusesType ==
  ASSUME NEW r, NEW T
  PROVE  StatusesIn(r, T) \in SUBSET TaskStatuses
  BY DEF StatusesIn, TasksOf

(* A task that has a row after a step had one before, unless it was inserted.*)
LEMMA RowOrigin ==
  ASSUME NEW t \in Tasks, RowStep(t), checked' = checked, tasks'[t].status \in TaskStatuses
  PROVE  tasks[t].status \in TaskStatuses
  BY DEF RowStep, RowInserted, RowPruned, RowClaimed, RowKept, RowLeft, RowExpired,
     RowCancelled, RowResumed, RowRequeued, HeldStatuses, TaskStatuses, WaitingTaskStatuses

(* The lemma for every operation that ends in recomputeRunStatus.            *)
LEMMA RecomputedSound ==
  ASSUME RunInv, NEW R, Recomputed(R),
         \A t \in Tasks : tasks'[t].status \in TaskStatuses => runs[RunOf(t)] \in RunStatuses
  PROVE  RunStatusIsDerived' /\ TaskHasRun'
<1>1. ASSUME NEW r \in Runs
      PROVE  runs'[r] = IF r \in R THEN DeriveRunStatus(runs[r], StatusesIn(r, tasks')) ELSE runs[r]
  BY DEF Recomputed, Recompute
<1>2. ASSUME NEW r \in Runs, runs'[r] \in RunStatuses
      PROVE  runs'[r] = DeriveRunStatus(runs'[r], StatusesIn(r, tasks'))
  <2>1. CASE r \in R
    BY <1>1, <2>1, StatusesType, DeriveIdempotent
  <2>2. CASE r \notin R
    <3>1. StatusesIn(r, tasks') = StatusesIn(r, tasks)
      BY <2>2, SameStatuses DEF Recomputed
    <3>2. runs'[r] = runs[r]
      BY <1>1, <2>2
    <3> QED
      BY <1>2, <3>1, <3>2 DEF RunInv, RunStatusIsDerived
  <2> QED
    BY <2>1, <2>2
<1>3. ASSUME NEW t \in Tasks, tasks'[t].status \in TaskStatuses
      PROVE  runs'[RunOf(t)] \in RunStatuses
  <2>1. RunOf(t) \in Runs /\ runs[RunOf(t)] \in RunStatuses
    BY <1>3, InputAssumption DEF InputRecords, RunOf
  <2> QED
    BY <1>1, <2>1, DeriveType
<1>4. RunStatusIsDerived'
  BY <1>2 DEF RunStatusIsDerived, StatusesIn, TasksOf
<1>5. TaskHasRun'
  BY <1>3 DEF TaskHasRun, RunOf
<1> QED
  BY <1>4, <1>5

(* The same for an operation that leaves both tables' statuses alone.        *)
LEMMA UnchangedSound ==
  ASSUME RunInv, runs' = runs, \A t \in Tasks : tasks'[t].status = tasks[t].status
  PROVE  RunStatusIsDerived' /\ TaskHasRun'
<1>1. ASSUME NEW r \in Runs PROVE StatusesIn(r, tasks') = StatusesIn(r, tasks)
  BY SameStatuses
<1>2. RunStatusIsDerived'
  BY <1>1 DEF RunInv, RunStatusIsDerived, StatusesIn, TasksOf
<1>3. TaskHasRun'
  BY DEF RunInv, TaskHasRun, RunOf
<1> QED
  BY <1>2, <1>3

(* createRun: a run that has no row yet has no tasks.                        *)
LEMMA CreateRunSound ==
  ASSUME TypeOK, TaskHasRun, NEW r \in Runs, CreateRun(r)
  PROVE  TaskHasRun' /\ \A s \in Runs : StatusIsDerived(s) => StatusIsDerived(s)'
<1>1. tasks' = tasks /\ runs' = [runs EXCEPT ![r] = "pending"] /\ runs[r] = "absent"
  BY DEF CreateRun
<1>2. runs \in [Runs -> RunStatuses \union NoRow] /\ "absent" \notin RunStatuses
      /\ "pending" \in RunStatuses
  BY DEF TypeOK, RunStatuses
<1>3. StatusesIn(r, tasks) = {}
  BY <1>1, <1>2 DEF TaskHasRun, StatusesIn, TasksOf
<1>4. DeriveRunStatus("pending", {}) = "pending"
  BY DEF DeriveRunStatus
<1>5. ASSUME NEW s \in Runs, StatusIsDerived(s) PROVE StatusIsDerived(s)'
  <2> SUFFICES ASSUME runs'[s] \in RunStatuses
               PROVE  runs'[s] = DeriveRunStatus(runs'[s], StatusesIn(s, tasks))
    BY <1>1 DEF StatusIsDerived, StatusesIn, TasksOf
  <2> QED
    BY <1>5, <1>1, <1>2, <1>3, <1>4 DEF StatusIsDerived
<1>6. TaskHasRun'
  BY <1>1, <1>2 DEF TaskHasRun, RunOf
<1> QED
  BY <1>5, <1>6

(* cancelRun: no held task is left, so the status it writes stays.           *)
LEMMA CancelRunSound ==
  ASSUME TypeOK, NEW r \in Runs, CancelRun(r)
  PROVE  (TaskHasRun => TaskHasRun') /\ \A s \in Runs : StatusIsDerived(s) => StatusIsDerived(s)'
<1>1. /\ runs' = [runs EXCEPT ![r] = "cancelled"]
      /\ \A t \in Tasks : RunOf(t) # r => tasks'[t] = tasks[t]
      /\ \A t \in Tasks : RunOf(t) = r /\ tasks'[t].status \in HeldStatuses => FALSE
  <2>1. \A t \in Tasks : tasks[t] \in TaskRows
    BY DEF TypeOK
  <2>2. ASSUME NEW t \in Tasks
        PROVE  tasks'[t] = IF RunOf(t) = r /\ tasks[t].status \in TaskStatuses \ TerminalTaskStatuses
                             THEN WithoutLease(tasks[t], "cancelled") ELSE tasks[t]
    BY DEF CancelRun, TasksOf
  <2>3. ASSUME NEW t \in Tasks PROVE WithoutLease(tasks[t], "cancelled").status = "cancelled"
    BY <2>1, WithoutLeaseRow DEF TaskStatuses
  <2> QED
    BY <2>2, <2>3 DEF CancelRun, HeldStatuses, TaskStatuses, TerminalTaskStatuses
<1>2. runs \in [Runs -> RunStatuses \union NoRow] /\ "cancelled" \in RunStatuses
  BY DEF TypeOK, RunStatuses
<1>3. StatusesIn(r, tasks') \intersect HeldStatuses = {}
  BY <1>1 DEF StatusesIn, TasksOf
<1>4. ASSUME NEW s \in Runs, s # r PROVE StatusesIn(s, tasks') = StatusesIn(s, tasks)
  BY <1>1, <1>4, SameStatuses
<1>5. ASSUME NEW s \in Runs, StatusIsDerived(s) PROVE StatusIsDerived(s)'
  <2> SUFFICES ASSUME runs'[s] \in RunStatuses
               PROVE  runs'[s] = DeriveRunStatus(runs'[s], StatusesIn(s, tasks'))
    BY DEF StatusIsDerived, StatusesIn, TasksOf, RunOf
  <2>1. CASE s = r
    BY <1>1, <1>2, <1>3, <2>1, DeriveCancelled
  <2>2. CASE s # r
    BY <1>5, <1>1, <1>2, <1>4, <2>2 DEF StatusIsDerived
  <2> QED
    BY <2>1, <2>2
<1>6. ASSUME TaskHasRun PROVE TaskHasRun'
  <2>1. ASSUME NEW t \in Tasks, tasks'[t].status \in TaskStatuses
        PROVE  runs'[RunOf(t)] \in RunStatuses
    <3>1. RunOf(t) \in Runs
      BY InputAssumption DEF InputRecords, RunOf
    <3>2. CASE RunOf(t) = r
      BY <1>1, <1>2, <3>2
    <3>3. CASE RunOf(t) # r
      BY <1>1, <1>6, <2>1, <3>1, <3>3 DEF TaskHasRun
    <3> QED
      BY <3>2, <3>3
  <2> QED
    BY <2>1 DEF TaskHasRun, RunOf
<1> QED
  BY <1>5, <1>6

(* pruneRuns: a run and its tasks go together.                               *)
LEMMA PruneRunsSound ==
  ASSUME NEW statuses, NEW R, PruneRuns(statuses, R)
  PROVE  (TaskHasRun => TaskHasRun') /\ \A s \in Runs : StatusIsDerived(s) => StatusIsDerived(s)'
<1>1. ASSUME NEW s \in Runs PROVE runs'[s] = IF s \in R THEN "pruned" ELSE runs[s]
  BY DEF PruneRuns
<1>2. [AbsentTask EXCEPT !.status = "pruned"].status = "pruned"
  BY AbsentTaskRow DEF NoRow
<1>3. ASSUME NEW t \in Tasks
      PROVE  tasks'[t] = IF RunOf(t) \in R /\ tasks[t].status \in TaskStatuses
                           THEN [AbsentTask EXCEPT !.status = "pruned"] ELSE tasks[t]
  BY DEF PruneRuns
<1>4. ASSUME NEW s \in Runs, s \notin R PROVE StatusesIn(s, tasks') = StatusesIn(s, tasks)
  BY <1>3, <1>4, SameStatuses
<1>5. ASSUME NEW s \in Runs, StatusIsDerived(s) PROVE StatusIsDerived(s)'
  <2> SUFFICES ASSUME runs'[s] \in RunStatuses
               PROVE  runs'[s] = DeriveRunStatus(runs'[s], StatusesIn(s, tasks'))
    BY DEF StatusIsDerived, StatusesIn, TasksOf, RunOf
  <2>1. s \notin R
    BY <1>1 DEF RunStatuses
  <2> QED
    BY <1>5, <1>1, <1>4, <2>1 DEF StatusIsDerived
<1>6. ASSUME TaskHasRun PROVE TaskHasRun'
  <2>1. ASSUME NEW t \in Tasks, tasks'[t].status \in TaskStatuses
        PROVE  runs'[RunOf(t)] \in RunStatuses
    <3>1. RunOf(t) \in Runs
      BY InputAssumption DEF InputRecords, RunOf
    <3>2. RunOf(t) \notin R /\ tasks[t].status \in TaskStatuses
      BY <1>2, <1>3, <2>1 DEF TaskStatuses
    <3> QED
      BY <1>1, <1>6, <3>1, <3>2 DEF TaskHasRun
  <2> QED
    BY <2>1 DEF TaskHasRun, RunOf
<1> QED
  BY <1>5, <1>6

(* Run by run, on the current state and on the next one.                     *)
LEMMA EachRun ==
  /\ RunStatusIsDerived <=> \A r \in Runs : StatusIsDerived(r)
  /\ RunStatusIsDerived' <=> \A r \in Runs : StatusIsDerived(r)'
  BY DEF RunStatusIsDerived, StatusIsDerived, StatusesIn, TasksOf, RunOf

(* An operation on one task recomputes the run of that task.                 *)
LEMMA OneTaskSound ==
  ASSUME RunInv, Sound, NEW t \in Tasks,
         runs' = Recompute({RunOf(t)}, tasks'),
         \A u \in Tasks : u # t => tasks'[u] = tasks[u],
         checked' = checked
  PROVE  RunStatusIsDerived' /\ TaskHasRun'
<1>1. Recomputed({RunOf(t)})
  BY DEF Recomputed
<1>2. \A u \in Tasks : tasks'[u].status \in TaskStatuses => runs[RunOf(u)] \in RunStatuses
  BY RowOrigin DEF Sound, RunInv, TaskHasRun
<1> QED
  BY <1>1, <1>2, RecomputedSound

LEMMA RunStep ==
  ASSUME RunInv, [Next]_vars
  PROVE  RunInv'
<1>1. IInv' /\ Sound /\ tasks \in [Tasks -> TaskRows]
  BY StepIInv DEF RunInv, IInv, TypeOK
<1> SUFFICES RunStatusIsDerived' /\ TaskHasRun'
  BY <1>1 DEF RunInv
<1>2. ASSUME runs' = runs, tasks' = tasks PROVE RunStatusIsDerived' /\ TaskHasRun'
  BY <1>2, UnchangedSound
<1>3. ASSUME NEW t \in Tasks, Enqueue(t) PROVE RunStatusIsDerived' /\ TaskHasRun'
  <2>1. ASSUME NEW at \in Stamps, EnqueueTask(t, at) PROVE RunStatusIsDerived' /\ TaskHasRun'
    <3>1. \A u \in Tasks : u # t => tasks'[u] = tasks[u]
      BY <1>1, <2>1 DEF EnqueueTask
    <3>2. Recomputed({RunOf(t)})
      BY <2>1, <3>1 DEF EnqueueTask, Recomputed
    <3>3. runs[RunOf(t)] \in RunStatuses
      BY <2>1 DEF EnqueueTask, EnqueueAllowed
    <3>4. \A u \in Tasks : tasks'[u].status \in TaskStatuses => runs[RunOf(u)] \in RunStatuses
      BY <3>1, <3>3 DEF RunInv, TaskHasRun
    <3> QED
      BY <3>2, <3>4, RecomputedSound
  <2>2. CASE EnqueueCheck(t) \/ EnqueueThrows(t)
    BY <1>2, <2>2 DEF EnqueueCheck, EnqueueThrows
  <2> QED
    BY <1>3, <2>1, <2>2 DEF Enqueue
<1>4. ASSUME NEW t \in Tasks, OperatorStep(t) PROVE RunStatusIsDerived' /\ TaskHasRun'
  <2>1. /\ \A u \in Tasks : u # t => tasks'[u] = tasks[u]
        /\ runs' = Recompute({RunOf(t)}, tasks')
        /\ checked' = checked
    BY <1>1, <1>4 DEF OperatorStep, ResumeTask, RequeueDeadTask
  <2> QED
    BY <1>1, <2>1, OneTaskSound
<1>5. ASSUME NEW t \in Tasks, NEW l \in Leases, NEW w \in Workers, NEW at \in Stamps,
             HolderStep(t, l, w, at)
      PROVE  RunStatusIsDerived' /\ TaskHasRun'
  <2>1. ASSUME NEW ms \in LeaseDurations, HeartbeatLease(t, l, w, ms, at)
        PROVE  RunStatusIsDerived' /\ TaskHasRun'
    <3>1. tasks' = [tasks EXCEPT ![t].leaseExpiresAt = at + ms] /\ runs' = runs
      BY <2>1 DEF HeartbeatLease
    <3>2. \A u \in Tasks : tasks'[u].status = tasks[u].status
      BY <1>1, <3>1 DEF TaskRows
    <3> QED
      BY <3>1, <3>2, UnchangedSound
  <2>2. ASSUME MarkTaskRunning(t, l, w, at) \/ \E to, a : EndLease(t, l, w, at, to, a)
        PROVE  RunStatusIsDerived' /\ TaskHasRun'
    <3>1. /\ \A u \in Tasks : u # t => tasks'[u] = tasks[u]
          /\ runs' = Recompute({RunOf(t)}, tasks')
          /\ checked' = checked
      BY <1>1, <2>2 DEF MarkTaskRunning, EndLease
    <3> QED
      BY <1>1, <3>1, OneTaskSound
  <2> QED
    BY <1>5, <2>1, <2>2 DEF HolderStep, PauseTask, ReleaseTask, CompleteTask, FailTask
<1>6. ASSUME NEW at \in Stamps, ExpireLeases(at) PROVE RunStatusIsDerived' /\ TaskHasRun'
  <2>1. Recomputed({RunOf(t) : t \in Expired(at)})
    BY <1>6 DEF ExpireLeases, Recomputed, TasksAfterExpiry
  <2>2. \A u \in Tasks : tasks'[u].status \in TaskStatuses => runs[RunOf(u)] \in RunStatuses
    BY <1>1, <1>6, RowOrigin DEF Sound, RunInv, TaskHasRun, ExpireLeases
  <2> QED
    BY <2>1, <2>2, RecomputedSound
<1>7. ASSUME NEW w \in Workers, NEW l \in Leases, NEW k \in OptionalTokens, NEW kinds \in KindFilters,
             NEW ms \in LeaseDurations, NEW at \in Stamps, ClaimNextTask(w, l, k, kinds, ms, at)
      PROVE  RunStatusIsDerived' /\ TaskHasRun'
  <2>1. PICK t \in Tasks :
          /\ tasks' = [TasksAfterExpiry(at) EXCEPT ![t] = ClaimedRow(@, l, w, at + ms)]
          /\ runs' = Recompute({RunOf(s) : s \in Expired(at) \union {t}}, tasks')
    BY <1>7 DEF ClaimNextTask
  <2>2. \A u \in Tasks : u \notin Expired(at) \union {t} => tasks'[u] = tasks[u]
    BY <2>1 DEF TasksAfterExpiry
  <2>3. Recomputed({RunOf(s) : s \in Expired(at) \union {t}})
    BY <2>1, <2>2 DEF Recomputed
  <2>4. \A u \in Tasks : tasks'[u].status \in TaskStatuses => runs[RunOf(u)] \in RunStatuses
    BY <1>1, <1>7, RowOrigin DEF Sound, RunInv, TaskHasRun, ClaimNextTask
  <2> QED
    BY <2>3, <2>4, RecomputedSound
<1>8. CASE Tick \/ UNCHANGED vars
  BY <1>2, <1>8 DEF Tick, vars
<1>9. ASSUME NEW r \in Runs, CreateRun(r) \/ CancelRun(r) PROVE RunStatusIsDerived' /\ TaskHasRun'
  BY <1>9, CreateRunSound, CancelRunSound, EachRun DEF RunInv, IInv
<1>10. ASSUME NEW statuses, NEW R, PruneRuns(statuses, R) PROVE RunStatusIsDerived' /\ TaskHasRun'
  BY <1>10, PruneRunsSound, EachRun DEF RunInv
<1> QED
  BY <1>3, <1>4, <1>5, <1>6, <1>7, <1>8, <1>9, <1>10 DEF Next, Claim, Expire, Prune

LEMMA RunInit == Init => RunInv
<1>1. Init => RunStatusIsDerived /\ TaskHasRun
  BY InputAssumption DEF Init, RunStatusIsDerived, TaskHasRun, AbsentTask, RunStatuses, TaskStatuses
<1> QED
  BY <1>1, InitIInv DEF RunInv

LEMMA RunInductive == Spec => []RunInv
  BY RunInit, RunStep, PTL DEF Spec

(* The stored status of a run is always the derived one.                     *)
THEOREM RunStatusIsDerivedHolds == Spec => []RunStatusIsDerived
<1>1. RunInv => RunStatusIsDerived
  BY DEF RunInv
<1> QED
  BY <1>1, RunInductive, PTL

(* In every state the stored status of a run meets its row of the table in   *)
(* lifecycle.md, and no other row unless the run was cancelled.              *)
THEOREM RunStatusIsDocumentedHolds ==
  Spec => [](\A r \in Runs : runs[r] \in RunStatuses =>
               LET S == StatusesIn(r, tasks)
               IN  /\ DocumentedStatus(runs[r], S, runs[r])
                   /\ \A s \in RunStatuses :
                        DocumentedStatus(runs[r], S, s) =>
                          s = runs[r] \/ runs[r] = "cancelled")
<1>1. ASSUME RunInv, NEW r \in Runs, runs[r] \in RunStatuses
      PROVE  /\ DocumentedStatus(runs[r], StatusesIn(r, tasks), runs[r])
             /\ \A s \in RunStatuses :
                  DocumentedStatus(runs[r], StatusesIn(r, tasks), s) =>
                    s = runs[r] \/ runs[r] = "cancelled"
  <2>1. StatusesIn(r, tasks) \in SUBSET TaskStatuses
    BY StatusesType
  <2>2. runs[r] = DeriveRunStatus(runs[r], StatusesIn(r, tasks))
    BY <1>1 DEF RunInv, RunStatusIsDerived
  <2> QED
    BY <1>1, <2>1, <2>2, DeriveDocumented
<1>2. RunInv =>
        \A r \in Runs : runs[r] \in RunStatuses =>
          LET S == StatusesIn(r, tasks)
          IN  /\ DocumentedStatus(runs[r], S, runs[r])
              /\ \A s \in RunStatuses :
                   DocumentedStatus(runs[r], S, s) =>
                     s = runs[r] \/ runs[r] = "cancelled"
  BY <1>1
<1> QED
  BY <1>2, RunInductive, PTL

(* Nobody holds a task of a run that is over.                                *)
THEOREM TerminalRunIsIdleHolds == Spec => []TerminalRunIsIdle
<1>1. ASSUME RunInv, NEW t \in Tasks, tasks[t].status \in HeldStatuses
      PROVE  runs[RunOf(t)] \notin TerminalRunStatuses
  <2>1. tasks[t].status \in TaskStatuses /\ RunOf(t) \in Runs
    BY <1>1, InputAssumption DEF HeldStatuses, TaskStatuses, RunOf, InputRecords
  <2>2. StatusesIn(RunOf(t), tasks) \intersect HeldStatuses # {}
    BY <1>1, <2>1 DEF StatusesIn, TasksOf
  <2>3. runs[RunOf(t)] = "active"
    BY <1>1, <2>1, <2>2, DeriveHeld DEF RunInv, RunStatusIsDerived, TaskHasRun
  <2> QED
    BY <2>3 DEF TerminalRunStatuses
<1>2. RunInv => TerminalRunIsIdle
  BY <1>1 DEF TerminalRunIsIdle
<1> QED
  BY <1>2, RunInductive, PTL

(***************************************************************************)
(* Attempts, retry delays and the dead-letter queue follow from what one   *)
(* operation may do to a task's row (RowStep of StoreProofs).              *)
(***************************************************************************)

RInv == IInv /\ AttemptBudget /\ DeadMeansExhausted /\ BackoffOnlyWhileQueued

(* A row that obeys the three retry invariants obeys them after any step.    *)
LEMMA RetryStep ==
  ASSUME RInv, [Next]_vars
  PROVE  RInv'
<1>1. IInv' /\ \A t \in Tasks : RowStep(t)
  BY StepIInv DEF RInv, Sound
<1>2. ASSUME NEW t \in Tasks
      PROVE  /\ tasks[t].attemptCount \in Nat
             /\ Input[t].maxAttempts # Null => Input[t].maxAttempts \in Nat
  BY InputAssumption DEF RInv, IInv, TypeOK, TaskRows, InputRecords
<1>3. ASSUME NEW t \in Tasks, Input[t].maxAttempts # Null
      PROVE  tasks'[t].attemptCount =< Input[t].maxAttempts
  <2>1. tasks[t].attemptCount =< Input[t].maxAttempts
    BY <1>3 DEF RInv, AttemptBudget
  <2>2. tasks'[t].attemptCount \in {0, tasks[t].attemptCount}
        \/ /\ tasks'[t].attemptCount = tasks[t].attemptCount + 1
           /\ ~ (tasks[t].attemptCount >= Input[t].maxAttempts)
    BY <1>1, <1>3 DEF RowStep, RowInserted, RowPruned, RowClaimed, RowKept, RowLeft,
       RowExpired, RowCancelled, RowResumed, RowRequeued, SameCounters, FreshCounters,
       MaxAttemptsReached
  <2> QED
    BY <1>2, <1>3, <2>1, <2>2
<1>4. ASSUME NEW t \in Tasks, tasks'[t].dead
      PROVE  tasks'[t].status = "failed" /\ MaxAttemptsReached(t, tasks'[t])
  <2>1. tasks[t].dead => tasks[t].status = "failed" /\ MaxAttemptsReached(t, tasks[t])
    BY DEF RInv, DeadMeansExhausted
  <2>2. RowStep(t)
    BY <1>1
  <2>3. \/ tasks'[t] = tasks[t]
        \/ /\ tasks'[t].status = "failed"
           /\ tasks'[t].attemptCount = tasks[t].attemptCount
           /\ MaxAttemptsReached(t, tasks[t])
    BY <1>4, <2>1, <2>2 DEF RowStep, RowInserted, RowPruned, RowClaimed, RowKept, RowLeft,
       RowExpired, RowCancelled, RowResumed, RowRequeued, SameCounters, FreshCounters,
       HeldStatuses, TerminalTaskStatuses, WaitingTaskStatuses
  <2> QED
    BY <1>4, <2>1, <2>3 DEF MaxAttemptsReached
<1>5. ASSUME NEW t \in Tasks, tasks'[t].notBefore # NoTime
      PROVE  tasks'[t].status \in {"queued", "cancelled"}
  <2>1. tasks[t].notBefore # NoTime => tasks[t].status \in {"queued", "cancelled"}
    BY DEF RInv, BackoffOnlyWhileQueued
  <2>2. RowStep(t)
    BY <1>1
  <2> QED
    BY <1>5, <2>1, <2>2 DEF RowStep, RowInserted, RowPruned, RowClaimed, RowKept, RowLeft,
       RowExpired, RowCancelled, RowResumed, RowRequeued, SameCounters, FreshCounters,
       HeldStatuses, TerminalTaskStatuses, WaitingTaskStatuses
<1> QED
  BY <1>1, <1>3, <1>4, <1>5 DEF RInv, AttemptBudget, DeadMeansExhausted, BackoffOnlyWhileQueued

LEMMA RetryInit ==
  ASSUME Init
  PROVE  RInv
<1>1. IInv
  BY InitIInv
<1>2. ASSUME NEW t \in Tasks
      PROVE  Input[t].maxAttempts # Null => Input[t].maxAttempts \in Nat
  BY InputAssumption DEF InputRecords
<1>3. ASSUME NEW t \in Tasks
      PROVE  tasks[t].attemptCount = 0 /\ tasks[t].dead = FALSE /\ tasks[t].notBefore = NoTime
  BY DEF Init, AbsentTask
<1>4. AttemptBudget
  <2>1. \A n \in Nat : 0 =< n
    OBVIOUS
  <2>2. ASSUME NEW t \in Tasks, Input[t].maxAttempts # Null
        PROVE  0 =< Input[t].maxAttempts
    BY <1>2, <2>1, <2>2
  <2> QED
    BY <1>3, <2>2, Zenon DEF AttemptBudget
<1>5. DeadMeansExhausted /\ BackoffOnlyWhileQueued
  BY <1>3 DEF DeadMeansExhausted, BackoffOnlyWhileQueued
<1> QED
  BY <1>1, <1>4, <1>5 DEF RInv

LEMMA RetryInductive == Spec => []RInv
  BY RetryInit, RetryStep, PTL DEF Spec

(* No task is attempted more often than its maxAttempts allows.              *)
THEOREM AttemptBudgetHolds == Spec => []AttemptBudget
<1>1. RInv => AttemptBudget
  BY DEF RInv
<1> QED
  BY <1>1, RetryInductive, PTL

(* Only failed tasks whose budget is spent are in the dead-letter queue.     *)
THEOREM DeadMeansExhaustedHolds == Spec => []DeadMeansExhausted
<1>1. RInv => DeadMeansExhausted
  BY DEF RInv
<1> QED
  BY <1>1, RetryInductive, PTL

(* Whoever works on a task has served its retry delay.                       *)
THEOREM BackoffOnlyWhileQueuedHolds == Spec => []BackoffOnlyWhileQueued
<1>1. RInv => BackoffOnlyWhileQueued
  BY DEF RInv
<1> QED
  BY <1>1, RetryInductive, PTL

(***************************************************************************)
(* The retry delay.  SQL compares timestamps as text, and a retry time     *)
(* beyond the year 9999 would count as past: the delay is served as long   *)
(* as none is reached, neither by a task's own policy, for as many         *)
(* attempts as it allows, nor by the operator.                             *)
(***************************************************************************)

Attemptable(t, n) == Input[t].maxAttempts # Null => n =< Input[t].maxAttempts

RetriesFitCalendar ==
  /\ MaxTime + 1 =< IsoLimit
  /\ \A t \in Tasks, n \in Nat :
       Attemptable(t, n) => MaxTime + RetryDelay(Input[t].retry, n) =< IsoLimit

TimesInv == /\ RInv
            /\ now =< MaxTime
            /\ \A t \in Tasks : tasks[t].notBefore =< IsoLimit

(* The clock stops at MaxTime.                                               *)
LEMMA ClockStep ==
  ASSUME TypeOK, now =< MaxTime, [Next]_vars
  PROVE  now' =< MaxTime
<1>1. ASSUME NEW r \in Runs, CreateRun(r) \/ CancelRun(r) PROVE now' = now
  BY <1>1 DEF CreateRun, CancelRun
<1>2. ASSUME NEW t \in Tasks, Enqueue(t) PROVE now' = now
  BY <1>2 DEF Enqueue, EnqueueCheck, EnqueueTask, EnqueueThrows
<1>3. ASSUME NEW t \in Tasks, OperatorStep(t) PROVE now' = now
  BY <1>3 DEF OperatorStep, ResumeTask, RequeueDeadTask
<1>4. ASSUME NEW t \in Tasks, NEW l \in Leases, NEW w \in Workers, NEW at \in Stamps,
             HolderStep(t, l, w, at)
      PROVE  now' = now
  BY <1>4 DEF HolderStep, HeartbeatLease, MarkTaskRunning, PauseTask, ReleaseTask,
     CompleteTask, FailTask, EndLease
<1>5. ASSUME NEW at, ExpireLeases(at) PROVE now' = now
  BY <1>5 DEF ExpireLeases
<1>6. ASSUME NEW statuses, NEW R, PruneRuns(statuses, R) PROVE now' = now
  BY <1>6 DEF PruneRuns
<1>7. ASSUME NEW w, NEW l, NEW k, NEW kinds, NEW ms, NEW at, ClaimNextTask(w, l, k, kinds, ms, at)
      PROVE  now' = now
  BY <1>7 DEF ClaimNextTask
<1>8. CASE Tick
  BY <1>8, BoundsAssumption DEF Tick, TypeOK
<1>9. CASE UNCHANGED vars
  BY <1>9 DEF vars
<1> QED
  BY <1>1, <1>2, <1>3, <1>4, <1>5, <1>6, <1>7, <1>8, <1>9 DEF Next, Expire, Prune, Claim

(* Whoever asks before MaxTime gets a retry time before the year 10000.      *)
LEMMA RetryAtFits ==
  ASSUME RetriesFitCalendar, TypeOK, AttemptBudget, now =< MaxTime,
         NEW t \in Tasks, NEW at \in Stamps
  PROVE  RetryAt(t, at) =< IsoLimit
<1>1. /\ at \in Nat /\ at =< now /\ now \in Nat
      /\ MaxTime \in Nat /\ IsoLimit \in Nat
      /\ tasks[t].attemptCount \in Nat
      /\ Input[t].retry \in RetryPolicies
  BY StampsAreTimes, BoundsAssumption, LimitsAssumption, InputAssumption
     DEF TypeOK, TaskRows, InputRecords
<1>2. RetryDelay(Input[t].retry, tasks[t].attemptCount) \in Int
  BY <1>1, RetryDelayType
<1>3. MaxTime + RetryDelay(Input[t].retry, tasks[t].attemptCount) =< IsoLimit
  BY <1>1 DEF RetriesFitCalendar, Attemptable, AttemptBudget
<1>4. at + RetryDelay(Input[t].retry, tasks[t].attemptCount) =< IsoLimit
  BY <1>1, <1>2, <1>3
<1> QED
  BY <1>1, <1>4 DEF RetryAt, ComputeNotBefore, NoTime

LEMMA TimesStep ==
  ASSUME RetriesFitCalendar, TimesInv, [Next]_vars
  PROVE  TimesInv'
<1>1. /\ TypeOK /\ RInv' /\ AttemptBudget
      /\ \A t \in Tasks : RowStep(t)
  BY StepIInv, RetryStep DEF TimesInv, RInv, IInv, Sound
<1>2. now' =< MaxTime
  BY <1>1, ClockStep DEF TimesInv
<1>3. ASSUME NEW t \in Tasks PROVE tasks'[t].notBefore =< IsoLimit
  <2>1. NoTime =< IsoLimit /\ now + 1 =< IsoLimit
    BY <1>1, BoundsAssumption, LimitsAssumption DEF TimesInv, RetriesFitCalendar, NoTime, TypeOK
  <2>2. \/ tasks'[t].notBefore \in {tasks[t].notBefore, NoTime, now + 1}
        \/ \E at \in Stamps : tasks'[t].notBefore = RetryAt(t, at)
    BY <1>1 DEF RowStep, RowInserted, RowPruned, RowClaimed, RowKept, RowLeft, RowExpired,
       RowCancelled, RowResumed, RowRequeued, SameCounters, FreshCounters
  <2>3. tasks[t].notBefore =< IsoLimit
    BY DEF TimesInv
  <2>4. \A at \in Stamps : RetryAt(t, at) =< IsoLimit
    BY <1>1, RetryAtFits DEF TimesInv
  <2> QED
    BY <2>1, <2>2, <2>3, <2>4
<1> QED
  BY <1>1, <1>2, <1>3 DEF TimesInv

LEMMA TimesInit ==
  ASSUME Init
  PROVE  TimesInv
<1>1. RInv
  BY RetryInit
<1>2. now =< MaxTime /\ NoTime =< IsoLimit
  BY BoundsAssumption, LimitsAssumption DEF Init, NoTime
<1>3. \A t \in Tasks : tasks[t].notBefore = NoTime
  BY DEF Init, AbsentTask
<1> QED
  BY <1>1, <1>2, <1>3 DEF TimesInv

(* No retried task is handed out before its delay is over, unless some delay *)
(* reaches beyond the year 9999.                                             *)
THEOREM RetryDelayServedHolds == RetriesFitCalendar => (Spec => RetryDelayServed)
<1> SUFFICES ASSUME RetriesFitCalendar PROVE Spec => RetryDelayServed
  OBVIOUS
<1>1. ASSUME TimesInv, [Next]_vars, NEW t \in Tasks,
             tasks[t].status = "queued", tasks'[t].status = "leased"
      PROVE  tasks[t].notBefore <= now
  <2>1. IInv /\ TypeOK /\ RowStep(t)
    BY <1>1, StepIInv DEF TimesInv, RInv, IInv, Sound
  <2>2. ReadyToClaim(t, tasks[t])
    BY <1>1, <2>1 DEF RowStep, RowInserted, RowPruned, RowClaimed, RowKept, RowLeft, RowExpired,
       RowCancelled, RowResumed, RowRequeued, HeldStatuses
  <2>3. PICK at \in Stamps : NullOrAtMost(tasks[t].notBefore, at)
    BY <1>1, <2>2 DEF ReadyToClaim
  <2>4. /\ tasks[t].notBefore \in Int /\ now \in Nat /\ at \in Nat /\ at =< now
        /\ tasks[t].notBefore =< IsoLimit /\ IsoLimit \in Nat
    BY <1>1, <2>1, StampsAreTimes, LimitsAssumption DEF TimesInv, TypeOK, TaskRows
  <2> QED
    BY <2>3, <2>4 DEF NullOrAtMost, NoTime
<1>2. ASSUME TimesInv, [Next]_vars
      PROVE  \A t \in Tasks :
               tasks[t].status = "queued" /\ tasks'[t].status = "leased" => tasks[t].notBefore <= now
  BY <1>1, <1>2
<1>3. Spec => []TimesInv
  BY TimesInit, TimesStep, PTL DEF Spec
<1> QED
  BY <1>2, <1>3, PTL DEF Spec, RetryDelayServed

(***************************************************************************)
(* What one operation, other than pruneRuns, may do to the rows.           *)
(***************************************************************************)

LeaseGranted(l) ==
  /\ leases[l].status = "absent"
  /\ leases'[l].status = "active" /\ attempts'[l] = "leased"
  /\ leases'[l].task \in Tasks /\ tasks'[leases'[l].task].status = "leased"

LeaseKept(l) ==
  /\ leases[l].status = "active"
  /\ leases'[l].status = "active" /\ leases'[l].task = leases[l].task
  /\ attempts'[l] \in HeldStatuses

LeaseEnded(l) ==
  /\ leases[l].status = "active"
  /\ leases'[l].status \in LeaseStatuses \ {"active"} /\ leases'[l].task = leases[l].task
  /\ leases'[l].status = "expired" => leases[l].expiresAt < now
  /\ attempts'[l] = "completed" => tasks'[leases[l].task].status = "completed"

LeaseStep(l) ==
  \/ leases'[l] = leases[l] /\ attempts'[l] = attempts[l]
  \/ LeaseGranted(l)
  \/ LeaseKept(l)
  \/ LeaseEnded(l)

\* A task becomes completed only with an attempt that completes it.
TaskKept(t) ==
  \/ tasks'[t].status = tasks[t].status
  \/ /\ tasks'[t].status \in TaskStatuses
     /\ tasks'[t].status = "completed" =>
          /\ tasks[t].status \in HeldStatuses
          /\ \E l \in Leases : leases'[l].task = t /\ attempts'[l] = "completed"

\* The record of a task a worker has just completed or failed.
NewRecord(k) ==
  /\ completions[k] = Null
  /\ completions'[k].task \in Tasks
  /\ tasks[completions'[k].task].status \in HeldStatuses
  /\ tasks'[completions'[k].task].status = completions'[k].outcome
  /\ completions'[k].outcome \in {"completed", "failed"}
  /\ ~ tasks'[completions'[k].task].dead

RecordsKept == \A k \in Tokens : completions'[k] = completions[k]

OneRecorded ==
  \E k \in Tokens : NewRecord(k) /\ \A j \in Tokens : j # k => completions'[j] = completions[j]

Persists ==
  /\ \A t \in Tasks : TaskKept(t)
  /\ \A l \in Leases : LeaseStep(l)
  /\ RecordsKept \/ OneRecorded

(* pauseTask, completeTask, failTask, releaseTask: the attempt is completed  *)
(* exactly if the task is.                                                   *)
LEMMA EndLeasePersists ==
  ASSUME IInv, NEW t \in Tasks, NEW l \in Leases, NEW w \in Workers, NEW at \in Stamps,
         NEW to \in TaskStatuses \ HeldStatuses, NEW a \in AttemptStatuses \ HeldStatuses,
         to = "completed" <=> a = "completed",
         EndLease(t, l, w, at, to, a)
  PROVE  /\ \A u \in Tasks : TaskKept(u)
         /\ \A m \in Leases : LeaseStep(m)
<1>1. LeaseEnds(t, l, to, a)
  BY StoreWrites, LeaveFacts
<1>2. TaskKept(t) /\ \A u \in Tasks : u # t => tasks'[u] = tasks[u]
  BY <1>1 DEF LeaseEnds, TaskKept
<1>3. LeaseEnded(l) /\ \A m \in Leases : m # l => leases'[m] = leases[m] /\ attempts'[m] = attempts[m]
  BY <1>1 DEF LeaseEnds, LeaseEnded, LeaseStatuses
<1> QED
  BY <1>2, <1>3 DEF TaskKept, LeaseStep

(* recordCompletion in the transaction of completeTask or failTask.          *)
LEMMA RecordPersists ==
  ASSUME IInv, NEW t \in Tasks, NEW l \in Leases, NEW w \in Workers, NEW at \in Stamps,
         NEW k \in OptionalTokens, NEW to \in {"completed", "failed"},
         EndLease(t, l, w, at, to, to), RecordCompletion(k, t, to)
  PROVE  Persists
<1>1. to \in TaskStatuses \ HeldStatuses /\ to \in AttemptStatuses \ HeldStatuses
  BY DEF TaskStatuses, HeldStatuses, AttemptStatuses
<1>2. (\A u \in Tasks : TaskKept(u)) /\ (\A m \in Leases : LeaseStep(m))
  BY <1>1, EndLeasePersists
<1>3. CASE k = Null
  BY <1>2, <1>3 DEF RecordCompletion, Persists, RecordsKept
<1>4. CASE k # Null
  <2>1. k \in Tokens /\ completions[k] = Null
        /\ completions' = [completions EXCEPT ![k] = [task |-> t, outcome |-> to]]
    BY <1>4 DEF RecordCompletion, OptionalTokens
  <2>2. completions'[k] = [task |-> t, outcome |-> to]
        /\ \A j \in Tokens : j # k => completions'[j] = completions[j]
    BY <2>1 DEF IInv, TypeOK
  <2>3. LeaseEnds(t, l, to, to)
    BY <1>1, StoreWrites, LeaveFacts
  <2>4. tasks[t].status \in HeldStatuses /\ tasks'[t].status = to /\ SameCounters(tasks[t], tasks'[t])
    BY <2>3 DEF LeaseEnds
  <2>5. ~ tasks[t].dead
    BY <2>4 DEF IInv, DeadIsFailed, HeldStatuses
  <2>6. NewRecord(k)
    BY <2>1, <2>2, <2>4, <2>5 DEF NewRecord, SameCounters
  <2> QED
    BY <1>2, <2>1, <2>2, <2>6 DEF Persists, OneRecorded
<1> QED
  BY <1>3, <1>4

(* An operation that leaves leases, attempts and records alone.              *)
LEMMA QuietPersists ==
  ASSUME leases' = leases, attempts' = attempts, completions' = completions,
         \A t \in Tasks : tasks'[t].status = tasks[t].status \/ tasks'[t].status = "queued"
  PROVE  Persists
  BY DEF Persists, TaskKept, LeaseStep, RecordsKept, TaskStatuses

(* heartbeatLease and markTaskRunning.                                       *)
LEMMA HeartbeatPersists ==
  ASSUME IInv, NEW t \in Tasks, NEW l \in Leases, NEW w \in Workers, NEW ms, NEW at,
         HeartbeatLease(t, l, w, ms, at)
  PROVE  Persists
<1>1. TypeOK /\ tasks[t] \in TaskRows /\ leases[l] \in LeaseRows
  BY DEF IInv, TypeOK
<1>2. leases[l].status = "active" /\ attempts[l] \in HeldStatuses
  BY DEF HeartbeatLease, AssertActiveLease, IInv, LeaseAgreement, OpenAttemptHasActiveLease
<1>3. \A u \in Tasks : tasks'[u].status = tasks[u].status
  BY <1>1 DEF HeartbeatLease, TypeOK, TaskRows
<1>4. /\ leases'[l].status = "active" /\ leases'[l].task = leases[l].task
      /\ \A m \in Leases : m # l => leases'[m] = leases[m]
      /\ attempts' = attempts /\ completions' = completions
  BY <1>1, <1>2 DEF HeartbeatLease, TypeOK, LeaseRows
<1>5. LeaseKept(l)
  BY <1>2, <1>4 DEF LeaseKept
<1> QED
  BY <1>3, <1>4, <1>5 DEF Persists, TaskKept, LeaseStep, RecordsKept

LEMMA MarkRunningPersists ==
  ASSUME IInv, NEW t \in Tasks, NEW l \in Leases, NEW w \in Workers, NEW at,
         MarkTaskRunning(t, l, w, at)
  PROVE  Persists
<1>1. TypeOK /\ tasks[t] \in TaskRows
  BY DEF IInv, TypeOK
<1>2. leases[l].status = "active"
  BY DEF MarkTaskRunning, AssertActiveLease
<1>3. tasks'[t].status = "running" /\ \A u \in Tasks : u # t => tasks'[u] = tasks[u]
  BY <1>1 DEF MarkTaskRunning, TypeOK, TaskRows
<1>4. /\ attempts'[l] = "running"
      /\ \A m \in Leases : m # l => attempts'[m] = attempts[m]
      /\ leases' = leases /\ completions' = completions
  BY <1>1 DEF MarkTaskRunning, TypeOK
<1>5. LeaseKept(l)
  BY <1>2, <1>4 DEF LeaseKept, HeldStatuses
<1>6. TaskKept(t)
  BY <1>3 DEF TaskKept, TaskStatuses
<1> QED
  BY <1>3, <1>4, <1>5, <1>6 DEF Persists, TaskKept, LeaseStep, RecordsKept

(* cancelRun closes attempts, but completes none.                            *)
LEMMA CancelPersists ==
  ASSUME IInv, NEW r \in Runs, CancelRun(r)
  PROVE  Persists
<1>1. ASSUME NEW t \in Tasks PROVE TaskKept(t)
  <2>1. Vacates(OpenTasksOf(r), tasks, leases, attempts, tasks', leases', attempts')
        /\ \A u \in OpenTasksOf(r) : RowCancelled(tasks[u], tasks'[u])
    BY CancelSound
  <2> QED
    BY <2>1 DEF TaskKept, Vacates, RowCancelled, TaskStatuses
<1>2. ASSUME NEW l \in Leases PROVE LeaseStep(l)
  <2>1. leases[l] \in LeaseRows
    BY DEF IInv, TypeOK
  <2>2. attempts[l] \in HeldStatuses <=> leases[l].status = "active"
    BY DEF IInv, LeaseAgreement, OpenAttemptHasActiveLease
  <2>3. /\ leases'[l] = IF leases[l].status = "active" /\ RunOf(leases[l].task) = r
                          THEN [leases[l] EXCEPT !.status = "cancelled"] ELSE leases[l]
        /\ attempts'[l] = IF attempts[l] \in HeldStatuses /\ RunOf(leases[l].task) = r
                            THEN "cancelled" ELSE attempts[l]
    BY DEF CancelRun
  <2>4. CASE leases[l].status = "active" /\ RunOf(leases[l].task) = r
    <3>1. leases'[l].status = "cancelled" /\ leases'[l].task = leases[l].task
          /\ attempts'[l] = "cancelled"
      BY <2>1, <2>2, <2>3, <2>4 DEF LeaseRows
    <3> QED
      BY <2>4, <3>1 DEF LeaseStep, LeaseEnded, LeaseStatuses
  <2>5. CASE ~ (leases[l].status = "active" /\ RunOf(leases[l].task) = r)
    BY <2>2, <2>3, <2>5 DEF LeaseStep
  <2> QED
    BY <2>4, <2>5
<1> QED
  BY <1>1, <1>2 DEF Persists, RecordsKept, CancelRun

(* The three tables after expireLeases, on its own or inside claimNextTask:  *)
(* the leases that ended had all passed their deadline.                      *)
LEMMA ExpiryRows ==
  ASSUME IInv, NEW at \in Stamps
  PROVE  /\ \A t \in Tasks :
              \/ TasksAfterExpiry(at)[t] = tasks[t]
              \/ /\ t \in Expired(at)
                 /\ tasks[t].status \in HeldStatuses
                 /\ TasksAfterExpiry(at)[t] = ExpiredRow(t, at)
                 /\ TasksAfterExpiry(at)[t].status \in {"failed", "queued"}
         /\ \A l \in Leases :
              \/ /\ LeasesAfterExpiry(at)[l] = leases[l]
                 /\ AttemptsAfterExpiry(at)[l] = attempts[l]
              \/ /\ leases[l].status = "active" /\ leases[l].expiresAt < now
                 /\ LeasesAfterExpiry(at)[l].status = "expired"
                 /\ LeasesAfterExpiry(at)[l].task = leases[l].task
                 /\ LeasesAfterExpiry(at)[l].worker = leases[l].worker
                 /\ AttemptsAfterExpiry(at)[l] = "expired"
<1>1. TypeOK /\ LeaseAgreement
  BY DEF IInv
<1>2. ASSUME NEW t \in Tasks, t \in Expired(at)
      PROVE  /\ tasks[t].status \in HeldStatuses
             /\ TasksAfterExpiry(at)[t] = ExpiredRow(t, at)
             /\ TasksAfterExpiry(at)[t].status \in {"failed", "queued"}
  BY <1>1, <1>2, ExpiredRowRow DEF TasksAfterExpiry, Expired
<1>3. ASSUME NEW t \in Tasks, t \notin Expired(at)
      PROVE  TasksAfterExpiry(at)[t] = tasks[t]
  BY <1>3 DEF TasksAfterExpiry
<1>4. ASSUME NEW l \in Leases, l \in ExpiredLeases(at)
      PROVE  /\ leases[l].status = "active" /\ leases[l].expiresAt < now
             /\ LeasesAfterExpiry(at)[l].status = "expired"
             /\ LeasesAfterExpiry(at)[l].task = leases[l].task
             /\ LeasesAfterExpiry(at)[l].worker = leases[l].worker
             /\ AttemptsAfterExpiry(at)[l] = "expired"
  <2>1. leases[l].status = "active" /\ leases[l].task \in Expired(at)
    BY <1>1, <1>4, AgreeAfterExpiry
  <2>2. /\ tasks[leases[l].task].leaseExpiresAt < at
        /\ tasks[leases[l].task].leaseExpiresAt = leases[l].expiresAt
    BY <1>1, <2>1 DEF Expired, LeaseAgreement, ActiveLeaseIsHeld, HeldTaskHasItsLease
  <2>3. leases[l] \in LeaseRows /\ at \in Nat /\ at =< now /\ now \in Nat
    BY <1>1, StampsAreTimes DEF TypeOK
  <2>4. leases[l].expiresAt < now
    BY <2>2, <2>3 DEF LeaseRows
  <2>5. [leases[l] EXCEPT !.status = "expired"].status = "expired"
        /\ [leases[l] EXCEPT !.status = "expired"].task = leases[l].task
        /\ [leases[l] EXCEPT !.status = "expired"].worker = leases[l].worker
    BY <2>3 DEF LeaseRows
  <2> QED
    BY <1>4, <2>1, <2>4, <2>5 DEF LeasesAfterExpiry, AttemptsAfterExpiry
<1>5. ASSUME NEW l \in Leases, l \notin ExpiredLeases(at)
      PROVE  LeasesAfterExpiry(at)[l] = leases[l] /\ AttemptsAfterExpiry(at)[l] = attempts[l]
  BY <1>5 DEF LeasesAfterExpiry, AttemptsAfterExpiry
<1> QED
  BY <1>2, <1>3, <1>4, <1>5

LEMMA ExpirePersists ==
  ASSUME IInv, NEW at \in Stamps, ExpireLeases(at)
  PROVE  Persists
<1>1. ASSUME NEW t \in Tasks PROVE TaskKept(t)
  BY ExpiryRows DEF ExpireLeases, TaskKept, TaskStatuses
<1>2. ASSUME NEW l \in Leases PROVE LeaseStep(l)
  BY ExpiryRows DEF ExpireLeases, LeaseStep, LeaseEnded, LeaseStatuses
<1> QED
  BY <1>1, <1>2 DEF Persists, RecordsKept, ExpireLeases

(* claimNextTask takes a lease id no row has yet.                            *)
LEMMA ClaimPersists ==
  ASSUME IInv, NEW w \in Workers, NEW l \in Leases, NEW k \in OptionalTokens, NEW kinds,
         NEW ms \in LeaseDurations, NEW at \in Stamps, ClaimNextTask(w, l, k, kinds, ms, at)
  PROVE  Persists
<1>1. PICK t \in Tasks : ClaimGrants(t, l, kinds, at)
  BY StoreWrites, ClaimFacts
<1>2. /\ tasks'[t].status = "leased"
      /\ \A u \in Tasks : u # t => tasks'[u] = TasksAfterExpiry(at)[u]
      /\ leases'[l].status = "active" /\ leases'[l].task = t /\ attempts'[l] = "leased"
      /\ \A m \in Leases : m # l => /\ leases'[m] = LeasesAfterExpiry(at)[m]
                                    /\ attempts'[m] = AttemptsAfterExpiry(at)[m]
  BY <1>1 DEF ClaimGrants, Grants
<1>3. ASSUME NEW u \in Tasks PROVE TaskKept(u)
  BY <1>2, ExpiryRows DEF TaskKept, TaskStatuses
<1>4. ASSUME NEW m \in Leases PROVE LeaseStep(m)
  <2>1. CASE m = l
    BY <1>2, <2>1 DEF ClaimNextTask, LeaseStep, LeaseGranted
  <2>2. CASE m # l
    BY <1>2, <2>2, ExpiryRows DEF LeaseStep, LeaseEnded, LeaseStatuses
  <2> QED
    BY <2>1, <2>2
<1> QED
  BY <1>3, <1>4 DEF Persists, RecordsKept, ClaimNextTask

(* Every step but a prune keeps every row.                                   *)
LEMMA StepPersists ==
  ASSUME IInv, [Next]_vars
  PROVE  Persists \/ \E statuses \in PruneFilters, R \in SUBSET Runs : PruneRuns(statuses, R)
<1>1. ASSUME tasks' = tasks, leases' = leases, attempts' = attempts, completions' = completions
      PROVE  Persists
  BY <1>1, QuietPersists
<1>2. ASSUME NEW r \in Runs, CreateRun(r) PROVE Persists
  BY <1>1, <1>2 DEF CreateRun
<1>3. ASSUME NEW t \in Tasks, Enqueue(t) PROVE Persists
  <2>1. CASE EnqueueCheck(t) \/ EnqueueThrows(t)
    BY <1>1, <2>1 DEF EnqueueCheck, EnqueueThrows
  <2>2. ASSUME NEW at \in Stamps, EnqueueTask(t, at) PROVE Persists
    <3>1. Vacates({t}, tasks, leases, attempts, tasks', leases', attempts')
          /\ RowInserted(t, tasks[t], tasks'[t])
      BY <2>2, EnqueueSound
    <3>2. \A u \in Tasks : tasks'[u].status = tasks[u].status \/ tasks'[u].status = "queued"
      BY <3>1 DEF Vacates, RowInserted
    <3> QED
      BY <2>2, <3>2, QuietPersists DEF EnqueueTask
  <2> QED
    BY <1>3, <2>1, <2>2 DEF Enqueue
<1>4. ASSUME NEW t \in Tasks, ResumeTask(t) PROVE Persists
  <2>1. Vacates({t}, tasks, leases, attempts, tasks', leases', attempts')
        /\ RowResumed(tasks[t], tasks'[t])
    BY <1>4, StoreWrites, ResumeSound
  <2>2. \A u \in Tasks : tasks'[u].status = tasks[u].status \/ tasks'[u].status = "queued"
    BY <2>1 DEF Vacates, RowResumed
  <2> QED
    BY <1>4, <2>2, QuietPersists DEF ResumeTask
<1>5. ASSUME NEW t \in Tasks, NEW reset \in BOOLEAN, NEW notBefore \in {NoTime, now + 1},
             RequeueDeadTask(t, reset, notBefore)
      PROVE  Persists
  <2>1. Vacates({t}, tasks, leases, attempts, tasks', leases', attempts')
        /\ RowRequeued(tasks[t], tasks'[t])
    BY <1>5, StoreWrites, RequeueSound
  <2>2. \A u \in Tasks : tasks'[u].status = tasks[u].status \/ tasks'[u].status = "queued"
    BY <2>1 DEF Vacates, RowRequeued
  <2> QED
    BY <1>5, <2>2, QuietPersists DEF RequeueDeadTask
<1>6. ASSUME NEW t \in Tasks, NEW l \in Leases, NEW w \in Workers, NEW at \in Stamps,
             HolderStep(t, l, w, at)
      PROVE  Persists
  <2>1. ASSUME NEW ms \in LeaseDurations, HeartbeatLease(t, l, w, ms, at) PROVE Persists
    BY <2>1, HeartbeatPersists
  <2>2. CASE MarkTaskRunning(t, l, w, at)
    BY <2>2, MarkRunningPersists
  <2>3. ASSUME NEW to \in WaitingTaskStatuses, PauseTask(t, l, w, to, at) PROVE Persists
    <3>1. to \in TaskStatuses \ HeldStatuses /\ "released" \in AttemptStatuses \ HeldStatuses
          /\ to # "completed"
      BY DEF WaitingTaskStatuses, TaskStatuses, HeldStatuses, AttemptStatuses
    <3> QED
      BY <2>3, <3>1, EndLeasePersists DEF PauseTask, Persists, RecordsKept
  <2>4. CASE ReleaseTask(t, l, w, at)
    <3>1. "queued" \in TaskStatuses \ HeldStatuses /\ "released" \in AttemptStatuses \ HeldStatuses
      BY DEF TaskStatuses, HeldStatuses, AttemptStatuses
    <3> QED
      BY <2>4, <3>1, EndLeasePersists DEF ReleaseTask, Persists, RecordsKept
  <2>5. ASSUME NEW k \in OptionalTokens, CompleteTask(t, l, w, k, at) PROVE Persists
    BY <2>5, RecordPersists DEF CompleteTask
  <2>6. ASSUME NEW k \in OptionalTokens, FailTask(t, l, w, k, at) PROVE Persists
    BY <2>6, RecordPersists DEF FailTask
  <2> QED
    BY <1>6, <2>1, <2>2, <2>3, <2>4, <2>5, <2>6 DEF HolderStep
<1>7. CASE Tick \/ UNCHANGED vars
  BY <1>1, <1>7 DEF Tick, vars
<1> QED
  BY <1>2, <1>3, <1>4, <1>5, <1>6, <1>7, CancelPersists, ExpirePersists, ClaimPersists
     DEF Next, OperatorStep, Claim, Expire, Prune

(***************************************************************************)
(* Where new rows come from, and what the rows of a pruned run leave.      *)
(***************************************************************************)

\* A task has a row only if it had one before.
NoInsert == \A t \in Tasks : tasks'[t].status \in TaskStatuses => tasks[t].status \in TaskStatuses

(* enqueueTask is the only operation that inserts a task.                    *)
LEMMA StepInserts ==
  ASSUME IInv, [Next]_vars
  PROVE  NoInsert \/ \E t \in Tasks : \E at \in Stamps : EnqueueTask(t, at)
<1>1. \A t \in Tasks : RowStep(t)
  BY StepIInv DEF Sound
<1>2. ASSUME checked' = checked PROVE NoInsert
  BY <1>1, <1>2, RowOrigin DEF NoInsert
<1>3. ASSUME tasks' = tasks PROVE NoInsert
  BY <1>3 DEF NoInsert
<1>4. ASSUME NEW t \in Tasks, Enqueue(t)
      PROVE  NoInsert \/ \E at \in Stamps : EnqueueTask(t, at)
  BY <1>3, <1>4 DEF Enqueue, EnqueueCheck, EnqueueThrows
<1>5. ASSUME NEW t \in Tasks, OperatorStep(t) PROVE NoInsert
  BY <1>2, <1>5 DEF OperatorStep, ResumeTask, RequeueDeadTask
<1>6. ASSUME NEW t \in Tasks, NEW l \in Leases, NEW w \in Workers, NEW at \in Stamps,
             HolderStep(t, l, w, at)
      PROVE  NoInsert
  BY <1>2, <1>6 DEF HolderStep, HeartbeatLease, MarkTaskRunning, PauseTask, ReleaseTask,
     CompleteTask, FailTask, EndLease
<1>7. ASSUME NEW r \in Runs, CreateRun(r) \/ CancelRun(r) PROVE NoInsert
  BY <1>2, <1>7 DEF CreateRun, CancelRun
<1>8. ASSUME (\E at : ExpireLeases(at)) \/ (\E statuses, R : PruneRuns(statuses, R))
             \/ \E w, l, k, kinds, ms, at : ClaimNextTask(w, l, k, kinds, ms, at)
      PROVE  NoInsert
  <2>1. ASSUME NEW at, ExpireLeases(at) PROVE checked' = checked
    BY <2>1 DEF ExpireLeases
  <2>2. ASSUME NEW statuses, NEW R, PruneRuns(statuses, R) PROVE checked' = checked
    BY <2>2 DEF PruneRuns
  <2>3. ASSUME NEW w, NEW l, NEW k, NEW kinds, NEW ms, NEW at, ClaimNextTask(w, l, k, kinds, ms, at)
        PROVE  checked' = checked
    BY <2>3 DEF ClaimNextTask
  <2> QED
    BY <1>2, <1>8, <2>1, <2>2, <2>3
<1>9. CASE Tick \/ UNCHANGED vars
  BY <1>3, <1>9 DEF Tick, vars
<1> QED
  BY <1>4, <1>5, <1>6, <1>7, <1>8, <1>9 DEF Next, Expire, Prune, Claim

(* pruneRuns: a row that is left is unchanged and of another run.            *)
LEMMA PruneFacts ==
  ASSUME NEW statuses, NEW R, PruneRuns(statuses, R)
  PROVE  /\ \A t \in Tasks :
              \/ /\ RunOf(t) \in R /\ tasks[t].status \in TaskStatuses
                 /\ tasks'[t].status = "pruned" /\ tasks'[t].attemptCount = 0
              \/ /\ RunOf(t) \notin R \/ tasks[t].status \notin TaskStatuses
                 /\ tasks'[t] = tasks[t]
         /\ \A l \in Leases :
              \/ /\ leases[l].status \in LeaseStatuses /\ RunOf(leases[l].task) \in R
                 /\ leases'[l].status = "pruned" /\ attempts'[l] = "pruned"
              \/ /\ leases[l].status \notin LeaseStatuses \/ RunOf(leases[l].task) \notin R
                 /\ leases'[l] = leases[l] /\ attempts'[l] = attempts[l]
         /\ \A k \in Tokens :
              \/ completions'[k] = Null
              \/ RunOf(completions[k].task) \notin R /\ completions'[k] = completions[k]
<1>1. ASSUME NEW t \in Tasks
      PROVE  tasks'[t] = IF RunOf(t) \in R /\ tasks[t].status \in TaskStatuses
                           THEN [AbsentTask EXCEPT !.status = "pruned"] ELSE tasks[t]
  BY DEF PruneRuns
<1>2. /\ [AbsentTask EXCEPT !.status = "pruned"].status = "pruned"
      /\ [AbsentTask EXCEPT !.status = "pruned"].attemptCount = 0
      /\ [AbsentLease EXCEPT !.status = "pruned"].status = "pruned"
  BY AbsentTaskRow, AbsentLeaseRow DEF NoRow
<1>3. ASSUME NEW l \in Leases
      PROVE  /\ leases'[l] = IF leases[l].status \in LeaseStatuses /\ RunOf(leases[l].task) \in R
                               THEN [AbsentLease EXCEPT !.status = "pruned"] ELSE leases[l]
             /\ attempts'[l] = IF leases[l].status \in LeaseStatuses /\ RunOf(leases[l].task) \in R
                                 THEN "pruned" ELSE attempts[l]
  BY DEF PruneRuns
<1>4. ASSUME NEW k \in Tokens
      PROVE  completions'[k] = IF completions[k] # Null /\ RunOf(completions[k].task) \in R
                                 THEN Null ELSE completions[k]
  BY DEF PruneRuns
<1> QED
  BY <1>1, <1>2, <1>3, <1>4

(* The row of a task whose outcome a worker reported stays as it is.         *)
LEMMA OutcomeStays ==
  ASSUME IInv, NEW t \in Tasks, RowStep(t),
         \/ tasks[t].status \in {"completed", "cancelled"}
         \/ tasks[t].status = "failed" /\ ~ tasks[t].dead
  PROVE  tasks'[t] = tasks[t] \/ tasks'[t].status = "pruned"
<1>1. ~ tasks[t].dead
  BY DEF IInv, DeadIsFailed
<1> QED
  BY <1>1 DEF RowStep, RowInserted, RowPruned, RowClaimed, RowKept, RowLeft, RowExpired,
     RowCancelled, RowResumed, RowRequeued, HeldStatuses, TerminalTaskStatuses, WaitingTaskStatuses

(***************************************************************************)
(* The invariant.                                                          *)
(***************************************************************************)

LeasesHaveTasks ==
  \A l \in Leases : leases[l].status \in LeaseStatuses =>
    leases[l].task \in Tasks /\ tasks[leases[l].task].status \in TaskStatuses

DependenciesExist ==
  \A t \in Tasks : tasks[t].status \in TaskStatuses => Input[t].dependsOn \subseteq TasksOf(RunOf(t), tasks)

NoRowIsFresh == \A t \in Tasks : tasks[t].status \in NoRow => tasks[t].attemptCount = 0

AttemptHasLeaseRow ==
  \A l \in Leases : attempts[l] \in AttemptStatuses => leases[l].status \in LeaseStatuses

Wins(l, t) == attempts[l] = "completed" /\ leases[l].task = t

WinnersAreDone ==
  \A l \in Leases : attempts[l] = "completed" =>
    leases[l].task \in Tasks /\ tasks[leases[l].task].status = "completed"

OneWinnerEach == \A t \in Tasks : \A l, m \in Leases : Wins(l, t) /\ Wins(m, t) => l = m

DoneHasWinner == \A t \in Tasks : tasks[t].status = "completed" => \E l \in Leases : Wins(l, t)

RecordedIsNotDead == \A k \in Tokens : completions[k] # Null => ~ tasks[completions[k].task].dead

TableInv ==
  /\ RunInv
  /\ LeasesHaveTasks /\ DependenciesExist /\ KeysUnique
  /\ NoRowIsFresh /\ DependenciesDone
  /\ AttemptHasLeaseRow /\ WinnersAreDone /\ OneWinnerEach /\ DoneHasWinner
  /\ CompletionRecordIsTrue /\ RecordedIsNotDead

(* Leases refer to tasks that exist.                                         *)
LEMMA LeasesHaveTasksStep ==
  ASSUME TableInv, [Next]_vars
  PROVE  LeasesHaveTasks'
<1>1. SUFFICES ASSUME NEW l \in Leases, leases'[l].status \in LeaseStatuses
               PROVE  leases'[l].task \in Tasks /\ tasks'[leases'[l].task].status \in TaskStatuses
  BY DEF LeasesHaveTasks
<1>2. leases[l].status \in LeaseStatuses =>
        leases[l].task \in Tasks /\ tasks[leases[l].task].status \in TaskStatuses
  BY DEF TableInv, LeasesHaveTasks
<1>3. CASE Persists
  <2>1. \A t \in Tasks : tasks[t].status \in TaskStatuses => tasks'[t].status \in TaskStatuses
    BY <1>3 DEF Persists, TaskKept
  <2>2. LeaseStep(l)
    BY <1>3 DEF Persists
  <2>3. "active" \in LeaseStatuses /\ "leased" \in TaskStatuses
    BY DEF LeaseStatuses, TaskStatuses
  <2> QED
    BY <1>1, <1>2, <2>1, <2>2, <2>3 DEF LeaseStep, LeaseGranted, LeaseKept, LeaseEnded
<1>4. ASSUME NEW statuses, NEW R, PruneRuns(statuses, R)
      PROVE  leases'[l].task \in Tasks /\ tasks'[leases'[l].task].status \in TaskStatuses
  <2>1. leases'[l] = leases[l] /\ RunOf(leases[l].task) \notin R
    BY <1>1, <1>4, PruneFacts DEF LeaseStatuses
  <2> QED
    BY <1>1, <1>2, <1>4, <2>1, PruneFacts
<1> QED
  BY <1>3, <1>4, StepPersists DEF TableInv, RunInv

(* A task's dependencies are tasks of its run, which go only when it goes.   *)
LEMMA DependenciesExistStep ==
  ASSUME TableInv, [Next]_vars
  PROVE  DependenciesExist'
<1>1. SUFFICES ASSUME NEW t \in Tasks, tasks'[t].status \in TaskStatuses, NEW d \in Input[t].dependsOn
               PROVE  d \in Tasks /\ RunOf(d) = RunOf(t) /\ tasks'[d].status \in TaskStatuses
  BY DEF DependenciesExist, TasksOf, RunOf
<1>2. IInv
  BY DEF TableInv, RunInv
<1>3. \/ tasks[t].status \in TaskStatuses
      \/ d \in TasksOf(RunOf(t), tasks)
  <2>1. CASE NoInsert
    BY <1>1, <2>1 DEF NoInsert
  <2>2. ASSUME NEW u \in Tasks, NEW at \in Stamps, EnqueueTask(u, at)
        PROVE  \/ tasks[t].status \in TaskStatuses
               \/ d \in TasksOf(RunOf(t), tasks)
    BY <1>1, <1>2, <2>2 DEF EnqueueTask, EnqueueAllowed, IInv, TypeOK
  <2> QED
    BY <1>2, <2>1, <2>2, StepInserts
<1>4. d \in Tasks /\ RunOf(d) = RunOf(t) /\ tasks[d].status \in TaskStatuses
  BY <1>1, <1>3 DEF TableInv, DependenciesExist, TasksOf
<1>5. CASE Persists
  BY <1>4, <1>5 DEF Persists, TaskKept
<1>6. ASSUME NEW statuses, NEW R, PruneRuns(statuses, R)
      PROVE  tasks'[d].status \in TaskStatuses
  <2>1. RunOf(t) \notin R
    BY <1>1, <1>3, <1>6, PruneFacts DEF TaskStatuses, TasksOf
  <2> QED
    BY <1>4, <1>6, <2>1, PruneFacts
<1> QED
  BY <1>2, <1>4, <1>5, <1>6, StepPersists

(* Keys are compared inside the transaction that inserts (enqueueTask).      *)
LEMMA KeysUniqueStep ==
  ASSUME TableInv, [Next]_vars
  PROVE  KeysUnique'
<1>1. IInv
  BY DEF TableInv, RunInv
<1>2. SUFFICES ASSUME NEW s \in Tasks, NEW t \in Tasks, RunOf(s) = RunOf(t), s # t,
                      tasks'[s].status \in TaskStatuses, tasks'[t].status \in TaskStatuses,
                      Input[s].key # Null
               PROVE  Input[s].key # Input[t].key
  BY DEF KeysUnique, TasksOf, RunOf
<1>3. RunOf(t) \in Runs
  BY InputAssumption DEF InputRecords, RunOf
<1>4. tasks[s].status \in TaskStatuses /\ tasks[t].status \in TaskStatuses => Input[s].key # Input[t].key
  BY <1>2, <1>3 DEF TableInv, KeysUnique, TasksOf
<1>5. CASE NoInsert
  BY <1>2, <1>4, <1>5 DEF NoInsert
<1>6. ASSUME NEW u \in Tasks, NEW at \in Stamps, EnqueueTask(u, at)
      PROVE  Input[s].key # Input[t].key
  <2>1. \A v \in Tasks : v # u => tasks'[v] = tasks[v]
    BY <1>1, <1>6 DEF EnqueueTask, IInv, TypeOK
  <2>2. Input[u].key = Null \/ \A v \in TasksOf(RunOf(u), tasks) : Input[v].key # Input[u].key
    BY <1>6 DEF EnqueueTask, EnqueueAllowed
  <2>3. CASE s = u
    BY <1>2, <2>1, <2>2, <2>3 DEF TasksOf
  <2>4. CASE t = u
    BY <1>2, <2>1, <2>2, <2>4 DEF TasksOf
  <2>5. CASE s # u /\ t # u
    BY <1>2, <1>4, <2>1, <2>5
  <2> QED
    BY <2>3, <2>4, <2>5
<1> QED
  BY <1>1, <1>5, <1>6, StepInserts

(* A row that is not there has been attempted by nobody.                     *)
LEMMA NoRowIsFreshStep ==
  ASSUME TableInv, [Next]_vars
  PROVE  NoRowIsFresh'
<1>1. \A t \in Tasks : RowStep(t)
  BY StepIInv DEF Sound, TableInv, RunInv
<1>2. ASSUME NEW t \in Tasks, tasks'[t].status \in NoRow
      PROVE  tasks'[t].attemptCount = 0
  <2>1. tasks'[t] = tasks[t] \/ RowPruned(tasks[t], tasks'[t])
    BY <1>1, <1>2 DEF RowStep, RowInserted, RowPruned, RowClaimed, RowKept, RowLeft, RowExpired,
       RowCancelled, RowResumed, RowRequeued, NoRow, HeldStatuses, TaskStatuses
  <2> QED
    BY <1>2, <2>1 DEF TableInv, NoRowIsFresh, RowPruned, FreshCounters
<1> QED
  BY <1>2 DEF NoRowIsFresh

\* A worker has got hold of the task since its attempts were last reset.
Started(row) == row.attemptCount > 0 \/ row.status \in HeldStatuses \union {"completed"}

(* A task starts by a claim only.                                            *)
LEMMA StartsByClaim ==
  ASSUME IInv, NEW t \in Tasks, RowStep(t), Started(tasks'[t])
  PROVE  Started(tasks[t]) \/ ReadyToClaim(t, tasks[t])
<1>1. tasks[t].attemptCount \in Nat
  BY DEF IInv, TypeOK, TaskRows
<1> QED
  BY <1>1 DEF RowStep, RowInserted, RowPruned, RowClaimed, RowKept, RowLeft, RowExpired,
     RowCancelled, RowResumed, RowRequeued, SameCounters, FreshCounters, Started,
     HeldStatuses, TerminalTaskStatuses, WaitingTaskStatuses

(* A completed dependency stays, unless its dependent goes with it.          *)
LEMMA DependenciesDoneStep ==
  ASSUME TableInv, [Next]_vars
  PROVE  DependenciesDone'
<1>1. IInv /\ TypeOK' /\ \A t \in Tasks : RowStep(t)
  BY StepIInv DEF Sound, TableInv, RunInv, IInv
<1>2. SUFFICES ASSUME NEW t \in Tasks, Started(tasks'[t]), NEW d \in Input[t].dependsOn
               PROVE  tasks'[d].status = "completed"
  BY DEF DependenciesDone, Started
<1>3. d \in Tasks
  BY InputAssumption DEF InputRecords
<1>4. tasks[d].status = "completed"
  <2>1. Started(tasks[t]) \/ ReadyToClaim(t, tasks[t])
    BY <1>1, <1>2, StartsByClaim
  <2> QED
    BY <2>1 DEF Started, ReadyToClaim, TableInv, DependenciesDone
<1>5. tasks'[d] = tasks[d] \/ tasks'[d].status = "pruned"
  BY <1>1, <1>3, <1>4, OutcomeStays
<1>6. CASE Persists
  BY <1>3, <1>4, <1>5, <1>6 DEF Persists, TaskKept, TaskStatuses
<1>7. ASSUME NEW statuses, NEW R, PruneRuns(statuses, R)
      PROVE  tasks'[d].status = "completed"
  <2>1. tasks'[t].status \in TaskStatuses
    <3>1. NoRowIsFresh'
      BY NoRowIsFreshStep
    <3>2. tasks'[t].status \in TaskStatuses \union NoRow /\ tasks'[t].attemptCount \in Nat
      BY <1>1 DEF TypeOK, TaskRows
    <3> QED
      BY <1>2, <3>1, <3>2 DEF NoRowIsFresh, Started, NoRow, HeldStatuses, TaskStatuses
  <2>2. RunOf(t) \notin R /\ tasks[t].status \in TaskStatuses
    BY <1>7, <2>1, PruneFacts DEF TaskStatuses
  <2>3. RunOf(d) = RunOf(t)
    BY <2>2 DEF TableInv, DependenciesExist, TasksOf
  <2> QED
    BY <1>3, <1>4, <1>7, <2>2, <2>3, PruneFacts
<1> QED
  BY <1>1, <1>6, <1>7, StepPersists

(* Attempts and leases have their rows together.                             *)
LEMMA AttemptHasLeaseRowStep ==
  ASSUME TableInv, [Next]_vars
  PROVE  AttemptHasLeaseRow'
<1>1. SUFFICES ASSUME NEW l \in Leases, attempts'[l] \in AttemptStatuses
               PROVE  leases'[l].status \in LeaseStatuses
  BY DEF AttemptHasLeaseRow
<1>2. attempts[l] \in AttemptStatuses => leases[l].status \in LeaseStatuses
  BY DEF TableInv, AttemptHasLeaseRow
<1>3. CASE Persists
  BY <1>1, <1>2, <1>3 DEF Persists, LeaseStep, LeaseGranted, LeaseKept, LeaseEnded, LeaseStatuses
<1>4. ASSUME NEW statuses, NEW R, PruneRuns(statuses, R)
      PROVE  leases'[l].status \in LeaseStatuses
  BY <1>1, <1>2, <1>4, PruneFacts DEF AttemptStatuses
<1> QED
  BY <1>3, <1>4, StepPersists DEF TableInv, RunInv

(* A completed attempt was completed before, or its task was held until now. *)
LEMMA WinnerOrigin ==
  ASSUME TableInv, [Next]_vars, NEW l \in Leases, attempts'[l] = "completed"
  PROVE  /\ leases'[l].task = leases[l].task
         /\ \/ /\ attempts[l] = "completed" /\ leases'[l] = leases[l]
               /\ leases'[l].status \in LeaseStatuses
            \/ /\ leases[l].status = "active"
               /\ leases[l].task \in Tasks
               /\ tasks[leases[l].task].status \in HeldStatuses
               /\ tasks[leases[l].task].leaseId = l
               /\ tasks'[leases[l].task].status = "completed"
<1>1. attempts[l] = "completed" => leases[l].status \in LeaseStatuses
  BY DEF TableInv, AttemptHasLeaseRow, AttemptStatuses
<1>2. leases[l].status = "active" =>
        /\ leases[l].task \in Tasks
        /\ tasks[leases[l].task].status \in HeldStatuses
        /\ tasks[leases[l].task].leaseId = l
  BY DEF TableInv, RunInv, IInv, LeaseAgreement, ActiveLeaseIsHeld
<1>3. CASE Persists
  <2>1. LeaseStep(l) /\ "completed" \notin HeldStatuses
    BY <1>3 DEF Persists, HeldStatuses
  <2> QED
    BY <1>1, <1>2, <2>1 DEF LeaseStep, LeaseGranted, LeaseKept, LeaseEnded
<1>4. ASSUME NEW statuses, NEW R, PruneRuns(statuses, R)
      PROVE  attempts[l] = "completed" /\ leases'[l] = leases[l]
  BY <1>4, PruneFacts
<1> QED
  BY <1>1, <1>3, <1>4, StepPersists DEF TableInv, RunInv

(* The task of a completed attempt is completed.                             *)
LEMMA WinnersAreDoneStep ==
  ASSUME TableInv, [Next]_vars
  PROVE  WinnersAreDone'
<1>1. IInv /\ \A t \in Tasks : RowStep(t)
  BY StepIInv DEF Sound, TableInv, RunInv
<1>2. SUFFICES ASSUME NEW l \in Leases, attempts'[l] = "completed"
               PROVE  leases[l].task \in Tasks /\ tasks'[leases[l].task].status = "completed"
  BY WinnerOrigin DEF WinnersAreDone
<1>3. CASE leases[l].status = "active"
  BY <1>2, <1>3, WinnerOrigin DEF TableInv, RunInv, IInv, LeaseAgreement,
     OpenAttemptHasActiveLease, HeldStatuses
<1>4. CASE leases[l].status # "active"
  <2>1. /\ attempts[l] = "completed" /\ leases'[l] = leases[l]
        /\ leases'[l].status \in LeaseStatuses
    BY <1>2, <1>4, WinnerOrigin
  <2>2. leases[l].task \in Tasks /\ tasks[leases[l].task].status = "completed"
    BY <2>1 DEF TableInv, WinnersAreDone
  <2>3. tasks'[leases[l].task] = tasks[leases[l].task] \/ tasks'[leases[l].task].status = "pruned"
    BY <1>1, <2>2, OutcomeStays
  <2>4. CASE Persists
    BY <2>2, <2>3, <2>4 DEF Persists, TaskKept, TaskStatuses
  <2>5. ASSUME NEW statuses, NEW R, PruneRuns(statuses, R)
        PROVE  tasks'[leases[l].task].status = "completed"
    <3>1. RunOf(leases[l].task) \notin R
      BY <2>1, <2>5, PruneFacts DEF LeaseStatuses
    <3> QED
      BY <2>2, <2>5, <3>1, PruneFacts
  <2> QED
    BY <1>1, <2>2, <2>4, <2>5, StepPersists
<1> QED
  BY <1>3, <1>4

(* Two attempts do not both complete a task: the second one would have held  *)
(* the task when it was completed already.                                   *)
LEMMA OneWinnerEachStep ==
  ASSUME TableInv, [Next]_vars
  PROVE  OneWinnerEach'
<1>1. SUFFICES ASSUME NEW t \in Tasks, NEW l \in Leases, NEW m \in Leases,
                      attempts'[l] = "completed", leases'[l].task = t,
                      attempts'[m] = "completed", leases'[m].task = t
               PROVE  l = m
  BY DEF OneWinnerEach, Wins
<1>2. leases[l].task = t /\ leases[m].task = t
  BY <1>1, WinnerOrigin
<1>3. \/ attempts[l] = "completed"
      \/ tasks[t].status \in HeldStatuses /\ tasks[t].leaseId = l
  BY <1>1, <1>2, WinnerOrigin
<1>4. \/ attempts[m] = "completed"
      \/ tasks[t].status \in HeldStatuses /\ tasks[t].leaseId = m
  BY <1>1, <1>2, WinnerOrigin
<1>5. attempts[l] = "completed" \/ attempts[m] = "completed" => tasks[t].status \notin HeldStatuses
  BY <1>2 DEF TableInv, WinnersAreDone, HeldStatuses
<1> QED
  BY <1>2, <1>3, <1>4, <1>5 DEF TableInv, OneWinnerEach, Wins

(* A completed task keeps the attempt that completed it.                     *)
LEMMA DoneHasWinnerStep ==
  ASSUME TableInv, [Next]_vars
  PROVE  DoneHasWinner'
<1>1. SUFFICES ASSUME NEW t \in Tasks, tasks'[t].status = "completed"
               PROVE  \E l \in Leases : leases'[l].task = t /\ attempts'[l] = "completed"
  BY DEF DoneHasWinner, Wins
<1>2. tasks[t].status = "completed" =>
        \E l \in Leases : attempts[l] = "completed" /\ leases[l].task = t
  BY DEF TableInv, DoneHasWinner, Wins
<1>3. ASSUME NEW l \in Leases, attempts[l] = "completed"
      PROVE  leases[l].status \in LeaseStatuses \ {"active"}
  BY <1>3 DEF TableInv, AttemptHasLeaseRow, AttemptStatuses, HeldStatuses,
     RunInv, IInv, LeaseAgreement, OpenAttemptHasActiveLease
<1>4. CASE Persists
  <2>1. \A l \in Leases : LeaseStep(l)
    BY <1>4 DEF Persists
  <2>2. TaskKept(t)
    BY <1>4 DEF Persists
  <2>3. CASE tasks[t].status = "completed"
    <3>1. PICK l \in Leases : attempts[l] = "completed" /\ leases[l].task = t
      BY <1>2, <2>3
    <3>2. leases'[l] = leases[l] /\ attempts'[l] = attempts[l]
      BY <1>3, <2>1, <3>1 DEF LeaseStep, LeaseGranted, LeaseKept, LeaseEnded, LeaseStatuses
    <3> QED
      BY <3>1, <3>2
  <2> QED
    BY <1>1, <2>2, <2>3 DEF TaskKept
<1>5. ASSUME NEW statuses, NEW R, PruneRuns(statuses, R)
      PROVE  \E l \in Leases : leases'[l].task = t /\ attempts'[l] = "completed"
  <2>1. tasks[t].status = "completed" /\ RunOf(t) \notin R
    BY <1>1, <1>5, PruneFacts DEF TaskStatuses
  <2>2. PICK l \in Leases : attempts[l] = "completed" /\ leases[l].task = t
    BY <1>2, <2>1
  <2>3. leases'[l] = leases[l] /\ attempts'[l] = attempts[l]
    BY <1>5, <2>1, <2>2, PruneFacts
  <2> QED
    BY <2>2, <2>3
<1> QED
  BY <1>4, <1>5, StepPersists DEF TableInv, RunInv

\* What completions[k] says of its task.
RecordHolds(k) ==
  /\ completions[k].task \in Tasks
  /\ tasks[completions[k].task].status = completions[k].outcome
  /\ completions[k].outcome \in {"completed", "failed"}
  /\ ~ tasks[completions[k].task].dead

(* A record stays true as long as it is kept.                                *)
LEMMA RecordStays ==
  ASSUME TableInv, [Next]_vars, NEW k \in Tokens, completions[k] # Null,
         completions'[k] = completions[k]
  PROVE  RecordHolds(k) /\ RecordHolds(k)'
<1>1. IInv /\ \A t \in Tasks : RowStep(t)
  BY StepIInv DEF Sound, TableInv, RunInv
<1> DEFINE t == completions[k].task
<1>2. RecordHolds(k)
  BY <1>1 DEF RecordHolds, TableInv, CompletionRecordIsTrue, RecordedIsNotDead, IInv, TypeOK
<1>3. tasks'[t] = tasks[t] \/ tasks'[t].status = "pruned"
  BY <1>1, <1>2, OutcomeStays DEF RecordHolds
<1>4. CASE Persists
  BY <1>2, <1>3, <1>4 DEF Persists, TaskKept, TaskStatuses, RecordHolds
<1>5. ASSUME NEW statuses, NEW R, PruneRuns(statuses, R)
      PROVE  tasks'[t] = tasks[t]
  BY <1>2, <1>5, PruneFacts DEF RecordHolds
<1>6. tasks'[t] = tasks[t]
  BY <1>1, <1>2, <1>3, <1>4, <1>5, StepPersists DEF Persists, TaskKept, TaskStatuses, RecordHolds
<1> QED
  BY <1>2, <1>6 DEF RecordHolds

(* Completion records tell the truth, one per task.                          *)
LEMMA RecordsStep ==
  ASSUME TableInv, [Next]_vars
  PROVE  CompletionRecordIsTrue' /\ RecordedIsNotDead'
<1>1. ASSUME NEW k \in Tokens
      PROVE  \/ completions'[k] = Null
             \/ completions[k] # Null /\ completions'[k] = completions[k]
             \/ NewRecord(k) /\ \A j \in Tokens : j # k => completions'[j] = completions[j]
  <2>1. CASE RecordsKept
    BY <2>1 DEF RecordsKept
  <2>2. CASE OneRecorded
    BY <2>2 DEF OneRecorded
  <2>3. ASSUME NEW statuses, NEW R, PruneRuns(statuses, R)
        PROVE  completions'[k] = Null \/ completions'[k] = completions[k]
    BY <2>3, PruneFacts
  <2> QED
    BY <2>1, <2>2, <2>3, StepPersists DEF Persists, TableInv, RunInv
<1>2. ASSUME NEW k \in Tokens, completions'[k] # Null
      PROVE  RecordHolds(k)'
  <2>1. CASE NewRecord(k)
    BY <2>1 DEF NewRecord, RecordHolds
  <2>2. CASE completions[k] # Null /\ completions'[k] = completions[k]
    BY <2>2, RecordStays
  <2> QED
    BY <1>1, <1>2, <2>1, <2>2
<1>3. ASSUME NEW j \in Tokens, NEW k \in Tokens, j # k, NewRecord(k),
             completions'[j] # Null, completions'[j] = completions[j]
      PROVE  completions'[j].task # completions'[k].task
  BY <1>3, RecordStays DEF NewRecord, RecordHolds, HeldStatuses
<1>4. ASSUME NEW j \in Tokens, NEW k \in Tokens, j # k,
             completions'[j] # Null, completions'[k] # Null
      PROVE  completions'[j].task # completions'[k].task
  <2>1. CASE NewRecord(k)
    BY <1>1, <1>3, <1>4, <2>1 DEF NewRecord
  <2>2. CASE NewRecord(j)
    BY <1>1, <1>3, <1>4, <2>2 DEF NewRecord
  <2>3. CASE ~ NewRecord(j) /\ ~ NewRecord(k)
    BY <1>1, <1>4, <2>3 DEF TableInv, CompletionRecordIsTrue
  <2> QED
    BY <2>1, <2>2, <2>3
<1>5. CompletionRecordIsTrue'
  BY <1>2, <1>4 DEF CompletionRecordIsTrue, RecordHolds
<1>6. RecordedIsNotDead'
  BY <1>2 DEF RecordedIsNotDead, RecordHolds
<1> QED
  BY <1>5, <1>6

LEMMA TableStep ==
  ASSUME TableInv, [Next]_vars
  PROVE  TableInv'
<1>1. RunInv'
  BY RunStep DEF TableInv
<1> QED
  BY <1>1, LeasesHaveTasksStep, DependenciesExistStep, KeysUniqueStep, NoRowIsFreshStep,
     DependenciesDoneStep, AttemptHasLeaseRowStep, WinnersAreDoneStep, OneWinnerEachStep,
     DoneHasWinnerStep, RecordsStep DEF TableInv

LEMMA TableInit == Init => TableInv
<1>1. Init => RunInv
  BY RunInit
<1>2. ASSUME Init
      PROVE  /\ \A t \in Tasks : tasks[t].status = "absent" /\ tasks[t].attemptCount = 0
             /\ \A l \in Leases : leases[l].status = "absent" /\ attempts[l] = "absent"
             /\ \A k \in Tokens : completions[k] = Null
  BY <1>2 DEF Init, AbsentTask, AbsentLease
<1>3. "absent" \notin TaskStatuses \union LeaseStatuses \union AttemptStatuses \union HeldStatuses
  BY DEF TaskStatuses, LeaseStatuses, AttemptStatuses, HeldStatuses
<1>4. Init => LeasesHaveTasks /\ DependenciesExist /\ KeysUnique
  BY <1>2, <1>3 DEF LeasesHaveTasks, DependenciesExist, KeysUnique, TasksOf
<1>5. Init => NoRowIsFresh /\ DependenciesDone
  BY <1>2, <1>3 DEF NoRowIsFresh, DependenciesDone
<1>6. Init => AttemptHasLeaseRow /\ WinnersAreDone /\ OneWinnerEach /\ DoneHasWinner
  BY <1>2, <1>3 DEF AttemptHasLeaseRow, WinnersAreDone, OneWinnerEach, DoneHasWinner, Wins
<1>7. Init => CompletionRecordIsTrue /\ RecordedIsNotDead
  BY <1>2 DEF CompletionRecordIsTrue, RecordedIsNotDead
<1> QED
  BY <1>1, <1>4, <1>5, <1>6, <1>7 DEF TableInv

LEMMA TableInductive == Spec => []TableInv
  BY TableInit, TableStep, PTL DEF Spec

(***************************************************************************)
(* The invariants of the tables.                                           *)
(***************************************************************************)

(* A row refers to rows that exist: foreign keys hold without SQLite's help. *)
THEOREM NoDanglingRowsHolds == Spec => []NoDanglingRows
<1>1. ASSUME TableInv PROVE NoDanglingRows
  <2>1. ASSUME NEW t \in Tasks, tasks[t].status \in TaskStatuses
        PROVE  runs[RunOf(t)] \in RunStatuses /\ Input[t].dependsOn \subseteq TasksOf(RunOf(t), tasks)
    BY <1>1, <2>1 DEF TableInv, RunInv, TaskHasRun, DependenciesExist
  <2>2. ASSUME NEW k \in Tokens, completions[k] # Null
        PROVE  tasks[completions[k].task].status \in TaskStatuses
    <3>1. completions[k].outcome \in TaskStatuses
      BY <1>1, <2>2 DEF TableInv, RunInv, IInv, TypeOK, TaskStatuses
    <3> QED
      BY <1>1, <2>2, <3>1 DEF TableInv, CompletionRecordIsTrue
  <2> QED
    BY <1>1, <2>1, <2>2 DEF NoDanglingRows, TableInv, LeasesHaveTasks
<1> QED
  BY <1>1, TableInductive, PTL

(* Two tasks of a run never share a key.                                     *)
THEOREM KeysUniqueHolds == Spec => []KeysUnique
<1>1. TableInv => KeysUnique
  BY DEF TableInv
<1> QED
  BY <1>1, TableInductive, PTL

(* Whoever works on a task, or has, found its dependencies completed, and    *)
(* they still are.                                                           *)
THEOREM DependenciesDoneHolds == Spec => []DependenciesDone
<1>1. TableInv => DependenciesDone
  BY DEF TableInv
<1> QED
  BY <1>1, TableInductive, PTL

(* A completion record shows the outcome its task still has.                 *)
THEOREM CompletionRecordIsTrueHolds == Spec => []CompletionRecordIsTrue
<1>1. TableInv => CompletionRecordIsTrue
  BY DEF TableInv
<1> QED
  BY <1>1, TableInductive, PTL

(* A task is completed by exactly one of its attempts, or by none and is not *)
(* completed.                                                                *)
THEOREM OneWinningAttemptHolds == Spec => []OneWinningAttempt
<1>1. ASSUME TableInv, NEW t \in Tasks
      PROVE  LET winners == {l \in Leases : leases[l].task = t /\ attempts[l] = "completed"}
             IN  Cardinality(winners) = IF tasks[t].status = "completed" THEN 1 ELSE 0
  <2> DEFINE winners == {l \in Leases : leases[l].task = t /\ attempts[l] = "completed"}
  <2>1. CASE tasks[t].status = "completed"
    <3>1. PICK l \in Leases : Wins(l, t)
      BY <1>1, <2>1 DEF TableInv, DoneHasWinner
    <3>2. winners = {l}
      BY <1>1, <3>1 DEF TableInv, OneWinnerEach, Wins
    <3>3. Cardinality(winners) = 1
      BY <3>2, FS_Singleton
    <3> QED
      BY <2>1, <3>3
  <2>2. CASE tasks[t].status # "completed"
    <3>1. winners = {}
      BY <1>1, <2>2 DEF TableInv, WinnersAreDone
    <3>2. Cardinality(winners) = 0
      BY <3>1, FS_EmptySet
    <3> QED
      BY <2>2, <3>2
  <2> QED
    BY <2>1, <2>2
<1>2. TableInv => OneWinningAttempt
  BY <1>1 DEF OneWinningAttempt
<1> QED
  BY <1>2, TableInductive, PTL

(***************************************************************************)
(* What no step does.                                                      *)
(***************************************************************************)

(* The outcome a worker reported, or a cancellation, is never overwritten.   *)
THEOREM OutcomeIsFinalHolds == Spec => OutcomeIsFinal
<1>1. ASSUME IInv, [Next]_vars, NEW t \in Tasks,
             \/ tasks[t].status \in {"completed", "cancelled"}
             \/ tasks[t].status = "failed" /\ ~ tasks[t].dead
      PROVE  tasks'[t] = tasks[t] \/ tasks'[t].status = "pruned"
  BY <1>1, StepIInv, OutcomeStays DEF Sound
<1>2. ASSUME IInv, [Next]_vars
      PROVE  \A t \in Tasks :
               tasks[t].status \in {"completed", "cancelled"} \/ (tasks[t].status = "failed" /\ ~ tasks[t].dead) =>
                 tasks'[t] = tasks[t] \/ tasks'[t].status = "pruned"
  BY <1>1, <1>2
<1> QED
  BY <1>2, Inductive, PTL DEF Spec, OutcomeIsFinal

(* A lease ends once, and its row then stays until it is deleted.            *)
THEOREM LeaseEndsOnceHolds == Spec => LeaseEndsOnce
<1>1. ASSUME IInv, [Next]_vars, NEW l \in Leases, leases[l].status \in LeaseStatuses \ {"active"}
      PROVE  leases'[l] = leases[l] \/ leases'[l].status = "pruned"
  <2>1. CASE Persists
    BY <1>1, <2>1 DEF Persists, LeaseStep, LeaseGranted, LeaseKept, LeaseEnded, LeaseStatuses
  <2>2. ASSUME NEW statuses, NEW R, PruneRuns(statuses, R)
        PROVE  leases'[l] = leases[l] \/ leases'[l].status = "pruned"
    BY <2>2, PruneFacts
  <2> QED
    BY <1>1, <2>1, <2>2, StepPersists
<1>2. ASSUME IInv, [Next]_vars
      PROVE  \A l \in Leases :
               leases[l].status \in LeaseStatuses \ {"active"} =>
                 leases'[l] = leases[l] \/ leases'[l].status = "pruned"
  BY <1>1, <1>2
<1> QED
  BY <1>2, Inductive, PTL DEF Spec, LeaseEndsOnce

(* A lease is expired only after the deadline its holder was last told.      *)
THEOREM NoPrematureLossHolds == Spec => NoPrematureLoss
<1>1. ASSUME IInv, [Next]_vars, NEW l \in Leases,
             leases[l].status = "active", leases'[l].status = "expired"
      PROVE  now > leases[l].expiresAt
  <2>1. now \in Int /\ leases[l].expiresAt \in Int
    BY <1>1 DEF IInv, TypeOK, LeaseRows
  <2>2. CASE Persists
    BY <1>1, <2>1, <2>2 DEF Persists, LeaseStep, LeaseGranted, LeaseKept, LeaseEnded
  <2>3. ASSUME NEW statuses, NEW R, PruneRuns(statuses, R) PROVE FALSE
    BY <1>1, <2>3, PruneFacts
  <2> QED
    BY <1>1, <2>2, <2>3, StepPersists
<1>2. ASSUME IInv, [Next]_vars
      PROVE  \A l \in Leases :
               leases[l].status = "active" /\ leases'[l].status = "expired" =>
                 now > leases[l].expiresAt
  BY <1>1, <1>2
<1> QED
  BY <1>2, Inductive, PTL DEF Spec, NoPrematureLoss

-----------------------------------------------------------------------------
(* SqliteStore implements TaskOwnership, and TaskOwnership keeps the         *)
(* exclusion it is about.                                                    *)
(*                                                                           *)
(* StoreProofs says which tasks an operation takes from their holders        *)
(* (Vacates) or grants (Grants); here follows which step of TaskOwnership    *)
(* that is, and IInv is the invariant the steps need: a dead task has no     *)
(* holder to lose, an absent one is not overwritten.                         *)


(* What PhaseOf reads off a row.                                             *)
LEMMA PhaseFacts ==
  ASSUME NEW row \in TaskRows
  PROVE  /\ row.status = "absent" => PhaseOf(row) = "none"
         /\ row.status = "pruned" => PhaseOf(row) = "gone"
         /\ row.status = "queued" => PhaseOf(row) = "ready"
         /\ row.status \in HeldStatuses => PhaseOf(row) = "owned"
         /\ row.status \in WaitingTaskStatuses => PhaseOf(row) = "parked"
         /\ row.status \in TerminalTaskStatuses =>
              PhaseOf(row) = IF row.dead THEN "dead" ELSE "done"
  BY DEF PhaseOf, HeldStatuses, WaitingTaskStatuses, TerminalTaskStatuses

(* phaseBar, now and next, task by task.                                     *)
LEMMA PhaseBarFacts ==
  ASSUME NEW t \in Tasks
  PROVE  phaseBar[t] = PhaseOf(tasks[t]) /\ phaseBar'[t] = PhaseOf(tasks'[t])
  BY DEF phaseBar

(***************************************************************************)
(* The holders, by what an operation does to the lease table.              *)
(***************************************************************************)

\* The tasks of S have no holder any more; nothing else changes hands.
HoldersVacated(S) ==
  /\ holdersBar' = [t \in Tasks |-> IF t \in S THEN {} ELSE holdersBar[t]]
  /\ grantedBar' = grantedBar
  /\ \A t \in Tasks : t \notin S => phaseBar'[t] = phaseBar[t]

LEMMA VacatedHolders ==
  ASSUME NEW S, Vacates(S, tasks, leases, attempts, tasks', leases', attempts'),
         \A l \in Leases : leases'[l].status = "absent" <=> leases[l].status = "absent"
  PROVE  HoldersVacated(S)
<1>1. ASSUME NEW l \in Leases
      PROVE  /\ leases'[l].status = "active" <=> leases[l].status = "active" /\ leases[l].task \notin S
             /\ leases'[l].status = "active" => leases'[l].task = leases[l].task
  BY DEF Vacates
<1>2. ASSUME NEW t \in Tasks
      PROVE  {l \in Leases : leases'[l].status = "active" /\ leases'[l].task = t}
               = IF t \in S THEN {} ELSE {l \in Leases : leases[l].status = "active" /\ leases[l].task = t}
  BY <1>1
<1>3. holdersBar' = [t \in Tasks |-> IF t \in S THEN {} ELSE holdersBar[t]]
  BY <1>2 DEF holdersBar
<1>4. grantedBar' = grantedBar
  BY DEF grantedBar
<1>5. \A t \in Tasks : t \notin S => phaseBar'[t] = phaseBar[t]
  BY PhaseBarFacts DEF Vacates
<1> QED
  BY <1>3, <1>4, <1>5 DEF HoldersVacated

(* No operation that only takes leases away makes or unmakes a lease's row.   *)
LEMMA LeasesStay ==
  ASSUME IInv, [Next]_vars, NEW S,
         Vacates(S, tasks, leases, attempts, tasks', leases', attempts'), NEW l \in Leases
  PROVE  leases'[l].status = "absent" <=> leases[l].status = "absent"
<1>1. CASE Persists
  <2>1. ~ LeaseGranted(l)
    BY DEF Vacates, LeaseGranted
  <2>2. leases'[l] = leases[l] \/ LeaseKept(l) \/ LeaseEnded(l)
    BY <1>1, <2>1 DEF Persists, LeaseStep
  <2> QED
    BY <2>2 DEF LeaseKept, LeaseEnded, LeaseStatuses
<1>2. ASSUME NEW statuses, NEW R, PruneRuns(statuses, R)
      PROVE  leases'[l].status = "absent" <=> leases[l].status = "absent"
  BY <1>2, PruneFacts DEF LeaseStatuses
<1> QED
  BY <1>1, <1>2, StepPersists

(* Tasks of S leave their holders for p[t]: a Vacate of TaskOwnership.       *)
LEMMA AbstractVacate ==
  ASSUME NEW S, NEW p, HoldersVacated(S),
         \A t \in Tasks : t \in S => phaseBar'[t] = p[t]
  PROVE  Ownership!Vacate(S, p) /\ grantedBar' = grantedBar
<1>1. phaseBar' = [t \in Tasks |-> IF t \in S THEN p[t] ELSE phaseBar[t]]
  <2>1. phaseBar' = [t \in Tasks |-> phaseBar'[t]]
    BY DEF phaseBar
  <2> QED
    BY <2>1 DEF HoldersVacated
<1> QED
  BY <1>1 DEF Ownership!Vacate, HoldersVacated

(***************************************************************************)
(* Each operation is the step of TaskOwnership named in its lemma.         *)
(***************************************************************************)

(* Operations that change no phase and no holder are not seen at all.        *)
LEMMA Unseen ==
  ASSUME \A t \in Tasks : PhaseOf(tasks'[t]) = PhaseOf(tasks[t]),
         \A l \in Leases : leases'[l].status = leases[l].status /\ leases'[l].task = leases[l].task
  PROVE  UNCHANGED Ownership!ownershipVars
<1>1. phaseBar' = phaseBar
  BY DEF phaseBar
<1>2. holdersBar' = holdersBar
  BY DEF holdersBar
<1>3. grantedBar' = grantedBar
  BY DEF grantedBar
<1> QED
  BY <1>1, <1>2, <1>3 DEF Ownership!ownershipVars

LEMMA HeartbeatUnseen ==
  ASSUME IInv, NEW t \in Tasks, NEW l \in Leases, NEW w \in Workers, NEW ms, NEW at,
         HeartbeatLease(t, l, w, ms, at), [Next]_vars
  PROVE  UNCHANGED Ownership!ownershipVars
<1>1. TypeOK /\ TypeOK'
  BY StepIInv DEF IInv
<1>2. ASSUME NEW u \in Tasks
      PROVE  tasks'[u].status = tasks[u].status /\ tasks'[u].dead = tasks[u].dead
  BY <1>1 DEF HeartbeatLease, TypeOK, TaskRows
<1>3. ASSUME NEW u \in Tasks PROVE PhaseOf(tasks'[u]) = PhaseOf(tasks[u])
  BY <1>2 DEF PhaseOf
<1>4. ASSUME NEW m \in Leases
      PROVE  leases'[m].status = leases[m].status /\ leases'[m].task = leases[m].task
  BY <1>1 DEF HeartbeatLease, TypeOK, LeaseRows
<1> QED
  BY <1>3, <1>4, Unseen

LEMMA MarkRunningUnseen ==
  ASSUME IInv, TypeOK', NEW t \in Tasks, NEW l \in Leases, NEW w \in Workers, NEW at,
         StartsRunning(t, l, w, at)
  PROVE  UNCHANGED Ownership!ownershipVars
<1>1. tasks[t].status \in HeldStatuses
  BY HolderFacts DEF StartsRunning, IInv
<1>2. tasks'[t].status = "running" /\ \A u \in Tasks : u # t => tasks'[u] = tasks[u]
  BY DEF StartsRunning, IInv, TypeOK, TaskRows
<1>3. tasks[t] \in TaskRows /\ tasks'[t] \in TaskRows
  BY DEF IInv, TypeOK
<1>4. PhaseOf(tasks'[t]) = PhaseOf(tasks[t])
  BY <1>1, <1>2, <1>3, PhaseFacts DEF HeldStatuses
<1> QED
  BY <1>2, <1>4, Unseen DEF StartsRunning

(* enqueueTask admits the task.                                              *)
LEMMA EnqueueIsAdmit ==
  ASSUME TypeOK, TypeOK', NEW t \in Tasks, leases' = leases,
         Vacates({t}, tasks, leases, attempts, tasks', leases', attempts'),
         tasks[t].status = "absent", tasks'[t].status = "queued"
  PROVE  Ownership!Admit(t)
<1>1. HoldersVacated({t})
  BY VacatedHolders
<1>2. tasks[t] \in TaskRows /\ tasks'[t] \in TaskRows
  BY DEF TypeOK
<1>3. phaseBar[t] = "none" /\ phaseBar'[t] = "ready"
  BY <1>2, PhaseFacts, PhaseBarFacts
<1>4. holdersBar' = holdersBar
  BY DEF holdersBar
<1>5. phaseBar' = [phaseBar EXCEPT ![t] = "ready"]
  <2>1. phaseBar = [u \in Tasks |-> phaseBar[u]] /\ phaseBar' = [u \in Tasks |-> phaseBar'[u]]
    BY DEF phaseBar
  <2> QED
    BY <1>1, <1>3, <2>1 DEF HoldersVacated
<1> QED
  BY <1>1, <1>3, <1>4, <1>5 DEF Ownership!Admit, HoldersVacated

(* resumeTask and requeueDeadTask readmit it.                                *)
LEMMA ReadmitStep ==
  ASSUME IInv, TypeOK', NEW t \in Tasks,
         Vacates({t}, tasks, leases, attempts, tasks', leases', attempts'),
         RowResumed(tasks[t], tasks'[t]) \/ RowRequeued(tasks[t], tasks'[t]),
         leases' = leases
  PROVE  Ownership!Readmit(t)
<1>1. HoldersVacated({t})
  BY VacatedHolders
<1>2. tasks[t] \in TaskRows /\ tasks'[t] \in TaskRows
  BY DEF IInv, TypeOK
<1>3. tasks[t].dead => tasks[t].status = "failed"
  BY DEF IInv, DeadIsFailed
<1>4. phaseBar[t] \in {"parked", "dead"} /\ phaseBar'[t] = "ready"
  BY <1>2, <1>3, PhaseFacts, PhaseBarFacts DEF RowResumed, RowRequeued, TerminalTaskStatuses
<1>5. holdersBar' = holdersBar
  BY DEF holdersBar
<1>6. phaseBar' = [phaseBar EXCEPT ![t] = "ready"]
  <2>1. phaseBar = [u \in Tasks |-> phaseBar[u]] /\ phaseBar' = [u \in Tasks |-> phaseBar'[u]]
    BY DEF phaseBar
  <2> QED
    BY <1>1, <1>4, <2>1 DEF HoldersVacated
<1> QED
  BY <1>1, <1>4, <1>5, <1>6 DEF Ownership!Readmit, HoldersVacated

(* pauseTask, completeTask, failTask and releaseTask return it.              *)
LEMMA LeaveIsReturn ==
  ASSUME IInv, TypeOK', NEW t \in Tasks, NEW l \in Leases, NEW w \in Workers, NEW at \in Stamps,
         NEW to \in TaskStatuses \ HeldStatuses, NEW a \in AttemptStatuses \ HeldStatuses,
         LeavesLease(t, l, w, at, to, a)
  PROVE  \E ph \in {"ready", "parked", "done"} : Ownership!Return(t, ph)
<1>1. LeaseEnds(t, l, to, a)
  BY LeaveFacts
<1>2. HoldersVacated({t})
  <2>1. ASSUME NEW m \in Leases PROVE leases'[m].status = "absent" <=> leases[m].status = "absent"
    BY <1>1 DEF LeaseEnds
  <2> QED
    BY <1>1, <2>1, VacatedHolders DEF LeaseEnds
<1>3. tasks[t] \in TaskRows /\ tasks'[t] \in TaskRows
  BY DEF IInv, TypeOK
<1>4. tasks[t].status \in HeldStatuses /\ tasks'[t].status = to /\ tasks'[t].dead = tasks[t].dead
  BY <1>1 DEF LeaseEnds, SameCounters
<1>5. ~ tasks'[t].dead
  BY <1>4 DEF IInv, DeadIsFailed, HeldStatuses
<1>6. to = "queued" \/ to \in WaitingTaskStatuses \/ to \in TerminalTaskStatuses
  BY DEF TaskStatuses, HeldStatuses, WaitingTaskStatuses, TerminalTaskStatuses
<1>7. phaseBar[t] = "owned" /\ phaseBar'[t] \in {"ready", "parked", "done"}
  BY <1>3, <1>4, <1>5, <1>6, PhaseFacts, PhaseBarFacts
<1> DEFINE ph == phaseBar'[t]
           p == [u \in {t} |-> ph]
<1>8. Ownership!Vacate({t}, p) /\ grantedBar' = grantedBar
  <2>1. \A u \in Tasks : u \in {t} => phaseBar'[u] = p[u]
    OBVIOUS
  <2> QED
    BY <1>2, <2>1, AbstractVacate
<1> QED
  BY <1>7, <1>8 DEF Ownership!Return

(* cancelRun calls its open tasks off, pruneRuns forgets the rows of R.      *)
LEMMA CancelIsCallOff ==
  ASSUME IInv, [Next]_vars, NEW r \in Runs, CancelRun(r)
  PROVE  Ownership!CallOff(OpenTasksOf(r))
<1> DEFINE S == OpenTasksOf(r)
           p == [t \in S |-> "done"]
<1>1. /\ HoldersVacated(S)
      /\ \A t \in S : RowCancelled(tasks[t], tasks'[t])
  BY CancelSound, LeasesStay, VacatedHolders
<1>2. ASSUME NEW t \in S PROVE t \in Tasks /\ tasks[t] \in TaskRows /\ tasks'[t] \in TaskRows
  BY StepIInv DEF IInv, TypeOK, OpenTasksOf
<1>3. ASSUME NEW t \in S PROVE phaseBar[t] \in Ownership!Open
  <2>1. tasks[t].status \in TaskStatuses \ TerminalTaskStatuses
    BY <1>1 DEF RowCancelled
  <2>2. \/ tasks[t].status = "queued"
        \/ tasks[t].status \in HeldStatuses
        \/ tasks[t].status \in WaitingTaskStatuses
    BY <2>1 DEF TaskStatuses, TerminalTaskStatuses, HeldStatuses, WaitingTaskStatuses
  <2> QED
    BY <1>2, <2>2, PhaseFacts, PhaseBarFacts DEF Ownership!Open
<1>4. ASSUME NEW t \in S PROVE phaseBar'[t] = "done"
  <2>1. tasks'[t].status = "cancelled" /\ tasks'[t].dead = tasks[t].dead
    BY <1>1 DEF RowCancelled, SameCounters
  <2>2. ~ tasks'[t].dead
    BY <1>1, <1>2, <2>1 DEF IInv, DeadIsFailed, RowCancelled, TerminalTaskStatuses
  <2> QED
    BY <1>2, <2>1, <2>2, PhaseFacts, PhaseBarFacts DEF TerminalTaskStatuses
<1>5. Ownership!Vacate(S, p) /\ grantedBar' = grantedBar
  <2>1. \A t \in Tasks : t \in S => phaseBar'[t] = p[t]
    BY <1>4
  <2> QED
    BY <1>1, <2>1, AbstractVacate
<1> QED
  BY <1>3, <1>5 DEF Ownership!CallOff

LEMMA PruneIsForget ==
  ASSUME IInv, [Next]_vars, NEW statuses, NEW R, PruneRuns(statuses, R)
  PROVE  Ownership!Forget(RowsOf(R))
<1> DEFINE S == RowsOf(R)
           p == [t \in S |-> "gone"]
<1>1. /\ HoldersVacated(S)
      /\ \A t \in S : RowPruned(tasks[t], tasks'[t])
  BY PruneSound, LeasesStay, VacatedHolders
<1>2. ASSUME NEW t \in S PROVE t \in Tasks /\ tasks'[t] \in TaskRows
  BY StepIInv DEF IInv, TypeOK, RowsOf
<1>3. Ownership!Vacate(S, p) /\ grantedBar' = grantedBar
  <2>1. \A t \in Tasks : t \in S => phaseBar'[t] = p[t]
    BY <1>1, <1>2, PhaseFacts, PhaseBarFacts DEF RowPruned
  <2> QED
    BY <1>1, <2>1, AbstractVacate
<1> QED
  BY <1>3 DEF Ownership!Forget

(* expireLeases revokes them: each expired task is ready again, or dead.     *)
ExpiredPhase(at) == [t \in Expired(at) |-> PhaseOf(ExpiredRow(t, at))]

LEMMA ExpiredPhases ==
  ASSUME TypeOK, NEW at \in Stamps
  PROVE  /\ Expired(at) \subseteq Ownership!Owned
         /\ ExpiredPhase(at) \in [Expired(at) -> {"ready", "dead"}]
         /\ \A t \in Expired(at) :
              PhaseOf(ExpiredRow(t, at)) = "ready" <=> ExpiredRow(t, at).status = "queued"
<1>1. ASSUME NEW t \in Expired(at)
      PROVE  t \in Tasks /\ tasks[t] \in TaskRows /\ phaseBar[t] = "owned"
  <2>1. t \in Tasks /\ tasks[t].status \in HeldStatuses
    BY DEF Expired
  <2> QED
    BY <2>1, PhaseFacts, PhaseBarFacts DEF TypeOK
<1>2. ASSUME NEW t \in Expired(at)
      PROVE  /\ PhaseOf(ExpiredRow(t, at)) \in {"ready", "dead"}
             /\ PhaseOf(ExpiredRow(t, at)) = "ready" <=> ExpiredRow(t, at).status = "queued"
  <2>1. ExpiredRow(t, at) \in TaskRows
    BY <1>1, ExpiryType DEF TasksAfterExpiry
  <2>2. \/ ExpiredRow(t, at).status = "failed" /\ ExpiredRow(t, at).dead = TRUE
        \/ ExpiredRow(t, at).status = "queued"
    BY <1>1, ExpiredRowRow
  <2> QED
    BY <2>1, <2>2, PhaseFacts DEF TerminalTaskStatuses
<1> QED
  BY <1>1, <1>2 DEF Ownership!Owned, ExpiredPhase

LEMMA ExpireIsRevoke ==
  ASSUME IInv, [Next]_vars, NEW at \in Stamps, ExpireLeases(at)
  PROVE  Ownership!Revoke(Expired(at), ExpiredPhase(at))
<1> DEFINE S == Expired(at)
<1>1. HoldersVacated(S)
  <2>1. Vacates(S, tasks, leases, attempts, tasks', leases', attempts')
    BY AgreeAfterExpiry DEF IInv, ExpireLeases
  <2> QED
    BY <2>1, LeasesStay, VacatedHolders
<1>2. \A t \in Tasks : t \in S => phaseBar'[t] = ExpiredPhase(at)[t]
  BY PhaseBarFacts DEF ExpireLeases, TasksAfterExpiry, ExpiredPhase
<1>3. Ownership!Vacate(S, ExpiredPhase(at)) /\ grantedBar' = grantedBar
  BY <1>1, <1>2, AbstractVacate
<1>4. grantedBar' \subseteq Leases
  BY DEF grantedBar
<1> QED
  BY <1>3, <1>4, ExpiredPhases DEF Ownership!Revoke, IInv

(* claimNextTask does the same, and grants the lease it inserts.             *)
LEMMA ClaimIsGrant ==
  ASSUME IInv, TypeOK', NEW t \in Tasks, NEW w \in Workers, NEW l \in Leases,
         NEW k \in OptionalTokens, NEW kinds, NEW ms \in LeaseDurations, NEW at \in Stamps,
         Takes(t, w, l, k, kinds, ms, at)
  PROVE  Ownership!Grant(Expired(at), ExpiredPhase(at), t, l)
<1> DEFINE S == Expired(at)
           T == TasksAfterExpiry(at)
           L == LeasesAfterExpiry(at)
           A == AttemptsAfterExpiry(at)
<1>1. /\ TypeOK /\ TypeOK'
      /\ T \in [Tasks -> TaskRows]
      /\ Agree(T, L, A)
      /\ Vacates(S, tasks, leases, attempts, T, L, A)
  BY AgreeAfterExpiry, ExpiryType DEF IInv
<1>2. ClaimGrants(t, l, kinds, at)
  BY ClaimFacts
<1>3. /\ Grants(t, l, T, L, A, tasks', leases', attempts')
      /\ T[t].status = "queued"
  BY <1>2 DEF ClaimGrants, Claimable
<1>4. \A u \in Tasks : T[u] = IF u \in S THEN ExpiredRow(u, at) ELSE tasks[u]
  BY DEF TasksAfterExpiry
<1>5. leases[l].status = "absent"
  BY DEF Takes
<1>6. \A m \in Leases : L[m].status = "absent" <=> leases[m].status = "absent"
  <2>1. ASSUME NEW m \in Leases, m \in ExpiredLeases(at) PROVE L[m].status = "expired"
    <3>1. L[m] = [leases[m] EXCEPT !.status = "expired"]
      BY <2>1 DEF LeasesAfterExpiry
    <3> QED
      BY <1>1, <3>1 DEF TypeOK, LeaseRows
  <2>2. ASSUME NEW m \in Leases, m \in ExpiredLeases(at) PROVE leases[m].status = "active"
    BY <2>2, AgreeAfterExpiry DEF IInv
  <2>3. ASSUME NEW m \in Leases, m \notin ExpiredLeases(at) PROVE L[m] = leases[m]
    BY <2>3 DEF LeasesAfterExpiry
  <2> QED
    BY <2>1, <2>2, <2>3
<1> HIDE DEF T, L, A
<1>7. IF t \in S THEN ExpiredPhase(at)[t] = "ready" ELSE phaseBar[t] = "ready"
  <2>1. CASE t \in S
    BY <1>1, <1>3, <1>4, <2>1, ExpiredPhases DEF ExpiredPhase
  <2>2. CASE t \notin S
    <3>1. tasks[t].status = "queued" /\ tasks[t] \in TaskRows
      BY <1>1, <1>3, <1>4, <2>2
    <3> QED
      BY <2>2, <3>1, PhaseFacts, PhaseBarFacts
  <2> QED
    BY <2>1, <2>2
<1>8. phaseBar' = [u \in Tasks |-> IF u = t THEN "owned"
                                   ELSE IF u \in S THEN ExpiredPhase(at)[u] ELSE phaseBar[u]]
  <2>1. phaseBar'[t] = "owned"
    <3>1. tasks'[t].status \in HeldStatuses /\ tasks'[t] \in TaskRows
      BY <1>1, <1>3 DEF Grants, HeldStatuses, TypeOK
    <3> QED
      BY <3>1, PhaseFacts, PhaseBarFacts
  <2>2. ASSUME NEW u \in Tasks, u # t
        PROVE  phaseBar'[u] = IF u \in S THEN ExpiredPhase(at)[u] ELSE phaseBar[u]
    <3>1. tasks'[u] = IF u \in S THEN ExpiredRow(u, at) ELSE tasks[u]
      BY <1>3, <1>4, <2>2 DEF Grants
    <3> QED
      BY <3>1, PhaseBarFacts DEF ExpiredPhase
  <2>3. phaseBar' = [u \in Tasks |-> phaseBar'[u]]
    BY DEF phaseBar
  <2> QED
    BY <2>1, <2>2, <2>3
<1>9. holdersBar' = [u \in Tasks |-> IF u = t THEN {l} ELSE IF u \in S THEN {} ELSE holdersBar[u]]
  <2>1. ASSUME NEW m \in Leases, m # l
        PROVE  /\ leases'[m].status = "active" <=> leases[m].status = "active" /\ leases[m].task \notin S
               /\ leases'[m].status = "active" => leases'[m].task = leases[m].task /\ leases[m].task # t
    <3>1. leases'[m] = L[m]
      BY <1>3, <2>1 DEF Grants
    <3>2. L[m].status = "active" => L[m].task # t
      BY <1>1, <1>3 DEF Agree, HeldStatuses
    <3> QED
      BY <1>1, <3>1, <3>2 DEF Vacates
  <2>2. leases'[l].status = "active" /\ leases'[l].task = t
    BY <1>3 DEF Grants
  <2>3. ASSUME NEW u \in Tasks
        PROVE  {m \in Leases : leases'[m].status = "active" /\ leases'[m].task = u}
                 = IF u = t THEN {l} ELSE IF u \in S THEN {} ELSE
                     {m \in Leases : leases[m].status = "active" /\ leases[m].task = u}
    BY <1>5, <2>1, <2>2
  <2> QED
    BY <2>3 DEF holdersBar
<1>10. l \notin grantedBar /\ grantedBar' = grantedBar \union {l}
  BY <1>3, <1>5, <1>6 DEF grantedBar, Grants
<1>11. S \subseteq Ownership!Owned
  BY <1>1, ExpiredPhases
<1> QED
  BY <1>7, <1>8, <1>9, <1>10, <1>11 DEF Ownership!Grant

(***************************************************************************)
(* The refinement.                                                         *)
(***************************************************************************)

LEMMA OwnershipStep ==
  ASSUME IInv, [Next]_vars
  PROVE  Ownership!OwnershipNext \/ UNCHANGED Ownership!ownershipVars
<1> DEFINE Goal == Ownership!OwnershipNext \/ UNCHANGED Ownership!ownershipVars
<1>0. TypeOK'
  BY StepIInv DEF IInv
<1>1. ASSUME tasks' = tasks, leases' = leases PROVE Goal
  BY <1>1, Unseen
<1>2. ASSUME NEW r \in Runs, CreateRun(r) PROVE Goal
  BY <1>1, <1>2 DEF CreateRun
<1>3. ASSUME NEW t \in Tasks, Enqueue(t) PROVE Goal
  <2>1. CASE EnqueueCheck(t) \/ EnqueueThrows(t)
    BY <1>1, <2>1 DEF EnqueueCheck, EnqueueThrows
  <2>2. ASSUME NEW at \in Stamps, EnqueueTask(t, at) PROVE Goal
    <3>1. Vacates({t}, tasks, leases, attempts, tasks', leases', attempts')
          /\ RowInserted(t, tasks[t], tasks'[t])
      BY <2>2, EnqueueSound
    <3>2. Ownership!Admit(t)
      BY <1>0, <2>2, <3>1, EnqueueIsAdmit DEF EnqueueTask, RowInserted, IInv
    <3> QED
      BY <3>2 DEF Ownership!OwnershipNext
  <2> QED
    BY <1>3, <2>1, <2>2 DEF Enqueue
<1>4. ASSUME NEW t \in Tasks, OperatorStep(t) PROVE Goal
  <2>1. CASE ResumeTask(t)
    <3>1. Ownership!Readmit(t)
      BY <1>0, <2>1, StoreWrites, ResumeSound, ReadmitStep DEF ResumeTask
    <3> QED
      BY <3>1 DEF Ownership!OwnershipNext
  <2>2. ASSUME NEW reset \in BOOLEAN, NEW notBefore \in {NoTime, now + 1},
               RequeueDeadTask(t, reset, notBefore)
        PROVE  Goal
    <3>1. Ownership!Readmit(t)
      BY <1>0, <2>2, StoreWrites, RequeueSound, ReadmitStep DEF RequeueDeadTask
    <3> QED
      BY <3>1 DEF Ownership!OwnershipNext
  <2> QED
    BY <1>4, <2>1, <2>2 DEF OperatorStep
<1>5. ASSUME NEW t \in Tasks, NEW l \in Leases, NEW w \in Workers, NEW at \in Stamps,
             HolderStep(t, l, w, at)
      PROVE  Goal
  <2>1. ASSUME NEW to \in TaskStatuses \ HeldStatuses, NEW a \in AttemptStatuses \ HeldStatuses,
               EndLease(t, l, w, at, to, a)
        PROVE  Goal
    BY <1>0, <2>1, StoreWrites, LeaveIsReturn DEF Ownership!OwnershipNext
  <2>2. /\ WaitingTaskStatuses \union {"queued", "completed", "failed"} \subseteq TaskStatuses \ HeldStatuses
        /\ {"released", "completed", "failed"} \subseteq AttemptStatuses \ HeldStatuses
    BY DEF WaitingTaskStatuses, TaskStatuses, HeldStatuses, AttemptStatuses
  <2>3. ASSUME NEW to \in WaitingTaskStatuses, PauseTask(t, l, w, to, at) PROVE Goal
    BY <2>1, <2>2, <2>3 DEF PauseTask
  <2>4. CASE ReleaseTask(t, l, w, at)
    BY <2>1, <2>2, <2>4 DEF ReleaseTask
  <2>5. ASSUME NEW k \in OptionalTokens, CompleteTask(t, l, w, k, at) \/ FailTask(t, l, w, k, at)
        PROVE  Goal
    BY <2>1, <2>2, <2>5 DEF CompleteTask, FailTask
  <2>6. ASSUME NEW ms \in LeaseDurations, HeartbeatLease(t, l, w, ms, at) PROVE Goal
    BY <2>6, HeartbeatUnseen
  <2>7. CASE MarkTaskRunning(t, l, w, at)
    BY <1>0, <2>7, StoreWrites, MarkRunningUnseen
  <2> QED
    BY <1>5, <2>3, <2>4, <2>5, <2>6, <2>7 DEF HolderStep
<1>6. ASSUME NEW r \in Runs, CancelRun(r) PROVE Goal
  <2>1. Ownership!CallOff(OpenTasksOf(r)) /\ OpenTasksOf(r) \in SUBSET Tasks
    BY <1>6, CancelIsCallOff DEF OpenTasksOf
  <2> QED
    BY <2>1 DEF Ownership!OwnershipNext
<1>7. ASSUME NEW statuses, NEW R, PruneRuns(statuses, R) PROVE Goal
  <2>1. Ownership!Forget(RowsOf(R)) /\ RowsOf(R) \in SUBSET Tasks
    BY <1>7, PruneIsForget DEF RowsOf
  <2> QED
    BY <2>1 DEF Ownership!OwnershipNext
<1>8. ASSUME NEW at \in Stamps
      PROVE  /\ Expired(at) \in SUBSET Tasks
             /\ ExpiredPhase(at) \in [Expired(at) -> {"ready", "dead"}]
  BY ExpiredPhases DEF Expired, IInv
<1>9. ASSUME NEW at \in Stamps, ExpireLeases(at) PROVE Goal
  BY <1>8, <1>9, ExpireIsRevoke DEF Ownership!OwnershipNext
<1>10. ASSUME NEW w \in Workers, NEW l \in Leases, NEW k \in OptionalTokens, NEW kinds \in KindFilters,
              NEW ms \in LeaseDurations, NEW at \in Stamps, ClaimNextTask(w, l, k, kinds, ms, at)
       PROVE  Goal
  <2>1. \E t \in Tasks : Ownership!Grant(Expired(at), ExpiredPhase(at), t, l)
    BY <1>0, <1>10, StoreWrites, ClaimIsGrant
  <2> QED
    BY <1>8, <2>1 DEF Ownership!OwnershipNext
<1>11. ASSUME Tick \/ UNCHANGED vars PROVE Goal
  BY <1>1, <1>11 DEF Tick, vars
<1> HIDE DEF Goal
<1>12. Goal
  BY <1>2, <1>3, <1>4, <1>5, <1>6, <1>7, <1>9, <1>10, <1>11 DEF Next, Claim, Expire, Prune
<1> QED
  BY <1>12 DEF Goal

LEMMA OwnershipStart == Init => Ownership!OwnershipInit
<1> SUFFICES ASSUME Init PROVE Ownership!OwnershipInit
  OBVIOUS
<1>1. ASSUME NEW t \in Tasks PROVE PhaseOf(tasks[t]) = "none"
  <2>1. tasks[t].status = "absent" /\ tasks[t] \in TaskRows
    BY InitIInv DEF Init, AbsentTask, IInv, TypeOK
  <2> QED
    BY <2>1, PhaseFacts
<1>2. \A l \in Leases : leases[l].status = "absent"
  BY DEF Init, AbsentLease
<1> QED
  BY <1>1, <1>2 DEF Ownership!OwnershipInit, phaseBar, holdersBar, grantedBar

(* Every behaviour of the store's tables is a behaviour of TaskOwnership.    *)
THEOREM ImplementsOwnershipHolds == Spec => ImplementsOwnership
<1>1. ASSUME IInv, [Next]_vars PROVE [Ownership!OwnershipNext]_Ownership!ownershipVars
  BY <1>1, OwnershipStep
<1> QED
  BY <1>1, OwnershipStart, Inductive, PTL DEF Spec, ImplementsOwnership, Ownership!OwnershipSpec

(***************************************************************************)
(* What TaskOwnership itself guarantees.  Exclusion alone is not           *)
(* inductive: a lease that was never granted must belong to nobody, or a   *)
(* grant could hand it out a second time.                                  *)
(***************************************************************************)

OwnershipInv == Ownership!OwnershipTypeOK /\ Ownership!ExclusiveOwnership

LEMMA OwnershipInvStart ==
  ASSUME Ownership!OwnershipInit
  PROVE  OwnershipInv
  BY DEF OwnershipInv, Ownership!OwnershipInit, Ownership!OwnershipTypeOK, Ownership!Phases,
     Ownership!ExclusiveOwnership

(* Tasks that leave their holders, for a phase that is not owned.            *)
LEMMA VacateKeepsInv ==
  ASSUME OwnershipInv, NEW S \in SUBSET Tasks, NEW p,
         \A t \in S : p[t] \in Ownership!Phases \ {"owned"},
         Ownership!Vacate(S, p), grantedBar \subseteq grantedBar', grantedBar' \subseteq Leases
  PROVE  OwnershipInv'
<1> USE DEF OwnershipInv, Ownership!Vacate
<1>1. Ownership!OwnershipTypeOK'
  BY DEF Ownership!OwnershipTypeOK
<1>2. \A t \in Tasks : IF phaseBar'[t] = "owned" THEN \E l \in Leases : holdersBar'[t] = {l}
                                                 ELSE holdersBar'[t] = {}
  BY DEF Ownership!ExclusiveOwnership
<1>3. \A t \in Tasks : holdersBar'[t] \subseteq holdersBar[t]
  OBVIOUS
<1>4. /\ \A t, u \in Tasks : t # u => holdersBar'[t] \intersect holdersBar'[u] = {}
      /\ \A t \in Tasks : holdersBar'[t] \subseteq grantedBar'
  BY <1>3 DEF Ownership!ExclusiveOwnership
<1> QED
  BY <1>1, <1>2, <1>4 DEF Ownership!ExclusiveOwnership

(* A task without a holder becomes ready.                                    *)
LEMMA ReadyKeepsInv ==
  ASSUME OwnershipInv, NEW t \in Tasks, phaseBar[t] # "owned",
         phaseBar' = [phaseBar EXCEPT ![t] = "ready"],
         holdersBar' = holdersBar, grantedBar' = grantedBar
  PROVE  OwnershipInv'
<1> USE DEF OwnershipInv
<1>1. Ownership!OwnershipTypeOK'
  BY DEF Ownership!OwnershipTypeOK, Ownership!Phases
<1>2. \A u \in Tasks : IF phaseBar'[u] = "owned" THEN \E l \in Leases : holdersBar'[u] = {l}
                                                 ELSE holdersBar'[u] = {}
  BY DEF Ownership!ExclusiveOwnership, Ownership!OwnershipTypeOK
<1> QED
  BY <1>1, <1>2 DEF Ownership!ExclusiveOwnership

LEMMA GrantKeepsInv ==
  ASSUME OwnershipInv, NEW S \in SUBSET Tasks, NEW p \in [S -> {"ready", "dead"}],
         NEW t \in Tasks, NEW l \in Leases, Ownership!Grant(S, p, t, l)
  PROVE  OwnershipInv'
<1> USE DEF OwnershipInv, Ownership!Grant
<1>1. Ownership!OwnershipTypeOK'
  BY DEF Ownership!OwnershipTypeOK, Ownership!Phases
<1>2. \A u \in Tasks : IF phaseBar'[u] = "owned" THEN \E m \in Leases : holdersBar'[u] = {m}
                                                 ELSE holdersBar'[u] = {}
  BY DEF Ownership!ExclusiveOwnership
<1>3. /\ holdersBar'[t] = {l} /\ l \notin grantedBar
      /\ \A u \in Tasks : u # t => holdersBar'[u] \subseteq holdersBar[u]
  OBVIOUS
<1>4. /\ \A u, v \in Tasks : u # v => holdersBar'[u] \intersect holdersBar'[v] = {}
      /\ \A u \in Tasks : holdersBar'[u] \subseteq grantedBar'
  BY <1>3 DEF Ownership!ExclusiveOwnership
<1> QED
  BY <1>1, <1>2, <1>4 DEF Ownership!ExclusiveOwnership

LEMMA OwnershipInvStep ==
  ASSUME OwnershipInv, Ownership!OwnershipNext \/ UNCHANGED Ownership!ownershipVars
  PROVE  OwnershipInv'
<1>0. grantedBar \subseteq Leases
  BY DEF grantedBar
<1>1. ASSUME NEW t \in Tasks, Ownership!Admit(t) \/ Ownership!Readmit(t) PROVE OwnershipInv'
  BY <1>1, ReadyKeepsInv DEF Ownership!Admit, Ownership!Readmit
<1>2. ASSUME NEW t \in Tasks, NEW to \in {"ready", "parked", "done"}, Ownership!Return(t, to)
      PROVE  OwnershipInv'
  <2> DEFINE p == [u \in {t} |-> to]
  <2>1. Ownership!Vacate({t}, p) /\ grantedBar' = grantedBar
    BY <1>2 DEF Ownership!Return
  <2>2. \A u \in {t} : p[u] \in Ownership!Phases \ {"owned"}
    BY DEF Ownership!Phases
  <2> HIDE DEF p
  <2> QED
    BY <1>0, <2>1, <2>2, VacateKeepsInv
<1>3. ASSUME NEW S \in SUBSET Tasks, Ownership!CallOff(S) \/ Ownership!Forget(S)
      PROVE  OwnershipInv'
  <2>1. PICK to \in {"done", "gone"} : Ownership!Vacate(S, [t \in S |-> to]) /\ grantedBar' = grantedBar
    BY <1>3 DEF Ownership!CallOff, Ownership!Forget
  <2> DEFINE p == [t \in S |-> to]
  <2>2. \A t \in S : p[t] \in Ownership!Phases \ {"owned"}
    BY DEF Ownership!Phases
  <2>3. Ownership!Vacate(S, p)
    BY <2>1
  <2> HIDE DEF p
  <2> QED
    BY <1>0, <2>1, <2>2, <2>3, VacateKeepsInv
<1>4. ASSUME NEW S \in SUBSET Tasks, NEW p \in [S -> {"ready", "dead"}], Ownership!Revoke(S, p)
      PROVE  OwnershipInv'
  <2>1. \A t \in S : p[t] \in Ownership!Phases \ {"owned"}
    BY DEF Ownership!Phases
  <2> QED
    BY <1>4, <2>1, VacateKeepsInv DEF Ownership!Revoke
<1>5. ASSUME NEW S \in SUBSET Tasks, NEW p \in [S -> {"ready", "dead"}],
             NEW t \in Tasks, NEW l \in Leases, Ownership!Grant(S, p, t, l)
      PROVE  OwnershipInv'
  BY <1>5, GrantKeepsInv
<1>6. CASE UNCHANGED Ownership!ownershipVars
  BY <1>6 DEF Ownership!ownershipVars, OwnershipInv, Ownership!OwnershipTypeOK,
     Ownership!ExclusiveOwnership
<1> QED
  BY <1>1, <1>2, <1>3, <1>4, <1>5, <1>6 DEF Ownership!OwnershipNext

(* At any time at most one lease entitles anybody to work on a task, no      *)
(* lease entitles to two tasks, and a task nobody holds is open to nobody:   *)
(* whatever claims, heartbeats, expiries, cancellations and prunings race.   *)
THEOREM ExclusiveOwnershipHolds == Spec => []Ownership!ExclusiveOwnership
<1>1. OwnershipInv /\ [Ownership!OwnershipNext]_Ownership!ownershipVars => OwnershipInv'
  BY OwnershipInvStep
<1>2. Ownership!OwnershipInit => OwnershipInv
  BY OwnershipInvStart
<1>3. OwnershipInv => Ownership!ExclusiveOwnership
  BY DEF OwnershipInv
<1>4. Spec => Ownership!OwnershipSpec
  BY ImplementsOwnershipHolds DEF ImplementsOwnership
<1> QED
  BY <1>1, <1>2, <1>3, <1>4, PTL DEF Ownership!OwnershipSpec
=============================================================================
