--------------------------- MODULE StoreProperties ---------------------------
(***************************************************************************)
(* What the SQLite store must guarantee to the workers and operators that  *)
(* share it, over the states and steps of SqliteStore.                     *)
(***************************************************************************)
EXTENDS SqliteStore

(* The tables hold rows of the declared shape (schema.ts).                  *)
TypeOK ==
  /\ now \in Nat
  /\ runs \in [Runs -> RunStatuses \union NoRow]
  /\ tasks \in [Tasks -> TaskRows]
  /\ leases \in [Leases -> LeaseRows]
  /\ attempts \in [Leases -> AttemptStatuses \union NoRow]
  /\ completions \in [Tokens -> [task : Tasks, outcome : {"completed", "failed"}] \union {Null}]
  /\ checked \subseteq Tasks

-----------------------------------------------------------------------------
(* Leases.                                                                   *)

(* Every leased/running task names an active lease that agrees with it on    *)
(* holder, deadline and attempt status (claimNextTask, heartbeatLease and    *)
(* markTaskRunning write the three tables separately).                       *)
HeldTaskHasItsLease ==
  \A t \in Tasks : tasks[t].status \in HeldStatuses =>
    LET l == tasks[t].leaseId
    IN  /\ l \in Leases
        /\ leases[l].status = "active"
        /\ leases[l].task = t
        /\ leases[l].worker = tasks[t].leasedBy
        /\ leases[l].expiresAt = tasks[t].leaseExpiresAt
        /\ attempts[l] = tasks[t].status

(* lifecycle.md:41 - the lease columns are cleared whenever a task leaves    *)
(* leased/running, whichever of the eight operations takes it out.           *)
IdleTaskHasNoLease ==
  \A t \in Tasks : tasks[t].status \notin HeldStatuses =>
    tasks[t].leaseId = Null /\ tasks[t].leasedBy = Null /\ tasks[t].leaseExpiresAt = NoTime

(* The lease table holds no active lease that its task does not name: no     *)
(* task is worked on under two leases, and no lease survives its task.       *)
ActiveLeaseIsHeld ==
  \A l \in Leases : leases[l].status = "active" =>
    /\ leases[l].task \in Tasks
    /\ tasks[leases[l].task].status \in HeldStatuses
    /\ tasks[leases[l].task].leaseId = l

(* An attempt is open exactly as long as the lease it was inserted with.     *)
OpenAttemptHasActiveLease ==
  \A l \in Leases : attempts[l] \in HeldStatuses <=> leases[l].status = "active"

LeaseAgreement ==
  /\ HeldTaskHasItsLease
  /\ IdleTaskHasNoLease
  /\ ActiveLeaseIsHeld
  /\ OpenAttemptHasActiveLease

(* A task is completed exactly if one of its attempts is, and never two:     *)
(* retries, expiry and re-claims do not make a task complete twice.          *)
OneWinningAttempt ==
  \A t \in Tasks :
    LET winners == {l \in Leases : leases[l].task = t /\ attempts[l] = "completed"}
    IN  Cardinality(winners) = IF tasks[t].status = "completed" THEN 1 ELSE 0

(* A lease ends once: a row that is no longer active never becomes active    *)
(* again or changes its end, except that pruneRuns deletes it.               *)
LeaseEndsOnce ==
  [][\A l \in Leases :
       leases[l].status \in LeaseStatuses \ {"active"} =>
         leases'[l] = leases[l] \/ leases'[l].status = "pruned"]_vars

(* A worker loses an active lease behind its back only after the deadline it *)
(* was last told, or because its run is cancelled or pruned.                 *)
NoPrematureLoss ==
  [][\A l \in Leases :
       leases[l].status = "active" /\ leases'[l].status = "expired" =>
         now > leases[l].expiresAt]_vars

-----------------------------------------------------------------------------
(* Retries and the dead-letter queue.                                        *)

(* No task is attempted more often than maxAttempts allows, over releases,   *)
(* pauses, expiries and requeues that keep the count.                        *)
AttemptBudget ==
  \A t \in Tasks : Input[t].maxAttempts # Null => tasks[t].attemptCount <= Input[t].maxAttempts

(* Only tasks whose budget is spent are in the dead-letter queue, they are   *)
(* failed, and nothing but requeueDeadTask takes them out.                   *)
DeadMeansExhausted ==
  \A t \in Tasks : tasks[t].dead =>
    tasks[t].status = "failed" /\ MaxAttemptsReached(t, tasks[t])

(* A retry delay is pending only on a task that waits for it (or was         *)
(* cancelled while waiting): whoever works on a task has served the delay.   *)
BackoffOnlyWhileQueued ==
  \A t \in Tasks : tasks[t].notBefore # NoTime => tasks[t].status \in {"queued", "cancelled"}

(* A retried task is not handed out before its delay is over.                *)
RetryDelayServed ==
  [][\A t \in Tasks :
       tasks[t].status = "queued" /\ tasks'[t].status = "leased" => tasks[t].notBefore <= now]_vars

-----------------------------------------------------------------------------
(* Runs.                                                                     *)

(* The stored status of every run is the one deriveRunStatus gives for its   *)
(* tasks, in every state and not only after a recompute (cancelRun, for one, *)
(* does not recompute).                                                      *)
RunStatusIsDerived ==
  \A r \in Runs : runs[r] \in RunStatuses =>
    runs[r] = DeriveRunStatus(runs[r], StatusesIn(r, tasks))

(* Nobody works in a run that is over: a reader who sees a terminal status,  *)
(* or pruneRuns that deletes the run, cannot cut a lease short.              *)
TerminalRunIsIdle ==
  \A t \in Tasks : tasks[t].status \in HeldStatuses => runs[RunOf(t)] \notin TerminalRunStatuses

(* A dependency is complete when its dependent is first claimed and stays so *)
(* for as long as the dependent has a row, cancelRun and pruneRuns included. *)
DependenciesDone ==
  \A t \in Tasks :
    tasks[t].attemptCount > 0 \/ tasks[t].status \in HeldStatuses \union {"completed"} =>
      \A d \in Input[t].dependsOn : tasks[d].status = "completed"

(* Two tasks of a run never share a key, though the callers that check the   *)
(* run's status overlap.                                                     *)
KeysUnique ==
  \A r \in Runs : \A s, t \in TasksOf(r, tasks) :
    s # t /\ Input[s].key # Null => Input[s].key # Input[t].key

(* Rows only refer to rows that exist: a lease to its task, a task to its    *)
(* run and its dependencies, a completion record to its task.                *)
NoDanglingRows ==
  /\ \A l \in Leases : leases[l].status \in LeaseStatuses =>
       leases[l].task \in Tasks /\ tasks[leases[l].task].status \in TaskStatuses
  /\ \A t \in Tasks : tasks[t].status \in TaskStatuses =>
       /\ runs[RunOf(t)] \in RunStatuses
       /\ Input[t].dependsOn \subseteq TasksOf(RunOf(t), tasks)
  /\ \A k \in Tokens : completions[k] # Null => tasks[completions[k].task].status \in TaskStatuses

-----------------------------------------------------------------------------
(* Outcomes and idempotency.                                                 *)

(* The outcome on record under a client token is what the task still shows:  *)
(* a replayed completeTask/failTask returns the truth, and at most one token *)
(* decided the task.                                                         *)
CompletionRecordIsTrue ==
  /\ \A k \in Tokens : completions[k] # Null =>
       tasks[completions[k].task].status = completions[k].outcome
  /\ \A j, k \in Tokens : j # k /\ completions[j] # Null /\ completions[k] # Null =>
       completions[j].task # completions[k].task

(* An outcome a worker reported is never overwritten: a completed task, or a *)
(* failed one that is not dead, keeps its row until the run is pruned.       *)
OutcomeIsFinal ==
  [][\A t \in Tasks :
       tasks[t].status \in {"completed", "cancelled"} \/ (tasks[t].status = "failed" /\ ~ tasks[t].dead) =>
         tasks'[t] = tasks[t] \/ tasks'[t].status = "pruned"]_vars

-----------------------------------------------------------------------------
(* Progress, under the fairness MCSqliteStore states.                        *)

(* A lease does not outlive its worker: each active lease ends, if only by   *)
(* expireLeases once the worker has stopped to heartbeat                     *)
(* (failure-modes.md:30).                                                    *)
LeaseEventuallyEnds ==
  \A l \in Leases : leases[l].status = "active" ~> leases[l].status # "active"

\* Nothing but time and a free worker keeps the task from being claimed.
Runnable(t) ==
  /\ tasks[t].status = "queued"
  /\ runs[RunOf(t)] \notin TerminalRunStatuses
  /\ ~ MaxAttemptsReached(t, tasks[t])
  /\ \A d \in Input[t].dependsOn : tasks[d].status = "completed"

\* The instance has no lease id left for another claim.
LeasesUsedUp == \A l \in Leases : leases[l].status # "absent"

(* A runnable task is not forgotten, whatever its retry delay and whatever   *)
(* else is queued: it is claimed, or cancelled or pruned.                    *)
RunnableEventuallyClaimed == \A t \in Tasks : Runnable(t) ~> ~ Runnable(t) \/ LeasesUsedUp

-----------------------------------------------------------------------------
(* What the documentation says and the code does not do.                     *)

(* README.md:201 - "`releaseTask` (requeues without consuming an attempt)":  *)
(* the attempt count after a release is what it was before the claim.        *)
ReleaseConsumesNoAttempt ==
  [][\A t \in Tasks :
       /\ tasks[t].status \in HeldStatuses
       /\ tasks'[t].status = "queued"
       /\ attempts'[tasks[t].leaseId] = "released"
       => tasks'[t].attemptCount = tasks[t].attemptCount - 1]_vars

(* failure-modes.md:35 - "After `attemptCount >= maxAttempts`, the task is   *)
(* force-marked `failed`": no exhausted task lingers in the queue, where     *)
(* nobody can claim it.                                                      *)
ExhaustedIsNotQueued ==
  \A t \in Tasks : tasks[t].status = "queued" => ~ MaxAttemptsReached(t, tasks[t])

(* lifecycle.md:39 - "`completed`, `failed`, and `cancelled` are terminal.   *)
(* No transition leaves them."                                               *)
TerminalTaskIsFinal ==
  [][\A t \in Tasks : tasks[t].status \in TerminalTaskStatuses =>
       tasks'[t].status \in {tasks[t].status, "pruned"}]_vars

(* types.ts:12 - "Terminal: `completed`, `failed`, `cancelled`": a run with  *)
(* one of these statuses keeps it.                                           *)
TerminalRunIsFinal ==
  [][\A r \in Runs : runs[r] \in TerminalRunStatuses => runs'[r] \in {runs[r], "pruned"}]_vars

(* orchestrator.ts:272 - "Non-terminal runs are never pruned, even if old."  *)
OnlyTerminalRunsArePruned ==
  [][\A r \in Runs : runs'[r] = "pruned" => runs[r] \in TerminalRunStatuses \union {"pruned"}]_vars

(* errors.ts:45 - RunTerminalError is "thrown when a mutating write targets  *)
(* a run already in a terminal status": no task joins such a run.            *)
NoTaskJoinsTerminalRun ==
  [][\A t \in Tasks : tasks[t].status = "absent" /\ tasks'[t].status = "queued" =>
       runs[RunOf(t)] \notin TerminalRunStatuses]_vars

(* sqlite-store.ts:1296 - requeueDeadTask moves a task "back onto the        *)
(* runnable queue": its run is one claimNextTask looks at.                   *)
RequeuedIsRunnable ==
  [][\A t \in Tasks : tasks[t].dead /\ tasks'[t].status = "queued" =>
       runs'[RunOf(t)] \notin TerminalRunStatuses]_vars
=============================================================================
