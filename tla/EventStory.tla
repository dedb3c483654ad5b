------------------------------ MODULE EventStory ------------------------------
(***************************************************************************)
(* The events the SQLite store writes with every change (insertEvent in    *)
(* src/src/sqlite-store.ts) and what a subscriber that never looks at the  *)
(* tables can tell from them.                                              *)
(*                                                                         *)
(* Each logged action is one operation of SqliteStore together with the    *)
(* events its transaction inserts, in their order.  The log itself is not  *)
(* kept: `story' is the subscriber's fold of it (EventLog says how the     *)
(* events reach a subscriber).  pruneRuns deletes events and writes none,  *)
(* so the subscriber goes on believing in a pruned run.                    *)
(***************************************************************************)
EXTENDS StoreRefinement, Sequences, SequencesExt

VARIABLE story  \* what the subscriber believes: [runs |-> ..., tasks |-> ...]

loggedVars == <<vars, story>>

-----------------------------------------------------------------------------
(* Events.  Those that only tell a task's new status carry it in `to'.       *)

RunEvent(type, r, to) == [type |-> type, run |-> r, to |-> to]

TaskEvent(type, t, to) == [type |-> type, task |-> t, to |-> to]

\* pauseTask names its event after the status it sets.
PauseEventType == [blocked |-> "task.blocked", waiting_input |-> "task.waiting_input"]

\* recomputeRunStatus inserts an event for each run whose status it changes.  A
\* sweep calls it after each task: only the last change of a run is kept here.
StatusChanges(R) ==
  SetToSeq({RunEvent("run.status.changed", r, runs'[r]) : r \in {q \in R : runs'[q] # runs[q]}})

ExpiryEvents(t, at) ==
  IF MaxAttemptsReached(t, tasks[t])
    THEN <<TaskEvent("task.failed", t, "failed"), [type |-> "task.dead_lettered", task |-> t]>>
    ELSE <<[type |-> "task.lease_expired", task |-> t, notBefore |-> RetryAt(t, at)]>>

\* The expired tasks are visited in some order, each with its events.
SweepEvents(at) ==
  LET visited == SetToSeq(Expired(at))
  IN  FlattenSeq([i \in DOMAIN visited |-> ExpiryEvents(visited[i], at)])

-----------------------------------------------------------------------------
(* The subscriber.                                                           *)

NoView == [status |-> "absent", attempts |-> 0, lease |-> Null, until |-> NoTime,
           notBefore |-> NoTime, dead |-> FALSE]

\* What the subscriber is after: the columns an operator would look at.
View(row) == [status |-> row.status, attempts |-> row.attemptCount, lease |-> row.leaseId,
              until |-> row.leaseExpiresAt, notBefore |-> row.notBefore, dead |-> row.dead]

Idle(v, s) == [v EXCEPT !.status = s, !.lease = Null, !.until = NoTime]

Believe(v, e) ==
  CASE e.type = "task.enqueued"        -> [NoView EXCEPT !.status = "queued"]
    [] e.type = "task.claimed"         -> [v EXCEPT !.status = "leased", !.attempts = @ + 1,
                                             !.lease = e.lease, !.until = e.until,
                                             !.notBefore = NoTime]
    [] e.type = "task.running"         -> [v EXCEPT !.status = "running"]
    [] e.type = "task.lease_heartbeat" -> [v EXCEPT !.until = e.until]
    [] e.type = "task.lease_expired"   -> [Idle(v, "queued") EXCEPT !.notBefore = e.notBefore]
    [] e.type = "task.dead_lettered"   -> [v EXCEPT !.dead = TRUE, !.notBefore = NoTime]
    [] e.type = "task.requeued_from_dlq" ->
         [Idle(v, "queued") EXCEPT !.dead = FALSE, !.notBefore = e.notBefore,
            !.attempts = IF e.resetAttempts THEN 0 ELSE @]
    [] OTHER                           -> Idle(v, e.to)

\* run.cancelled is the only notice that the open tasks of the run get.
CancelledWith(r, views) ==
  [t \in Tasks |->
     IF RunOf(t) = r /\ views[t].status \notin TerminalTaskStatuses \union {"absent"}
       THEN Idle(views[t], "cancelled") ELSE views[t]]

Hear(s, e) ==
  IF "task" \in DOMAIN e
    THEN [s EXCEPT !.tasks[e.task] = Believe(@, e)]
    ELSE [runs  |-> [s.runs EXCEPT ![e.run] = e.to],
          tasks |-> IF e.type = "run.cancelled" THEN CancelledWith(e.run, s.tasks) ELSE s.tasks]

\* What is believed after the events es by a subscriber who has believed s.
Told(s, es) ==
  LET belief[k \in 0 .. Len(es)] == IF k = 0 THEN s ELSE Hear(belief[k - 1], es[k])
  IN  belief[Len(es)]

\* The transaction inserts these events, then those of recomputeRunStatus for R.
Emit(events, R) == story' = Told(story, events \o StatusChanges(R))

-----------------------------------------------------------------------------
(* The operations with their events.                                         *)

LoggedCreateRun(r) ==
  CreateRun(r) /\ story' = Hear(story, RunEvent("run.created", r, "pending"))

LoggedEnqueue(t) ==
  \/ (EnqueueCheck(t) \/ EnqueueThrows(t)) /\ UNCHANGED story
  \/ \E at \in Stamps : /\ EnqueueTask(t, at)
                        /\ Emit(<<[type |-> "task.enqueued", task |-> t]>>, {RunOf(t)})

LoggedExpire(at) == ExpireLeases(at) /\ Emit(SweepEvents(at), Runs)

\* Mutant of ClaimEvents: the sweep inside the claim stays silent.
ClaimEvents_NoSweep(l, at) ==
  <<[type |-> "task.claimed", task |-> leases'[l].task, lease |-> l, until |-> leases'[l].expiresAt]>>

\* A claim sweeps first and announces that too.
ClaimEvents(l, at) ==
  Append(SweepEvents(at),
         [type |-> "task.claimed", task |-> leases'[l].task, lease |-> l,
          until |-> leases'[l].expiresAt])

LoggedClaim(w) ==
  \E l \in Leases, k \in OptionalTokens, kinds \in KindFilters, ms \in LeaseDurations, at \in Stamps :
    ClaimNextTask(w, l, k, kinds, ms, at) /\ Emit(ClaimEvents(l, at), Runs)

\* heartbeatLease does not recompute the run.
LoggedHeartbeat(t, l, w, at) ==
  \E ms \in LeaseDurations :
    /\ HeartbeatLease(t, l, w, ms, at)
    /\ story' = Hear(story, [type |-> "task.lease_heartbeat", task |-> t, until |-> at + ms])

LoggedHolderStep(t, l, w, at) ==
  \/ LoggedHeartbeat(t, l, w, at)
  \/ MarkTaskRunning(t, l, w, at) /\ Emit(<<[type |-> "task.running", task |-> t]>>, {RunOf(t)})
  \/ \E to \in WaitingTaskStatuses :
       PauseTask(t, l, w, to, at) /\ Emit(<<TaskEvent(PauseEventType[to], t, to)>>, {RunOf(t)})
  \/ ReleaseTask(t, l, w, at) /\ Emit(<<TaskEvent("task.released", t, "queued")>>, {RunOf(t)})
  \/ \E k \in OptionalTokens :
       CompleteTask(t, l, w, k, at) /\ Emit(<<TaskEvent("task.completed", t, "completed")>>, {RunOf(t)})
  \/ \E k \in OptionalTokens :
       FailTask(t, l, w, k, at) /\ Emit(<<TaskEvent("task.failed", t, "failed")>>, {RunOf(t)})

LoggedResume(t) == ResumeTask(t) /\ Emit(<<TaskEvent("task.resumed", t, "queued")>>, {RunOf(t)})

RequeueEvent(t, reset, notBefore) ==
  [type |-> "task.requeued_from_dlq", task |-> t, resetAttempts |-> reset, notBefore |-> notBefore]

LoggedRequeue(t) ==
  \E reset \in BOOLEAN, notBefore \in {NoTime, now + 1} :
    /\ RequeueDeadTask(t, reset, notBefore)
    /\ Emit(<<RequeueEvent(t, reset, notBefore)>>, {RunOf(t)})

\* cancelRun inserts one event for all the rows it changes.
LoggedCancel(r) == CancelRun(r) /\ story' = Hear(story, RunEvent("run.cancelled", r, "cancelled"))

LoggedInit ==
  /\ Init
  /\ story = [runs |-> [r \in Runs |-> "absent"], tasks |-> [t \in Tasks |-> NoView]]

LoggedNext ==
  \/ \E r \in Runs : LoggedCreateRun(r) \/ LoggedCancel(r)
  \/ \E t \in Tasks : LoggedEnqueue(t) \/ LoggedResume(t) \/ LoggedRequeue(t)
  \/ \E w \in Workers : LoggedClaim(w)
  \/ \E t \in Tasks, l \in Leases, w \in Workers, at \in Stamps : LoggedHolderStep(t, l, w, at)
  \/ \E at \in Stamps : LoggedExpire(at)
  \/ (Prune \/ Tick) /\ UNCHANGED story

LoggedSpec == LoggedInit /\ [][LoggedNext]_loggedVars

-----------------------------------------------------------------------------
(* lifecycle.md:66 - "Every state change emits an append-only row": whoever  *)
(* folds the events knows of every run and task that still has rows their    *)
(* status, the attempts charged, the lease and its deadline, the retry delay *)
(* and the dead-letter flag, though cancelRun writes one event for all the   *)
(* rows it changes and a claim also tells what its sweep did.                *)
LogRebuildsTables ==
  /\ \A r \in Runs : runs[r] # "pruned" => story.runs[r] = runs[r]
  /\ \A t \in Tasks : tasks[t].status # "pruned" => story.tasks[t] = View(tasks[t])
=============================================================================
