-------------------------------- MODULE Worker --------------------------------
(***************************************************************************)
(* The polling worker (runWorker in src/src/worker.ts) driving the SQLite  *)
(* store.  Each worker is a process of its own: one loop that claims a     *)
(* task, marks it running, lets the user's handler work while a heartbeat  *)
(* timer extends the lease, and reports the outcome.  Timers, the stop     *)
(* signal, other processes and crashes interleave with all of that.        *)
(*                                                                         *)
(* Between two awaits a worker runs without a pause, but its store calls   *)
(* are transactions of their own: whatever other processes do may come     *)
(* between claimNextTask and markTaskRunning, or between a completeTask    *)
(* that throws and the failTask that follows it.                           *)
(*                                                                         *)
(* Next to the workers one process may run scheduleExpireLeases, and may   *)
(* stop it while leases are out.                                           *)
(*                                                                         *)
(* Abstracted: the pauses between polls and between sweeps (either may     *)
(* come at any time), observers and onError, the payloads of outcomes.     *)
(***************************************************************************)
EXTENDS SqliteStore

CONSTANTS
  LeaseMs,         \* the leaseMs option of runWorker
  DefaultLeaseMs,  \* defaultLeaseMs of the orchestrator
  MinHeartbeatMs,  \* one second
  TimeoutMs,       \* timeoutMs of every task; 0 is none
  DrainMs,         \* the drainTimeoutMs option; NoTime is undefined
  HandlerBeats,    \* the leaseMs the handler passes when it calls heartbeat itself
  BusyErrors,      \* whether a store call may throw SQLITE_BUSY
  PromptTimers,    \* whether timers fire, and turns of the loop end, on time
  SignalAborted,   \* whether the sweeper's signal may be aborted when it starts
  Horizon          \* bound: no worker is stopped or crashes later than this

ASSUME WorkerAssumption ==
  /\ {LeaseMs, DefaultLeaseMs, MinHeartbeatMs, TimeoutMs, Horizon} \subseteq Nat
  /\ DrainMs \in Nat \union {NoTime}
  /\ HandlerBeats \subseteq Nat
  /\ {BusyErrors, PromptTimers, SignalAborted} \subseteq BOOLEAN
  \* What the workers ask of the store is among what the store is asked.
  /\ {LeaseMs, DefaultLeaseMs} \union HandlerBeats \subseteq LeaseDurations
  /\ {} \in KindFilters

VARIABLES
  loop,       \* worker -> where its loop stands
  abandoned,  \* handlers that still run although their loop has moved on
  verdict,    \* lease -> what ended its attempt (history, read by no action)
  sweeper     \* the timer of scheduleExpireLeases: "new", "ticking", "stopped" or "deaf"

workerVars == <<loop, abandoned, verdict, sweeper>>

-----------------------------------------------------------------------------

HeartbeatMs == IF LeaseMs \div 3 > MinHeartbeatMs THEN LeaseMs \div 3 ELSE MinHeartbeatMs

Idle ==
  [pc |-> "polling", task |-> Null, lease |-> Null, stopping |-> FALSE, aborted |-> FALSE,
   nextBeat |-> NoTime, timeoutAt |-> NoTime, drainAt |-> NoTime]

WorkerInit ==
  /\ Init
  /\ loop = [w \in Workers |-> Idle]
  /\ abandoned = {}
  /\ verdict = [l \in Leases |-> Null]
  /\ sweeper = "new"

Due(time) == time # NoTime /\ time =< now

Deadline(ms) == IF ms = NoTime THEN NoTime ELSE now + ms

Alive(w) == loop[w].pc \notin {"stopped", "crashed"}

\* runOneTask returns: timers cleared, listeners detached.
Returned(w) == [loop EXCEPT ![w] = [Idle EXCEPT !.stopping = loop[w].stopping]]

\* A call about w's task throws and writes nothing.
Throws(w, at) ==
  /\ BusyErrors \/ ~ AssertActiveLease(loop[w].task, loop[w].lease, w, at)
  /\ UNCHANGED vars

-----------------------------------------------------------------------------
(* The loop.                                                                 *)

\* claimNextTask returned a task.  A poll that finds nothing, or throws, only
\* puts the loop to sleep.
Poll(w, at) ==
  /\ loop[w].pc = "polling"
  /\ ~ loop[w].stopping
  /\ \E l \in Leases :
       /\ ClaimNextTask(w, l, Null, {}, LeaseMs, at)
       /\ loop' = [loop EXCEPT ![w] = [@ EXCEPT !.pc = "claimed", !.lease = l,
                                                !.task = leases'[l].task]]
  /\ UNCHANGED <<abandoned, verdict, sweeper>>

\* while (!signal.aborted) ends.
Exit(w) ==
  /\ loop[w].pc = "polling"
  /\ loop[w].stopping
  /\ loop' = [loop EXCEPT ![w].pc = "stopped"]
  /\ UNCHANGED <<vars, abandoned, verdict, sweeper>>

\* Mutant of StartHandling: the drain watchdog misses a stop that came before.
StartHandling_NoWatchdog(w, at) ==
  /\ loop[w].pc = "claimed"
  /\ MarkTaskRunning(loop[w].task, loop[w].lease, w, at)
  /\ loop' = [loop EXCEPT ![w] =
       [@ EXCEPT !.pc = "handling",
                 !.aborted = loop[w].stopping,
                 !.nextBeat = now + HeartbeatMs,
                 !.timeoutAt = IF TimeoutMs > 0 THEN now + TimeoutMs ELSE NoTime]]
  /\ UNCHANGED <<abandoned, verdict, sweeper>>

\* markTaskRunning succeeds; the timers are armed and the handler starts.
StartHandling(w, at) ==
  /\ loop[w].pc = "claimed"
  /\ MarkTaskRunning(loop[w].task, loop[w].lease, w, at)
  /\ loop' = [loop EXCEPT ![w] =
       [@ EXCEPT !.pc = "handling",
                 !.aborted = loop[w].stopping,
                 !.nextBeat = now + HeartbeatMs,
                 !.timeoutAt = IF TimeoutMs > 0 THEN now + TimeoutMs ELSE NoTime,
                 !.drainAt = IF loop[w].stopping THEN Deadline(DrainMs) ELSE NoTime]]
  /\ UNCHANGED <<abandoned, verdict, sweeper>>

\* markTaskRunning throws: the lease is left to expire.
StartFails(w, at) ==
  /\ loop[w].pc = "claimed"
  /\ Throws(w, at)
  /\ loop' = Returned(w)
  /\ UNCHANGED <<abandoned, verdict, sweeper>>

-----------------------------------------------------------------------------
(* While the handler works.                                                  *)

\* Mutant of Heartbeat: a timeout instead of an interval, it fires only once.
Heartbeat_Once(w, at) ==
  /\ loop[w].pc = "handling"
  /\ Due(loop[w].nextBeat)
  /\ loop' = [loop EXCEPT ![w].nextBeat = NoTime]
  /\ \/ ~ loop[w].aborted /\ HeartbeatLease(loop[w].task, loop[w].lease, w, DefaultLeaseMs, at)
     \/ loop[w].aborted /\ UNCHANGED vars
     \/ Throws(w, at)
  /\ UNCHANGED <<abandoned, verdict, sweeper>>

\* The interval timer.  It calls heartbeatLease without leaseMs, so the store
\* gets the orchestrator's default; and not at all once the signal is aborted.
Heartbeat(w, at) ==
  /\ loop[w].pc = "handling"
  /\ Due(loop[w].nextBeat)
  /\ loop' = [loop EXCEPT ![w].nextBeat = now + HeartbeatMs]
  /\ \/ ~ loop[w].aborted /\ HeartbeatLease(loop[w].task, loop[w].lease, w, DefaultLeaseMs, at)
     \/ loop[w].aborted /\ UNCHANGED vars
     \/ Throws(w, at)
  /\ UNCHANGED <<abandoned, verdict, sweeper>>

\* The handler calls heartbeat(), aborted or not; one that throws is no step.
HandlerHeartbeat(w, at) ==
  /\ loop[w].pc = "handling"
  /\ \E ms \in HandlerBeats : HeartbeatLease(loop[w].task, loop[w].lease, w, ms, at)
  /\ UNCHANGED workerVars

Outcomes == {"completed", "failed", "paused", "released", "threw"}

\* applyResult, or the failTask for a handler that threw.
Report(w, outcome, at) ==
  LET t == loop[w].task
      l == loop[w].lease
  IN  \/ outcome = "completed" /\ CompleteTask(t, l, w, Null, at)
      \/ outcome \in {"failed", "threw"} /\ FailTask(t, l, w, Null, at)
      \/ outcome = "paused" /\ \E to \in WaitingTaskStatuses : PauseTask(t, l, w, to, at)
      \/ outcome = "released" /\ ReleaseTask(t, l, w, at)

Settled(w, outcome) ==
  /\ loop[w].pc = "handling"
  /\ verdict' = [verdict EXCEPT ![loop[w].lease] = outcome]
  /\ UNCHANGED <<abandoned, sweeper>>

HandlerSettles(w, outcome, at) ==
  /\ Settled(w, outcome)
  /\ Report(w, outcome, at)
  /\ loop' = Returned(w)

\* The report of an outcome throws: the catch block reports a failure instead,
\* except that the failTask for a handler that threw is not repeated.
ReportFails(w, outcome, at) ==
  /\ Settled(w, outcome)
  /\ Throws(w, at)
  /\ loop' = IF outcome = "threw" THEN Returned(w) ELSE [loop EXCEPT ![w].pc = "failing"]

FailInstead(w, at) ==
  /\ loop[w].pc = "failing"
  /\ FailTask(loop[w].task, loop[w].lease, w, Null, at) \/ Throws(w, at)
  /\ loop' = Returned(w)
  /\ UNCHANGED <<abandoned, verdict, sweeper>>

-----------------------------------------------------------------------------
(* Timers that overtake the handler; it goes on running without its loop.    *)

Abandon(w, cause) ==
  /\ loop' = Returned(w)
  /\ abandoned' = abandoned \union {[worker |-> w, task |-> loop[w].task, lease |-> loop[w].lease]}
  /\ verdict' = [verdict EXCEPT ![loop[w].lease] = cause]
  /\ UNCHANGED sweeper

\* Mutant of TimesOut: gives the handler up without telling the store.
TimesOut_Silently(w, at) ==
  /\ loop[w].pc = "handling"
  /\ Due(loop[w].timeoutAt)
  /\ UNCHANGED vars
  /\ Abandon(w, "timeout")

TimesOut(w, at) ==
  /\ loop[w].pc = "handling"
  /\ Due(loop[w].timeoutAt)
  /\ FailTask(loop[w].task, loop[w].lease, w, Null, at) \/ Throws(w, at)
  /\ Abandon(w, "timeout")

\* Mutant of DrainsOut: a drained task is failed instead of released.
DrainsOut_Fails(w, at) ==
  /\ loop[w].pc = "handling"
  /\ Due(loop[w].drainAt)
  /\ FailTask(loop[w].task, loop[w].lease, w, Null, at) \/ Throws(w, at)
  /\ Abandon(w, "drain")

\* Mutant of DrainsOut: the worker leaves without releasing the task.
DrainsOut_KeepsLease(w, at) ==
  /\ loop[w].pc = "handling"
  /\ Due(loop[w].drainAt)
  /\ UNCHANGED vars
  /\ Abandon(w, "drain")

DrainsOut(w, at) ==
  /\ loop[w].pc = "handling"
  /\ Due(loop[w].drainAt)
  /\ ReleaseTask(loop[w].task, loop[w].lease, w, at) \/ Throws(w, at)
  /\ Abandon(w, "drain")

\* The context of an abandoned handler still offers heartbeat().
AbandonedHeartbeat(h, at) ==
  /\ \E ms \in HandlerBeats : HeartbeatLease(h.task, h.lease, h.worker, ms, at)
  /\ UNCHANGED workerVars

AbandonedEnds(h) ==
  /\ abandoned' = abandoned \ {h}
  /\ UNCHANGED <<vars, loop, verdict, sweeper>>

-----------------------------------------------------------------------------
(* What happens to a worker from outside.                                    *)

\* stop(), the external signal, SIGINT or SIGTERM: aborts the handler's signal
\* too and, if a handler is running, starts the drain timer.  Between a claim and
\* its handler nothing is awaited: only an observer can call stop() there.
Stop(w) ==
  /\ Alive(w)
  /\ now =< Horizon
  /\ ~ loop[w].stopping
  /\ loop' = [loop EXCEPT ![w] =
       IF loop[w].pc = "handling"
         THEN [@ EXCEPT !.stopping = TRUE, !.aborted = TRUE, !.drainAt = Deadline(DrainMs)]
         ELSE [@ EXCEPT !.stopping = TRUE]]
  /\ UNCHANGED <<vars, abandoned, verdict, sweeper>>

Crash(w) ==
  /\ Alive(w)
  /\ now =< Horizon
  /\ loop' = [loop EXCEPT ![w] = [Idle EXCEPT !.pc = "crashed"]]
  /\ abandoned' = {h \in abandoned : h.worker # w}
  /\ UNCHANGED <<vars, verdict, sweeper>>

\* Only the workers W in the process that calls cancelRun hear run.cancelled.
CancelHeardBy(r, W) ==
  /\ CancelRun(r)
  /\ loop' = [w \in Workers |->
       IF w \in W /\ loop[w].pc = "handling" /\ RunOf(loop[w].task) = r
         THEN [loop[w] EXCEPT !.aborted = TRUE] ELSE loop[w]]
  /\ UNCHANGED <<abandoned, verdict, sweeper>>

-----------------------------------------------------------------------------
(* Who expires leases.                                                       *)

\* A poll that finds nothing to claim has expired what was due all the same.
IdlePoll(w, at) ==
  /\ loop[w].pc = "polling"
  /\ ~ loop[w].stopping
  /\ LET T == TasksAfterExpiry(at)
         R == Recompute({RunOf(t) : t \in Expired(at)}, T)
     IN  \A t \in Tasks : ~ Claimable(t, {}, at, T, R)
  /\ ExpireLeases(at)
  /\ UNCHANGED workerVars

\* The listener that clears the timer and resolves `stopped' is attached last: a
\* signal that is aborted by then is never heard, and each tick returns at once.
SweeperStarts(aborted) ==
  /\ sweeper = "new"
  /\ sweeper' = IF aborted THEN "deaf" ELSE "ticking"
  /\ UNCHANGED <<vars, loop, abandoned, verdict>>

\* A tick that finds nothing, or throws, only waits for the next one.
SweeperTicks ==
  /\ sweeper = "ticking"
  /\ Expire
  /\ UNCHANGED workerVars

\* stop(), the signal, SIGINT, SIGTERM or the end of the process.
SweeperStops ==
  /\ sweeper = "ticking"
  /\ now =< Horizon
  /\ sweeper' = "stopped"
  /\ UNCHANGED <<vars, loop, abandoned, verdict>>

Sweeper ==
  \/ \E aborted \in {FALSE, SignalAborted} : SweeperStarts(aborted)
  \/ SweeperTicks
  \/ SweeperStops

Client ==
  /\ \/ \E r \in Runs : CreateRun(r)
     \/ \E t \in Tasks : Enqueue(t) \/ OperatorStep(t)
     \/ Prune
  /\ UNCHANGED workerVars

\* Something that PromptTimers says does not wait.
Overdue ==
  \E w \in Workers :
    \/ loop[w].pc \in {"claimed", "failing"}
    \/ Due(loop[w].nextBeat) \/ Due(loop[w].timeoutAt) \/ Due(loop[w].drainAt)

TimePasses ==
  /\ Tick
  /\ PromptTimers => ~ Overdue
  /\ UNCHANGED workerVars

-----------------------------------------------------------------------------

Starts(w)     == \E at \in Stamps : StartHandling(w, at) \/ StartFails(w, at)
TimerFires(w) == \E at \in Stamps : Heartbeat(w, at) \/ TimesOut(w, at) \/ DrainsOut(w, at)
Recovers(w)   == \E at \in Stamps : FailInstead(w, at)

HandlerStep(w) ==
  \E at \in Stamps :
    \/ HandlerHeartbeat(w, at)
    \/ \E o \in Outcomes : HandlerSettles(w, o, at) \/ ReportFails(w, o, at)

AbandonedStep(h) == AbandonedEnds(h) \/ \E at \in Stamps : AbandonedHeartbeat(h, at)

WorkerNext ==
  \/ \E w \in Workers : \/ \E at \in Stamps : Poll(w, at) \/ IdlePoll(w, at)
                        \/ Exit(w) \/ Starts(w) \/ TimerFires(w) \/ Recovers(w)
                        \/ HandlerStep(w) \/ Stop(w) \/ Crash(w)
  \/ \E h \in abandoned : AbandonedStep(h)
  \/ \E r \in Runs, W \in {{}} \union {{w} : w \in Workers} : CancelHeardBy(r, W)
  \/ Sweeper
  \/ Client
  \/ TimePasses

\* The event loop of a live worker gets round to its turns and its timers, the
\* clock goes on, and the sweeper ticks until it is stopped.  Handlers may hang
\* and nobody need poll, stop, cancel, resume or requeue.
WorkerFairness ==
  /\ \A w \in Workers : /\ WF_<<vars, workerVars>>(Exit(w))
                        /\ WF_<<vars, workerVars>>(Starts(w))
                        /\ WF_<<vars, workerVars>>(Recovers(w))
                        /\ WF_<<vars, workerVars>>(\E at \in Stamps : DrainsOut(w, at))
                        /\ WF_<<vars, workerVars>>(\E at \in Stamps : TimesOut(w, at))
                        /\ WF_<<vars, workerVars>>(\E at \in Stamps : Heartbeat(w, at))
  /\ WF_<<vars, workerVars>>(TimePasses)
  /\ WF_<<vars, workerVars>>(SweeperTicks)

WorkerSpec == WorkerInit /\ [][WorkerNext]_<<vars, workerVars>> /\ WorkerFairness
=============================================================================
