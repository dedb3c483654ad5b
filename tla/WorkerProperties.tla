--------------------------- MODULE WorkerProperties ---------------------------
(***************************************************************************)
(* What runWorker must guarantee together with the store it drives.        *)
(***************************************************************************)
EXTENDS Worker

\* w could still report the outcome of the handler it runs.
OwnsTask(w) == AssertActiveLease(loop[w].task, loop[w].lease, w, now)

\* The run was cancelled, and perhaps pruned since.
CalledOff(w) == leases[loop[w].lease].status \in {"cancelled", "pruned"}

(* A handler that was not told to stop owns its task: the heartbeat keeps    *)
(* the lease alive for as long as the handler works, so no second worker     *)
(* starts the task meanwhile (authoring-adapters.md:55 - "heartbeat at least *)
(* every `leaseMs/3`. `runWorker` does this for you.").                      *)
HandlerOwnsTask ==
  \A w \in Workers : loop[w].pc = "handling" /\ ~ loop[w].aborted => OwnsTask(w) \/ CalledOff(w)

(* README.md:360 - stop() with a drain timeout "gives the handler that long  *)
(* to finish": within the grace period the task is still the handler's, and  *)
(* its outcome still counts.                                                 *)
GraceKeepsTask ==
  \A w \in Workers : loop[w].pc = "handling" /\ loop[w].stopping => OwnsTask(w) \/ CalledOff(w)

(* What the store recorded for an attempt is what its handler said, or what  *)
(* the timer that overtook it stands for, whatever raced with the report.    *)
VerdictIsRecorded ==
  \A l \in Leases :
    /\ attempts[l] = "completed" => verdict[l] = "completed"
    /\ attempts[l] = "failed"    => verdict[l] \in {"failed", "threw", "timeout"}
    /\ attempts[l] = "released"  => verdict[l] \in {"paused", "released", "drain"}

(* A worker that stopped in good order leaves no task waiting for a lease to *)
(* run out: its last lease is returned, or already past its deadline.        *)
StoppedLeavesNoLease ==
  \A w \in Workers, l \in Leases :
    loop[w].pc = "stopped" /\ leases[l].worker = w /\ leases[l].status = "active" =>
      leases[l].expiresAt < now

(* A handler whose loop has moved on can no longer extend or end a lease,    *)
(* even when the same worker holds the same task again.                      *)
AbandonedIsPowerless ==
  \A h \in abandoned : ~ AssertActiveLease(h.task, h.lease, h.worker, now)

(* stop() with a drain timeout gets the worker to exit, whatever its handler *)
(* does and whenever the stop came.                                          *)
StopReturns == \A w \in Workers : loop[w].stopping ~> ~ Alive(w)

(* failure-modes.md:30 - the lease of a worker that crashed expires, however *)
(* far the worker had got, for as long as a sweeper runs.                    *)
DeadWorkerLosesLease ==
  \A w \in Workers, l \in Leases :
    loop[w].pc = "crashed" /\ leases[l].worker = w /\ sweeper = "ticking" ~>
      leases[l].status # "active" \/ sweeper = "stopped"

(* worker.ts:607 - `stopped' "Resolves when the timer has fully exited after *)
(* `stop()` / `signal` abort": a sweeper whose signal is aborted stops.      *)
AbortedSweeperStops == sweeper = "deaf" ~> sweeper = "stopped"
=============================================================================
