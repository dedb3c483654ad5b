---------------------------- MODULE MCSqliteStore ----------------------------
(***************************************************************************)
(* Small instances of SqliteStore for TLC.                                 *)
(***************************************************************************)
EXTENDS StoreRefinement, TLC

CONSTANTS r1, r2, t1, t2, t3

NoRetry  == [delayMs |-> 0, backoff |-> "fixed", maxDelayMs |-> 0]
Doubling == [delayMs |-> 1, backoff |-> "exponential", maxDelayMs |-> 2]
Unbounded == [delayMs |-> 1, backoff |-> "exponential", maxDelayMs |-> 0]

Task(run, dependsOn, maxAttempts, retry) ==
  [run |-> run, key |-> Null, kind |-> "build", priority |-> 0,
   dependsOn |-> dependsOn, maxAttempts |-> maxAttempts, retry |-> retry]

\* A dependent pair: t2 waits for t1, which may be retried once.
PairInput == t1 :> Task(r1, {}, 2, Doubling) @@ t2 :> Task(r1, {t1}, 1, NoRetry)

\* Two runs; t1 and t2 share a key, t3 is alone, urgent and of another kind.
TwoRunInput ==
  t1 :> [Task(r1, {}, Null, NoRetry) EXCEPT !.key = "k"] @@
  t2 :> [Task(r1, {}, 1, NoRetry) EXCEPT !.key = "k"] @@
  t3 :> [Task(r2, {}, 1, NoRetry) EXCEPT !.kind = "deploy", !.priority = 1]

\* One task that may be attempted without end, its delay doubling uncapped.
PatientInput == t1 :> Task(r1, {}, Null, Unbounded)

\* One task with one attempt.
OneShotInput == t1 :> Task(r1, {}, 1, NoRetry)

\* One task that may be retried after a delay.
RetriedInput == t1 :> Task(r1, {}, 2, Doubling)

AnyKind  == {{}}
BuildOrAny == {{}, {"build"}}
OneUnit  == {1}
TerminalOnly == {TerminalRunStatuses}
AlsoActive   == {TerminalRunStatuses, {"active"}}

LeaseSymmetry == Permutations(Leases) \union Permutations(Workers)
TokenSymmetry == LeaseSymmetry \union Permutations(Tokens)

-----------------------------------------------------------------------------
(* Liveness.  Time is bounded, so the clock only runs while a timer is       *)
(* pending, and heartbeats stop at HeartbeatHorizon: a worker that goes on   *)
(* forever keeps its lease forever, which is what a heartbeat is for.        *)

CONSTANT HeartbeatHorizon

TimerPending ==
  \E t \in Tasks : \/ tasks[t].leaseExpiresAt >= now
                   \/ tasks[t].status = "queued" /\ tasks[t].notBefore > now

Heartbeat ==
  \E t \in Tasks : /\ tasks'[t].leaseId = tasks[t].leaseId
                   /\ tasks'[t].leaseExpiresAt > tasks[t].leaseExpiresAt

LiveNext == /\ Next
            /\ now' # now => TimerPending
            /\ Heartbeat => now < HeartbeatHorizon

\* Some process runs expireLeases on a timer (scheduleExpireLeases, worker.ts)
\* and some worker polls claimNextTask (runWorker); nobody is assumed to
\* heartbeat, complete, fail, pause, resume, requeue, cancel or prune.
LiveSpec == /\ Init /\ [][LiveNext]_vars
            /\ WF_vars(Tick /\ TimerPending)
            /\ WF_vars(Expire)
            /\ WF_vars(\E w \in Workers : Claim(w))
=============================================================================
