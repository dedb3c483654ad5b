----------------------------- MODULE WorkerProofs -----------------------------
(***************************************************************************)
(* Machine-checked proofs about runWorker and the store it drives, for any *)
(* number of workers, tasks and leases and any durations.                  *)
(*                                                                         *)
(* Three layers, each with its invariant:                                  *)
(*   WorkerInv  what a loop remembers about its lease is what the store    *)
(*              has, so every call it makes is an operation of the store;  *)
(*   CalmInv    who has let go of a task can no longer touch it, when      *)
(*              calls do not throw SQLITE_BUSY and stamps are fresh;       *)
(*   BeatInv    the next heartbeat comes before the lease ends, when       *)
(*              timers are prompt and the durations are in proportion.     *)
(***************************************************************************)
EXTENDS WorkerProperties, TableProofs

Busy(w) == loop[w].pc \in {"claimed", "handling", "failing"}

Reported == {"completed", "failed", "released"}

LoopRows ==
  [pc : {"polling", "claimed", "handling", "failing", "stopped", "crashed"},
   task : Tasks \union {Null}, lease : Leases \union {Null},
   stopping : BOOLEAN, aborted : BOOLEAN, nextBeat : Int, timeoutAt : Int, drainAt : Int]

WorkerTypeOK ==
  /\ loop \in [Workers -> LoopRows]
  /\ abandoned \subseteq [worker : Workers, task : Tasks, lease : Leases]
  /\ verdict \in [Leases -> Outcomes \union {"timeout", "drain", Null}]

\* As far as L still has a row for it, lease l is w's lease on t.
NamesIn(L, l, t, w) ==
  /\ l \in Leases /\ t \in Tasks
  /\ L[l].status # "absent"
  /\ L[l].status \in LeaseStatuses => L[l].task = t /\ L[l].worker = w

Names(l, t, w) == NamesIn(leases, l, t, w)

BusyNames ==
  \A w \in Workers : Busy(w) =>
    Names(loop[w].lease, loop[w].task, w) /\ attempts[loop[w].lease] \notin Reported

AbandonedNames == \A h \in abandoned : Names(h.lease, h.task, h.worker)

\* No two loops, and no loop and a handler it abandoned, act on one lease.
OwnLeases ==
  /\ \A v, w \in Workers : v # w /\ Busy(v) /\ Busy(w) => loop[v].lease # loop[w].lease
  /\ \A w \in Workers : Busy(w) => \A h \in abandoned : h.lease # loop[w].lease

WorkerInv == IInv /\ WorkerTypeOK /\ BusyNames /\ AbandonedNames /\ OwnLeases

-----------------------------------------------------------------------------

\* Store calls throw for their own reasons only, and carry the time they run at.
Calm == ~ BusyErrors /\ MaxLag = 0

\* Nobody can extend or end lease l any more.
Spent(l) == leases[l].status = "active" => leases[l].expiresAt < now

AbandonedSpent == \A h \in abandoned : Spent(h.lease)

FailingSpent == \A w \in Workers : loop[w].pc = "failing" => Spent(loop[w].lease)

\* A live worker holds no lease but the one its loop is busy with.
AccountedFor(l, w) ==
  /\ leases[l].worker = w
  /\ loop[w].pc = "crashed" \/ (Busy(w) /\ loop[w].lease = l)

LeasesAccounted == \A l \in Leases : Spent(l) \/ \E w \in Workers : AccountedFor(l, w)

CalmInv ==
  WorkerInv /\ AbandonedSpent /\ FailingSpent /\ LeasesAccounted /\ VerdictIsRecorded

-----------------------------------------------------------------------------

\* Every duration that sets a deadline covers the time to the next heartbeat.
Proportionate ==
  /\ PromptTimers
  /\ \A ms \in {LeaseMs, DefaultLeaseMs} \union HandlerBeats : HeartbeatMs =< ms

\* The lease runs at least until e.
RunsUntil(l, e) == leases[l].status = "active" /\ leases[l].expiresAt >= e

\* It does, unless the run was cancelled.
Covered(l, e) == leases[l].status \in {"cancelled", "pruned"} \/ RunsUntil(l, e)

\* The loop of w will beat before its lease ends.
InTime(w) ==
  /\ loop[w].pc = "claimed" => Covered(loop[w].lease, now + HeartbeatMs)
  /\ loop[w].pc = "handling" /\ ~ loop[w].aborted =>
       /\ now =< loop[w].nextBeat /\ loop[w].nextBeat =< now + HeartbeatMs
       /\ Covered(loop[w].lease, loop[w].nextBeat)

BeatInTime == \A w \in Workers : InTime(w)

BeatInv == CalmInv /\ BeatInTime

(***************************************************************************)
(* What a step does to the leases, as the loops see it.                    *)
(***************************************************************************)

LeaseSame(l) == leases'[l] = leases[l] /\ attempts'[l] = attempts[l]

\* Lease l is not touched, or taken away: by expiry, cancelRun or pruneRuns.
Outside(l) ==
  \/ leases'[l] = leases[l] /\ attempts'[l] \in {attempts[l], "running"}
  \/ /\ leases[l].status = "active"
     /\ leases'[l].status \in {"expired", "cancelled"}
     /\ leases'[l].status = "expired" => leases[l].expiresAt < now
     /\ leases'[l].task = leases[l].task /\ leases'[l].worker = leases[l].worker
     /\ attempts'[l] \notin Reported
  \/ /\ leases[l].status \in LeaseStatuses
     /\ leases'[l].status = "pruned" /\ attempts'[l] = "pruned"

Quiet == \A l \in Leases : Outside(l)

\* w's lease l on t can be used at time at.
Usable(t, l, w, at) ==
  /\ leases[l].status = "active" /\ leases[l].task = t /\ leases[l].worker = w
  /\ leases[l].expiresAt >= at

Granted(l, w, at) ==
  /\ leases[l].status = "absent"
  /\ leases'[l].status = "active" /\ leases'[l].task \in Tasks /\ leases'[l].worker = w
  /\ leases'[l].expiresAt = at + LeaseMs
  /\ attempts'[l] = "leased"
  /\ \A m \in Leases : m # l => Outside(m)

Extended(t, l, w, ms, at) ==
  /\ Usable(t, l, w, at)
  /\ leases'[l].status = "active" /\ leases'[l].task = t /\ leases'[l].worker = w
  /\ leases'[l].expiresAt = at + ms
  /\ attempts'[l] = attempts[l]
  /\ \A m \in Leases : m # l => LeaseSame(m)

Released(t, l, w, at, a) ==
  /\ Usable(t, l, w, at)
  /\ leases'[l].status = "released" /\ leases'[l].task = t /\ leases'[l].worker = w
  /\ attempts'[l] = a
  /\ \A m \in Leases : m # l => LeaseSame(m)

(* assertActiveLease reads the task row as well as the lease row, but the    *)
(* lease row decides.                                                        *)
LEMMA LeaseDecides ==
  ASSUME IInv, NEW t \in Tasks, NEW l \in Leases, NEW w \in Workers, NEW at
  PROVE  AssertActiveLease(t, l, w, at) <=> Usable(t, l, w, at)
<1>1. ASSUME AssertActiveLease(t, l, w, at) PROVE Usable(t, l, w, at)
  BY <1>1, HolderFacts DEF IInv, HoldsLease, AssertActiveLease, Usable
<1>2. ASSUME Usable(t, l, w, at) PROVE AssertActiveLease(t, l, w, at)
  <2>1. tasks[t].status \in HeldStatuses /\ tasks[t].leaseId = l
    BY <1>2 DEF IInv, LeaseAgreement, ActiveLeaseIsHeld, Usable
  <2>2. tasks[t].leasedBy = w /\ tasks[t].leaseExpiresAt = leases[l].expiresAt
    BY <1>2, <2>1 DEF IInv, LeaseAgreement, HeldTaskHasItsLease, Usable
  <2> QED
    BY <1>2, <2>1, <2>2 DEF AssertActiveLease, Usable
<1> QED
  BY <1>1, <1>2

LEMMA SameIsQuiet ==
  ASSUME leases' = leases, attempts' = attempts
  PROVE  Quiet /\ \A l \in Leases : LeaseSame(l)
  BY DEF Quiet, Outside, LeaseSame

LEMMA CancelIsQuiet ==
  ASSUME IInv, NEW r \in Runs, CancelRun(r)
  PROVE  Quiet
<1> SUFFICES ASSUME NEW l \in Leases PROVE Outside(l)
  BY DEF Quiet
<1>1. leases[l] \in LeaseRows
  BY DEF IInv, TypeOK
<1>2. attempts[l] \in HeldStatuses <=> leases[l].status = "active"
  BY DEF IInv, LeaseAgreement, OpenAttemptHasActiveLease
<1>3. /\ leases'[l] = IF leases[l].status = "active" /\ RunOf(leases[l].task) = r
                        THEN [leases[l] EXCEPT !.status = "cancelled"] ELSE leases[l]
      /\ attempts'[l] = IF attempts[l] \in HeldStatuses /\ RunOf(leases[l].task) = r
                          THEN "cancelled" ELSE attempts[l]
  BY DEF CancelRun
<1>4. CASE leases[l].status = "active" /\ RunOf(leases[l].task) = r
  BY <1>1, <1>2, <1>3, <1>4 DEF Outside, LeaseRows, Reported
<1>5. CASE ~ (leases[l].status = "active" /\ RunOf(leases[l].task) = r)
  BY <1>2, <1>3, <1>5 DEF Outside
<1> QED
  BY <1>4, <1>5

LEMMA PruneIsQuiet ==
  ASSUME NEW statuses, NEW R, PruneRuns(statuses, R)
  PROVE  Quiet
  BY PruneFacts DEF Quiet, Outside

LEMMA ExpireIsQuiet ==
  ASSUME IInv, NEW at \in Stamps, ExpireLeases(at)
  PROVE  Quiet
  BY ExpiryRows DEF Quiet, Outside, ExpireLeases, Reported

LEMMA MarkRunningIsQuiet ==
  ASSUME IInv, NEW t \in Tasks, NEW l \in Leases, NEW w \in Workers, NEW at,
         MarkTaskRunning(t, l, w, at)
  PROVE  Quiet /\ leases' = leases
<1>1. leases' = leases /\ \A m \in Leases : attempts'[m] \in {attempts[m], "running"}
  BY DEF MarkTaskRunning, IInv, TypeOK
<1> QED
  BY <1>1 DEF Quiet, Outside

LEMMA ClaimGives ==
  ASSUME IInv, NEW w \in Workers, NEW l \in Leases, NEW k \in OptionalTokens, NEW kinds,
         NEW at \in Stamps, ClaimNextTask(w, l, k, kinds, LeaseMs, at)
  PROVE  Granted(l, w, at)
<1>1. LeasesAfterExpiry(at) \in [Leases -> LeaseRows]
      /\ AttemptsAfterExpiry(at) \in [Leases -> AttemptStatuses \union NoRow]
  BY ExpiryType DEF IInv
<1>2. PICK t \in Tasks :
        /\ leases' = [LeasesAfterExpiry(at) EXCEPT
                        ![l] = [status |-> "active", task |-> t, worker |-> w,
                                expiresAt |-> at + LeaseMs, token |-> k]]
        /\ attempts' = [AttemptsAfterExpiry(at) EXCEPT ![l] = "leased"]
  BY DEF ClaimNextTask
<1>3. /\ leases'[l].status = "active" /\ leases'[l].task = t /\ leases'[l].worker = w
      /\ leases'[l].expiresAt = at + LeaseMs /\ attempts'[l] = "leased"
      /\ \A m \in Leases : m # l => /\ leases'[m] = LeasesAfterExpiry(at)[m]
                                    /\ attempts'[m] = AttemptsAfterExpiry(at)[m]
  BY <1>1, <1>2
<1>4. \A m \in Leases : m # l => Outside(m)
  BY <1>3, ExpiryRows DEF Outside, Reported
<1>5. leases[l].status = "absent"
  BY DEF ClaimNextTask
<1> QED
  BY <1>3, <1>4, <1>5 DEF Granted

LEMMA HeartbeatExtends ==
  ASSUME IInv, NEW t \in Tasks, NEW l \in Leases, NEW w \in Workers, NEW ms, NEW at,
         HeartbeatLease(t, l, w, ms, at)
  PROVE  Extended(t, l, w, ms, at)
<1>1. Usable(t, l, w, at)
  BY LeaseDecides DEF HeartbeatLease
<1>2. leases \in [Leases -> LeaseRows]
  BY DEF IInv, TypeOK
<1>3. /\ leases'[l].expiresAt = at + ms
      /\ leases'[l].status = leases[l].status /\ leases'[l].task = leases[l].task
      /\ leases'[l].worker = leases[l].worker
      /\ attempts' = attempts
      /\ \A m \in Leases : m # l => leases'[m] = leases[m]
  BY <1>2 DEF HeartbeatLease, LeaseRows
<1> QED
  BY <1>1, <1>3 DEF Extended, Usable, LeaseSame

LEMMA EndLeaseReleases ==
  ASSUME IInv, NEW t \in Tasks, NEW l \in Leases, NEW w \in Workers, NEW at, NEW to, NEW a,
         EndLease(t, l, w, at, to, a)
  PROVE  Released(t, l, w, at, a)
<1>1. Usable(t, l, w, at)
  BY LeaseDecides DEF EndLease
<1>2. leases \in [Leases -> LeaseRows] /\ attempts \in [Leases -> AttemptStatuses \union NoRow]
  BY DEF IInv, TypeOK
<1>3. /\ leases'[l].status = "released" /\ leases'[l].task = leases[l].task
      /\ leases'[l].worker = leases[l].worker /\ attempts'[l] = a
      /\ \A m \in Leases : m # l => leases'[m] = leases[m] /\ attempts'[m] = attempts[m]
  BY <1>2 DEF EndLease, LeaseRows
<1> QED
  BY <1>1, <1>3 DEF Released, Usable, LeaseSame

(***************************************************************************)
(* The steps of WorkerNext, by what they mean to the loops.                *)
(***************************************************************************)

OthersRest(w) == \A v \in Workers : v # w => loop'[v] = loop[v]

\* The loop goes on with the same lease.
KeepsLease(w) == loop'[w].task = loop[w].task /\ loop'[w].lease = loop[w].lease

\* It crashes, or had no lease, or nothing but a signal reaches it.
LoopRests(w) ==
  \/ loop'[w].pc = "crashed"
  \/ /\ ~ Busy(w) /\ loop[w].pc # "crashed" /\ loop'[w].pc \in {"polling", "stopped"}
  \/ /\ loop'[w].pc = loop[w].pc /\ KeepsLease(w)
     /\ loop'[w].nextBeat = loop[w].nextBeat
     /\ loop[w].aborted => loop'[w].aborted

\* A tick waits for what is overdue.
ClockRests == \/ now' = now
              \/ now' = now + 1 /\ (PromptTimers => ~ Overdue)

Rests ==
  /\ Quiet
  /\ \A w \in Workers : LoopRests(w)
  /\ abandoned' \subseteq abandoned
  /\ verdict' = verdict
  /\ ClockRests

Claims(w, l, at) ==
  /\ loop[w].pc = "polling"
  /\ Granted(l, w, at)
  /\ loop'[w].pc = "claimed" /\ loop'[w].lease = l /\ loop'[w].task = leases'[l].task
  /\ OthersRest(w)
  /\ UNCHANGED <<now, abandoned, verdict>>

Begins(w, at) ==
  /\ loop[w].pc = "claimed"
  /\ Quiet /\ leases' = leases
  /\ Usable(loop[w].task, loop[w].lease, w, at)
  /\ loop'[w].pc = "handling" /\ KeepsLease(w) /\ loop'[w].nextBeat = now + HeartbeatMs
  /\ OthersRest(w)
  /\ UNCHANGED <<now, abandoned, verdict>>

Beats(w, ms, at) ==
  /\ loop[w].pc = "handling"
  /\ Extended(loop[w].task, loop[w].lease, w, ms, at)
  /\ loop'[w].pc = "handling" /\ KeepsLease(w) /\ loop'[w].aborted = loop[w].aborted
  /\ loop'[w].nextBeat \in {loop[w].nextBeat, now + HeartbeatMs}
  /\ OthersRest(w)
  /\ UNCHANGED <<now, abandoned, verdict>>

BeatsInVain(w, at) ==
  /\ loop[w].pc = "handling"
  /\ \A l \in Leases : LeaseSame(l)
  /\ loop[w].aborted \/ BusyErrors \/ ~ Usable(loop[w].task, loop[w].lease, w, at)
  /\ loop'[w].pc = "handling" /\ KeepsLease(w) /\ loop'[w].aborted = loop[w].aborted
  /\ loop'[w].nextBeat = now + HeartbeatMs
  /\ OthersRest(w)
  /\ UNCHANGED <<now, abandoned, verdict>>

AbandonedBeats(h, ms, at) ==
  /\ Extended(h.task, h.lease, h.worker, ms, at)
  /\ UNCHANGED <<now, workerVars>>

VerdictFits(a, v) ==
  /\ a = "completed" => v = "completed"
  /\ a = "failed"    => v \in {"failed", "threw", "timeout"}
  /\ a = "released"  => v \in {"paused", "released", "drain"}

\* The loop is through with its lease, whether or not the store agreed.
Leaves(w, at) ==
  LET t == loop[w].task
      l == loop[w].lease
  IN  /\ Busy(w)
      /\ \/ /\ loop'[w].pc = "polling"
            /\ \E a \in Reported :
                 /\ Released(t, l, w, at, a)
                 /\ loop[w].pc = "failing" \/ VerdictFits(a, verdict'[l])
         \/ /\ \A m \in Leases : LeaseSame(m)
            /\ BusyErrors \/ ~ Usable(t, l, w, at)
            /\ \/ loop'[w].pc = "polling"
               \/ loop'[w].pc = "failing" /\ KeepsLease(w) /\ abandoned' = abandoned
      /\ \A m \in Leases : m # l => verdict'[m] = verdict[m]
      /\ abandoned' \subseteq abandoned \union {[worker |-> w, task |-> t, lease |-> l]}
      /\ OthersRest(w)
      /\ now' = now

\* What every step of WorkerNext is.
WorkerForm ==
  \/ Rests
  \/ \E w \in Workers, at \in Stamps :
       \/ \E l \in Leases : Claims(w, l, at)
       \/ Begins(w, at) \/ BeatsInVain(w, at) \/ Leaves(w, at)
       \/ \E ms \in {DefaultLeaseMs} \union HandlerBeats : Beats(w, ms, at)
  \/ \E h \in abandoned, ms \in HandlerBeats, at \in Stamps : AbandonedBeats(h, ms, at)

LEMMA IdleRow ==
  ASSUME NEW s \in BOOLEAN
  PROVE  /\ Idle \in LoopRows
         /\ [Idle EXCEPT !.stopping = s] \in LoopRows
         /\ [Idle EXCEPT !.stopping = s].pc = "polling"
         /\ [Idle EXCEPT !.pc = "crashed"] \in LoopRows
         /\ [Idle EXCEPT !.pc = "crashed"].pc = "crashed"
  BY NoTimeInt DEF Idle, LoopRows

LEMMA ReturnedLoop ==
  ASSUME WorkerTypeOK, NEW w \in Workers, loop' = Returned(w)
  PROVE  loop' \in [Workers -> LoopRows] /\ loop'[w].pc = "polling" /\ OthersRest(w)
<1>1. loop[w].stopping \in BOOLEAN
  BY DEF WorkerTypeOK, LoopRows
<1>2. /\ loop'[w] = [Idle EXCEPT !.stopping = loop[w].stopping]
      /\ \A v \in Workers : v # w => loop'[v] = loop[v]
      /\ loop' = [v \in Workers |-> IF v = w THEN [Idle EXCEPT !.stopping = loop[w].stopping]
                                             ELSE loop[v]]
  BY DEF Returned, WorkerTypeOK
<1> QED
  BY <1>1, <1>2, IdleRow DEF OthersRest, WorkerTypeOK

(* The tasks and leases of busy loops and abandoned handlers exist, and the  *)
(* durations are numbers.                                                    *)
LEMMA WorkerFacts ==
  ASSUME WorkerInv
  PROVE  /\ \A w \in Workers : Busy(w) => loop[w].task \in Tasks /\ loop[w].lease \in Leases
         /\ \A h \in abandoned : h.worker \in Workers /\ h.task \in Tasks /\ h.lease \in Leases
         /\ HeartbeatMs \in Nat
         /\ LeaseMs \in LeaseDurations /\ DefaultLeaseMs \in LeaseDurations
         /\ HandlerBeats \subseteq LeaseDurations
         /\ {} \in KindFilters /\ Null \in OptionalTokens
<1>1. LeaseMs \in Nat /\ MinHeartbeatMs \in Nat
  BY WorkerAssumption
<1>2. LeaseMs \div 3 \in Nat
  BY <1>1
<1>3. HeartbeatMs \in Nat
  BY <1>1, <1>2 DEF HeartbeatMs
<1> QED
  BY <1>3, WorkerAssumption DEF WorkerInv, WorkerTypeOK, BusyNames, Names, NamesIn, OptionalTokens

(* The two branches of a report that overtakes, or is overtaken.             *)
LEMMA ThrowsForm ==
  ASSUME WorkerInv, NEW w \in Workers, Busy(w), NEW at, Throws(w, at)
  PROVE  /\ \A m \in Leases : LeaseSame(m)
         /\ BusyErrors \/ ~ Usable(loop[w].task, loop[w].lease, w, at)
         /\ now' = now
<1>1. leases' = leases /\ attempts' = attempts /\ now' = now
  BY DEF Throws, vars
<1>2. BusyErrors \/ ~ AssertActiveLease(loop[w].task, loop[w].lease, w, at)
  BY DEF Throws
<1>3. loop[w].task \in Tasks /\ loop[w].lease \in Leases
  BY WorkerFacts
<1>4. BusyErrors \/ ~ Usable(loop[w].task, loop[w].lease, w, at)
  BY <1>2, <1>3, LeaseDecides DEF WorkerInv
<1> QED
  BY <1>1, <1>4, SameIsQuiet

LEMMA ReportForm ==
  ASSUME WorkerInv, NEW w \in Workers, Busy(w), NEW at, NEW o \in Outcomes, Report(w, o, at)
  PROVE  /\ \E a \in Reported : Released(loop[w].task, loop[w].lease, w, at, a) /\ VerdictFits(a, o)
         /\ now' = now
<1> DEFINE t == loop[w].task
           l == loop[w].lease
<1>1. IInv /\ t \in Tasks /\ l \in Leases
  BY WorkerFacts DEF WorkerInv
<1> HIDE DEF t, l
<1>2. ASSUME NEW to, NEW a \in Reported, EndLease(t, l, w, at, to, a), VerdictFits(a, o)
      PROVE  /\ \E b \in Reported : Released(t, l, w, at, b) /\ VerdictFits(b, o)
             /\ now' = now
  <2>1. Released(t, l, w, at, a)
    BY <1>1, <1>2, EndLeaseReleases
  <2>2. now' = now
    BY <1>2 DEF EndLease
  <2> QED
    BY <1>2, <2>1, <2>2
<1>3. CASE o = "completed" /\ CompleteTask(t, l, w, Null, at)
  <2>1. EndLease(t, l, w, at, "completed", "completed")
    BY <1>3 DEF CompleteTask
  <2>2. VerdictFits("completed", o) /\ "completed" \in Reported
    BY <1>3 DEF VerdictFits, Reported
  <2> QED
    BY <1>2, <2>1, <2>2 DEF t, l
<1>4. CASE o \in {"failed", "threw"} /\ FailTask(t, l, w, Null, at)
  <2>1. EndLease(t, l, w, at, "failed", "failed")
    BY <1>4 DEF FailTask
  <2>2. VerdictFits("failed", o) /\ "failed" \in Reported
    BY <1>4 DEF VerdictFits, Reported
  <2> QED
    BY <1>2, <2>1, <2>2 DEF t, l
<1>5. CASE o = "paused" /\ \E to \in WaitingTaskStatuses : PauseTask(t, l, w, to, at)
  <2>1. PICK to : EndLease(t, l, w, at, to, "released")
    BY <1>5 DEF PauseTask
  <2>2. VerdictFits("released", o) /\ "released" \in Reported
    BY <1>5 DEF VerdictFits, Reported
  <2> QED
    BY <1>2, <2>1, <2>2 DEF t, l
<1>6. CASE o = "released" /\ ReleaseTask(t, l, w, at)
  <2>1. EndLease(t, l, w, at, "queued", "released")
    BY <1>6 DEF ReleaseTask
  <2>2. VerdictFits("released", o) /\ "released" \in Reported
    BY <1>6 DEF VerdictFits, Reported
  <2> QED
    BY <1>2, <2>1, <2>2 DEF t, l
<1> QED
  BY <1>3, <1>4, <1>5, <1>6 DEF Report, t, l

\* What every action of WorkerNext must show.
Fits == WorkerForm /\ WorkerTypeOK' /\ [Next]_vars

(* The store sees one of its own operations: whatever a holder does with a   *)
(* task and a lease that exist.                                              *)
LEMMA HolderIsNext ==
  ASSUME NEW t \in Tasks, NEW l \in Leases, NEW w \in Workers, NEW at \in Stamps,
         HolderStep(t, l, w, at)
  PROVE  [Next]_vars
  BY DEF Next

LEMMA ReportIsNext ==
  ASSUME WorkerInv, NEW w \in Workers, Busy(w), NEW at \in Stamps, NEW o, Report(w, o, at)
  PROVE  [Next]_vars
<1>1. loop[w].task \in Tasks /\ loop[w].lease \in Leases /\ Null \in OptionalTokens
  BY WorkerFacts
<1>2. HolderStep(loop[w].task, loop[w].lease, w, at)
  BY <1>1 DEF Report, HolderStep
<1> QED
  BY <1>1, <1>2, HolderIsNext

(* A row of one loop that is typed leaves the table typed.                   *)
LEMMA LoopType ==
  ASSUME WorkerTypeOK, NEW w \in Workers, NEW row \in LoopRows, loop' = [loop EXCEPT ![w] = row]
  PROVE  loop' \in [Workers -> LoopRows] /\ loop'[w] = row /\ OthersRest(w)
  BY DEF WorkerTypeOK, OthersRest

LEMMA PollFits ==
  ASSUME WorkerInv, NEW w \in Workers, NEW at \in Stamps, Poll(w, at)
  PROVE  Fits
<1>1. PICK l \in Leases :
        /\ ClaimNextTask(w, l, Null, {}, LeaseMs, at)
        /\ loop' = [loop EXCEPT ![w] = [@ EXCEPT !.pc = "claimed", !.lease = l,
                                                 !.task = leases'[l].task]]
  BY DEF Poll
<1>2. IInv /\ WorkerTypeOK /\ loop[w] \in LoopRows
  BY DEF WorkerInv, WorkerTypeOK
<1>3. Granted(l, w, at)
  BY <1>1, <1>2, WorkerFacts, ClaimGives
<1> DEFINE row == [loop[w] EXCEPT !.pc = "claimed", !.lease = l, !.task = leases'[l].task]
<1>4. row \in LoopRows /\ row.pc = "claimed" /\ row.lease = l /\ row.task = leases'[l].task
  BY <1>2, <1>3 DEF LoopRows, Granted
<1>5. loop' = [loop EXCEPT ![w] = row]
  BY <1>1
<1> HIDE DEF row
<1>6. loop' \in [Workers -> LoopRows] /\ loop'[w] = row /\ OthersRest(w)
  BY <1>2, <1>4, <1>5, LoopType
<1>7. now' = now /\ abandoned' = abandoned /\ verdict' = verdict
  BY <1>1 DEF Poll, ClaimNextTask
<1>8. Claims(w, l, at)
  BY <1>3, <1>4, <1>6, <1>7 DEF Claims, Poll
<1>9. Claim(w)
  BY <1>1, WorkerFacts DEF Claim
<1>10. WorkerForm
  BY <1>8 DEF WorkerForm
<1>11. WorkerTypeOK'
  BY <1>2, <1>6, <1>7 DEF WorkerTypeOK
<1>12. [Next]_vars
  BY <1>9 DEF Next
<1> QED
  BY <1>10, <1>11, <1>12 DEF Fits

LEMMA StartHandlingFits ==
  ASSUME WorkerInv, NEW w \in Workers, NEW at \in Stamps, StartHandling(w, at)
  PROVE  Fits
<1> DEFINE t == loop[w].task
           l == loop[w].lease
           limit == IF TimeoutMs > 0 THEN now + TimeoutMs ELSE NoTime
           grace == IF loop[w].stopping THEN Deadline(DrainMs) ELSE NoTime
           row == [loop[w] EXCEPT !.pc = "handling", !.aborted = loop[w].stopping,
                                  !.nextBeat = now + HeartbeatMs,
                                  !.timeoutAt = limit, !.drainAt = grace]
<1>1. IInv /\ WorkerTypeOK /\ loop[w] \in LoopRows /\ Busy(w) /\ now \in Nat
  BY DEF WorkerInv, WorkerTypeOK, StartHandling, Busy, IInv, TypeOK
<1>2. t \in Tasks /\ l \in Leases /\ HeartbeatMs \in Nat
  BY <1>1, WorkerFacts
<1>3. limit \in Int /\ grace \in Int
  <2>1. TimeoutMs \in Nat /\ DrainMs \in Nat \union {NoTime}
    BY WorkerAssumption
  <2> QED
    BY <1>1, <2>1, NoTimeInt DEF Deadline
<1>4. MarkTaskRunning(t, l, w, at) /\ loop' = [loop EXCEPT ![w] = row]
  BY DEF StartHandling
<1>5. abandoned' = abandoned /\ verdict' = verdict /\ loop[w].pc = "claimed"
  BY DEF StartHandling
<1> HIDE DEF limit, grace
<1> DEFINE beat == now + HeartbeatMs
<1>6. row = [loop[w] EXCEPT !.pc = "handling", !.aborted = loop[w].stopping, !.nextBeat = beat,
                            !.timeoutAt = limit, !.drainAt = grace]
      /\ beat \in Int
  BY <1>1, <1>2
<1> HIDE DEF beat, row
<1>7. /\ row \in LoopRows /\ row.pc = "handling" /\ row.task = t /\ row.lease = l
      /\ row.nextBeat = beat
  BY <1>1, <1>3, <1>6 DEF LoopRows
<1>8. loop' \in [Workers -> LoopRows] /\ loop'[w] = row /\ OthersRest(w)
  BY <1>1, <1>4, <1>7, LoopType
<1>9. Usable(t, l, w, at)
  BY <1>1, <1>2, <1>4, LeaseDecides DEF MarkTaskRunning
<1>10. Quiet /\ leases' = leases /\ now' = now
  BY <1>1, <1>2, <1>4, MarkRunningIsQuiet DEF MarkTaskRunning
<1>11. Begins(w, at)
  BY <1>5, <1>7, <1>8, <1>9, <1>10 DEF Begins, KeepsLease, beat
<1>12. WorkerForm
  BY <1>11 DEF WorkerForm
<1>13. WorkerTypeOK'
  BY <1>1, <1>5, <1>8 DEF WorkerTypeOK
<1>14. [Next]_vars
  BY <1>2, <1>4, HolderIsNext DEF HolderStep
<1> QED
  BY <1>12, <1>13, <1>14 DEF Fits

LEMMA BeatFits ==
  ASSUME WorkerInv, NEW w \in Workers, NEW at \in Stamps, NEW ms \in {DefaultLeaseMs} \union HandlerBeats,
         loop[w].pc = "handling", HeartbeatLease(loop[w].task, loop[w].lease, w, ms, at),
         NEW e \in {loop[w].nextBeat, now + HeartbeatMs},
         loop' = [loop EXCEPT ![w].nextBeat = e], UNCHANGED <<abandoned, verdict>>
  PROVE  Fits
<1>1. IInv /\ WorkerTypeOK /\ loop[w] \in LoopRows /\ Busy(w) /\ now \in Nat
  BY DEF WorkerInv, WorkerTypeOK, Busy, IInv, TypeOK
<1>2. loop[w].task \in Tasks /\ loop[w].lease \in Leases /\ HeartbeatMs \in Nat /\ ms \in LeaseDurations
  BY <1>1, WorkerFacts
<1> DEFINE row == [loop[w] EXCEPT !.nextBeat = e]
<1>3. e \in Int
  BY <1>1, <1>2 DEF LoopRows
<1>4. /\ row \in LoopRows /\ row.pc = "handling" /\ row.task = loop[w].task
      /\ row.lease = loop[w].lease /\ row.aborted = loop[w].aborted /\ row.nextBeat = e
  BY <1>1, <1>3 DEF LoopRows
<1>5. loop' = [loop EXCEPT ![w] = row]
  OBVIOUS
<1> HIDE DEF row
<1>6. loop' \in [Workers -> LoopRows] /\ loop'[w] = row /\ OthersRest(w)
  BY <1>1, <1>4, <1>5, LoopType
<1>7. Extended(loop[w].task, loop[w].lease, w, ms, at) /\ now' = now
  BY <1>1, <1>2, HeartbeatExtends DEF HeartbeatLease
<1>8. Beats(w, ms, at)
  BY <1>4, <1>6, <1>7 DEF Beats, KeepsLease
<1>9. WorkerForm
  BY <1>8 DEF WorkerForm
<1>10. WorkerTypeOK'
  BY <1>1, <1>6 DEF WorkerTypeOK
<1>11. [Next]_vars
  BY <1>2, HolderIsNext DEF HolderStep
<1> QED
  BY <1>9, <1>10, <1>11 DEF Fits

LEMMA BeatInVainFits ==
  ASSUME WorkerInv, NEW w \in Workers, NEW at \in Stamps, loop[w].pc = "handling",
         (loop[w].aborted /\ UNCHANGED vars) \/ Throws(w, at),
         loop' = [loop EXCEPT ![w].nextBeat = now + HeartbeatMs], UNCHANGED <<abandoned, verdict>>
  PROVE  Fits
<1>1. IInv /\ WorkerTypeOK /\ loop[w] \in LoopRows /\ Busy(w) /\ now \in Nat /\ HeartbeatMs \in Nat
  BY WorkerFacts DEF WorkerInv, WorkerTypeOK, Busy, IInv, TypeOK
<1> DEFINE row == [loop[w] EXCEPT !.nextBeat = now + HeartbeatMs]
<1>2. /\ row \in LoopRows /\ row.pc = "handling" /\ row.task = loop[w].task
      /\ row.lease = loop[w].lease /\ row.aborted = loop[w].aborted
      /\ row.nextBeat = now + HeartbeatMs
  BY <1>1 DEF LoopRows
<1>3. loop' = [loop EXCEPT ![w] = row]
  OBVIOUS
<1> HIDE DEF row
<1>4. loop' \in [Workers -> LoopRows] /\ loop'[w] = row /\ OthersRest(w)
  BY <1>1, <1>2, <1>3, LoopType
<1>5. UNCHANGED vars
  BY DEF Throws
<1>6. (\A l \in Leases : LeaseSame(l)) /\ now' = now
  BY <1>5, SameIsQuiet DEF vars
<1>7. loop[w].aborted \/ BusyErrors \/ ~ Usable(loop[w].task, loop[w].lease, w, at)
  BY <1>1, ThrowsForm
<1>8. BeatsInVain(w, at)
  BY <1>2, <1>4, <1>6, <1>7 DEF BeatsInVain, KeepsLease
<1>9. WorkerForm
  BY <1>8 DEF WorkerForm
<1>10. WorkerTypeOK'
  BY <1>1, <1>4 DEF WorkerTypeOK
<1> QED
  BY <1>5, <1>9, <1>10 DEF Fits

LEMMA HeartbeatFits ==
  ASSUME WorkerInv, NEW w \in Workers, NEW at \in Stamps, Heartbeat(w, at)
  PROVE  Fits
<1>1. CASE HeartbeatLease(loop[w].task, loop[w].lease, w, DefaultLeaseMs, at)
  BY <1>1, BeatFits DEF Heartbeat
<1>2. CASE (loop[w].aborted /\ UNCHANGED vars) \/ Throws(w, at)
  BY <1>2, BeatInVainFits DEF Heartbeat
<1> QED
  BY <1>1, <1>2 DEF Heartbeat

LEMMA HandlerHeartbeatFits ==
  ASSUME WorkerInv, NEW w \in Workers, NEW at \in Stamps, HandlerHeartbeat(w, at)
  PROVE  Fits
<1>1. PICK ms \in HandlerBeats : HeartbeatLease(loop[w].task, loop[w].lease, w, ms, at)
  BY DEF HandlerHeartbeat
<1>2. loop[w].pc = "handling" /\ UNCHANGED <<abandoned, verdict>> /\ loop' = loop
  BY DEF HandlerHeartbeat, workerVars
<1>3. loop' = [loop EXCEPT ![w].nextBeat = loop[w].nextBeat]
  BY <1>2 DEF WorkerInv, WorkerTypeOK, LoopRows
<1> QED
  BY <1>1, <1>2, <1>3, BeatFits

(* Loops that are left alone, and the whole of a step that concerns none.    *)
LEMMA LoopsRest ==
  ASSUME loop' = loop
  PROVE  \A w \in Workers : LoopRests(w)
  BY DEF LoopRests, KeepsLease

LEMMA SameTime == now' = now => ClockRests
  BY DEF ClockRests

LEMMA OutsideFits ==
  ASSUME WorkerInv, Quiet, [Next]_vars, loop' = loop, abandoned' \subseteq abandoned,
         verdict' = verdict, ClockRests
  PROVE  Fits
<1>1. Rests
  BY LoopsRest DEF Rests
<1>2. WorkerTypeOK'
  BY DEF WorkerInv, WorkerTypeOK
<1> QED
  BY <1>1, <1>2 DEF Fits, WorkerForm

(* A step of the store that leaves the leases alone.                         *)
LEMMA ElsewhereFits ==
  ASSUME WorkerInv, [Next]_vars, leases' = leases, attempts' = attempts, now' = now,
         loop' = loop, abandoned' \subseteq abandoned, verdict' = verdict
  PROVE  Fits
  BY SameIsQuiet, SameTime, OutsideFits

(* A step of one loop that takes no store call.                              *)
LEMMA LoopFits ==
  ASSUME WorkerInv, UNCHANGED vars, NEW w \in Workers, NEW row \in LoopRows,
         loop' = [loop EXCEPT ![w] = row], LoopRests(w),
         abandoned' \subseteq abandoned, verdict' = verdict
  PROVE  Fits
<1>1. loop' \in [Workers -> LoopRows] /\ OthersRest(w)
  BY LoopType DEF WorkerInv
<1>2. \A v \in Workers : LoopRests(v)
  BY <1>1 DEF LoopRests, OthersRest, KeepsLease
<1>3. Quiet /\ now' = now
  BY SameIsQuiet DEF vars
<1>4. Rests
  BY <1>2, <1>3, SameTime DEF Rests
<1>5. WorkerTypeOK'
  BY <1>1 DEF WorkerInv, WorkerTypeOK
<1> QED
  BY <1>4, <1>5 DEF Fits, WorkerForm

LEMMA ExitFits ==
  ASSUME WorkerInv, NEW w \in Workers, Exit(w)
  PROVE  Fits
<1> DEFINE row == [loop[w] EXCEPT !.pc = "stopped"]
<1>1. loop[w] \in LoopRows
  BY DEF WorkerInv, WorkerTypeOK
<1>2. row \in LoopRows /\ row.pc = "stopped"
  BY <1>1 DEF LoopRows
<1>3. loop' = [loop EXCEPT ![w] = row] /\ UNCHANGED <<vars, abandoned, verdict>>
  BY DEF Exit
<1> HIDE DEF row
<1>4. loop'[w] = row
  BY <1>2, <1>3, LoopType DEF WorkerInv
<1>5. LoopRests(w)
  BY <1>2, <1>4 DEF LoopRests, Exit, Busy
<1> QED
  BY <1>2, <1>3, <1>5, LoopFits

LEMMA StopFits ==
  ASSUME WorkerInv, NEW w \in Workers, Stop(w)
  PROVE  Fits
<1> DEFINE row == IF loop[w].pc = "handling"
                    THEN [loop[w] EXCEPT !.stopping = TRUE, !.aborted = TRUE,
                                         !.drainAt = Deadline(DrainMs)]
                    ELSE [loop[w] EXCEPT !.stopping = TRUE]
<1>1. loop[w] \in LoopRows /\ now \in Nat
  BY DEF WorkerInv, WorkerTypeOK, IInv, TypeOK
<1>2. Deadline(DrainMs) \in Int
  BY <1>1, NoTimeInt, WorkerAssumption DEF Deadline
<1>3. /\ row \in LoopRows /\ row.pc = loop[w].pc /\ row.task = loop[w].task
      /\ row.lease = loop[w].lease /\ row.nextBeat = loop[w].nextBeat
      /\ loop[w].aborted => row.aborted
  BY <1>1, <1>2 DEF LoopRows
<1>4. loop' = [loop EXCEPT ![w] = row] /\ UNCHANGED <<vars, abandoned, verdict>>
  BY DEF Stop
<1> HIDE DEF row
<1>5. loop'[w] = row
  BY <1>3, <1>4, LoopType DEF WorkerInv
<1>6. LoopRests(w)
  BY <1>3, <1>5 DEF LoopRests, KeepsLease
<1> QED
  BY <1>3, <1>4, <1>6, LoopFits

LEMMA CrashFits ==
  ASSUME WorkerInv, NEW w \in Workers, Crash(w)
  PROVE  Fits
<1> DEFINE row == [Idle EXCEPT !.pc = "crashed"]
<1>1. row \in LoopRows /\ row.pc = "crashed"
  BY IdleRow
<1>2. loop' = [loop EXCEPT ![w] = row] /\ UNCHANGED <<vars, verdict>> /\ abandoned' \subseteq abandoned
  BY DEF Crash
<1> HIDE DEF row
<1>3. LoopRests(w)
  BY <1>1, <1>2, LoopType DEF LoopRests, WorkerInv
<1> QED
  BY <1>1, <1>2, <1>3, LoopFits

LEMMA CancelHeardFits ==
  ASSUME WorkerInv, NEW r \in Runs, NEW W, CancelHeardBy(r, W)
  PROVE  Fits
<1>1. IInv /\ WorkerTypeOK
  BY DEF WorkerInv
<1>2. ASSUME NEW w \in Workers PROVE loop'[w] \in LoopRows /\ LoopRests(w)
  <2>1. loop'[w] = loop[w] \/ loop'[w] = [loop[w] EXCEPT !.aborted = TRUE]
    BY DEF CancelHeardBy
  <2>2. loop[w] \in LoopRows
    BY <1>1 DEF WorkerTypeOK
  <2> QED
    BY <2>1, <2>2 DEF LoopRows, LoopRests, KeepsLease
<1>3. loop' \in [Workers -> LoopRows]
  <2>1. \E F : loop' = [w \in Workers |-> F[w]]
    <3> DEFINE F == [w \in Workers |->
                       IF w \in W /\ loop[w].pc = "handling" /\ RunOf(loop[w].task) = r
                         THEN [loop[w] EXCEPT !.aborted = TRUE] ELSE loop[w]]
    <3>1. loop' = F
      BY DEF CancelHeardBy
    <3>2. loop' = [w \in Workers |-> F[w]]
      BY <3>1
    <3> QED
      BY <3>2
  <2> QED
    BY <1>2, <2>1
<1>4. CancelRun(r) /\ abandoned' = abandoned /\ verdict' = verdict
  BY DEF CancelHeardBy
<1>5. Quiet /\ now' = now
  BY <1>1, <1>4, CancelIsQuiet DEF CancelRun
<1>6. Rests
  BY <1>2, <1>4, <1>5, SameTime DEF Rests
<1>7. WorkerTypeOK'
  BY <1>1, <1>3, <1>4 DEF WorkerTypeOK
<1>8. [Next]_vars
  BY <1>4 DEF Next
<1> QED
  BY <1>6, <1>7, <1>8 DEF Fits, WorkerForm

LEMMA ClientFits ==
  ASSUME WorkerInv, Client
  PROVE  Fits
<1>1. IInv /\ loop' = loop /\ abandoned' = abandoned /\ verdict' = verdict
  BY DEF WorkerInv, Client, workerVars
<1>2. ASSUME NEW r \in Runs, CreateRun(r) PROVE Fits
  <2>1. [Next]_vars
    BY <1>2 DEF Next
  <2> QED
    BY <1>1, <1>2, <2>1, ElsewhereFits DEF CreateRun
<1>3. ASSUME NEW t \in Tasks, Enqueue(t) PROVE Fits
  <2>1. [Next]_vars
    BY <1>3 DEF Next
  <2>2. leases' = leases /\ attempts' = attempts /\ now' = now
    BY <1>3 DEF Enqueue, EnqueueCheck, EnqueueThrows, EnqueueTask
  <2> QED
    BY <1>1, <2>1, <2>2, ElsewhereFits
<1>4. ASSUME NEW t \in Tasks, OperatorStep(t) PROVE Fits
  <2>1. [Next]_vars
    BY <1>4 DEF Next
  <2>2. leases' = leases /\ attempts' = attempts /\ now' = now
    BY <1>4 DEF OperatorStep, ResumeTask, RequeueDeadTask
  <2> QED
    BY <1>1, <2>1, <2>2, ElsewhereFits
<1>5. CASE Prune
  <2>1. [Next]_vars
    BY <1>5 DEF Next
  <2>2. Quiet /\ now' = now
    BY <1>5, PruneIsQuiet DEF Prune, PruneRuns
  <2> QED
    BY <1>1, <2>1, <2>2, SameTime, OutsideFits
<1> QED
  BY <1>2, <1>3, <1>4, <1>5 DEF Client

LEMMA ExpireFits ==
  ASSUME WorkerInv, NEW at \in Stamps, ExpireLeases(at),
         loop' = loop, abandoned' = abandoned, verdict' = verdict
  PROVE  Fits
<1>1. Quiet /\ now' = now
  BY ExpireIsQuiet DEF WorkerInv, ExpireLeases
<1>2. [Next]_vars
  BY DEF Next, Expire
<1> QED
  BY <1>1, <1>2, SameTime, OutsideFits

LEMMA SweeperFits ==
  ASSUME WorkerInv, Sweeper
  PROVE  Fits
<1>1. CASE SweeperTicks
  BY <1>1, ExpireFits DEF SweeperTicks, Expire, workerVars
<1>2. CASE UNCHANGED <<vars, loop, abandoned, verdict>>
  BY <1>2, ElsewhereFits DEF vars
<1> QED
  BY <1>1, <1>2 DEF Sweeper, SweeperStarts, SweeperStops

LEMMA TimePassesFits ==
  ASSUME WorkerInv, TimePasses
  PROVE  Fits
<1>1. leases' = leases /\ attempts' = attempts /\ now' = now + 1
  BY DEF TimePasses, Tick
<1>2. [Next]_vars
  BY DEF TimePasses, Next
<1>3. ClockRests
  BY <1>1 DEF TimePasses, ClockRests
<1> QED
  BY <1>1, <1>2, <1>3, SameIsQuiet, OutsideFits DEF TimePasses, workerVars

(* The ways a loop is done with a lease: its report goes through, or throws; *)
(* either way only its own verdict and its own handler are noted.            *)
Noted(w) ==
  /\ \A m \in Leases : m # loop[w].lease => verdict'[m] = verdict[m]
  /\ verdict' \in [Leases -> Outcomes \union {"timeout", "drain", Null}]
  /\ abandoned' \subseteq abandoned \union {[worker |-> w, task |-> loop[w].task, lease |-> loop[w].lease]}

LEMMA NotedType ==
  ASSUME WorkerInv, NEW w \in Workers, Busy(w), Noted(w), loop' \in [Workers -> LoopRows]
  PROVE  WorkerTypeOK'
<1>1. loop[w].task \in Tasks /\ loop[w].lease \in Leases
  BY WorkerFacts
<1> QED
  BY <1>1 DEF WorkerInv, WorkerTypeOK, Noted

LEMMA ReportedFits ==
  ASSUME WorkerInv, NEW w \in Workers, Busy(w), NEW at \in Stamps, NEW o \in Outcomes,
         Report(w, o, at), loop' = Returned(w), Noted(w),
         loop[w].pc = "failing" \/ \A a \in Reported : VerdictFits(a, o) => VerdictFits(a, verdict'[loop[w].lease])
  PROVE  Fits
<1>1. loop' \in [Workers -> LoopRows] /\ loop'[w].pc = "polling" /\ OthersRest(w)
  BY ReturnedLoop DEF WorkerInv
<1>2. PICK a \in Reported : Released(loop[w].task, loop[w].lease, w, at, a) /\ VerdictFits(a, o)
  BY ReportForm
<1>3. now' = now
  BY ReportForm
<1>4. loop[w].pc = "failing" \/ VerdictFits(a, verdict'[loop[w].lease])
  BY <1>2
<1>5. Leaves(w, at)
  BY <1>1, <1>2, <1>3, <1>4 DEF Leaves, Noted
<1>6. WorkerForm
  BY <1>5 DEF WorkerForm
<1>7. WorkerTypeOK'
  BY <1>1, NotedType
<1>8. [Next]_vars
  BY ReportIsNext
<1> QED
  BY <1>6, <1>7, <1>8 DEF Fits

LEMMA ThrownFits ==
  ASSUME WorkerInv, NEW w \in Workers, Busy(w), NEW at \in Stamps, Throws(w, at), Noted(w),
         \/ loop' = Returned(w)
         \/ loop' = [loop EXCEPT ![w].pc = "failing"] /\ abandoned' = abandoned
  PROVE  Fits
<1>1. /\ \A m \in Leases : LeaseSame(m)
      /\ BusyErrors \/ ~ Usable(loop[w].task, loop[w].lease, w, at)
      /\ now' = now
  BY ThrowsForm
<1>2. CASE loop' = Returned(w)
  <2>1. loop' \in [Workers -> LoopRows] /\ loop'[w].pc = "polling" /\ OthersRest(w)
    BY <1>2, ReturnedLoop DEF WorkerInv
  <2>2. Leaves(w, at)
    BY <1>1, <2>1 DEF Leaves, Noted
  <2> QED
    BY <2>1, <2>2, NotedType DEF WorkerForm, Fits, Throws
<1>3. CASE loop' = [loop EXCEPT ![w].pc = "failing"] /\ abandoned' = abandoned
  <2> DEFINE row == [loop[w] EXCEPT !.pc = "failing"]
  <2>1. loop[w] \in LoopRows
    BY DEF WorkerInv, WorkerTypeOK
  <2>2. /\ row \in LoopRows /\ row.pc = "failing"
        /\ row.task = loop[w].task /\ row.lease = loop[w].lease
    BY <2>1 DEF LoopRows
  <2>3. loop' = [loop EXCEPT ![w] = row]
    BY <1>3
  <2> HIDE DEF row
  <2>4. loop' \in [Workers -> LoopRows] /\ loop'[w] = row /\ OthersRest(w)
    BY <2>2, <2>3, LoopType DEF WorkerInv
  <2>5. loop'[w].pc = "failing" /\ KeepsLease(w)
    BY <2>2, <2>4 DEF KeepsLease
  <2>6. Leaves(w, at)
    BY <1>1, <1>3, <2>4, <2>5 DEF Leaves, Noted
  <2> QED
    BY <2>4, <2>6, NotedType DEF WorkerForm, Fits, Throws
<1> QED
  BY <1>2, <1>3

LEMMA NothingNoted ==
  ASSUME WorkerInv, NEW w \in Workers, UNCHANGED <<abandoned, verdict>>
  PROVE  Noted(w)
  BY DEF Noted, WorkerInv, WorkerTypeOK

LEMMA VerdictNoted ==
  ASSUME WorkerInv, NEW w \in Workers, Busy(w), NEW v \in Outcomes \union {"timeout", "drain"},
         verdict' = [verdict EXCEPT ![loop[w].lease] = v],
         \/ abandoned' = abandoned
         \/ abandoned' = abandoned \union {[worker |-> w, task |-> loop[w].task, lease |-> loop[w].lease]}
  PROVE  Noted(w) /\ verdict'[loop[w].lease] = v
<1>1. loop[w].lease \in Leases
  BY WorkerFacts
<1> QED
  BY <1>1 DEF Noted, WorkerInv, WorkerTypeOK

LEMMA StartFailsFits ==
  ASSUME WorkerInv, NEW w \in Workers, NEW at \in Stamps, StartFails(w, at)
  PROVE  Fits
  BY NothingNoted, ThrownFits DEF StartFails, Busy

LEMMA SettlesFits ==
  ASSUME WorkerInv, NEW w \in Workers, NEW at \in Stamps, NEW o \in Outcomes, HandlerSettles(w, o, at)
  PROVE  Fits
<1>1. Busy(w)
  BY DEF HandlerSettles, Settled, Busy
<1>2. Noted(w) /\ verdict'[loop[w].lease] = o
  BY <1>1, VerdictNoted DEF HandlerSettles, Settled
<1> QED
  BY <1>1, <1>2, ReportedFits DEF HandlerSettles

LEMMA ReportFailsFits ==
  ASSUME WorkerInv, NEW w \in Workers, NEW at \in Stamps, NEW o \in Outcomes, ReportFails(w, o, at)
  PROVE  Fits
<1>1. Busy(w)
  BY DEF ReportFails, Settled, Busy
<1>2. Noted(w)
  BY <1>1, VerdictNoted DEF ReportFails, Settled
<1> QED
  BY <1>1, <1>2, ThrownFits DEF ReportFails, Settled

LEMMA FailInsteadFits ==
  ASSUME WorkerInv, NEW w \in Workers, NEW at \in Stamps, FailInstead(w, at)
  PROVE  Fits
<1>1. Busy(w) /\ Noted(w) /\ loop' = Returned(w) /\ loop[w].pc = "failing"
  BY NothingNoted DEF FailInstead, Busy
<1>2. Report(w, "failed", at) \/ Throws(w, at)
  BY DEF FailInstead, Report
<1>3. "failed" \in Outcomes
  BY DEF Outcomes
<1>4. CASE Report(w, "failed", at)
  BY <1>1, <1>3, <1>4, ReportedFits
<1> QED
  BY <1>1, <1>2, <1>4, ThrownFits

LEMMA TimesOutFits ==
  ASSUME WorkerInv, NEW w \in Workers, NEW at \in Stamps, TimesOut(w, at)
  PROVE  Fits
<1>1. Busy(w)
  BY DEF TimesOut, Busy
<1>2. Noted(w) /\ verdict'[loop[w].lease] = "timeout" /\ loop' = Returned(w)
  BY <1>1, VerdictNoted DEF TimesOut, Abandon
<1>3. Report(w, "failed", at) \/ Throws(w, at)
  BY DEF TimesOut, Report
<1>4. "failed" \in Outcomes
  BY DEF Outcomes
<1>5. \A a \in Reported : VerdictFits(a, "failed") => VerdictFits(a, "timeout")
  BY DEF VerdictFits, Reported
<1>6. CASE Report(w, "failed", at)
  BY <1>1, <1>2, <1>4, <1>5, <1>6, ReportedFits
<1> QED
  BY <1>1, <1>2, <1>3, <1>6, ThrownFits

LEMMA DrainsOutFits ==
  ASSUME WorkerInv, NEW w \in Workers, NEW at \in Stamps, DrainsOut(w, at)
  PROVE  Fits
<1>1. Busy(w)
  BY DEF DrainsOut, Busy
<1>2. Noted(w) /\ verdict'[loop[w].lease] = "drain" /\ loop' = Returned(w)
  BY <1>1, VerdictNoted DEF DrainsOut, Abandon
<1>3. Report(w, "released", at) \/ Throws(w, at)
  BY DEF DrainsOut, Report
<1>4. "released" \in Outcomes
  BY DEF Outcomes
<1>5. \A a \in Reported : VerdictFits(a, "released") => VerdictFits(a, "drain")
  BY DEF VerdictFits, Reported
<1>6. CASE Report(w, "released", at)
  BY <1>1, <1>2, <1>4, <1>5, <1>6, ReportedFits
<1> QED
  BY <1>1, <1>2, <1>3, <1>6, ThrownFits

LEMMA AbandonedStepFits ==
  ASSUME WorkerInv, NEW h \in abandoned, AbandonedStep(h)
  PROVE  Fits
<1>1. CASE AbandonedEnds(h)
  <2>1. UNCHANGED vars /\ loop' = loop /\ verdict' = verdict /\ abandoned' \subseteq abandoned
    BY <1>1 DEF AbandonedEnds
  <2> QED
    BY <2>1, ElsewhereFits DEF vars
<1>2. ASSUME NEW at \in Stamps, AbandonedHeartbeat(h, at) PROVE Fits
  <2>1. PICK ms \in HandlerBeats : HeartbeatLease(h.task, h.lease, h.worker, ms, at)
    BY <1>2 DEF AbandonedHeartbeat
  <2>2. h.worker \in Workers /\ h.task \in Tasks /\ h.lease \in Leases /\ ms \in LeaseDurations
    BY WorkerFacts
  <2>3. Extended(h.task, h.lease, h.worker, ms, at) /\ now' = now
    BY <2>1, <2>2, HeartbeatExtends DEF WorkerInv, HeartbeatLease
  <2>4. UNCHANGED workerVars
    BY <1>2 DEF AbandonedHeartbeat
  <2>5. AbandonedBeats(h, ms, at)
    BY <2>3, <2>4 DEF AbandonedBeats
  <2>6. WorkerForm
    BY <2>5 DEF WorkerForm
  <2>7. WorkerTypeOK'
    BY <2>4 DEF WorkerInv, WorkerTypeOK, workerVars
  <2>8. [Next]_vars
    BY <2>1, <2>2, HolderIsNext DEF HolderStep
  <2> QED
    BY <2>6, <2>7, <2>8 DEF Fits
<1> QED
  BY <1>1, <1>2 DEF AbandonedStep

(* Every step has one of the forms, and is a step of the store.              *)
LEMMA WorkerStepFits ==
  ASSUME WorkerInv, [WorkerNext]_<<vars, workerVars>>
  PROVE  Fits
<1>1. ASSUME NEW w \in Workers, NEW at \in Stamps, Poll(w, at) \/ IdlePoll(w, at) PROVE Fits
  BY <1>1, PollFits, ExpireFits DEF IdlePoll, workerVars
<1>2. ASSUME NEW w \in Workers, Exit(w) \/ Stop(w) \/ Crash(w) PROVE Fits
  BY <1>2, ExitFits, StopFits, CrashFits
<1>3. ASSUME NEW w \in Workers, Starts(w) PROVE Fits
  BY <1>3, StartHandlingFits, StartFailsFits DEF Starts
<1>4. ASSUME NEW w \in Workers, TimerFires(w) PROVE Fits
  BY <1>4, HeartbeatFits, TimesOutFits, DrainsOutFits DEF TimerFires
<1>5. ASSUME NEW w \in Workers, Recovers(w) PROVE Fits
  BY <1>5, FailInsteadFits DEF Recovers
<1>6. ASSUME NEW w \in Workers, HandlerStep(w) PROVE Fits
  BY <1>6, HandlerHeartbeatFits, SettlesFits, ReportFailsFits DEF HandlerStep
<1>7. ASSUME NEW h \in abandoned, AbandonedStep(h) PROVE Fits
  BY <1>7, AbandonedStepFits
<1>8. ASSUME NEW r \in Runs, NEW W, CancelHeardBy(r, W) PROVE Fits
  BY <1>8, CancelHeardFits
<1>9. CASE Sweeper \/ Client \/ TimePasses
  BY <1>9, SweeperFits, ClientFits, TimePassesFits
<1>10. CASE UNCHANGED <<vars, workerVars>>
  BY <1>10, ElsewhereFits DEF vars, workerVars
<1> QED
  BY <1>1, <1>2, <1>3, <1>4, <1>5, <1>6, <1>7, <1>8, <1>9, <1>10 DEF WorkerNext

(***************************************************************************)
(* WorkerInv is inductive.                                                 *)
(***************************************************************************)

\* A lease that has a row keeps its task and its worker for as long as it does.
Moves(l) ==
  \/ Outside(l)
  \/ leases[l].status = "absent"
  \/ /\ leases[l].status = "active"
     /\ leases'[l].status \in {"active", "released"}
     /\ leases'[l].task = leases[l].task /\ leases'[l].worker = leases[l].worker

LEMMA FormMoves ==
  ASSUME WorkerForm, NEW l \in Leases
  PROVE  Moves(l)
<1>1. CASE Rests
  BY <1>1 DEF Rests, Quiet, Moves
<1>2. ASSUME NEW w \in Workers, NEW at, NEW m \in Leases, Claims(w, m, at) PROVE Moves(l)
  BY <1>2 DEF Claims, Granted, Moves
<1>3. ASSUME NEW w \in Workers, NEW at, Begins(w, at) PROVE Moves(l)
  BY <1>3 DEF Begins, Quiet, Moves
<1>4. ASSUME NEW w \in Workers, NEW at, BeatsInVain(w, at) PROVE Moves(l)
  BY <1>4 DEF BeatsInVain, LeaseSame, Outside, Moves
<1>5. ASSUME NEW t, NEW m, NEW w, NEW ms, NEW at, Extended(t, m, w, ms, at) PROVE Moves(l)
  BY <1>5 DEF Extended, Usable, LeaseSame, Outside, Moves
<1>6. ASSUME NEW t, NEW m, NEW w, NEW at, NEW a, Released(t, m, w, at, a) PROVE Moves(l)
  BY <1>6 DEF Released, Usable, LeaseSame, Outside, Moves
<1>7. ASSUME \A m \in Leases : LeaseSame(m) PROVE Moves(l)
  BY <1>7 DEF LeaseSame, Outside, Moves
<1>8. ASSUME NEW w \in Workers, NEW at, Leaves(w, at) PROVE Moves(l)
  BY <1>6, <1>7, <1>8 DEF Leaves
<1> QED
  BY <1>1, <1>2, <1>3, <1>4, <1>5, <1>8 DEF WorkerForm, Beats, AbandonedBeats

LEMMA NamesStay ==
  ASSUME NEW l, NEW t, NEW w, Names(l, t, w), Moves(l)
  PROVE  NamesIn(leases', l, t, w)
  BY DEF Names, NamesIn, Moves, Outside, LeaseStatuses

\* The loop has no lease now, or the one it had.
LoopKept(w) == Busy(w)' => Busy(w) /\ KeepsLease(w)

LEMMA LoopsKept ==
  ASSUME NEW w \in Workers, OthersRest(w), LoopKept(w)
  PROVE  \A v \in Workers : LoopKept(v)
  BY DEF OthersRest, LoopKept, KeepsLease, Busy

\* An attempt that is not reported yet stays so.
StaysOpen(l) == attempts[l] \notin Reported => attempts'[l] \notin Reported

LEMMA StaysOpenOutside ==
  ASSUME NEW l, Outside(l) \/ LeaseSame(l)
  PROVE  StaysOpen(l)
  BY DEF Outside, LeaseSame, StaysOpen, Reported

\* WorkerInv after a step of one of the forms.
NamesKept == BusyNames' /\ AbandonedNames' /\ OwnLeases'

(* No loop takes a new lease, and the attempts of busy loops stay open.      *)
LEMMA KeepNames ==
  ASSUME WorkerInv, \A l \in Leases : Moves(l), \A w \in Workers : LoopKept(w),
         \A w \in Workers : Busy(w)' => StaysOpen(loop[w].lease),
         \A h \in abandoned' :
           \/ h \in abandoned
           \/ /\ Names(h.lease, h.task, h.worker)
              /\ \A w \in Workers : Busy(w)' => loop[w].lease # h.lease
  PROVE  NamesKept
<1>1. ASSUME NEW w \in Workers, Busy(w)'
      PROVE  /\ Busy(w) /\ loop'[w].lease = loop[w].lease /\ loop'[w].task = loop[w].task
             /\ NamesIn(leases', loop'[w].lease, loop'[w].task, w) /\ attempts'[loop'[w].lease] \notin Reported
  <2>1. Busy(w) /\ loop'[w].lease = loop[w].lease /\ loop'[w].task = loop[w].task
    BY <1>1 DEF LoopKept, KeepsLease
  <2>2. Names(loop[w].lease, loop[w].task, w) /\ attempts[loop[w].lease] \notin Reported
    BY <2>1 DEF WorkerInv, BusyNames
  <2>3. NamesIn(leases', loop'[w].lease, loop'[w].task, w)
    <3> DEFINE l == loop[w].lease
               t == loop[w].task
    <3>1. loop'[w].lease = l /\ loop'[w].task = t /\ Names(l, t, w) /\ l \in Leases
      BY <2>1, <2>2 DEF Names, NamesIn
    <3> HIDE DEF l, t
    <3>2. Moves(l)
      BY <3>1
    <3> QED
      BY <3>1, <3>2, NamesStay
  <2>4. attempts'[loop[w].lease] \notin Reported
    BY <1>1, <2>2 DEF StaysOpen
  <2> QED
    BY <2>1, <2>3, <2>4
<1>2. ASSUME NEW h \in abandoned'
      PROVE  NamesIn(leases', h.lease, h.task, h.worker)
  <2>1. Names(h.lease, h.task, h.worker)
    BY DEF WorkerInv, AbandonedNames
  <2>2. Moves(h.lease)
    BY <2>1 DEF Names, NamesIn
  <2> QED
    BY <2>1, <2>2, NamesStay
<1>3. BusyNames'
  BY <1>1 DEF BusyNames, Names
<1>4. AbandonedNames'
  BY <1>2 DEF AbandonedNames, Names
<1>5. OwnLeases'
  <2>1. ASSUME NEW v \in Workers, NEW w \in Workers, v # w, Busy(v)', Busy(w)'
        PROVE  loop'[v].lease # loop'[w].lease
    BY <1>1, <2>1 DEF WorkerInv, OwnLeases
  <2>2. ASSUME NEW w \in Workers, Busy(w)', NEW h \in abandoned' PROVE h.lease # loop'[w].lease
    BY <1>1, <2>2 DEF WorkerInv, OwnLeases
  <2> QED
    BY <2>1, <2>2 DEF OwnLeases
<1> QED
  BY <1>3, <1>4, <1>5 DEF NamesKept

(* The one exception: the loop that claims.                                  *)
LEMMA ClaimNames ==
  ASSUME WorkerInv, NEW w \in Workers, NEW l \in Leases, NEW at, Claims(w, l, at),
         \A m \in Leases : Moves(m)
  PROVE  NamesKept
<1>1. /\ leases[l].status = "absent"
      /\ leases'[l].status = "active" /\ leases'[l].task \in Tasks /\ leases'[l].worker = w
      /\ attempts'[l] = "leased"
      /\ \A m \in Leases : m # l => Outside(m)
      /\ loop'[w].lease = l /\ loop'[w].task = leases'[l].task
      /\ \A v \in Workers : v # w => loop'[v] = loop[v]
      /\ abandoned' = abandoned
  BY DEF Claims, Granted, OthersRest
<1>2. NamesIn(leases', loop'[w].lease, loop'[w].task, w) /\ attempts'[l] \notin Reported
  BY <1>1 DEF NamesIn, Reported
<1>3. ASSUME NEW v \in Workers, v # w, Busy(v)'
      PROVE  /\ Busy(v) /\ loop'[v] = loop[v] /\ loop[v].lease # l
             /\ NamesIn(leases', loop'[v].lease, loop'[v].task, v) /\ attempts'[loop'[v].lease] \notin Reported
  <2> DEFINE m == loop[v].lease
             t == loop[v].task
  <2>1. loop'[v] = loop[v] /\ Busy(v)
    BY <1>1, <1>3 DEF Busy
  <2>2. Names(m, t, v) /\ attempts[m] \notin Reported
    BY <2>1 DEF WorkerInv, BusyNames
  <2>3. m # l /\ m \in Leases
    BY <1>1, <2>2 DEF Names, NamesIn
  <2>4. Outside(m) /\ Moves(m)
    BY <1>1, <2>3
  <2>5. loop'[v].lease = m /\ loop'[v].task = t
    BY <2>1
  <2>6. attempts'[m] \notin Reported
    BY <2>2, <2>4, StaysOpenOutside DEF StaysOpen
  <2> HIDE DEF m, t
  <2>7. NamesIn(leases', loop'[v].lease, loop'[v].task, v)
    BY <2>2, <2>4, <2>5, NamesStay
  <2> QED
    BY <2>1, <2>3, <2>5, <2>6, <2>7 DEF m
<1>4. ASSUME NEW h \in abandoned'
      PROVE  NamesIn(leases', h.lease, h.task, h.worker) /\ h.lease # l
  <2>1. Names(h.lease, h.task, h.worker)
    BY <1>1 DEF WorkerInv, AbandonedNames
  <2>2. Moves(h.lease) /\ h.lease # l
    BY <1>1, <2>1 DEF Names, NamesIn
  <2> QED
    BY <2>1, <2>2, NamesStay
<1>5. BusyNames'
  <2> SUFFICES ASSUME NEW v \in Workers, Busy(v)'
               PROVE  NamesIn(leases', loop'[v].lease, loop'[v].task, v) /\ attempts'[loop'[v].lease] \notin Reported
    BY DEF BusyNames, Names
  <2>1. CASE v = w
    BY <1>1, <1>2, <2>1
  <2>2. CASE v # w
    BY <1>3, <2>2
  <2> QED
    BY <2>1, <2>2
<1>6. AbandonedNames'
  BY <1>4 DEF AbandonedNames, Names
<1>7. OwnLeases'
  <2>1. ASSUME NEW u \in Workers, NEW v \in Workers, u # v, Busy(u)', Busy(v)'
        PROVE  loop'[u].lease # loop'[v].lease
    BY <1>1, <1>3, <2>1 DEF WorkerInv, OwnLeases
  <2>2. ASSUME NEW v \in Workers, Busy(v)', NEW h \in abandoned' PROVE h.lease # loop'[v].lease
    BY <1>1, <1>3, <1>4, <2>2 DEF WorkerInv, OwnLeases
  <2> QED
    BY <2>1, <2>2 DEF OwnLeases
<1> QED
  BY <1>5, <1>6, <1>7 DEF NamesKept

LEMMA LeaveNames ==
  ASSUME WorkerInv, NEW w \in Workers, NEW at, Leaves(w, at), \A m \in Leases : Moves(m)
  PROVE  NamesKept
<1>1. Busy(w) /\ OthersRest(w)
  BY DEF Leaves
<1>2. Names(loop[w].lease, loop[w].task, w) /\ loop[w].lease \in Leases
  BY <1>1 DEF WorkerInv, BusyNames, Names, NamesIn
<1>3. LoopKept(w)
  BY <1>1 DEF Leaves, LoopKept, Busy
<1>4. \A v \in Workers : LoopKept(v)
  BY <1>1, <1>3, LoopsKept
<1>5. ASSUME NEW v \in Workers, Busy(v)' PROVE StaysOpen(loop[v].lease)
  <2>1. Busy(v)
    BY <1>4, <1>5 DEF LoopKept
  <2>2. loop[v].lease \in Leases /\ (v # w => loop[v].lease # loop[w].lease)
    BY <1>1, <2>1, WorkerFacts DEF WorkerInv, OwnLeases
  <2>3. CASE \A m \in Leases : LeaseSame(m)
    BY <2>2, <2>3, StaysOpenOutside
  <2>4. ASSUME NEW a, Released(loop[w].task, loop[w].lease, w, at, a), loop'[w].pc = "polling"
        PROVE  StaysOpen(loop[v].lease)
    <3>1. v # w
      BY <1>5, <2>4 DEF Busy
    <3> QED
      BY <2>2, <2>4, <3>1, StaysOpenOutside DEF Released
  <2> QED
    BY <2>3, <2>4 DEF Leaves
<1>6. ASSUME NEW h \in abandoned'
      PROVE  \/ h \in abandoned
             \/ /\ Names(h.lease, h.task, h.worker)
                /\ \A v \in Workers : Busy(v)' => loop[v].lease # h.lease
  <2>1. CASE loop'[w].pc = "failing"
    BY <2>1 DEF Leaves
  <2>2. CASE loop'[w].pc = "polling" /\ h \notin abandoned
    <3>1. h.worker = w /\ h.task = loop[w].task /\ h.lease = loop[w].lease
      BY <2>2 DEF Leaves
    <3>2. ASSUME NEW v \in Workers, Busy(v)' PROVE loop[v].lease # h.lease
      <4>1. v # w
        BY <2>2, <3>2 DEF Busy
      <4>2. Busy(v)
        BY <1>4, <3>2 DEF LoopKept
      <4> QED
        BY <1>1, <3>1, <4>1, <4>2 DEF WorkerInv, OwnLeases
    <3> QED
      BY <1>2, <3>1, <3>2
  <2> QED
    BY <2>1, <2>2 DEF Leaves
<1> QED
  BY <1>4, <1>5, <1>6, KeepNames

LEMMA NamesStep ==
  ASSUME WorkerInv, WorkerForm
  PROVE  NamesKept
<1>1. \A l \in Leases : Moves(l)
  BY FormMoves
<1>2. \A w \in Workers : Busy(w) => loop[w].lease \in Leases
  BY WorkerFacts
<1>3. CASE Rests
  <2>1. \A w \in Workers : LoopKept(w)
    BY <1>3 DEF Rests, LoopRests, LoopKept, KeepsLease, Busy
  <2>2. \A w \in Workers : Busy(w)' => StaysOpen(loop[w].lease)
    BY <1>2, <1>3, <2>1, StaysOpenOutside DEF Rests, Quiet, LoopKept
  <2>3. abandoned' \subseteq abandoned
    BY <1>3 DEF Rests
  <2> QED
    BY <1>1, <2>1, <2>2, <2>3, KeepNames
<1>4. ASSUME NEW w \in Workers, OthersRest(w), KeepsLease(w), Busy(w), abandoned' = abandoned,
             \A l \in Leases : StaysOpen(l)
      PROVE  NamesKept
  <2>1. \A v \in Workers : LoopKept(v)
    BY <1>4, LoopsKept DEF LoopKept
  <2>2. \A v \in Workers : Busy(v)' => StaysOpen(loop[v].lease)
    BY <1>2, <1>4, <2>1 DEF LoopKept
  <2> QED
    BY <1>1, <1>4, <2>1, <2>2, KeepNames
<1>5. ASSUME NEW w \in Workers, NEW at, Begins(w, at) PROVE NamesKept
  BY <1>4, <1>5, StaysOpenOutside DEF Begins, Quiet, Busy
<1>6. ASSUME NEW w \in Workers, NEW at, BeatsInVain(w, at) PROVE NamesKept
  BY <1>4, <1>6, StaysOpenOutside DEF BeatsInVain, Busy
<1>7. ASSUME NEW t, NEW l, NEW w, NEW ms, NEW at, Extended(t, l, w, ms, at)
      PROVE  \A m \in Leases : StaysOpen(m)
  BY <1>7, StaysOpenOutside DEF Extended, StaysOpen
<1>8. ASSUME NEW w \in Workers, NEW ms, NEW at, Beats(w, ms, at) PROVE NamesKept
  BY <1>4, <1>7, <1>8 DEF Beats, Busy
<1>9. ASSUME NEW h \in abandoned, NEW ms, NEW at, AbandonedBeats(h, ms, at) PROVE NamesKept
  <2>1. loop' = loop /\ abandoned' = abandoned
    BY <1>9 DEF AbandonedBeats, workerVars
  <2>2. \A w \in Workers : LoopKept(w)
    BY <2>1 DEF LoopKept, KeepsLease, Busy
  <2>3. \A w \in Workers : Busy(w)' => StaysOpen(loop[w].lease)
    BY <1>2, <1>7, <1>9, <2>2 DEF AbandonedBeats, LoopKept
  <2> QED
    BY <1>1, <2>1, <2>2, <2>3, KeepNames
<1> QED
  BY <1>1, <1>3, <1>5, <1>6, <1>8, <1>9, ClaimNames, LeaveNames DEF WorkerForm

LEMMA WorkerStep ==
  ASSUME WorkerInv, [WorkerNext]_<<vars, workerVars>>
  PROVE  WorkerInv' /\ [Next]_vars
<1>1. WorkerForm /\ WorkerTypeOK' /\ [Next]_vars
  BY WorkerStepFits DEF Fits
<1>2. IInv'
  BY <1>1, StepIInv DEF WorkerInv
<1>3. NamesKept
  BY <1>1, NamesStep
<1> QED
  BY <1>1, <1>2, <1>3 DEF WorkerInv, NamesKept

LEMMA WorkerStart == WorkerInit => WorkerInv /\ Init
<1> SUFFICES ASSUME WorkerInit PROVE WorkerInv /\ Init
  OBVIOUS
<1>1. Init /\ IInv
  BY InitIInv DEF WorkerInit
<1>2. \A w \in Workers : loop[w].pc = "polling" /\ loop[w] \in LoopRows
  BY IdleRow DEF WorkerInit, Idle
<1>3. abandoned = {} /\ WorkerTypeOK
  BY <1>2 DEF WorkerInit, WorkerTypeOK
<1> QED
  BY <1>1, <1>2, <1>3 DEF WorkerInv, BusyNames, AbandonedNames, OwnLeases, Busy

(* Whatever the workers, the timers, the signals and the other callers do,   *)
(* the tables only ever change by the operations of the store, called with a *)
(* task and a lease that exist: so what is proved of the store is true of    *)
(* the tables the workers share.                                             *)
THEOREM WorkersUseTheStore == WorkerSpec => Spec
<1>1. WorkerInv /\ [WorkerNext]_<<vars, workerVars>> => WorkerInv' /\ [Next]_vars
  BY WorkerStep
<1> QED
  BY <1>1, WorkerStart, PTL DEF WorkerSpec, Spec

(***************************************************************************)
(* CalmInv is inductive when the store calls do not throw SQLITE_BUSY and  *)
(* stamps are fresh.                                                       *)
(***************************************************************************)

LEMMA FreshStamps ==
  ASSUME Calm, IInv, NEW at \in Stamps
  PROVE  at = now
<1>1. now \in Nat /\ at \in 0 .. now /\ now =< at + MaxLag /\ MaxLag = 0
  BY DEF Calm, IInv, TypeOK, Stamps
<1> QED
  BY <1>1

\* What the step may do to the leases and the clock when stamps are fresh.
LeaseForm(l) ==
  \/ Outside(l) /\ now' \in {now, now + 1}
  \/ now' = now /\ \E w \in Workers : Granted(l, w, now) /\ Claims(w, l, now)
  \/ now' = now /\ \E t \in Tasks, w \in Workers, ms \in LeaseDurations : Extended(t, l, w, ms, now)
  \/ now' = now /\ \E w \in Workers, a \in Reported :
       /\ Leaves(w, now) /\ loop'[w].pc = "polling" /\ loop[w].lease = l
       /\ Released(loop[w].task, l, w, now, a)
       /\ loop[w].pc = "failing" \/ VerdictFits(a, verdict'[l])

LEMMA FormIsLeaseForm ==
  ASSUME Calm, WorkerInv, WorkerForm, NEW l \in Leases
  PROVE  LeaseForm(l)
<1>1. CASE Rests
  BY <1>1 DEF Rests, Quiet, ClockRests, LeaseForm
<1>2. ASSUME Outside(l) \/ LeaseSame(l), now' = now PROVE LeaseForm(l)
  BY <1>2 DEF LeaseForm, LeaseSame, Outside
<1>3. ASSUME NEW w \in Workers, NEW m \in Leases, Claims(w, m, now) PROVE LeaseForm(l)
  <2>1. now' = now /\ Granted(m, w, now)
    BY <1>3 DEF Claims
  <2>2. CASE l = m
    BY <1>3, <2>1, <2>2 DEF LeaseForm
  <2>3. CASE l # m
    BY <1>2, <2>1, <2>3 DEF Granted
  <2> QED
    BY <2>2, <2>3
<1>4. ASSUME NEW w \in Workers, Begins(w, now) \/ BeatsInVain(w, now) PROVE LeaseForm(l)
  BY <1>2, <1>4 DEF Begins, BeatsInVain, Quiet
<1>5. ASSUME NEW t \in Tasks, NEW m \in Leases, NEW w \in Workers, NEW ms \in LeaseDurations,
             Extended(t, m, w, ms, now), now' = now
      PROVE  LeaseForm(l)
  <2>1. CASE l = m
    BY <1>5, <2>1 DEF LeaseForm
  <2>2. CASE l # m
    BY <1>2, <1>5, <2>2 DEF Extended
  <2> QED
    BY <2>1, <2>2
<1>6. ASSUME NEW w \in Workers, NEW ms \in {DefaultLeaseMs} \union HandlerBeats, Beats(w, ms, now)
      PROVE  LeaseForm(l)
  BY <1>5, <1>6, WorkerFacts DEF Beats, Busy
<1>7. ASSUME NEW h \in abandoned, NEW ms \in HandlerBeats, AbandonedBeats(h, ms, now)
      PROVE  LeaseForm(l)
  BY <1>5, <1>7, WorkerFacts DEF AbandonedBeats
<1>8. ASSUME NEW w \in Workers, Leaves(w, now) PROVE LeaseForm(l)
  <2>1. now' = now
    BY <1>8 DEF Leaves
  <2>2. CASE \A m \in Leases : LeaseSame(m)
    BY <1>2, <2>1, <2>2
  <2>3. ASSUME NEW a \in Reported, loop'[w].pc = "polling",
               Released(loop[w].task, loop[w].lease, w, now, a),
               loop[w].pc = "failing" \/ VerdictFits(a, verdict'[loop[w].lease])
        PROVE  LeaseForm(l)
    <3>1. CASE l = loop[w].lease
      BY <1>8, <2>1, <2>3, <3>1 DEF LeaseForm
    <3>2. CASE l # loop[w].lease
      BY <1>2, <2>1, <2>3, <3>2 DEF Released
    <3> QED
      BY <3>1, <3>2
  <2> QED
    BY <1>8, <2>2, <2>3 DEF Leaves
<1> QED
  BY <1>1, <1>3, <1>4, <1>6, <1>7, <1>8, FreshStamps DEF WorkerForm, WorkerInv

(* A lease nobody can use stays that way.                                    *)
LEMMA SpentStays ==
  ASSUME IInv, NEW l \in Leases, LeaseForm(l), Spent(l), leases[l].status # "absent"
  PROVE  leases'[l].status = "active" => leases'[l].expiresAt < now'
<1>1. now \in Nat /\ leases[l].expiresAt \in Int
  BY DEF IInv, TypeOK, LeaseRows
<1>2. CASE Outside(l) /\ now' \in {now, now + 1}
  BY <1>1, <1>2 DEF Outside, Spent
<1>3. CASE leases'[l].status = "released"
  BY <1>3
<1>4. ASSUME NEW t, NEW w, Usable(t, l, w, now) PROVE FALSE
  BY <1>1, <1>4 DEF Usable, Spent
<1> QED
  BY <1>2, <1>3, <1>4 DEF LeaseForm, Granted, Extended, Released

(* Whoever leaves a lease behind leaves it spent.                            *)
LEMMA LeftIsSpent ==
  ASSUME Calm, WorkerInv, NEW w \in Workers, Leaves(w, now)
  PROVE  leases'[loop[w].lease].status = "active" => leases'[loop[w].lease].expiresAt < now'
<1> DEFINE l == loop[w].lease
           t == loop[w].task
<1>1. l \in Leases /\ Names(l, t, w) /\ now' = now
  BY WorkerFacts DEF Leaves, WorkerInv, BusyNames
<1>2. leases[l].expiresAt \in Int /\ now \in Nat
  BY <1>1 DEF WorkerInv, IInv, TypeOK, LeaseRows
<1>3. CASE LeaseSame(l) /\ ~ Usable(t, l, w, now)
  BY <1>1, <1>2, <1>3 DEF LeaseSame, Usable, Names, NamesIn, LeaseStatuses
<1>4. CASE leases'[l].status = "released"
  BY <1>4
<1> QED
  BY <1>1, <1>3, <1>4 DEF Leaves, Released, Calm

(* An abandoned lease is spent, and so is the lease of a failing loop.       *)
LEMMA AbandonedSpentStep ==
  ASSUME Calm, CalmInv, WorkerForm, \A l \in Leases : LeaseForm(l)
  PROVE  AbandonedSpent'
<1>1. ASSUME NEW h \in abandoned
      PROVE  leases'[h.lease].status = "active" => leases'[h.lease].expiresAt < now'
  <2>1. h.lease \in Leases /\ leases[h.lease].status # "absent" /\ Spent(h.lease) /\ IInv
    BY DEF CalmInv, WorkerInv, AbandonedNames, AbandonedSpent, Names, NamesIn
  <2> QED
    BY <2>1, SpentStays
<1>2. CASE abandoned' \subseteq abandoned
  BY <1>1, <1>2 DEF AbandonedSpent, Spent
<1>3. ASSUME NEW w \in Workers, NEW at \in Stamps, Leaves(w, at) PROVE AbandonedSpent'
  <2>1. Leaves(w, now)
    BY <1>3, FreshStamps DEF CalmInv, WorkerInv
  <2>2. leases'[loop[w].lease].status = "active" => leases'[loop[w].lease].expiresAt < now'
    BY <2>1, LeftIsSpent DEF CalmInv
  <2>3. \A h \in abandoned' : h \in abandoned \/ h.lease = loop[w].lease
    BY <1>3 DEF Leaves
  <2> QED
    BY <1>1, <2>2, <2>3 DEF AbandonedSpent, Spent
<1> QED
  BY <1>2, <1>3 DEF WorkerForm, Rests, Claims, Begins, Beats, BeatsInVain, AbandonedBeats, workerVars

LEMMA FailingSpentStep ==
  ASSUME Calm, CalmInv, WorkerForm, \A l \in Leases : LeaseForm(l)
  PROVE  FailingSpent'
<1> SUFFICES ASSUME NEW w \in Workers, loop'[w].pc = "failing"
             PROVE  leases'[loop'[w].lease].status = "active" =>
                      leases'[loop'[w].lease].expiresAt < now'
  BY DEF FailingSpent, Spent
<1>1. ASSUME loop[w].pc = "failing", KeepsLease(w)
      PROVE  leases'[loop'[w].lease].status = "active" => leases'[loop'[w].lease].expiresAt < now'
  <2> DEFINE l == loop[w].lease
  <2>1. Busy(w) /\ IInv /\ l \in Leases /\ leases[l].status # "absent" /\ Spent(l)
    BY <1>1 DEF Busy, CalmInv, WorkerInv, BusyNames, FailingSpent, Names, NamesIn
  <2>2. loop'[w].lease = l
    BY <1>1 DEF KeepsLease
  <2> HIDE DEF l
  <2> QED
    BY <2>1, <2>2, SpentStays
<1>2. ASSUME loop'[w] = loop[w]
      PROVE  leases'[loop'[w].lease].status = "active" => leases'[loop'[w].lease].expiresAt < now'
  BY <1>1, <1>2 DEF KeepsLease
<1>3. CASE Rests
  BY <1>1, <1>3 DEF Rests, LoopRests
<1>4. ASSUME NEW v \in Workers, OthersRest(v), loop'[v].pc # "failing"
      PROVE  leases'[loop'[w].lease].status = "active" => leases'[loop'[w].lease].expiresAt < now'
  <2>1. v # w
    BY <1>4
  <2> QED
    BY <1>2, <1>4, <2>1 DEF OthersRest
<1>5. ASSUME NEW v \in Workers, NEW at \in Stamps, Leaves(v, at)
      PROVE  leases'[loop'[w].lease].status = "active" => leases'[loop'[w].lease].expiresAt < now'
  <2>1. CASE v = w
    <3>1. Leaves(w, now)
      BY <1>5, <2>1, FreshStamps DEF CalmInv, WorkerInv
    <3>2. loop'[w].lease = loop[w].lease
      BY <1>5, <2>1 DEF Leaves, KeepsLease
    <3> QED
      BY <3>1, <3>2, LeftIsSpent DEF CalmInv
  <2>2. CASE v # w
    BY <1>2, <1>5, <2>2 DEF Leaves, OthersRest
  <2> QED
    BY <2>1, <2>2
<1>6. ASSUME NEW h, NEW ms, NEW at, AbandonedBeats(h, ms, at)
      PROVE  leases'[loop'[w].lease].status = "active" => leases'[loop'[w].lease].expiresAt < now'
  BY <1>2, <1>6 DEF AbandonedBeats, workerVars
<1> QED
  BY <1>3, <1>4, <1>5, <1>6 DEF WorkerForm, Claims, Begins, Beats, BeatsInVain

(* What happens to the lease of a loop is known to its worker.               *)
LEMMA LeasesAccountedStep ==
  ASSUME Calm, CalmInv, WorkerForm, \A l \in Leases : LeaseForm(l)
  PROVE  LeasesAccounted'
<1> DEFINE Over(l) == leases'[l].status = "active" => leases'[l].expiresAt < now'
           Held(l) == \E w \in Workers : /\ leases'[l].worker = w
                                         /\ \/ loop'[w].pc = "crashed"
                                            \/ Busy(w)' /\ loop'[w].lease = l
<1> SUFFICES ASSUME NEW l \in Leases PROVE Over(l) \/ Held(l)
  BY DEF LeasesAccounted, AccountedFor, Spent
<1>1. IInv /\ LeaseForm(l) /\ Moves(l)
  BY FormMoves DEF CalmInv, WorkerInv
<1>2. CASE leases[l].status = "absent"
  <2>1. CASE Outside(l)
    BY <1>2, <2>1 DEF Outside, LeaseStatuses
  <2>2. ASSUME NEW w \in Workers, Granted(l, w, now), Claims(w, l, now) PROVE Held(l)
    BY <2>2 DEF Granted, Claims, Busy
  <2>3. ~ \E t \in Tasks, w \in Workers : Usable(t, l, w, now)
    BY <1>2 DEF Usable
  <2>4. \A w \in Workers : Busy(w) => loop[w].task \in Tasks
    BY WorkerFacts DEF CalmInv
  <2> QED
    BY <1>1, <2>1, <2>2, <2>3, <2>4 DEF LeaseForm, Extended, Released, Leaves
<1>3. CASE Spent(l) /\ leases[l].status # "absent"
  BY <1>1, <1>3, SpentStays
<1>4. ASSUME NEW w \in Workers, leases[l].worker = w, ~ Spent(l),
             loop[w].pc = "crashed" \/ (Busy(w) /\ loop[w].lease = l)
      PROVE  Over(l) \/ Held(l)
  <2>1. leases[l].status = "active"
    BY <1>4 DEF Spent
  <2>2. CASE leases'[l].status # "active"
    BY <2>2
  <2>3. leases'[l].status = "active" => leases'[l].worker = w
    BY <1>1, <1>4, <2>1 DEF Moves, Outside
  <2>4. ASSUME \/ loop'[w].pc = "crashed"
               \/ loop'[w].pc = loop[w].pc /\ loop'[w].lease = loop[w].lease
               \/ Busy(w) /\ Busy(w)' /\ loop'[w].lease = loop[w].lease
        PROVE  Over(l) \/ Held(l)
    BY <1>4, <2>2, <2>3, <2>4 DEF Busy
  <2>5. CASE Rests
    BY <1>4, <2>4, <2>5 DEF Rests, LoopRests, KeepsLease, Busy
  <2>6. ASSUME NEW v \in Workers, OthersRest(v), Busy(v) => Busy(v)' /\ KeepsLease(v),
               loop[v].pc # "crashed"
        PROVE  Over(l) \/ Held(l)
    <3>1. CASE v = w
      BY <1>4, <2>4, <2>6, <3>1 DEF KeepsLease
    <3>2. CASE v # w
      BY <2>4, <2>6, <3>2 DEF OthersRest
    <3> QED
      BY <3>1, <3>2
  <2>7. ASSUME NEW v \in Workers, NEW at \in Stamps, Leaves(v, at) PROVE Over(l) \/ Held(l)
    <3>1. CASE v = w
      <4>1. Leaves(w, now) /\ Busy(w)
        BY <2>7, <3>1, FreshStamps DEF CalmInv, WorkerInv, Leaves
      <4>2. loop[w].lease = l
        BY <1>4, <4>1 DEF Busy
      <4> QED
        BY <4>1, <4>2, LeftIsSpent DEF CalmInv
    <3>2. CASE v # w
      BY <2>4, <2>7, <3>2 DEF Leaves, OthersRest
    <3> QED
      BY <3>1, <3>2
  <2>8. ASSUME NEW h, NEW ms, NEW at, AbandonedBeats(h, ms, at) PROVE Over(l) \/ Held(l)
    BY <2>4, <2>8 DEF AbandonedBeats, workerVars
  <2>9. ASSUME NEW v \in Workers, NEW m, NEW at, Claims(v, m, at) PROVE Over(l) \/ Held(l)
    <3>1. OthersRest(v) /\ loop[v].pc = "polling"
      BY <2>9 DEF Claims
    <3> QED
      BY <2>6, <3>1 DEF Busy
  <2>10. ASSUME NEW v \in Workers, NEW at, Begins(v, at) \/ BeatsInVain(v, at)
         PROVE  Over(l) \/ Held(l)
    <3>1. OthersRest(v) /\ KeepsLease(v) /\ Busy(v)' /\ loop[v].pc # "crashed"
      BY <2>10 DEF Begins, BeatsInVain, Busy
    <3> QED
      BY <2>6, <3>1
  <2>11. ASSUME NEW v \in Workers, NEW ms, NEW at, Beats(v, ms, at) PROVE Over(l) \/ Held(l)
    <3>1. OthersRest(v) /\ KeepsLease(v) /\ Busy(v)' /\ loop[v].pc # "crashed"
      BY <2>11 DEF Beats, Busy
    <3> QED
      BY <2>6, <3>1
  <2> HIDE DEF Over, Held
  <2> QED
    BY <2>5, <2>7, <2>8, <2>9, <2>10, <2>11 DEF WorkerForm
<1> QED
  BY <1>2, <1>3, <1>4 DEF CalmInv, LeasesAccounted, AccountedFor

(* The attempt of a lease is reported once, by the loop that leaves it.      *)
LEMMA VerdictIsRecordedStep ==
  ASSUME Calm, CalmInv, WorkerForm, \A l \in Leases : LeaseForm(l)
  PROVE  VerdictIsRecorded'
<1> SUFFICES ASSUME NEW l \in Leases PROVE VerdictFits(attempts'[l], verdict'[l])
  BY DEF VerdictIsRecorded, VerdictFits
<1>1. VerdictFits(attempts[l], verdict[l])
  BY DEF CalmInv, VerdictIsRecorded, VerdictFits
<1>2. CASE attempts'[l] \notin Reported
  BY <1>2 DEF VerdictFits, Reported
<1>3. ASSUME attempts[l] \in Reported PROVE verdict'[l] = verdict[l]
  <2>1. \A w \in Workers : Busy(w) => loop[w].lease # l
    BY <1>3 DEF CalmInv, WorkerInv, BusyNames
  <2>2. CASE verdict' = verdict
    BY <2>2
  <2>3. ASSUME NEW w \in Workers, NEW at, Leaves(w, at) PROVE verdict'[l] = verdict[l]
    BY <2>1, <2>3 DEF Leaves
  <2> QED
    BY <2>2, <2>3 DEF WorkerForm, Rests, Claims, Begins, Beats, BeatsInVain, AbandonedBeats, workerVars
<1>4. CASE attempts'[l] = attempts[l]
  BY <1>1, <1>2, <1>3, <1>4
<1>5. ASSUME NEW w \in Workers, NEW a \in Reported, loop[w].lease = l, Leaves(w, now),
             Released(loop[w].task, l, w, now, a),
             loop[w].pc = "failing" \/ VerdictFits(a, verdict'[l])
      PROVE  VerdictFits(attempts'[l], verdict'[l])
  <2>1. attempts'[l] = a /\ Usable(loop[w].task, l, w, now)
    BY <1>5 DEF Released
  <2>2. loop[w].pc # "failing"
    <3>1. leases[l].expiresAt \in Int /\ now \in Nat
      BY DEF CalmInv, WorkerInv, IInv, TypeOK, LeaseRows
    <3> QED
      BY <1>5, <2>1, <3>1 DEF CalmInv, FailingSpent, Spent, Usable
  <2> QED
    BY <1>5, <2>1, <2>2
<1>6. LeaseForm(l)
  OBVIOUS
<1>7. CASE Outside(l)
  <2>1. attempts'[l] = attempts[l] \/ attempts'[l] \notin Reported
    BY <1>7 DEF Outside, Reported
  <2> QED
    BY <1>2, <1>4, <2>1
<1>8. ASSUME NEW w, Granted(l, w, now) PROVE VerdictFits(attempts'[l], verdict'[l])
  BY <1>2, <1>8 DEF Granted, Reported
<1>9. ASSUME NEW t, NEW w, NEW ms, Extended(t, l, w, ms, now)
      PROVE  VerdictFits(attempts'[l], verdict'[l])
  BY <1>4, <1>9 DEF Extended
<1> QED
  BY <1>5, <1>6, <1>7, <1>8, <1>9 DEF LeaseForm

LEMMA CalmStep ==
  ASSUME Calm, CalmInv, [WorkerNext]_<<vars, workerVars>>
  PROVE  CalmInv'
<1>1. WorkerInv /\ WorkerForm
  BY WorkerStepFits DEF CalmInv, Fits
<1>2. WorkerInv'
  BY <1>1, WorkerStep
<1>3. \A l \in Leases : LeaseForm(l)
  BY <1>1, FormIsLeaseForm
<1> QED
  BY <1>1, <1>2, <1>3, AbandonedSpentStep, FailingSpentStep, LeasesAccountedStep,
     VerdictIsRecordedStep DEF CalmInv

LEMMA CalmStart == WorkerInit => CalmInv
<1> SUFFICES ASSUME WorkerInit PROVE CalmInv
  OBVIOUS
<1>1. WorkerInv
  BY WorkerStart
<1>2. \A l \in Leases : leases[l].status = "absent" /\ attempts[l] = "absent"
  BY DEF WorkerInit, Init, AbsentLease
<1>3. abandoned = {} /\ \A w \in Workers : loop[w].pc = "polling"
  BY DEF WorkerInit, Idle
<1> QED
  BY <1>1, <1>2, <1>3 DEF CalmInv, AbandonedSpent, FailingSpent, LeasesAccounted, Spent,
     VerdictIsRecorded

LEMMA CalmInductive == ASSUME Calm PROVE WorkerSpec => []CalmInv
<1>1. CalmInv /\ [WorkerNext]_<<vars, workerVars>> => CalmInv'
  BY CalmStep
<1> QED
  BY <1>1, CalmStart, PTL DEF WorkerSpec

(* What the store has on record for an attempt is the verdict of the loop    *)
(* that had its lease, however its report raced with expiry, cancelRun and   *)
(* the timers.                                                               *)
THEOREM VerdictIsRecordedHolds == Calm => (WorkerSpec => []VerdictIsRecorded)
<1> SUFFICES ASSUME Calm PROVE WorkerSpec => []VerdictIsRecorded
  OBVIOUS
<1>1. CalmInv => VerdictIsRecorded
  BY DEF CalmInv
<1> QED
  BY <1>1, CalmInductive, PTL

(* A handler that was overtaken by a timer can neither extend nor end any    *)
(* lease: not the one it was started with, nor one its worker took since.    *)
THEOREM AbandonedIsPowerlessHolds == Calm => (WorkerSpec => []AbandonedIsPowerless)
<1> SUFFICES ASSUME Calm PROVE WorkerSpec => []AbandonedIsPowerless
  OBVIOUS
<1>1. ASSUME CalmInv, NEW h \in abandoned, AssertActiveLease(h.task, h.lease, h.worker, now)
      PROVE  FALSE
  <2>1. IInv /\ h.task \in Tasks /\ h.lease \in Leases /\ h.worker \in Workers
    BY <1>1, WorkerFacts DEF CalmInv, WorkerInv
  <2>2. leases[h.lease].status = "active" /\ leases[h.lease].expiresAt >= now
    BY <1>1, <2>1, LeaseDecides DEF Usable
  <2>3. leases[h.lease].expiresAt \in Int /\ now \in Nat
    BY <2>1 DEF IInv, TypeOK, LeaseRows
  <2> QED
    BY <1>1, <2>2, <2>3 DEF CalmInv, AbandonedSpent, Spent
<1>2. CalmInv => AbandonedIsPowerless
  BY <1>1 DEF AbandonedIsPowerless
<1> QED
  BY <1>2, CalmInductive, PTL

(* A worker that came to its end by itself leaves no lease that is still     *)
(* running, so nobody waits for it to run out.                               *)
THEOREM StoppedLeavesNoLeaseHolds == Calm => (WorkerSpec => []StoppedLeavesNoLease)
<1> SUFFICES ASSUME Calm PROVE WorkerSpec => []StoppedLeavesNoLease
  OBVIOUS
<1>1. ASSUME CalmInv, NEW w \in Workers, NEW l \in Leases, loop[w].pc = "stopped",
             leases[l].worker = w, leases[l].status = "active"
      PROVE  leases[l].expiresAt < now
  BY <1>1 DEF CalmInv, LeasesAccounted, AccountedFor, Spent, Busy
<1>2. CalmInv => StoppedLeavesNoLease
  BY <1>1 DEF StoppedLeavesNoLease
<1> QED
  BY <1>2, CalmInductive, PTL

(***************************************************************************)
(* BeatInv is inductive when timers are prompt too, and every deadline is  *)
(* at least one heartbeat away.                                            *)
(***************************************************************************)

\* Covered, of the next state.
CoveredNext(l, e) ==
  \/ leases'[l].status \in {"cancelled", "pruned"}
  \/ leases'[l].status = "active" /\ leases'[l].expiresAt >= e

LEMMA StaysCovered ==
  ASSUME IInv, NEW l \in Leases, NEW e \in Int, e >= now, Covered(l, e), Outside(l) \/ LeaseSame(l)
  PROVE  CoveredNext(l, e)
<1>1. now \in Nat /\ leases[l].expiresAt \in Int
  BY DEF IInv, TypeOK, LeaseRows
<1>2. CASE leases'[l] = leases[l]
  BY <1>2 DEF Covered, CoveredNext, RunsUntil
<1>3. CASE leases[l].status \in LeaseStatuses /\ leases'[l].status = "pruned"
  BY <1>3 DEF CoveredNext
<1>4. CASE leases[l].status = "active" /\ leases'[l].status = "cancelled"
  BY <1>4 DEF CoveredNext
<1>5. CASE leases[l].status = "active" /\ leases[l].expiresAt < now
  BY <1>1, <1>5 DEF Covered, RunsUntil
<1> QED
  BY <1>2, <1>3, <1>4, <1>5 DEF Outside, LeaseSame

(* A loop that goes on as it was, with a lease nobody else touches, while    *)
(* the clock waits for what is overdue.                                      *)
LEMMA RestsInTime ==
  ASSUME Proportionate, BeatInv, ClockRests, NEW w \in Workers, LoopRests(w),
         Busy(w) => Outside(loop[w].lease) \/ LeaseSame(loop[w].lease)
  PROVE  InTime(w)'
<1>1. IInv /\ now \in Nat /\ HeartbeatMs \in Nat /\ InTime(w) /\ loop[w] \in LoopRows
  BY WorkerFacts DEF BeatInv, BeatInTime, CalmInv, WorkerInv, WorkerTypeOK, IInv, TypeOK
<1>2. CASE loop'[w].pc \in {"crashed", "polling", "stopped"}
  BY <1>2 DEF InTime
<1>3. CASE /\ loop'[w].pc = loop[w].pc /\ KeepsLease(w) /\ loop'[w].nextBeat = loop[w].nextBeat
           /\ loop[w].aborted => loop'[w].aborted
  <2>1. CASE loop[w].pc = "claimed"
    <3>1. now' = now
      BY <2>1 DEF ClockRests, Proportionate, Overdue
    <3>2. loop[w].lease \in Leases /\ now + HeartbeatMs \in Int /\ now + HeartbeatMs >= now
      BY <1>1, <2>1, WorkerFacts DEF Busy, BeatInv, CalmInv
    <3>3. CoveredNext(loop[w].lease, now + HeartbeatMs)
      BY <1>1, <2>1, <3>2, StaysCovered DEF InTime, Busy
    <3> QED
      BY <1>3, <2>1, <3>1, <3>3 DEF InTime, Covered, CoveredNext, RunsUntil, KeepsLease
  <2>2. CASE loop[w].pc = "handling" /\ ~ loop[w].aborted
    <3> DEFINE b == loop[w].nextBeat
    <3>1. b \in Int /\ now =< b /\ b =< now + HeartbeatMs /\ Covered(loop[w].lease, b)
      BY <1>1, <2>2 DEF InTime, LoopRows
    <3>2. now' = now \/ (now' = now + 1 /\ ~ Due(b))
      BY <2>2 DEF ClockRests, Proportionate, Overdue
    <3>3. now' =< b /\ b =< now' + HeartbeatMs
      BY <1>1, <3>1, <3>2 DEF Due, NoTime
    <3>4. loop[w].lease \in Leases
      BY <2>2, WorkerFacts DEF Busy, BeatInv, CalmInv
    <3>5. CoveredNext(loop[w].lease, b)
      BY <1>1, <2>2, <3>1, <3>4, StaysCovered DEF Busy
    <3> HIDE DEF b
    <3>6. loop'[w].nextBeat = b
      BY <1>3 DEF b
    <3> QED
      BY <1>3, <2>2, <3>3, <3>5, <3>6 DEF InTime, Covered, CoveredNext, RunsUntil, KeepsLease
  <2>3. CASE loop[w].pc \notin {"claimed", "handling"} \/ (loop[w].pc = "handling" /\ loop[w].aborted)
    BY <1>3, <2>3 DEF InTime
  <2> QED
    BY <2>1, <2>2, <2>3
<1> QED
  BY <1>2, <1>3 DEF LoopRests

(* A loop whose row does not change.                                         *)
LEMMA OtherInTime ==
  ASSUME Proportionate, BeatInv, now' = now, NEW w \in Workers, loop'[w] = loop[w],
         Busy(w) => Outside(loop[w].lease) \/ LeaseSame(loop[w].lease)
  PROVE  InTime(w)'
<1>1. LoopRests(w)
  BY DEF LoopRests, KeepsLease
<1> QED
  BY <1>1, SameTime, RestsInTime

LEMMA ClaimInTime ==
  ASSUME Proportionate, BeatInv, NEW w \in Workers, NEW l \in Leases, Claims(w, l, now)
  PROVE  BeatInTime'
<1>1. LeaseMs \in Nat /\ HeartbeatMs \in Nat /\ HeartbeatMs =< LeaseMs
  BY WorkerFacts, WorkerAssumption DEF BeatInv, CalmInv, Proportionate
<1>2. now \in Nat /\ now' = now /\ OthersRest(w)
  BY DEF BeatInv, CalmInv, WorkerInv, IInv, TypeOK, Claims
<1>3. /\ loop'[w].pc = "claimed" /\ loop'[w].lease = l
      /\ leases'[l].status = "active" /\ leases'[l].expiresAt = now + LeaseMs
      /\ leases[l].status = "absent" /\ \A m \in Leases : m # l => Outside(m)
  BY DEF Claims, Granted
<1>4. ASSUME NEW v \in Workers, v # w PROVE InTime(v)'
  <2>1. Busy(v) => loop[v].lease \in Leases /\ leases[loop[v].lease].status # "absent"
    BY DEF BeatInv, CalmInv, WorkerInv, BusyNames, Names, NamesIn
  <2> QED
    BY <1>2, <1>3, <1>4, <2>1, OtherInTime DEF OthersRest
<1>5. InTime(w)'
  BY <1>1, <1>2, <1>3 DEF InTime, Covered, RunsUntil
<1> QED
  BY <1>4, <1>5 DEF BeatInTime

LEMMA BeginInTime ==
  ASSUME Proportionate, BeatInv, NEW w \in Workers, Begins(w, now)
  PROVE  BeatInTime'
<1>1. HeartbeatMs \in Nat /\ now \in Nat /\ now' = now /\ OthersRest(w) /\ Busy(w)
  BY WorkerFacts DEF BeatInv, CalmInv, WorkerInv, IInv, TypeOK, Begins, Busy
<1>2. \A v \in Workers : Busy(v) => loop[v].lease \in Leases
  BY WorkerFacts DEF BeatInv, CalmInv
<1>3. ASSUME NEW v \in Workers, v # w PROVE InTime(v)'
  BY <1>1, <1>2, <1>3, OtherInTime DEF OthersRest, Begins, Quiet
<1>4. InTime(w)'
  <2>1. /\ loop'[w].pc = "handling" /\ loop'[w].lease = loop[w].lease
        /\ loop'[w].nextBeat = now + HeartbeatMs /\ leases' = leases
    BY DEF Begins, KeepsLease
  <2>2. Covered(loop[w].lease, now + HeartbeatMs)
    BY DEF BeatInv, BeatInTime, InTime, Begins
  <2> QED
    BY <1>1, <2>1, <2>2 DEF InTime, Covered, RunsUntil
<1> QED
  BY <1>3, <1>4 DEF BeatInTime

LEMMA BeatKeepsTime ==
  ASSUME Proportionate, BeatInv, NEW w \in Workers,
         NEW ms \in {DefaultLeaseMs} \union HandlerBeats, Beats(w, ms, now)
  PROVE  BeatInTime'
<1>1. ms \in Nat /\ HeartbeatMs \in Nat /\ HeartbeatMs =< ms
  BY WorkerFacts, WorkerAssumption DEF BeatInv, CalmInv, Proportionate
<1>2. now \in Nat /\ now' = now /\ OthersRest(w) /\ Busy(w)
  BY DEF BeatInv, CalmInv, WorkerInv, IInv, TypeOK, Beats, Busy
<1>3. Extended(loop[w].task, loop[w].lease, w, ms, now)
  BY DEF Beats
<1>4. ASSUME NEW v \in Workers, v # w PROVE InTime(v)'
  <2>1. Busy(v) => loop[v].lease \in Leases /\ loop[v].lease # loop[w].lease
    BY <1>2, <1>4, WorkerFacts DEF BeatInv, CalmInv, WorkerInv, OwnLeases
  <2> QED
    BY <1>2, <1>3, <1>4, <2>1, OtherInTime DEF OthersRest, Extended
<1>5. InTime(w)'
  <2> DEFINE l == loop[w].lease
             b == loop'[w].nextBeat
  <2>1. /\ loop'[w].pc = "handling" /\ loop'[w].lease = l /\ loop'[w].aborted = loop[w].aborted
        /\ b \in {loop[w].nextBeat, now + HeartbeatMs}
        /\ leases'[l].status = "active" /\ leases'[l].expiresAt = now + ms
    BY <1>3 DEF Beats, KeepsLease, Extended
  <2>2. loop[w] \in LoopRows /\ InTime(w)
    BY DEF BeatInv, BeatInTime, CalmInv, WorkerInv, WorkerTypeOK
  <2>3. ~ loop[w].aborted => now =< b /\ b =< now + HeartbeatMs /\ b \in Int
    BY <1>1, <1>2, <2>1, <2>2 DEF InTime, LoopRows, Beats
  <2> HIDE DEF l
  <2>4. ~ loop[w].aborted => now + ms >= b
    BY <1>1, <1>2, <2>3
  <2> QED
    BY <1>2, <2>1, <2>3, <2>4 DEF InTime, Covered, RunsUntil
<1> QED
  BY <1>4, <1>5 DEF BeatInTime

LEMMA VainBeatInTime ==
  ASSUME Calm, Proportionate, BeatInv, NEW w \in Workers, BeatsInVain(w, now)
  PROVE  BeatInTime'
<1>1. HeartbeatMs \in Nat /\ now \in Nat /\ now' = now /\ OthersRest(w) /\ Busy(w)
  BY WorkerFacts DEF BeatInv, CalmInv, WorkerInv, IInv, TypeOK, BeatsInVain, Busy
<1>2. \A v \in Workers : Busy(v) => loop[v].lease \in Leases
  BY WorkerFacts DEF BeatInv, CalmInv
<1>3. ASSUME NEW v \in Workers, v # w PROVE InTime(v)'
  BY <1>1, <1>2, <1>3, OtherInTime DEF OthersRest, BeatsInVain
<1>4. ASSUME ~ loop[w].aborted PROVE leases[loop[w].lease].status \in {"cancelled", "pruned"}
  <2> DEFINE l == loop[w].lease
  <2>1. ~ Usable(loop[w].task, l, w, now) /\ Names(l, loop[w].task, w) /\ l \in Leases
    BY <1>1, <1>2, <1>4 DEF BeatsInVain, Calm, BeatInv, CalmInv, WorkerInv, BusyNames
  <2>2. InTime(w) /\ loop[w].nextBeat \in Int /\ leases[l].expiresAt \in Int
    BY <2>1 DEF BeatInv, BeatInTime, CalmInv, WorkerInv, WorkerTypeOK, LoopRows, IInv, TypeOK, LeaseRows
  <2>3. Covered(l, loop[w].nextBeat) /\ now =< loop[w].nextBeat
    BY <1>4, <2>2 DEF InTime, BeatsInVain
  <2> HIDE DEF l
  <2>4. ~ RunsUntil(l, loop[w].nextBeat)
    BY <1>1, <2>1, <2>2, <2>3 DEF RunsUntil, Usable, Names, NamesIn, LeaseStatuses
  <2> QED
    BY <2>3, <2>4 DEF Covered, l
<1>5. InTime(w)'
  <2>1. /\ loop'[w].pc = "handling" /\ loop'[w].lease = loop[w].lease
        /\ loop'[w].aborted = loop[w].aborted /\ loop'[w].nextBeat = now + HeartbeatMs
        /\ leases'[loop[w].lease] = leases[loop[w].lease]
    BY <1>1, <1>2 DEF BeatsInVain, KeepsLease, LeaseSame
  <2> QED
    BY <1>1, <1>4, <2>1 DEF InTime, Covered
<1> QED
  BY <1>3, <1>5 DEF BeatInTime

LEMMA LeaveInTime ==
  ASSUME Proportionate, BeatInv, NEW w \in Workers, Leaves(w, now)
  PROVE  BeatInTime'
<1>1. now' = now /\ OthersRest(w) /\ Busy(w)
  BY DEF Leaves
<1>2. ASSUME NEW v \in Workers, v # w PROVE InTime(v)'
  <2>1. Busy(v) => loop[v].lease \in Leases /\ loop[v].lease # loop[w].lease
    BY <1>1, <1>2, WorkerFacts DEF BeatInv, CalmInv, WorkerInv, OwnLeases
  <2>2. Busy(v) => LeaseSame(loop[v].lease)
    BY <2>1 DEF Leaves, Released
  <2> QED
    BY <1>1, <1>2, <2>2, OtherInTime DEF OthersRest
<1>3. InTime(w)'
  BY DEF InTime, Leaves
<1> QED
  BY <1>2, <1>3 DEF BeatInTime

LEMMA AbandonedBeatInTime ==
  ASSUME Proportionate, BeatInv, NEW h \in abandoned, NEW ms, AbandonedBeats(h, ms, now)
  PROVE  BeatInTime'
<1>1. now' = now /\ loop' = loop
  BY DEF AbandonedBeats, workerVars
<1>2. ASSUME NEW w \in Workers PROVE InTime(w)'
  <2>1. Busy(w) => loop[w].lease \in Leases /\ loop[w].lease # h.lease
    BY WorkerFacts DEF BeatInv, CalmInv, WorkerInv, OwnLeases
  <2>2. Busy(w) => LeaseSame(loop[w].lease)
    BY <2>1 DEF AbandonedBeats, Extended
  <2> QED
    BY <1>1, <2>2, OtherInTime
<1> QED
  BY <1>2 DEF BeatInTime

LEMMA BeatStep ==
  ASSUME Calm, Proportionate, BeatInv, [WorkerNext]_<<vars, workerVars>>
  PROVE  BeatInv'
<1>1. WorkerForm /\ CalmInv /\ IInv
  BY WorkerStepFits DEF BeatInv, CalmInv, WorkerInv, Fits
<1>2. CalmInv'
  BY <1>1, CalmStep
<1>3. ASSUME Rests PROVE BeatInTime'
  <2>1. \A w \in Workers : Busy(w) => loop[w].lease \in Leases
    BY <1>1, WorkerFacts DEF CalmInv
  <2>2. ASSUME NEW w \in Workers PROVE InTime(w)'
    BY <1>3, <2>1, RestsInTime DEF Rests, Quiet
  <2> QED
    BY <2>2 DEF BeatInTime
<1>4. \A at \in Stamps : at = now
  BY <1>1, FreshStamps
<1>5. BeatInTime'
  BY <1>1, <1>3, <1>4, ClaimInTime, BeginInTime, BeatKeepsTime, VainBeatInTime, LeaveInTime,
     AbandonedBeatInTime DEF WorkerForm
<1> QED
  BY <1>2, <1>5 DEF BeatInv

LEMMA BeatInductive == ASSUME Calm, Proportionate PROVE WorkerSpec => []BeatInv
<1>1. BeatInv /\ [WorkerNext]_<<vars, workerVars>> => BeatInv'
  BY BeatStep
<1>2. WorkerInit => BeatInv
  <2>1. WorkerInit => \A w \in Workers : loop[w].pc = "polling"
    BY DEF WorkerInit, Idle
  <2> QED
    BY <2>1, CalmStart DEF BeatInv, BeatInTime, InTime
<1> QED
  BY <1>1, <1>2, PTL DEF WorkerSpec

(* A handler that was not told to stop can still report its outcome, however *)
(* long it works: the interval timer extends the lease before it ends, given *)
(* a default lease, and leases the handler asks for, no shorter than the     *)
(* heartbeat interval.                                                       *)
THEOREM HandlerOwnsTaskHolds == Calm /\ Proportionate => (WorkerSpec => []HandlerOwnsTask)
<1> SUFFICES ASSUME Calm, Proportionate PROVE WorkerSpec => []HandlerOwnsTask
  OBVIOUS
<1>1. ASSUME BeatInv, NEW w \in Workers, loop[w].pc = "handling", ~ loop[w].aborted, ~ CalledOff(w)
      PROVE  OwnsTask(w)
  <2> DEFINE l == loop[w].lease
             t == loop[w].task
  <2>1. IInv /\ l \in Leases /\ t \in Tasks /\ Names(l, t, w)
    BY <1>1, WorkerFacts DEF BeatInv, CalmInv, WorkerInv, BusyNames, Busy
  <2>2. loop[w].nextBeat \in Int /\ leases[l].expiresAt \in Int /\ now \in Nat
    BY <1>1, <2>1 DEF BeatInv, CalmInv, WorkerInv, WorkerTypeOK, LoopRows, IInv, TypeOK, LeaseRows
  <2>3. RunsUntil(l, loop[w].nextBeat) /\ now =< loop[w].nextBeat
    BY <1>1 DEF BeatInv, BeatInTime, InTime, Covered, CalledOff
  <2>4. Usable(t, l, w, now)
    <3> HIDE DEF l, t
    <3> QED
      BY <2>1, <2>2, <2>3 DEF Usable, RunsUntil, Names, NamesIn, LeaseStatuses
  <2> QED
    BY <2>1, <2>4, LeaseDecides DEF OwnsTask
<1>2. BeatInv => HandlerOwnsTask
  BY <1>1 DEF HandlerOwnsTask
<1> QED
  BY <1>2, BeatInductive, PTL
=============================================================================
