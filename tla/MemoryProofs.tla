----------------------------- MODULE MemoryProofs -----------------------------
(***************************************************************************)
(* Machine-checked proofs about MemoryStore, for any number of workers,    *)
(* tasks and leases, for any number of calls that overlap, whichever ids   *)
(* are passed twice and whichever tasks are completed with nextContext.    *)
(*                                                                         *)
(* Between its writes and the end of its call a method of this store lets  *)
(* others run, so the stored status of a run may be out of date and the    *)
(* outcome of a task not yet on record.  The first half says what is still *)
(* true then: a status is out of date only while a call about the run is   *)
(* waiting, and no later call can take back what a waiting call is going   *)
(* to record of a plain task.                                              *)
(*                                                                         *)
(* The second half is about who holds a plain task, one whose id is passed *)
(* once and that is completed without nextContext.  Its row and the active *)
(* leases on it name each other, so that its holder can be read off its    *)
(* row.  What the rows of other tasks name, and what calls about them will *)
(* write, are leases that were granted and are not on a plain task.        *)
(***************************************************************************)
EXTENDS MemoryProperties, TableProofs

\* A call that has only its outcome to file, if it has a token, and its run to
\* recompute.
SettleCall(t, k, outcome) ==
  [pc |-> "settle", task |-> t, lease |-> Null, token |-> k, outcome |-> outcome,
   row |-> Null, leaseRow |-> Null]

\* completeTask with nextContext, before its writes.
ContextCalls ==
  [pc : {"snapshot", "write"}, task : WithContext, lease : Leases, token : OptionalTokens,
   outcome : {"completed"}, row : {row \in TaskRows : ~ row.dead}, leaseRow : LeaseRows]

Calls == {SettleCall(t, k, outcome) : t \in Tasks, k \in OptionalTokens,
                                      outcome \in {"completed", "failed"}}
         \union {SettleCall(t, Null, Null) : t \in Tasks}
         \union ContextCalls

\* Some call about run r is waiting.
Waiting(P, r) == \E i \in DOMAIN P : RunOf(P[i].task) = r

\* No operation takes back the outcome of a plain task's row like this one.
IsDecided(row, outcome) ==
  /\ outcome \in {"completed", "failed"}
  /\ row.status \in {outcome, "pruned"}
  /\ ~ row.dead

\* What is, or will be, on record of plain tasks.
Files(c) == c.token # Null /\ c.task \in Plain

Filed(C, k) == C[k] # Null /\ C[k].task \in Plain

\* Outcomes of plain tasks that are on record (C) or will be (P) are those of
\* the tasks (T), and no two of them are about the same task.
Fits(T, P, C) ==
  /\ \A i \in DOMAIN P : Files(P[i]) => IsDecided(T[P[i].task], P[i].outcome)
  /\ \A k \in Tokens : Filed(C, k) => IsDecided(T[C[k].task], C[k].outcome)
  /\ \A i, j \in DOMAIN P : i # j /\ Files(P[i]) /\ Files(P[j]) => P[i].task # P[j].task
  /\ \A i \in DOMAIN P, k \in Tokens : Files(P[i]) /\ Filed(C, k) => P[i].task # C[k].task
  /\ \A j, k \in Tokens : j # k /\ Filed(C, j) /\ Filed(C, k) => C[j].task # C[k].task

RecordsFit == Fits(tasks, pending, completions)

\* What a row alone promises, also one that was overwritten.
RowFits(row) ==
  /\ row.dead => row.status = "failed"
  /\ row.leaseId # Null => row.status \in HeldStatuses

\* A run that has, or had, tasks has been created.
RunKnown(t) == runs[RunOf(t)] # "absent"

MemInv ==
  /\ TypeOK
  /\ checked = {}
  /\ pending \in Seq(Calls)
  /\ \A t \in Tasks : RowFits(tasks[t])
  /\ \A t \in Tasks : tasks[t].status # "absent" => RunKnown(t)
  /\ \A i \in DOMAIN pending : RunKnown(pending[i].task)
  /\ RunStatusSettles
  /\ TerminalRunIsIdle
  /\ RecordsFit

(***************************************************************************)
(* The queue of waiting calls.                                             *)
(***************************************************************************)

(* What a call leaves when it has written is one of Calls.                   *)
LEMMA RestIsCall ==
  ASSUME NEW t \in Tasks, NEW k \in OptionalTokens, NEW o \in {"completed", "failed", Null},
         k # Null => o \in {"completed", "failed"}
  PROVE  /\ Rest("settle", t, Null, k, o) = SettleCall(t, k, o)
         /\ SettleCall(t, k, o) \in Calls
         /\ SettleCall(t, k, o).task = t
         /\ SettleCall(t, k, o).token = k
         /\ SettleCall(t, k, o).outcome = o
         /\ SettleCall(t, k, o).pc = "settle"
  BY DEF Rest, SettleCall, Calls

(* So is what completeTask with nextContext leaves, at each of its awaits.   *)
LEMMA ContextIsCall ==
  ASSUME TypeOK, NEW t \in WithContext, NEW l \in Leases, NEW k \in OptionalTokens, ~ tasks[t].dead
  PROVE  /\ Rest("snapshot", t, l, k, "completed") \in ContextCalls
         /\ Rest("snapshot", t, l, k, "completed") =
              [pc |-> "snapshot", task |-> t, lease |-> l, token |-> k, outcome |-> "completed",
               row |-> tasks[t], leaseRow |-> leases[l]]
<1>1. l # Null /\ tasks[t] \in TaskRows /\ leases[l] \in LeaseRows
  BY NullAssumption, PendingAssumption DEF TypeOK
<1> QED
  BY <1>1 DEF Rest, ContextCalls

LEMMA CallGoesOn ==
  ASSUME NEW c \in ContextCalls
  PROVE  /\ [c EXCEPT !.pc = "write"] \in ContextCalls
         /\ [c EXCEPT !.pc = "write"].task = c.task
         /\ [c EXCEPT !.pc = "write"].lease = c.lease
         /\ [c EXCEPT !.pc = "write"].leaseRow = c.leaseRow
  BY DEF ContextCalls

LEMMA CallFields ==
  ASSUME NEW c \in Calls
  PROVE  /\ c.task \in Tasks /\ c.token \in OptionalTokens
         /\ c.token # Null => c.outcome \in {"completed", "failed"}
         /\ c.pc = "settle" \/ c \in ContextCalls
         /\ c \in ContextCalls => c.pc # "settle" /\ c.task \in WithContext
<1>1. CASE c \in ContextCalls
  BY <1>1, PendingAssumption DEF ContextCalls
<1>2. ASSUME NEW t \in Tasks, NEW k \in OptionalTokens, NEW o,
             k # Null => o \in {"completed", "failed"}, c = SettleCall(t, k, o)
      PROVE  /\ c.task \in Tasks /\ c.token \in OptionalTokens
             /\ c.token # Null => c.outcome \in {"completed", "failed"}
             /\ c.pc = "settle"
  BY <1>2 DEF SettleCall
<1>3. c \in ContextCalls => c.pc # "settle" /\ c.task \in WithContext
  BY DEF ContextCalls
<1> QED
  BY <1>1, <1>2, <1>3 DEF Calls, OptionalTokens

(* One call more at the end of the queue, one less at its head.              *)
LEMMA CallAppended ==
  ASSUME NEW P \in Seq(Calls), NEW c \in Calls
  PROVE  /\ Append(P, c) \in Seq(Calls)
         /\ DOMAIN Append(P, c) = DOMAIN P \union {Len(P) + 1}
         /\ Len(P) + 1 \notin DOMAIN P
         /\ Append(P, c)[Len(P) + 1] = c
         /\ \A i \in DOMAIN P : Append(P, c)[i] = P[i]
  OBVIOUS

LEMMA CallRemoved ==
  ASSUME NEW P \in Seq(Calls), P # <<>>
  PROVE  /\ Tail(P) \in Seq(Calls)
         /\ 1 \in DOMAIN P /\ Head(P) = P[1] /\ Head(P) \in Calls
         /\ \A i \in DOMAIN Tail(P) : i \in Nat /\ i + 1 \in DOMAIN P /\ i + 1 # 1 /\ Tail(P)[i] = P[i + 1]
         /\ \A i \in DOMAIN P : i # 1 => i - 1 \in DOMAIN Tail(P) /\ Tail(P)[i - 1] = P[i]
  OBVIOUS

LEMMA CallsTyped ==
  ASSUME NEW P \in Seq(Calls), NEW i \in DOMAIN P
  PROVE  P[i] \in Calls
  OBVIOUS

(* Who waits, after the queue has grown or shrunk.                           *)
LEMMA WaitingAppended ==
  ASSUME NEW P \in Seq(Calls), NEW c \in Calls, NEW r
  PROVE  Waiting(Append(P, c), r) <=> Waiting(P, r) \/ RunOf(c.task) = r
  BY CallAppended DEF Waiting

LEMMA WaitingRemoved ==
  ASSUME NEW P \in Seq(Calls), P # <<>>, NEW r, Waiting(P, r), RunOf(Head(P).task) # r
  PROVE  Waiting(Tail(P), r)
<1>1. PICK i \in DOMAIN P : RunOf(P[i].task) = r
  BY DEF Waiting
<1>2. i # 1
  BY <1>1, CallRemoved
<1> QED
  BY <1>1, <1>2, CallRemoved DEF Waiting

(* RunStatusSettles, run by run, on the current state and on the next one.   *)
LEMMA SettlesEach ==
  /\ RunStatusSettles <=> \A r \in Runs \ Reused : ~ Waiting(pending, r) => StatusIsDerived(r)
  /\ RunStatusSettles' <=> \A r \in Runs \ Reused : ~ Waiting(pending', r) => StatusIsDerived(r)'
<1>1. RunStatusSettles <=> \A r \in Runs \ Reused : ~ Waiting(pending, r) => StatusIsDerived(r)
  BY DEF RunStatusSettles, StatusSettles, Unsettled, Waiting, StatusIsDerived
<1>2. RunStatusSettles' <=> \A r \in Runs \ Reused : ~ Waiting(pending', r) => StatusIsDerived(r)'
  BY DEF RunStatusSettles, StatusSettles, Unsettled, Waiting, StatusIsDerived, StatusesIn, TasksOf, RunOf
<1> QED
  BY <1>1, <1>2

LEMMA FitsNext == RecordsFit' <=> Fits(tasks', pending', completions')
  BY DEF RecordsFit, Fits, IsDecided, Files, Filed, Plain

(***************************************************************************)
(* Records.                                                                *)
(***************************************************************************)

(* Decided rows stay decided, records stay or are deleted: nothing to do.    *)
LEMMA FitsStays ==
  ASSUME NEW T, NEW T2, NEW P, NEW C, NEW C2, Fits(T, P, C),
         \A t \in Plain, o \in {"completed", "failed"} : IsDecided(T[t], o) => IsDecided(T2[t], o),
         \A k \in Tokens : C2[k] = C[k] \/ C2[k] = Null
  PROVE  Fits(T2, P, C2)
<1>1. ASSUME NEW i \in DOMAIN P, Files(P[i]) PROVE IsDecided(T2[P[i].task], P[i].outcome)
  <2>1. IsDecided(T[P[i].task], P[i].outcome) /\ P[i].task \in Plain
    BY <1>1 DEF Fits, Files
  <2> QED
    BY <2>1 DEF IsDecided
<1>2. ASSUME NEW k \in Tokens, Filed(C2, k) PROVE Filed(C, k) /\ C2[k] = C[k]
  BY <1>2 DEF Filed
<1>3. ASSUME NEW k \in Tokens, Filed(C2, k) PROVE IsDecided(T2[C2[k].task], C2[k].outcome)
  <2>1. IsDecided(T[C2[k].task], C2[k].outcome) /\ C2[k].task \in Plain
    BY <1>2, <1>3 DEF Fits, Filed
  <2> QED
    BY <2>1 DEF IsDecided
<1>4. /\ \A i, j \in DOMAIN P : i # j /\ Files(P[i]) /\ Files(P[j]) => P[i].task # P[j].task
      /\ \A i \in DOMAIN P, k \in Tokens : Files(P[i]) /\ Filed(C2, k) => P[i].task # C2[k].task
      /\ \A j, k \in Tokens : j # k /\ Filed(C2, j) /\ Filed(C2, k) => C2[j].task # C2[k].task
  BY <1>2 DEF Fits
<1> QED
  BY <1>1, <1>3, <1>4 DEF Fits

(* A call joins the queue: if it is to file an outcome of a plain task, that *)
(* of its task is decided, and it was not when the other outcomes were.      *)
LEMMA FitsOneMore ==
  ASSUME NEW T, NEW P \in Seq(Calls), NEW C, NEW c \in Calls, Fits(T, P, C),
         Files(c) =>
           /\ IsDecided(T[c.task], c.outcome)
           /\ \A i \in DOMAIN P : Files(P[i]) => P[i].task # c.task
           /\ \A k \in Tokens : Filed(C, k) => C[k].task # c.task
  PROVE  Fits(T, Append(P, c), C)
<1> DEFINE Q == Append(P, c)
           n == Len(P) + 1
<1>1. /\ DOMAIN Q = DOMAIN P \union {n} /\ n \notin DOMAIN P /\ Q[n] = c
      /\ \A i \in DOMAIN P : Q[i] = P[i]
  BY CallAppended
<1> HIDE DEF Q, n
<1>2. \A i \in DOMAIN Q : Files(Q[i]) => IsDecided(T[Q[i].task], Q[i].outcome)
  BY <1>1 DEF Fits
<1>3. \A i, j \in DOMAIN Q : i # j /\ Files(Q[i]) /\ Files(Q[j]) => Q[i].task # Q[j].task
  BY <1>1 DEF Fits
<1>4. \A i \in DOMAIN Q, k \in Tokens : Files(Q[i]) /\ Filed(C, k) => Q[i].task # C[k].task
  BY <1>1 DEF Fits
<1>5. Fits(T, Q, C)
  BY <1>2, <1>3, <1>4 DEF Fits
<1> QED
  BY <1>5 DEF Q

(* The oldest call leaves the queue.                                         *)
LEMMA FitsTail ==
  ASSUME NEW T, NEW P \in Seq(Calls), P # <<>>, NEW C, Fits(T, P, C)
  PROVE  Fits(T, Tail(P), C)
<1> DEFINE Q == Tail(P)
<1>1. \A i \in DOMAIN Q : i \in Nat /\ i + 1 \in DOMAIN P /\ i + 1 # 1 /\ Q[i] = P[i + 1]
  BY CallRemoved
<1> HIDE DEF Q
<1>2. \A i \in DOMAIN Q : Files(Q[i]) => IsDecided(T[Q[i].task], Q[i].outcome)
  BY <1>1 DEF Fits
<1>3. ASSUME NEW i \in DOMAIN Q, NEW j \in DOMAIN Q, i # j, Files(Q[i]), Files(Q[j])
      PROVE  Q[i].task # Q[j].task
  <2>1. i + 1 # j + 1
    BY <1>1, <1>3
  <2> QED
    BY <1>1, <1>3, <2>1 DEF Fits
<1>4. \A i \in DOMAIN Q, k \in Tokens : Files(Q[i]) /\ Filed(C, k) => Q[i].task # C[k].task
  BY <1>1 DEF Fits
<1>5. Fits(T, Q, C)
  BY <1>2, <1>3, <1>4 DEF Fits
<1> QED
  BY <1>5 DEF Q

(* It also files its outcome.                                                *)
LEMMA FitsOneLess ==
  ASSUME NEW T, NEW P \in Seq(Calls), P # <<>>, NEW C, NEW C2, Fits(T, P, C),
         \A k \in Tokens : IF k = Head(P).token
                             THEN C2[k] = [task |-> Head(P).task, outcome |-> Head(P).outcome]
                             ELSE C2[k] = C[k]
  PROVE  Fits(T, Tail(P), C2)
<1> DEFINE Q == Tail(P)
           c == Head(P)
<1>1. /\ 1 \in DOMAIN P /\ c = P[1] /\ c \in Calls
      /\ \A i \in DOMAIN Q : i \in Nat /\ i + 1 \in DOMAIN P /\ i + 1 # 1 /\ Q[i] = P[i + 1]
      /\ Fits(T, Q, C)
  BY CallRemoved, FitsTail
<1> HIDE DEF Q, c
<1>2. ASSUME NEW k \in Tokens, k = c.token, Filed(C2, k)
      PROVE  /\ C2[k].task = c.task /\ C2[k].outcome = c.outcome
             /\ IsDecided(T[c.task], c.outcome)
             /\ \A i \in DOMAIN Q : Files(Q[i]) => Q[i].task # c.task
             /\ \A j \in Tokens : Filed(C, j) => C[j].task # c.task
  <2>1. k # Null
    BY NullAssumption
  <2>2. C2[k] = [task |-> c.task, outcome |-> c.outcome]
    BY <1>2 DEF c
  <2>3. Files(c)
    BY <1>2, <2>1, <2>2 DEF Files, Filed
  <2>4. /\ IsDecided(T[c.task], c.outcome)
        /\ \A j \in Tokens : Filed(C, j) => C[j].task # c.task
    BY <1>1, <2>3 DEF Fits
  <2>5. \A i \in DOMAIN Q : Files(Q[i]) => Q[i].task # c.task
    BY <1>1, <2>3 DEF Fits
  <2> QED
    BY <2>2, <2>4, <2>5
<1>3. ASSUME NEW k \in Tokens, k # c.token, Filed(C2, k) PROVE C2[k] = C[k] /\ Filed(C, k)
  BY <1>3 DEF c, Filed
<1>4. \A k \in Tokens : Filed(C2, k) => IsDecided(T[C2[k].task], C2[k].outcome)
  BY <1>1, <1>2, <1>3 DEF Fits
<1>5. \A i \in DOMAIN Q, k \in Tokens : Files(Q[i]) /\ Filed(C2, k) => Q[i].task # C2[k].task
  BY <1>1, <1>2, <1>3 DEF Fits
<1>6. \A j, k \in Tokens : j # k /\ Filed(C2, j) /\ Filed(C2, k) => C2[j].task # C2[k].task
  BY <1>1, <1>2, <1>3 DEF Fits
<1>7. Fits(T, Q, C2)
  BY <1>1, <1>4, <1>5, <1>6 DEF Fits
<1> QED
  BY <1>7 DEF Q

(***************************************************************************)
(* Runs.                                                                   *)
(***************************************************************************)

(* Enough for an operation that recomputes the runs R while the tasks are T  *)
(* and then, or only, moves tasks of the runs Q, about which a call waits.   *)
LEMMA SettledSound ==
  ASSUME MemInv, NEW R, NEW Q, NEW T,
         runs' = Recompute(R, T),
         \A t \in Tasks : RunOf(t) \notin R => T[t].status = tasks[t].status,
         \A t \in Tasks : RunOf(t) \notin Q => tasks'[t].status = T[t].status,
         \A r \in Runs : runs'[r] \in RunStatuses /\ ~ Waiting(pending', r) =>
                         r \notin Q /\ (~ Waiting(pending, r) \/ r \in R)
  PROVE  RunStatusSettles'
<1> SUFFICES ASSUME NEW r \in Runs \ Reused, runs'[r] \in RunStatuses, ~ Waiting(pending', r)
             PROVE  runs'[r] = DeriveRunStatus(runs'[r], StatusesIn(r, tasks'))
  BY SettlesEach DEF StatusIsDerived, StatusesIn, TasksOf, RunOf
<1>1. StatusesIn(r, tasks') = StatusesIn(r, T)
  BY SameStatuses
<1>2. runs'[r] = IF r \in R THEN DeriveRunStatus(runs[r], StatusesIn(r, T)) ELSE runs[r]
  BY DEF Recompute
<1>3. CASE r \in R
  BY <1>1, <1>2, <1>3, StatusesType, DeriveIdempotent
<1>4. CASE r \notin R
  <2>1. StatusesIn(r, T) = StatusesIn(r, tasks)
    BY <1>4, SameStatuses
  <2>2. runs'[r] = runs[r] /\ ~ Waiting(pending, r)
    BY <1>2, <1>4
  <2> QED
    BY <1>1, <2>1, <2>2, SettlesEach DEF MemInv, StatusIsDerived
<1> QED
  BY <1>3, <1>4

(* A run that exists, or did, is never again one that was not created.       *)
LEMMA RecomputeKnown ==
  ASSUME NEW R, NEW T, NEW r \in Runs, runs[r] # "absent"
  PROVE  Recompute(R, T)[r] # "absent"
<1>1. \A S : DeriveRunStatus(runs[r], S) # "absent"
  BY DEF DeriveRunStatus
<1> QED
  BY <1>1 DEF Recompute

(* A run is not over after a recompute that found one of its tasks held, nor *)
(* if it was left alone.                                                     *)
LEMMA IdleSound ==
  ASSUME TerminalRunIsIdle, NEW R, NEW T, runs' = Recompute(R, T), NEW t \in Tasks,
         T[t].status \in HeldStatuses, tasks[t].status \in HeldStatuses
  PROVE  runs'[RunOf(t)] \notin TerminalRunStatuses
<1>1. RunOf(t) \in Runs
  BY InputAssumption DEF InputRecords, RunOf
<1>2. CASE RunOf(t) \in R
  <2>1. StatusesIn(RunOf(t), T) \intersect HeldStatuses # {}
    BY DEF StatusesIn, TasksOf, HeldStatuses, TaskStatuses
  <2>2. runs'[RunOf(t)] = "active"
    BY <1>1, <1>2, <2>1, DeriveHeld DEF Recompute
  <2> QED
    BY <2>2 DEF TerminalRunStatuses
<1>3. CASE RunOf(t) \notin R
  BY <1>1, <1>3 DEF Recompute, TerminalRunIsIdle
<1> QED
  BY <1>2, <1>3

LEMMA IdleNext ==
  TerminalRunIsIdle' <=>
    \A t \in Tasks : tasks'[t].status \in HeldStatuses => runs'[RunOf(t)] \notin TerminalRunStatuses
  BY DEF TerminalRunIsIdle, RunOf

(* Recomputing no run is leaving the runs alone.                             *)
LEMMA RecomputeNone ==
  ASSUME TypeOK, NEW T
  PROVE  Recompute({}, T) = runs
  BY DEF Recompute, TypeOK

(* A task whose status is the same or that is held no more has an idle run   *)
(* if it had one before.                                                     *)
LEMMA IdleStays ==
  ASSUME TerminalRunIsIdle, NEW R, NEW T, runs' = Recompute(R, T),
         \A t \in Tasks : tasks'[t].status \in HeldStatuses =>
           T[t].status \in HeldStatuses /\ tasks[t].status \in HeldStatuses
  PROVE  TerminalRunIsIdle'
<1>1. ASSUME NEW t \in Tasks, tasks'[t].status \in HeldStatuses
      PROVE  runs'[RunOf(t)] \notin TerminalRunStatuses
  <2>1. T[t].status \in HeldStatuses /\ tasks[t].status \in HeldStatuses
    BY <1>1
  <2> QED
    BY <2>1, IdleSound
<1> QED
  BY <1>1, IdleNext

(***************************************************************************)
(* The invariant, by what happens to the queue.                            *)
(***************************************************************************)

OutcomeKept(t) ==
  \A outcome \in {"completed", "failed"} : IsDecided(tasks[t], outcome) => IsDecided(tasks'[t], outcome)

\* What every operation must show of the tables.
Steady ==
  /\ TypeOK' /\ checked' = {}
  /\ \A t \in Tasks : RowFits(tasks'[t])
  /\ \A t \in Tasks : tasks'[t].status # "absent" => runs'[RunOf(t)] # "absent"
  /\ \A r \in Runs : runs[r] # "absent" => runs'[r] # "absent"
  /\ \A t \in Plain : OutcomeKept(t)
  /\ TerminalRunIsIdle'

\* The calls of queue Q are about runs that have been created.
KnownNext(Q) == \A i \in DOMAIN Q : runs'[RunOf(Q[i].task)] # "absent"

LEMMA KnownStays ==
  ASSUME MemInv, Steady
  PROVE  KnownNext(pending)
<1> SUFFICES ASSUME NEW i \in DOMAIN pending PROVE runs'[RunOf(pending[i].task)] # "absent"
  BY DEF KnownNext
<1>1. pending[i].task \in Tasks /\ runs[RunOf(pending[i].task)] # "absent"
  BY CallsTyped, CallFields DEF MemInv, RunKnown
<1>2. RunOf(pending[i].task) \in Runs
  BY <1>1, InputAssumption DEF InputRecords, RunOf
<1> QED
  BY <1>1, <1>2 DEF Steady

LEMMA SteadyInv ==
  ASSUME Steady, pending' \in Seq(Calls), KnownNext(pending'), RunStatusSettles',
         Fits(tasks', pending', completions')
  PROVE  MemInv'
  BY FitsNext DEF Steady, MemInv, KnownNext, RunKnown, RowFits, RunOf

(* Operations that neither join nor leave the queue.                         *)
LEMMA QueueStays ==
  ASSUME MemInv, Steady, pending' = pending, RunStatusSettles',
         \A k \in Tokens : completions'[k] = completions[k] \/ completions'[k] = Null
  PROVE  MemInv'
<1>1. Fits(tasks', pending', completions')
  BY FitsStays DEF MemInv, RecordsFit, Steady, OutcomeKept
<1>2. pending' \in Seq(Calls) /\ KnownNext(pending')
  BY KnownStays DEF MemInv
<1> QED
  BY <1>1, <1>2, SteadyInv

(* Operations that write, recomputing runs R on the way while the tasks are  *)
(* T, and leave a call that is to recompute the run of its task.             *)
LEMMA CallJoins ==
  ASSUME MemInv, Steady, completions' = completions,
         NEW c \in Calls, pending' = Append(pending, c), runs'[RunOf(c.task)] # "absent",
         NEW R, NEW T, runs' = Recompute(R, T),
         \A t \in Tasks : RunOf(t) \notin R => T[t].status = tasks[t].status,
         \A t \in Tasks : t # c.task => tasks'[t].status = T[t].status,
         Files(c) => /\ \A o : ~ IsDecided(tasks[c.task], o)
                     /\ IsDecided(tasks'[c.task], c.outcome)
  PROVE  MemInv'
<1>1. Fits(tasks, pending, completions) /\ pending \in Seq(Calls)
  BY DEF MemInv, RecordsFit
<1>2. Fits(tasks', pending, completions')
  BY <1>1, FitsStays DEF Steady, OutcomeKept
<1>3. ASSUME Files(c)
      PROVE  /\ IsDecided(tasks'[c.task], c.outcome)
             /\ \A i \in DOMAIN pending : Files(pending[i]) => pending[i].task # c.task
             /\ \A k \in Tokens : Filed(completions', k) => completions'[k].task # c.task
  BY <1>1, <1>3 DEF Fits
<1>4. Fits(tasks', pending', completions')
  BY <1>1, <1>2, <1>3, FitsOneMore
<1>5. pending' \in Seq(Calls)
  BY <1>1, CallAppended
<1>6. KnownNext(pending')
  BY <1>1, KnownStays, CallAppended DEF KnownNext
<1>7. RunStatusSettles'
  <2> DEFINE Q == {RunOf(c.task)}
  <2>1. \A r \in Runs : runs'[r] \in RunStatuses /\ ~ Waiting(pending', r) =>
                        r \notin Q /\ (~ Waiting(pending, r) \/ r \in R)
    BY <1>1, WaitingAppended
  <2>2. \A t \in Tasks : RunOf(t) \notin Q => tasks'[t].status = T[t].status
    OBVIOUS
  <2> HIDE DEF Q
  <2> QED
    BY <2>1, <2>2, SettledSound
<1> QED
  BY <1>4, <1>5, <1>6, <1>7, SteadyInv

(* The oldest call goes on and waits again, with c to do; it is not about a  *)
(* plain task.                                                               *)
LEMMA CallRejoins ==
  ASSUME MemInv, Steady, completions' = completions, runs' = runs,
         pending # <<>>, NEW c \in Calls, pending' = Append(Tail(pending), c),
         c.task = Head(pending).task, c.task \notin Plain,
         \A t \in Tasks : t # c.task => tasks'[t].status = tasks[t].status
  PROVE  MemInv'
<1>1. Fits(tasks, pending, completions) /\ pending \in Seq(Calls) /\ TypeOK
  BY DEF MemInv, RecordsFit
<1>2. Tail(pending) \in Seq(Calls)
  BY <1>1, CallRemoved
<1>3. Fits(tasks', pending, completions')
  BY <1>1, FitsStays DEF Steady, OutcomeKept
<1>4. Fits(tasks', Tail(pending), completions')
  BY <1>1, <1>3, FitsTail
<1>5. Fits(tasks', pending', completions')
  BY <1>2, <1>4, FitsOneMore DEF Files
<1>6. pending' \in Seq(Calls)
  BY <1>2, CallAppended
<1>7. KnownNext(pending')
  <2>1. KnownNext(pending)
    BY KnownStays
  <2>2. KnownNext(Tail(pending))
    BY <1>1, <2>1, CallRemoved DEF KnownNext
  <2>3. runs'[RunOf(c.task)] # "absent"
    BY <1>1, <2>1, CallRemoved DEF KnownNext
  <2> QED
    BY <1>2, <2>2, <2>3, CallAppended DEF KnownNext
<1>8. RunStatusSettles'
  <2> DEFINE Q == {RunOf(c.task)}
             N == {}
  <2>1. \A r \in Runs : Waiting(pending, r) => Waiting(pending', r)
    BY <1>1, <1>2, WaitingRemoved, WaitingAppended
  <2>2. \A r \in Runs : runs'[r] \in RunStatuses /\ ~ Waiting(pending', r) =>
                        r \notin Q /\ (~ Waiting(pending, r) \/ r \in N)
    BY <1>2, <2>1, WaitingAppended
  <2>3. /\ \A t \in Tasks : RunOf(t) \notin Q => tasks'[t].status = tasks[t].status
        /\ \A t \in Tasks : RunOf(t) \notin N => tasks[t].status = tasks[t].status
        /\ runs' = Recompute(N, tasks)
    BY <1>1, RecomputeNone
  <2> HIDE DEF Q, N
  <2> QED
    BY <2>2, <2>3, SettledSound
<1> QED
  BY <1>5, <1>6, <1>7, <1>8, SteadyInv

(***************************************************************************)
(* Operations that finish later.                                           *)
(***************************************************************************)

(* Whoever passes assertActiveLease names a held task.                       *)
LEMMA AssertedIsHeld ==
  ASSUME MemInv, NEW t \in Tasks, NEW l \in Leases, NEW w, AssertActiveLease(t, l, w, now)
  PROVE  /\ tasks[t].status \in HeldStatuses
         /\ ~ tasks[t].dead
         /\ \A o : ~ IsDecided(tasks[t], o)
         /\ RunKnown(t)
<1>1. tasks[t].leaseId # Null
  BY NullAssumption DEF AssertActiveLease
<1>2. RowFits(tasks[t])
  BY DEF MemInv
<1>3. tasks[t].status \in HeldStatuses /\ ~ tasks[t].dead
  BY <1>1, <1>2 DEF RowFits, HeldStatuses
<1>4. \A o : ~ IsDecided(tasks[t], o)
  BY <1>3 DEF IsDecided, HeldStatuses
<1>5. RunKnown(t)
  BY <1>3 DEF MemInv, HeldStatuses
<1> QED
  BY <1>3, <1>4, <1>5

(* An operation on the row of task t, but no claim.                          *)
LEMMA OneRowSteady ==
  ASSUME MemInv, TypeOK', checked' = checked, runs' = runs,
         NEW t \in Tasks, \A u \in Tasks : u # t => tasks'[u] = tasks[u],
         RowFits(tasks'[t]), RunKnown(t), t \in Plain => OutcomeKept(t),
         tasks'[t].status \in HeldStatuses => tasks[t].status \in HeldStatuses
  PROVE  Steady
<1>1. runs' = Recompute({}, tasks)
  BY RecomputeNone DEF MemInv
<1>2. TerminalRunIsIdle'
  <2>1. \A u \in Tasks : tasks'[u].status \in HeldStatuses => tasks[u].status \in HeldStatuses
    OBVIOUS
  <2> QED
    BY <1>1, <2>1, IdleStays DEF MemInv
<1>3. \A u \in Tasks : RowFits(tasks'[u])
  BY DEF MemInv
<1>4. \A u \in Tasks : tasks'[u].status # "absent" => runs'[RunOf(u)] # "absent"
  BY DEF MemInv, RunKnown
<1>5. \A u \in Plain : OutcomeKept(u)
  BY DEF OutcomeKept, Plain
<1> QED
  BY <1>2, <1>3, <1>4, <1>5 DEF Steady, MemInv

LEMMA TouchOne ==
  ASSUME MemInv, TablesTyped(tasks', leases', attempts', checked'),
         UNCHANGED <<now, runs, completions, checked>>,
         NEW c \in Calls, pending' = Append(pending, c),
         \A u \in Tasks : u # c.task => tasks'[u] = tasks[u],
         RowFits(tasks'[c.task]), RunKnown(c.task), c.task \in Plain => OutcomeKept(c.task),
         tasks'[c.task].status \in HeldStatuses => tasks[c.task].status \in HeldStatuses,
         Files(c) => /\ \A o : ~ IsDecided(tasks[c.task], o)
                     /\ IsDecided(tasks'[c.task], c.outcome)
  PROVE  MemInv'
<1>1. TypeOK /\ TypeOK' /\ c.task \in Tasks
  BY CallFields DEF MemInv, TypeOK, TablesTyped
<1>2. Steady
  BY <1>1, OneRowSteady
<1>3. runs' = Recompute({}, tasks)
  BY <1>1, RecomputeNone
<1>4. runs'[RunOf(c.task)] # "absent"
  BY DEF RunKnown
<1>5. /\ \A t \in Tasks : t # c.task => tasks'[t].status = tasks[t].status
      /\ \A t \in Tasks : RunOf(t) \notin {} => tasks[t].status = tasks[t].status
  OBVIOUS
<1> QED
  BY <1>2, <1>3, <1>4, <1>5, CallJoins

(* Pausing, releasing, completing and failing.                               *)
LEMMA LeaveMem ==
  ASSUME MemInv, NEW t \in Tasks, NEW l \in Leases, NEW w \in Workers,
         NEW to \in TaskStatuses \ HeldStatuses, NEW a \in AttemptStatuses \ HeldStatuses,
         NEW k \in OptionalTokens, NEW o \in {"completed", "failed", Null},
         LeaveLease(t, l, w, to, a), Later(Rest("settle", t, Null, k, o)),
         k # Null => o = to /\ to \in {"completed", "failed"}
  PROVE  MemInv'
<1> DEFINE c == SettleCall(t, k, o)
<1>1. TypeOK /\ tasks \in [Tasks -> TaskRows]
  BY DEF MemInv, TypeOK
<1>2. LeavesLease(t, l, w, now, to, a) /\ UNCHANGED <<now, runs, completions, checked>>
  BY DEF LeaveLease, LeavesLease
<1>3. TablesTyped(tasks', leases', attempts', checked')
  BY <1>1, <1>2, LeaveType
<1>4. c \in Calls /\ c.task = t /\ c.token = k /\ c.outcome = o /\ pending' = Append(pending, c)
  BY RestIsCall DEF Later
<1>5. /\ ~ tasks[t].dead /\ RunKnown(t) /\ tasks[t].status \in HeldStatuses
      /\ \A x : ~ IsDecided(tasks[t], x)
  BY <1>2, AssertedIsHeld DEF LeavesLease
<1>6. /\ tasks'[t].status = to /\ tasks'[t].dead = tasks[t].dead /\ tasks'[t].leaseId = Null
      /\ \A u \in Tasks : u # t => tasks'[u] = tasks[u]
  BY <1>1, <1>2, WithoutLeaseRow DEF LeavesLease
<1>7. /\ RowFits(tasks'[t]) /\ OutcomeKept(t)
      /\ k # Null => IsDecided(tasks'[t], o)
  BY <1>5, <1>6 DEF RowFits, OutcomeKept, IsDecided
<1> HIDE DEF c
<1> QED
  BY <1>2, <1>3, <1>4, <1>5, <1>6, <1>7, TouchOne DEF Files

LEMMA MarkRunningMem ==
  ASSUME MemInv, NEW t \in Tasks, NEW l \in Leases, NEW w \in Workers,
         MemoryMarkTaskRunning(t, l, w)
  PROVE  MemInv'
<1> DEFINE c == SettleCall(t, Null, Null)
<1>1. TypeOK /\ tasks \in [Tasks -> TaskRows]
  BY DEF MemInv, TypeOK
<1>2. StartsRunning(t, l, w, now) /\ UNCHANGED <<now, runs, completions, checked>>
  BY DEF MemoryMarkTaskRunning, StartsRunning
<1>3. TablesTyped(tasks', leases', attempts', checked')
  BY <1>1, <1>2, RunningType
<1>4. /\ tasks[t].status \in HeldStatuses /\ ~ tasks[t].dead /\ RunKnown(t)
      /\ \A x : ~ IsDecided(tasks[t], x)
  BY <1>2, AssertedIsHeld DEF StartsRunning
<1>5. /\ \A u \in Tasks : u # t => tasks'[u] = tasks[u]
      /\ tasks'[t].status = "running" /\ tasks'[t].dead = tasks[t].dead
  BY <1>1, <1>2 DEF StartsRunning, TaskRows
<1>6. c \in Calls /\ c.task = t /\ c.token = Null /\ pending' = Append(pending, c)
  BY RestIsCall DEF MemoryMarkTaskRunning, RecomputesLater, Later, OptionalTokens
<1>7. RowFits(tasks'[t]) /\ OutcomeKept(t)
  BY <1>4, <1>5 DEF RowFits, OutcomeKept, HeldStatuses
<1> HIDE DEF c
<1> QED
  BY <1>2, <1>3, <1>4, <1>5, <1>6, <1>7, TouchOne DEF Files

LEMMA ResumeMem ==
  ASSUME MemInv, NEW t \in Tasks, MemoryResumeTask(t)
  PROVE  MemInv'
<1> DEFINE c == SettleCall(t, Null, Null)
<1>1. TypeOK /\ tasks \in [Tasks -> TaskRows] /\ RowFits(tasks[t])
  BY DEF MemInv, TypeOK
<1>2. Resumes(t) /\ UNCHANGED <<now, runs, completions, checked>>
  BY DEF MemoryResumeTask, Resumes
<1>3. TablesTyped(tasks', leases', attempts', checked')
  BY <1>1, <1>2, ResumeType
<1>4. /\ \A u \in Tasks : u # t => tasks'[u] = tasks[u]
      /\ tasks'[t].status = "queued" /\ tasks'[t].dead = tasks[t].dead
      /\ tasks'[t].leaseId = tasks[t].leaseId
  BY <1>1, <1>2 DEF Resumes, TaskRows
<1>5. tasks[t].status \in WaitingTaskStatuses
  BY <1>2 DEF Resumes
<1>6. RunKnown(t)
  BY <1>5 DEF MemInv, WaitingTaskStatuses
<1>7. RowFits(tasks'[t])
  BY <1>1, <1>4, <1>5 DEF RowFits, HeldStatuses, WaitingTaskStatuses
<1>8. OutcomeKept(t)
  BY <1>5 DEF OutcomeKept, IsDecided, WaitingTaskStatuses
<1>9. c \in Calls /\ c.task = t /\ c.token = Null /\ pending' = Append(pending, c)
  BY RestIsCall DEF MemoryResumeTask, RecomputesLater, Later, OptionalTokens
<1>10. "queued" \notin HeldStatuses
  BY DEF HeldStatuses
<1> HIDE DEF c
<1> QED
  BY <1>2, <1>3, <1>4, <1>6, <1>7, <1>8, <1>9, <1>10, TouchOne DEF Files

LEMMA RequeueMem ==
  ASSUME MemInv, NEW t \in Tasks, NEW reset \in BOOLEAN, NEW notBefore \in {NoTime, now + 1},
         MemoryRequeueDeadTask(t, reset, notBefore)
  PROVE  MemInv'
<1> DEFINE c == SettleCall(t, Null, Null)
<1>1. TypeOK /\ tasks \in [Tasks -> TaskRows] /\ RowFits(tasks[t]) /\ notBefore \in Int
  BY NoTimeInt, BoundsAssumption DEF MemInv, TypeOK
<1>2. Requeues(t, reset, notBefore) /\ UNCHANGED <<now, runs, completions, checked>>
  BY DEF MemoryRequeueDeadTask, Requeues
<1>3. TablesTyped(tasks', leases', attempts', checked')
  BY <1>1, <1>2, RequeueType
<1>4. /\ \A u \in Tasks : u # t => tasks'[u] = tasks[u]
      /\ tasks'[t].status = "queued" /\ tasks'[t].dead = FALSE /\ tasks'[t].leaseId = Null
  <2>1. tasks' = [tasks EXCEPT ![t] = RequeuedRow(tasks[t], reset, notBefore)]
    BY <1>2 DEF Requeues
  <2>2. tasks[t] \in TaskRows
    BY <1>1
  <2> QED
    BY <1>1, <2>1, <2>2, RequeuedRowRow
<1>5. tasks[t].dead /\ tasks[t].status = "failed"
  BY <1>1, <1>2 DEF Requeues, RowFits
<1>6. RunKnown(t)
  BY <1>5 DEF MemInv
<1>7. RowFits(tasks'[t]) /\ OutcomeKept(t)
  BY <1>4, <1>5 DEF RowFits, OutcomeKept, IsDecided
<1>8. c \in Calls /\ c.task = t /\ c.token = Null /\ pending' = Append(pending, c)
  BY RestIsCall DEF MemoryRequeueDeadTask, RecomputesLater, Later, OptionalTokens
<1>9. "queued" \notin HeldStatuses
  BY DEF HeldStatuses
<1> HIDE DEF c
<1> QED
  BY <1>2, <1>3, <1>4, <1>6, <1>7, <1>8, <1>9, TouchOne DEF Files

(* enqueueTask sets the row: none was there if the task is plain.            *)
LEMMA EnqueueMem ==
  ASSUME MemInv, NEW t \in Tasks, MemoryEnqueueTask(t)
  PROVE  MemInv'
<1> DEFINE c == SettleCall(t, Null, Null)
<1>1. TypeOK /\ now \in Int /\ tasks \in [Tasks -> TaskRows]
  BY DEF MemInv, TypeOK
<1>2. UNCHANGED <<now, runs, leases, attempts, completions, checked>>
  BY DEF MemoryEnqueueTask
<1>3. tasks'[t] = QueuedTask(now) /\ \A u \in Tasks : u # t => tasks'[u] = tasks[u]
  BY <1>1 DEF MemoryEnqueueTask
<1>4. /\ tasks'[t].status = "queued" /\ tasks'[t].leaseId = Null /\ tasks'[t].dead = FALSE
      /\ QueuedTask(now) \in TaskRows
  BY <1>1, <1>3, QueuedTaskRow
<1>5. TablesTyped(tasks', leases', attempts', checked')
  BY <1>1, <1>2, <1>4 DEF MemoryEnqueueTask, TypeOK, TablesTyped
<1>6. RunKnown(t)
  BY DEF MemoryEnqueueTask, RunKnown, RunStatuses
<1>7. RowFits(tasks'[t])
  BY <1>4 DEF RowFits
<1>8. ASSUME t \in Plain PROVE OutcomeKept(t)
  <2>1. tasks[t].status = "absent"
    BY <1>8 DEF MemoryEnqueueTask, Plain
  <2> QED
    BY <2>1 DEF OutcomeKept, IsDecided
<1>9. c \in Calls /\ c.task = t /\ c.token = Null /\ pending' = Append(pending, c)
  BY RestIsCall DEF MemoryEnqueueTask, RecomputesLater, Later, OptionalTokens
<1>10. "queued" \notin HeldStatuses
  BY DEF HeldStatuses
<1> HIDE DEF c
<1> QED
  BY <1>2, <1>3, <1>4, <1>5, <1>6, <1>7, <1>8, <1>9, <1>10, TouchOne DEF Files

(* completeTask with nextContext up to its first await: it has written       *)
(* nothing.                                                                  *)
LEMMA ContextMem ==
  ASSUME MemInv, NEW t \in Tasks, NEW l \in Leases, NEW w \in Workers, NEW k \in OptionalTokens,
         CompleteWithContext(t, l, w, k)
  PROVE  MemInv'
<1> DEFINE c == Rest("snapshot", t, l, k, "completed")
<1>1. TypeOK /\ UNCHANGED vars /\ t \in WithContext /\ RunKnown(t) /\ ~ tasks[t].dead
  BY AssertedIsHeld DEF MemInv, CompleteWithContext
<1>2. c \in Calls /\ c.task = t /\ pending' = Append(pending, c)
  BY <1>1, ContextIsCall DEF CompleteWithContext, Later, Calls
<1>3. UNCHANGED <<now, runs, tasks, leases, attempts, completions, checked>>
  BY <1>1 DEF vars
<1>4. TablesTyped(tasks', leases', attempts', checked') /\ RowFits(tasks'[t]) /\ OutcomeKept(t)
  BY <1>1, <1>3 DEF TypeOK, TablesTyped, MemInv, OutcomeKept
<1>5. t \notin Plain
  BY <1>1 DEF Plain
<1> HIDE DEF c
<1> QED
  BY <1>1, <1>2, <1>3, <1>4, <1>5, TouchOne DEF Files

(* What an expired row is, and what it was.                                  *)
LEMMA ExpiredRowFits ==
  ASSUME MemInv, NEW t \in Tasks
  PROVE  /\ RowFits(TasksAfterExpiry(now)[t])
         /\ \/ TasksAfterExpiry(now)[t] = tasks[t]
            \/ /\ t \in Expired(now) /\ tasks[t].status \in HeldStatuses
               /\ TasksAfterExpiry(now)[t].status \in {"queued", "failed"}
<1>1. TypeOK /\ now \in Stamps /\ RowFits(tasks[t])
  BY BoundsAssumption DEF MemInv, TypeOK, Stamps
<1>2. TasksAfterExpiry(now)[t] = IF t \in Expired(now) THEN ExpiredRow(t, now) ELSE tasks[t]
  BY DEF TasksAfterExpiry
<1>3. CASE t \in Expired(now)
  <2>1. tasks[t].status \in HeldStatuses /\ ~ tasks[t].dead
    BY <1>1, <1>3 DEF Expired, RowFits, HeldStatuses
  <2> QED
    BY <1>1, <1>2, <1>3, <2>1, ExpiredRowRow DEF RowFits, NoLeaseColumns
<1>4. CASE t \notin Expired(now)
  BY <1>1, <1>2, <1>4
<1> QED
  BY <1>3, <1>4

(* claimNextTask: the run of the task it takes was not over after the sweep  *)
(* that comes first, and that sweep recomputes its runs at once.             *)
LEMMA ClaimMem ==
  ASSUME MemInv, NEW w \in Workers, NEW l \in Leases, NEW k \in OptionalTokens, NEW kinds,
         NEW ms \in LeaseDurations, MemoryClaimNextTask(w, l, k, kinds, ms)
  PROVE  MemInv'
<1> DEFINE T == TasksAfterExpiry(now)
           R == {RunOf(s) : s \in Expired(now)}
<1>1. TypeOK /\ now \in Stamps /\ now + ms \in Int
  BY BoundsAssumption DEF MemInv, TypeOK, Stamps
<1>2. PICK t \in Tasks : Takes(t, w, l, k, kinds, ms, now) /\ RecomputesLater(t)
  BY DEF MemoryClaimNextTask, Takes
<1>3. runs' = Recompute(R, T) /\ UNCHANGED <<now, completions, checked>>
  BY DEF MemoryClaimNextTask
<1>4. TypeOK'
  <2>1. TablesTyped(tasks', leases', attempts', checked')
    BY <1>1, <1>2, ClaimType
  <2>2. runs' \in [Runs -> RunStatuses \union NoRow]
    BY <1>1, <1>3, RecomputeType
  <2> QED
    BY <1>1, <1>3, <2>1, <2>2 DEF TypeOK, TablesTyped
<1>5. /\ T \in [Tasks -> TaskRows]
      /\ tasks' = [T EXCEPT ![t] = ClaimedRow(@, l, w, now + ms)]
      /\ Claimable(t, kinds, now, T, Recompute(R, T))
  BY <1>1, <1>2, ExpiryType DEF Takes
<1>6. \A u \in Tasks : /\ RowFits(T[u])
                       /\ \/ T[u] = tasks[u]
                          \/ /\ u \in Expired(now) /\ tasks[u].status \in HeldStatuses
                             /\ T[u].status \in {"queued", "failed"}
  BY ExpiredRowFits
<1> HIDE DEF T, R
<1>7. /\ T[t].status = "queued" /\ runs'[RunOf(t)] \notin TerminalRunStatuses
      /\ tasks'[t].status = "leased" /\ tasks'[t].dead = T[t].dead
      /\ \A u \in Tasks : u # t => tasks'[u] = T[u]
  BY <1>1, <1>3, <1>5, ClaimedRowRow DEF Claimable
<1>8. \A u \in Tasks : RowFits(tasks'[u])
  BY <1>6, <1>7 DEF RowFits, HeldStatuses
<1>9. \A u \in Tasks : tasks'[u].status # "absent" => tasks[u].status # "absent"
  BY <1>6, <1>7 DEF HeldStatuses
<1>10. \A r \in Runs : runs[r] # "absent" => runs'[r] # "absent"
  BY <1>3, RecomputeKnown
<1>11. \A u \in Tasks : tasks'[u].status # "absent" => runs'[RunOf(u)] # "absent"
  BY <1>9, <1>10, InputAssumption DEF MemInv, RunKnown, InputRecords, RunOf
<1>12. ASSUME NEW u \in Tasks PROVE OutcomeKept(u)
  <2>1. CASE u = t
    BY <1>6, <1>7, <2>1 DEF OutcomeKept, IsDecided, HeldStatuses
  <2>2. CASE u # t
    BY <1>6, <1>7, <2>2 DEF OutcomeKept, IsDecided, HeldStatuses
  <2> QED
    BY <2>1, <2>2
<1>13. TerminalRunIsIdle'
  <2>1. ASSUME NEW u \in Tasks, u # t, tasks'[u].status \in HeldStatuses
        PROVE  runs'[RunOf(u)] \notin TerminalRunStatuses
    <3>1. T[u].status \in HeldStatuses /\ tasks[u].status \in HeldStatuses
      BY <1>6, <1>7, <2>1 DEF HeldStatuses
    <3> QED
      BY <1>3, <3>1, IdleSound DEF MemInv
  <2> QED
    BY <1>7, <2>1, IdleNext
<1>14. Steady
  BY <1>3, <1>4, <1>8, <1>10, <1>11, <1>12, <1>13 DEF Steady, MemInv, Plain
<1> DEFINE c == SettleCall(t, Null, Null)
<1>15. c \in Calls /\ c.task = t /\ c.token = Null /\ pending' = Append(pending, c)
  BY <1>2, RestIsCall DEF RecomputesLater, Later, OptionalTokens
<1> HIDE DEF c
<1>16. /\ \A u \in Tasks : RunOf(u) \notin R => T[u].status = tasks[u].status
       /\ \A u \in Tasks : u # c.task => tasks'[u].status = T[u].status
  BY <1>6, <1>7, <1>15 DEF R
<1>17. runs'[RunOf(c.task)] # "absent"
  BY <1>7, <1>11, <1>15
<1> QED
  BY <1>3, <1>14, <1>15, <1>16, <1>17, CallJoins DEF Files

(* A waiting call goes on: the outcome that it files is not on record yet,   *)
(* and the run that it recomputes is settled unless other calls wait.        *)
LEMMA SettleMem ==
  ASSUME MemInv, Settle
  PROVE  MemInv'
<1> DEFINE c == Head(pending)
           r == RunOf(c.task)
           R == IF runs[r] \in RunStatuses THEN {r} ELSE {}
<1>1. /\ TypeOK /\ pending \in Seq(Calls) /\ pending # <<>> /\ checked = {}
      /\ Fits(tasks, pending, completions)
  BY DEF MemInv, RecordsFit, Settle
<1>2. UNCHANGED <<now, tasks, leases, attempts, checked>> /\ pending' = Tail(pending)
  BY DEF Settle
<1>3. pending' \in Seq(Calls) /\ c \in Calls /\ c.task \in Tasks /\ c.token \in OptionalTokens
  BY <1>1, <1>2, CallRemoved, CallFields
<1>4. runs' = Recompute(R, tasks)
  BY <1>1, RecomputeNone DEF Settle, Oldest
<1>5. completions' = IF c.token = Null THEN completions
                     ELSE [completions EXCEPT ![c.token] = [task |-> c.task, outcome |-> c.outcome]]
  BY DEF Settle, Oldest
<1>6. c.token # Null => c.outcome \in {"completed", "failed"}
  BY <1>3, CallFields
<1> HIDE DEF c, r, R
<1>7. TypeOK'
  <2>1. runs' \in [Runs -> RunStatuses \union NoRow]
    BY <1>1, <1>4, RecomputeType
  <2>2. completions' \in [Tokens -> [task : Tasks, outcome : {"completed", "failed"}] \union {Null}]
    BY <1>1, <1>3, <1>5, <1>6 DEF TypeOK, OptionalTokens
  <2> QED
    BY <1>1, <1>2, <2>1, <2>2 DEF TypeOK
<1>8. TerminalRunIsIdle'
  BY <1>2, <1>4, IdleStays DEF MemInv
<1>9. \A s \in Runs : runs[s] # "absent" => runs'[s] # "absent"
  BY <1>4, RecomputeKnown
<1>10. \A t \in Tasks : tasks'[t].status # "absent" => runs'[RunOf(t)] # "absent"
  BY <1>2, <1>9, InputAssumption DEF MemInv, RunKnown, InputRecords, RunOf
<1>11. Steady
  BY <1>1, <1>2, <1>7, <1>8, <1>9, <1>10 DEF Steady, MemInv, OutcomeKept
<1>12. RunStatusSettles'
  <2>1. ASSUME NEW s \in Runs, runs'[s] \in RunStatuses, ~ Waiting(pending', s)
        PROVE  ~ Waiting(pending, s) \/ s \in R
    <3>1. CASE s = r
      <4>1. runs[r] \in RunStatuses
        BY <1>4, <2>1, <3>1 DEF R, Recompute
      <4> QED
        BY <3>1, <4>1 DEF R
    <3>2. CASE s # r
      BY <1>1, <1>2, <2>1, <3>2, WaitingRemoved DEF r, c
    <3> QED
      BY <3>1, <3>2
  <2> DEFINE Q == {}
  <2>2. \A s \in Runs : runs'[s] \in RunStatuses /\ ~ Waiting(pending', s) =>
                        s \notin Q /\ (~ Waiting(pending, s) \/ s \in R)
    BY <2>1
  <2>3. /\ \A t \in Tasks : RunOf(t) \notin Q => tasks'[t].status = tasks[t].status
        /\ \A t \in Tasks : RunOf(t) \notin R => tasks[t].status = tasks[t].status
    BY <1>2
  <2> HIDE DEF Q
  <2> QED
    BY <1>4, <2>2, <2>3, SettledSound
<1>13. Fits(tasks', pending', completions')
  <2>1. \A k \in Tokens : IF k = Head(pending).token
            THEN completions'[k] = [task |-> Head(pending).task, outcome |-> Head(pending).outcome]
            ELSE completions'[k] = completions[k]
    BY <1>1, <1>5, NullAssumption DEF c, TypeOK
  <2> QED
    BY <1>1, <1>2, <2>1, FitsOneLess
<1>14. KnownNext(pending')
  BY <1>1, <1>2, <1>11, KnownStays, CallRemoved DEF KnownNext
<1> QED
  BY <1>3, <1>11, <1>12, <1>13, <1>14, SteadyInv


(***************************************************************************)
(* completeTask with nextContext, after its awaits.                        *)
(***************************************************************************)

LEMMA SnapshotMem ==
  ASSUME MemInv, SnapshotReturns
  PROVE  MemInv'
<1> DEFINE h == Head(pending)
           c == [h EXCEPT !.pc = "write"]
<1>1. TypeOK /\ pending \in Seq(Calls) /\ pending # <<>> /\ UNCHANGED vars
      /\ h.pc = "snapshot" /\ pending' = Append(Tail(pending), c)
  BY DEF MemInv, SnapshotReturns, Oldest
<1>2. h \in Calls
  BY <1>1, CallRemoved
<1>3. h \in ContextCalls
  BY <1>1, <1>2, CallFields
<1>4. c \in Calls /\ c.task = h.task /\ h.task \in WithContext
  BY <1>2, <1>3, CallGoesOn, CallFields DEF Calls
<1>5. c.task \notin Plain
  BY <1>4 DEF Plain
<1>6. UNCHANGED <<now, runs, tasks, leases, attempts, completions, checked>>
  BY <1>1 DEF vars
<1>7. Steady
  BY <1>6 DEF MemInv, Steady, TypeOK, OutcomeKept, TerminalRunIsIdle, RunKnown, RunOf
<1> HIDE DEF h, c
<1> QED
  BY <1>1, <1>4, <1>5, <1>6, <1>7, CallRejoins DEF h

(* The row it writes is not that of a plain task.                            *)
LEMMA StaleRowsMem ==
  ASSUME MemInv, WritesStaleRows
  PROVE  MemInv'
<1> DEFINE h == Head(pending)
           c == SettleCall(h.task, h.token, h.outcome)
           row == WithoutLease(h.row, "completed")
           lease == [h.leaseRow EXCEPT !.status = "released", !.token = leases[h.lease].token]
<1>1. /\ TypeOK /\ pending \in Seq(Calls) /\ pending # <<>> /\ h.pc = "write"
      /\ UNCHANGED <<now, runs, completions, checked>>
      /\ tasks' = [tasks EXCEPT ![h.task] = row]
      /\ leases' = [leases EXCEPT ![h.lease] = lease]
      /\ attempts' = [attempts EXCEPT ![h.lease] = "completed"]
      /\ pending' = Append(Tail(pending), Rest("settle", h.task, Null, h.token, h.outcome))
  BY DEF MemInv, WritesStaleRows, Oldest
<1>2. h \in Calls
  BY <1>1, CallRemoved
<1>3. /\ h \in ContextCalls /\ h.task \in WithContext /\ h.task \in Tasks
      /\ h.token \in OptionalTokens
  BY <1>1, <1>2, CallFields
<1>4. h.lease \in Leases /\ h.row \in TaskRows /\ ~ h.row.dead /\ h.leaseRow \in LeaseRows
      /\ h.outcome = "completed"
  BY <1>3 DEF ContextCalls
<1>5. /\ row \in TaskRows /\ row.status = "completed" /\ row.leaseId = Null /\ row.dead = h.row.dead
  BY <1>4, WithoutLeaseRow DEF TaskStatuses
<1>6. lease \in LeaseRows
  <2>1. leases[h.lease].token \in Tokens \union {Null}
    BY <1>1, <1>4 DEF TypeOK, LeaseRows
  <2>2. "released" \in LeaseStatuses
    BY DEF LeaseStatuses
  <2> QED
    BY <1>4, <2>1, <2>2 DEF LeaseRows
<1>7. c \in Calls /\ c.task = h.task /\ pending' = Append(Tail(pending), c)
  BY <1>1, <1>3, <1>4, RestIsCall
<1> HIDE DEF c, row, lease
<1>8. TypeOK'
  <2>1. tasks' \in [Tasks -> TaskRows]
    BY <1>1, <1>5 DEF TypeOK
  <2>2. leases' \in [Leases -> LeaseRows]
    BY <1>1, <1>6 DEF TypeOK
  <2>3. attempts' \in [Leases -> AttemptStatuses \union NoRow]
    BY <1>1 DEF TypeOK, AttemptStatuses
  <2> QED
    BY <1>1, <2>1, <2>2, <2>3 DEF TypeOK
<1>9. tasks'[h.task] = row /\ \A u \in Tasks : u # h.task => tasks'[u] = tasks[u]
  BY <1>1, <1>3 DEF TypeOK
<1>10. RowFits(tasks'[h.task]) /\ tasks'[h.task].status \notin HeldStatuses
  BY <1>4, <1>5, <1>9 DEF RowFits, HeldStatuses
<1>11. RunKnown(h.task)
  BY <1>1, CallRemoved DEF MemInv
<1>12. h.task \notin Plain
  BY <1>3 DEF Plain
<1> HIDE DEF h
<1>13. Steady
  BY <1>1, <1>3, <1>8, <1>9, <1>10, <1>11, <1>12, OneRowSteady
<1> QED
  BY <1>1, <1>7, <1>9, <1>12, <1>13, CallRejoins DEF h

(***************************************************************************)
(* Operations that are one stretch.                                        *)
(***************************************************************************)

(* Steps that leave the runs, and what the invariant sees of the rows.       *)
LEMMA QuietMem ==
  ASSUME MemInv, TypeOK', UNCHANGED <<runs, completions, checked, pending>>,
         \A t \in Tasks : /\ tasks'[t].status = tasks[t].status
                          /\ tasks'[t].dead = tasks[t].dead
                          /\ tasks'[t].leaseId = tasks[t].leaseId
  PROVE  MemInv'
<1>1. Steady
  <2>1. TerminalRunIsIdle'
    BY IdleNext DEF MemInv, TerminalRunIsIdle
  <2>2. \A t \in Tasks : RowFits(tasks'[t])
    BY DEF MemInv, RowFits
  <2>3. \A t \in Tasks : OutcomeKept(t)
    BY DEF OutcomeKept, IsDecided
  <2>4. /\ \A t \in Tasks : tasks'[t].status # "absent" => runs'[RunOf(t)] # "absent"
        /\ \A r \in Runs : runs[r] # "absent" => runs'[r] # "absent"
    BY DEF MemInv, RunKnown
  <2> QED
    BY <2>1, <2>2, <2>3, <2>4 DEF MemInv, Steady, Plain
<1>2. RunStatusSettles'
  <2> DEFINE N == {}
             Q == {}
  <2>1. runs' = Recompute(N, tasks)
    BY RecomputeNone DEF MemInv
  <2>2. /\ \A t \in Tasks : RunOf(t) \notin N => tasks[t].status = tasks[t].status
        /\ \A t \in Tasks : RunOf(t) \notin Q => tasks'[t].status = tasks[t].status
        /\ \A r \in Runs : runs'[r] \in RunStatuses /\ ~ Waiting(pending', r) =>
                           r \notin Q /\ (~ Waiting(pending, r) \/ r \in N)
    OBVIOUS
  <2> HIDE DEF N, Q
  <2> QED
    BY <2>1, <2>2, SettledSound
<1> QED
  BY <1>1, <1>2, QueueStays

LEMMA HeartbeatMem ==
  ASSUME MemInv, NEW t \in Tasks, NEW l \in Leases, NEW w \in Workers, MemoryHeartbeatLease(t, l, w)
  PROVE  MemInv'
<1>1. PICK ms \in LeaseDurations : HeartbeatLease(t, l, w, ms, now) /\ pending' = pending
  BY DEF MemoryHeartbeatLease
<1>2. TypeOK /\ now \in Stamps
  BY BoundsAssumption DEF MemInv, TypeOK, Stamps
<1>3. [Next]_vars
  BY <1>1, <1>2 DEF Next, HolderStep
<1>4. TypeOK'
  BY <1>2, <1>3, TypeStep
<1>5. \A u \in Tasks : /\ tasks'[u].status = tasks[u].status
                       /\ tasks'[u].dead = tasks[u].dead
                       /\ tasks'[u].leaseId = tasks[u].leaseId
  BY <1>1, <1>2 DEF HeartbeatLease, TypeOK, TaskRows
<1>6. UNCHANGED <<runs, completions, checked, pending>>
  BY <1>1 DEF HeartbeatLease
<1> QED
  BY <1>4, <1>5, <1>6, QuietMem

(* createRun of a run that has no row, and so no tasks; or of one that has.   *)
LEMMA CreateMem ==
  ASSUME MemInv, NEW r \in Runs, MemoryCreateRun(r)
  PROVE  MemInv'
<1>1. /\ runs' = [runs EXCEPT ![r] = "pending"]
      /\ r \notin Reused => runs[r] = "absent"
      /\ UNCHANGED <<now, tasks, leases, attempts, completions, checked, pending>>
  BY DEF MemoryCreateRun
<1>2. TypeOK /\ TypeOK'
  BY <1>1 DEF MemInv, TypeOK, RunStatuses
<1>3. \A s \in Runs : runs'[s] = IF s = r THEN "pending" ELSE runs[s]
  BY <1>1, <1>2 DEF TypeOK
<1>4. \A t \in Tasks : RunOf(t) \in Runs
  BY InputAssumption DEF InputRecords, RunOf
<1>5. TerminalRunIsIdle'
  <2>1. ASSUME NEW t \in Tasks, tasks'[t].status \in HeldStatuses
        PROVE  runs'[RunOf(t)] \notin TerminalRunStatuses
    BY <1>1, <1>3, <1>4, <2>1 DEF MemInv, TerminalRunIsIdle, TerminalRunStatuses
  <2> QED
    BY <2>1, IdleNext
<1>6. Steady
  BY <1>1, <1>2, <1>3, <1>4, <1>5 DEF MemInv, Steady, RunKnown, OutcomeKept
<1>7. ASSUME NEW s \in Runs \ Reused, ~ Waiting(pending', s) PROVE StatusIsDerived(s)'
  <2> SUFFICES ASSUME runs'[s] \in RunStatuses
               PROVE  runs'[s] = DeriveRunStatus(runs'[s], StatusesIn(s, tasks))
    BY <1>1 DEF StatusIsDerived, StatusesIn, TasksOf
  <2>1. CASE s = r
    <3>1. \A t \in Tasks : RunOf(t) = r => tasks[t].status = "absent"
      BY <1>1, <1>7, <2>1 DEF MemInv, RunKnown
    <3>2. StatusesIn(s, tasks) = {}
      BY <2>1, <3>1 DEF StatusesIn, TasksOf, TaskStatuses
    <3> QED
      BY <1>3, <2>1, <3>2 DEF DeriveRunStatus
  <2>2. CASE s # r
    BY <1>1, <1>3, <1>7, <2>2, SettlesEach DEF MemInv, StatusIsDerived
  <2> QED
    BY <2>1, <2>2
<1>8. RunStatusSettles'
  BY <1>7, SettlesEach
<1> QED
  BY <1>1, <1>6, <1>8, QueueStays

(* cancelRun leaves no task of the run held.                                 *)
LEMMA CancelRows ==
  ASSUME TypeOK, NEW r \in Runs, CancelRun(r), NEW t \in Tasks
  PROVE  \/ t \notin OpenTasksOf(r) /\ tasks'[t] = tasks[t]
         \/ /\ t \in OpenTasksOf(r)
            /\ tasks'[t].status = "cancelled" /\ tasks'[t].leaseId = Null
            /\ tasks'[t].dead = tasks[t].dead
<1>1. tasks'[t] = IF t \in OpenTasksOf(r) THEN WithoutLease(tasks[t], "cancelled") ELSE tasks[t]
  BY DEF CancelRun, TasksOf, OpenTasksOf
<1>2. tasks[t] \in TaskRows
  BY DEF TypeOK
<1> QED
  BY <1>1, <1>2, WithoutLeaseRow DEF TaskStatuses

LEMMA CancelMem ==
  ASSUME MemInv, NEW r \in Runs, MemoryCancelRun(r)
  PROVE  MemInv'
<1>1. CancelRun(r) /\ pending' = pending /\ TypeOK
  BY DEF MemoryCancelRun, MemInv
<1>2. TypeOK'
  BY <1>1, TypeStep DEF Next
<1>3. /\ runs' = [runs EXCEPT ![r] = "cancelled"] /\ runs[r] # "absent"
      /\ completions' = completions /\ checked' = checked
  BY <1>1 DEF CancelRun, RunStatuses
<1>4. \A t \in Tasks :
        \/ t \notin OpenTasksOf(r) /\ tasks'[t] = tasks[t]
        \/ /\ t \in OpenTasksOf(r)
           /\ tasks'[t].status = "cancelled" /\ tasks'[t].leaseId = Null
           /\ tasks'[t].dead = tasks[t].dead
  BY <1>1, CancelRows
<1>5. \A s \in Runs : runs'[s] = IF s = r THEN "cancelled" ELSE runs[s]
  BY <1>1, <1>3 DEF TypeOK
<1>6. \A t \in Tasks : RunOf(t) \in Runs
  BY InputAssumption DEF InputRecords, RunOf
<1>7. \A t \in OpenTasksOf(r) : tasks[t].status \in TaskStatuses \ TerminalTaskStatuses /\ RunOf(t) = r
  BY DEF OpenTasksOf
<1>8. \A t \in Tasks : RowFits(tasks'[t])
  BY <1>4, <1>7 DEF MemInv, RowFits, TerminalTaskStatuses
<1>9. \A t \in Tasks : tasks'[t].status # "absent" => runs'[RunOf(t)] # "absent"
  BY <1>4, <1>5, <1>6, <1>7 DEF MemInv, RunKnown
<1>10. \A t \in Tasks : OutcomeKept(t)
  BY <1>4, <1>7 DEF OutcomeKept, IsDecided, TaskStatuses, TerminalTaskStatuses
<1>11. TerminalRunIsIdle'
  <2>1. ASSUME NEW t \in Tasks, tasks'[t].status \in HeldStatuses
        PROVE  runs'[RunOf(t)] \notin TerminalRunStatuses
    <3>1. t \notin OpenTasksOf(r) /\ tasks[t].status \in HeldStatuses
      BY <1>4, <2>1 DEF HeldStatuses
    <3>2. RunOf(t) # r
      BY <3>1 DEF OpenTasksOf, HeldStatuses, TaskStatuses, TerminalTaskStatuses
    <3> QED
      BY <1>5, <1>6, <3>1, <3>2 DEF MemInv, TerminalRunIsIdle
  <2> QED
    BY <2>1, IdleNext
<1>12. Steady
  BY <1>2, <1>3, <1>5, <1>8, <1>9, <1>10, <1>11 DEF MemInv, Steady, Plain
<1>13. RunStatusSettles'
  BY <1>1, CancelRunSound, SettlesEach DEF MemInv
<1> QED
  BY <1>1, <1>3, <1>12, <1>13, QueueStays

LEMMA PruneMem ==
  ASSUME MemInv, MemoryPruneRuns
  PROVE  MemInv'
<1>1. PICK statuses \in PruneFilters, R \in SUBSET Runs : PruneRuns(statuses, R)
  BY DEF MemoryPruneRuns, Prune
<1>2. pending' = pending /\ TypeOK /\ checked' = checked
  BY <1>1 DEF MemoryPruneRuns, MemInv, PruneRuns
<1>3. TypeOK'
  BY <1>2, TypeStep DEF MemoryPruneRuns, Next
<1>4. /\ \A s \in Runs : runs'[s] = IF s \in R THEN "pruned" ELSE runs[s]
      /\ \A k \in Tokens : completions'[k] = completions[k] \/ completions'[k] = Null
  BY <1>1 DEF PruneRuns
<1> DEFINE gone == [AbsentTask EXCEPT !.status = "pruned"]
<1>5. gone.status = "pruned" /\ gone.leaseId = Null /\ gone.dead = FALSE
  BY AbsentTaskRow DEF NoRow
<1>6. \A t \in Tasks : tasks'[t] = IF RunOf(t) \in R /\ tasks[t].status \in TaskStatuses
                                     THEN gone ELSE tasks[t]
  BY <1>1 DEF PruneRuns
<1> HIDE DEF gone
<1>7. \A t \in Tasks : RunOf(t) \in Runs
  BY InputAssumption DEF InputRecords, RunOf
<1>8. \A t \in Tasks : RowFits(tasks'[t])
  BY <1>5, <1>6 DEF MemInv, RowFits
<1>9. \A t \in Tasks : tasks'[t].status # "absent" => runs'[RunOf(t)] # "absent"
  BY <1>4, <1>6, <1>7 DEF MemInv, RunKnown, TaskStatuses
<1>10. \A t \in Tasks : OutcomeKept(t)
  BY <1>5, <1>6 DEF OutcomeKept, IsDecided
<1>11. TerminalRunIsIdle'
  <2>1. ASSUME NEW t \in Tasks, tasks'[t].status \in HeldStatuses
        PROVE  runs'[RunOf(t)] \notin TerminalRunStatuses
    BY <1>4, <1>5, <1>6, <1>7, <2>1 DEF MemInv, TerminalRunIsIdle, TerminalRunStatuses, HeldStatuses
  <2> QED
    BY <2>1, IdleNext
<1>12. Steady
  BY <1>2, <1>3, <1>4, <1>8, <1>9, <1>10, <1>11 DEF MemInv, Steady, Plain
<1>13. RunStatusSettles'
  BY <1>1, <1>2, PruneRunsSound, SettlesEach DEF MemInv
<1> QED
  BY <1>2, <1>4, <1>12, <1>13, QueueStays

(* expireLeases recomputes the runs of the tasks it expires, at once.        *)
LEMMA ExpireMem ==
  ASSUME MemInv, MemoryExpireLeases
  PROVE  MemInv'
<1> DEFINE T == TasksAfterExpiry(now)
           R == {RunOf(t) : t \in Expired(now)}
           N == {}
<1>1. /\ ExpireLeases(now) /\ pending' = pending /\ TypeOK /\ now \in Stamps
      /\ tasks' = T /\ runs' = Recompute(R, T) /\ completions' = completions /\ checked' = checked
  BY BoundsAssumption DEF MemoryExpireLeases, ExpireLeases, MemInv, TypeOK, Stamps
<1>2. TypeOK'
  BY <1>1, TypeStep DEF Next, Expire
<1>3. \A t \in Tasks : /\ RowFits(T[t])
                       /\ \/ T[t] = tasks[t]
                          \/ /\ t \in Expired(now) /\ tasks[t].status \in HeldStatuses
                             /\ T[t].status \in {"queued", "failed"}
  BY ExpiredRowFits
<1>4. \A t \in Tasks : RunOf(t) \notin R => T[t].status = tasks[t].status
  BY <1>3
<1> HIDE DEF T, R
<1>5. \A r \in Runs : runs[r] # "absent" => runs'[r] # "absent"
  BY <1>1, RecomputeKnown
<1>6. \A t \in Tasks : tasks'[t].status # "absent" => runs'[RunOf(t)] # "absent"
  BY <1>1, <1>3, <1>5, InputAssumption DEF MemInv, RunKnown, HeldStatuses, InputRecords, RunOf
<1>7. \A t \in Tasks : OutcomeKept(t)
  BY <1>1, <1>3 DEF OutcomeKept, IsDecided, HeldStatuses
<1>8. TerminalRunIsIdle'
  <2>1. \A t \in Tasks : tasks'[t].status \in HeldStatuses =>
                         T[t].status \in HeldStatuses /\ tasks[t].status \in HeldStatuses
    BY <1>1, <1>3
  <2> QED
    BY <1>1, <2>1, IdleStays DEF MemInv
<1>9. Steady
  BY <1>1, <1>2, <1>3, <1>5, <1>6, <1>7, <1>8 DEF MemInv, Steady, Plain
<1>10. RunStatusSettles'
  <2>1. /\ \A t \in Tasks : RunOf(t) \notin N => tasks'[t].status = T[t].status
        /\ \A r \in Runs : runs'[r] \in RunStatuses /\ ~ Waiting(pending', r) =>
                           r \notin N /\ (~ Waiting(pending, r) \/ r \in R)
    BY <1>1
  <2> HIDE DEF N
  <2> QED
    BY <1>1, <1>4, <2>1, SettledSound
<1> QED
  BY <1>1, <1>9, <1>10, QueueStays

(***************************************************************************)
(* Every step keeps the invariant.                                         *)
(***************************************************************************)

LEMMA HolderMem ==
  ASSUME MemInv, NEW t \in Tasks, NEW l \in Leases, NEW w \in Workers, MemoryHolderStep(t, l, w)
  PROVE  MemInv'
<1>1. /\ WaitingTaskStatuses \union {"queued", "completed", "failed"} \subseteq TaskStatuses \ HeldStatuses
      /\ {"released", "completed", "failed"} \subseteq AttemptStatuses \ HeldStatuses
      /\ Null \in OptionalTokens
  BY DEF WaitingTaskStatuses, TaskStatuses, HeldStatuses, AttemptStatuses, OptionalTokens
<1>2. ASSUME NEW to \in WaitingTaskStatuses, MemoryPauseTask(t, l, w, to) PROVE MemInv'
  BY <1>1, <1>2, LeaveMem DEF MemoryPauseTask, RecomputesLater
<1>3. CASE MemoryReleaseTask(t, l, w)
  BY <1>1, <1>3, LeaveMem DEF MemoryReleaseTask, RecomputesLater
<1>4. ASSUME NEW k \in OptionalTokens, MemoryCompleteTask(t, l, w, k) PROVE MemInv'
  BY <1>1, <1>4, LeaveMem DEF MemoryCompleteTask
<1>5. ASSUME NEW k \in OptionalTokens, MemoryFailTask(t, l, w, k) PROVE MemInv'
  BY <1>1, <1>5, LeaveMem DEF MemoryFailTask
<1> QED
  BY <1>2, <1>3, <1>4, <1>5, HeartbeatMem, MarkRunningMem, ContextMem DEF MemoryHolderStep

LEMMA MemStep ==
  ASSUME MemInv, [MemoryNext]_memoryVars
  PROVE  MemInv'
<1>1. CASE (Tick /\ UNCHANGED pending) \/ UNCHANGED memoryVars
  <2>1. [Next]_vars /\ UNCHANGED <<runs, tasks, completions, checked, pending>>
    BY <1>1 DEF Next, Tick, vars, memoryVars
  <2>2. TypeOK'
    BY <2>1, TypeStep DEF MemInv
  <2> QED
    BY <2>1, <2>2, QuietMem
<1>2. ASSUME NEW t \in Tasks, MemoryTaskStep(t) PROVE MemInv'
  BY <1>2, EnqueueMem, ResumeMem, RequeueMem DEF MemoryTaskStep
<1>3. CASE MemoryClaim
  BY <1>3, ClaimMem DEF MemoryClaim
<1> QED
  BY <1>1, <1>2, <1>3, HolderMem, CreateMem, CancelMem, PruneMem, ExpireMem, SnapshotMem,
     StaleRowsMem, SettleMem DEF MemoryNext

LEMMA MemStart == MemoryInit => MemInv
<1> SUFFICES ASSUME MemoryInit PROVE MemInv
  OBVIOUS
<1>1. TypeOK /\ Init /\ pending = <<>>
  BY InitIInv DEF MemoryInit, IInv
<1>2. checked = {} /\ pending \in Seq(Calls) /\ DOMAIN pending = {}
  BY <1>1 DEF Init
<1>3. \A t \in Tasks : tasks[t].status = "absent" /\ tasks[t].leaseId = Null /\ tasks[t].dead = FALSE
  BY <1>1 DEF Init, AbsentTask
<1>4. \A r \in Runs : runs[r] = "absent"
  BY <1>1 DEF Init
<1>5. \A k \in Tokens : completions[k] = Null
  BY <1>1 DEF Init
<1>6. (\A t \in Tasks : RowFits(tasks[t])) /\ TerminalRunIsIdle
  BY <1>3 DEF RowFits, TerminalRunIsIdle, HeldStatuses
<1>7. RunStatusSettles
  BY <1>4 DEF RunStatusSettles, StatusSettles, RunStatuses
<1>8. RecordsFit
  BY <1>2, <1>5 DEF RecordsFit, Fits, Filed
<1> QED
  BY <1>1, <1>2, <1>3, <1>6, <1>7, <1>8 DEF MemInv

LEMMA MemInductive == MemorySpec => []MemInv
<1>1. MemInv /\ [MemoryNext]_memoryVars => MemInv'
  BY MemStep
<1> QED
  BY <1>1, MemStart, PTL DEF MemorySpec

-----------------------------------------------------------------------------
(* Who holds a plain task.                                                   *)
(*                                                                           *)
(* The row of a plain task and the active leases on it name each other       *)
(* (HoldersFit), so that who holds it can be read off its row.  That stays   *)
(* so because what other tasks have to do with leases, rows that name one    *)
(* and calls that will write one, is about leases that were granted and not  *)
(* on a plain task (ForeignFit, ContextFit).                                 *)

Foreign(row) == row.status # "absent" /\ row.task \notin Plain

\* The lease with this row entitles somebody to work on a plain task.
Entitles(row) == row.status = "active" /\ row.task \in Plain

HolderOf(row) == IF row.status \in HeldStatuses THEN {row.leaseId} ELSE {}

HoldersFit(T, L) ==
  \A t \in Plain :
    /\ T[t].status \in HeldStatuses => T[t].leaseId \in Leases
    /\ \A l \in Leases : L[l].status = "active" /\ L[l].task = t <=>
                         T[t].status \in HeldStatuses /\ T[t].leaseId = l

ForeignFit(T, L) == \A t \in Tasks \ Plain, l \in Leases : T[t].leaseId = l => Foreign(L[l])

ContextFit(P, L) ==
  \A i \in DOMAIN P : P[i] \in ContextCalls => Foreign(L[P[i].lease]) /\ Foreign(P[i].leaseRow)

OwnInv ==
  /\ MemInv
  /\ HoldersFit(tasks, leases)
  /\ ForeignFit(tasks, leases)
  /\ ContextFit(pending, leases)

LEMMA OwnNext ==
  OwnInv' <=> /\ MemInv' /\ HoldersFit(tasks', leases') /\ ForeignFit(tasks', leases')
              /\ ContextFit(pending', leases')
  BY DEF OwnInv, HoldersFit, ForeignFit, ContextFit, Foreign, Plain, ContextCalls, TaskRows, LeaseRows,
         OptionalTokens

(***************************************************************************)
(* The three parts, by what happens to the tables and the queue.           *)
(***************************************************************************)

\* Plain tasks of S lose their holders, other plain tasks keep theirs.
LetsGo(S, T, L, T2, L2) ==
  /\ \A t \in Plain : t \notin S => HolderOf(T2[t]) = HolderOf(T[t])
  /\ \A t \in Plain : t \in S => T2[t].status \notin HeldStatuses
  /\ \A l \in Leases : Entitles(L2[l]) <=> Entitles(L[l]) /\ L[l].task \notin S
  /\ \A l \in Leases : Entitles(L2[l]) => L2[l].task = L[l].task

\* A lease that was not on a plain task never is.
ForeignStays(L, L2) == \A l \in Leases : Foreign(L[l]) => Foreign(L2[l])

\* Other tasks drop the lease their row names, or keep it.
ForeignKept(T, T2) ==
  \A t \in Tasks \ Plain : T2[t].leaseId \in Leases => T2[t].leaseId = T[t].leaseId

\* Calls with nextContext that wait in Q were waiting in P.
Inherits(P, Q) ==
  \A i \in DOMAIN Q : Q[i] \in ContextCalls =>
    \E j \in DOMAIN P : P[j] \in ContextCalls /\ P[j].lease = Q[i].lease /\ P[j].leaseRow = Q[i].leaseRow

LEMMA SameHolder ==
  ASSUME NEW old, NEW new, HolderOf(new) = HolderOf(old)
  PROVE  /\ new.status \in HeldStatuses <=> old.status \in HeldStatuses
         /\ new.status \in HeldStatuses => new.leaseId = old.leaseId
  BY DEF HolderOf

LEMMA HoldersLetGo ==
  ASSUME NEW S, NEW T, NEW L, NEW T2, NEW L2, HoldersFit(T, L), LetsGo(S, T, L, T2, L2)
  PROVE  HoldersFit(T2, L2)
<1> SUFFICES ASSUME NEW t \in Plain
             PROVE  /\ T2[t].status \in HeldStatuses => T2[t].leaseId \in Leases
                    /\ \A l \in Leases : L2[l].status = "active" /\ L2[l].task = t <=>
                                         T2[t].status \in HeldStatuses /\ T2[t].leaseId = l
  BY DEF HoldersFit
<1>1. \A l \in Leases : L2[l].status = "active" /\ L2[l].task = t <=>
                        L[l].status = "active" /\ L[l].task = t /\ t \notin S
  BY DEF LetsGo, Entitles
<1>2. CASE t \in S
  BY <1>1, <1>2 DEF LetsGo
<1>3. CASE t \notin S
  <2>1. /\ T2[t].status \in HeldStatuses <=> T[t].status \in HeldStatuses
        /\ T2[t].status \in HeldStatuses => T2[t].leaseId = T[t].leaseId
    BY <1>3, SameHolder DEF LetsGo
  <2> QED
    BY <1>1, <1>3, <2>1 DEF HoldersFit
<1> QED
  BY <1>2, <1>3

LEMMA ForeignGoes ==
  ASSUME NEW T, NEW L, NEW T2, NEW L2, ForeignFit(T, L), ForeignStays(L, L2), ForeignKept(T, T2)
  PROVE  ForeignFit(T2, L2)
  BY DEF ForeignFit, ForeignStays, ForeignKept

LEMMA ContextStays ==
  ASSUME NEW P, NEW Q, NEW L, NEW L2, ContextFit(P, L), ForeignStays(L, L2), Inherits(P, Q)
  PROVE  ContextFit(Q, L2)
<1> SUFFICES ASSUME NEW i \in DOMAIN Q, Q[i] \in ContextCalls
             PROVE  Foreign(L2[Q[i].lease]) /\ Foreign(Q[i].leaseRow)
  BY DEF ContextFit
<1>1. PICK j \in DOMAIN P :
        P[j] \in ContextCalls /\ P[j].lease = Q[i].lease /\ P[j].leaseRow = Q[i].leaseRow
  BY DEF Inherits
<1>2. Q[i].lease \in Leases
  BY DEF ContextCalls
<1> QED
  BY <1>1, <1>2 DEF ContextFit, ForeignStays

LEMMA SettleIsNoContext ==
  ASSUME NEW t, NEW k, NEW o
  PROVE  SettleCall(t, k, o) \notin ContextCalls
  BY DEF SettleCall, ContextCalls

(* The queues that the steps leave.                                          *)
LEMMA InheritSame == ASSUME NEW P PROVE Inherits(P, P)
  BY DEF Inherits

LEMMA InheritAppend ==
  ASSUME NEW P \in Seq(Calls), NEW c \in Calls, c \notin ContextCalls
  PROVE  Inherits(P, Append(P, c))
  BY CallAppended DEF Inherits

LEMMA InheritTail ==
  ASSUME NEW P \in Seq(Calls), P # <<>>
  PROVE  Inherits(P, Tail(P))
  BY CallRemoved DEF Inherits

LEMMA InheritRejoin ==
  ASSUME NEW P \in Seq(Calls), P # <<>>, NEW c \in Calls,
         c \in ContextCalls =>
           /\ Head(P) \in ContextCalls
           /\ c.lease = Head(P).lease /\ c.leaseRow = Head(P).leaseRow
  PROVE  Inherits(P, Append(Tail(P), c))
<1> DEFINE Q == Tail(P)
<1>1. Q \in Seq(Calls) /\ Inherits(P, Q) /\ 1 \in DOMAIN P /\ Head(P) = P[1]
  BY CallRemoved, InheritTail
<1> HIDE DEF Q
<1>2. Inherits(P, Append(Q, c))
  BY <1>1, CallAppended DEF Inherits
<1> QED
  BY <1>2 DEF Q

(* A step that keeps MemInv keeps the rest when it does these four things.    *)
LEMMA OwnStep ==
  ASSUME OwnInv, MemInv', NEW S, LetsGo(S, tasks, leases, tasks', leases'),
         ForeignStays(leases, leases'), ForeignKept(tasks, tasks'), Inherits(pending, pending')
  PROVE  OwnInv'
  BY HoldersLetGo, ForeignGoes, ContextStays, OwnNext DEF OwnInv

(***************************************************************************)
(* TaskOwnership, read off the rows.                                       *)
(***************************************************************************)

PlainStep == PlainOwnership!OwnershipNext \/ UNCHANGED PlainOwnership!ownershipVars

LEMMA HoldersSet ==
  ASSUME NEW T, NEW L, HoldersFit(T, L), NEW t \in Plain
  PROVE  {l \in Leases : L[l].status = "active" /\ L[l].task = t} = HolderOf(T[t])
  BY DEF HoldersFit, HolderOf

LEMMA PlainBars ==
  ASSUME OwnInv, OwnInv'
  PROVE  /\ plainPhase = [t \in Plain |-> PhaseOf(tasks[t])]
         /\ plainPhase' = [t \in Plain |-> PhaseOf(tasks'[t])]
         /\ plainHolders = [t \in Plain |-> HolderOf(tasks[t])]
         /\ plainHolders' = [t \in Plain |-> HolderOf(tasks'[t])]
<1>1. plainPhase = [t \in Plain |-> PhaseOf(tasks[t])]
  BY DEF plainPhase
<1>2. plainPhase' = [t \in Plain |-> PhaseOf(tasks'[t])]
  BY DEF plainPhase, Plain
<1>3. plainHolders = [t \in Plain |-> HolderOf(tasks[t])]
  BY HoldersSet DEF OwnInv, plainHolders
<1>4. plainHolders' = [t \in Plain |-> HolderOf(tasks'[t])]
  <2>1. plainHolders' = [t \in Plain |-> {l \in Leases : leases'[l].status = "active" /\ leases'[l].task = t}]
    BY DEF plainHolders, Plain
  <2>2. HoldersFit(tasks', leases')
    BY OwnNext
  <2> QED
    BY <2>1, <2>2, HoldersSet
<1> QED
  BY <1>1, <1>2, <1>3, <1>4

LEMMA GrantedStays ==
  ASSUME \A l \in Leases : leases'[l].status = "absent" <=> leases[l].status = "absent"
  PROVE  grantedBar' = grantedBar
  BY DEF grantedBar

SameRole(old, new) == PhaseOf(new) = PhaseOf(old) /\ HolderOf(new) = HolderOf(old)

LEMMA PlainUnseen ==
  ASSUME OwnInv, OwnInv', \A t \in Plain : SameRole(tasks[t], tasks'[t]), grantedBar' = grantedBar
  PROVE  PlainStep
<1>1. plainPhase' = plainPhase /\ plainHolders' = plainHolders
  BY PlainBars DEF SameRole
<1> QED
  BY <1>1 DEF PlainStep, PlainOwnership!ownershipVars

LEMMA PlainVacate ==
  ASSUME OwnInv, OwnInv', NEW S, NEW p,
         \A t \in Plain : t \in S => tasks'[t].status \notin HeldStatuses /\ PhaseOf(tasks'[t]) = p[t],
         \A t \in Plain : t \notin S => SameRole(tasks[t], tasks'[t])
  PROVE  PlainOwnership!Vacate(S, p)
<1>1. \A t \in Plain : PhaseOf(tasks'[t]) = IF t \in S THEN p[t] ELSE PhaseOf(tasks[t])
  BY DEF SameRole
<1>2. \A t \in Plain : HolderOf(tasks'[t]) = IF t \in S THEN {} ELSE HolderOf(tasks[t])
  BY DEF SameRole, HolderOf
<1>3. plainPhase' = [t \in Plain |-> IF t \in S THEN p[t] ELSE plainPhase[t]]
  BY <1>1, PlainBars
<1>4. plainHolders' = [t \in Plain |-> IF t \in S THEN {} ELSE plainHolders[t]]
  BY <1>2, PlainBars
<1> QED
  BY <1>3, <1>4 DEF PlainOwnership!Vacate

(* A plain task that is ready again, and was not held.                       *)
LEMMA PlainReady ==
  ASSUME OwnInv, OwnInv', NEW t \in Plain, tasks[t].status \notin HeldStatuses,
         tasks'[t].status = "queued", tasks'[t] \in TaskRows,
         \A u \in Plain : u # t => tasks'[u] = tasks[u]
  PROVE  /\ plainPhase' = [plainPhase EXCEPT ![t] = "ready"]
         /\ plainHolders' = plainHolders
         /\ plainPhase[t] = PhaseOf(tasks[t])
<1>1. PhaseOf(tasks'[t]) = "ready" /\ HolderOf(tasks'[t]) = {} /\ HolderOf(tasks[t]) = {}
  BY PhaseFacts DEF HolderOf, HeldStatuses
<1> QED
  BY <1>1, PlainBars

(***************************************************************************)
(* Each operation: it keeps OwnInv, and on the plain tasks it is a step of *)
(* TaskOwnership.                                                          *)
(***************************************************************************)

OwnKeeps == OwnInv' /\ PlainStep

(* Operations that change no lease's status or task, and take no lease off a *)
(* plain task.                                                               *)
LEMMA OwnTouch ==
  ASSUME OwnInv, MemInv', Inherits(pending, pending'),
         \A l \in Leases : leases'[l].status = leases[l].status /\ leases'[l].task = leases[l].task,
         \A t \in Plain : HolderOf(tasks'[t]) = HolderOf(tasks[t]),
         ForeignKept(tasks, tasks')
  PROVE  OwnInv' /\ grantedBar' = grantedBar
<1> DEFINE S == {}
<1>1. LetsGo(S, tasks, leases, tasks', leases')
  BY DEF LetsGo, Entitles
<1>2. ForeignStays(leases, leases')
  BY DEF ForeignStays, Foreign
<1>3. grantedBar' = grantedBar
  BY GrantedStays
<1> HIDE DEF S
<1> QED
  BY <1>1, <1>2, <1>3, OwnStep

LEMMA OwnUnseen ==
  ASSUME OwnInv, MemInv', Inherits(pending, pending'),
         \A l \in Leases : leases'[l].status = leases[l].status /\ leases'[l].task = leases[l].task,
         \A t \in Plain : SameRole(tasks[t], tasks'[t]),
         ForeignKept(tasks, tasks')
  PROVE  OwnKeeps
<1>1. OwnInv' /\ grantedBar' = grantedBar
  BY OwnTouch DEF SameRole
<1> QED
  BY <1>1, PlainUnseen DEF OwnKeeps

(* Nothing happens to the tables that TaskOwnership is about.                *)
LEMMA OwnQuiet ==
  ASSUME OwnInv, MemInv', Inherits(pending, pending'), UNCHANGED <<tasks, leases>>
  PROVE  OwnKeeps
  BY OwnUnseen DEF SameRole, ForeignKept

(* resumeTask, requeueDeadTask and enqueueTask: the task is ready, and was   *)
(* not held if it is plain.                                                  *)
LEMMA OwnReady ==
  ASSUME OwnInv, MemInv', NEW t \in Tasks, NEW c \in Calls, c \notin ContextCalls,
         pending' = Append(pending, c), leases' = leases,
         \A u \in Tasks : u # t => tasks'[u] = tasks[u],
         tasks'[t].status = "queued", tasks'[t].leaseId \in {Null, tasks[t].leaseId},
         t \in Plain => \/ tasks[t].status \in WaitingTaskStatuses
                        \/ tasks[t].status = "failed" /\ tasks[t].dead
                        \/ tasks[t].status = "absent"
  PROVE  OwnKeeps
<1>1. tasks[t] \in TaskRows /\ tasks'[t] \in TaskRows /\ pending \in Seq(Calls)
  BY DEF OwnInv, MemInv, TypeOK
<1>2. Inherits(pending, pending')
  BY <1>1, InheritAppend
<1>3. t \in Plain => tasks[t].status \notin HeldStatuses
  BY DEF WaitingTaskStatuses, HeldStatuses
<1>4. \A u \in Plain : HolderOf(tasks'[u]) = HolderOf(tasks[u])
  BY <1>3 DEF HolderOf, HeldStatuses, Plain
<1>5. ForeignKept(tasks, tasks')
  BY NullAssumption DEF ForeignKept
<1>6. OwnInv' /\ grantedBar' = grantedBar
  BY <1>2, <1>4, <1>5, OwnTouch
<1>7. CASE t \in Plain
  <2>1. /\ plainPhase' = [plainPhase EXCEPT ![t] = "ready"]
        /\ plainHolders' = plainHolders
        /\ plainPhase[t] = PhaseOf(tasks[t])
    BY <1>1, <1>3, <1>6, <1>7, PlainReady DEF Plain
  <2>2. PhaseOf(tasks[t]) \in {"parked", "dead", "none"}
    BY <1>1, <1>7, PhaseFacts DEF TerminalTaskStatuses
  <2>3. PlainOwnership!Readmit(t) \/ PlainOwnership!Admit(t)
    BY <1>6, <2>1, <2>2 DEF PlainOwnership!Readmit, PlainOwnership!Admit
  <2> QED
    BY <1>6, <1>7, <2>3 DEF OwnKeeps, PlainStep, PlainOwnership!OwnershipNext
<1>8. CASE t \notin Plain
  <2>1. \A u \in Plain : SameRole(tasks[u], tasks'[u])
    BY <1>8 DEF SameRole, Plain
  <2> QED
    BY <1>6, <2>1, PlainUnseen DEF OwnKeeps
<1> QED
  BY <1>7, <1>8

LEMMA TaskOwn ==
  ASSUME OwnInv, NEW t \in Tasks, MemoryTaskStep(t)
  PROVE  OwnKeeps
<1> DEFINE c == SettleCall(t, Null, Null)
<1>1. MemInv /\ TypeOK /\ tasks \in [Tasks -> TaskRows] /\ RowFits(tasks[t]) /\ now \in Int
  BY DEF OwnInv, MemInv, TypeOK
<1>2. MemInv'
  BY <1>1, EnqueueMem, ResumeMem, RequeueMem DEF MemoryTaskStep
<1>3. c \in Calls /\ c \notin ContextCalls /\ Rest("settle", t, Null, Null, Null) = c
  BY RestIsCall, SettleIsNoContext DEF OptionalTokens
<1>4. RecomputesLater(t) => pending' = Append(pending, c)
  BY <1>3 DEF RecomputesLater, Later
<1> HIDE DEF c
<1>5. CASE MemoryEnqueueTask(t)
  <2>1. tasks' = [tasks EXCEPT ![t] = QueuedTask(now)] /\ leases' = leases /\ RecomputesLater(t)
    BY <1>5 DEF MemoryEnqueueTask
  <2>2. QueuedTask(now).status = "queued" /\ QueuedTask(now).leaseId = Null
    BY <1>1, QueuedTaskRow
  <2>3. t \in Plain => tasks[t].status = "absent"
    BY <1>5 DEF MemoryEnqueueTask, Plain
  <2>4. /\ tasks'[t] = QueuedTask(now) /\ \A u \in Tasks : u # t => tasks'[u] = tasks[u]
    BY <1>1, <2>1
  <2> QED
    BY <1>2, <1>3, <1>4, <2>1, <2>2, <2>3, <2>4, OwnReady
<1>6. CASE MemoryResumeTask(t)
  <2>1. /\ tasks[t].status \in WaitingTaskStatuses /\ leases' = leases /\ RecomputesLater(t)
        /\ tasks' = [tasks EXCEPT ![t].status = "queued"]
    BY <1>6 DEF MemoryResumeTask
  <2>2. /\ tasks'[t].status = "queued" /\ tasks'[t].leaseId = tasks[t].leaseId
        /\ \A u \in Tasks : u # t => tasks'[u] = tasks[u]
    BY <1>1, <2>1 DEF TaskRows
  <2> QED
    BY <1>2, <1>3, <1>4, <2>1, <2>2, OwnReady
<1>7. ASSUME NEW reset \in BOOLEAN, NEW notBefore \in {NoTime, now + 1},
             MemoryRequeueDeadTask(t, reset, notBefore)
      PROVE  OwnKeeps
  <2>1. /\ tasks[t].dead /\ leases' = leases /\ RecomputesLater(t)
        /\ tasks' = [tasks EXCEPT ![t] = RequeuedRow(tasks[t], reset, notBefore)]
    BY <1>7 DEF MemoryRequeueDeadTask
  <2>2. tasks[t] \in TaskRows /\ notBefore \in Int
    BY <1>1, NoTimeInt
  <2>3. /\ tasks'[t].status = "queued" /\ tasks'[t].leaseId = Null
        /\ \A u \in Tasks : u # t => tasks'[u] = tasks[u]
    BY <1>1, <2>1, <2>2, RequeuedRowRow
  <2>4. tasks[t].status = "failed"
    BY <1>1, <2>1 DEF RowFits
  <2> QED
    BY <1>2, <1>3, <1>4, <2>1, <2>3, <2>4, OwnReady
<1> QED
  BY <1>5, <1>6, <1>7 DEF MemoryTaskStep

(* Whoever passes assertActiveLease for a plain task is its one holder; for  *)
(* another task it names a lease that is not on a plain one.                 *)
LEMMA AssertedLease ==
  ASSUME OwnInv, NEW t \in Tasks, NEW l \in Leases, NEW w, AssertActiveLease(t, l, w, now)
  PROVE  /\ tasks[t].status \in HeldStatuses /\ tasks[t].leaseId = l /\ ~ tasks[t].dead
         /\ t \in Plain => \A m \in Leases : leases[m].status = "active" /\ leases[m].task = t <=> m = l
         /\ t \notin Plain => Foreign(leases[l])
<1>1. /\ MemInv /\ tasks[t].leaseId = l
      /\ HoldersFit(tasks, leases) /\ ForeignFit(tasks, leases)
  BY DEF OwnInv, AssertActiveLease
<1>2. tasks[t].status \in HeldStatuses /\ ~ tasks[t].dead
  BY <1>1, AssertedIsHeld
<1> QED
  BY <1>1, <1>2 DEF HoldersFit, ForeignFit

(* Pausing, releasing, completing and failing.                               *)
LEMMA LeaveOwn ==
  ASSUME OwnInv, NEW t \in Tasks, NEW l \in Leases, NEW w \in Workers,
         NEW to \in TaskStatuses \ HeldStatuses, NEW a \in AttemptStatuses \ HeldStatuses,
         NEW k \in OptionalTokens, NEW o \in {"completed", "failed", Null},
         LeaveLease(t, l, w, to, a), Later(Rest("settle", t, Null, k, o)),
         k # Null => o = to /\ to \in {"completed", "failed"}
  PROVE  OwnKeeps
<1> DEFINE c == SettleCall(t, k, o)
           S == {t}
<1>1. MemInv /\ MemInv' /\ TypeOK /\ pending \in Seq(Calls)
  BY LeaveMem DEF OwnInv, MemInv
<1>2. AssertActiveLease(t, l, w, now)
  BY DEF LeaveLease
<1>3. /\ tasks[t].status \in HeldStatuses /\ ~ tasks[t].dead
      /\ t \in Plain => \A m \in Leases : leases[m].status = "active" /\ leases[m].task = t <=> m = l
      /\ t \notin Plain => Foreign(leases[l])
  BY <1>2, AssertedLease
<1>4. /\ tasks'[t].status = to /\ tasks'[t].dead = tasks[t].dead /\ tasks'[t].leaseId = Null
      /\ \A u \in Tasks : u # t => tasks'[u] = tasks[u]
      /\ tasks[t] \in TaskRows /\ tasks'[t] \in TaskRows
  BY <1>1, WithoutLeaseRow DEF LeaveLease, TypeOK, MemInv
<1>5. /\ leases'[l].status = "released" /\ leases'[l].task = leases[l].task
      /\ \A m \in Leases : m # l => leases'[m] = leases[m]
      /\ leases[l].status = "active"
  BY <1>1, <1>2 DEF LeaveLease, TypeOK, LeaseRows, AssertActiveLease
<1>6. Inherits(pending, pending')
  <2>1. c \in Calls /\ c \notin ContextCalls /\ pending' = Append(pending, c)
    BY RestIsCall, SettleIsNoContext DEF Later
  <2> QED
    BY <1>1, <2>1, InheritAppend
<1> HIDE DEF c
<1>7. LetsGo(S, tasks, leases, tasks', leases')
  <2>1. \A m \in Leases : Entitles(leases'[m]) <=> Entitles(leases[m]) /\ leases[m].task \notin S
    BY <1>3, <1>5 DEF Entitles, Foreign
  <2>2. \A m \in Leases : leases'[m].task = leases[m].task
    BY <1>5
  <2>3. \A u \in Plain : u \notin S => tasks'[u] = tasks[u]
    BY <1>4 DEF Plain
  <2> QED
    BY <1>4, <2>1, <2>2, <2>3 DEF LetsGo
<1>8. ForeignStays(leases, leases') /\ ForeignKept(tasks, tasks')
  BY <1>4, <1>5, NullAssumption DEF ForeignStays, Foreign, ForeignKept
<1>9. OwnInv'
  <2> HIDE DEF S
  <2> QED
    BY <1>1, <1>6, <1>7, <1>8, OwnStep
<1>10. grantedBar' = grantedBar
  BY <1>5, GrantedStays
<1>11. CASE t \notin Plain
  <2>1. \A u \in Plain : SameRole(tasks[u], tasks'[u])
    BY <1>4, <1>11 DEF SameRole, Plain
  <2> QED
    BY <1>9, <1>10, <2>1, PlainUnseen DEF OwnKeeps
<1>12. CASE t \in Plain
  <2> DEFINE ph == PhaseOf(tasks'[t])
             p == [u \in {t} |-> ph]
  <2>1. to = "queued" \/ to \in WaitingTaskStatuses \/ to \in TerminalTaskStatuses
    BY DEF TaskStatuses, HeldStatuses, WaitingTaskStatuses, TerminalTaskStatuses
  <2>2. ph \in {"ready", "parked", "done"} /\ PhaseOf(tasks[t]) = "owned"
    BY <1>3, <1>4, <2>1, PhaseFacts
  <2>3. plainPhase[t] = "owned"
    BY <1>9, <1>12, <2>2, PlainBars
  <2>4. PlainOwnership!Vacate(S, p)
    <3>1. \A u \in Plain : u \in S => tasks'[u].status \notin HeldStatuses /\ PhaseOf(tasks'[u]) = p[u]
      BY <1>4
    <3>2. \A u \in Plain : u \notin S => SameRole(tasks[u], tasks'[u])
      BY <1>4 DEF SameRole, Plain
    <3> HIDE DEF S, p
    <3> QED
      BY <1>9, <3>1, <3>2, PlainVacate
  <2> HIDE DEF ph
  <2>5. PlainOwnership!Return(t, ph)
    BY <1>10, <2>2, <2>3, <2>4 DEF PlainOwnership!Return
  <2> QED
    BY <1>9, <1>12, <2>2, <2>5 DEF OwnKeeps, PlainStep, PlainOwnership!OwnershipNext
<1> QED
  BY <1>11, <1>12

LEMMA HolderOwn ==
  ASSUME OwnInv, NEW t \in Tasks, NEW l \in Leases, NEW w \in Workers, MemoryHolderStep(t, l, w)
  PROVE  OwnKeeps
<1>1. MemInv /\ MemInv' /\ TypeOK /\ TypeOK' /\ pending \in Seq(Calls)
  BY HolderMem DEF OwnInv, MemInv
<1>2. /\ WaitingTaskStatuses \union {"queued", "completed", "failed"} \subseteq TaskStatuses \ HeldStatuses
      /\ {"released", "completed", "failed"} \subseteq AttemptStatuses \ HeldStatuses
      /\ Null \in OptionalTokens
  BY DEF WaitingTaskStatuses, TaskStatuses, HeldStatuses, AttemptStatuses, OptionalTokens
<1>3. ASSUME NEW to \in WaitingTaskStatuses, MemoryPauseTask(t, l, w, to) PROVE OwnKeeps
  BY <1>2, <1>3, LeaveOwn DEF MemoryPauseTask, RecomputesLater
<1>4. CASE MemoryReleaseTask(t, l, w)
  BY <1>2, <1>4, LeaveOwn DEF MemoryReleaseTask, RecomputesLater
<1>5. ASSUME NEW k \in OptionalTokens, MemoryCompleteTask(t, l, w, k) PROVE OwnKeeps
  BY <1>2, <1>5, LeaveOwn DEF MemoryCompleteTask
<1>6. ASSUME NEW k \in OptionalTokens, MemoryFailTask(t, l, w, k) PROVE OwnKeeps
  BY <1>2, <1>6, LeaveOwn DEF MemoryFailTask
<1>7. CASE MemoryMarkTaskRunning(t, l, w)
  <2>1. /\ tasks[t].status \in HeldStatuses /\ leases' = leases
    BY <1>7, AssertedLease DEF MemoryMarkTaskRunning
  <2>2. /\ tasks'[t].status = "running" /\ tasks'[t].leaseId = tasks[t].leaseId
        /\ \A u \in Tasks : u # t => tasks'[u] = tasks[u]
        /\ tasks[t] \in TaskRows /\ tasks'[t] \in TaskRows
    BY <1>1, <1>7 DEF MemoryMarkTaskRunning, TypeOK, TaskRows
  <2>3. SameRole(tasks[t], tasks'[t])
    BY <2>1, <2>2, PhaseFacts DEF SameRole, HolderOf, HeldStatuses
  <2>4. \A u \in Plain : SameRole(tasks[u], tasks'[u])
    BY <2>2, <2>3 DEF SameRole, Plain
  <2>5. ForeignKept(tasks, tasks')
    BY <2>2 DEF ForeignKept
  <2>6. Inherits(pending, pending')
    <3>1. /\ SettleCall(t, Null, Null) \in Calls \ ContextCalls
          /\ pending' = Append(pending, SettleCall(t, Null, Null))
      BY <1>2, <1>7, RestIsCall, SettleIsNoContext DEF MemoryMarkTaskRunning, RecomputesLater, Later
    <3> QED
      BY <1>1, <3>1, InheritAppend
  <2> QED
    BY <1>1, <2>1, <2>4, <2>5, <2>6, OwnUnseen
<1>8. CASE MemoryHeartbeatLease(t, l, w)
  <2>1. PICK ms \in LeaseDurations : HeartbeatLease(t, l, w, ms, now) /\ pending' = pending
    BY <1>8 DEF MemoryHeartbeatLease
  <2>2. \A u \in Tasks : /\ tasks'[u].status = tasks[u].status
                         /\ tasks'[u].dead = tasks[u].dead
                         /\ tasks'[u].leaseId = tasks[u].leaseId
    BY <1>1, <2>1 DEF HeartbeatLease, TypeOK, TaskRows
  <2>3. \A m \in Leases : leases'[m].status = leases[m].status /\ leases'[m].task = leases[m].task
    BY <1>1, <2>1 DEF HeartbeatLease, TypeOK, LeaseRows
  <2>4. \A u \in Plain : SameRole(tasks[u], tasks'[u])
    BY <2>2 DEF SameRole, HolderOf, PhaseOf, Plain
  <2>5. ForeignKept(tasks, tasks')
    BY <2>2 DEF ForeignKept
  <2>6. Inherits(pending, pending')
    BY <2>1, InheritSame
  <2> QED
    BY <1>1, <2>3, <2>4, <2>5, <2>6, OwnUnseen
<1>9. ASSUME NEW k \in OptionalTokens, CompleteWithContext(t, l, w, k) PROVE OwnKeeps
  <2> DEFINE c == Rest("snapshot", t, l, k, "completed")
  <2>1. /\ t \in WithContext /\ UNCHANGED vars /\ pending' = Append(pending, c)
        /\ ~ tasks[t].dead /\ Foreign(leases[l])
    <3>1. t \in WithContext /\ UNCHANGED vars /\ AssertActiveLease(t, l, w, now)
      BY <1>9 DEF CompleteWithContext
    <3> QED
      BY <1>9, <3>1, AssertedLease DEF CompleteWithContext, Later, Plain
  <2>2. c \in Calls /\ c.lease = l /\ c.leaseRow = leases[l]
    BY <1>1, <2>1, ContextIsCall DEF Calls
  <2> HIDE DEF c
  <2>3. UNCHANGED <<tasks, leases>>
    BY <2>1 DEF vars
  <2>4. ContextFit(pending', leases')
    BY <1>1, <2>1, <2>2, <2>3, CallAppended DEF OwnInv, ContextFit
  <2>5. OwnInv'
    BY <1>1, <2>3, <2>4, OwnNext DEF OwnInv
  <2>6. grantedBar' = grantedBar /\ \A u \in Plain : SameRole(tasks[u], tasks'[u])
    BY <2>3, GrantedStays DEF SameRole
  <2> QED
    BY <2>5, <2>6, PlainUnseen DEF OwnKeeps
<1> QED
  BY <1>3, <1>4, <1>5, <1>6, <1>7, <1>8, <1>9 DEF MemoryHolderStep

(* The sweep of expireLeases ends the leases that the rows of expired tasks  *)
(* name: those of the plain ones, and some that are on no plain task.        *)
LEMMA SweepOwn ==
  ASSUME OwnInv
  PROVE  /\ LetsGo(Expired(now), tasks, leases, TasksAfterExpiry(now), LeasesAfterExpiry(now))
         /\ ForeignStays(leases, LeasesAfterExpiry(now))
         /\ ForeignKept(tasks, TasksAfterExpiry(now))
         /\ \A l \in Leases : LeasesAfterExpiry(now)[l].status = "absent" <=> leases[l].status = "absent"
         /\ \A t \in Tasks : t \notin Expired(now) => TasksAfterExpiry(now)[t] = tasks[t]
         /\ \A t \in Expired(now) :
              /\ t \in Tasks /\ tasks[t].status \in HeldStatuses
              /\ TasksAfterExpiry(now)[t].status \notin HeldStatuses
              /\ PhaseOf(TasksAfterExpiry(now)[t]) \in {"ready", "dead"}
              /\ TasksAfterExpiry(now)[t].status = "queued" => PhaseOf(TasksAfterExpiry(now)[t]) = "ready"
<1> DEFINE S == Expired(now)
           T == TasksAfterExpiry(now)
           L == LeasesAfterExpiry(now)
<1>1. /\ MemInv /\ TypeOK /\ now \in Stamps
      /\ HoldersFit(tasks, leases) /\ ForeignFit(tasks, leases)
  BY BoundsAssumption DEF OwnInv, MemInv, TypeOK, Stamps
<1>2. \A t \in S : t \in Tasks /\ tasks[t].status \in HeldStatuses
  BY DEF Expired
<1>3. /\ \A t \in Tasks : T[t] = IF t \in S THEN ExpiredRow(t, now) ELSE tasks[t]
      /\ T \in [Tasks -> TaskRows]
  BY <1>1, ExpiryType DEF TasksAfterExpiry
<1>4. ASSUME NEW t \in S
      PROVE  /\ T[t].status \notin HeldStatuses /\ T[t].leaseId = Null
             /\ PhaseOf(T[t]) \in {"ready", "dead"}
             /\ T[t].status = "queued" => PhaseOf(T[t]) = "ready"
  <2>1. /\ NoLeaseColumns(T[t]) /\ T[t] \in TaskRows
        /\ \/ T[t].status = "queued"
           \/ T[t].status = "failed" /\ T[t].dead
    BY <1>1, <1>2, <1>3, ExpiredRowRow
  <2> QED
    BY <2>1, PhaseFacts DEF NoLeaseColumns, HeldStatuses, TerminalTaskStatuses
<1>5. ASSUME NEW l \in Leases
      PROVE  /\ L[l].task = leases[l].task
             /\ L[l].status = IF l \in ExpiredLeases(now) THEN "expired" ELSE leases[l].status
  <2>1. [leases[l] EXCEPT !.status = "expired"].status = "expired"
        /\ [leases[l] EXCEPT !.status = "expired"].task = leases[l].task
    BY <1>1 DEF TypeOK, LeaseRows
  <2> QED
    BY <2>1 DEF LeasesAfterExpiry
<1>6. ASSUME NEW l \in Leases, l \in ExpiredLeases(now)
      PROVE  /\ leases[l].status # "absent"
             /\ Entitles(leases[l]) => leases[l].task \in S
  <2>1. PICK u \in S : l = tasks[u].leaseId
    BY <1>6 DEF ExpiredLeases
  <2>2. u \in Tasks /\ tasks[u].status \in HeldStatuses
    BY <1>2
  <2>3. CASE u \in Plain
    BY <1>1, <2>1, <2>2, <2>3 DEF HoldersFit
  <2>4. CASE u \notin Plain
    BY <1>1, <2>1, <2>2, <2>4 DEF ForeignFit, Foreign, Entitles
  <2> QED
    BY <2>3, <2>4
<1>7. ASSUME NEW l \in Leases, Entitles(leases[l]), leases[l].task \in S
      PROVE  l \in ExpiredLeases(now)
  <2>1. tasks[leases[l].task].leaseId = l
    BY <1>1, <1>7 DEF HoldersFit, Entitles
  <2> QED
    BY <1>7, <2>1 DEF ExpiredLeases
<1> HIDE DEF S, T, L
<1>8. LetsGo(S, tasks, leases, T, L)
  <2>1. \A l \in Leases : Entitles(L[l]) <=> Entitles(leases[l]) /\ leases[l].task \notin S
    BY <1>5, <1>6, <1>7 DEF Entitles
  <2>2. \A t \in Plain : t \notin S => T[t] = tasks[t]
    BY <1>3 DEF Plain
  <2> QED
    BY <1>4, <1>5, <2>1, <2>2 DEF LetsGo
<1>9. ForeignStays(leases, L)
  BY <1>5 DEF ForeignStays, Foreign
<1>10. ForeignKept(tasks, T)
  BY <1>3, <1>4, NullAssumption DEF ForeignKept
<1>11. \A l \in Leases : L[l].status = "absent" <=> leases[l].status = "absent"
  BY <1>5, <1>6
<1> QED
  BY <1>2, <1>3, <1>4, <1>8, <1>9, <1>10, <1>11 DEF S, T, L

(* What becomes of the plain tasks that a sweep finds expired.               *)
SweptPlain == Expired(now) \intersect Plain

SweptPhase == [t \in SweptPlain |-> PhaseOf(TasksAfterExpiry(now)[t])]

LEMMA SweptFacts ==
  ASSUME OwnInv, OwnInv'
  PROVE  /\ SweptPlain \in SUBSET Plain
         /\ SweptPhase \in [SweptPlain -> {"ready", "dead"}]
         /\ SweptPlain \subseteq PlainOwnership!Owned
<1>1. SweptPhase \in [SweptPlain -> {"ready", "dead"}]
  BY SweepOwn DEF SweptPhase, SweptPlain
<1>2. ASSUME NEW t \in SweptPlain PROVE t \in Plain /\ plainPhase[t] = "owned"
  <2>1. t \in Plain /\ t \in Tasks /\ tasks[t].status \in HeldStatuses /\ tasks[t] \in TaskRows
    BY SweepOwn DEF SweptPlain, OwnInv, MemInv, TypeOK
  <2> QED
    BY <2>1, PhaseFacts, PlainBars
<1> QED
  BY <1>1, <1>2 DEF PlainOwnership!Owned, SweptPlain

LEMMA ExpireOwn ==
  ASSUME OwnInv, MemoryExpireLeases
  PROVE  OwnKeeps
<1>1. MemInv' /\ Inherits(pending, pending')
  BY ExpireMem, InheritSame DEF OwnInv, MemoryExpireLeases
<1>2. tasks' = TasksAfterExpiry(now) /\ leases' = LeasesAfterExpiry(now)
  BY DEF MemoryExpireLeases, ExpireLeases
<1>3. OwnInv'
  BY <1>1, <1>2, SweepOwn, OwnStep
<1>4. PlainOwnership!Vacate(SweptPlain, SweptPhase)
  <2>1. \A t \in Plain : t \in SweptPlain =>
          tasks'[t].status \notin HeldStatuses /\ PhaseOf(tasks'[t]) = SweptPhase[t]
    BY <1>2, SweepOwn DEF SweptPhase, SweptPlain
  <2>2. \A t \in Plain : t \notin SweptPlain => SameRole(tasks[t], tasks'[t])
    BY <1>2, SweepOwn DEF SameRole, SweptPlain, Plain
  <2> QED
    BY <1>3, <2>1, <2>2, PlainVacate
<1>5. grantedBar' = grantedBar /\ grantedBar \subseteq Leases
  BY <1>2, SweepOwn, GrantedStays DEF grantedBar
<1>6. PlainOwnership!Revoke(SweptPlain, SweptPhase)
  BY <1>3, <1>4, <1>5, SweptFacts DEF PlainOwnership!Revoke
<1> QED
  BY <1>3, <1>6, SweptFacts DEF OwnKeeps, PlainStep, PlainOwnership!OwnershipNext

(* A claim sweeps, and then grants a lease that was never on any task.        *)
LEMMA ClaimOwn ==
  ASSUME OwnInv, MemoryClaim
  PROVE  OwnKeeps
<1>1. PICK w \in Workers, l \in Leases, k \in OptionalTokens, kinds \in KindFilters,
          ms \in LeaseDurations : MemoryClaimNextTask(w, l, k, kinds, ms)
  BY DEF MemoryClaim
<1>2. PICK t \in Tasks : Takes(t, w, l, k, kinds, ms, now) /\ RecomputesLater(t)
  BY <1>1 DEF MemoryClaimNextTask, Takes
<1> DEFINE S == Expired(now)
           T == TasksAfterExpiry(now)
           L == LeasesAfterExpiry(now)
           c == SettleCall(t, Null, Null)
<1>3. /\ MemInv /\ MemInv' /\ TypeOK /\ now \in Stamps /\ now + ms \in Int
      /\ pending \in Seq(Calls) /\ HoldersFit(tasks, leases) /\ ForeignFit(tasks, leases)
      /\ ContextFit(pending, leases)
  BY <1>1, ClaimMem, BoundsAssumption DEF OwnInv, MemInv, TypeOK, Stamps
<1>4. /\ T \in [Tasks -> TaskRows] /\ L \in [Leases -> LeaseRows]
      /\ tasks' = [T EXCEPT ![t] = ClaimedRow(@, l, w, now + ms)]
      /\ leases' = [L EXCEPT ![l] = [status |-> "active", task |-> t, worker |-> w,
                                      expiresAt |-> now + ms, token |-> k]]
      /\ T[t].status = "queued" /\ leases[l].status = "absent"
  BY <1>2, <1>3, ExpiryType DEF Takes, Claimable
<1>5. /\ LetsGo(S, tasks, leases, T, L) /\ ForeignStays(leases, L) /\ ForeignKept(tasks, T)
      /\ \A m \in Leases : L[m].status = "absent" <=> leases[m].status = "absent"
      /\ \A u \in Tasks : u \notin S => T[u] = tasks[u]
      /\ \A u \in S :
           /\ u \in Tasks /\ T[u].status \notin HeldStatuses
           /\ T[u].status = "queued" => PhaseOf(T[u]) = "ready"
  BY SweepOwn
<1>6. Inherits(pending, pending')
  <2>1. c \in Calls /\ c \notin ContextCalls /\ pending' = Append(pending, c)
    BY <1>2, RestIsCall, SettleIsNoContext DEF RecomputesLater, Later, OptionalTokens
  <2> QED
    BY <1>3, <2>1, InheritAppend
<1>7. SweptPlain = S \intersect Plain /\ \A u \in SweptPlain : SweptPhase[u] = PhaseOf(T[u])
  BY DEF SweptPlain, SweptPhase
<1> HIDE DEF S, T, L, c
<1>8. /\ tasks'[t].status = "leased" /\ tasks'[t].leaseId = l /\ tasks'[t] \in TaskRows
      /\ \A u \in Tasks : u # t => tasks'[u] = T[u]
  BY <1>3, <1>4, ClaimedRowRow DEF MemInv, TypeOK
<1>9. /\ leases'[l].status = "active" /\ leases'[l].task = t
      /\ \A m \in Leases : m # l => leases'[m] = L[m]
  BY <1>4
<1>10. HoldersFit(T, L) /\ ForeignFit(T, L)
  BY <1>3, <1>5, HoldersLetGo, ForeignGoes
<1>11. L[l].status = "absent"
  BY <1>4, <1>5
<1>12. HoldersFit(tasks', leases')
  <2> SUFFICES ASSUME NEW u \in Plain
               PROVE  /\ tasks'[u].status \in HeldStatuses => tasks'[u].leaseId \in Leases
                      /\ \A m \in Leases : leases'[m].status = "active" /\ leases'[m].task = u <=>
                                           tasks'[u].status \in HeldStatuses /\ tasks'[u].leaseId = m
    BY DEF HoldersFit
  <2>0. u \in Tasks
    BY DEF Plain
  <2>1. /\ T[u].status \in HeldStatuses => T[u].leaseId \in Leases
        /\ \A m \in Leases : L[m].status = "active" /\ L[m].task = u <=>
                             T[u].status \in HeldStatuses /\ T[u].leaseId = m
    BY <1>10 DEF HoldersFit
  <2>2. CASE u = t
    <3>1. T[u].status \notin HeldStatuses /\ tasks'[u].status \in HeldStatuses /\ tasks'[u].leaseId = l
      BY <1>4, <1>8, <2>2 DEF HeldStatuses
    <3> QED
      BY <1>9, <2>1, <2>2, <3>1
  <2>3. CASE u # t
    <3>1. tasks'[u] = T[u]
      BY <1>8, <2>0, <2>3
    <3>2. \A m \in Leases : leases'[m].status = "active" /\ leases'[m].task = u <=>
                            L[m].status = "active" /\ L[m].task = u
      BY <1>9, <1>11, <2>3
    <3> QED
      BY <2>1, <3>1, <3>2
  <2> QED
    BY <2>2, <2>3
<1>13. ForeignStays(leases, leases')
  BY <1>4, <1>5, <1>9 DEF ForeignStays, Foreign
<1>14. ForeignFit(tasks', leases')
  <2> SUFFICES ASSUME NEW u \in Tasks \ Plain, NEW m \in Leases, tasks'[u].leaseId = m
               PROVE  Foreign(leases'[m])
    BY DEF ForeignFit
  <2>1. CASE u = t
    BY <1>8, <1>9, <2>1 DEF Foreign
  <2>2. CASE u # t
    <3>1. Foreign(L[m])
      BY <1>8, <1>10, <2>2 DEF ForeignFit
    <3> QED
      BY <1>9, <1>11, <3>1 DEF Foreign
  <2> QED
    BY <2>1, <2>2
<1>15. OwnInv'
  BY <1>3, <1>6, <1>12, <1>13, <1>14, ContextStays, OwnNext
<1>16. l \notin grantedBar /\ grantedBar' = grantedBar \union {l} /\ grantedBar' \subseteq Leases
  BY <1>4, <1>5, <1>9 DEF grantedBar
<1>17. \A u \in Plain : u # t => /\ u \in SweptPlain => /\ tasks'[u].status \notin HeldStatuses
                                                        /\ PhaseOf(tasks'[u]) = SweptPhase[u]
                                 /\ u \notin SweptPlain => SameRole(tasks[u], tasks'[u])
  BY <1>5, <1>7, <1>8 DEF SameRole, Plain
<1>18. CASE t \notin Plain
  <2>1. PlainOwnership!Vacate(SweptPlain, SweptPhase)
    BY <1>15, <1>17, <1>18, PlainVacate
  <2>2. PlainOwnership!Revoke(SweptPlain, SweptPhase)
    BY <1>15, <1>16, <2>1, SweptFacts DEF PlainOwnership!Revoke
  <2> QED
    BY <1>15, <2>2, SweptFacts DEF OwnKeeps, PlainStep, PlainOwnership!OwnershipNext
<1>19. CASE t \in Plain
  <2>1. PhaseOf(tasks'[t]) = "owned" /\ HolderOf(tasks'[t]) = {l}
    BY <1>8, PhaseFacts DEF HolderOf, HeldStatuses
  <2>2. IF t \in SweptPlain THEN SweptPhase[t] = "ready" ELSE plainPhase[t] = "ready"
    <3>1. CASE t \in SweptPlain
      BY <1>4, <1>5, <1>7, <3>1
    <3>2. CASE t \notin SweptPlain
      <4>1. T[t] = tasks[t] /\ T[t] \in TaskRows
        BY <1>4, <1>5, <1>7, <1>19, <3>2
      <4>2. plainPhase[t] = PhaseOf(tasks[t])
        BY <1>15, <1>19, PlainBars
      <4> QED
        BY <1>4, <3>2, <4>1, <4>2, PhaseFacts
    <3> QED
      BY <3>1, <3>2
  <2>3. plainPhase' = [u \in Plain |-> IF u = t THEN "owned"
                                       ELSE IF u \in SweptPlain THEN SweptPhase[u] ELSE plainPhase[u]]
    BY <1>15, <1>17, <2>1, PlainBars DEF SameRole
  <2>4. plainHolders' = [u \in Plain |-> IF u = t THEN {l}
                                         ELSE IF u \in SweptPlain THEN {} ELSE plainHolders[u]]
    <3>1. \A u \in Plain : HolderOf(tasks'[u]) = IF u = t THEN {l}
                                               ELSE IF u \in SweptPlain THEN {} ELSE HolderOf(tasks[u])
      <4>1. \A u \in Plain : u # t /\ u \in SweptPlain => HolderOf(tasks'[u]) = {}
        BY <1>17 DEF HolderOf
      <4> QED
        BY <1>17, <2>1, <4>1 DEF SameRole
    <3> QED
      BY <1>15, <3>1, PlainBars
  <2>5. PlainOwnership!Grant(SweptPlain, SweptPhase, t, l)
    BY <1>15, <1>16, <2>2, <2>3, <2>4, SweptFacts DEF PlainOwnership!Grant
  <2> QED
    BY <1>15, <1>19, <2>5, SweptFacts DEF OwnKeeps, PlainStep, PlainOwnership!OwnershipNext
<1> QED
  BY <1>18, <1>19

(* cancelRun finds the leases by the run of their task: for a plain task it  *)
(* is the lease of the holder it takes the task from.                        *)
LEMMA CancelOwn ==
  ASSUME OwnInv, NEW r \in Runs, MemoryCancelRun(r)
  PROVE  OwnKeeps
<1> DEFINE S == OpenTasksOf(r)
           P == S \intersect Plain
           p == [t \in P |-> "done"]
<1>1. /\ MemInv /\ MemInv' /\ TypeOK /\ TypeOK' /\ CancelRun(r) /\ HoldersFit(tasks, leases)
      /\ Inherits(pending, pending')
  BY CancelMem, InheritSame DEF OwnInv, MemInv, MemoryCancelRun
<1>2. \A t \in Tasks :
        \/ t \notin S /\ tasks'[t] = tasks[t]
        \/ /\ t \in S
           /\ tasks'[t].status = "cancelled" /\ tasks'[t].leaseId = Null
           /\ tasks'[t].dead = tasks[t].dead
  BY <1>1, CancelRows
<1>3. ASSUME NEW l \in Leases
      PROVE  /\ leases'[l].task = leases[l].task
             /\ leases'[l].status = IF leases[l].status = "active" /\ RunOf(leases[l].task) = r
                                      THEN "cancelled" ELSE leases[l].status
  <2>1. /\ [leases[l] EXCEPT !.status = "cancelled"].status = "cancelled"
        /\ [leases[l] EXCEPT !.status = "cancelled"].task = leases[l].task
    BY <1>1 DEF TypeOK, LeaseRows
  <2> QED
    BY <1>1, <2>1 DEF CancelRun
<1>4. ASSUME NEW l \in Leases, Entitles(leases[l])
      PROVE  leases[l].task \in S <=> RunOf(leases[l].task) = r
  <2>1. leases[l].task \in Tasks /\ tasks[leases[l].task].status \in HeldStatuses
    BY <1>1, <1>4 DEF HoldersFit, Entitles, Plain
  <2> QED
    BY <2>1 DEF OpenTasksOf, HeldStatuses, TaskStatuses, TerminalTaskStatuses
<1>5. \A t \in S : /\ t \in Tasks /\ tasks[t].status \in TaskStatuses \ TerminalTaskStatuses
                   /\ ~ tasks[t].dead
  BY <1>1 DEF OpenTasksOf, MemInv, RowFits, TerminalTaskStatuses
<1> HIDE DEF S
<1>6. LetsGo(S, tasks, leases, tasks', leases')
  <2>1. \A l \in Leases : Entitles(leases'[l]) <=> Entitles(leases[l]) /\ leases[l].task \notin S
    BY <1>3, <1>4 DEF Entitles
  <2> QED
    BY <1>2, <1>3, <2>1 DEF LetsGo, HeldStatuses, Plain
<1>7. ForeignStays(leases, leases') /\ ForeignKept(tasks, tasks')
  BY <1>2, <1>3, NullAssumption DEF ForeignStays, Foreign, ForeignKept
<1>8. OwnInv'
  BY <1>1, <1>6, <1>7, OwnStep
<1>9. grantedBar' = grantedBar
  BY <1>3, GrantedStays
<1>10. \A t \in P : plainPhase[t] \in PlainOwnership!Open
  <2> SUFFICES ASSUME NEW t \in P PROVE plainPhase[t] \in PlainOwnership!Open
    OBVIOUS
  <2>1. \/ tasks[t].status = "queued"
        \/ tasks[t].status \in HeldStatuses
        \/ tasks[t].status \in WaitingTaskStatuses
    BY <1>5 DEF TaskStatuses, TerminalTaskStatuses, HeldStatuses, WaitingTaskStatuses
  <2>2. tasks[t] \in TaskRows
    BY <1>1, <1>5 DEF TypeOK
  <2>3. plainPhase[t] = PhaseOf(tasks[t])
    BY <1>8, PlainBars
  <2> QED
    BY <2>1, <2>2, <2>3, PhaseFacts DEF PlainOwnership!Open
<1>11. PlainOwnership!Vacate(P, p)
  <2>1. \A t \in Plain : t \in P => tasks'[t].status \notin HeldStatuses /\ PhaseOf(tasks'[t]) = p[t]
    <3> SUFFICES ASSUME NEW t \in P
                 PROVE  tasks'[t].status \notin HeldStatuses /\ PhaseOf(tasks'[t]) = "done"
      OBVIOUS
    <3>1. tasks'[t].status = "cancelled" /\ ~ tasks'[t].dead /\ tasks'[t] \in TaskRows
      BY <1>1, <1>2, <1>5 DEF TypeOK
    <3> QED
      BY <3>1, PhaseFacts DEF HeldStatuses, TerminalTaskStatuses
  <2>2. \A t \in Plain : t \notin P => SameRole(tasks[t], tasks'[t])
    BY <1>2 DEF SameRole, Plain
  <2> HIDE DEF P, p
  <2> QED
    BY <1>8, <2>1, <2>2, PlainVacate
<1>12. PlainOwnership!CallOff(P)
  BY <1>9, <1>10, <1>11 DEF PlainOwnership!CallOff
<1>13. P \in SUBSET Plain
  OBVIOUS
<1> HIDE DEF P
<1> QED
  BY <1>8, <1>12, <1>13 DEF OwnKeeps, PlainStep, PlainOwnership!OwnershipNext

(* Pruning a run deletes the rows of its tasks and of the leases on them.    *)
LEMMA PruneOwn ==
  ASSUME OwnInv, MemoryPruneRuns
  PROVE  OwnKeeps
<1>1. PICK statuses \in PruneFilters, R \in SUBSET Runs : PruneRuns(statuses, R)
  BY DEF MemoryPruneRuns, Prune
<1> DEFINE S == RowsOf(R)
           P == S \intersect Plain
           p == [t \in P |-> "gone"]
           gone == [AbsentTask EXCEPT !.status = "pruned"]
           goneLease == [AbsentLease EXCEPT !.status = "pruned"]
<1>2. /\ MemInv /\ MemInv' /\ TypeOK /\ TypeOK' /\ HoldersFit(tasks, leases)
      /\ Inherits(pending, pending')
  BY PruneMem, InheritSame DEF OwnInv, MemInv, MemoryPruneRuns
<1>3. /\ gone.status = "pruned" /\ gone.leaseId = Null /\ gone.dead = FALSE
      /\ goneLease.status = "pruned" /\ goneLease.task = Null
  BY AbsentTaskRow, AbsentLeaseRow DEF NoRow
<1>4. \A t \in Tasks : tasks'[t] = IF t \in S THEN gone ELSE tasks[t]
  BY <1>1 DEF PruneRuns, RowsOf
<1>5. \A l \in Leases : leases'[l] = IF leases[l].status \in LeaseStatuses /\ RunOf(leases[l].task) \in R
                                       THEN goneLease ELSE leases[l]
  BY <1>1 DEF PruneRuns
<1>6. Null \notin Plain
  BY NullAssumption DEF Plain
<1>7. ASSUME NEW l \in Leases, Entitles(leases[l])
      PROVE  leases[l].task \in S <=> RunOf(leases[l].task) \in R
  <2>1. leases[l].task \in Tasks /\ tasks[leases[l].task].status \in HeldStatuses
    BY <1>2, <1>7 DEF HoldersFit, Entitles, Plain
  <2> QED
    BY <2>1 DEF RowsOf, HeldStatuses, TaskStatuses
<1> HIDE DEF S, gone, goneLease
<1>8. LetsGo(S, tasks, leases, tasks', leases')
  <2>1. \A l \in Leases : Entitles(leases'[l]) <=> Entitles(leases[l]) /\ leases[l].task \notin S
    BY <1>3, <1>5, <1>7 DEF Entitles, LeaseStatuses
  <2>2. \A l \in Leases : Entitles(leases'[l]) => leases'[l].task = leases[l].task
    BY <1>3, <1>5 DEF Entitles
  <2> QED
    BY <1>3, <1>4, <2>1, <2>2 DEF LetsGo, HeldStatuses, Plain
<1>9. ForeignStays(leases, leases')
  BY <1>3, <1>5, <1>6 DEF ForeignStays, Foreign
<1>10. ForeignKept(tasks, tasks')
  BY <1>3, <1>4, NullAssumption DEF ForeignKept
<1>11. OwnInv'
  BY <1>2, <1>8, <1>9, <1>10, OwnStep
<1>12. grantedBar' = grantedBar
  <2>1. \A l \in Leases : leases'[l].status = "absent" <=> leases[l].status = "absent"
    BY <1>3, <1>5 DEF LeaseStatuses
  <2> QED
    BY <2>1, GrantedStays
<1>13. PlainOwnership!Vacate(P, p)
  <2>1. \A t \in Plain : t \in P => tasks'[t].status \notin HeldStatuses /\ PhaseOf(tasks'[t]) = p[t]
    <3> SUFFICES ASSUME NEW t \in P
                 PROVE  tasks'[t].status \notin HeldStatuses /\ PhaseOf(tasks'[t]) = "gone"
      OBVIOUS
    <3>1. tasks'[t].status = "pruned" /\ tasks'[t] \in TaskRows
      BY <1>2, <1>3, <1>4 DEF TypeOK, Plain
    <3> QED
      BY <3>1, PhaseFacts DEF HeldStatuses
  <2>2. \A t \in Plain : t \notin P => SameRole(tasks[t], tasks'[t])
    BY <1>4 DEF SameRole, Plain
  <2> HIDE DEF P, p
  <2> QED
    BY <1>11, <2>1, <2>2, PlainVacate
<1>14. PlainOwnership!Forget(P)
  BY <1>12, <1>13 DEF PlainOwnership!Forget
<1>15. P \in SUBSET Plain
  OBVIOUS
<1> HIDE DEF P
<1> QED
  BY <1>11, <1>14, <1>15 DEF OwnKeeps, PlainStep, PlainOwnership!OwnershipNext

(* What completeTask with nextContext writes after its awaits, however old:  *)
(* a lease row that was never on a plain task.                               *)
LEMMA StaleRowsOwn ==
  ASSUME OwnInv, WritesStaleRows
  PROVE  OwnKeeps
<1> DEFINE h == Head(pending)
           c == SettleCall(h.task, h.token, h.outcome)
           row == WithoutLease(h.row, "completed")
           lease == [h.leaseRow EXCEPT !.status = "released", !.token = leases[h.lease].token]
           S == {}
<1>1. /\ MemInv /\ MemInv' /\ TypeOK /\ pending \in Seq(Calls) /\ pending # <<>> /\ h.pc = "write"
      /\ tasks' = [tasks EXCEPT ![h.task] = row]
      /\ leases' = [leases EXCEPT ![h.lease] = lease]
      /\ pending' = Append(Tail(pending), Rest("settle", h.task, Null, h.token, h.outcome))
  BY StaleRowsMem DEF OwnInv, MemInv, WritesStaleRows, Oldest
<1>2. h \in Calls /\ h = pending[1] /\ 1 \in DOMAIN pending
  BY <1>1, CallRemoved
<1>3. h \in ContextCalls /\ h.task \in WithContext /\ h.task \in Tasks /\ h.token \in OptionalTokens
  BY <1>1, <1>2, CallFields
<1>4. h.lease \in Leases /\ h.row \in TaskRows /\ h.leaseRow \in LeaseRows /\ h.outcome = "completed"
  BY <1>3 DEF ContextCalls
<1>5. row.leaseId = Null
  BY <1>4, WithoutLeaseRow DEF TaskStatuses
<1>6. lease.status = "released" /\ lease.task = h.leaseRow.task
  BY <1>4 DEF LeaseRows
<1>7. Foreign(leases[h.lease]) /\ Foreign(h.leaseRow)
  BY <1>2, <1>3 DEF OwnInv, ContextFit
<1>8. c \in Calls /\ c \notin ContextCalls /\ pending' = Append(Tail(pending), c)
  BY <1>1, <1>3, <1>4, RestIsCall, SettleIsNoContext
<1> HIDE DEF c, row, lease
<1>9. Inherits(pending, pending')
  BY <1>1, <1>8, InheritRejoin
<1> HIDE DEF h
<1>10. /\ tasks'[h.task] = row /\ \A u \in Tasks : u # h.task => tasks'[u] = tasks[u]
       /\ leases'[h.lease] = lease /\ \A l \in Leases : l # h.lease => leases'[l] = leases[l]
       /\ h.task \notin Plain
  BY <1>1, <1>3, <1>4 DEF TypeOK, Plain
<1>11. \A u \in Plain : tasks'[u] = tasks[u]
  BY <1>10 DEF Plain
<1>12. LetsGo(S, tasks, leases, tasks', leases')
  BY <1>6, <1>7, <1>10, <1>11 DEF LetsGo, Entitles, Foreign
<1>13. ForeignStays(leases, leases')
  BY <1>6, <1>7, <1>10 DEF ForeignStays, Foreign
<1>14. ForeignKept(tasks, tasks')
  BY <1>5, <1>10, NullAssumption DEF ForeignKept
<1> HIDE DEF S
<1>15. OwnInv'
  BY <1>1, <1>9, <1>12, <1>13, <1>14, OwnStep
<1>16. grantedBar' = grantedBar
  <2>1. \A l \in Leases : leases'[l].status = "absent" <=> leases[l].status = "absent"
    BY <1>6, <1>7, <1>10 DEF Foreign
  <2> QED
    BY <2>1, GrantedStays
<1> QED
  BY <1>11, <1>15, <1>16, PlainUnseen DEF OwnKeeps, SameRole

(* Steps that leave the tasks and the leases alone.                          *)
LEMMA QuietOwn ==
  ASSUME OwnInv, MemInv',
         \/ SnapshotReturns \/ Settle \/ (Tick /\ UNCHANGED pending) \/ UNCHANGED memoryVars
         \/ \E r \in Runs : MemoryCreateRun(r)
  PROVE  OwnKeeps
<1>1. pending \in Seq(Calls)
  BY DEF OwnInv, MemInv
<1>2. CASE SnapshotReturns
  <2> DEFINE h == Head(pending)
             c == [h EXCEPT !.pc = "write"]
  <2>1. /\ pending # <<>> /\ h.pc = "snapshot" /\ pending' = Append(Tail(pending), c)
        /\ UNCHANGED <<tasks, leases>>
    BY <1>2 DEF SnapshotReturns, Oldest, vars
  <2>2. h \in Calls
    BY <1>1, <2>1, CallRemoved
  <2>3. h \in ContextCalls
    BY <2>1, <2>2, CallFields
  <2>4. c \in Calls /\ c.lease = h.lease /\ c.leaseRow = h.leaseRow
    BY <2>3, CallGoesOn DEF Calls
  <2> HIDE DEF c
  <2>5. Inherits(pending, pending')
    BY <1>1, <2>1, <2>3, <2>4, InheritRejoin
  <2> QED
    BY <2>1, <2>5, OwnQuiet
<1>3. CASE Settle
  <2>1. pending # <<>> /\ pending' = Tail(pending) /\ UNCHANGED <<tasks, leases>>
    BY <1>3 DEF Settle
  <2> QED
    BY <1>1, <2>1, InheritTail, OwnQuiet
<1>4. CASE \/ (Tick /\ UNCHANGED pending) \/ UNCHANGED memoryVars
           \/ \E r \in Runs : MemoryCreateRun(r)
  <2>1. UNCHANGED <<tasks, leases, pending>>
    BY <1>4 DEF Tick, memoryVars, vars, MemoryCreateRun
  <2> QED
    BY <2>1, InheritSame, OwnQuiet
<1> QED
  BY <1>2, <1>3, <1>4

(***************************************************************************)
(* The invariant and the refinement.                                       *)
(***************************************************************************)

LEMMA OwnStepAll ==
  ASSUME OwnInv, [MemoryNext]_memoryVars
  PROVE  OwnKeeps
<1>1. MemInv'
  BY MemStep DEF OwnInv
<1>2. ASSUME NEW t \in Tasks, MemoryTaskStep(t) PROVE OwnKeeps
  BY <1>2, TaskOwn
<1>3. ASSUME NEW t \in Tasks, NEW l \in Leases, NEW w \in Workers, MemoryHolderStep(t, l, w)
      PROVE  OwnKeeps
  BY <1>3, HolderOwn
<1>4. CASE MemoryClaim
  BY <1>4, ClaimOwn
<1>5. ASSUME NEW r \in Runs, MemoryCancelRun(r) PROVE OwnKeeps
  BY <1>5, CancelOwn
<1>6. CASE MemoryExpireLeases
  BY <1>6, ExpireOwn
<1>7. CASE MemoryPruneRuns
  BY <1>7, PruneOwn
<1>8. CASE WritesStaleRows
  BY <1>8, StaleRowsOwn
<1>9. CASE \/ SnapshotReturns \/ Settle \/ (Tick /\ UNCHANGED pending) \/ UNCHANGED memoryVars
           \/ \E r \in Runs : MemoryCreateRun(r)
  BY <1>1, <1>9, QuietOwn
<1> QED
  BY <1>2, <1>3, <1>4, <1>5, <1>6, <1>7, <1>8, <1>9 DEF MemoryNext

LEMMA OwnStart ==
  ASSUME MemoryInit
  PROVE  OwnInv /\ PlainOwnership!OwnershipInit
<1>1. MemInv
  BY MemStart
<1>2. /\ \A t \in Tasks : tasks[t].status = "absent" /\ tasks[t].leaseId = Null /\ tasks[t] \in TaskRows
      /\ \A l \in Leases : leases[l].status = "absent"
      /\ DOMAIN pending = {}
  <2>1. Init /\ pending = <<>>
    BY DEF MemoryInit
  <2>2. tasks = [t \in Tasks |-> AbsentTask] /\ leases = [l \in Leases |-> AbsentLease]
    BY <2>1 DEF Init
  <2>3. AbsentTask.status = "absent" /\ AbsentTask.leaseId = Null /\ AbsentLease.status = "absent"
    BY DEF AbsentTask, AbsentLease
  <2>4. AbsentTask \in TaskRows
    BY AbsentTaskRow DEF NoRow
  <2> QED
    BY <2>1, <2>2, <2>3, <2>4
<1>3. HoldersFit(tasks, leases) /\ ForeignFit(tasks, leases) /\ ContextFit(pending, leases)
  BY <1>2, NullAssumption DEF HoldersFit, ForeignFit, ContextFit, HeldStatuses, Plain
<1>4. \A t \in Plain : PhaseOf(tasks[t]) = "none"
  BY <1>2, PhaseFacts DEF Plain
<1>5. PlainOwnership!OwnershipInit
  BY <1>2, <1>4 DEF PlainOwnership!OwnershipInit, plainPhase, plainHolders, grantedBar
<1> QED
  BY <1>1, <1>3, <1>5 DEF OwnInv

LEMMA OwnInductive == MemorySpec => []OwnInv
<1>1. OwnInv /\ [MemoryNext]_memoryVars => OwnInv'
  BY OwnStepAll DEF OwnKeeps
<1>2. MemoryInit => OwnInv
  BY OwnStart
<1> QED
  BY <1>1, <1>2, PTL DEF MemorySpec

(***************************************************************************)
(* The theorems.  They assume nothing about who passes an id twice, who    *)
(* completes with nextContext, or how many calls wait at once.             *)
(***************************************************************************)

(* However the calls about a run overlap, and whatever tasks they overwrite, *)
(* the run stands as its tasks say once they have returned: unless createRun *)
(* is given the run's id again, which recomputes nothing.                    *)
THEOREM RunStatusSettlesHolds == MemorySpec => []RunStatusSettles
<1>1. MemInv => RunStatusSettles
  BY DEF MemInv
<1> QED
  BY <1>1, MemInductive, PTL

(* A run is not closed while one of its tasks is held: the recompute that    *)
(* comes late cannot close it under a holder, nor can an overwritten row.    *)
THEOREM MemoryTerminalRunIsIdleHolds == MemorySpec => []TerminalRunIsIdle
<1>1. MemInv => TerminalRunIsIdle
  BY DEF MemInv
<1> QED
  BY <1>1, MemInductive, PTL

(* An outcome filed after the await, for a task that passes its id once and  *)
(* is not completed with nextContext, is the one the task still has; and no  *)
(* other token has one for the task.                                         *)
THEOREM RecordedOutcomeIsTrueHolds == MemorySpec => []RecordedOutcomeIsTrue
<1>1. MemInv => RecordedOutcomeIsTrue
  BY DEF MemInv, RecordsFit, Fits, Filed, OnRecord, IsDecided, RecordedOutcomeIsTrue
<1> QED
  BY <1>1, MemInductive, PTL

(* On the tasks that pass their id once and are completed without            *)
(* nextContext the store is TaskOwnership: one holder at a time, a lease     *)
(* granted afresh, done is done.  What is overwritten or written stale for   *)
(* other tasks, in the same runs and with the same workers, does not reach   *)
(* them.                                                                     *)
THEOREM MemoryImplementsOwnershipHolds == MemorySpec => ImplementsPlainOwnership
<1>1. MemoryInit => PlainOwnership!OwnershipInit
  BY OwnStart
<1>2. OwnInv /\ [MemoryNext]_memoryVars => [PlainOwnership!OwnershipNext]_PlainOwnership!ownershipVars
  BY OwnStepAll DEF OwnKeeps, PlainStep
<1> QED
  BY <1>1, <1>2, OwnInductive, PTL DEF MemorySpec, ImplementsPlainOwnership, PlainOwnership!OwnershipSpec
=============================================================================
