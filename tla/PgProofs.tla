------------------------------ MODULE PgProofs ------------------------------
(***************************************************************************)
(* Machine-checked proofs about PgStore, for every value of its constants. *)
(*                                                                         *)
(* The invariant PgInv says of the committed tables that their rows fit    *)
(* together, and of every open transaction that what it has written fits   *)
(* them too (Fits): were it to commit now, they still would.  Its row      *)
(* locks are what keeps this true while others commit: an open             *)
(* transaction sees the committed tables change, but only as Advances      *)
(* says.  Most steps only make one transaction longer, by rows that fit.   *)
(***************************************************************************)
EXTENDS PgProperties, StoreProofs

(***************************************************************************)
(* Rows written and not committed.                                         *)
(***************************************************************************)

Writes(X, Y) == UNION {[D -> Y] : D \in SUBSET X}

LEMMA WritesType ==
  ASSUME NEW X, NEW Y, NEW f \in Writes(X, Y)
  PROVE  /\ DOMAIN f \in SUBSET X
         /\ f \in [DOMAIN f -> Y]
         /\ \A x \in DOMAIN f : x \in X /\ f[x] \in Y
  BY DEF Writes

LEMMA WritesMake ==
  ASSUME NEW X, NEW Y, NEW D \in SUBSET X, NEW f \in [D -> Y]
  PROVE  f \in Writes(X, Y) /\ DOMAIN f = D
  BY DEF Writes

LEMMA NothingWritten ==
  ASSUME NEW X, NEW Y
  PROVE  Nothing \in Writes(X, Y) /\ DOMAIN Nothing = {}
<1>1. Nothing \in [{} -> Y] /\ DOMAIN Nothing = {}
  BY DEF Nothing
<1> QED
  BY <1>1 DEF Writes

(* One more row: Put.                                                        *)
LEMMA PutWrites ==
  ASSUME NEW X, NEW Y, NEW f \in Writes(X, Y), NEW x \in X, NEW y \in Y
  PROVE  Put(f, x, y) \in Writes(X, Y)
<1>1. DOMAIN f \in SUBSET X /\ \A z \in DOMAIN f : f[z] \in Y
  BY WritesType
<1>2. Put(f, x, y) \in [DOMAIN f \union {x} -> Y]
  BY <1>1 DEF Put
<1> QED
  BY <1>1, <1>2, WritesMake

(***************************************************************************)
(* The invariant.                                                          *)
(***************************************************************************)

Operations ==
  {"none", "holder", "resume", "requeue", "enqueue", "sweep", "claim", "cancel", "prune"}

Statements ==
  {"idle", "sweep", "lease", "task", "insert", "derive", "settle",
   "cancelRun", "cancelTasks", "cancelLeases", "delete"}

TxRecords ==
  [op : Operations, pc : Statements, task : Tasks \union {Null}, lease : Leases \union {Null},
   run : Runs \union {Null}, worker : Workers \union {Null}, to : TaskStatuses \union {"heartbeat", Null},
   at : Int, count : Nat, todo : SUBSET (Tasks \union Runs), next : RunStatuses \union {Null},
   runs : Writes(Runs, RunStatuses), tasks : Writes(Tasks, TaskRows),
   leases : Writes(Leases, LeaseRows), attempts : Writes(Leases, AttemptStatuses)]

CommittedType(R, T, L, A) ==
  /\ R \in [Runs -> RunStatuses \union NoRow]
  /\ T \in [Tasks -> TaskRows]
  /\ L \in [Leases -> LeaseRows]
  /\ A \in [Leases -> AttemptStatuses \union NoRow]

Present(t, T) == T[t].status \in TaskStatuses

LeasePresent(l, L) == L[l].status \in LeaseStatuses

(* The committed rows refer to each other.  Foreign keys do not say that a   *)
(* task names only a lease that was given on it (LeaseNamed).                *)
LeaseNamed(t, T, L) ==
  LET l == T[t].leaseId
  IN  l # Null => LeasePresent(l, L) /\ L[l].task = t

Tables(R, T, L, A) ==
  /\ \A t \in Tasks : Present(t, T) =>
       /\ R[RunOf(t)] \in RunStatuses
       /\ Input[t].dependsOn \subseteq TasksOf(RunOf(t), T)
       /\ SameKey(t) \intersect TasksOf(RunOf(t), T) = {}
  /\ \A t \in Tasks : LeaseNamed(t, T, L)
  /\ \A l \in Leases : LeasePresent(l, L) => L[l].task \in Tasks /\ Present(L[l].task, T)
  /\ \A l \in Leases : A[l] \in AttemptStatuses <=> LeasePresent(l, L)

(* The rows a transaction x has written, over committed tables R, T and L.   *)
Sweeps(x) == x.op \in {"sweep", "claim"}

Swept(x, t) == \E l \in DOMAIN x.leases : x.leases[l].task = t /\ x.leases[l].status = "expired"

\* The task that x claims.
Handed(x, t, T) ==
  LET l == x.tasks[t].leaseId
  IN  /\ x.op = "claim" /\ x.to = "leased"
      /\ l \in DOMAIN x.leases /\ x.leases[l].task = t
      /\ T[t].leaseId = Null \/ Swept(x, t)

\* The task that x enqueues.
Inserted(x, t, T) ==
  /\ T[t].status = "absent"
  /\ SameKey(t) \intersect TasksOf(RunOf(t), T) = {}
  /\ Input[t].dependsOn \subseteq TasksOf(RunOf(t), T)
  /\ x.tasks[t].leaseId = Null
  /\ \A u \in DOMAIN x.tasks : u = t

TaskFits(x, t, R, T) ==
  /\ x.tasks[t].status \in TaskStatuses
  /\ R[RunOf(t)] \in RunStatuses
  /\ x.tasks[t].leaseId \in {Null, T[t].leaseId} \/ Handed(x, t, T)
  /\ Sweeps(x) => Swept(x, t) \/ Handed(x, t, T)
  /\ x.op = "enqueue" => Inserted(x, t, T)
  /\ x.op # "enqueue" => Present(t, T)

\* The task of the lease that x expires is gone: x cannot go on and will abort.
Doomed(x, l, T) ==
  Sweeps(x) /\ x.pc = "task" /\ x.lease = l /\ T[x.task].status = "pruned"

LeaseFits(x, l, T, L) ==
  /\ x.leases[l].status \in LeaseStatuses
  /\ \/ LeasePresent(l, L) /\ x.leases[l].task = L[l].task
     \/ /\ L[l].status = "absent"
        /\ x.op = "claim" /\ x.to = "leased" /\ x.leases[l].task \in DOMAIN x.tasks
     \/ Doomed(x, l, T)

Fits(x, R, T, L) ==
  /\ \A t \in DOMAIN x.tasks : TaskFits(x, t, R, T)
  /\ \A l \in DOMAIN x.leases : LeaseFits(x, l, T, L)
  /\ \A r \in DOMAIN x.runs : R[r] \in RunStatuses
  /\ DOMAIN x.attempts = DOMAIN x.leases

(* What the next statement of x relies on: about x alone, and about what is  *)
(* committed.                                                                *)
Control(x) ==
  /\ x.op = "enqueue" => x.pc \in {"insert", "derive", "settle"}
  /\ x.op = "claim" /\ x.to = "leased" => x.pc \in {"derive", "settle"}
  /\ x.op = "holder" => x.to \in LeaveTo \union {"running", "heartbeat"}
  /\ Sweeps(x) => x.todo \subseteq Tasks
  /\ x.op = "claim" => x.worker \in Workers
  /\ x.pc = "sweep" => Sweeps(x)
  /\ x.pc = "insert" => x.op = "enqueue" /\ DOMAIN x.tasks = {}
  /\ x.pc = "lease" => x.op \in {"holder", "sweep", "claim"}
  /\ x.pc \in {"lease", "task"} /\ x.op \in {"holder", "sweep", "claim"} => x.lease \in Leases
  /\ x.pc \in {"lease", "task", "insert"} => x.task \in Tasks
  /\ x.pc \in {"derive", "settle"} \/ (x.pc = "lease" /\ x.op = "holder") => x.task \in DOMAIN x.tasks
  /\ x.pc = "task" /\ Sweeps(x) => x.lease \in DOMAIN x.leases /\ x.leases[x.lease].status = "expired"
  /\ x.pc = "settle" => x.next \in RunStatuses
  /\ x.pc \in {"cancelRun", "cancelTasks", "cancelLeases"} => x.op = "cancel" /\ x.run \in Runs
  /\ x.pc = "delete" => x.todo \subseteq Runs

Aim(x, R, T, L) ==
  /\ x.pc \in {"lease", "task"} /\ x.op \in {"holder", "sweep", "claim"} =>
       \/ T[x.task].status = "pruned"
       \/ Present(x.task, T) /\ LeasePresent(x.lease, L) /\ L[x.lease].task = x.task
  /\ x.pc = "insert" =>
       \/ R[RunOf(x.task)] = "pruned"
       \/ Input[x.task].dependsOn \subseteq TasksOf(RunOf(x.task), T)

(* Row locks, and the locks of the unique index on (run_id, task_key).       *)
Apart(x, y) ==
  /\ DOMAIN x.tasks \intersect DOMAIN y.tasks = {}
  /\ DOMAIN x.leases \intersect DOMAIN y.leases = {}
  /\ x.op = "enqueue" /\ y.op = "enqueue" =>
       \A t \in DOMAIN x.tasks : SameKey(t) \intersect DOMAIN y.tasks = {}

PgInv ==
  /\ now \in Nat /\ checked \subseteq Tasks
  /\ completions = [k \in Tokens |-> Null]
  /\ CommittedType(runs, tasks, leases, attempts)
  /\ Tables(runs, tasks, leases, attempts)
  /\ tx \in [Sessions -> TxRecords]
  /\ \A s \in Sessions : /\ Fits(tx[s], runs, tasks, leases)
                         /\ Control(tx[s])
                         /\ Aim(tx[s], runs, tasks, leases)
  /\ \A s, o \in Sessions : s # o => Apart(tx[s], tx[o])

(***************************************************************************)
(* What others may do to the committed tables while x is open.             *)
(***************************************************************************)

Advances(x, R, T, L, R1, T1, L1) ==
  /\ \A t \in DOMAIN x.tasks : T1[t] = T[t] /\ R1[RunOf(t)] \in RunStatuses
  /\ \A l \in DOMAIN x.leases : L1[l] = L[l]
  /\ \A r \in DOMAIN x.runs : R1[r] \in RunStatuses
  /\ \A r \in Runs : R[r] = "pruned" => R1[r] = "pruned"
  /\ \A t \in Tasks : T[t].status = "pruned" => T1[t].status = "pruned"
  /\ \A t \in Tasks : Present(t, T) =>
       Present(t, T1) \/ (T1[t].status = "pruned" /\ R1[RunOf(t)] = "pruned")
  /\ \A l \in Leases : LeasePresent(l, L) /\ Present(L[l].task, T1) =>
       LeasePresent(l, L1) /\ L1[l].task = L[l].task
  /\ x.op = "enqueue" =>
       \A t \in DOMAIN x.tasks : SameKey(t) \intersect TasksOf(RunOf(t), T1) = {}

LEMMA TasksOfType ==
  /\ \A t \in Tasks : RunOf(t) \in Runs /\ Input[t].dependsOn \subseteq Tasks
  /\ \A r, T, t : t \in TasksOf(r, T) <=> t \in Tasks /\ RunOf(t) = r /\ Present(t, T)
  /\ \A t, u \in Tasks : u \in SameKey(t) <=> t \in SameKey(u)
  /\ \A t \in Tasks : \A u \in SameKey(t) : u \in Tasks /\ u # t /\ RunOf(u) = RunOf(t)
  BY InputAssumption DEF TasksOf, Present, SameKey, RunOf, InputRecords

LEMMA DependenciesStay ==
  ASSUME NEW R1, NEW T, NEW T1, NEW r, NEW D \in SUBSET TasksOf(r, T),
         \A t \in Tasks : Present(t, T) =>
           Present(t, T1) \/ (T1[t].status = "pruned" /\ R1[RunOf(t)] = "pruned"),
         R1[r] # "pruned"
  PROVE  D \subseteq TasksOf(r, T1)
  BY TasksOfType

(* A transaction that fits the committed tables still does.                  *)
LEMMA FitsStays ==
  ASSUME NEW R, NEW T, NEW L, NEW R1, NEW T1, NEW L1, NEW x \in TxRecords,
         Fits(x, R, T, L), Control(x), Aim(x, R, T, L), Advances(x, R, T, L, R1, T1, L1)
  PROVE  Fits(x, R1, T1, L1) /\ Aim(x, R1, T1, L1)
<1>1. /\ DOMAIN x.tasks \in SUBSET Tasks /\ DOMAIN x.leases \in SUBSET Leases
      /\ DOMAIN x.runs \in SUBSET Runs
  BY WritesType DEF TxRecords
<1>2. "pruned" \notin RunStatuses /\ "pruned" \notin TaskStatuses
  BY DEF RunStatuses, TaskStatuses
<1>3. ASSUME NEW t \in DOMAIN x.tasks
      PROVE  TaskFits(x, t, R1, T1)
  <2>1. TaskFits(x, t, R, T) /\ T1[t] = T[t] /\ R1[RunOf(t)] \in RunStatuses
    BY <1>3 DEF Fits, Advances
  <2>2. ASSUME x.op = "enqueue"
        PROVE  Inserted(x, t, T1)
    <3>1. Inserted(x, t, T) /\ SameKey(t) \intersect TasksOf(RunOf(t), T1) = {}
      BY <2>1, <2>2 DEF TaskFits, Advances
    <3>2. Input[t].dependsOn \subseteq TasksOf(RunOf(t), T1)
      <4>1. Input[t].dependsOn \in SUBSET TasksOf(RunOf(t), T)
        BY <3>1 DEF Inserted
      <4>2. R1[RunOf(t)] # "pruned"
        BY <2>1, <1>2
      <4>3. \A u \in Tasks : Present(u, T) =>
              Present(u, T1) \/ (T1[u].status = "pruned" /\ R1[RunOf(u)] = "pruned")
        BY DEF Advances
      <4> QED
        BY <4>1, <4>2, <4>3, DependenciesStay
    <3> QED
      BY <2>1, <3>1, <3>2 DEF Inserted
  <2> QED
    BY <2>1, <2>2 DEF TaskFits, Handed, Present
<1>4. ASSUME NEW l \in DOMAIN x.leases
      PROVE  LeaseFits(x, l, T1, L1)
  <2>1. LeaseFits(x, l, T, L) /\ L1[l] = L[l]
    BY <1>4 DEF Fits, Advances
  <2>2. Doomed(x, l, T) => Doomed(x, l, T1)
    BY DEF Doomed, Control, Advances
  <2> QED
    BY <2>1, <2>2 DEF LeaseFits, LeasePresent
<1>5. Aim(x, R1, T1, L1)
  <2>1. ASSUME x.pc \in {"lease", "task"}, x.op \in {"holder", "sweep", "claim"}
        PROVE  \/ T1[x.task].status = "pruned"
               \/ Present(x.task, T1) /\ LeasePresent(x.lease, L1) /\ L1[x.lease].task = x.task
    <3>1. x.task \in Tasks
      BY <2>1 DEF Control
    <3>2. CASE T[x.task].status = "pruned"
      BY <3>1, <3>2 DEF Advances
    <3>3. CASE Present(x.task, T) /\ LeasePresent(x.lease, L) /\ L[x.lease].task = x.task
      <4>1. x.lease \in Leases
        BY <2>1 DEF Control
      <4> QED
        BY <3>1, <3>3, <4>1 DEF Advances
    <3> QED
      BY <2>1, <3>2, <3>3 DEF Aim
  <2>2. ASSUME x.pc = "insert"
        PROVE  \/ R1[RunOf(x.task)] = "pruned"
               \/ Input[x.task].dependsOn \subseteq TasksOf(RunOf(x.task), T1)
    <3>1. x.task \in Tasks /\ RunOf(x.task) \in Runs
      BY <2>2, TasksOfType DEF Control
    <3>2. CASE R[RunOf(x.task)] = "pruned"
      BY <3>1, <3>2 DEF Advances
    <3>3. CASE Input[x.task].dependsOn \subseteq TasksOf(RunOf(x.task), T)
      <4>1. Input[x.task].dependsOn \in SUBSET TasksOf(RunOf(x.task), T)
        BY <3>3
      <4>2. \A u \in Tasks : Present(u, T) =>
              Present(u, T1) \/ (T1[u].status = "pruned" /\ R1[RunOf(u)] = "pruned")
        BY DEF Advances
      <4>3. R1[RunOf(x.task)] # "pruned" =>
              Input[x.task].dependsOn \subseteq TasksOf(RunOf(x.task), T1)
        BY <4>1, <4>2, DependenciesStay
      <4> QED
        BY <4>3
    <3> QED
      BY <2>2, <3>2, <3>3 DEF Aim
  <2> QED
    BY <2>1, <2>2 DEF Aim
<1> QED
  BY <1>3, <1>4, <1>5 DEF Fits, Advances

(***************************************************************************)
(* COMMIT.                                                                 *)
(***************************************************************************)

Committed(x, R, T, L, A, R1, T1, L1, A1) ==
  /\ R1 = Overlay(x.runs, R)
  /\ T1 = Overlay(x.tasks, T)
  /\ L1 = Overlay(x.leases, L)
  /\ A1 = Overlay(x.attempts, A)

(* Row by row: the rows x has written, and otherwise the ones before.        *)
LEMMA CommittedRows ==
  ASSUME NEW R, NEW T, NEW L, NEW A, CommittedType(R, T, L, A), NEW x \in TxRecords,
         NEW R1, NEW T1, NEW L1, NEW A1, Committed(x, R, T, L, A, R1, T1, L1, A1)
  PROVE  /\ CommittedType(R1, T1, L1, A1)
         /\ \A r \in Runs : R1[r] = IF r \in DOMAIN x.runs THEN x.runs[r] ELSE R[r]
         /\ \A t \in Tasks : T1[t] = IF t \in DOMAIN x.tasks THEN x.tasks[t] ELSE T[t]
         /\ \A l \in Leases : L1[l] = IF l \in DOMAIN x.leases THEN x.leases[l] ELSE L[l]
         /\ \A l \in Leases : A1[l] = IF l \in DOMAIN x.attempts THEN x.attempts[l] ELSE A[l]
         /\ DOMAIN x.tasks \in SUBSET Tasks /\ DOMAIN x.leases \in SUBSET Leases
         /\ DOMAIN x.runs \in SUBSET Runs
         /\ \A r \in DOMAIN x.runs : x.runs[r] \in RunStatuses
         /\ \A l \in DOMAIN x.attempts : x.attempts[l] \in AttemptStatuses
<1>1. /\ x.runs \in Writes(Runs, RunStatuses) /\ x.tasks \in Writes(Tasks, TaskRows)
      /\ x.leases \in Writes(Leases, LeaseRows) /\ x.attempts \in Writes(Leases, AttemptStatuses)
  BY DEF TxRecords
<1>2. /\ R \in [Runs -> RunStatuses \union NoRow] /\ T \in [Tasks -> TaskRows]
      /\ L \in [Leases -> LeaseRows] /\ A \in [Leases -> AttemptStatuses \union NoRow]
  BY DEF CommittedType
<1>3. /\ DOMAIN x.tasks \in SUBSET Tasks /\ DOMAIN x.leases \in SUBSET Leases
      /\ DOMAIN x.runs \in SUBSET Runs /\ DOMAIN x.attempts \in SUBSET Leases
      /\ \A r \in DOMAIN x.runs : x.runs[r] \in RunStatuses
      /\ \A t \in DOMAIN x.tasks : x.tasks[t] \in TaskRows
      /\ \A l \in DOMAIN x.leases : x.leases[l] \in LeaseRows
      /\ \A l \in DOMAIN x.attempts : x.attempts[l] \in AttemptStatuses
  BY <1>1, WritesType
<1>4. /\ R1 \in [Runs -> RunStatuses \union NoRow]
      /\ \A r \in Runs : R1[r] = IF r \in DOMAIN x.runs THEN x.runs[r] ELSE R[r]
  BY <1>2, <1>3 DEF Committed, Overlay
<1>5. /\ T1 \in [Tasks -> TaskRows]
      /\ \A t \in Tasks : T1[t] = IF t \in DOMAIN x.tasks THEN x.tasks[t] ELSE T[t]
  BY <1>2, <1>3 DEF Committed, Overlay
<1>6. /\ L1 \in [Leases -> LeaseRows]
      /\ \A l \in Leases : L1[l] = IF l \in DOMAIN x.leases THEN x.leases[l] ELSE L[l]
  BY <1>2, <1>3 DEF Committed, Overlay
<1>7. /\ A1 \in [Leases -> AttemptStatuses \union NoRow]
      /\ \A l \in Leases : A1[l] = IF l \in DOMAIN x.attempts THEN x.attempts[l] ELSE A[l]
  BY <1>2, <1>3 DEF Committed, Overlay
<1> QED
  BY <1>3, <1>4, <1>5, <1>6, <1>7 DEF CommittedType

(* Rows that are there stay, new ones come in.                               *)
LEMMA CommitKeeps ==
  ASSUME NEW R, NEW T, NEW L, NEW A, CommittedType(R, T, L, A), NEW x \in TxRecords,
         NEW R1, NEW T1, NEW L1, NEW A1, Committed(x, R, T, L, A, R1, T1, L1, A1),
         Fits(x, R, T, L), x.pc # "task"
  PROVE  /\ \A r \in Runs : R[r] \in RunStatuses => R1[r] \in RunStatuses
         /\ \A r \in Runs : R[r] \notin RunStatuses => R1[r] = R[r]
         /\ \A t \in Tasks : Present(t, T) => Present(t, T1)
         /\ \A t \in DOMAIN x.tasks : Present(t, T1)
         /\ \A l \in Leases : LeasePresent(l, L) => LeasePresent(l, L1) /\ L1[l].task = L[l].task
<1>1. \A r \in Runs : /\ R[r] \in RunStatuses => R1[r] \in RunStatuses
                      /\ R[r] \notin RunStatuses => R1[r] = R[r]
  BY CommittedRows DEF Fits
<1>2. /\ \A t \in Tasks : Present(t, T) => Present(t, T1)
      /\ \A t \in DOMAIN x.tasks : Present(t, T1)
  BY CommittedRows DEF Fits, TaskFits, Present
<1>3. ASSUME NEW l \in Leases, LeasePresent(l, L)
      PROVE  LeasePresent(l, L1) /\ L1[l].task = L[l].task
  <2>1. "absent" \notin LeaseStatuses
    BY DEF LeaseStatuses
  <2>2. CASE l \in DOMAIN x.leases
    BY <1>3, <2>1, <2>2, CommittedRows DEF Fits, LeaseFits, LeasePresent, Doomed
  <2>3. CASE l \notin DOMAIN x.leases
    BY <1>3, <2>3, CommittedRows DEF LeasePresent
  <2> QED
    BY <2>2, <2>3
<1> QED
  BY <1>1, <1>2, <1>3

LEMMA CommitFits ==
  ASSUME NEW R, NEW T, NEW L, NEW A, CommittedType(R, T, L, A), NEW x \in TxRecords,
         NEW R1, NEW T1, NEW L1, NEW A1, Committed(x, R, T, L, A, R1, T1, L1, A1),
         Tables(R, T, L, A), Fits(x, R, T, L), x.pc # "task"
  PROVE  Tables(R1, T1, L1, A1)
<1>1. \A t \in Tasks : Present(t, T) \/ t \in DOMAIN x.tasks <=> Present(t, T1)
  BY CommitKeeps, CommittedRows DEF Present
<1>2. ASSUME NEW t \in Tasks, Present(t, T1)
      PROVE  /\ R1[RunOf(t)] \in RunStatuses
             /\ Input[t].dependsOn \subseteq TasksOf(RunOf(t), T1)
             /\ SameKey(t) \intersect TasksOf(RunOf(t), T1) = {}
  <2>1. \A r : TasksOf(r, T) \subseteq TasksOf(r, T1)
    BY <1>1, TasksOfType
  <2>2. RunOf(t) \in Runs
    BY TasksOfType
  <2>3. CASE Present(t, T)
    <3>1. /\ R[RunOf(t)] \in RunStatuses /\ Input[t].dependsOn \subseteq TasksOf(RunOf(t), T)
          /\ SameKey(t) \intersect TasksOf(RunOf(t), T) = {}
      BY <2>3 DEF Tables
    <3>2. ASSUME NEW u \in SameKey(t), u \in TasksOf(RunOf(t), T1)
          PROVE  FALSE
      <4>1. u \in Tasks /\ RunOf(u) = RunOf(t) /\ t \in SameKey(u) /\ Present(u, T1)
        BY <3>2, TasksOfType
      <4>2. ~ Present(u, T)
        BY <3>1, <3>2, <4>1, TasksOfType
      <4>3. u \in DOMAIN x.tasks
        BY <1>1, <4>1, <4>2
      <4>4. Inserted(x, u, T)
        BY <4>2, <4>3 DEF Fits, TaskFits
      <4>5. t \in TasksOf(RunOf(u), T)
        BY <2>3, <4>1, TasksOfType
      <4> QED
        BY <4>1, <4>4, <4>5 DEF Inserted
    <3>3. R1[RunOf(t)] \in RunStatuses
      BY <2>2, <3>1, CommitKeeps
    <3> QED
      BY <2>1, <3>1, <3>2, <3>3
  <2>4. CASE ~ Present(t, T)
    <3>1. t \in DOMAIN x.tasks
      BY <1>1, <1>2, <2>4
    <3>2. Inserted(x, t, T) /\ R[RunOf(t)] \in RunStatuses
      BY <2>4, <3>1 DEF Fits, TaskFits
    <3>3. ASSUME NEW u \in SameKey(t), u \in TasksOf(RunOf(t), T1)
          PROVE  FALSE
      <4>1. u \in Tasks /\ u # t /\ RunOf(u) = RunOf(t) /\ Present(u, T1)
        BY <3>3, TasksOfType
      <4>2. u \notin DOMAIN x.tasks
        BY <3>2, <4>1 DEF Inserted
      <4>3. u \in TasksOf(RunOf(t), T)
        BY <1>1, <4>1, <4>2, TasksOfType
      <4> QED
        BY <3>2, <3>3, <4>3 DEF Inserted
    <3>4. R1[RunOf(t)] \in RunStatuses
      BY <2>2, <3>2, CommitKeeps
    <3>5. Input[t].dependsOn \subseteq TasksOf(RunOf(t), T1)
      BY <2>1, <3>2 DEF Inserted
    <3> QED
      BY <3>3, <3>4, <3>5
  <2> QED
    BY <2>3, <2>4
<1>3. ASSUME NEW t \in Tasks
      PROVE  LeaseNamed(t, T1, L1)
  <2>1. T[t].leaseId \in Leases \union {Null}
    BY DEF CommittedType, TaskRows
  <2>2. LeaseNamed(t, T, L)
    BY DEF Tables
  <2>3. CASE T1[t].leaseId \in {Null, T[t].leaseId}
    BY <2>1, <2>2, <2>3, CommitKeeps DEF LeaseNamed
  <2>4. CASE T1[t].leaseId \notin {Null, T[t].leaseId}
    <3>1. t \in DOMAIN x.tasks /\ T1[t] = x.tasks[t]
      BY <2>4, CommittedRows
    <3>2. Handed(x, t, T)
      BY <2>4, <3>1 DEF Fits, TaskFits
    <3>3. /\ x.tasks[t].leaseId \in DOMAIN x.leases
          /\ x.leases[x.tasks[t].leaseId].task = t
          /\ x.leases[x.tasks[t].leaseId].status \in LeaseStatuses
      BY <3>2 DEF Handed, Fits, LeaseFits
    <3> QED
      BY <3>1, <3>3, CommittedRows DEF LeaseNamed, LeasePresent
  <2> QED
    BY <2>3, <2>4
<1>4. ASSUME NEW l \in Leases, LeasePresent(l, L1)
      PROVE  L1[l].task \in Tasks /\ Present(L1[l].task, T1)
  <2>1. CASE LeasePresent(l, L)
    <3>1. L[l].task \in Tasks /\ Present(L[l].task, T)
      BY <2>1 DEF Tables
    <3>2. L1[l].task = L[l].task
      BY <2>1, CommitKeeps
    <3> QED
      BY <1>1, <3>1, <3>2
  <2>2. CASE ~ LeasePresent(l, L)
    <3>1. l \in DOMAIN x.leases /\ L1[l] = x.leases[l]
      BY <1>4, <2>2, CommittedRows DEF LeasePresent
    <3>2. x.leases[l].task \in DOMAIN x.tasks
      BY <2>2, <3>1 DEF Fits, LeaseFits, Doomed
    <3> QED
      BY <1>1, <3>1, <3>2, CommittedRows
  <2> QED
    BY <2>1, <2>2
<1>5. ASSUME NEW l \in Leases
      PROVE  A1[l] \in AttemptStatuses <=> LeasePresent(l, L1)
  <2>1. CASE l \in DOMAIN x.leases
    BY <2>1, CommittedRows DEF Fits, LeaseFits, LeasePresent
  <2>2. CASE l \notin DOMAIN x.leases
    BY <2>2, CommittedRows DEF Fits, Tables, LeasePresent
  <2> QED
    BY <2>1, <2>2
<1> QED
  BY <1>2, <1>3, <1>4, <1>5 DEF Tables

(* What the commit of x is to another open transaction y.                    *)
LEMMA CommitAdvances ==
  ASSUME NEW R, NEW T, NEW L, NEW A, CommittedType(R, T, L, A), NEW x \in TxRecords,
         NEW R1, NEW T1, NEW L1, NEW A1, Committed(x, R, T, L, A, R1, T1, L1, A1),
         Fits(x, R, T, L), x.pc # "task",
         NEW y \in TxRecords, Fits(y, R, T, L), Apart(x, y)
  PROVE  Advances(y, R, T, L, R1, T1, L1)
<1>1. /\ DOMAIN y.tasks \in SUBSET Tasks /\ DOMAIN y.leases \in SUBSET Leases
      /\ DOMAIN y.runs \in SUBSET Runs
  BY WritesType DEF TxRecords
<1>2. "pruned" \notin RunStatuses /\ "pruned" \notin TaskStatuses /\ "absent" # "pruned"
  BY DEF RunStatuses, TaskStatuses
<1>3. \A t \in DOMAIN y.tasks : T1[t] = T[t] /\ R1[RunOf(t)] \in RunStatuses
  <2> SUFFICES ASSUME NEW t \in DOMAIN y.tasks PROVE T1[t] = T[t] /\ R1[RunOf(t)] \in RunStatuses
    OBVIOUS
  <2>1. t \in Tasks /\ RunOf(t) \in Runs /\ t \notin DOMAIN x.tasks
    BY <1>1, TasksOfType DEF Apart
  <2>2. R[RunOf(t)] \in RunStatuses
    BY DEF Fits, TaskFits
  <2> QED
    BY <2>1, <2>2, CommittedRows, CommitKeeps
<1>4. \A l \in DOMAIN y.leases : L1[l] = L[l]
  BY <1>1, CommittedRows DEF Apart
<1>5. \A r \in DOMAIN y.runs : R1[r] \in RunStatuses
  BY <1>1, CommitKeeps DEF Fits
<1>6. \A r \in Runs : R[r] = "pruned" => R1[r] = "pruned"
  BY <1>2, CommitKeeps
<1>7. \A t \in Tasks : T[t].status = "pruned" => T1[t].status = "pruned"
  BY <1>2, CommittedRows DEF Fits, TaskFits, Inserted, Present
<1>8. ASSUME y.op = "enqueue", NEW t \in DOMAIN y.tasks, NEW u \in SameKey(t),
             u \in TasksOf(RunOf(t), T1)
      PROVE  FALSE
  <2>1. Inserted(y, t, T)
    BY <1>8 DEF Fits, TaskFits
  <2>2. t \in Tasks /\ u \in Tasks /\ RunOf(u) = RunOf(t) /\ t \in SameKey(u) /\ Present(u, T1)
    BY <1>1, <1>8, TasksOfType
  <2>3. ~ Present(u, T)
    BY <1>8, <2>1, <2>2, TasksOfType DEF Inserted
  <2>4. u \in DOMAIN x.tasks
    BY <2>2, <2>3, CommittedRows DEF Present
  <2>5. x.op = "enqueue"
    BY <2>3, <2>4 DEF Fits, TaskFits
  <2> QED
    BY <1>8, <2>2, <2>4, <2>5 DEF Apart
<1>9. \A t \in Tasks : Present(t, T) => Present(t, T1)
  BY CommitKeeps
<1>10. \A l \in Leases : LeasePresent(l, L) => LeasePresent(l, L1) /\ L1[l].task = L[l].task
  BY CommitKeeps
<1> QED
  BY <1>3, <1>4, <1>5, <1>6, <1>7, <1>8, <1>9, <1>10 DEF Advances

(***************************************************************************)
(* One session goes on while the others wait.                              *)
(***************************************************************************)

LEMMA ApartSymmetric ==
  ASSUME NEW x \in TxRecords, NEW y \in TxRecords, Apart(x, y)
  PROVE  Apart(y, x)
<1>1. DOMAIN x.tasks \in SUBSET Tasks /\ DOMAIN y.tasks \in SUBSET Tasks
  BY WritesType DEF TxRecords
<1> QED
  BY <1>1, TasksOfType DEF Apart

\* A transaction that has written nothing.
Fresh(x) == /\ x.runs = Nothing /\ x.tasks = Nothing
            /\ x.leases = Nothing /\ x.attempts = Nothing

LEMMA FreshFits ==
  ASSUME NEW x, Fresh(x)
  PROVE  /\ \A R, T, L : Fits(x, R, T, L)
         /\ \A y : Apart(x, y) /\ Apart(y, x)
<1>1. /\ DOMAIN x.runs = {} /\ DOMAIN x.tasks = {} /\ DOMAIN x.leases = {}
      /\ DOMAIN x.attempts = {}
  BY NothingWritten DEF Fresh
<1> QED
  BY <1>1 DEF Fits, Apart

LEMMA NoTxIsFresh ==
  /\ NoTx \in TxRecords /\ Fresh(NoTx) /\ Control(NoTx)
  /\ \A R, T, L : Aim(NoTx, R, T, L)
<1>1. /\ Nothing \in Writes(Runs, RunStatuses) /\ Nothing \in Writes(Tasks, TaskRows)
      /\ Nothing \in Writes(Leases, LeaseRows) /\ Nothing \in Writes(Leases, AttemptStatuses)
  BY NothingWritten
<1>2. NoTx \in TxRecords
  <2>1. NoTime \in Int /\ 0 \in Nat /\ {} \in SUBSET (Tasks \union Runs)
    BY NoTimeInt
  <2>2. "none" \in Operations /\ "idle" \in Statements
    BY DEF Operations, Statements
  <2> QED
    BY <1>1, <2>1, <2>2, Zenon DEF NoTx, TxRecords
<1>3. Fresh(NoTx) /\ NoTx.op = "none" /\ NoTx.pc = "idle"
  BY DEF NoTx, Fresh
<1> QED
  BY <1>2, <1>3 DEF Control, Aim, Sweeps

(* A step that only makes the transaction of s longer, by rows that fit.     *)
LEMMA StepKeeps ==
  ASSUME PgInv, NEW s \in Sessions, NEW new \in TxRecords,
         tx' = [tx EXCEPT ![s] = new],
         UNCHANGED <<now, runs, tasks, leases, attempts, completions>>, checked' \subseteq Tasks,
         Fits(new, runs, tasks, leases), Control(new), Aim(new, runs, tasks, leases),
         \A o \in Sessions : o # s => Apart(new, tx[o])
  PROVE  PgInv'
<1>1. tx \in [Sessions -> TxRecords]
  BY DEF PgInv
<1>2. /\ tx' \in [Sessions -> TxRecords] /\ tx'[s] = new
      /\ \A o \in Sessions : o # s => tx'[o] = tx[o]
  BY <1>1
<1>3. ASSUME NEW o \in Sessions
      PROVE  Fits(tx'[o], runs', tasks', leases') /\ Control(tx'[o]) /\ Aim(tx'[o], runs', tasks', leases')
  BY <1>2 DEF PgInv
<1>4. \A o \in Sessions : o # s => Apart(tx[o], new)
  BY <1>1, ApartSymmetric
<1>5. ASSUME NEW o \in Sessions, NEW p \in Sessions, o # p
      PROVE  Apart(tx'[o], tx'[p])
  <2>1. CASE o = s
    BY <1>2, <1>5, <2>1
  <2>2. CASE p = s
    BY <1>2, <1>4, <1>5, <2>2
  <2>3. CASE o # s /\ p # s
    BY <1>2, <1>5, <2>3 DEF PgInv
  <2> QED
    BY <2>1, <2>2, <2>3
<1> QED
  BY <1>2, <1>3, <1>5 DEF PgInv

(* A step that commits, and leaves the other transactions alone.             *)
LEMMA CommitsKeep ==
  ASSUME PgInv, NEW s \in Sessions, tx' = [tx EXCEPT ![s] = NoTx],
         UNCHANGED <<now, completions, checked>>,
         CommittedType(runs, tasks, leases, attempts)', Tables(runs, tasks, leases, attempts)',
         \A o \in Sessions : o # s =>
           Advances(tx[o], runs, tasks, leases, runs', tasks', leases')
  PROVE  PgInv'
<1>1. tx \in [Sessions -> TxRecords]
  BY DEF PgInv
<1>2. /\ tx' \in [Sessions -> TxRecords] /\ tx'[s] = NoTx
      /\ \A o \in Sessions : o # s => tx'[o] = tx[o]
  BY <1>1, NoTxIsFresh
<1>3. ASSUME NEW o \in Sessions
      PROVE  Fits(tx'[o], runs', tasks', leases') /\ Control(tx'[o]) /\ Aim(tx'[o], runs', tasks', leases')
  <2>1. CASE o = s
    BY <1>2, <2>1, NoTxIsFresh, FreshFits
  <2>2. CASE o # s
    <3>1. /\ tx[o] \in TxRecords /\ Fits(tx[o], runs, tasks, leases) /\ Control(tx[o])
          /\ Aim(tx[o], runs, tasks, leases)
          /\ Advances(tx[o], runs, tasks, leases, runs', tasks', leases')
      BY <1>1, <2>2 DEF PgInv
    <3>2. Fits(tx[o], runs', tasks', leases') /\ Aim(tx[o], runs', tasks', leases')
      BY <3>1, FitsStays
    <3> QED
      BY <1>2, <2>2, <3>1, <3>2
  <2> QED
    BY <2>1, <2>2
<1>4. ASSUME NEW o \in Sessions, NEW p \in Sessions, o # p
      PROVE  Apart(tx'[o], tx'[p])
  <2>1. CASE o = s \/ p = s
    BY <1>2, <2>1, NoTxIsFresh, FreshFits
  <2>2. CASE o # s /\ p # s
    BY <1>2, <1>4, <2>2 DEF PgInv
  <2> QED
    BY <2>1, <2>2
<1> QED
  BY <1>2, <1>3, <1>4 DEF PgInv

LEMMA CommitStep ==
  ASSUME PgInv, NEW s \in Sessions, NEW last \in TxRecords, Commit(s, last),
         Fits(last, runs, tasks, leases), last.pc # "task",
         \A o \in Sessions : o # s => Apart(last, tx[o])
  PROVE  PgInv'
<1>1. Committed(last, runs, tasks, leases, attempts, runs', tasks', leases', attempts')
  BY DEF Commit, Committed
<1>2. /\ CommittedType(runs, tasks, leases, attempts) /\ Tables(runs, tasks, leases, attempts)
      /\ tx \in [Sessions -> TxRecords]
  BY DEF PgInv
<1>3. CommittedType(runs', tasks', leases', attempts')
  BY <1>1, <1>2, CommittedRows
<1>4. Tables(runs', tasks', leases', attempts')
  BY <1>1, <1>2, CommitFits
<1>5. ASSUME NEW o \in Sessions, o # s
      PROVE  Advances(tx[o], runs, tasks, leases, runs', tasks', leases')
  <2>1. tx[o] \in TxRecords /\ Fits(tx[o], runs, tasks, leases)
    BY <1>2 DEF PgInv
  <2> QED
    BY <1>1, <1>2, <1>5, <2>1, CommitAdvances
<1> QED
  BY <1>3, <1>4, <1>5, CommitsKeep DEF Commit

(* ROLLBACK, and the beginning of a transaction.                             *)
LEMMA AbortKeeps ==
  ASSUME PgInv, NEW s \in Sessions, Abort(s)
  PROVE  PgInv'
<1>1. checked' \subseteq Tasks
  BY DEF PgInv, Abort, Step, vars
<1> QED
  BY <1>1, NoTxIsFresh, FreshFits, StepKeeps DEF Abort, Step, vars

(* What waits for a row: Free.                                               *)
LEMMA FreeRows ==
  ASSUME NEW s \in Sessions, NEW X
  PROVE  /\ Free(s, "tasks", X) <=>
              \A o \in Sessions : o # s => DOMAIN tx[o].tasks \intersect X = {}
         /\ Free(s, "leases", X) <=>
              \A o \in Sessions : o # s => DOMAIN tx[o].leases \intersect X = {}
         /\ Free(s, "attempts", X) <=>
              \A o \in Sessions : o # s => DOMAIN tx[o].attempts \intersect X = {}
         /\ Free(s, "runs", X) <=>
              \A o \in Sessions : o # s => DOMAIN tx[o].runs \intersect X = {}
  BY DEF Free

(***************************************************************************)
(* What one more written row, or none, does to a transaction.              *)
(***************************************************************************)

\* new is x with other rows of runs at most, and another program counter.
SameRows(x, new) ==
  /\ new.op = x.op /\ new.to = x.to /\ new.tasks = x.tasks
  /\ new.leases = x.leases /\ new.attempts = x.attempts

LEMMA SameRowsFit ==
  ASSUME NEW R, NEW T, NEW L, NEW x \in TxRecords, NEW new \in TxRecords,
         Fits(x, R, T, L), SameRows(x, new), x.pc # "task",
         \A r \in DOMAIN new.runs : r \in DOMAIN x.runs \/ R[r] \in RunStatuses
  PROVE  Fits(new, R, T, L)
<1>1. ASSUME NEW t \in DOMAIN new.tasks
      PROVE  TaskFits(new, t, R, T)
  <2>1. TaskFits(x, t, R, T)
    BY <1>1 DEF Fits, SameRows
  <2> QED
    BY <2>1 DEF TaskFits, Handed, Swept, Sweeps, Inserted, SameRows
<1>2. ASSUME NEW l \in DOMAIN new.leases
      PROVE  LeaseFits(new, l, T, L)
  <2>1. LeaseFits(x, l, T, L)
    BY <1>2 DEF Fits, SameRows
  <2> QED
    BY <2>1 DEF LeaseFits, Doomed, SameRows
<1> QED
  BY <1>1, <1>2 DEF Fits, SameRows

LEMMA ApartGrows ==
  ASSUME NEW x \in TxRecords, NEW y \in TxRecords, NEW new \in TxRecords, Apart(x, y),
         NEW X, X \intersect DOMAIN y.tasks = {}, DOMAIN new.tasks \subseteq DOMAIN x.tasks \union X,
         NEW Z, Z \intersect DOMAIN y.leases = {}, DOMAIN new.leases \subseteq DOMAIN x.leases \union Z,
         new.op = x.op, x.op # "enqueue" \/ X = {}
  PROVE  Apart(new, y)
  BY DEF Apart

(* The UPDATE of a task's row.                                               *)
LEMMA TaskWriteFits ==
  ASSUME NEW R, NEW T, NEW L, NEW A, CommittedType(R, T, L, A), Tables(R, T, L, A),
         NEW x \in TxRecords, Fits(x, R, T, L), Control(x), Aim(x, R, T, L),
         x.pc = "task", Present(x.task, T),
         NEW row \in TaskRows, row.status \in TaskStatuses,
         row.leaseId \in {Null, T[x.task].leaseId}, Sweeps(x) => row.leaseId = Null,
         NEW new \in TxRecords, new.op = x.op, new.to = x.to, new.pc # "task",
         new.tasks = Put(x.tasks, x.task, row),
         new.leases = x.leases, new.attempts = x.attempts, new.runs = x.runs
  PROVE  Fits(new, R, T, L)
<1>1. /\ x.task \in Tasks /\ x.op # "enqueue" /\ ~ (x.op = "claim" /\ x.to = "leased")
  BY DEF Control
<1>2. x.tasks \in Writes(Tasks, TaskRows)
  BY DEF TxRecords
<1>3. /\ DOMAIN new.tasks = DOMAIN x.tasks \union {x.task}
      /\ new.tasks[x.task] = row
      /\ \A t \in DOMAIN x.tasks : t # x.task => new.tasks[t] = x.tasks[t]
  BY DEF Put
<1>4. /\ R[RunOf(x.task)] \in RunStatuses
      /\ "pruned" \notin TaskStatuses /\ "absent" \notin LeaseStatuses
  BY <1>1 DEF Tables, TaskStatuses, LeaseStatuses
<1>5. Sweeps(x) => Swept(new, x.task)
  <2> SUFFICES ASSUME Sweeps(x) PROVE Swept(new, x.task)
    OBVIOUS
  <2>1. x.lease \in DOMAIN x.leases /\ x.leases[x.lease].status = "expired"
    BY DEF Control
  <2>2. LeasePresent(x.lease, L) /\ L[x.lease].task = x.task
    BY <1>4 DEF Aim, Sweeps, Present
  <2>3. LeaseFits(x, x.lease, T, L)
    BY <2>1 DEF Fits
  <2>4. x.leases[x.lease].task = x.task
    BY <1>1, <1>4, <2>2, <2>3 DEF LeaseFits, Doomed, Present
  <2> QED
    BY <2>1, <2>4 DEF Swept
<1>6. ASSUME NEW t \in DOMAIN new.tasks
      PROVE  TaskFits(new, t, R, T)
  <2>1. CASE t = x.task
    BY <1>1, <1>3, <1>4, <1>5, <2>1 DEF TaskFits, Sweeps
  <2>2. CASE t # x.task
    <3>1. TaskFits(x, t, R, T) /\ new.tasks[t] = x.tasks[t]
      BY <1>3, <1>6, <2>2 DEF Fits
    <3> QED
      BY <1>1, <3>1 DEF TaskFits, Handed, Swept, Sweeps
  <2> QED
    BY <2>1, <2>2
<1>7. ASSUME NEW l \in DOMAIN new.leases
      PROVE  LeaseFits(new, l, T, L)
  <2>1. LeaseFits(x, l, T, L)
    BY <1>7 DEF Fits
  <2> QED
    BY <1>1, <1>3, <1>4, <2>1 DEF LeaseFits, Doomed, Present
<1> QED
  BY <1>6, <1>7 DEF Fits

(* The UPDATE of an attempt and its lease.                                   *)
LEMMA LeaseWriteFits ==
  ASSUME NEW R, NEW T, NEW L, NEW A, CommittedType(R, T, L, A), Tables(R, T, L, A),
         NEW x \in TxRecords, Fits(x, R, T, L), Control(x), Aim(x, R, T, L), x.pc = "lease",
         NEW row \in LeaseRows, row.status \in LeaseStatuses, Sweeps(x) => row.status = "expired",
         row.task = IF x.lease \in DOMAIN x.leases THEN x.leases[x.lease].task ELSE L[x.lease].task,
         NEW a \in AttemptStatuses,
         NEW new \in TxRecords, new.op = x.op, new.to = x.to,
         Sweeps(x) => new.pc = "task" /\ new.lease = x.lease /\ new.task = x.task,
         new.leases = Put(x.leases, x.lease, row), new.attempts = Put(x.attempts, x.lease, a),
         new.tasks = x.tasks, new.runs = x.runs
  PROVE  Fits(new, R, T, L)
<1>1. /\ x.lease \in Leases /\ x.task \in Tasks /\ x.op \in {"holder", "sweep", "claim"}
      /\ ~ (x.op = "claim" /\ x.to = "leased")
  BY DEF Control
<1>2. x.leases \in Writes(Leases, LeaseRows) /\ x.attempts \in Writes(Leases, AttemptStatuses)
  BY DEF TxRecords
<1>3. /\ DOMAIN new.leases = DOMAIN x.leases \union {x.lease}
      /\ new.leases[x.lease] = row
      /\ \A l \in DOMAIN x.leases : l # x.lease => new.leases[l] = x.leases[l]
  BY DEF Put
<1>4. DOMAIN new.attempts = DOMAIN x.attempts \union {x.lease}
  BY DEF Put
<1>5. ASSUME NEW t, Sweeps(x), Swept(x, t)
      PROVE  Swept(new, t)
  <2>1. PICK l \in DOMAIN x.leases : x.leases[l].task = t /\ x.leases[l].status = "expired"
    BY <1>5 DEF Swept
  <2> QED
    BY <1>3, <1>5, <2>1 DEF Swept
<1>6. ASSUME NEW t \in DOMAIN new.tasks
      PROVE  TaskFits(new, t, R, T)
  <2>1. TaskFits(x, t, R, T)
    BY <1>6 DEF Fits
  <2> QED
    BY <1>1, <1>5, <2>1 DEF TaskFits, Handed, Sweeps
<1>7. ASSUME NEW l \in DOMAIN new.leases
      PROVE  LeaseFits(new, l, T, L)
  <2>1. CASE l \in DOMAIN x.leases
    <3>1. LeaseFits(x, l, T, L)
      BY <2>1 DEF Fits
    <3>2. LeasePresent(l, L) /\ x.leases[l].task = L[l].task
      BY <1>1, <3>1 DEF LeaseFits, Doomed
    <3> QED
      BY <1>3, <2>1, <3>1, <3>2 DEF LeaseFits
  <2>2. CASE l \notin DOMAIN x.leases
    <3>1. l = x.lease /\ new.leases[l] = row /\ row.task = L[l].task
      BY <1>3, <1>7, <2>2
    <3>2. CASE LeasePresent(l, L)
      BY <3>1, <3>2 DEF LeaseFits
    <3>3. CASE ~ LeasePresent(l, L)
      <4>1. T[x.task].status = "pruned"
        BY <1>1, <3>1, <3>3 DEF Aim
      <4>2. x.op # "holder"
        <5>1. x.op = "holder" => Present(x.task, T)
          BY DEF Control, Fits, TaskFits
        <5> QED
          BY <4>1, <5>1 DEF Present, TaskStatuses
      <4> QED
        BY <1>1, <3>1, <4>1, <4>2 DEF LeaseFits, Doomed, Sweeps
    <3> QED
      BY <3>2, <3>3
  <2> QED
    BY <2>1, <2>2
<1> QED
  BY <1>3, <1>4, <1>6, <1>7 DEF Fits

(* The rows that a claim writes: the task's, and those of a new attempt and  *)
(* its lease.                                                                *)
LEMMA ClaimFits ==
  ASSUME NEW R, NEW T, NEW L, NEW A, CommittedType(R, T, L, A), Tables(R, T, L, A),
         NEW x \in TxRecords, Fits(x, R, T, L), Control(x), x.pc = "sweep", x.op = "claim",
         NEW t \in Tasks, Present(t, T),
         t \notin DOMAIN x.tasks => T[t].leaseId = Null,
         NEW l \in Leases, L[l].status = "absent",
         NEW row \in TaskRows, row.status \in TaskStatuses, row.leaseId = l,
         NEW lease \in LeaseRows, lease.status \in LeaseStatuses, lease.task = t,
         NEW a \in AttemptStatuses,
         NEW new \in TxRecords, new.op = "claim", new.to = "leased",
         new.tasks = Put(x.tasks, t, row), new.leases = Put(x.leases, l, lease),
         new.attempts = Put(x.attempts, l, a), new.runs = x.runs
  PROVE  Fits(new, R, T, L)
<1>1. x.to # "leased"
  BY DEF Control
<1>2. /\ x.leases \in Writes(Leases, LeaseRows) /\ x.attempts \in Writes(Leases, AttemptStatuses)
      /\ x.tasks \in Writes(Tasks, TaskRows)
  BY DEF TxRecords
<1>3. /\ DOMAIN new.tasks = DOMAIN x.tasks \union {t}
      /\ new.tasks[t] = row
      /\ \A u \in DOMAIN x.tasks : u # t => new.tasks[u] = x.tasks[u]
  BY DEF Put
<1>4. /\ DOMAIN new.leases = DOMAIN x.leases \union {l}
      /\ new.leases[l] = lease
      /\ \A k \in DOMAIN x.leases : k # l => new.leases[k] = x.leases[k]
  BY DEF Put
<1>5. DOMAIN new.attempts = DOMAIN x.attempts \union {l}
  BY DEF Put
<1>6. ASSUME NEW k \in DOMAIN x.leases
      PROVE  k # l /\ LeasePresent(k, L) /\ x.leases[k].task = L[k].task /\ x.leases[k].status \in LeaseStatuses
  <2>1. LeaseFits(x, k, T, L)
    BY <1>6 DEF Fits
  <2>2. "absent" \notin LeaseStatuses
    BY DEF LeaseStatuses
  <2> QED
    BY <1>1, <2>1, <2>2 DEF LeaseFits, Doomed, LeasePresent
<1>7. \A u : Swept(x, u) => Swept(new, u)
  BY <1>4, <1>6 DEF Swept
<1>8. ASSUME NEW u \in DOMAIN x.tasks
      PROVE  Swept(new, u) /\ TaskFits(x, u, R, T)
  <2>1. TaskFits(x, u, R, T)
    BY <1>8 DEF Fits
  <2> QED
    BY <1>1, <1>7, <2>1 DEF TaskFits, Handed, Sweeps
<1>9. ASSUME NEW u \in DOMAIN new.tasks
      PROVE  TaskFits(new, u, R, T)
  <2>1. CASE u = t
    <3>1. Handed(new, t, T)
      BY <1>3, <1>4, <1>8 DEF Handed
    <3>2. R[RunOf(t)] \in RunStatuses
      BY DEF Tables
    <3> QED
      BY <1>3, <2>1, <3>1, <3>2 DEF TaskFits
  <2>2. CASE u # t
    <3>1. u \in DOMAIN x.tasks /\ new.tasks[u] = x.tasks[u]
      BY <1>3, <1>9, <2>2
    <3> QED
      BY <1>1, <1>8, <3>1 DEF TaskFits, Handed
  <2> QED
    BY <2>1, <2>2
<1>10. ASSUME NEW k \in DOMAIN new.leases
       PROVE  LeaseFits(new, k, T, L)
  <2>1. CASE k = l
    BY <1>3, <1>4, <2>1 DEF LeaseFits
  <2>2. CASE k # l
    BY <1>4, <1>6, <1>10, <2>2 DEF LeaseFits
  <2> QED
    BY <2>1, <2>2
<1> QED
  BY <1>4, <1>5, <1>9, <1>10 DEF Fits

(***************************************************************************)
(* The operations, one statement at a time.                                *)
(***************************************************************************)

\* What the invariant says of session s, and what s sees.
LEMMA OpenTransaction ==
  ASSUME PgInv, NEW s \in Sessions
  PROVE  /\ tx \in [Sessions -> TxRecords] /\ tx[s] \in TxRecords
         /\ Fits(tx[s], runs, tasks, leases) /\ Control(tx[s]) /\ Aim(tx[s], runs, tasks, leases)
         /\ CommittedType(runs, tasks, leases, attempts) /\ Tables(runs, tasks, leases, attempts)
         /\ checked \subseteq Tasks /\ now \in Nat
         /\ \A o \in Sessions : o # s => tx[o] \in TxRecords /\ Apart(tx[s], tx[o])
  BY DEF PgInv

LEMMA RowsSeen ==
  ASSUME PgInv, NEW s \in Sessions
  PROVE  /\ \A t \in Tasks :
              /\ TasksSeen(s)[t] = IF t \in DOMAIN tx[s].tasks THEN tx[s].tasks[t] ELSE tasks[t]
              /\ TasksSeen(s)[t] \in TaskRows
         /\ \A l \in Leases :
              /\ LeasesSeen(s)[l] = IF l \in DOMAIN tx[s].leases THEN tx[s].leases[l] ELSE leases[l]
              /\ LeasesSeen(s)[l] \in LeaseRows
              /\ AttemptsSeen(s)[l] = IF l \in DOMAIN tx[s].attempts THEN tx[s].attempts[l]
                                                                     ELSE attempts[l]
              /\ AttemptsSeen(s)[l] \in AttemptStatuses \union NoRow
         /\ \A r \in Runs :
              RunsSeen(s)[r] = IF r \in DOMAIN tx[s].runs THEN tx[s].runs[r] ELSE runs[r]
<1>1. /\ tx[s].runs \in Writes(Runs, RunStatuses) /\ tx[s].tasks \in Writes(Tasks, TaskRows)
      /\ tx[s].leases \in Writes(Leases, LeaseRows) /\ tx[s].attempts \in Writes(Leases, AttemptStatuses)
  BY OpenTransaction DEF TxRecords
<1>2. /\ \A t \in DOMAIN tx[s].tasks : tx[s].tasks[t] \in TaskRows
      /\ \A l \in DOMAIN tx[s].leases : tx[s].leases[l] \in LeaseRows
      /\ \A l \in DOMAIN tx[s].attempts : tx[s].attempts[l] \in AttemptStatuses
  BY <1>1, WritesType
<1>3. /\ runs \in [Runs -> RunStatuses \union NoRow] /\ tasks \in [Tasks -> TaskRows]
      /\ leases \in [Leases -> LeaseRows] /\ attempts \in [Leases -> AttemptStatuses \union NoRow]
  BY OpenTransaction DEF CommittedType
<1> QED
  BY <1>2, <1>3 DEF TasksSeen, LeasesSeen, AttemptsSeen, RunsSeen, Overlay

LEMMA BeginKeeps ==
  ASSUME PgInv, NEW s \in Sessions, NEW new \in TxRecords,
         tx' = [tx EXCEPT ![s] = new],
         UNCHANGED <<now, runs, tasks, leases, attempts, completions>>, checked' \subseteq Tasks,
         Fresh(new), Control(new), Aim(new, runs, tasks, leases)
  PROVE  PgInv'
  BY FreshFits, StepKeeps

(* heartbeatLease, markTaskRunning, pauseTask, completeTask, failTask,       *)
(* releaseTask.                                                              *)
LEMMA HolderBeginsKeeps ==
  ASSUME PgInv, NEW s \in Sessions, NEW t \in Tasks, NEW l \in Leases, NEW w,
         NEW to \in LeaveTo \union {"running", "heartbeat"}, HolderBegins(s, t, l, w, to)
  PROVE  PgInv'
<1> DEFINE new == [NoTx EXCEPT !.op = "holder", !.pc = "task", !.task = t, !.lease = l,
                               !.to = to, !.at = now]
<1>1. to \in TaskStatuses \union {"heartbeat", Null} /\ now \in Int
  BY OpenTransaction DEF LeaveTo, TaskStatuses, WaitingTaskStatuses
<1>2. new \in TxRecords
  BY <1>1, NoTxIsFresh DEF TxRecords, Operations, Statements
<1>3. /\ new.op = "holder" /\ new.pc = "task" /\ new.task = t /\ new.lease = l /\ new.to = to
      /\ Fresh(new)
  BY NoTxIsFresh DEF TxRecords, Fresh
<1>4. LeasePresent(l, leases) /\ leases[l].task = t
  BY OpenTransaction, NullAssumption DEF HolderBegins, AssertActiveLease, Tables, LeaseNamed
<1>5. Present(t, tasks)
  BY <1>4, OpenTransaction DEF Tables
<1>6. Control(new) /\ Aim(new, runs, tasks, leases)
  BY <1>3, <1>4, <1>5 DEF Control, Aim, Sweeps
<1>7. tx' = [tx EXCEPT ![s] = new] /\ UNCHANGED vars
  BY DEF HolderBegins, Begin, Step
<1> HIDE DEF new
<1> QED
  BY <1>2, <1>3, <1>6, <1>7, OpenTransaction, BeginKeeps DEF vars

(* resumeTask, requeueDeadTask.                                              *)
LEMMA OperatorBeginsKeeps ==
  ASSUME PgInv, NEW s \in Sessions, NEW t \in Tasks, ResumeBegins(s, t) \/ RequeueBegins(s, t)
  PROVE  PgInv'
<1>1. PICK op \in {"resume", "requeue"} :
        Step(s, [NoTx EXCEPT !.op = op, !.pc = "task", !.task = t])
  BY DEF ResumeBegins, RequeueBegins, Begin
<1> DEFINE new == [NoTx EXCEPT !.op = op, !.pc = "task", !.task = t]
<1>2. new \in TxRecords
  BY NoTxIsFresh DEF TxRecords, Operations, Statements
<1>3. new.op = op /\ new.pc = "task" /\ new.task = t /\ Fresh(new)
  BY NoTxIsFresh DEF TxRecords, Fresh
<1>4. Control(new) /\ Aim(new, runs, tasks, leases)
  BY <1>3 DEF Control, Aim, Sweeps
<1>5. tx' = [tx EXCEPT ![s] = new] /\ UNCHANGED vars
  BY <1>1 DEF Step
<1> HIDE DEF new
<1> QED
  BY <1>2, <1>3, <1>4, <1>5, OpenTransaction, BeginKeeps DEF vars

(* enqueueTask.                                                              *)
LEMMA EnqueueBeginsKeeps ==
  ASSUME PgInv, NEW s \in Sessions, NEW t \in Tasks, EnqueueBegins(s, t)
  PROVE  PgInv'
<1> DEFINE new == [NoTx EXCEPT !.op = "enqueue", !.pc = "insert", !.task = t, !.at = now]
<1>1. now \in Int
  BY OpenTransaction
<1>2. new \in TxRecords
  BY <1>1, NoTxIsFresh DEF TxRecords, Operations, Statements
<1>3. /\ new.op = "enqueue" /\ new.pc = "insert" /\ new.task = t
      /\ Fresh(new)
  BY NoTxIsFresh DEF TxRecords, Fresh
<1>4. Input[t].dependsOn \subseteq TasksOf(RunOf(t), tasks)
  BY DEF EnqueueBegins, EnqueueAllowed
<1>5. DOMAIN new.tasks = {}
  BY <1>3, NothingWritten DEF Fresh
<1>6. Control(new) /\ Aim(new, runs, tasks, leases)
  BY <1>3, <1>4, <1>5 DEF Control, Aim, Sweeps
<1>7. /\ tx' = [tx EXCEPT ![s] = new]
      /\ UNCHANGED <<now, runs, tasks, leases, attempts, completions>> /\ checked' \subseteq Tasks
  BY OpenTransaction DEF EnqueueBegins
<1> HIDE DEF new
<1> QED
  BY <1>2, <1>3, <1>6, <1>7, BeginKeeps

(* expireLeases, claimNextTask.                                              *)
LEMMA SweepBeginsKeeps ==
  ASSUME PgInv, NEW s \in Sessions, NEW op, NEW w, SweepBegins(s, op, w),
         (op = "sweep" /\ w = Null) \/ (op = "claim" /\ w \in Workers)
  PROVE  PgInv'
<1> DEFINE T == {t \in Tasks : /\ tasks[t].status \in HeldStatuses
                               /\ tasks[t].leaseExpiresAt # NoTime
                               /\ tasks[t].leaseExpiresAt < now}
           new == [NoTx EXCEPT !.op = op, !.pc = "sweep", !.worker = w, !.at = now, !.todo = T]
<1>1. now \in Int /\ T \in SUBSET (Tasks \union Runs)
  BY OpenTransaction
<1>2. tx' = [tx EXCEPT ![s] = new] /\ UNCHANGED vars /\ T \subseteq Tasks
  BY DEF SweepBegins, Begin, Step
<1> HIDE DEF T
<1>3. new \in TxRecords
  BY <1>1, NoTxIsFresh DEF TxRecords, Operations, Statements
<1>4. /\ new.op = op /\ new.pc = "sweep" /\ new.worker = w /\ new.todo = T /\ new.to = Null
      /\ Fresh(new)
  BY NoTxIsFresh DEF TxRecords, Fresh, NoTx
<1>5. Null # "leased"
  BY SessionAssumption DEF TaskStatuses
<1>6. Control(new) /\ Aim(new, runs, tasks, leases)
  BY <1>2, <1>4, <1>5 DEF Control, Aim, Sweeps
<1> HIDE DEF new
<1> QED
  BY <1>2, <1>3, <1>4, <1>6, OpenTransaction, BeginKeeps DEF vars

(* cancelRun, pruneRuns.                                                     *)
LEMMA CancelBeginsKeeps ==
  ASSUME PgInv, NEW s \in Sessions, NEW r \in Runs, CancelBegins(s, r)
  PROVE  PgInv'
<1> DEFINE new == [NoTx EXCEPT !.op = "cancel", !.pc = "cancelRun", !.run = r]
<1>1. new \in TxRecords
  BY NoTxIsFresh DEF TxRecords, Operations, Statements
<1>2. new.op = "cancel" /\ new.pc = "cancelRun" /\ new.run = r /\ Fresh(new)
  BY NoTxIsFresh DEF TxRecords, Fresh
<1>3. Control(new) /\ Aim(new, runs, tasks, leases)
  BY <1>2 DEF Control, Aim, Sweeps
<1>4. tx' = [tx EXCEPT ![s] = new] /\ UNCHANGED vars
  BY DEF CancelBegins, Begin, Step
<1> HIDE DEF new
<1> QED
  BY <1>1, <1>2, <1>3, <1>4, OpenTransaction, BeginKeeps DEF vars

LEMMA PruneBeginsKeeps ==
  ASSUME PgInv, NEW s \in Sessions, NEW statuses, PruneBegins(s, statuses)
  PROVE  PgInv'
<1> DEFINE R == {r \in Runs : runs[r] \in statuses}
           new == [NoTx EXCEPT !.op = "prune", !.pc = "delete", !.todo = R]
<1>1. R \in SUBSET (Tasks \union Runs) /\ R \subseteq Runs
  OBVIOUS
<1>2. tx' = [tx EXCEPT ![s] = new] /\ UNCHANGED vars
  BY DEF PruneBegins, Begin, Step
<1> HIDE DEF R
<1>3. new \in TxRecords
  BY <1>1, NoTxIsFresh DEF TxRecords, Operations, Statements
<1>4. new.op = "prune" /\ new.pc = "delete" /\ new.todo = R /\ Fresh(new)
  BY NoTxIsFresh DEF TxRecords, Fresh
<1>5. Control(new) /\ Aim(new, runs, tasks, leases)
  BY <1>1, <1>4 DEF Control, Aim, Sweeps
<1> HIDE DEF new
<1> QED
  BY <1>2, <1>3, <1>4, <1>5, OpenTransaction, BeginKeeps DEF vars

(* The UPDATE of a task's row by its id.                                     *)
LEMMA NewRowFits ==
  ASSUME PgInv, NEW s \in Sessions, tx[s].pc = "task",
         NEW row \in TaskRows, row.status \in TaskStatuses
  PROVE  /\ NewRow(s, row) \in TaskRows /\ NewRow(s, row).status \in TaskStatuses
         /\ NewRow(s, row).leaseId \in {Null, row.leaseId}
         /\ Sweeps(tx[s]) => NewRow(s, row).leaseId = Null
<1> DEFINE x == tx[s]
<1>1. x.task \in Tasks /\ x.at \in Int /\ x.count \in Nat
  BY OpenTransaction DEF Control, TxRecords
<1>2. CASE x.op = "holder"
  <2>1. NewRow(s, row) = HolderRow(row, x.to, x.at) /\ ~ Sweeps(x)
    BY <1>2 DEF NewRow, Sweeps
  <2>2. x.to \in LeaveTo \union {"running", "heartbeat"}
    BY <1>2, OpenTransaction DEF Control
  <2>3. CASE x.to = "heartbeat"
    BY <1>1, <2>1, <2>3, SessionAssumption DEF HolderRow, TaskRows
  <2>4. CASE x.to = "running"
    BY <1>1, <2>1, <2>4 DEF HolderRow, TaskRows, TaskStatuses
  <2>5. CASE x.to \in LeaveTo
    <3>1. x.to \in TaskStatuses /\ x.to # "heartbeat" /\ x.to # "running"
      BY <2>5 DEF LeaveTo, TaskStatuses, WaitingTaskStatuses
    <3>2. HolderRow(row, x.to, x.at) = WithoutLease(row, x.to)
      BY <3>1 DEF HolderRow
    <3> QED
      BY <2>1, <3>1, <3>2, WithoutLeaseRow
  <2> QED
    BY <2>2, <2>3, <2>4, <2>5
<1>3. CASE x.op = "resume"
  BY <1>3 DEF NewRow, Sweeps, TaskRows, TaskStatuses
<1>4. CASE x.op = "requeue"
  <2>1. NewRow(s, row) = RequeuedRow(row, TRUE, NoTime) /\ ~ Sweeps(x)
    BY <1>4 DEF NewRow, Sweeps
  <2>2. /\ RequeuedRow(row, TRUE, NoTime) \in TaskRows
        /\ RequeuedRow(row, TRUE, NoTime).status = "queued"
        /\ RequeuedRow(row, TRUE, NoTime).leaseId = Null
    BY NoTimeInt, RequeuedRowRow, Zenon
  <2> QED
    BY <2>1, <2>2 DEF TaskStatuses
<1>5. CASE x.op \notin {"holder", "resume", "requeue"}
  <2>1. NewRow(s, row) = SweptRow(x.task, row, x.count, x.at)
    BY <1>5 DEF NewRow
  <2>2. /\ WithoutLease(row, "failed") \in TaskRows /\ WithoutLease(row, "failed").leaseId = Null
        /\ WithoutLease(row, "failed").status = "failed"
        /\ WithoutLease(row, "queued") \in TaskRows /\ WithoutLease(row, "queued").leaseId = Null
        /\ WithoutLease(row, "queued").status = "queued"
    BY WithoutLeaseRow DEF TaskStatuses
  <2>3. ComputeNotBefore(Input[x.task].retry, x.count, x.at) \in Int /\ NoTime \in Int
    BY <1>1, InputAssumption, NotBeforeType, NoTimeInt DEF InputRecords
  <2> HIDE DEF x
  <2>4. /\ SweptRow(x.task, row, x.count, x.at) \in TaskRows
        /\ SweptRow(x.task, row, x.count, x.at).leaseId = Null
        /\ SweptRow(x.task, row, x.count, x.at).status \in TaskStatuses
    BY <2>2, <2>3 DEF SweptRow, TaskRows, TaskStatuses
  <2> QED
    BY <2>1, <2>4 DEF x
<1> QED
  BY <1>2, <1>3, <1>4, <1>5

LEMMA WritesTaskKeeps ==
  ASSUME PgInv, NEW s \in Sessions, WritesTask(s)
  PROVE  PgInv'
<1> DEFINE x == tx[s]
           row == NewRow(s, TasksSeen(s)[x.task])
           pc == IF x.op = "holder" THEN "lease" ELSE "derive"
           new == [x EXCEPT !.pc = pc, !.tasks = Put(@, x.task, row)]
<1>1. /\ x.pc = "task" /\ Present(x.task, tasks) /\ Free(s, "tasks", {x.task})
      /\ tx' = [tx EXCEPT ![s] = new] /\ UNCHANGED vars
  BY DEF WritesTask, At, Step, Present
<1>2. /\ x \in TxRecords /\ Fits(x, runs, tasks, leases) /\ Control(x)
      /\ Aim(x, runs, tasks, leases) /\ x.task \in Tasks
  BY <1>1, OpenTransaction DEF Control
<1>3. /\ TasksSeen(s)[x.task] \in TaskRows
      /\ TasksSeen(s)[x.task].status \in TaskStatuses
      /\ TasksSeen(s)[x.task].leaseId \in {Null, tasks[x.task].leaseId}
  <2>1. CASE x.task \in DOMAIN x.tasks
    <3>1. TasksSeen(s)[x.task] = x.tasks[x.task]
      BY <1>2, <2>1, RowsSeen
    <3>2. TaskFits(x, x.task, runs, tasks) /\ ~ Handed(x, x.task, tasks)
      BY <1>1, <1>2, <2>1 DEF Fits, Control, Handed
    <3> QED
      BY <1>2, <3>1, <3>2, RowsSeen DEF TaskFits
  <2>2. CASE x.task \notin DOMAIN x.tasks
    BY <1>1, <1>2, <2>2, RowsSeen DEF Present
  <2> QED
    BY <2>1, <2>2
<1>4. /\ row \in TaskRows /\ row.status \in TaskStatuses
      /\ row.leaseId \in {Null, tasks[x.task].leaseId}
      /\ Sweeps(x) => row.leaseId = Null
  BY <1>1, <1>3, NewRowFits
<1> HIDE DEF row
<1>5. Put(x.tasks, x.task, row) \in Writes(Tasks, TaskRows)
  BY <1>2, <1>4, PutWrites DEF TxRecords
<1>6. /\ pc \in Statements /\ pc \notin {"task", "insert", "settle", "delete", "sweep"}
      /\ pc \notin {"cancelRun", "cancelTasks", "cancelLeases"}
      /\ pc = "lease" => x.op = "holder"
  BY DEF Statements
<1> HIDE DEF pc, x
<1>7. new \in TxRecords
  BY <1>2, <1>5, <1>6 DEF TxRecords
<1>8. /\ new.op = x.op /\ new.to = x.to /\ new.pc = pc /\ new.task = x.task
      /\ new.lease = x.lease /\ new.todo = x.todo /\ new.worker = x.worker
      /\ new.tasks = Put(x.tasks, x.task, row)
      /\ new.leases = x.leases /\ new.attempts = x.attempts /\ new.runs = x.runs
  BY <1>2 DEF TxRecords
<1> HIDE DEF new
<1>9. Fits(new, runs, tasks, leases)
  BY <1>1, <1>2, <1>4, <1>6, <1>7, <1>8, OpenTransaction, TaskWriteFits
<1>10. DOMAIN new.tasks = DOMAIN x.tasks \union {x.task}
  BY <1>8 DEF Put
<1>11. x.op # "enqueue" /\ ~ (x.op = "claim" /\ x.to = "leased")
  BY <1>1, <1>2 DEF Control
<1>12. Control(new)
  BY <1>1, <1>2, <1>6, <1>8, <1>10, <1>11 DEF Control, Sweeps
<1>13. Aim(new, runs, tasks, leases)
  BY <1>1, <1>2, <1>6, <1>8, <1>11 DEF Aim
<1>14. ASSUME NEW o \in Sessions, o # s
       PROVE  Apart(new, tx[o])
  <2>1. {x.task} \intersect DOMAIN tx[o].tasks = {} /\ tx[o] \in TxRecords /\ Apart(x, tx[o])
    BY <1>1, <1>14, FreeRows, OpenTransaction DEF x
  <2> QED
    BY <1>2, <1>7, <1>8, <1>10, <1>11, <2>1, ApartGrows
<1> QED
  BY <1>1, <1>7, <1>9, <1>12, <1>13, <1>14, OpenTransaction, StepKeeps DEF vars

(* The lease and the attempt of a holder, or of a task that a sweep expires. *)
LEMMA LeasesApart ==
  ASSUME PgInv, NEW s \in Sessions, NEW X, Free(s, "attempts", X), NEW o \in Sessions, o # s
  PROVE  X \intersect DOMAIN tx[o].leases = {}
<1>1. DOMAIN tx[o].attempts = DOMAIN tx[o].leases
  BY OpenTransaction DEF Fits
<1> QED
  BY <1>1, FreeRows

LEMMA HolderLeaseFits ==
  ASSUME NEW row \in LeaseRows, row.status \in LeaseStatuses, NEW to, NEW at \in Int,
         NEW status \in AttemptStatuses
  PROVE  /\ HolderLease(row, to, at) \in LeaseRows
         /\ HolderLease(row, to, at).status \in LeaseStatuses
         /\ HolderLease(row, to, at).task = row.task
         /\ HolderAttempt(status, to) \in AttemptStatuses
<1>1. CASE to = "heartbeat"
  BY <1>1, SessionAssumption DEF HolderLease, HolderAttempt, LeaseRows
<1>2. CASE to = "running"
  BY <1>2 DEF HolderLease, HolderAttempt, AttemptStatuses
<1>3. CASE to \notin {"heartbeat", "running"}
  BY <1>3 DEF HolderLease, HolderAttempt, LeaseRows, LeaseStatuses, AttemptStatuses
<1> QED
  BY <1>1, <1>2, <1>3

LEMMA HolderWritesLeaseKeeps ==
  ASSUME PgInv, NEW s \in Sessions, HolderWritesLease(s)
  PROVE  PgInv'
<1> DEFINE x == tx[s]
           l == x.lease
           row == HolderLease(LeasesSeen(s)[l], x.to, x.at)
           a == HolderAttempt(AttemptsSeen(s)[l], x.to)
           new == [x EXCEPT !.pc = "derive", !.leases = Put(@, l, row), !.attempts = Put(@, l, a)]
<1>1. /\ x.pc = "lease" /\ x.op = "holder" /\ Free(s, "attempts", {l})
      /\ IF x.to = "heartbeat" THEN Commit(s, new) ELSE Step(s, new)
  BY DEF HolderWritesLease, At
<1>2. /\ x \in TxRecords /\ Fits(x, runs, tasks, leases) /\ Control(x)
      /\ Aim(x, runs, tasks, leases) /\ l \in Leases /\ x.task \in DOMAIN x.tasks /\ x.at \in Int
      /\ ~ Sweeps(x)
  BY <1>1, OpenTransaction DEF Control, TxRecords, Sweeps
<1>3. LeasePresent(l, leases)
  <2>1. Present(x.task, tasks)
    BY <1>1, <1>2 DEF Fits, TaskFits
  <2> QED
    BY <1>1, <1>2, <2>1 DEF Aim, Present, TaskStatuses
<1>4. /\ LeasesSeen(s)[l] \in LeaseRows /\ LeasesSeen(s)[l].status \in LeaseStatuses
      /\ LeasesSeen(s)[l] = IF l \in DOMAIN x.leases THEN x.leases[l] ELSE leases[l]
      /\ AttemptsSeen(s)[l] \in AttemptStatuses
  <2>1. /\ LeasesSeen(s)[l] \in LeaseRows
        /\ LeasesSeen(s)[l] = IF l \in DOMAIN x.leases THEN x.leases[l] ELSE leases[l]
        /\ AttemptsSeen(s)[l] = IF l \in DOMAIN x.attempts THEN x.attempts[l] ELSE attempts[l]
    BY <1>2, RowsSeen
  <2>2. l \in DOMAIN x.leases => x.leases[l].status \in LeaseStatuses
    BY <1>2 DEF Fits, LeaseFits
  <2>3. l \in DOMAIN x.attempts => x.attempts[l] \in AttemptStatuses
    BY <1>2, WritesType DEF TxRecords
  <2>4. leases[l].status \in LeaseStatuses /\ attempts[l] \in AttemptStatuses
    BY <1>2, <1>3, OpenTransaction DEF Tables, LeasePresent
  <2> QED
    BY <2>1, <2>2, <2>3, <2>4
<1>5. /\ row \in LeaseRows /\ row.status \in LeaseStatuses /\ a \in AttemptStatuses
      /\ row.task = IF l \in DOMAIN x.leases THEN x.leases[l].task ELSE leases[l].task
  BY <1>2, <1>4, HolderLeaseFits
<1> HIDE DEF row, a
<1>6. /\ Put(x.leases, l, row) \in Writes(Leases, LeaseRows)
      /\ Put(x.attempts, l, a) \in Writes(Leases, AttemptStatuses)
  BY <1>2, <1>5, PutWrites DEF TxRecords
<1> HIDE DEF l, x
<1>7. new \in TxRecords
  BY <1>2, <1>6 DEF TxRecords, Statements
<1>8. /\ new.op = x.op /\ new.to = x.to /\ new.pc = "derive" /\ new.task = x.task
      /\ new.lease = x.lease /\ new.todo = x.todo /\ new.worker = x.worker /\ new.next = x.next
      /\ new.leases = Put(x.leases, l, row) /\ new.attempts = Put(x.attempts, l, a)
      /\ new.tasks = x.tasks /\ new.runs = x.runs
  BY <1>2 DEF TxRecords
<1> HIDE DEF new
<1>9. Fits(new, runs, tasks, leases)
  BY <1>1, <1>2, <1>5, <1>7, <1>8, OpenTransaction, LeaseWriteFits DEF l
<1>10. DOMAIN new.leases = DOMAIN x.leases \union {l}
  BY <1>8 DEF Put
<1>11. Control(new) /\ Aim(new, runs, tasks, leases)
  BY <1>1, <1>2, <1>8 DEF Control, Aim, Sweeps
<1>12. ASSUME NEW o \in Sessions, o # s
       PROVE  Apart(new, tx[o])
  <2>1. {l} \intersect DOMAIN tx[o].leases = {} /\ tx[o] \in TxRecords /\ Apart(x, tx[o])
    BY <1>1, <1>12, LeasesApart, OpenTransaction DEF x
  <2>2. {} \intersect DOMAIN tx[o].tasks = {} /\ DOMAIN new.tasks \subseteq DOMAIN x.tasks \union {}
    BY <1>8
  <2> QED
    BY <1>2, <1>7, <1>8, <1>10, <2>1, <2>2, ApartGrows
<1>13. CASE x.to = "heartbeat"
  BY <1>1, <1>7, <1>8, <1>9, <1>12, <1>13, CommitStep
<1>14. CASE x.to # "heartbeat"
  <2>1. tx' = [tx EXCEPT ![s] = new] /\ UNCHANGED vars
    BY <1>1, <1>14 DEF Step
  <2> QED
    BY <1>7, <1>9, <1>11, <1>12, <2>1, OpenTransaction, StepKeeps DEF vars
<1> QED
  BY <1>13, <1>14

LEMMA SweepWritesLeaseKeeps ==
  ASSUME PgInv, NEW s \in Sessions, SweepWritesLease(s)
  PROVE  PgInv'
<1> DEFINE x == tx[s]
           l == x.lease
           row == [LeasesSeen(s)[l] EXCEPT !.status = "expired"]
           new == [x EXCEPT !.pc = "task", !.leases = Put(@, l, row),
                            !.attempts = Put(@, l, "expired")]
<1>1. /\ x.pc = "lease" /\ x.op \in {"sweep", "claim"} /\ Free(s, "attempts", {l})
      /\ tx' = [tx EXCEPT ![s] = new] /\ UNCHANGED vars
  BY DEF SweepWritesLease, At, Step
<1>2. /\ x \in TxRecords /\ Fits(x, runs, tasks, leases) /\ Control(x)
      /\ Aim(x, runs, tasks, leases) /\ l \in Leases /\ x.task \in Tasks /\ Sweeps(x)
  BY <1>1, OpenTransaction DEF Control, TxRecords, Sweeps
<1>3. /\ LeasesSeen(s)[l] \in LeaseRows
      /\ LeasesSeen(s)[l] = IF l \in DOMAIN x.leases THEN x.leases[l] ELSE leases[l]
  BY <1>2, RowsSeen
<1>4. /\ row \in LeaseRows /\ row.status = "expired"
      /\ row.task = IF l \in DOMAIN x.leases THEN x.leases[l].task ELSE leases[l].task
  BY <1>3 DEF LeaseRows, LeaseStatuses
<1> HIDE DEF row
<1>5. /\ Put(x.leases, l, row) \in Writes(Leases, LeaseRows)
      /\ Put(x.attempts, l, "expired") \in Writes(Leases, AttemptStatuses)
  BY <1>2, <1>4, PutWrites DEF TxRecords, AttemptStatuses
<1> HIDE DEF l, x
<1>6. new \in TxRecords
  BY <1>2, <1>5 DEF TxRecords, Statements
<1>7. /\ new.op = x.op /\ new.to = x.to /\ new.pc = "task" /\ new.task = x.task
      /\ new.lease = x.lease /\ new.todo = x.todo /\ new.worker = x.worker /\ new.next = x.next
      /\ new.leases = Put(x.leases, l, row) /\ new.attempts = Put(x.attempts, l, "expired")
      /\ new.tasks = x.tasks /\ new.runs = x.runs
  BY <1>2 DEF TxRecords
<1> HIDE DEF new
<1>8. Fits(new, runs, tasks, leases)
  <2>1. "expired" \in LeaseStatuses /\ "expired" \in AttemptStatuses
    BY DEF LeaseStatuses, AttemptStatuses
  <2> QED
    BY <1>1, <1>2, <1>4, <1>6, <1>7, <2>1, OpenTransaction, LeaseWriteFits DEF l
<1>9. DOMAIN new.leases = DOMAIN x.leases \union {l} /\ new.leases[l] = row
  BY <1>7 DEF Put
<1>10. Control(new) /\ Aim(new, runs, tasks, leases)
  BY <1>1, <1>2, <1>4, <1>7, <1>9 DEF Control, Aim, Sweeps, l
<1>11. ASSUME NEW o \in Sessions, o # s
       PROVE  Apart(new, tx[o])
  <2>1. {l} \intersect DOMAIN tx[o].leases = {} /\ tx[o] \in TxRecords /\ Apart(x, tx[o])
    BY <1>1, <1>11, LeasesApart, OpenTransaction DEF x
  <2>2. {} \intersect DOMAIN tx[o].tasks = {} /\ DOMAIN new.tasks \subseteq DOMAIN x.tasks \union {}
    BY <1>7
  <2> QED
    BY <1>2, <1>6, <1>7, <1>9, <2>1, <2>2, ApartGrows
<1> QED
  BY <1>1, <1>6, <1>8, <1>10, <1>11, OpenTransaction, StepKeeps DEF vars

(* A step that writes no row of a task or a lease.                           *)
LEMMA SameRowsKeep ==
  ASSUME PgInv, NEW s \in Sessions, NEW new \in TxRecords, SameRows(tx[s], new),
         tx[s].pc # "task", tx' = [tx EXCEPT ![s] = new], UNCHANGED vars,
         \A r \in DOMAIN new.runs : r \in DOMAIN tx[s].runs \/ runs[r] \in RunStatuses,
         Control(new), Aim(new, runs, tasks, leases)
  PROVE  PgInv'
<1>1. Fits(new, runs, tasks, leases)
  BY OpenTransaction, SameRowsFit
<1>2. \A o \in Sessions : o # s => Apart(new, tx[o])
  BY OpenTransaction DEF Apart, SameRows
<1> QED
  BY <1>1, <1>2, OpenTransaction, StepKeeps DEF vars

(* requireTask on a listed id: the lease it names is the task's.             *)
LEMMA SweepReadsKeeps ==
  ASSUME PgInv, NEW s \in Sessions, SweepReads(s)
  PROVE  PgInv'
<1> DEFINE x == tx[s]
<1>1. PICK t \in x.todo :
        /\ TasksSeen(s)[t].status \in TaskStatuses
        /\ Step(s, IF TasksSeen(s)[t].leaseId = Null THEN [x EXCEPT !.todo = @ \ {t}]
                   ELSE [[x EXCEPT !.todo = @ \ {t}] EXCEPT
                           !.pc = "lease", !.task = t, !.lease = TasksSeen(s)[t].leaseId,
                           !.count = TasksSeen(s)[t].attemptCount])
  BY DEF SweepReads
<1>2. /\ x.pc = "sweep" /\ x \in TxRecords /\ Fits(x, runs, tasks, leases) /\ Control(x)
      /\ Sweeps(x) /\ t \in Tasks
  BY <1>1, OpenTransaction DEF SweepReads, At, Control
<1> DEFINE row == TasksSeen(s)[t]
           less == [x EXCEPT !.todo = @ \ {t}]
           more == [less EXCEPT !.pc = "lease", !.task = t, !.lease = row.leaseId,
                                !.count = row.attemptCount]
<1>3. row \in TaskRows /\ Present(t, tasks) /\ row.leaseId \in {Null, tasks[t].leaseId}
  <2>1. CASE t \in DOMAIN x.tasks
    <3>1. row = x.tasks[t]
      BY <1>2, <2>1, RowsSeen
    <3>2. TaskFits(x, t, runs, tasks) /\ ~ Handed(x, t, tasks) /\ x.op # "enqueue"
      BY <1>2, <2>1 DEF Fits, Control, Handed, Sweeps
    <3> QED
      BY <1>2, <3>1, <3>2, RowsSeen DEF TaskFits
  <2>2. CASE t \notin DOMAIN x.tasks
    BY <1>1, <1>2, <2>2, RowsSeen DEF Present
  <2> QED
    BY <2>1, <2>2
<1>4. row.attemptCount \in Nat /\ row.leaseId \in Leases \union {Null}
  BY <1>3 DEF TaskRows
<1>5. row.leaseId # Null => LeasePresent(row.leaseId, leases) /\ leases[row.leaseId].task = t
  BY <1>2, <1>3, OpenTransaction DEF Tables, LeaseNamed
<1>6. Step(s, IF row.leaseId = Null THEN less ELSE more)
  BY <1>1
<1> HIDE DEF row, x
<1>7. less \in TxRecords
  BY <1>2 DEF TxRecords
<1>8. /\ SameRows(x, less) /\ less.runs = x.runs /\ less.pc = "sweep" /\ less.worker = x.worker
      /\ less.todo = x.todo \ {t} /\ less.next = x.next
  BY <1>2 DEF TxRecords, SameRows
<1> HIDE DEF less
<1>9. CASE row.leaseId = Null
  <2>1. Control(less) /\ Aim(less, runs, tasks, leases)
    BY <1>2, <1>8 DEF Control, Aim, Sweeps, SameRows
  <2> QED
    BY <1>2, <1>6, <1>7, <1>8, <1>9, <2>1, SameRowsKeep DEF Step, x
<1>10. CASE row.leaseId # Null
  <2>1. more \in TxRecords
    BY <1>2, <1>4, <1>7 DEF TxRecords, Statements
  <2>2. /\ SameRows(x, more) /\ more.runs = x.runs /\ more.pc = "lease" /\ more.worker = x.worker
        /\ more.todo = x.todo \ {t} /\ more.next = x.next /\ more.task = t
        /\ more.lease = row.leaseId
    BY <1>7, <1>8 DEF TxRecords, SameRows
  <2>3. Step(s, more)
    BY <1>6, <1>10
  <2> HIDE DEF more
  <2>4. Control(more) /\ Aim(more, runs, tasks, leases)
    BY <1>2, <1>3, <1>4, <1>5, <1>10, <2>2 DEF Control, Aim, Sweeps, SameRows
  <2> QED
    BY <1>2, <2>1, <2>2, <2>3, <2>4, SameRowsKeep DEF Step, x
<1> QED
  BY <1>9, <1>10

(* recomputeRunStatus reads ...                                              *)
LEMMA DerivesKeeps ==
  ASSUME PgInv, NEW s \in Sessions, Derives(s)
  PROVE  PgInv'
<1> DEFINE x == tx[s]
           r == RunOf(x.task)
           d == DeriveRunStatus(RunsSeen(s)[r], StatusesIn(r, TasksSeen(s)))
           new == [x EXCEPT !.pc = "settle", !.next = d]
<1>1. x.pc = "derive" /\ tx' = [tx EXCEPT ![s] = new] /\ UNCHANGED vars
  BY DEF Derives, At, Step
<1>2. /\ x \in TxRecords /\ Fits(x, runs, tasks, leases) /\ Control(x)
      /\ x.task \in DOMAIN x.tasks
  BY <1>1, OpenTransaction DEF Control
<1>3. x.task \in Tasks /\ r \in Runs
  BY <1>2, WritesType, TasksOfType DEF TxRecords
<1>4. RunsSeen(s)[r] \in RunStatuses
  <2>1. runs[r] \in RunStatuses
    BY <1>2 DEF Fits, TaskFits
  <2>2. r \in DOMAIN x.runs => x.runs[r] \in RunStatuses
    BY <1>2, WritesType DEF TxRecords
  <2> QED
    BY <1>3, <2>1, <2>2, RowsSeen
<1>5. d \in RunStatuses
  BY <1>4, DeriveType
<1> HIDE DEF d, x
<1>6. new \in TxRecords
  BY <1>2, <1>5 DEF TxRecords, Statements
<1>7. /\ SameRows(x, new) /\ new.runs = x.runs /\ new.pc = "settle" /\ new.worker = x.worker
      /\ new.todo = x.todo /\ new.next = d /\ new.task = x.task /\ new.lease = x.lease
  BY <1>2 DEF TxRecords, SameRows
<1> HIDE DEF new
<1>8. Control(new) /\ Aim(new, runs, tasks, leases)
  BY <1>1, <1>2, <1>5, <1>7 DEF Control, Aim, Sweeps, SameRows
<1> QED
  BY <1>1, <1>6, <1>7, <1>8, SameRowsKeep DEF x

(* ... and writes.                                                           *)
LEMMA SettlesKeeps ==
  ASSUME PgInv, NEW s \in Sessions, Settles(s)
  PROVE  PgInv'
<1> DEFINE x == tx[s]
           r == RunOf(x.task)
           new == [x EXCEPT !.pc = "sweep", !.task = Null, !.lease = Null, !.count = 0,
                            !.next = Null, !.runs = Put(@, r, x.next)]
<1>1. /\ x.pc = "settle" /\ runs[r] \in RunStatuses
      /\ IF Sweeping(s) THEN Step(s, new) ELSE Commit(s, new)
  BY DEF Settles, At
<1>2. /\ x \in TxRecords /\ Fits(x, runs, tasks, leases) /\ Control(x)
      /\ x.task \in DOMAIN x.tasks /\ x.next \in RunStatuses
  BY <1>1, OpenTransaction DEF Control
<1>3. x.task \in Tasks /\ r \in Runs
  BY <1>2, WritesType, TasksOfType DEF TxRecords
<1>4. Put(x.runs, r, x.next) \in Writes(Runs, RunStatuses)
  BY <1>2, <1>3, PutWrites DEF TxRecords
<1>5. Sweeping(s) => Sweeps(x) /\ ~ (x.op = "claim" /\ x.to = "leased")
  BY DEF Sweeping, Sweeps
<1> HIDE DEF r, x
<1>6. new \in TxRecords
  BY <1>2, <1>4 DEF TxRecords, Statements
<1>7. /\ SameRows(x, new) /\ new.runs = Put(x.runs, r, x.next) /\ new.pc = "sweep"
      /\ new.worker = x.worker /\ new.todo = x.todo /\ new.task = Null /\ new.lease = Null
  BY <1>2 DEF TxRecords, SameRows
<1>8. \A q \in DOMAIN new.runs : q \in DOMAIN x.runs \/ runs[q] \in RunStatuses
  BY <1>1, <1>7 DEF Put
<1> HIDE DEF new
<1>9. CASE Sweeping(s)
  <2>1. Control(new) /\ Aim(new, runs, tasks, leases)
    BY <1>2, <1>5, <1>7, <1>9 DEF Control, Aim, Sweeps, SameRows
  <2> QED
    BY <1>1, <1>6, <1>7, <1>8, <1>9, <2>1, SameRowsKeep DEF Step, x
<1>10. CASE ~ Sweeping(s)
  <2>1. Fits(new, runs, tasks, leases)
    BY <1>1, <1>2, <1>6, <1>7, <1>8, SameRowsFit
  <2>2. \A o \in Sessions : o # s => Apart(new, tx[o])
    BY <1>7, OpenTransaction DEF Apart, SameRows, x
  <2> QED
    BY <1>1, <1>6, <1>7, <1>10, <2>1, <2>2, CommitStep
<1> QED
  BY <1>9, <1>10

(* COMMIT of a transaction that has nothing more to write.                   *)
LEMMA EndsKeep ==
  ASSUME PgInv, NEW s \in Sessions, SweepEnds(s) \/ ClaimFindsNothing(s)
  PROVE  PgInv'
<1>1. tx[s].pc = "sweep" /\ Commit(s, tx[s])
  BY DEF SweepEnds, ClaimFindsNothing, At
<1> QED
  BY <1>1, OpenTransaction, CommitStep

(* INSERT INTO tasks.                                                        *)
LEMMA EnqueueInsertsKeeps ==
  ASSUME PgInv, NEW s \in Sessions, EnqueueInserts(s)
  PROVE  PgInv'
<1> DEFINE x == tx[s]
           t == x.task
           row == QueuedTask(x.at)
           new == [x EXCEPT !.pc = "derive", !.tasks = Put(@, t, row)]
<1>1. x.pc = "insert" /\ Insertable(s, t) /\ tx' = [tx EXCEPT ![s] = new] /\ UNCHANGED vars
  BY DEF EnqueueInserts, At, Step
<1>2. /\ x \in TxRecords /\ Fits(x, runs, tasks, leases) /\ Control(x)
      /\ Aim(x, runs, tasks, leases) /\ t \in Tasks /\ x.op = "enqueue" /\ DOMAIN x.tasks = {}
      /\ x.at \in Int
  BY <1>1, OpenTransaction DEF Control, TxRecords
<1>3. row \in TaskRows /\ row.status = "queued" /\ row.leaseId = Null
  BY <1>2, QueuedTaskRow
<1> HIDE DEF row
<1>4. Put(x.tasks, t, row) \in Writes(Tasks, TaskRows)
  BY <1>2, <1>3, PutWrites DEF TxRecords
<1>5. /\ tasks[t].status = "absent" /\ Free(s, "tasks", {t}) /\ Free(s, "tasks", SameKey(t))
      /\ SameKey(t) \intersect TasksOf(RunOf(t), tasks) = {} /\ runs[RunOf(t)] \in RunStatuses
  BY <1>1 DEF Insertable
<1>6. Input[t].dependsOn \subseteq TasksOf(RunOf(t), tasks)
  BY <1>1, <1>2, <1>5 DEF Aim, RunStatuses
<1> HIDE DEF t, x
<1>7. new \in TxRecords
  BY <1>2, <1>4 DEF TxRecords, Statements
<1>8. /\ new.op = "enqueue" /\ new.to = x.to /\ new.pc = "derive" /\ new.task = t
      /\ new.todo = x.todo /\ new.worker = x.worker
      /\ new.tasks = Put(x.tasks, t, row)
      /\ new.leases = x.leases /\ new.attempts = x.attempts /\ new.runs = x.runs
  BY <1>2 DEF TxRecords, t
<1> HIDE DEF new
<1>9. DOMAIN new.tasks = {t} /\ new.tasks[t] = row
  BY <1>2, <1>8 DEF Put
<1>10. TaskFits(new, t, runs, tasks)
  BY <1>3, <1>5, <1>6, <1>8, <1>9 DEF TaskFits, Inserted, Sweeps, TaskStatuses
<1>11. ASSUME NEW l \in DOMAIN new.leases
       PROVE  LeaseFits(new, l, tasks, leases)
  <2>1. LeaseFits(x, l, tasks, leases)
    BY <1>2, <1>8, <1>11 DEF Fits
  <2> QED
    BY <1>2, <1>8, <2>1 DEF LeaseFits, Doomed, Sweeps
<1>12. Fits(new, runs, tasks, leases)
  BY <1>2, <1>8, <1>9, <1>10, <1>11 DEF Fits
<1>13. Control(new) /\ Aim(new, runs, tasks, leases)
  BY <1>2, <1>8, <1>9 DEF Control, Aim, Sweeps
<1>14. ASSUME NEW o \in Sessions, o # s
       PROVE  Apart(new, tx[o])
  <2>1. t \notin DOMAIN tx[o].tasks /\ SameKey(t) \intersect DOMAIN tx[o].tasks = {}
    BY <1>5, <1>14, FreeRows
  <2>2. Apart(x, tx[o])
    BY <1>14, OpenTransaction DEF x
  <2> QED
    BY <1>8, <1>9, <2>1, <2>2 DEF Apart
<1> QED
  BY <1>1, <1>7, <1>12, <1>13, <1>14, OpenTransaction, StepKeeps DEF vars


(* A claim picks a task.                                                     *)
LEMMA ClaimPicksKeeps ==
  ASSUME PgInv, NEW s \in Sessions, NEW l \in Leases, ClaimPicks(s, l)
  PROVE  PgInv'
<1> DEFINE x == tx[s]
           until == x.at + LeaseMs
<1>1. /\ x.pc = "sweep" /\ x.op = "claim" /\ leases[l].status = "absent" /\ Free(s, "leases", {l})
  BY DEF ClaimPicks, At
<1>2. PICK t \in Pickable(s) :
        /\ TasksSeen(s)[t].leaseId = Null
        /\ Step(s, [x EXCEPT
             !.pc = "derive", !.task = t, !.to = "leased",
             !.tasks = Put(@, t, ClaimedRow(TasksSeen(s)[t], l, x.worker, until)),
             !.leases = Put(@, l, [status |-> "active", task |-> t, worker |-> x.worker,
                                   expiresAt |-> until, token |-> Null]),
             !.attempts = Put(@, l, "leased")])
  BY DEF ClaimPicks
<1> DEFINE row == ClaimedRow(TasksSeen(s)[t], l, x.worker, until)
           given == [status |-> "active", task |-> t, worker |-> x.worker,
                     expiresAt |-> until, token |-> Null]
           new == [x EXCEPT !.pc = "derive", !.task = t, !.to = "leased",
                            !.tasks = Put(@, t, row), !.leases = Put(@, l, given),
                            !.attempts = Put(@, l, "leased")]
<1>3. /\ x \in TxRecords /\ Fits(x, runs, tasks, leases) /\ Control(x) /\ x.worker \in Workers
      /\ until \in Int
  BY <1>1, OpenTransaction, SessionAssumption DEF Control, TxRecords
<1>4. t \in Tasks /\ Free(s, "tasks", {t}) /\ TasksSeen(s)[t].status = "queued"
  BY DEF Pickable, Claimable
<1>5. Present(t, tasks) /\ (t \notin DOMAIN x.tasks => tasks[t].leaseId = Null)
  <2>1. CASE t \in DOMAIN x.tasks
    <3>1. TaskFits(x, t, runs, tasks)
      BY <1>3, <2>1 DEF Fits
    <3> QED
      BY <1>1, <2>1, <3>1 DEF TaskFits
  <2>2. CASE t \notin DOMAIN x.tasks
    BY <1>2, <1>4, <2>2, RowsSeen DEF Present, TaskStatuses
  <2> QED
    BY <2>1, <2>2
<1>6. row \in TaskRows /\ row.status = "leased" /\ row.leaseId = l
  BY <1>3, <1>4, RowsSeen, ClaimedRowRow
<1>7. given \in LeaseRows /\ given.status = "active" /\ given.task = t
  BY <1>3, <1>4 DEF LeaseRows, LeaseStatuses
<1>8. tx' = [tx EXCEPT ![s] = new] /\ UNCHANGED vars
  BY <1>2 DEF Step
<1> HIDE DEF row, given
<1>9. /\ Put(x.tasks, t, row) \in Writes(Tasks, TaskRows)
      /\ Put(x.leases, l, given) \in Writes(Leases, LeaseRows)
      /\ Put(x.attempts, l, "leased") \in Writes(Leases, AttemptStatuses)
  BY <1>3, <1>4, <1>6, <1>7, PutWrites DEF TxRecords, AttemptStatuses
<1> HIDE DEF x, until
<1>10. new \in TxRecords
  BY <1>3, <1>4, <1>9 DEF TxRecords, Statements, TaskStatuses
<1>11. /\ new.op = "claim" /\ new.to = "leased" /\ new.pc = "derive" /\ new.task = t
       /\ new.todo = x.todo /\ new.worker = x.worker /\ new.runs = x.runs
       /\ new.tasks = Put(x.tasks, t, row) /\ new.leases = Put(x.leases, l, given)
       /\ new.attempts = Put(x.attempts, l, "leased")
  BY <1>1, <1>3 DEF TxRecords
<1> HIDE DEF new
<1>12. Fits(new, runs, tasks, leases)
  <2>1. /\ "leased" \in TaskStatuses /\ "active" \in LeaseStatuses
        /\ "leased" \in AttemptStatuses
    BY DEF TaskStatuses, LeaseStatuses, AttemptStatuses
  <2> QED
    BY <1>1, <1>3, <1>4, <1>5, <1>6, <1>7, <1>10, <1>11, <2>1, OpenTransaction, ClaimFits
<1>13. /\ DOMAIN new.tasks = DOMAIN x.tasks \union {t}
       /\ DOMAIN new.leases = DOMAIN x.leases \union {l}
  BY <1>11 DEF Put
<1>14. Control(new) /\ Aim(new, runs, tasks, leases)
  BY <1>1, <1>3, <1>11, <1>13 DEF Control, Aim, Sweeps
<1>15. ASSUME NEW o \in Sessions, o # s
       PROVE  Apart(new, tx[o])
  <2>1. /\ {t} \intersect DOMAIN tx[o].tasks = {} /\ {l} \intersect DOMAIN tx[o].leases = {}
        /\ tx[o] \in TxRecords /\ Apart(x, tx[o])
    BY <1>1, <1>4, <1>15, FreeRows, OpenTransaction DEF x
  <2> QED
    BY <1>1, <1>3, <1>10, <1>11, <1>13, <2>1, ApartGrows
<1> QED
  BY <1>8, <1>10, <1>12, <1>14, <1>15, OpenTransaction, StepKeeps DEF vars

(* cancelRun: its row, its tasks, ...                                        *)
LEMMA CancelsRunKeeps ==
  ASSUME PgInv, NEW s \in Sessions, CancelsRun(s)
  PROVE  PgInv'
<1> DEFINE x == tx[s]
           new == [x EXCEPT !.pc = "cancelTasks", !.runs = Put(@, x.run, "cancelled")]
<1>1. /\ x.pc = "cancelRun" /\ runs[x.run] \in RunStatuses
      /\ tx' = [tx EXCEPT ![s] = new] /\ UNCHANGED vars
  BY DEF CancelsRun, At, Step
<1>2. /\ x \in TxRecords /\ Control(x) /\ x.run \in Runs /\ x.op = "cancel"
  BY <1>1, OpenTransaction DEF Control
<1>3. Put(x.runs, x.run, "cancelled") \in Writes(Runs, RunStatuses)
  BY <1>2, PutWrites DEF TxRecords, RunStatuses
<1> HIDE DEF x
<1>4. new \in TxRecords
  BY <1>2, <1>3 DEF TxRecords, Statements
<1>5. /\ SameRows(x, new) /\ new.runs = Put(x.runs, x.run, "cancelled") /\ new.pc = "cancelTasks"
      /\ new.run = x.run /\ new.todo = x.todo /\ new.worker = x.worker
  BY <1>2 DEF TxRecords, SameRows
<1>6. \A q \in DOMAIN new.runs : q \in DOMAIN x.runs \/ runs[q] \in RunStatuses
  BY <1>1, <1>5 DEF Put
<1> HIDE DEF new
<1>7. Control(new) /\ Aim(new, runs, tasks, leases)
  BY <1>2, <1>5 DEF Control, Aim, Sweeps, SameRows
<1> QED
  BY <1>1, <1>4, <1>5, <1>6, <1>7, SameRowsKeep DEF x

LEMMA CancelsTasksKeeps ==
  ASSUME PgInv, NEW s \in Sessions, CancelsTasks(s)
  PROVE  PgInv'
<1> DEFINE x == tx[s]
           T == {t \in TasksOf(x.run, tasks) : tasks[t].status \notin TerminalTaskStatuses}
           rows == [t \in T |-> WithoutLease(tasks[t], "cancelled")]
           new == [x EXCEPT !.pc = "cancelLeases", !.tasks = rows]
<1>1. /\ x.pc = "cancelTasks" /\ Free(s, "tasks", T)
      /\ tx' = [tx EXCEPT ![s] = new] /\ UNCHANGED vars
  BY DEF CancelsTasks, At, Step
<1>2. /\ x \in TxRecords /\ Fits(x, runs, tasks, leases) /\ Control(x) /\ x.op = "cancel"
      /\ x.run \in Runs
  BY <1>1, OpenTransaction DEF Control
<1>3. T \in SUBSET Tasks /\ \A t \in T : Present(t, tasks) /\ runs[RunOf(t)] \in RunStatuses
  BY TasksOfType, OpenTransaction DEF Tables
<1> HIDE DEF T
<1>4. \A t \in T : /\ WithoutLease(tasks[t], "cancelled") \in TaskRows
                   /\ WithoutLease(tasks[t], "cancelled").status = "cancelled"
                   /\ WithoutLease(tasks[t], "cancelled").leaseId = Null
  <2>1. \A t \in T : tasks[t] \in TaskRows
    BY <1>3, OpenTransaction DEF CommittedType
  <2>2. "cancelled" \in TaskStatuses
    BY DEF TaskStatuses
  <2> QED
    BY <2>1, <2>2, WithoutLeaseRow
<1>5. /\ rows \in [T -> TaskRows] /\ DOMAIN rows = T
      /\ \A t \in T : rows[t].status = "cancelled" /\ rows[t].leaseId = Null
  BY <1>4
<1> HIDE DEF rows
<1>6. rows \in Writes(Tasks, TaskRows)
  BY <1>3, <1>5, WritesMake
<1> HIDE DEF x
<1>7. new \in TxRecords
  BY <1>2, <1>6 DEF TxRecords, Statements
<1>8. /\ new.op = "cancel" /\ new.to = x.to /\ new.pc = "cancelLeases" /\ new.run = x.run
      /\ new.tasks = rows /\ new.leases = x.leases /\ new.attempts = x.attempts
      /\ new.runs = x.runs
  BY <1>2 DEF TxRecords
<1> HIDE DEF new
<1>9. ASSUME NEW t \in DOMAIN new.tasks
      PROVE  TaskFits(new, t, runs, tasks)
  <2>1. t \in T /\ new.tasks[t].status = "cancelled" /\ new.tasks[t].leaseId = Null
    BY <1>5, <1>8, <1>9
  <2> QED
    BY <1>3, <1>8, <2>1 DEF TaskFits, Sweeps, TaskStatuses
<1>10. ASSUME NEW l \in DOMAIN new.leases
       PROVE  LeaseFits(new, l, tasks, leases)
  <2>1. LeaseFits(x, l, tasks, leases)
    BY <1>2, <1>8, <1>10 DEF Fits
  <2> QED
    BY <1>2, <1>8, <2>1 DEF LeaseFits, Doomed, Sweeps
<1>11. Fits(new, runs, tasks, leases)
  BY <1>2, <1>8, <1>9, <1>10 DEF Fits
<1>12. Control(new) /\ Aim(new, runs, tasks, leases)
  BY <1>2, <1>8 DEF Control, Aim, Sweeps
<1>13. \A o \in Sessions : o # s => Apart(new, tx[o])
  <2> SUFFICES ASSUME NEW o \in Sessions, o # s PROVE Apart(new, tx[o])
    OBVIOUS
  <2>1. T \intersect DOMAIN tx[o].tasks = {} /\ Apart(x, tx[o])
    BY <1>1, FreeRows, OpenTransaction DEF x
  <2> QED
    BY <1>5, <1>8, <2>1 DEF Apart
<1> QED
  BY <1>1, <1>7, <1>11, <1>12, <1>13, OpenTransaction, StepKeeps DEF vars

(* ... its attempts and leases.                                              *)
LEMMA CancelsLeasesKeeps ==
  ASSUME PgInv, NEW s \in Sessions, CancelsLeases(s)
  PROVE  PgInv'
<1> DEFINE x == tx[s]
           L == {l \in Leases : /\ leases[l].status = "active" \/ attempts[l] \in HeldStatuses
                                /\ RunOf(leases[l].task) = x.run}
           rows == [l \in L |-> IF leases[l].status = "active"
                                  THEN [leases[l] EXCEPT !.status = "cancelled"] ELSE leases[l]]
           ends == [l \in L |-> IF attempts[l] \in HeldStatuses THEN "cancelled" ELSE attempts[l]]
           new == [x EXCEPT !.leases = rows, !.attempts = ends]
<1>1. x.pc = "cancelLeases" /\ Free(s, "attempts", L) /\ Commit(s, new)
  BY DEF CancelsLeases, At
<1>2. /\ x \in TxRecords /\ Fits(x, runs, tasks, leases) /\ Control(x) /\ x.op = "cancel"
  BY <1>1, OpenTransaction DEF Control
<1>3. /\ L \in SUBSET Leases
      /\ \A l \in L : LeasePresent(l, leases) /\ attempts[l] \in AttemptStatuses
                      /\ leases[l] \in LeaseRows
  <2>1. L \in SUBSET Leases
    OBVIOUS
  <2>2. ASSUME NEW l \in L
        PROVE  /\ LeasePresent(l, leases) /\ attempts[l] \in AttemptStatuses
               /\ leases[l] \in LeaseRows
    <3>1. /\ attempts[l] \in AttemptStatuses <=> LeasePresent(l, leases)
          /\ leases[l] \in LeaseRows
      BY OpenTransaction DEF Tables, CommittedType
    <3>2. CASE leases[l].status = "active"
      BY <3>1, <3>2 DEF LeasePresent, LeaseStatuses
    <3>3. CASE attempts[l] \in HeldStatuses
      BY <3>1, <3>3 DEF HeldStatuses, AttemptStatuses
    <3> QED
      BY <3>2, <3>3
  <2> QED
    BY <2>1, <2>2
<1> HIDE DEF L
<1>4. /\ rows \in [L -> LeaseRows] /\ DOMAIN rows = L
      /\ \A l \in L : rows[l].status \in LeaseStatuses /\ rows[l].task = leases[l].task
  BY <1>3 DEF LeaseRows, LeaseStatuses, LeasePresent
<1>5. ends \in [L -> AttemptStatuses] /\ DOMAIN ends = L
  BY <1>3 DEF AttemptStatuses
<1> HIDE DEF rows, ends
<1>6. rows \in Writes(Leases, LeaseRows) /\ ends \in Writes(Leases, AttemptStatuses)
  BY <1>3, <1>4, <1>5, WritesMake
<1> HIDE DEF x
<1>7. new \in TxRecords
  BY <1>2, <1>6 DEF TxRecords
<1>8. /\ new.op = "cancel" /\ new.to = x.to /\ new.pc = x.pc /\ new.tasks = x.tasks
      /\ new.runs = x.runs /\ new.leases = rows /\ new.attempts = ends
  BY <1>2 DEF TxRecords
<1> HIDE DEF new
<1>9. ASSUME NEW t \in DOMAIN new.tasks
      PROVE  TaskFits(new, t, runs, tasks)
  <2>1. TaskFits(x, t, runs, tasks)
    BY <1>2, <1>8, <1>9 DEF Fits
  <2> QED
    BY <1>2, <1>8, <2>1 DEF TaskFits, Handed, Sweeps
<1>10. ASSUME NEW l \in DOMAIN new.leases
       PROVE  LeaseFits(new, l, tasks, leases)
  BY <1>3, <1>4, <1>8, <1>10 DEF LeaseFits
<1>11. Fits(new, runs, tasks, leases)
  BY <1>2, <1>4, <1>5, <1>8, <1>9, <1>10 DEF Fits
<1>12. ASSUME NEW o \in Sessions, o # s
       PROVE  Apart(new, tx[o])
  <2>1. L \intersect DOMAIN tx[o].leases = {} /\ Apart(x, tx[o])
    BY <1>1, <1>12, LeasesApart, OpenTransaction DEF x
  <2> QED
    BY <1>2, <1>4, <1>8, <2>1 DEF Apart
<1> QED
  BY <1>1, <1>7, <1>8, <1>11, <1>12, CommitStep


(* pruneRuns: a run goes with all that refers to it.                         *)
LEMMA PruneDeletesKeeps ==
  ASSUME PgInv, NEW s \in Sessions, PruneDeletes(s)
  PROVE  PgInv'
<1> DEFINE R == {r \in tx[s].todo : runs[r] \in RunStatuses}
           T == {t \in Tasks : RunOf(t) \in R}
           D == {t \in T : Present(t, tasks)}
           L == LeasesOf(R)
           noTask == [AbsentTask EXCEPT !.status = "pruned"]
           noLease == [AbsentLease EXCEPT !.status = "pruned"]
           last == [tx[s] EXCEPT
                      !.runs = [r \in R |-> "pruned"],
                      !.tasks = [t \in UNION {TasksOf(r, tasks) : r \in R} |-> noTask],
                      !.leases = [l \in L |-> noLease],
                      !.attempts = [l \in L |-> "pruned"]]
<1>1. /\ tx[s].pc = "delete" /\ Free(s, "runs", R) /\ Free(s, "tasks", T)
      /\ Free(s, "attempts", L) /\ Commit(s, last)
  BY DEF PruneDeletes, At
<1>2. tx[s] \in TxRecords /\ tx[s].todo \subseteq Runs
  BY <1>1, OpenTransaction DEF Control
<1>3. /\ R \subseteq Runs /\ T \subseteq Tasks
      /\ \A t \in Tasks : t \in T <=> RunOf(t) \in R
      /\ \A r \in R : runs[r] \in RunStatuses
      /\ \A t \in Tasks : t \in D <=> t \in T /\ Present(t, tasks)
  BY <1>2
<1>4. UNION {TasksOf(r, tasks) : r \in R} = D
  BY TasksOfType
<1>5. \A l \in Leases : l \in L <=> LeasePresent(l, leases) /\ RunOf(leases[l].task) \in R
  BY DEF LeasesOf, LeasePresent
<1>6. L \subseteq Leases
  BY DEF LeasesOf
<1>7. /\ last.runs = [r \in R |-> "pruned"] /\ last.tasks = [t \in D |-> noTask]
      /\ last.leases = [l \in L |-> noLease] /\ last.attempts = [l \in L |-> "pruned"]
  BY <1>2, <1>4 DEF TxRecords
<1>8. /\ noTask \in TaskRows /\ noTask.status = "pruned" /\ noTask.leaseId = Null
      /\ noLease \in LeaseRows /\ noLease.status = "pruned"
  <2>1. /\ noTask \in TaskRows /\ noTask.status = "pruned" /\ noTask.leaseId = Null
    BY AbsentTaskRow DEF NoRow
  <2>2. noLease \in LeaseRows /\ noLease.status = "pruned"
    BY AbsentLeaseRow DEF LeaseRows, AbsentLease
  <2> QED
    BY <2>1, <2>2
<1> HIDE DEF R, T, D, L, noTask, noLease, last
<1>9. CommittedType(runs, tasks, leases, attempts) /\ Tables(runs, tasks, leases, attempts)
  BY OpenTransaction
<1>10. /\ runs' = Overlay(last.runs, runs) /\ tasks' = Overlay(last.tasks, tasks)
       /\ leases' = Overlay(last.leases, leases) /\ attempts' = Overlay(last.attempts, attempts)
       /\ tx' = [tx EXCEPT ![s] = NoTx] /\ UNCHANGED <<now, completions, checked>>
  BY <1>1 DEF Commit
<1>11. /\ runs' \in [Runs -> RunStatuses \union NoRow]
       /\ \A r \in Runs : runs'[r] = IF r \in R THEN "pruned" ELSE runs[r]
  BY <1>7, <1>9, <1>10 DEF CommittedType, Overlay, NoRow
<1>12. /\ tasks' \in [Tasks -> TaskRows]
       /\ \A t \in Tasks : tasks'[t] = IF t \in D THEN noTask ELSE tasks[t]
  BY <1>7, <1>8, <1>9, <1>10 DEF CommittedType, Overlay
<1>13. /\ leases' \in [Leases -> LeaseRows]
       /\ \A l \in Leases : leases'[l] = IF l \in L THEN noLease ELSE leases[l]
  BY <1>7, <1>8, <1>9, <1>10 DEF CommittedType, Overlay
<1>14. /\ attempts' \in [Leases -> AttemptStatuses \union NoRow]
       /\ \A l \in Leases : attempts'[l] = IF l \in L THEN "pruned" ELSE attempts[l]
  BY <1>7, <1>9, <1>10 DEF CommittedType, Overlay, NoRow
<1>15. /\ "pruned" \notin RunStatuses /\ "pruned" \notin TaskStatuses
       /\ "pruned" \notin LeaseStatuses /\ "pruned" \notin AttemptStatuses
  BY DEF RunStatuses, TaskStatuses, LeaseStatuses, AttemptStatuses
<1>16. CommittedType(runs', tasks', leases', attempts')
  BY <1>11, <1>12, <1>13, <1>14 DEF CommittedType
<1>17. \A t \in Tasks : Present(t, tasks') <=> Present(t, tasks) /\ RunOf(t) \notin R
  BY <1>3, <1>8, <1>12, <1>15 DEF Present
<1>18. \A l \in Leases : LeasePresent(l, leases) =>
         /\ leases[l].task \in Tasks /\ Present(leases[l].task, tasks)
         /\ l \notin L <=> Present(leases[l].task, tasks')
  BY <1>5, <1>9, <1>17 DEF Tables
<1>19. \A l \in Leases : /\ LeasePresent(l, leases') <=> LeasePresent(l, leases) /\ l \notin L
                         /\ LeasePresent(l, leases') => leases'[l] = leases[l]
  BY <1>8, <1>13, <1>15 DEF LeasePresent
<1>20. Tables(runs', tasks', leases', attempts')
  <2>1. ASSUME NEW t \in Tasks, Present(t, tasks')
        PROVE  /\ runs'[RunOf(t)] \in RunStatuses
               /\ Input[t].dependsOn \subseteq TasksOf(RunOf(t), tasks')
               /\ SameKey(t) \intersect TasksOf(RunOf(t), tasks') = {}
    <3>1. /\ RunOf(t) \in Runs /\ RunOf(t) \notin R /\ runs[RunOf(t)] \in RunStatuses
          /\ Input[t].dependsOn \subseteq TasksOf(RunOf(t), tasks)
          /\ SameKey(t) \intersect TasksOf(RunOf(t), tasks) = {}
      BY <1>9, <1>17, <2>1, TasksOfType DEF Tables
    <3>2. TasksOf(RunOf(t), tasks') = TasksOf(RunOf(t), tasks)
      BY <1>17, <3>1 DEF TasksOf, Present
    <3> QED
      BY <1>11, <3>1, <3>2
  <2>2. ASSUME NEW t \in Tasks
        PROVE  LeaseNamed(t, tasks', leases')
    <3> SUFFICES ASSUME tasks'[t].leaseId # Null
                 PROVE  /\ LeasePresent(tasks'[t].leaseId, leases')
                        /\ leases'[tasks'[t].leaseId].task = t
      BY DEF LeaseNamed
    <3>1. t \notin D /\ tasks'[t] = tasks[t]
      BY <1>8, <1>12
    <3>2. tasks[t].leaseId \in Leases
      BY <1>9, <3>1 DEF CommittedType, TaskRows
    <3>3. LeasePresent(tasks[t].leaseId, leases) /\ leases[tasks[t].leaseId].task = t
      BY <1>9, <3>1 DEF Tables, LeaseNamed
    <3>4. Present(t, tasks')
      BY <1>3, <1>17, <1>18, <3>1, <3>2, <3>3
    <3> QED
      BY <1>18, <1>19, <3>1, <3>2, <3>3, <3>4
  <2>3. \A l \in Leases : LeasePresent(l, leases') =>
          leases'[l].task \in Tasks /\ Present(leases'[l].task, tasks')
    BY <1>18, <1>19
  <2>4. \A l \in Leases : attempts'[l] \in AttemptStatuses <=> LeasePresent(l, leases')
    BY <1>9, <1>14, <1>15, <1>19 DEF Tables
  <2> QED
    BY <2>1, <2>2, <2>3, <2>4 DEF Tables
<1>21. ASSUME NEW o \in Sessions, o # s
       PROVE  Advances(tx[o], runs, tasks, leases, runs', tasks', leases')
  <2> DEFINE y == tx[o]
  <2>1. y \in TxRecords /\ Fits(y, runs, tasks, leases)
    BY OpenTransaction
  <2>2. /\ DOMAIN y.tasks \in SUBSET Tasks /\ DOMAIN y.leases \in SUBSET Leases
        /\ DOMAIN y.runs \in SUBSET Runs
    BY <2>1, WritesType DEF TxRecords
  <2>3. /\ T \intersect DOMAIN y.tasks = {} /\ L \intersect DOMAIN y.leases = {}
        /\ R \intersect DOMAIN y.runs = {}
    BY <1>1, <1>21, FreeRows, LeasesApart
  <2> HIDE DEF y
  <2>4. \A t \in DOMAIN y.tasks : tasks'[t] = tasks[t] /\ runs'[RunOf(t)] \in RunStatuses
    <3> SUFFICES ASSUME NEW t \in DOMAIN y.tasks
                 PROVE  tasks'[t] = tasks[t] /\ runs'[RunOf(t)] \in RunStatuses
      OBVIOUS
    <3>1. t \in Tasks /\ RunOf(t) \in Runs /\ t \notin T
      BY <2>2, <2>3, TasksOfType
    <3>2. runs[RunOf(t)] \in RunStatuses
      BY <2>1 DEF Fits, TaskFits
    <3> QED
      BY <1>3, <1>11, <1>12, <3>1, <3>2
  <2>5. \A l \in DOMAIN y.leases : leases'[l] = leases[l]
    BY <1>13, <2>2, <2>3
  <2>6. \A r \in DOMAIN y.runs : runs'[r] \in RunStatuses
    BY <1>11, <2>1, <2>2, <2>3 DEF Fits
  <2>7. \A r \in Runs : runs[r] = "pruned" => runs'[r] = "pruned"
    BY <1>11
  <2>8. \A t \in Tasks : tasks[t].status = "pruned" => tasks'[t].status = "pruned"
    BY <1>8, <1>12
  <2>9. \A t \in Tasks : Present(t, tasks) =>
          Present(t, tasks') \/ (tasks'[t].status = "pruned" /\ runs'[RunOf(t)] = "pruned")
    BY <1>3, <1>8, <1>11, <1>12, <1>17, TasksOfType
  <2>10. \A l \in Leases : LeasePresent(l, leases) /\ Present(leases[l].task, tasks') =>
           LeasePresent(l, leases') /\ leases'[l].task = leases[l].task
    BY <1>18, <1>19
  <2>11. y.op = "enqueue" =>
           \A t \in DOMAIN y.tasks : SameKey(t) \intersect TasksOf(RunOf(t), tasks') = {}
    <3> SUFFICES ASSUME y.op = "enqueue", NEW t \in DOMAIN y.tasks
                 PROVE  SameKey(t) \intersect TasksOf(RunOf(t), tasks') = {}
      OBVIOUS
    <3>1. SameKey(t) \intersect TasksOf(RunOf(t), tasks) = {}
      BY <2>1 DEF Fits, TaskFits, Inserted
    <3>2. TasksOf(RunOf(t), tasks') \subseteq TasksOf(RunOf(t), tasks)
      BY <1>17, TasksOfType
    <3> QED
      BY <3>1, <3>2
  <2> QED
    BY <2>4, <2>5, <2>6, <2>7, <2>8, <2>9, <2>10, <2>11 DEF Advances, y
<1> QED
  BY <1>10, <1>16, <1>20, <1>21, CommitsKeep


(* createRun, the first SELECT of enqueueTask, and the clock.                *)
LEMMA OutsideKeeps ==
  ASSUME PgInv, UNCHANGED <<tx, tasks, leases, attempts, completions>>, now' \in Nat,
         checked' \subseteq Tasks, runs' \in [Runs -> RunStatuses \union NoRow],
         \A r \in Runs : runs'[r] = runs[r] \/ (runs[r] = "absent" /\ runs'[r] \in RunStatuses)
  PROVE  PgInv'
<1>1. /\ CommittedType(runs, tasks, leases, attempts) /\ Tables(runs, tasks, leases, attempts)
      /\ tx \in [Sessions -> TxRecords]
  BY DEF PgInv
<1>2. "absent" \notin RunStatuses /\ "absent" # "pruned"
  BY DEF RunStatuses
<1>3. CommittedType(runs', tasks, leases, attempts)
  BY <1>1 DEF CommittedType
<1>4. \A t \in Tasks : runs[RunOf(t)] \in RunStatuses => runs'[RunOf(t)] \in RunStatuses
  BY <1>2, TasksOfType
<1>5. Tables(runs', tasks, leases, attempts)
  BY <1>1, <1>4 DEF Tables
<1>6. ASSUME NEW s \in Sessions
      PROVE  Fits(tx[s], runs', tasks, leases) /\ Aim(tx[s], runs', tasks, leases)
  <2> DEFINE x == tx[s]
  <2>1. /\ x \in TxRecords /\ Fits(x, runs, tasks, leases) /\ Control(x)
        /\ Aim(x, runs, tasks, leases)
    BY OpenTransaction
  <2>2. DOMAIN x.tasks \in SUBSET Tasks /\ DOMAIN x.runs \in SUBSET Runs
    BY <2>1, WritesType DEF TxRecords
  <2> HIDE DEF x
  <2>3. \A t \in DOMAIN x.tasks : runs'[RunOf(t)] \in RunStatuses
    BY <1>4, <2>1, <2>2 DEF Fits, TaskFits
  <2>4. \A r \in DOMAIN x.runs : runs'[r] \in RunStatuses
    BY <1>2, <2>1, <2>2 DEF Fits
  <2>5. \A r \in Runs : runs[r] = "pruned" => runs'[r] = "pruned"
    BY <1>2
  <2>6. x.op = "enqueue" =>
          \A t \in DOMAIN x.tasks : SameKey(t) \intersect TasksOf(RunOf(t), tasks) = {}
    BY <2>1 DEF Fits, TaskFits, Inserted
  <2>7. Advances(x, runs, tasks, leases, runs', tasks, leases)
    BY <2>3, <2>4, <2>5, <2>6 DEF Advances
  <2> QED
    BY <2>1, <2>7, FitsStays DEF x
<1> QED
  BY <1>3, <1>5, <1>6 DEF PgInv

LEMMA OutsideStep ==
  ASSUME PgInv, Outside
  PROVE  PgInv'
<1>1. now \in Nat /\ checked \subseteq Tasks /\ runs \in [Runs -> RunStatuses \union NoRow]
  BY DEF PgInv, CommittedType
<1>2. CASE \E r \in Runs : CreateRun(r)
  <2>1. PICK r \in Runs : CreateRun(r)
    BY <1>2
  <2>2. "pending" \in RunStatuses
    BY DEF RunStatuses
  <2>3. /\ runs' = [runs EXCEPT ![r] = "pending"] /\ runs[r] = "absent"
        /\ UNCHANGED <<now, tasks, leases, attempts, completions, checked, tx>>
    BY <2>1 DEF CreateRun, Outside
  <2> QED
    BY <1>1, <2>2, <2>3, OutsideKeeps
<1>3. CASE \E t \in Tasks : EnqueueCheck(t) \/ EnqueueThrows(t)
  <2>1. UNCHANGED <<now, runs, tasks, leases, attempts, completions, tx>> /\ checked' \subseteq Tasks
    BY <1>1, <1>3 DEF EnqueueCheck, EnqueueThrows, Outside
  <2> QED
    BY <1>1, <2>1, OutsideKeeps
<1>4. CASE Tick
  <2>1. UNCHANGED <<checked, runs, tasks, leases, attempts, completions, tx>> /\ now' = now + 1
    BY <1>4 DEF Tick, Outside
  <2> QED
    BY <1>1, <2>1, OutsideKeeps
<1> QED
  BY <1>2, <1>3, <1>4 DEF Outside

LEMMA PgStart == PgInit => PgInv
<1> SUFFICES ASSUME PgInit PROVE PgInv
  OBVIOUS
<1>1. "absent" \notin TaskStatuses /\ "absent" \notin LeaseStatuses /\ "absent" \notin AttemptStatuses
  BY DEF TaskStatuses, LeaseStatuses, AttemptStatuses
<1>2. /\ AbsentTask \in TaskRows /\ AbsentTask.status = "absent" /\ AbsentTask.leaseId = Null
      /\ AbsentLease \in LeaseRows /\ AbsentLease.status = "absent"
  <2>1. AbsentTask \in TaskRows
    BY AbsentTaskRow DEF NoRow
  <2>2. AbsentLease \in LeaseRows
    BY AbsentLeaseRow
  <2> QED
    BY <2>1, <2>2 DEF AbsentTask, AbsentLease
<1>3. /\ now = 0 /\ checked = {} /\ completions = [k \in Tokens |-> Null]
      /\ runs = [r \in Runs |-> "absent"] /\ tasks = [t \in Tasks |-> AbsentTask]
      /\ leases = [l \in Leases |-> AbsentLease] /\ attempts = [l \in Leases |-> "absent"]
      /\ tx = [s \in Sessions |-> NoTx]
  BY DEF PgInit, Init
<1>4. CommittedType(runs, tasks, leases, attempts)
  BY <1>2, <1>3 DEF CommittedType, NoRow
<1>5. Tables(runs, tasks, leases, attempts)
  BY <1>1, <1>2, <1>3 DEF Tables, LeaseNamed, Present, LeasePresent
<1>6. \A s \in Sessions : tx[s] = NoTx
  BY <1>3
<1>7. \A s \in Sessions : /\ Fits(tx[s], runs, tasks, leases) /\ Control(tx[s])
                          /\ Aim(tx[s], runs, tasks, leases)
  BY <1>6, NoTxIsFresh, FreshFits
<1>8. \A s, o \in Sessions : s # o => Apart(tx[s], tx[o])
  BY <1>6, NoTxIsFresh, FreshFits
<1>9. tx \in [Sessions -> TxRecords]
  BY <1>3, NoTxIsFresh
<1> QED
  BY <1>3, <1>4, <1>5, <1>7, <1>8, <1>9 DEF PgInv

LEMMA PgStep ==
  ASSUME PgInv, [PgNext]_pgVars
  PROVE  PgInv'
<1>1. CASE UNCHANGED pgVars
  BY <1>1, Zenon DEF pgVars, vars, PgInv
<1>2. CASE \E s \in Sessions : Begins(s)
  <2>1. PICK s \in Sessions : Begins(s)
    BY <1>2
  <2>2. CASE \E t \in Tasks, l \in Leases, w \in Workers, to \in LeaveTo \union {"running", "heartbeat"} :
               HolderBegins(s, t, l, w, to)
    BY <2>2, HolderBeginsKeeps
  <2>3. CASE \E t \in Tasks : ResumeBegins(s, t) \/ RequeueBegins(s, t) \/ EnqueueBegins(s, t)
    BY <2>3, OperatorBeginsKeeps, EnqueueBeginsKeeps
  <2>4. CASE SweepBegins(s, "sweep", Null) \/ \E w \in Workers : SweepBegins(s, "claim", w)
    BY <2>4, SweepBeginsKeeps
  <2>5. CASE \E r \in Runs : CancelBegins(s, r)
    BY <2>5, CancelBeginsKeeps
  <2>6. CASE \E statuses \in PruneFilters : PruneBegins(s, statuses)
    BY <2>6, PruneBeginsKeeps
  <2> QED
    BY <2>1, <2>2, <2>3, <2>4, <2>5, <2>6 DEF Begins
<1>3. CASE \E s \in Sessions : Continues(s)
  <2>1. PICK s \in Sessions : Continues(s)
    BY <1>3
  <2>2. CASE WritesTask(s) \/ HolderWritesLease(s) \/ EnqueueInserts(s)
    BY <2>2, WritesTaskKeeps, HolderWritesLeaseKeeps, EnqueueInsertsKeeps
  <2>3. CASE SweepReads(s) \/ SweepWritesLease(s)
    BY <2>3, SweepReadsKeeps, SweepWritesLeaseKeeps
  <2>4. CASE SweepEnds(s) \/ ClaimFindsNothing(s) \/ \E l \in Leases : ClaimPicks(s, l)
    BY <2>4, EndsKeep, ClaimPicksKeeps
  <2>5. CASE Derives(s) \/ Settles(s)
    BY <2>5, DerivesKeeps, SettlesKeeps
  <2>6. CASE CancelsRun(s) \/ CancelsTasks(s) \/ CancelsLeases(s)
    BY <2>6, CancelsRunKeeps, CancelsTasksKeeps, CancelsLeasesKeeps
  <2>7. CASE PruneDeletes(s)
    BY <2>7, PruneDeletesKeeps
  <2> QED
    BY <2>1, <2>2, <2>3, <2>4, <2>5, <2>6, <2>7 DEF Continues
<1>4. CASE \E s \in Sessions : Abort(s)
  BY <1>4, AbortKeeps
<1>5. CASE Outside
  BY <1>5, OutsideStep
<1> QED
  BY <1>1, <1>2, <1>3, <1>4, <1>5 DEF PgNext

LEMMA PgInductive == PgSpec => []PgInv
  BY PgStart, PgStep, PTL DEF PgSpec

(***************************************************************************)
(* The theorems.                                                           *)
(***************************************************************************)

(* Whatever the sessions do to one another, the tables they have committed   *)
(* hold rows of the declared shape.                                          *)
THEOREM PgTypeCorrect == PgSpec => []TypeOK
<1>1. PgInv => TypeOK
  BY DEF PgInv, CommittedType, TypeOK
<1> QED
  BY <1>1, PgInductive, PTL

(* Two tasks of a run that have been enqueued under the same key: the unique *)
(* index lets only one of two overlapping transactions commit.               *)
THEOREM PgKeysUnique == PgSpec => []KeysUnique
<1>1. PgInv => KeysUnique
  BY TasksOfType DEF PgInv, Tables, KeysUnique, SameKey, TasksOf, Present
<1> QED
  BY <1>1, PgInductive, PTL

(* No commit leaves a lease without its task, or a task without its run or   *)
(* its dependencies, though other transactions prune and cancel meanwhile.   *)
THEOREM PgNoDanglingRows == PgSpec => []NoDanglingRows
<1>1. PgInv => NoDanglingRows
  BY DEF PgInv, Tables, NoDanglingRows, Present, LeasePresent
<1> QED
  BY <1>1, PgInductive, PTL


(***************************************************************************)
(* What a step does to the committed tasks: nothing, or it commits the rows *)
(* of one session, or it deletes rows.                                     *)
(***************************************************************************)

CommitsTasks(s) == tasks' = Overlay(tx[s].tasks, tasks) /\ tx'[s] = NoTx

PrunesTasks ==
  \A t \in Tasks : tasks'[t] = tasks[t] \/ tasks'[t] = [AbsentTask EXCEPT !.status = "pruned"]

LEMMA StatementsCommitNothing == \A s, new : Step(s, new) => tasks' = tasks
  BY DEF Step, vars

LEMMA CommittedTasks ==
  ASSUME PgInv, [PgNext]_pgVars
  PROVE  tasks' = tasks \/ (\E s \in Sessions : CommitsTasks(s)) \/ PrunesTasks
<1>1. CASE UNCHANGED pgVars
  BY <1>1 DEF pgVars, vars
<1>2. CASE \E s \in Sessions : Begins(s) \/ Abort(s)
  <2>1. PICK s \in Sessions : Begins(s) \/ Abort(s)
    BY <1>2
  <2>2. CASE \E t \in Tasks, l \in Leases, w \in Workers, to \in LeaveTo \union {"running", "heartbeat"} :
               HolderBegins(s, t, l, w, to)
    BY <2>2, StatementsCommitNothing DEF HolderBegins, Begin
  <2>3. CASE \E t \in Tasks : ResumeBegins(s, t) \/ RequeueBegins(s, t)
    BY <2>3, StatementsCommitNothing DEF ResumeBegins, RequeueBegins, Begin
  <2>4. CASE \E t \in Tasks : EnqueueBegins(s, t)
    BY <2>4 DEF EnqueueBegins
  <2>5. CASE SweepBegins(s, "sweep", Null) \/ \E w \in Workers : SweepBegins(s, "claim", w)
    <3>1. ASSUME NEW op, NEW w, SweepBegins(s, op, w)
          PROVE  tasks' = tasks
      <4> DEFINE T == {t \in Tasks : /\ tasks[t].status \in HeldStatuses
                                     /\ tasks[t].leaseExpiresAt # NoTime
                                     /\ tasks[t].leaseExpiresAt < now}
                 new == [NoTx EXCEPT !.op = op, !.pc = "sweep", !.worker = w, !.at = now, !.todo = T]
      <4>1. Step(s, new)
        BY <3>1 DEF SweepBegins, Begin
      <4> QED
        BY <4>1, StatementsCommitNothing
    <3> QED
      BY <2>5, <3>1
  <2>6. CASE \E r \in Runs : CancelBegins(s, r)
    BY <2>6, StatementsCommitNothing DEF CancelBegins, Begin
  <2>7. CASE \E statuses \in PruneFilters : PruneBegins(s, statuses)
    BY <2>7, StatementsCommitNothing DEF PruneBegins, Begin
  <2>8. CASE Abort(s)
    BY <2>8, StatementsCommitNothing DEF Abort
  <2> QED
    BY <2>1, <2>2, <2>3, <2>4, <2>5, <2>6, <2>7, <2>8 DEF Begins
<1>3. CASE Outside
  BY <1>3 DEF Outside, CreateRun, EnqueueCheck, EnqueueThrows, Tick
<1>4. CASE \E s \in Sessions : Continues(s)
  <2>1. PICK s \in Sessions : Continues(s)
    BY <1>4
  <2>2. tx[s] \in TxRecords /\ tx \in [Sessions -> TxRecords]
    BY OpenTransaction
  <2>3. ASSUME NEW last, Commit(s, last), last.tasks = tx[s].tasks
        PROVE  CommitsTasks(s)
    BY <2>2, <2>3 DEF Commit, CommitsTasks
  <2>4. CASE HolderWritesLease(s)
    <3> DEFINE l == tx[s].lease
               rows == Put(tx[s].leases, l, HolderLease(LeasesSeen(s)[l], tx[s].to, tx[s].at))
               ends == Put(tx[s].attempts, l, HolderAttempt(AttemptsSeen(s)[l], tx[s].to))
               new == [tx[s] EXCEPT !.pc = "derive", !.leases = rows, !.attempts = ends]
    <3>1. IF tx[s].to = "heartbeat" THEN Commit(s, new) ELSE Step(s, new)
      BY <2>4 DEF HolderWritesLease
    <3> HIDE DEF rows, ends
    <3>2. new.tasks = tx[s].tasks
      BY <2>2 DEF TxRecords
    <3> HIDE DEF new
    <3> QED
      BY <2>3, <3>1, <3>2 DEF Step, vars
  <2>5. CASE Settles(s)
    <3> DEFINE r == RunOf(tx[s].task)
               rows == Put(tx[s].runs, r, tx[s].next)
               new == [tx[s] EXCEPT !.pc = "sweep", !.task = Null, !.lease = Null, !.count = 0,
                                    !.next = Null, !.runs = rows]
    <3>1. IF Sweeping(s) THEN Step(s, new) ELSE Commit(s, new)
      BY <2>5 DEF Settles
    <3> HIDE DEF rows
    <3>2. new.tasks = tx[s].tasks
      BY <2>2 DEF TxRecords
    <3> HIDE DEF new
    <3> QED
      BY <2>3, <3>1, <3>2 DEF Step, vars
  <2>6. CASE SweepEnds(s) \/ ClaimFindsNothing(s)
    BY <2>3, <2>6 DEF SweepEnds, ClaimFindsNothing
  <2>7. CASE CancelsLeases(s)
    <3> DEFINE L == {l \in Leases : /\ leases[l].status = "active" \/ attempts[l] \in HeldStatuses
                                    /\ RunOf(leases[l].task) = tx[s].run}
               rows == [l \in L |-> IF leases[l].status = "active"
                                      THEN [leases[l] EXCEPT !.status = "cancelled"] ELSE leases[l]]
               ends == [l \in L |-> IF attempts[l] \in HeldStatuses THEN "cancelled" ELSE attempts[l]]
               new == [tx[s] EXCEPT !.leases = rows, !.attempts = ends]
    <3>1. Commit(s, new)
      BY <2>7 DEF CancelsLeases
    <3> HIDE DEF rows, ends
    <3>2. new.tasks = tx[s].tasks
      BY <2>2 DEF TxRecords
    <3> QED
      BY <2>3, <3>1, <3>2
  <2>8. CASE PruneDeletes(s)
    <3> DEFINE R == {r \in tx[s].todo : runs[r] \in RunStatuses}
               L == LeasesOf(R)
               rows == [t \in UNION {TasksOf(r, tasks) : r \in R} |->
                          [AbsentTask EXCEPT !.status = "pruned"]]
               last == [tx[s] EXCEPT !.runs = [r \in R |-> "pruned"], !.tasks = rows,
                          !.leases = [l \in L |-> [AbsentLease EXCEPT !.status = "pruned"]],
                          !.attempts = [l \in L |-> "pruned"]]
    <3>1. Commit(s, last)
      BY <2>8 DEF PruneDeletes
    <3>2. tasks' = Overlay(rows, tasks)
      BY <2>2, <3>1 DEF Commit, TxRecords
    <3>3. tasks \in [Tasks -> TaskRows]
      BY OpenTransaction DEF CommittedType
    <3> QED
      BY <3>2, <3>3 DEF Overlay, PrunesTasks
  <2>9. CASE \/ WritesTask(s) \/ EnqueueInserts(s) \/ SweepWritesLease(s)
             \/ Derives(s) \/ CancelsRun(s) \/ CancelsTasks(s)
    BY <2>9, StatementsCommitNothing DEF WritesTask, EnqueueInserts, SweepWritesLease, Derives,
                                        CancelsRun, CancelsTasks
  <2>10. CASE SweepReads(s)
    BY <2>10, StatementsCommitNothing DEF SweepReads
  <2>11. CASE \E l \in Leases : ClaimPicks(s, l)
    BY <2>11, StatementsCommitNothing DEF ClaimPicks
  <2> QED
    BY <2>1, <2>4, <2>5, <2>6, <2>7, <2>8, <2>9, <2>10, <2>11 DEF Continues
<1> QED
  BY <1>1, <1>2, <1>3, <1>4 DEF PgNext

(* A task is taken out of somebody's hands only by a claim that has itself   *)
(* expired a lease of that task: FOR UPDATE SKIP LOCKED (Pickable), the test *)
(* of lease_id and the lock on the row, kept until COMMIT, allow no other.   *)
THEOREM OnlyASweepDisplacesHolds == PgSpec => OnlyASweepDisplaces
<1> DEFINE Displaced(t) == /\ tasks'[t].leaseId # tasks[t].leaseId
                           /\ tasks'[t].leaseId # Null /\ tasks[t].leaseId # Null
           BySweep(t) ==
             \E s \in Sessions :
               /\ tx[s].op = "claim" /\ tx'[s] = NoTx
               /\ \E l \in DOMAIN tx[s].leases :
                    tx[s].leases[l].task = t /\ tx[s].leases[l].status = "expired"
<1>1. ASSUME PgInv, [PgNext]_pgVars, NEW t \in Tasks, Displaced(t)
      PROVE  BySweep(t)
  <2>1. tasks \in [Tasks -> TaskRows]
    BY <1>1 DEF PgInv, CommittedType
  <2>2. [AbsentTask EXCEPT !.status = "pruned"].leaseId = Null
    BY AbsentTaskRow DEF NoRow
  <2>3. ~ PrunesTasks /\ tasks' # tasks
    BY <1>1, <2>2 DEF PrunesTasks
  <2>4. PICK s \in Sessions : CommitsTasks(s)
    BY <1>1, <2>3, CommittedTasks
  <2>5. t \in DOMAIN tx[s].tasks /\ tasks'[t] = tx[s].tasks[t]
    BY <1>1, <2>1, <2>4 DEF CommitsTasks, Overlay
  <2>6. TaskFits(tx[s], t, runs, tasks)
    BY <1>1, <2>5 DEF PgInv, Fits
  <2>7. tx[s].op = "claim" /\ Swept(tx[s], t)
    BY <1>1, <2>5, <2>6 DEF TaskFits, Handed
  <2> QED
    BY <2>4, <2>7 DEF CommitsTasks, Swept
<1>2. PgInv /\ [PgNext]_pgVars =>
        [\A t \in Tasks :
           LET old == tasks[t].leaseId
               new == tasks'[t].leaseId
           IN  new # old /\ new # Null /\ old # Null =>
                 \E s \in Sessions :
                   /\ tx[s].op = "claim" /\ tx'[s] = NoTx
                   /\ \E l \in DOMAIN tx[s].leases :
                        tx[s].leases[l].task = t /\ tx[s].leases[l].status = "expired"]_pgVars
  BY <1>1
<1> QED
  BY <1>2, PgInductive, PTL DEF PgSpec, OnlyASweepDisplaces


(***************************************************************************)
(* The attempt budget.  A claim charges the latest row of a task, and that  *)
(* row is locked from then on; whoever rewrites it later by its id keeps    *)
(* its count.                                                              *)
(***************************************************************************)

Charged(t, row) == Input[t].maxAttempts # Null => row.attemptCount =< Input[t].maxAttempts

BudgetInv ==
  /\ \A t \in Tasks : Charged(t, tasks[t])
  /\ \A s \in Sessions : \A t \in DOMAIN tx[s].tasks : Charged(t, tx[s].tasks[t])

\* A row that may follow a row of t within its budget.
Charges(t, old, row) ==
  \/ row.attemptCount \in {0, old.attemptCount}
  \/ ~ MaxAttemptsReached(t, old) /\ row.attemptCount = old.attemptCount + 1

LEMMA ChargesKeep ==
  ASSUME NEW t \in Tasks, NEW old \in TaskRows, Charged(t, old), NEW row, Charges(t, old, row)
  PROVE  Charged(t, row)
<1>1. Input[t].maxAttempts \in Nat \union {Null} /\ old.attemptCount \in Nat
  BY InputAssumption DEF InputRecords, TaskRows
<1> QED
  BY <1>1 DEF Charged, Charges, MaxAttemptsReached

LEMMA ChargedSeen ==
  ASSUME PgInv, BudgetInv, NEW s \in Sessions, NEW t \in Tasks
  PROVE  TasksSeen(s)[t] \in TaskRows /\ Charged(t, TasksSeen(s)[t])
  BY RowsSeen DEF BudgetInv

LEMMA NewRowCount ==
  ASSUME PgInv, NEW s \in Sessions, tx[s].pc = "task", NEW row \in TaskRows
  PROVE  NewRow(s, row).attemptCount \in {0, row.attemptCount}
<1> DEFINE x == tx[s]
<1>1. \A to \in TaskStatuses : WithoutLease(row, to).attemptCount = row.attemptCount
  BY WithoutLeaseRow
<1>2. CASE x.op = "holder"
  <2>1. NewRow(s, row) = HolderRow(row, x.to, x.at)
    BY <1>2 DEF NewRow
  <2>2. x.to \in LeaveTo \union {"running", "heartbeat"}
    BY <1>2, OpenTransaction DEF Control
  <2>3. CASE x.to \in {"heartbeat", "running"}
    BY <2>1, <2>3 DEF HolderRow, TaskRows
  <2>4. CASE x.to \in LeaveTo
    <3>1. x.to \in TaskStatuses /\ x.to # "heartbeat" /\ x.to # "running"
      BY <2>4 DEF LeaveTo, TaskStatuses, WaitingTaskStatuses
    <3>2. HolderRow(row, x.to, x.at) = WithoutLease(row, x.to)
      BY <3>1 DEF HolderRow
    <3> QED
      BY <1>1, <2>1, <3>1, <3>2
  <2> QED
    BY <2>2, <2>3, <2>4
<1>3. CASE x.op = "resume"
  BY <1>3 DEF NewRow, TaskRows
<1>4. CASE x.op = "requeue"
  <2>1. NewRow(s, row) = RequeuedRow(row, TRUE, NoTime)
    BY <1>4 DEF NewRow
  <2>2. RequeuedRow(row, TRUE, NoTime).attemptCount \in {0, row.attemptCount}
    BY NoTimeInt, RequeuedRowRow, Zenon
  <2> QED
    BY <2>1, <2>2
<1>5. CASE x.op \notin {"holder", "resume", "requeue"}
  <2>1. NewRow(s, row) = SweptRow(x.task, row, x.count, x.at)
    BY <1>5 DEF NewRow
  <2>2. /\ WithoutLease(row, "failed") \in TaskRows /\ WithoutLease(row, "queued") \in TaskRows
        /\ WithoutLease(row, "failed").attemptCount = row.attemptCount
        /\ WithoutLease(row, "queued").attemptCount = row.attemptCount
    BY WithoutLeaseRow DEF TaskStatuses
  <2> HIDE DEF x
  <2>3. SweptRow(x.task, row, x.count, x.at).attemptCount = row.attemptCount
    BY <2>2 DEF SweptRow, TaskRows
  <2> QED
    BY <2>1, <2>3
<1> QED
  BY <1>2, <1>3, <1>4, <1>5

\* What a step of s does to the task rows that s has written.
OwnTasks(s, new) ==
  \/ new.tasks \in {tx[s].tasks, Nothing}
  \/ \E t \in Tasks : \E row :
       new.tasks = Put(tx[s].tasks, t, row) /\ Charges(t, TasksSeen(s)[t], row)
  \/ \E T \in SUBSET Tasks : new.tasks = [t \in T |-> WithoutLease(tasks[t], "cancelled")]

LEMMA OwnTasksKeep ==
  ASSUME PgInv, BudgetInv, NEW s \in Sessions, NEW new, OwnTasks(s, new)
  PROVE  \A t \in DOMAIN new.tasks : Charged(t, new.tasks[t])
<1>1. CASE new.tasks \in {tx[s].tasks, Nothing}
  BY <1>1, NothingWritten DEF BudgetInv
<1>2. ASSUME NEW t \in Tasks, NEW row, new.tasks = Put(tx[s].tasks, t, row),
             Charges(t, TasksSeen(s)[t], row)
      PROVE  \A u \in DOMAIN new.tasks : Charged(u, new.tasks[u])
  <2>1. Charged(t, row)
    BY <1>2, ChargedSeen, ChargesKeep
  <2> QED
    BY <1>2, <2>1 DEF Put, BudgetInv
<1>3. ASSUME NEW T \in SUBSET Tasks, new.tasks = [t \in T |-> WithoutLease(tasks[t], "cancelled")]
      PROVE  \A u \in DOMAIN new.tasks : Charged(u, new.tasks[u])
  <2> SUFFICES ASSUME NEW u \in T PROVE Charged(u, WithoutLease(tasks[u], "cancelled"))
    BY <1>3
  <2>1. tasks[u] \in TaskRows /\ Charged(u, tasks[u])
    BY OpenTransaction DEF CommittedType, BudgetInv
  <2>2. WithoutLease(tasks[u], "cancelled").attemptCount = tasks[u].attemptCount
    BY <2>1, WithoutLeaseRow DEF TaskStatuses
  <2> QED
    BY <2>1, <2>2 DEF Charged
<1> QED
  BY <1>1, <1>2, <1>3 DEF OwnTasks


OwnStep(s) == \E new : OwnTasks(s, new) /\ tx' = [tx EXCEPT ![s] = new]

LEMMA OwnSteps ==
  ASSUME NEW s, NEW new
  PROVE  /\ Step(s, new) /\ OwnTasks(s, new) => OwnStep(s)
         /\ Step(s, new) /\ new.tasks = tx[s].tasks => OwnStep(s)
         /\ Step(s, new) /\ new.tasks = Nothing => OwnStep(s)
         /\ Commit(s, new) => OwnStep(s)
<1>1. NoTx.tasks = Nothing
  BY DEF NoTx
<1>2. (new.tasks = tx[s].tasks => OwnTasks(s, new)) /\ (new.tasks = Nothing => OwnTasks(s, new))
  BY DEF OwnTasks
<1>3. OwnTasks(s, NoTx)
  BY <1>1 DEF OwnTasks
<1>4. Step(s, new) => tx' = [tx EXCEPT ![s] = new]
  BY DEF Step
<1>5. Commit(s, new) => tx' = [tx EXCEPT ![s] = NoTx]
  BY DEF Commit
<1> QED
  BY <1>2, <1>3, <1>4, <1>5 DEF OwnStep

LEMMA BeginsOwn ==
  ASSUME PgInv, NEW s \in Sessions, Begins(s) \/ Abort(s)
  PROVE  OwnStep(s)
<1>1. NoTx \in TxRecords /\ NoTx.tasks = Nothing
  BY NoTxIsFresh DEF Fresh
<1>2. CASE \E t \in Tasks, l \in Leases, w \in Workers, to \in LeaveTo \union {"running", "heartbeat"} :
             HolderBegins(s, t, l, w, to)
  <2>1. PICK t \in Tasks, l \in Leases, w \in Workers, to \in LeaveTo \union {"running", "heartbeat"} :
          HolderBegins(s, t, l, w, to)
    BY <1>2
  <2> DEFINE new == [NoTx EXCEPT !.op = "holder", !.pc = "task", !.task = t, !.lease = l,
                                 !.to = to, !.at = now]
  <2>2. Step(s, new)
    BY <2>1 DEF HolderBegins, Begin
  <2>3. new.tasks = Nothing
    BY <1>1 DEF TxRecords
  <2> HIDE DEF new
  <2> QED
    BY <2>2, <2>3, OwnSteps
<1>3. CASE \E t \in Tasks : ResumeBegins(s, t) \/ RequeueBegins(s, t)
  <2>1. PICK t \in Tasks : ResumeBegins(s, t) \/ RequeueBegins(s, t)
    BY <1>3
  <2>2. PICK op \in {"resume", "requeue"} :
          Step(s, [NoTx EXCEPT !.op = op, !.pc = "task", !.task = t])
    BY <2>1 DEF ResumeBegins, RequeueBegins, Begin
  <2> DEFINE new == [NoTx EXCEPT !.op = op, !.pc = "task", !.task = t]
  <2>3. Step(s, new)
    BY <2>2
  <2>4. new.tasks = Nothing
    BY <1>1 DEF TxRecords
  <2> HIDE DEF new
  <2> QED
    BY <2>3, <2>4, OwnSteps
<1>4. CASE \E t \in Tasks : EnqueueBegins(s, t)
  <2>1. PICK t \in Tasks : EnqueueBegins(s, t)
    BY <1>4
  <2> DEFINE new == [NoTx EXCEPT !.op = "enqueue", !.pc = "insert", !.task = t, !.at = now]
  <2>2. tx' = [tx EXCEPT ![s] = new]
    BY <2>1 DEF EnqueueBegins
  <2>3. new.tasks = Nothing
    BY <1>1 DEF TxRecords
  <2> HIDE DEF new
  <2>4. OwnTasks(s, new)
    BY <2>3 DEF OwnTasks
  <2> QED
    BY <2>2, <2>4 DEF OwnStep
<1>5. ASSUME NEW op, NEW w, SweepBegins(s, op, w)
      PROVE  OwnStep(s)
  <2> DEFINE T == {t \in Tasks : /\ tasks[t].status \in HeldStatuses
                                 /\ tasks[t].leaseExpiresAt # NoTime
                                 /\ tasks[t].leaseExpiresAt < now}
             new == [NoTx EXCEPT !.op = op, !.pc = "sweep", !.worker = w, !.at = now, !.todo = T]
  <2>1. Step(s, new)
    BY <1>5 DEF SweepBegins, Begin
  <2> HIDE DEF T
  <2>2. new.tasks = Nothing
    BY <1>1 DEF TxRecords
  <2> HIDE DEF new
  <2> QED
    BY <2>1, <2>2, OwnSteps
<1>6. CASE \E r \in Runs : CancelBegins(s, r)
  <2>1. PICK r \in Runs : CancelBegins(s, r)
    BY <1>6
  <2> DEFINE new == [NoTx EXCEPT !.op = "cancel", !.pc = "cancelRun", !.run = r]
  <2>2. Step(s, new)
    BY <2>1 DEF CancelBegins, Begin
  <2>3. new.tasks = Nothing
    BY <1>1 DEF TxRecords
  <2> HIDE DEF new
  <2> QED
    BY <2>2, <2>3, OwnSteps
<1>7. CASE \E statuses \in PruneFilters : PruneBegins(s, statuses)
  <2>1. PICK statuses \in PruneFilters : PruneBegins(s, statuses)
    BY <1>7
  <2> DEFINE R == {r \in Runs : runs[r] \in statuses}
             new == [NoTx EXCEPT !.op = "prune", !.pc = "delete", !.todo = R]
  <2>2. Step(s, new)
    BY <2>1 DEF PruneBegins, Begin
  <2> HIDE DEF R
  <2>3. new.tasks = Nothing
    BY <1>1 DEF TxRecords
  <2> HIDE DEF new
  <2> QED
    BY <2>2, <2>3, OwnSteps
<1>8. CASE Abort(s)
  BY <1>1, <1>8, OwnSteps DEF Abort
<1> QED
  BY <1>2, <1>3, <1>4, <1>5, <1>6, <1>7, <1>8 DEF Begins


LEMMA ClaimPicksOwn ==
  ASSUME PgInv, NEW s \in Sessions, NEW l \in Leases, ClaimPicks(s, l)
  PROVE  OwnStep(s)
<1> DEFINE x == tx[s]
<1>1. x \in TxRecords /\ Control(x)
  BY OpenTransaction
<1> DEFINE until == x.at + LeaseMs
<1>2. PICK t \in Pickable(s) :
        /\ TasksSeen(s)[t].leaseId = Null
        /\ Step(s, [x EXCEPT
             !.pc = "derive", !.task = t, !.to = "leased",
             !.tasks = Put(@, t, ClaimedRow(TasksSeen(s)[t], l, x.worker, until)),
             !.leases = Put(@, l, [status |-> "active", task |-> t, worker |-> x.worker,
                                   expiresAt |-> until, token |-> Null]),
             !.attempts = Put(@, l, "leased")])
  BY DEF ClaimPicks
<1> DEFINE row == ClaimedRow(TasksSeen(s)[t], l, x.worker, until)
           given == [status |-> "active", task |-> t, worker |-> x.worker,
                     expiresAt |-> until, token |-> Null]
           new == [x EXCEPT !.pc = "derive", !.task = t, !.to = "leased",
                            !.tasks = Put(@, t, row), !.leases = Put(@, l, given),
                            !.attempts = Put(@, l, "leased")]
<1>3. x.op = "claim" /\ x.worker \in Workers /\ until \in Int
  BY <1>1, SessionAssumption DEF ClaimPicks, Control, TxRecords
<1>4. t \in Tasks /\ ~ MaxAttemptsReached(t, TasksSeen(s)[t])
  BY DEF Pickable, Claimable
<1>5. Charges(t, TasksSeen(s)[t], row)
  BY <1>3, <1>4, RowsSeen, ClaimedRowRow DEF Charges
<1>6. Step(s, new)
  BY <1>2
<1> HIDE DEF row, given
<1>7. new.tasks = Put(x.tasks, t, row)
  BY <1>1 DEF TxRecords
<1> HIDE DEF new
<1>8. OwnTasks(s, new)
  BY <1>4, <1>5, <1>7 DEF OwnTasks
<1> QED
  BY <1>6, <1>8, OwnSteps

LEMMA SweepReadsOwn ==
  ASSUME PgInv, NEW s \in Sessions, SweepReads(s)
  PROVE  OwnStep(s)
<1> DEFINE x == tx[s]
<1>1. x \in TxRecords /\ Control(x)
  BY OpenTransaction
<1>2. PICK t \in x.todo :
        /\ TasksSeen(s)[t].status \in TaskStatuses
        /\ Step(s, IF TasksSeen(s)[t].leaseId = Null THEN [x EXCEPT !.todo = @ \ {t}]
                   ELSE [[x EXCEPT !.todo = @ \ {t}] EXCEPT
                           !.pc = "lease", !.task = t, !.lease = TasksSeen(s)[t].leaseId,
                           !.count = TasksSeen(s)[t].attemptCount])
  BY DEF SweepReads
<1> DEFINE less == [x EXCEPT !.todo = @ \ {t}]
           more == [less EXCEPT !.pc = "lease", !.task = t, !.lease = TasksSeen(s)[t].leaseId,
                                !.count = TasksSeen(s)[t].attemptCount]
<1>3. Step(s, less) \/ Step(s, more)
  BY <1>2
<1>4. less.tasks = x.tasks /\ more.tasks = x.tasks
  BY <1>1 DEF TxRecords
<1> HIDE DEF less, more
<1> QED
  BY <1>3, <1>4, OwnSteps

LEMMA ContinuesOwn ==
  ASSUME PgInv, NEW s \in Sessions, Continues(s)
  PROVE  OwnStep(s)
<1> DEFINE x == tx[s]
<1>1. x \in TxRecords /\ Control(x)
  BY OpenTransaction
<1>2. CASE WritesTask(s)
  <2> DEFINE row == NewRow(s, TasksSeen(s)[x.task])
             pc == IF x.op = "holder" THEN "lease" ELSE "derive"
             new == [x EXCEPT !.pc = pc, !.tasks = Put(@, x.task, row)]
  <2>1. x.pc = "task" /\ Step(s, new)
    BY <1>2 DEF WritesTask, At
  <2>2. x.task \in Tasks /\ TasksSeen(s)[x.task] \in TaskRows
    BY <1>1, <2>1, RowsSeen DEF Control
  <2>3. Charges(x.task, TasksSeen(s)[x.task], row)
    BY <2>1, <2>2, NewRowCount DEF Charges
  <2> HIDE DEF row, pc
  <2>4. new.tasks = Put(x.tasks, x.task, row)
    BY <1>1 DEF TxRecords
  <2> HIDE DEF new
  <2>5. OwnTasks(s, new)
    BY <2>2, <2>3, <2>4 DEF OwnTasks
  <2> QED
    BY <2>1, <2>5, OwnSteps
<1>3. CASE EnqueueInserts(s)
  <2> DEFINE t == x.task
             row == QueuedTask(x.at)
             new == [x EXCEPT !.pc = "derive", !.tasks = Put(@, t, row)]
  <2>1. x.pc = "insert" /\ Step(s, new)
    BY <1>3 DEF EnqueueInserts, At
  <2>2. t \in Tasks /\ x.at \in Int
    BY <1>1, <2>1 DEF Control, TxRecords
  <2>3. Charges(t, TasksSeen(s)[t], row)
    BY <2>2, QueuedTaskRow DEF Charges
  <2> HIDE DEF row
  <2>4. new.tasks = Put(x.tasks, t, row)
    BY <1>1 DEF TxRecords
  <2> HIDE DEF new
  <2>5. OwnTasks(s, new)
    BY <2>2, <2>3, <2>4 DEF OwnTasks
  <2> QED
    BY <2>1, <2>5, OwnSteps
<1>4. CASE \E l \in Leases : ClaimPicks(s, l)
  BY <1>4, ClaimPicksOwn
<1>5. CASE CancelsTasks(s)
  <2> DEFINE T == {t \in TasksOf(x.run, tasks) : tasks[t].status \notin TerminalTaskStatuses}
             rows == [t \in T |-> WithoutLease(tasks[t], "cancelled")]
             new == [x EXCEPT !.pc = "cancelLeases", !.tasks = rows]
  <2>1. Step(s, new)
    BY <1>5 DEF CancelsTasks
  <2>2. T \in SUBSET Tasks
    BY DEF TasksOf
  <2> HIDE DEF T
  <2>3. new.tasks = [t \in T |-> WithoutLease(tasks[t], "cancelled")]
    BY <1>1 DEF TxRecords
  <2> HIDE DEF new
  <2>4. OwnTasks(s, new)
    BY <2>2, <2>3 DEF OwnTasks
  <2> QED
    BY <2>1, <2>4, OwnSteps
<1>6. CASE HolderWritesLease(s)
  <2> DEFINE l == x.lease
             rows == Put(x.leases, l, HolderLease(LeasesSeen(s)[l], x.to, x.at))
             ends == Put(x.attempts, l, HolderAttempt(AttemptsSeen(s)[l], x.to))
             new == [x EXCEPT !.pc = "derive", !.leases = rows, !.attempts = ends]
  <2>1. IF x.to = "heartbeat" THEN Commit(s, new) ELSE Step(s, new)
    BY <1>6 DEF HolderWritesLease
  <2> HIDE DEF rows, ends
  <2>2. new.tasks = x.tasks
    BY <1>1 DEF TxRecords
  <2> HIDE DEF new
  <2> QED
    BY <2>1, <2>2, OwnSteps
<1>7. CASE Settles(s)
  <2> DEFINE r == RunOf(x.task)
             rows == Put(x.runs, r, x.next)
             new == [x EXCEPT !.pc = "sweep", !.task = Null, !.lease = Null, !.count = 0,
                              !.next = Null, !.runs = rows]
  <2>1. IF Sweeping(s) THEN Step(s, new) ELSE Commit(s, new)
    BY <1>7 DEF Settles
  <2> HIDE DEF rows
  <2>2. new.tasks = x.tasks
    BY <1>1 DEF TxRecords
  <2> HIDE DEF new
  <2> QED
    BY <2>1, <2>2, OwnSteps
<1>8. CASE SweepReads(s)
  BY <1>8, SweepReadsOwn
<1>9. CASE SweepWritesLease(s)
  <2> DEFINE l == x.lease
             rows == Put(x.leases, l, [LeasesSeen(s)[l] EXCEPT !.status = "expired"])
             ends == Put(x.attempts, l, "expired")
             new == [x EXCEPT !.pc = "task", !.leases = rows, !.attempts = ends]
  <2>1. Step(s, new)
    BY <1>9 DEF SweepWritesLease
  <2> HIDE DEF rows, ends
  <2>2. new.tasks = x.tasks
    BY <1>1 DEF TxRecords
  <2> HIDE DEF new
  <2> QED
    BY <2>1, <2>2, OwnSteps
<1>10. CASE Derives(s)
  <2> DEFINE r == RunOf(x.task)
             d == DeriveRunStatus(RunsSeen(s)[r], StatusesIn(r, TasksSeen(s)))
             new == [x EXCEPT !.pc = "settle", !.next = d]
  <2>1. Step(s, new)
    BY <1>10 DEF Derives
  <2> HIDE DEF d
  <2>2. new.tasks = x.tasks
    BY <1>1 DEF TxRecords
  <2> HIDE DEF new
  <2> QED
    BY <2>1, <2>2, OwnSteps
<1>11. CASE CancelsRun(s)
  <2> DEFINE rows == Put(x.runs, x.run, "cancelled")
             new == [x EXCEPT !.pc = "cancelTasks", !.runs = rows]
  <2>1. Step(s, new)
    BY <1>11 DEF CancelsRun
  <2> HIDE DEF rows
  <2>2. new.tasks = x.tasks
    BY <1>1 DEF TxRecords
  <2> HIDE DEF new
  <2> QED
    BY <2>1, <2>2, OwnSteps
<1>12. CASE SweepEnds(s) \/ ClaimFindsNothing(s) \/ CancelsLeases(s) \/ PruneDeletes(s)
  BY <1>12, OwnSteps DEF SweepEnds, ClaimFindsNothing, CancelsLeases, PruneDeletes
<1> QED
  BY <1>2, <1>3, <1>4, <1>5, <1>6, <1>7, <1>8, <1>9, <1>10, <1>11, <1>12 DEF Continues

LEMMA BudgetStep ==
  ASSUME PgInv, BudgetInv, [PgNext]_pgVars
  PROVE  BudgetInv'
<1>1. \A t \in Tasks : Charged(t, tasks'[t])
  <2> SUFFICES ASSUME NEW t \in Tasks PROVE Charged(t, tasks'[t])
    OBVIOUS
  <2>1. tasks \in [Tasks -> TaskRows] /\ Charged(t, tasks[t])
    BY DEF PgInv, CommittedType, BudgetInv
  <2>2. CASE tasks' = tasks
    BY <2>1, <2>2
  <2>3. CASE \E s \in Sessions : CommitsTasks(s)
    BY <2>1, <2>3 DEF CommitsTasks, Overlay, BudgetInv
  <2>4. CASE PrunesTasks
    <3>1. [AbsentTask EXCEPT !.status = "pruned"].attemptCount = 0
      BY AbsentTaskRow DEF NoRow
    <3>2. Charges(t, tasks[t], [AbsentTask EXCEPT !.status = "pruned"])
      BY <3>1 DEF Charges
    <3>3. Charged(t, [AbsentTask EXCEPT !.status = "pruned"])
      BY <2>1, <3>2, ChargesKeep
    <3> QED
      BY <2>1, <2>4, <3>3 DEF PrunesTasks
  <2> QED
    BY <2>2, <2>3, <2>4, CommittedTasks
<1>2. \A s \in Sessions : \A t \in DOMAIN tx'[s].tasks : Charged(t, tx'[s].tasks[t])
  <2>1. CASE tx' = tx
    BY <2>1 DEF BudgetInv
  <2>2. CASE \E s \in Sessions : OwnStep(s)
    <3>1. PICK s \in Sessions : OwnStep(s)
      BY <2>2
    <3>2. PICK new : OwnTasks(s, new) /\ tx' = [tx EXCEPT ![s] = new]
      BY <3>1 DEF OwnStep
    <3>3. \A t \in DOMAIN new.tasks : Charged(t, new.tasks[t])
      BY <3>2, OwnTasksKeep
    <3>4. tx \in [Sessions -> TxRecords]
      BY DEF PgInv
    <3> QED
      BY <3>2, <3>3, <3>4 DEF BudgetInv
  <2>3. tx' = tx \/ \E s \in Sessions : OwnStep(s)
    <3>1. CASE Outside \/ UNCHANGED pgVars
      BY <3>1 DEF Outside, pgVars
    <3>2. CASE \E s \in Sessions : Begins(s) \/ Continues(s) \/ Abort(s)
      BY <3>2, BeginsOwn, ContinuesOwn
    <3> QED
      BY <3>1, <3>2 DEF PgNext
  <2> QED
    BY <2>1, <2>2, <2>3
<1> QED
  BY <1>1, <1>2 DEF BudgetInv

(* No task is attempted more often than maxAttempts allows, although a sweep *)
(* decides on a count it has read before it rewrites the row.                *)
THEOREM PgAttemptBudget == PgSpec => []AttemptBudget
<1>1. PgInit => BudgetInv
  <2> SUFFICES ASSUME PgInit PROVE BudgetInv
    OBVIOUS
  <2>1. \A s \in Sessions : DOMAIN tx[s].tasks = {}
    BY NothingWritten DEF PgInit, NoTx
  <2>2. ASSUME NEW t \in Tasks
        PROVE  Charged(t, tasks[t])
    <3>1. tasks[t].attemptCount = 0
      BY DEF PgInit, Init, AbsentTask
    <3>2. Input[t].maxAttempts \in Nat \union {Null}
      BY InputAssumption DEF InputRecords
    <3> QED
      BY <3>1, <3>2 DEF Charged
  <2> QED
    BY <2>1, <2>2 DEF BudgetInv
<1>2. PgInv /\ BudgetInv /\ [PgNext]_pgVars => BudgetInv'
  BY BudgetStep
<1>3. BudgetInv => AttemptBudget
  BY DEF BudgetInv, Charged, AttemptBudget
<1> QED
  BY <1>1, <1>2, <1>3, PgInductive, PTL DEF PgSpec

=============================================================================
