----------------------------- MODULE ServerProofs -----------------------------
(***************************************************************************)
(* Machine-checked proofs about the MCP servers, for any number of         *)
(* servers, clients and calls: how they open the database file             *)
(* (Migrations), that their tools only do what the store allows, so all    *)
(* that is proved of SqliteStore holds of their tables, and that a call    *)
(* with a clientToken takes effect at most once (OnceOnly).                *)
(***************************************************************************)
EXTENDS McpServer, TableProofs

-----------------------------------------------------------------------------
(* Opening the file.  What a process still means to apply covers what is     *)
(* missing, though its list may be out of date.                              *)

OpenerRows == [pc : {"closed", "migrating", "open", "failed"}, todo : SUBSET Versions]

MissingIsPlanned ==
  \A p \in Servers : opener[p].pc \in {"migrating", "open"} => Versions \ applied \subseteq opener[p].todo

OpenIsDone == \A p \in Servers : opener[p].pc = "open" => opener[p].todo = {}

MigrationInv ==
  /\ applied \subseteq Versions
  /\ opener \in [Servers -> OpenerRows]
  /\ MissingIsPlanned
  /\ OpenIsDone

LEMMA MigrationInvHolds == Files!MigrationSpec => []MigrationInv
<1>1. Files!MigrationInit => MigrationInv
  BY DEF Files!MigrationInit, MigrationInv, Files!Upto, Files!Closed, OpenerRows, MissingIsPlanned, OpenIsDone
<1>2. MigrationInv /\ [Files!MigrationNext]_(Files!migrationVars) => MigrationInv'
  <2> SUFFICES ASSUME MigrationInv, [Files!MigrationNext]_(Files!migrationVars) PROVE MigrationInv'
    OBVIOUS
  <2> USE DEF MigrationInv, OpenerRows, MissingIsPlanned, OpenIsDone
  <2>1. CASE UNCHANGED Files!migrationVars
    BY <2>1 DEF Files!migrationVars
  <2>2. ASSUME NEW p \in Servers, Files!ReadApplied(p) PROVE MigrationInv'
    BY <2>2 DEF Files!ReadApplied
  <2>3. ASSUME NEW p \in Servers, Files!Opened(p) PROVE MigrationInv'
    BY <2>3 DEF Files!Opened
  <2>4. ASSUME NEW p \in Servers, NEW m \in Versions, Files!Migrate(p, m) PROVE MigrationInv'
    BY <2>4 DEF Files!Migrate, Files!IsNext
  <2>5. ASSUME NEW p \in Servers, NEW m \in Versions, Files!MigrateThrows(p, m) PROVE MigrationInv'
    BY <2>5 DEF Files!MigrateThrows, Files!IsNext
  <2>6. ASSUME NEW p \in Servers, Files!Die(p) PROVE MigrationInv'
    BY <2>6 DEF Files!Die, Files!Closed
  <2> QED
    BY <2>1, <2>2, <2>3, <2>4, <2>5, <2>6 DEF Files!MigrationNext, Files!OpenStep
<1> QED
  BY <1>1, <1>2, PTL DEF Files!MigrationSpec

(* A process that has the database open (migrations.ts:177-191 returned)     *)
(* works on a schema with every migration, whoever else opens it meanwhile.  *)
THEOREM SchemaIsCurrentHolds == Files!MigrationSpec => []Files!SchemaIsCurrent
<1>1. MigrationInv => Files!SchemaIsCurrent
  BY DEF MigrationInv, MissingIsPlanned, OpenIsDone, Files!SchemaIsCurrent
<1> QED
  BY <1>1, MigrationInvHolds, PTL

(* Migrations are applied in the order of their ids: one that is applied is  *)
(* the first of those that are missing, for the list of its process, read    *)
(* once at migrations.ts:182, covers them all.                               *)
THEOREM AppliedInOrderHolds == Files!MigrationSpec => []Files!AppliedInOrder
<1>1. Files!MigrationInit => Files!AppliedInOrder
  BY DEF Files!MigrationInit, Files!AppliedInOrder
<1>2. MigrationInv /\ Files!AppliedInOrder /\ [Files!MigrationNext]_(Files!migrationVars)
        => Files!AppliedInOrder'
  <2> SUFFICES ASSUME MigrationInv, Files!AppliedInOrder, [Files!MigrationNext]_(Files!migrationVars)
               PROVE  Files!AppliedInOrder'
    OBVIOUS
  <2>1. ASSUME NEW p \in Servers, NEW m \in Versions, Files!Migrate(p, m) PROVE Files!AppliedInOrder'
    <3>1. PICK v \in {0} \union Versions : applied = Files!Upto(v)
      BY DEF Files!AppliedInOrder
    <3>2. \A o \in Versions \ applied : m <= o
      BY <2>1 DEF MigrationInv, MissingIsPlanned, Files!Migrate, Files!IsNext
    <3>3. m \notin applied /\ applied' = applied \union {m}
      BY <2>1 DEF Files!Migrate
    <3>4. applied' = Files!Upto(m)
      <4>1. ASSUME NEW x \in Versions, x <= m PROVE x \in applied'
        BY <3>2, <3>3, <4>1, ServerAssumption
      <4>2. ASSUME NEW x \in applied' PROVE x \in Versions /\ x <= m
        BY <3>1, <3>2, <3>3, <4>2, ServerAssumption DEF Files!Upto
      <4> QED
        BY <4>1, <4>2 DEF Files!Upto
    <3> QED
      BY <3>4 DEF Files!AppliedInOrder, Files!Upto
  <2>2. CASE UNCHANGED applied
    BY <2>2 DEF Files!AppliedInOrder, Files!Upto
  <2> QED
    BY <2>1, <2>2 DEF Files!MigrationNext, Files!migrationVars, Files!OpenStep,
                      Files!ReadApplied, Files!Opened, Files!MigrateThrows, Files!Die
<1> QED
  BY <1>1, <1>2, MigrationInvHolds, PTL DEF Files!MigrationSpec

(* No step of a client or of a tool touches the schema.                      *)
LEMMA ServerStepsOpenFiles ==
  [ServerNext]_<<vars, serverVars>> => [Files!MigrationNext]_(Files!migrationVars)
<1> SUFFICES ASSUME [ServerNext]_<<vars, serverVars>>
             PROVE  [Files!MigrationNext]_(Files!migrationVars)
  OBVIOUS
<1> USE DEF Files!migrationVars, fileVars
<1>1. ASSUME NEW s \in Servers, OpensFile(s) PROVE Files!MigrationNext
  BY <1>1 DEF OpensFile, Files!MigrationNext
<1>2. ASSUME NEW s \in Servers, Dies(s) PROVE Files!MigrationNext
  BY <1>2 DEF Dies, Files!MigrationNext
<1>3. ASSUME NEW w \in Workers, ClientStep(w) PROVE UNCHANGED fileVars
  BY <1>3 DEF ClientStep, SendAgain, CallClaim, CallOutcome, Send
<1>4. ASSUME NEW s \in Servers, NEW k \in Tokens, AnswersFromRecord(s, k) \/ StartsCall(s, k)
      PROVE  UNCHANGED fileVars
  BY <1>4 DEF AnswersFromRecord, StartsCall
<1>5. ASSUME NEW s \in Servers, NEW k \in Tokens, HandlesCall(s, k) PROVE UNCHANGED fileVars
  BY <1>5 DEF HandlesCall, ClaimTool, ClaimToolEmpty, OutcomeTool, ToolThrows, Finishes
<1>6. ASSUME ServesPlainTool \/ TimePasses \/ UNCHANGED <<vars, serverVars>>
      PROVE  UNCHANGED fileVars
  BY <1>6 DEF ServesPlainTool, TimePasses, serverVars
<1> QED
  BY <1>1, <1>2, <1>3, <1>4, <1>5, <1>6 DEF ServerNext, ServerStep

(* Servers, clients and the network together open the file as migrations.ts  *)
(* does: the serving of tools is a stutter of the opening of the file.       *)
THEOREM ServerOpensFiles == ServerSpec => Files!MigrationSpec
<1>1. ServerInit => Files!MigrationInit
  BY DEF ServerInit
<1> QED
  BY <1>1, ServerStepsOpenFiles, PTL DEF ServerSpec, Files!MigrationSpec

(* Every server that serves works on the newest schema, and no migration was *)
(* skipped (runMigrations, migrations.ts), however many servers open the     *)
(* file, fail or die while others serve it.                                  *)
THEOREM ServesCurrentSchemaHolds == ServerSpec => []ServesCurrentSchema
<1>1. Files!MigrationSpec => []Files!SchemaIsCurrent
  BY SchemaIsCurrentHolds
<1>2. Files!MigrationSpec => []Files!AppliedInOrder
  BY AppliedInOrderHolds
<1> QED
  BY <1>1, <1>2, ServerOpensFiles, PTL DEF ServesCurrentSchema

-----------------------------------------------------------------------------
(* The tools of any number of servers use the store as any caller does.      *)

\* The jobs of the servers are calls of clients, and none waits for longer
\* than MaxLag for the write lock.
JobsFit ==
  /\ job \in [Servers -> [token : Tokens \union {Null}, at : Int]]
  /\ \A s \in Servers : job[s] = Idle \/ (job[s].token \in Tokens /\ job[s].at \in Stamps)
  /\ \A s \in Servers : job[s].token \in Tokens => calls[job[s].token] # Null

ClientsFit ==
  /\ client \in [Workers -> [waits : Tokens \union {Null}, lease : Leases \union {Null}]]
  /\ \A w \in Workers : client[w].waits # Null => calls[client[w].waits] # Null

NetworkFits ==
  /\ network \subseteq Tokens
  /\ \A k \in network : calls[k] # Null

ServerType ==
  /\ TypeOK
  /\ calls \in [Tokens -> ToolCalls \union {Null}]
  /\ JobsFit /\ ClientsFit /\ NetworkFits

LEMMA TokenIsNotNull == ASSUME NEW k \in Tokens PROVE k # Null
  BY NullAssumption

LEMMA InitServerType == ServerInit => ServerType
<1> SUFFICES ASSUME ServerInit PROVE ServerType
  OBVIOUS
<1>1. TypeOK
  BY InitIInv DEF ServerInit, IInv
<1>2. calls \in [Tokens -> ToolCalls \union {Null}]
  BY DEF ServerInit
<1>3. JobsFit
  BY NoTimeInt, NullAssumption DEF ServerInit, JobsFit, Idle
<1>4. ClientsFit /\ NetworkFits
  BY DEF ServerInit, ClientsFit, NetworkFits
<1> QED
  BY <1>1, <1>2, <1>3, <1>4 DEF ServerType

(* Each tool is an operation of the store, with a timestamp that may lag.    *)
LEMMA ToolUsesStore ==
  ASSUME ServerType, NEW s \in Servers, NEW k \in Tokens, HandlesCall(s, k)
  PROVE  [Next]_vars
<1>1. job[s].token = k /\ job[s].at \in Stamps /\ calls[k] \in ToolCalls
  <2>1. job[s].token = k
    BY DEF HandlesCall, ClaimTool, ClaimToolEmpty, OutcomeTool, ToolThrows, Finishes
  <2>2. job[s] # Idle
    BY <2>1, TokenIsNotNull DEF Idle
  <2> QED
    BY <2>1, <2>2 DEF ServerType, JobsFit
<1>2. CASE ClaimTool(s, k)
  <2>1. PICK l \in Leases, kinds \in KindFilters, ms \in LeaseDurations :
          ClaimNextTask(calls[k].worker, l, k, kinds, ms, job[s].at)
    BY <1>2 DEF ClaimTool
  <2>2. calls[k].worker \in Workers /\ k \in OptionalTokens
    BY <1>1 DEF ToolCalls, OptionalTokens
  <2>3. Claim(calls[k].worker)
    BY <1>1, <2>1, <2>2 DEF Claim
  <2> QED
    BY <2>2, <2>3 DEF Next
<1>3. CASE ClaimToolEmpty(s, k)
  <2>1. UNCHANGED vars \/ ExpireLeases(job[s].at)
    BY <1>3 DEF ClaimToolEmpty
  <2> QED
    BY <1>1, <2>1 DEF Next, Expire
<1>4. CASE OutcomeTool(s, k)
  <2> DEFINE c == calls[k]
  <2>1. /\ c.task # Null
        /\ \/ c.tool = "complete_task" /\ CompleteTask(c.task, c.lease, c.worker, k, job[s].at)
           \/ c.tool = "fail_task" /\ FailTask(c.task, c.lease, c.worker, k, job[s].at)
    BY <1>4 DEF OutcomeTool
  <2>2. c.task \in Tasks /\ c.lease \in Leases /\ c.worker \in Workers /\ k \in OptionalTokens
    BY <1>1, <2>1 DEF ToolCalls, OptionalTokens
  <2> HIDE DEF c
  <2>3. HolderStep(c.task, c.lease, c.worker, job[s].at)
    BY <2>1, <2>2 DEF HolderStep
  <2> QED
    BY <1>1, <2>2, <2>3 DEF Next
<1>5. CASE ToolThrows(s, k)
  BY <1>5 DEF ToolThrows
<1> QED
  BY <1>2, <1>3, <1>4, <1>5 DEF HandlesCall

LEMMA PlainToolUsesStore == ServesPlainTool => Next
<1> SUFFICES ASSUME ServesPlainTool PROVE Next
  OBVIOUS
<1>1. CASE SetUpTools
  BY <1>1 DEF SetUpTools, Next
<1>2. CASE LeaseTools
  <2>1. PICK t \in Tasks, l \in Leases, w \in Workers, at \in Stamps :
          \/ \E ms \in LeaseDurations : HeartbeatLease(t, l, w, ms, at)
          \/ MarkTaskRunning(t, l, w, at)
          \/ \E to \in WaitingTaskStatuses : PauseTask(t, l, w, to, at)
    BY <1>2 DEF LeaseTools
  <2>2. HolderStep(t, l, w, at)
    BY <2>1 DEF HolderStep
  <2> QED
    BY <2>2 DEF Next
<1>3. CASE ResumeTool
  BY <1>3 DEF ResumeTool, Next, OperatorStep
<1>4. CASE GiveUpTools
  <2>1. CASE \E t \in Tasks, l \in Leases, w \in Workers, at \in Stamps : ReleaseTask(t, l, w, at)
    <3>1. \E t \in Tasks, l \in Leases, w \in Workers, at \in Stamps : HolderStep(t, l, w, at)
      BY <2>1 DEF HolderStep
    <3> QED
      BY <3>1 DEF Next
  <2> QED
    BY <1>4, <2>1 DEF GiveUpTools, Next
<1>5. CASE RequeueTool
  BY <1>5 DEF RequeueTool, Next, OperatorStep
<1>6. CASE Prune
  BY <1>6 DEF Next
<1> QED
  BY <1>1, <1>2, <1>3, <1>4, <1>5, <1>6 DEF ServesPlainTool

(* Whatever clients, servers and the network do, the tables take a step of   *)
(* the store or none.                                                        *)
LEMMA ServerUsesStore ==
  ASSUME ServerType, [ServerNext]_<<vars, serverVars>>
  PROVE  [Next]_vars
<1>1. ASSUME NEW w \in Workers, ClientStep(w) PROVE UNCHANGED vars
  BY <1>1 DEF ClientStep, SendAgain, CallClaim, CallOutcome, Send
<1>2. ASSUME NEW s \in Servers, OpensFile(s) \/ Dies(s) PROVE UNCHANGED vars
  BY <1>2 DEF OpensFile, Dies
<1>3. ASSUME NEW s \in Servers, NEW k \in Tokens, AnswersFromRecord(s, k) \/ StartsCall(s, k)
      PROVE  UNCHANGED vars
  BY <1>3 DEF AnswersFromRecord, StartsCall
<1>4. CASE TimePasses
  BY <1>4 DEF TimePasses, Next
<1>5. CASE UNCHANGED <<vars, serverVars>>
  BY <1>5
<1> QED
  BY <1>1, <1>2, <1>3, <1>4, <1>5, ToolUsesStore, PlainToolUsesStore DEF ServerNext, ServerStep

LEMMA ToolsTakeNoTime ==
  ASSUME ServesPlainTool \/ \E s \in Servers, k \in Tokens : HandlesCall(s, k)
  PROVE  now' = now
<1>1. ASSUME NEW t, NEW l, NEW w, NEW at, NEW to, NEW a, EndLease(t, l, w, at, to, a)
      PROVE  now' = now
  BY <1>1 DEF EndLease
<1>2. ASSUME NEW at, ExpireLeases(at) PROVE now' = now
  BY <1>2 DEF ExpireLeases
<1>3. ASSUME NEW s \in Servers, NEW k \in Tokens, HandlesCall(s, k) PROVE now' = now
  <2>1. CASE ClaimTool(s, k)
    BY <2>1 DEF ClaimTool, ClaimNextTask
  <2>2. CASE ClaimToolEmpty(s, k)
    BY <1>2, <2>2 DEF ClaimToolEmpty, vars
  <2>3. CASE OutcomeTool(s, k)
    BY <1>1, <2>3 DEF OutcomeTool, CompleteTask, FailTask
  <2>4. CASE ToolThrows(s, k)
    BY <2>4 DEF ToolThrows, vars
  <2> QED
    BY <1>3, <2>1, <2>2, <2>3, <2>4 DEF HandlesCall
<1>4. ASSUME ServesPlainTool PROVE now' = now
  <2>1. CASE SetUpTools
    BY <2>1 DEF SetUpTools, CreateRun, Enqueue, EnqueueCheck, EnqueueThrows, EnqueueTask
  <2>2. CASE LeaseTools
    BY <1>1, <2>2 DEF LeaseTools, HeartbeatLease, MarkTaskRunning, PauseTask
  <2>3. CASE ResumeTool
    BY <2>3 DEF ResumeTool, ResumeTask
  <2>4. CASE GiveUpTools
    BY <1>1, <1>2, <2>4 DEF GiveUpTools, ReleaseTask, CancelRun, Expire
  <2>5. CASE RequeueTool
    BY <2>5 DEF RequeueTool, RequeueDeadTask
  <2>6. CASE Prune
    BY <2>6 DEF Prune, PruneRuns
  <2> QED
    BY <1>4, <2>1, <2>2, <2>3, <2>4, <2>5, <2>6 DEF ServesPlainTool
<1> QED
  BY <1>3, <1>4

(* An answer frees the client that waits for it, or nobody.                  *)
LEMMA ReplyFits ==
  ASSUME ClientsFit, NEW k \in Tokens, NEW l \in Leases \union {Null}, Reply(k, l), calls' = calls
  PROVE  ClientsFit'
<1> DEFINE Freed(w) == IF client[w].waits = k THEN [waits |-> Null, lease |-> l] ELSE client[w]
<1>1. \A w \in Workers : client'[w] = client[w] \/ client'[w] = [waits |-> Null, lease |-> l]
  BY DEF Reply
<1>2. client' \in [Workers -> [waits : Tokens \union {Null}, lease : Leases \union {Null}]]
  BY DEF Reply, ClientsFit
<1>3. \A w \in Workers : client'[w].waits # Null => client'[w] = client[w]
  BY <1>1
<1> QED
  BY <1>2, <1>3 DEF ClientsFit

LEMMA ServerTypeStep ==
  ASSUME ServerType, [ServerNext]_<<vars, serverVars>>
  PROVE  ServerType'
<1>1. TypeOK'
  BY ServerUsesStore, TypeStep DEF ServerType
<1>2. ASSUME now' = now PROVE Stamps' = Stamps
  BY <1>2 DEF Stamps
<1>3. ASSUME UNCHANGED <<calls, network, client, job>>, now' = now PROVE ServerType'
  BY <1>1, <1>2, <1>3 DEF ServerType, JobsFit, ClientsFit, NetworkFits
<1>4. ASSUME NEW w \in Workers, NEW k \in Tokens, NEW call \in ToolCalls, Send(w, k, call)
      PROVE  ServerType'
  <2>1. /\ calls' = [calls EXCEPT ![k] = call] /\ network' = network \union {k}
        /\ client' = [client EXCEPT ![w].waits = k] /\ UNCHANGED <<now, job>>
    BY <1>4 DEF Send, vars
  <2>2. call # Null
    BY ServerAssumption
  <2>3. calls' \in [Tokens -> ToolCalls \union {Null}] /\ \A j \in Tokens : calls[j] # Null => calls'[j] # Null
    BY <2>1, <2>2 DEF ServerType
  <2>4. calls'[k] # Null
    BY <2>1, <2>2 DEF ServerType
  <2>5. JobsFit'
    BY <1>2, <2>1, <2>3 DEF ServerType, JobsFit
  <2>6. ClientsFit'
    <3>1. client' \in [Workers -> [waits : Tokens \union {Null}, lease : Leases \union {Null}]]
      BY <2>1 DEF ServerType, ClientsFit
    <3>2. ASSUME NEW v \in Workers, client'[v].waits # Null PROVE calls'[client'[v].waits] # Null
      <4>1. client[v].waits \in Tokens \union {Null}
        BY DEF ServerType, ClientsFit
      <4>2. CASE v = w
        BY <2>1, <2>4, <4>2 DEF ServerType, ClientsFit
      <4>3. CASE v # w
        BY <2>1, <2>3, <3>2, <4>1, <4>3 DEF ServerType, ClientsFit
      <4> QED
        BY <4>2, <4>3
    <3> QED
      BY <3>1, <3>2 DEF ClientsFit
  <2>7. NetworkFits'
    BY <2>1, <2>3, <2>4 DEF ServerType, NetworkFits
  <2> QED
    BY <1>1, <2>3, <2>5, <2>6, <2>7 DEF ServerType
<1>5. ASSUME NEW w \in Workers, ClientStep(w) PROVE ServerType'
  <2>1. ASSUME NEW k \in Tokens, CallClaim(w, k) PROVE ServerType'
    BY <1>4, <2>1 DEF CallClaim, ToolCalls
  <2>2. ASSUME NEW k \in Tokens, NEW tool \in {"complete_task", "fail_task"}, CallOutcome(w, k, tool)
        PROVE  ServerType'
    <3>1. client[w].lease \in Leases
      BY <2>2 DEF CallOutcome, ServerType, ClientsFit
    <3>2. leases[client[w].lease].task \in Tasks \union {Null}
      BY <3>1 DEF ServerType, TypeOK, LeaseRows
    <3>3. [tool |-> tool, worker |-> w, task |-> leases[client[w].lease].task,
           lease |-> client[w].lease] \in ToolCalls
      BY <3>1, <3>2 DEF ToolCalls
    <3> QED
      BY <1>4, <2>2, <3>3 DEF CallOutcome
  <2>3. CASE SendAgain(w)
    <3>1. /\ client[w].waits \in Tokens /\ network' = network \union {client[w].waits}
          /\ UNCHANGED <<now, calls, client, job>>
      BY <2>3 DEF SendAgain, vars
    <3>2. NetworkFits'
      BY <3>1, NullAssumption DEF ServerType, NetworkFits, ClientsFit
    <3> QED
      BY <1>1, <1>2, <3>1, <3>2 DEF ServerType, JobsFit, ClientsFit
  <2> QED
    BY <1>5, <2>1, <2>2, <2>3 DEF ClientStep
<1>6. ASSUME NEW s \in Servers, OpensFile(s) PROVE ServerType'
  BY <1>3, <1>6 DEF OpensFile, transportVars, vars
<1>7. ASSUME NEW s \in Servers, job' = [job EXCEPT ![s] = Idle], UNCHANGED <<calls, network>>,
             now' = now, ClientsFit'
      PROVE  ServerType'
  <2>1. Idle \in [token : Tokens \union {Null}, at : Int] /\ Idle.token \notin Tokens
    BY NoTimeInt, NullAssumption DEF Idle
  <2>2. \A o \in Servers : job'[o] = job[o] \/ job'[o] = Idle
    BY <1>7 DEF ServerType, JobsFit
  <2>3. JobsFit'
    <3>1. job' \in [Servers -> [token : Tokens \union {Null}, at : Int]]
      BY <1>7, <2>1 DEF ServerType, JobsFit
    <3> QED
      BY <1>2, <1>7, <2>1, <2>2, <3>1 DEF ServerType, JobsFit
  <2> QED
    BY <1>1, <1>7, <2>3 DEF ServerType, NetworkFits
<1>8. ASSUME NEW s \in Servers, Dies(s) PROVE ServerType'
  <2>1. job' = [job EXCEPT ![s] = Idle] /\ UNCHANGED <<calls, network, client, now>>
    BY <1>8 DEF Dies, transportVars, vars
  <2> QED
    BY <1>7, <2>1 DEF ServerType, ClientsFit
<1>9. ASSUME NEW s \in Servers, NEW k \in Tokens, HandlesCall(s, k) PROVE ServerType'
  <2>1. job' = [job EXCEPT ![s] = Idle] /\ UNCHANGED <<calls, network>>
    BY <1>9 DEF HandlesCall, ClaimTool, ClaimToolEmpty, OutcomeTool, ToolThrows, Finishes
  <2>2. \E l \in Leases \union {Null} : Reply(k, l)
    BY <1>9 DEF HandlesCall, ClaimTool, ClaimToolEmpty, OutcomeTool, ToolThrows, Commits, Done
  <2>3. ClientsFit'
    BY <2>1, <2>2, ReplyFits DEF ServerType
  <2> QED
    BY <1>7, <1>9, <2>1, <2>3, ToolsTakeNoTime
<1>10. ASSUME NEW s \in Servers, NEW k \in Tokens, AnswersFromRecord(s, k) PROVE ServerType'
  <2>1. /\ network' \in {network, network \ {k}} /\ UNCHANGED <<calls, job, now>>
    BY <1>10 DEF AnswersFromRecord, Arrives, vars
  <2>2. \E l \in Leases \union {Null} : Reply(k, l)
    BY <1>10 DEF AnswersFromRecord, Done, LeasesUnder
  <2>3. ClientsFit'
    BY <2>1, <2>2, ReplyFits DEF ServerType
  <2> QED
    BY <1>1, <1>2, <2>1, <2>3 DEF ServerType, JobsFit, NetworkFits
<1>11. ASSUME NEW s \in Servers, NEW k \in Tokens, StartsCall(s, k) PROVE ServerType'
  <2>1. /\ network' \in {network, network \ {k}} /\ k \in network
        /\ job' = [job EXCEPT ![s] = [token |-> k, at |-> now]]
        /\ UNCHANGED <<calls, client, now>>
    BY <1>11 DEF StartsCall, Arrives, vars
  <2>2. now \in Stamps /\ now \in Int
    BY BoundsAssumption DEF ServerType, TypeOK, Stamps
  <2>3. calls[k] # Null
    BY <2>1 DEF ServerType, NetworkFits
  <2>4. JobsFit'
    <3>1. job' \in [Servers -> [token : Tokens \union {Null}, at : Int]]
      BY <2>1, <2>2 DEF ServerType, JobsFit
    <3>2. ASSUME NEW o \in Servers
          PROVE  /\ job'[o] = Idle \/ (job'[o].token \in Tokens /\ job'[o].at \in Stamps')
                 /\ job'[o].token \in Tokens => calls'[job'[o].token] # Null
      <4>1. CASE o = s
        BY <1>2, <2>1, <2>2, <2>3, <4>1 DEF ServerType, JobsFit
      <4>2. CASE o # s
        BY <1>2, <2>1, <4>2 DEF ServerType, JobsFit
      <4> QED
        BY <4>1, <4>2
    <3> QED
      BY <3>1, <3>2 DEF JobsFit
  <2> QED
    BY <1>1, <2>1, <2>4 DEF ServerType, NetworkFits, ClientsFit
<1>12. CASE TimePasses
  <2>1. /\ now' = now + 1 /\ UNCHANGED <<calls, network, client, job>>
        /\ \A s \in Servers : job[s] = Idle \/ now < job[s].at + MaxLag
    BY <1>12 DEF TimePasses, Tick, serverVars, transportVars
  <2>2. JobsFit'
    <3>1. ASSUME NEW s \in Servers, job[s] # Idle PROVE job[s].at \in Stamps'
      <4>1. job[s].at \in Stamps /\ now < job[s].at + MaxLag
        BY <2>1, <3>1 DEF ServerType, JobsFit
      <4> QED
        BY <2>1, <4>1, BoundsAssumption DEF Stamps, ServerType, TypeOK
    <3> QED
      BY <2>1, <3>1 DEF ServerType, JobsFit
  <2> QED
    BY <1>1, <2>1, <2>2 DEF ServerType, ClientsFit, NetworkFits
<1>13. CASE ServesPlainTool
  BY <1>3, <1>13, ToolsTakeNoTime DEF ServesPlainTool, serverVars, transportVars
<1>14. CASE UNCHANGED <<vars, serverVars>>
  BY <1>3, <1>14 DEF serverVars, transportVars, vars
<1> QED
  BY <1>5, <1>6, <1>8, <1>9, <1>10, <1>11, <1>12, <1>13, <1>14 DEF ServerNext, ServerStep

LEMMA ServerTypeHolds == ServerSpec => []ServerType
  BY InitServerType, ServerTypeStep, PTL DEF ServerSpec

(* The tables behind any number of MCP servers go through a behaviour of     *)
(* SqliteStore, whatever the network does to the calls and wherever a server *)
(* dies (tools.ts calls nothing but methods of the orchestrator): what is    *)
(* proved of the store holds of them.                                        *)
THEOREM ServersUseTheStore == ServerSpec => Spec
<1>1. ServerInit => Init
  BY DEF ServerInit
<1>2. ServerType /\ [ServerNext]_<<vars, serverVars>> => [Next]_vars
  BY ServerUsesStore
<1> QED
  BY <1>1, <1>2, ServerTypeHolds, PTL DEF ServerSpec, Spec

-----------------------------------------------------------------------------
(* A call takes effect at most once, if no two servers work on copies of it  *)
(* at a time and no record of it is pruned.                                  *)

\* What has been committed for a call is what its token is on.
EffectFits(k) ==
  /\ calls[k] = Null => effects[k] = <<>> /\ LeasesUnder(k) = {} /\ completions[k] = Null
  /\ calls[k] # Null /\ calls[k].tool = "claim_next_task" =>
       \/ effects[k] = <<>> /\ LeasesUnder(k) = {}
       \/ \E l \in Leases : effects[k] = <<l>> /\ LeasesUnder(k) = {l}
  /\ calls[k] # Null /\ calls[k].tool # "claim_next_task" =>
       \/ effects[k] = <<>> /\ completions[k] = Null
       \/ effects[k] = <<Null>> /\ completions[k] # Null

\* A call that a server works on is worked on by no other and not done yet.
JobsAreNew ==
  /\ \A s \in Servers : job[s].token \in Tokens => effects[job[s].token] = <<>>
  /\ \A s, o \in Servers : job[s].token \in Tokens /\ job[o].token = job[s].token => s = o

AbsentHasNoToken == \A l \in Leases : leases[l].status = "absent" => leases[l].token = Null

OnceInv ==
  /\ effects \in [Tokens -> Seq(Leases \union {Null})]
  /\ \A k \in Tokens : EffectFits(k)
  /\ JobsAreNew
  /\ AbsentHasNoToken

\* A step that puts no token on record and inserts no lease.
TokensKept ==
  /\ \A l \in Leases : /\ leases'[l].token = leases[l].token
                       /\ leases'[l].status = "absent" => leases[l].status = "absent"
  /\ completions' = completions

LEMMA UnchangedKeepsTokens == ASSUME UNCHANGED <<leases, completions>> PROVE TokensKept
  BY DEF TokensKept

LEMMA StatusKeepsTokens ==
  ASSUME TypeOK, NEW l \in Leases, NEW s \in LeaseStatuses,
         leases' = [leases EXCEPT ![l].status = s]
  PROVE  \A m \in Leases : /\ leases'[m].token = leases[m].token
                           /\ leases'[m].status = "absent" => leases[m].status = "absent"
  BY DEF TypeOK, LeaseRows, LeaseStatuses

LEMMA SweepKeepsTokens ==
  ASSUME TypeOK, NEW at, NEW l \in Leases
  PROVE  /\ LeasesAfterExpiry(at)[l].token = leases[l].token
         /\ LeasesAfterExpiry(at)[l].status = "absent" => leases[l].status = "absent"
<1>1. leases[l] \in LeaseRows
  BY DEF TypeOK
<1>2. /\ [leases[l] EXCEPT !.status = "expired"].token = leases[l].token
      /\ [leases[l] EXCEPT !.status = "expired"].status = "expired"
  BY <1>1 DEF LeaseRows
<1> QED
  BY <1>2 DEF LeasesAfterExpiry

LEMMA ExpireKeepsTokens == ASSUME TypeOK, NEW at, ExpireLeases(at) PROVE TokensKept
  BY SweepKeepsTokens DEF ExpireLeases, TokensKept

LEMMA PlainToolKeepsTokens ==
  ASSUME TypeOK, PruneFilters = {}, ServesPlainTool
  PROVE  TokensKept
<1>1. CASE SetUpTools
  BY <1>1, UnchangedKeepsTokens
     DEF SetUpTools, CreateRun, Enqueue, EnqueueCheck, EnqueueThrows, EnqueueTask
<1>2. ASSUME NEW t \in Tasks, NEW l \in Leases, NEW w, NEW ms, NEW at, HeartbeatLease(t, l, w, ms, at)
      PROVE  TokensKept
  <2>1. leases' = [leases EXCEPT ![l].expiresAt = at + ms] /\ completions' = completions
    BY <1>2 DEF HeartbeatLease
  <2> QED
    BY <2>1 DEF TokensKept, TypeOK, LeaseRows
<1>3. ASSUME NEW t \in Tasks, NEW l \in Leases, NEW w, NEW to, NEW at,
             PauseTask(t, l, w, to, at) \/ ReleaseTask(t, l, w, at)
      PROVE  TokensKept
  <2>1. leases' = [leases EXCEPT ![l].status = "released"] /\ completions' = completions
    BY <1>3 DEF PauseTask, ReleaseTask, EndLease
  <2> QED
    BY <2>1, StatusKeepsTokens DEF TokensKept, LeaseStatuses
<1>4. CASE LeaseTools
  BY <1>2, <1>3, <1>4, UnchangedKeepsTokens DEF LeaseTools, MarkTaskRunning
<1>5. CASE ResumeTool \/ RequeueTool
  BY <1>5, UnchangedKeepsTokens DEF ResumeTool, RequeueTool, ResumeTask, RequeueDeadTask
<1>6. ASSUME NEW r \in Runs, CancelRun(r) PROVE TokensKept
  <2>1. completions' = completions
    BY <1>6 DEF CancelRun
  <2>2. ASSUME NEW l \in Leases
        PROVE  /\ leases'[l].token = leases[l].token
               /\ leases'[l].status = "absent" => leases[l].status = "absent"
    <3>1. leases[l] \in LeaseRows
      BY DEF TypeOK
    <3>2. /\ [leases[l] EXCEPT !.status = "cancelled"].token = leases[l].token
          /\ [leases[l] EXCEPT !.status = "cancelled"].status = "cancelled"
      BY <3>1 DEF LeaseRows
    <3>3. leases'[l] = leases[l] \/ leases'[l] = [leases[l] EXCEPT !.status = "cancelled"]
      BY <1>6 DEF CancelRun
    <3> QED
      BY <3>2, <3>3
  <2> QED
    BY <2>1, <2>2 DEF TokensKept
<1>7. CASE GiveUpTools
  BY <1>3, <1>6, <1>7, ExpireKeepsTokens DEF GiveUpTools, Expire
<1>8. ~ Prune
  BY DEF Prune
<1> QED
  BY <1>1, <1>4, <1>5, <1>7, <1>8 DEF ServesPlainTool

LEMMA FitsKept ==
  ASSUME NEW k \in Tokens, EffectFits(k), TokensKept, calls'[k] = calls[k], effects'[k] = effects[k]
  PROVE  EffectFits(k)'
<1>1. LeasesUnder(k)' = LeasesUnder(k)
  BY DEF LeasesUnder, TokensKept
<1>2. completions'[k] = completions[k]
  BY DEF TokensKept
<1> QED
  BY <1>1, <1>2 DEF EffectFits

(* Only what puts a token on record, and who starts on a call, matters.      *)
LEMMA OnceKept ==
  ASSUME OnceInv, TokensKept, UNCHANGED <<calls, effects>>,
         job \in [Servers -> [token : Tokens \union {Null}, at : Int]],
         job' = job \/ \E s \in Servers : job' = [job EXCEPT ![s] = Idle]
  PROVE  OnceInv'
<1>1. \A k \in Tokens : EffectFits(k)'
  BY FitsKept DEF OnceInv
<1>2. Idle.token \notin Tokens
  BY NullAssumption DEF Idle
<1>3. \A s \in Servers : job'[s] = job[s] \/ job'[s] = Idle
  OBVIOUS
<1>4. JobsAreNew'
  BY <1>2, <1>3 DEF OnceInv, JobsAreNew
<1>5. AbsentHasNoToken'
  BY DEF OnceInv, AbsentHasNoToken, TokensKept
<1> QED
  BY <1>1, <1>4, <1>5 DEF OnceInv

LEMMA InitOnceInv == ServerInit => OnceInv
<1> SUFFICES ASSUME ServerInit PROVE OnceInv
  OBVIOUS
<1>1. effects \in [Tokens -> Seq(Leases \union {Null})] /\ \A k \in Tokens : effects[k] = <<>>
  BY DEF ServerInit
<1>2. AbsentHasNoToken
  BY DEF ServerInit, Init, AbsentHasNoToken, AbsentLease
<1>3. \A k \in Tokens : LeasesUnder(k) = {}
  BY NullAssumption DEF ServerInit, Init, LeasesUnder, AbsentLease
<1>4. \A k \in Tokens : EffectFits(k)
  BY <1>1, <1>3 DEF ServerInit, Init, EffectFits
<1>5. JobsAreNew
  BY NullAssumption DEF ServerInit, JobsAreNew, Idle
<1> QED
  BY <1>1, <1>2, <1>4, <1>5 DEF OnceInv

(* A commit for call k files its result where a copy of k will find it.      *)
\* What a handler of call k does when it commits result l.
CommitsOnce(k, l) ==
  /\ effects[k] = <<>>
  /\ effects' = [effects EXCEPT ![k] = <<l>>]
  /\ replies' = replies \union {<<k, l>>}
  /\ EffectFits(k)'
  /\ \A j \in Tokens \ {k} : LeasesUnder(j)' = LeasesUnder(j) /\ completions'[j] = completions[j]
  /\ AbsentHasNoToken'

LEMMA JobFacts ==
  ASSUME ServerType, OnceInv, NEW s \in Servers, NEW k \in Tokens, job[s].token = k
  PROVE  /\ effects[k] = <<>> /\ calls[k] # Null /\ calls[k] \in ToolCalls
         /\ LeasesUnder(k) = {} \/ calls[k].tool # "claim_next_task"
         /\ \A l : [effects EXCEPT ![k] = Append(@, l)] = [effects EXCEPT ![k] = <<l>>]
<1>1. effects[k] = <<>> /\ calls[k] # Null /\ calls[k] \in ToolCalls
  BY DEF OnceInv, JobsAreNew, ServerType, JobsFit
<1>2. \A l : <<>> # <<l>> /\ Append(<<>>, l) = <<l>>
  OBVIOUS
<1>3. LeasesUnder(k) = {} \/ calls[k].tool # "claim_next_task"
  BY <1>1, <1>2 DEF OnceInv, EffectFits
<1> QED
  BY <1>1, <1>2, <1>3

LEMMA ClaimToolCommits ==
  ASSUME ServerType, OnceInv, NEW s \in Servers, NEW k \in Tokens, ClaimTool(s, k)
  PROVE  \E l \in Leases : CommitsOnce(k, l)
<1>1. job[s].token = k /\ calls[k].tool = "claim_next_task" /\ calls' = calls
  BY DEF ClaimTool, Finishes
<1>2. PICK l \in Leases, kinds \in KindFilters, ms \in LeaseDurations :
        ClaimNextTask(calls[k].worker, l, k, kinds, ms, job[s].at) /\ Commits(k, l)
  BY DEF ClaimTool
<1> DEFINE at == job[s].at
           w == calls[k].worker
<1>3. PICK t \in Tasks : Takes(t, w, l, k, kinds, ms, at)
  BY <1>2, StoreWrites
<1>4. /\ leases[l].status = "absent"
      /\ leases' = [LeasesAfterExpiry(at) EXCEPT
                      ![l] = [status |-> "active", task |-> t, worker |-> w,
                              expiresAt |-> at + ms, token |-> k]]
  BY <1>3 DEF Takes
<1>5. completions' = completions
  BY <1>2 DEF ClaimNextTask
<1>6. /\ leases'[l].token = k /\ leases'[l].status = "active"
      /\ \A m \in Leases : m # l => leases'[m] = LeasesAfterExpiry(at)[m]
  BY <1>4 DEF LeasesAfterExpiry
<1>7. leases[l].token = Null
  BY <1>4 DEF OnceInv, AbsentHasNoToken
<1>8. \A j \in Tokens : LeasesUnder(j)' = IF j = k THEN LeasesUnder(j) \union {l} ELSE LeasesUnder(j)
  <2>1. TypeOK
    BY DEF ServerType
  <2>2. \A m \in Leases : m # l => leases'[m].token = leases[m].token
    BY <1>6, <2>1, SweepKeepsTokens
  <2> QED
    BY <1>6, <1>7, <2>2, NullAssumption DEF LeasesUnder
<1>9. effects[k] = <<>> /\ calls[k] # Null /\ LeasesUnder(k) = {} /\ effects' = [effects EXCEPT ![k] = <<l>>]
  BY <1>1, <1>2, JobFacts DEF Commits
<1>10. EffectFits(k)'
  <2>1. effects'[k] = <<l>>
    BY <1>9 DEF OnceInv
  <2>2. LeasesUnder(k)' = {l}
    BY <1>8, <1>9
  <2> QED
    BY <1>1, <1>9, <2>1, <2>2 DEF EffectFits
<1>11. AbsentHasNoToken'
  <2>1. TypeOK
    BY DEF ServerType
  <2>2. \A m \in Leases : m # l /\ leases'[m].status = "absent" => leases'[m].token = Null
    BY <1>6, <2>1, SweepKeepsTokens DEF OnceInv, AbsentHasNoToken
  <2> QED
    BY <1>6, <2>2 DEF AbsentHasNoToken
<1> QED
  BY <1>2, <1>5, <1>8, <1>9, <1>10, <1>11 DEF CommitsOnce, Commits, Done

LEMMA OutcomeToolCommits ==
  ASSUME ServerType, OnceInv, NEW s \in Servers, NEW k \in Tokens, OutcomeTool(s, k)
  PROVE  CommitsOnce(k, Null)
<1> DEFINE c == calls[k]
           at == job[s].at
<1>1. /\ job[s].token = k /\ calls' = calls /\ c.task # Null /\ Commits(k, Null)
      /\ \/ c.tool = "complete_task" /\ CompleteTask(c.task, c.lease, c.worker, k, at)
         \/ c.tool = "fail_task" /\ FailTask(c.task, c.lease, c.worker, k, at)
  BY DEF OutcomeTool, Finishes
<1>2. /\ effects[k] = <<>> /\ c # Null /\ c \in ToolCalls
      /\ effects' = [effects EXCEPT ![k] = <<Null>>]
  BY <1>1, JobFacts DEF Commits
<1>3. c.task \in Tasks /\ c.lease \in Leases /\ c.tool # "claim_next_task"
  BY <1>1, <1>2 DEF ToolCalls
<1> HIDE DEF c
<1>4. leases' = [leases EXCEPT ![c.lease].status = "released"]
  BY <1>1 DEF CompleteTask, FailTask, EndLease
<1>5. \E outcome \in {"completed", "failed"} :
        completions' = [completions EXCEPT ![k] = [task |-> c.task, outcome |-> outcome]]
  BY <1>1, TokenIsNotNull DEF CompleteTask, FailTask, RecordCompletion
<1>6. /\ completions'[k] # Null
      /\ \A j \in Tokens \ {k} : completions'[j] = completions[j]
  <2>1. completions \in [Tokens -> [task : Tasks, outcome : {"completed", "failed"}] \union {Null}]
    BY DEF ServerType, TypeOK
  <2> QED
    BY <1>3, <1>5, <2>1, ServerAssumption
<1>7. \A l \in Leases : /\ leases'[l].token = leases[l].token
                        /\ leases'[l].status = "absent" => leases[l].status = "absent"
  BY <1>3, <1>4, StatusKeepsTokens DEF ServerType, LeaseStatuses
<1>8. \A j \in Tokens : LeasesUnder(j)' = LeasesUnder(j)
  BY <1>7 DEF LeasesUnder
<1>9. EffectFits(k)'
  <2>1. effects'[k] = <<Null>>
    BY <1>2 DEF OnceInv
  <2>2. calls'[k] = c
    BY <1>1 DEF c
  <2> QED
    BY <1>2, <1>3, <1>6, <2>1, <2>2 DEF EffectFits
<1>10. AbsentHasNoToken'
  BY <1>7 DEF OnceInv, AbsentHasNoToken
<1> QED
  BY <1>1, <1>2, <1>6, <1>8, <1>9, <1>10 DEF CommitsOnce, Commits, Done

(* A commit keeps the invariant: nobody else works on the call.              *)
LEMMA CommitKeepsOnce ==
  ASSUME ServerType, OnceInv, NEW s \in Servers, NEW k \in Tokens, NEW l \in Leases \union {Null},
         Finishes(s, k), CommitsOnce(k, l)
  PROVE  OnceInv'
<1>1. /\ job[s].token = k /\ job' = [job EXCEPT ![s] = Idle] /\ calls' = calls
      /\ effects' = [effects EXCEPT ![k] = <<l>>]
  BY DEF Finishes, CommitsOnce
<1>2. effects' \in [Tokens -> Seq(Leases \union {Null})]
  <2>1. <<l>> \in Seq(Leases \union {Null})
    OBVIOUS
  <2> QED
    BY <1>1, <2>1 DEF OnceInv
<1>3. \A j \in Tokens : EffectFits(j)'
  <2>1. ASSUME NEW j \in Tokens, j # k PROVE EffectFits(j)'
    <3>1. effects'[j] = effects[j] /\ calls'[j] = calls[j]
      BY <1>1, <2>1 DEF OnceInv
    <3>2. LeasesUnder(j)' = LeasesUnder(j) /\ completions'[j] = completions[j]
      BY <2>1 DEF CommitsOnce
    <3> QED
      BY <3>1, <3>2 DEF OnceInv, EffectFits
  <2> QED
    BY <2>1 DEF CommitsOnce
<1>4. JobsAreNew'
  <2>1. job'[s] = Idle /\ \A o \in Servers : o # s => job'[o] = job[o] /\ job'[o].token # k
    BY <1>1 DEF ServerType, JobsFit, OnceInv, JobsAreNew
  <2>2. Idle.token \notin Tokens
    BY NullAssumption DEF Idle
  <2>3. \A j \in Tokens : j # k => effects'[j] = effects[j]
    BY <1>1 DEF OnceInv
  <2> QED
    BY <2>1, <2>2, <2>3 DEF OnceInv, JobsAreNew
<1> QED
  BY <1>2, <1>3, <1>4 DEF OnceInv, CommitsOnce

LEMMA OnceInvStep ==
  ASSUME OneServerPerCall, PruneFilters = {}, ServerType, OnceInv,
         [ServerNext]_<<vars, serverVars>>
  PROVE  OnceInv'
<1>1. TypeOK /\ job \in [Servers -> [token : Tokens \union {Null}, at : Int]]
  BY DEF ServerType, JobsFit
<1>2. ASSUME UNCHANGED vars PROVE TokensKept
  BY <1>2, UnchangedKeepsTokens DEF vars
<1>3. ASSUME NEW w \in Workers, NEW k \in Tokens, NEW call, Send(w, k, call) PROVE OnceInv'
  <2>1. /\ calls[k] = Null /\ calls' = [calls EXCEPT ![k] = call]
        /\ UNCHANGED <<leases, completions, job, effects>>
    BY <1>3 DEF Send, vars
  <2>2. TokensKept
    BY <2>1, UnchangedKeepsTokens
  <2>3. \A j \in Tokens : EffectFits(j)'
    <3>1. ASSUME NEW j \in Tokens, j # k PROVE EffectFits(j)'
      <4>1. calls'[j] = calls[j]
        BY <2>1, <3>1 DEF ServerType
      <4> QED
        BY <2>1, <2>2, <4>1, FitsKept DEF OnceInv
    <3>2. effects[k] = <<>> /\ LeasesUnder(k) = {} /\ completions[k] = Null
      BY <2>1 DEF OnceInv, EffectFits
    <3>3. effects'[k] = <<>> /\ LeasesUnder(k)' = {} /\ completions'[k] = Null
      BY <2>1, <3>2 DEF LeasesUnder
    <3>4. EffectFits(k)'
      BY <3>3 DEF EffectFits
    <3> QED
      BY <3>1, <3>4
  <2> QED
    BY <2>1, <2>3 DEF OnceInv, JobsAreNew, AbsentHasNoToken
<1>4. ASSUME NEW w \in Workers, ClientStep(w) PROVE OnceInv'
  <2>1. CASE SendAgain(w)
    BY <1>1, <1>2, <2>1, OnceKept DEF SendAgain
  <2> QED
    BY <1>3, <1>4, <2>1 DEF ClientStep, CallClaim, CallOutcome
<1>5. ASSUME NEW s \in Servers, OpensFile(s) \/ Dies(s) PROVE OnceInv'
  BY <1>1, <1>2, <1>5, OnceKept DEF OpensFile, Dies, transportVars
<1>6. ASSUME NEW s \in Servers, NEW k \in Tokens, AnswersFromRecord(s, k) PROVE OnceInv'
  BY <1>1, <1>2, <1>6, OnceKept DEF AnswersFromRecord
<1>7. ASSUME NEW s \in Servers, NEW k \in Tokens, StartsCall(s, k) PROVE OnceInv'
  <2>1. /\ k \in network /\ ~ Recorded(k) /\ \A o \in Servers : job[o].token # k
        /\ job' = [job EXCEPT ![s] = [token |-> k, at |-> now]]
        /\ UNCHANGED <<calls, effects>> /\ UNCHANGED vars
    BY <1>7 DEF StartsCall, Arrives
  <2>2. calls[k] # Null
    BY <2>1 DEF ServerType, NetworkFits
  <2>3. effects[k] = <<>>
    BY <2>1, <2>2 DEF OnceInv, EffectFits, Recorded
  <2>4. job'[s].token = k /\ \A o \in Servers : o # s => job'[o] = job[o]
    BY <1>1, <2>1
  <2>5. JobsAreNew'
    BY <2>1, <2>3, <2>4 DEF OnceInv, JobsAreNew
  <2>6. TokensKept
    BY <1>2, <2>1
  <2>7. \A j \in Tokens : EffectFits(j)'
    BY <2>1, <2>6, FitsKept DEF OnceInv
  <2>8. AbsentHasNoToken'
    BY <2>6 DEF OnceInv, AbsentHasNoToken, TokensKept
  <2> QED
    BY <2>1, <2>5, <2>7, <2>8 DEF OnceInv
<1>8. ASSUME NEW s \in Servers, NEW k \in Tokens, HandlesCall(s, k) PROVE OnceInv'
  <2>1. CASE ClaimTool(s, k)
    BY <2>1, ClaimToolCommits, CommitKeepsOnce DEF ClaimTool
  <2>2. CASE OutcomeTool(s, k)
    BY <2>2, OutcomeToolCommits, CommitKeepsOnce DEF OutcomeTool
  <2>3. CASE ClaimToolEmpty(s, k)
    <3>1. TokensKept
      BY <1>1, <1>2, <2>3, ExpireKeepsTokens DEF ClaimToolEmpty
    <3> QED
      BY <1>1, <2>3, <3>1, OnceKept DEF ClaimToolEmpty, Finishes
  <2>4. CASE ToolThrows(s, k)
    BY <1>1, <1>2, <2>4, OnceKept DEF ToolThrows, Finishes
  <2> QED
    BY <1>8, <2>1, <2>2, <2>3, <2>4 DEF HandlesCall
<1>9. CASE ServesPlainTool
  BY <1>1, <1>9, PlainToolKeepsTokens, OnceKept DEF ServesPlainTool, serverVars, transportVars
<1>10. CASE TimePasses
  <2>1. UNCHANGED <<leases, completions>>
    BY <1>10 DEF TimePasses, Tick
  <2> QED
    BY <1>1, <1>10, <2>1, UnchangedKeepsTokens, OnceKept DEF TimePasses, serverVars, transportVars
<1>11. CASE UNCHANGED <<vars, serverVars>>
  BY <1>1, <1>2, <1>11, OnceKept DEF serverVars, transportVars
<1> QED
  BY <1>4, <1>5, <1>6, <1>7, <1>8, <1>9, <1>10, <1>11 DEF ServerNext, ServerStep

-----------------------------------------------------------------------------
(* The steps of OnceOnly.                                                    *)

LEMMA OutcomeBar ==
  ASSUME NEW k \in Tokens
  PROVE  /\ effects[k] = <<>> => outcomeBar[k] = "open"
         /\ \A l : effects[k] = <<l>> => outcomeBar[k] = l
<1>1. ASSUME effects[k] = <<>> PROVE outcomeBar[k] = "open"
  BY <1>1 DEF outcomeBar
<1>2. ASSUME NEW l, effects[k] = <<l>> PROVE outcomeBar[k] = l
  <2>1. Len(<<l>>) = 1 /\ <<l>>[1] = l /\ <<l>> # <<>>
    OBVIOUS
  <2> QED
    BY <1>2, <2>1 DEF outcomeBar
<1> QED
  BY <1>1, <1>2

LEMMA CommitActs ==
  ASSUME OnceInv, NEW k \in Tokens, NEW l \in Leases \union {Null}, CommitsOnce(k, l)
  PROVE  Once!Act(k, l)
<1>1. effects[k] = <<>> /\ effects' = [effects EXCEPT ![k] = <<l>>]
  BY DEF CommitsOnce
<1>2. effects'[k] = <<l>> /\ \A j \in Tokens : j # k => effects'[j] = effects[j]
  BY <1>1 DEF OnceInv
<1>3. outcomeBar[k] = "open"
  BY <1>1, OutcomeBar
<1>4. outcomeBar'[k] = l
  <2>1. Len(<<l>>) = 1 /\ <<l>>[1] = l /\ <<l>> # <<>>
    OBVIOUS
  <2> QED
    BY <1>2, <2>1 DEF outcomeBar
<1>5. \A j \in Tokens : j # k => outcomeBar'[j] = outcomeBar[j]
  BY <1>2 DEF outcomeBar
<1>6. outcomeBar' = [outcomeBar EXCEPT ![k] = l]
  <2>1. /\ outcomeBar = [j \in Tokens |-> outcomeBar[j]]
        /\ outcomeBar' = [j \in Tokens |-> outcomeBar'[j]]
    BY DEF outcomeBar
  <2> QED
    BY <1>4, <1>5, <2>1
<1> QED
  BY <1>3, <1>6 DEF Once!Act, CommitsOnce

LEMMA OnceStep ==
  ASSUME OneServerPerCall, PruneFilters = {}, ServerType, OnceInv,
         [ServerNext]_<<vars, serverVars>>
  PROVE  [Once!OnceNext]_(Once!onceVars)
<1>1. ASSUME UNCHANGED <<effects, replies>> PROVE UNCHANGED Once!onceVars
  BY <1>1 DEF Once!onceVars, outcomeBar
<1>2. ASSUME UNCHANGED effects PROVE outcomeBar' = outcomeBar
  BY <1>2 DEF outcomeBar
<1>3. ASSUME NEW w \in Workers, ClientStep(w) PROVE UNCHANGED <<effects, replies>>
  BY <1>3 DEF ClientStep, SendAgain, CallClaim, CallOutcome, Send
<1>4. ASSUME NEW s \in Servers, OpensFile(s) \/ Dies(s) PROVE UNCHANGED <<effects, replies>>
  BY <1>4 DEF OpensFile, Dies, transportVars
<1>5. ASSUME NEW s \in Servers, NEW k \in Tokens, StartsCall(s, k) PROVE UNCHANGED <<effects, replies>>
  BY <1>5 DEF StartsCall
<1>6. ASSUME NEW s \in Servers, NEW k \in Tokens, AnswersFromRecord(s, k) PROVE Once!Repeat(k)
  <2>1. Recorded(k) /\ k \in network /\ UNCHANGED effects
    BY <1>6 DEF AnswersFromRecord, Arrives
  <2>2. calls[k] # Null
    BY <2>1 DEF ServerType, NetworkFits
  <2>3. CASE calls[k].tool = "claim_next_task"
    <3>1. PICK l \in LeasesUnder(k) : replies' = replies \union {<<k, l>>}
      BY <1>6, <2>3 DEF AnswersFromRecord, Done
    <3>2. effects[k] = <<l>> /\ l \in Leases
      BY <2>2, <2>3, <3>1 DEF OnceInv, EffectFits
    <3>3. outcomeBar[k] = l
      BY <3>2, OutcomeBar
    <3> QED
      BY <1>2, <2>1, <3>1, <3>2, <3>3 DEF Once!Repeat
  <2>4. CASE calls[k].tool # "claim_next_task"
    <3>1. replies' = replies \union {<<k, Null>>}
      BY <1>6, <2>4 DEF AnswersFromRecord, Done
    <3>2. effects[k] = <<Null>>
      BY <2>1, <2>2, <2>4 DEF OnceInv, EffectFits, Recorded
    <3>3. outcomeBar[k] = Null
      BY <3>2, OutcomeBar
    <3> QED
      BY <1>2, <2>1, <3>1, <3>3 DEF Once!Repeat
  <2> QED
    BY <2>3, <2>4
<1>7. ASSUME NEW s \in Servers, NEW k \in Tokens, HandlesCall(s, k)
      PROVE  [Once!OnceNext]_(Once!onceVars)
  <2>1. CASE ClaimTool(s, k)
    <3>1. \E l \in Leases : Once!Act(k, l)
      BY <2>1, ClaimToolCommits, CommitActs
    <3> QED
      BY <3>1 DEF Once!OnceNext
  <2>2. CASE OutcomeTool(s, k)
    <3>1. Once!Act(k, Null)
      BY <2>2, OutcomeToolCommits, CommitActs
    <3> QED
      BY <3>1 DEF Once!OnceNext
  <2>3. CASE ClaimToolEmpty(s, k)
    BY <1>1, <2>3 DEF ClaimToolEmpty
  <2>4. CASE ToolThrows(s, k)
    <3>1. job[s].token = k /\ replies' = replies \union {<<k, "refused">>} /\ UNCHANGED effects
      BY <2>4 DEF ToolThrows, Finishes
    <3>2. outcomeBar[k] = "open"
      BY <3>1, JobFacts, OutcomeBar
    <3>3. Once!Refuse(k)
      BY <1>2, <3>1, <3>2 DEF Once!Refuse
    <3> QED
      BY <3>3 DEF Once!OnceNext
  <2> QED
    BY <1>7, <2>1, <2>2, <2>3, <2>4 DEF HandlesCall
<1>8. ASSUME ServesPlainTool \/ TimePasses \/ UNCHANGED <<vars, serverVars>>
      PROVE  UNCHANGED <<effects, replies>>
  BY <1>8 DEF ServesPlainTool, TimePasses, serverVars, transportVars
<1>9. ASSUME NEW k \in Tokens, Once!Repeat(k) PROVE Once!OnceNext
  BY <1>9 DEF Once!OnceNext
<1> QED
  BY <1>1, <1>3, <1>4, <1>5, <1>6, <1>7, <1>8, <1>9 DEF ServerNext, ServerStep

(* A call with a clientToken takes effect at most once, and each copy of it  *)
(* that arrives afterwards is told its result (lookupCompletion and          *)
(* rehydrateLease answer before the transaction), for any number of servers, *)
(* clients and copies - provided that no two servers work on copies of one   *)
(* call at a time, and that no record is pruned; runs show that it fails     *)
(* without either.                                                           *)
THEOREM ImplementsOnceHolds ==
  OneServerPerCall /\ PruneFilters = {} => (ServerSpec => ImplementsOnce)
<1> SUFFICES ASSUME OneServerPerCall, PruneFilters = {} PROVE ServerSpec => ImplementsOnce
  OBVIOUS
<1>1. ServerInit => OnceInv /\ Once!OnceInit
  <2> SUFFICES ASSUME ServerInit PROVE Once!OnceInit
    BY InitOnceInv
  <2>1. \A k \in Tokens : effects[k] = <<>>
    BY DEF ServerInit
  <2>2. outcomeBar = [k \in Tokens |-> "open"]
    BY <2>1 DEF outcomeBar
  <2> QED
    BY <2>2 DEF Once!OnceInit, ServerInit
<1>2. ServerType /\ OnceInv /\ [ServerNext]_<<vars, serverVars>> => OnceInv'
  BY OnceInvStep
<1>3. ServerType /\ OnceInv /\ [ServerNext]_<<vars, serverVars>>
        => [Once!OnceNext]_(Once!onceVars)
  BY OnceStep
<1> QED
  BY <1>1, <1>2, <1>3, ServerTypeHolds, PTL DEF ServerSpec, ImplementsOnce, Once!OnceSpec
=============================================================================
