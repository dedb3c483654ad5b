------------------------------- MODULE McpServer -------------------------------
(***************************************************************************)
(* The MCP server (src/server/src): processes that open the database file  *)
(* and serve the orchestrator's methods as tools, to clients that may      *)
(* repeat a call whose answer they miss.                                   *)
(*                                                                         *)
(* A tool handler does not await anything, so a server is busy with one    *)
(* call at a time.  claim_next_task, complete_task and fail_task with a    *)
(* clientToken come in two steps, because the store looks the token up     *)
(* before it opens the transaction and other processes may come between.   *)
(* The network may lose or duplicate a call and lose its answer; an answer *)
(* that comes late is like a call that is handled late.  Servers die       *)
(* between any two steps and are started again.                            *)
(*                                                                         *)
(* A call is named by its clientToken, which a client draws for the call   *)
(* and keeps for its repetitions (failure-modes.md:33-34).  The clients    *)
(* are the store's workers.  Abstracted: JSON, HTTP status codes, the      *)
(* bearer token, the tools that only read, append_context_snapshot, and    *)
(* the `now' that expire_leases accepts from its caller.                   *)
(***************************************************************************)
EXTENDS SqliteStore, Sequences

CONSTANTS
  Servers,
  Versions,
  OneServerPerCall  \* whether no two servers work on copies of a call at a time

\* What a client calls with a clientToken.
ToolCalls ==
  [tool : {"claim_next_task"}, worker : Workers, task : {Null}, lease : {Null}]
    \union [tool : {"complete_task", "fail_task"}, worker : Workers,
            task : Tasks \union {Null}, lease : Leases]

\* NULL is no call and no row.
ASSUME ServerAssumption ==
  /\ OneServerPerCall \in BOOLEAN
  /\ Versions \subseteq Nat
  /\ Null \notin ToolCalls \union [task : Tasks, outcome : {"completed", "failed"}]

VARIABLES
  applied, opener,  \* of Migrations
  calls,    \* token -> the call it was drawn for, or Null
  network,  \* the tokens of calls that are on their way to a server
  client,   \* worker -> the call it waits for and the lease it was granted
  job,      \* server -> the call it works on and the timestamp it took
  replies,  \* <<token, result or "refused">>: answers given, lost ones included
  effects   \* history: token -> the results of the transactions committed for it

Files == INSTANCE Migrations WITH Processes <- Servers

fileVars == <<applied, opener>>
transportVars == <<calls, network, client, replies, effects>>
serverVars == <<fileVars, transportVars, job>>

Idle == [token |-> Null, at |-> NoTime]

ServerInit ==
  /\ Init
  /\ Files!MigrationInit
  /\ calls = [k \in Tokens |-> Null]
  /\ network = {}
  /\ client = [w \in Workers |-> [waits |-> Null, lease |-> Null]]
  /\ job = [s \in Servers |-> Idle]
  /\ replies = {}
  /\ effects = [k \in Tokens |-> <<>>]

-----------------------------------------------------------------------------
(* Clients.                                                                  *)

Send(w, k, call) ==
  /\ client[w].waits = Null
  /\ calls[k] = Null
  /\ calls' = [calls EXCEPT ![k] = call]
  /\ network' = network \union {k}
  /\ client' = [client EXCEPT ![w].waits = k]
  /\ UNCHANGED <<vars, fileVars, job, replies, effects>>

CallClaim(w, k) ==
  /\ client[w].lease = Null
  /\ Send(w, k, [tool |-> "claim_next_task", worker |-> w, task |-> Null, lease |-> Null])

\* The task is Null if it has been pruned: it names no row any more.
CallOutcome(w, k, tool) ==
  /\ client[w].lease # Null
  /\ Send(w, k, [tool |-> tool, worker |-> w, task |-> leases[client[w].lease].task,
                 lease |-> client[w].lease])

\* The client has waited long enough, or is a new process with the old token.
SendAgain(w) ==
  /\ client[w].waits \in Tokens \ network
  /\ network' = network \union {client[w].waits}
  /\ UNCHANGED <<vars, fileVars, calls, client, job, replies, effects>>

\* The answer reaches the client of call k, which then holds lease l; or is lost.
Reply(k, l) ==
  client' \in {client, [w \in Workers |-> IF client[w].waits = k THEN [waits |-> Null, lease |-> l]
                                                              ELSE client[w]]}

-----------------------------------------------------------------------------
(* Servers.                                                                  *)

Serving(s) == opener[s].pc = "open" /\ job[s] = Idle

OpensFile(s) == Files!OpenStep(s) /\ UNCHANGED <<vars, transportVars, job>>

Dies(s) ==
  /\ Files!Die(s)
  /\ job' = [job EXCEPT ![s] = Idle]
  /\ UNCHANGED <<vars, transportVars>>

\* Leaves behind the copies of k that the network makes.
Arrives(s, k) ==
  /\ Serving(s)
  /\ k \in network
  /\ OneServerPerCall => \A o \in Servers : job[o].token # k
  /\ network' \in {network, network \ {k}}

LeasesUnder(k) == {l \in Leases : leases[l].token = k}

\* Mutant of Recorded: a repeated outcome is not looked up.
Recorded_ClaimsOnly(k) == calls[k].tool = "claim_next_task" /\ LeasesUnder(k) # {}

\* The row that the lookup before the transaction finds for a call.
Recorded(k) ==
  IF calls[k].tool = "claim_next_task" THEN LeasesUnder(k) # {} ELSE completions[k] # Null

\* The result of a claim is its lease; of an outcome, that it is on record.
Done(k, l) ==
  /\ replies' = replies \union {<<k, l>>}
  /\ Reply(k, l)

\* rehydrateLease or lookupCompletion answers from the tables.
AnswersFromRecord(s, k) ==
  /\ Arrives(s, k)
  /\ Recorded(k)
  /\ IF calls[k].tool = "claim_next_task"
       THEN \E l \in LeasesUnder(k) : Done(k, l)
       ELSE Done(k, Null)
  /\ UNCHANGED <<vars, fileVars, calls, job, effects>>

\* The lookup finds nothing; the transaction waits for the write lock.
StartsCall(s, k) ==
  /\ Arrives(s, k)
  /\ ~ Recorded(k)
  /\ job' = [job EXCEPT ![s] = [token |-> k, at |-> now]]
  /\ UNCHANGED <<vars, fileVars, calls, client, replies, effects>>

Finishes(s, k) ==
  /\ job[s].token = k
  /\ job' = [job EXCEPT ![s] = Idle]
  /\ UNCHANGED <<fileVars, calls, network>>

Commits(k, l) ==
  /\ effects' = [effects EXCEPT ![k] = Append(@, l)]
  /\ Done(k, l)

ClaimTool(s, k) ==
  /\ Finishes(s, k)
  /\ calls[k].tool = "claim_next_task"
  /\ \E l \in Leases, kinds \in KindFilters, ms \in LeaseDurations :
       ClaimNextTask(calls[k].worker, l, k, kinds, ms, job[s].at) /\ Commits(k, l)

NothingToClaim(kinds, at) ==
  LET T == TasksAfterExpiry(at)
      R == Recompute({RunOf(t) : t \in Expired(at)}, T)
  IN  \A t \in Tasks : ~ Claimable(t, kinds, at, T, R)

\* The sweep inside claimNextTask may have expired leases all the same.  The
\* client is told that there is nothing and draws another token next time.
ClaimToolEmpty(s, k) ==
  /\ Finishes(s, k)
  /\ calls[k].tool = "claim_next_task"
  /\ LeasesUnder(k) = {}
  /\ \E kinds \in KindFilters : NothingToClaim(kinds, job[s].at)
  /\ IF Expired(job[s].at) = {} THEN UNCHANGED vars ELSE ExpireLeases(job[s].at)
  /\ Reply(k, Null)
  /\ UNCHANGED <<replies, effects>>

OutcomeTool(s, k) ==
  LET c == calls[k]
  IN  /\ Finishes(s, k)
      /\ c.task # Null
      /\ \/ c.tool = "complete_task" /\ CompleteTask(c.task, c.lease, c.worker, k, job[s].at)
         \/ c.tool = "fail_task" /\ FailTask(c.task, c.lease, c.worker, k, job[s].at)
      /\ Commits(k, Null)

\* The unique index on the token, requireTask or assertActiveLease throws.
ToolThrows(s, k) ==
  LET c == calls[k]
  IN  /\ Finishes(s, k)
      /\ IF c.tool = "claim_next_task"
           THEN LeasesUnder(k) # {}
           ELSE ~ (c.task # Null /\ AssertActiveLease(c.task, c.lease, c.worker, job[s].at))
      /\ replies' = replies \union {<<k, "refused">>}
      /\ Reply(k, Null)
      /\ UNCHANGED <<vars, effects>>

-----------------------------------------------------------------------------
(* Tools that are one step of the store, with a timestamp that may lag too.  *)

SetUpTools == \/ \E r \in Runs : CreateRun(r)
              \/ \E t \in Tasks : Enqueue(t)

LeaseTools ==
  \E t \in Tasks, l \in Leases, w \in Workers, at \in Stamps :
    \/ \E ms \in LeaseDurations : HeartbeatLease(t, l, w, ms, at)
    \/ MarkTaskRunning(t, l, w, at)
    \/ \E to \in WaitingTaskStatuses : PauseTask(t, l, w, to, at)

ResumeTool == \E t \in Tasks : ResumeTask(t)

GiveUpTools ==
  \/ \E t \in Tasks, l \in Leases, w \in Workers, at \in Stamps : ReleaseTask(t, l, w, at)
  \/ \E r \in Runs : CancelRun(r)
  \/ Expire

RequeueTool ==
  \E t \in Tasks, reset \in BOOLEAN, notBefore \in {NoTime, now + 1} :
    RequeueDeadTask(t, reset, notBefore)

ServesPlainTool ==
  /\ \E s \in Servers : Serving(s)
  /\ SetUpTools \/ LeaseTools \/ ResumeTool \/ GiveUpTools \/ RequeueTool \/ Prune
  /\ UNCHANGED serverVars

\* The write lock is not waited for longer than MaxLag.
TimePasses ==
  /\ Tick
  /\ \A s \in Servers : job[s] = Idle \/ now < job[s].at + MaxLag
  /\ UNCHANGED serverVars

ClientStep(w) ==
  \/ SendAgain(w)
  \/ \E k \in Tokens : \/ CallClaim(w, k)
                       \/ \E tool \in {"complete_task", "fail_task"} : CallOutcome(w, k, tool)

HandlesCall(s, k) ==
  ClaimTool(s, k) \/ ClaimToolEmpty(s, k) \/ OutcomeTool(s, k) \/ ToolThrows(s, k)

ServerStep(s) ==
  \/ OpensFile(s)
  \/ Dies(s)
  \/ \E k \in Tokens : AnswersFromRecord(s, k) \/ StartsCall(s, k) \/ HandlesCall(s, k)

ServerNext ==
  \/ \E w \in Workers : ClientStep(w)
  \/ \E s \in Servers : ServerStep(s)
  \/ ServesPlainTool
  \/ TimePasses

ServerSpec == ServerInit /\ [][ServerNext]_<<vars, serverVars>>

-----------------------------------------------------------------------------
(* What a client may conclude from an answer.                                *)

outcomeBar ==
  [k \in Tokens |-> CASE effects[k] = <<>> -> "open"
                      [] Len(effects[k]) = 1 -> effects[k][1]
                      [] OTHER -> "twice"]

Once == INSTANCE OnceOnly
          WITH Calls <- Tokens, Results <- Leases \union {Null}, outcome <- outcomeBar, answers <- replies

(* README.md:266 and 270 - tool calls with a clientToken are "retry-safe     *)
(* across flaky transports": with copies of a call that the network or the   *)
(* client makes, and servers that die over it, one transaction is committed  *)
(* for it, and each copy that arrives afterwards is told its result.  A      *)
(* refusal is not final: with a timestamp that lags, a heartbeat revives a   *)
(* lease that a complete_task was just refused for, and a copy succeeds.     *)
ImplementsOnce == Once!OnceSpec

(* No server answers from a schema older than its code, and migrations are   *)
(* applied in order, though servers open the file while others serve it.     *)
ServesCurrentSchema ==
  /\ Files!SchemaIsCurrent
  /\ Files!AppliedInOrder
=============================================================================
