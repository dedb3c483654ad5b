--------------------------- MODULE MemoryProperties ---------------------------
(***************************************************************************)
(* What the in-memory store must guarantee though its calls overlap.       *)
(***************************************************************************)
EXTENDS MemoryStore, StoreRefinement

\* The tasks whose callers pass their id once and complete them without
\* nextContext; what callers do to other tasks must not disturb these.
Plain == Tasks \ (Reused \union WithContext)

\* The calls about run r that have not finished.
Unsettled(r) == {i \in DOMAIN pending : RunOf(pending[i].task) = r}

StatusSettles(r) ==
  runs[r] \in RunStatuses /\ Unsettled(r) = {} =>
    runs[r] = DeriveRunStatus(runs[r], StatusesIn(r, tasks))

(* lifecycle.md:50 - the run's status is "recomputed after every task        *)
(* transition": once the calls about a run have returned, the stored status  *)
(* is the derived one, in whatever order they overlapped, also when they     *)
(* overwrite tasks; createRun, which recomputes nothing, is given its id once.*)
RunStatusSettles == \A r \in Runs \ Reused : StatusSettles(r)

\* An outcome is on record under k, and it is that of a plain task.
OnRecord(k) == completions[k] # Null /\ completions[k].task \in Plain

(* recordCompletion runs after the await, when the task may have moved on:   *)
(* the outcome on record of a plain task is still the one the task has, if   *)
(* it has a row, and one token decided it.                                   *)
RecordedOutcomeIsTrue ==
  /\ \A k \in Tokens : OnRecord(k) =>
       tasks[completions[k].task].status \in {completions[k].outcome, "pruned"}
  /\ \A j, k \in Tokens : j # k /\ OnRecord(j) /\ OnRecord(k) =>
       completions[j].task # completions[k].task

plainPhase   == [t \in Plain |-> PhaseOf(tasks[t])]
plainHolders == [t \in Plain |-> {l \in Leases : leases[l].status = "active" /\ leases[l].task = t}]

PlainOwnership == INSTANCE TaskOwnership
                    WITH Tasks <- Plain, phase <- plainPhase, holders <- plainHolders,
                         granted <- grantedBar

(* The plain tasks are handled as TaskOwnership has it, awaits or not and    *)
(* whatever is done to other tasks: a plain task has one holder at a time,   *)
(* under a lease granted afresh, and done is done.                           *)
ImplementsPlainOwnership == PlainOwnership!OwnershipSpec

-----------------------------------------------------------------------------
(* What the documentation says and the code does not do.                     *)

(* adapters/memory/src/store.ts:131 - "there are no `await` boundaries that   *)
(* could interleave another caller's writes": the outcome filed under a      *)
(* token is not replaced by that of another call with the token.             *)
RecordsAreKept ==
  [][\A k \in Tokens : completions[k] # Null => completions'[k] \in {completions[k], Null}]_memoryVars

(* lifecycle.md:49 - the run's status is derived from its tasks, also when    *)
(* createRun is given an id that is in use.                                   *)
EveryStatusSettles == \A r \in Runs : StatusSettles(r)
=============================================================================
