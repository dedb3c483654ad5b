--------------------------- MODULE StoreRefinement ---------------------------
(***************************************************************************)
(* The store implements TaskOwnership.  Who holds a task is read off the   *)
(* LEASE table, while the operations of the store decide by the TASK row:  *)
(* the refinement holds only because the two never disagree.               *)
(***************************************************************************)
EXTENDS StoreProperties

PhaseOf(row) ==
  CASE row.status = "absent" -> "none"
    [] row.status = "pruned" -> "gone"
    [] row.status = "queued" -> "ready"
    [] row.status \in HeldStatuses -> "owned"
    [] row.status \in WaitingTaskStatuses -> "parked"
    [] row.status \in TerminalTaskStatuses -> IF row.dead THEN "dead" ELSE "done"

phaseBar   == [t \in Tasks |-> PhaseOf(tasks[t])]
holdersBar == [t \in Tasks |-> {l \in Leases : leases[l].status = "active" /\ leases[l].task = t}]
grantedBar == {l \in Leases : leases[l].status # "absent"}

Ownership == INSTANCE TaskOwnership
               WITH phase <- phaseBar, holders <- holdersBar, granted <- grantedBar

(* Every behaviour of the store is one of TaskOwnership: whatever happens to *)
(* the tables, a task has one holder, granted afresh, and done is done.      *)
ImplementsOwnership == Ownership!OwnershipSpec

=============================================================================
