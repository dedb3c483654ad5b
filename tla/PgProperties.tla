----------------------------- MODULE PgProperties -----------------------------
(***************************************************************************)
(* What the Postgres store must guarantee over what its sessions commit.   *)
(* AttemptBudget, KeysUnique and NoDanglingRows are those of               *)
(* StoreProperties, about the same tables.                                 *)
(***************************************************************************)
EXTENDS PgStore

(* adapters/postgres/README.md:11 - "`SELECT ... FOR UPDATE SKIP LOCKED` for  *)
(* multi-worker-safe claims", as far as the code keeps it: a claim takes a   *)
(* task out of somebody's hands only if it has itself, in the same           *)
(* transaction, expired a lease of that task.  SKIP LOCKED and the test of   *)
(* lease_id leave no other way to do it.                                     *)
OnlyASweepDisplaces ==
  [][\A t \in Tasks :
       LET old == tasks[t].leaseId
           new == tasks'[t].leaseId
       IN  new # old /\ new # Null /\ old # Null =>
             \E s \in Sessions :
               /\ tx[s].op = "claim" /\ tx'[s] = NoTx
               /\ \E l \in DOMAIN tx[s].leases :
                    tx[s].leases[l].task = t /\ tx[s].leases[l].status = "expired"]_pgVars

-----------------------------------------------------------------------------
(* What the documentation says and the code does not do.                     *)

(* adapters/postgres/README.md:11 - "`SELECT ... FOR UPDATE SKIP LOCKED` for  *)
(* multi-worker-safe claims", and failure-modes.md:34 - "a second active     *)
(* lease is impossible": a commit that gives a task a lease in place of      *)
(* another one expires the other one.                                        *)
ClaimsNeverCollide ==
  [][\A t \in Tasks :
       LET old == tasks[t].leaseId
           new == tasks'[t].leaseId
       IN  new # old /\ new # Null /\ old # Null => leases'[old].status = "expired"]_pgVars

(* lifecycle.md:39 - "`completed`, `failed`, and `cancelled` are terminal.   *)
(* No transition leaves them.": work a worker has been told is completed is  *)
(* not done again.                                                           *)
CompletedIsFinal ==
  [][\A t \in Tasks : tasks[t].status = "completed" => tasks'[t].status \in {"completed", "pruned"}]_pgVars

(* lifecycle.md:41 - "Every `leased`/`running` task has a `lease_id`,        *)
(* `leased_by`, and `lease_expires_at`": without them nobody may finish the  *)
(* task and no sweep finds it.                                               *)
HeldTaskHasLease ==
  \A t \in Tasks : tasks[t].status \in HeldStatuses =>
    tasks[t].leaseId # Null /\ tasks[t].leasedBy # Null /\ tasks[t].leaseExpiresAt # NoTime
=============================================================================
