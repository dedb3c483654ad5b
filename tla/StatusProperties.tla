-------------------------- MODULE StatusProperties --------------------------
(***************************************************************************)
(* deriveRunStatus against the table that documents it, and against the    *)
(* way the stores use it: recomputed after every change of a task.         *)
(*                                                                         *)
(* The state is one run and a few of its tasks.  Init is every combination *)
(* of statuses, reachable or not: a store built on the function (SQLite,   *)
(* Postgres, memory) may hand it any.  A step moves one task as            *)
(* assertTaskTransition allows and recomputes the run.                     *)
(***************************************************************************)
EXTENDS StateMachine

CONSTANT RunTasks  \* the tasks of the run

VARIABLES run, status

statusVars == <<run, status>>

Occurring(s) == {s[t] : t \in RunTasks} \ {"absent"}

StatusInit ==
  /\ run \in RunStatuses
  /\ status \in [RunTasks -> TaskStatuses \union {"absent"}]

MoveTask(t, to) ==
  /\ status[t] \in TaskStatuses
  /\ CanTransition(status[t], to)
  /\ status' = [status EXCEPT ![t] = to]
  /\ run' = DeriveRunStatus(run, Occurring(status'))

StatusNext == \E t \in RunTasks, to \in TaskStatuses : MoveTask(t, to)

StatusSpec == StatusInit /\ [][StatusNext]_statusVars

-----------------------------------------------------------------------------

\* The rows of the table in lifecycle.md:53-60.
DocumentedStatus(current, S, r) ==
  CASE r = "pending"   -> S = {}
    [] r = "active"    -> \E s \in S : s \in {"queued", "leased", "running"}
    [] r = "waiting"   -> /\ \A s \in S : s \notin {"queued", "leased", "running"}
                          /\ \E s \in S : s \in {"blocked", "waiting_input"}
    [] r = "completed" -> /\ \A s \in S : s \in {"completed", "cancelled"}
                          /\ \E s \in S : s = "completed"
    [] r = "failed"    -> /\ \A s \in S : s \in {"completed", "failed", "cancelled"}
                          /\ \E s \in S : s = "failed"
    [] r = "cancelled" -> \/ current = "cancelled" /\ \A s \in S : s \notin {"leased", "running"}
                          \/ S # {} /\ \A s \in S : s = "cancelled"

(* The derived status satisfies its row of the table, and no other row would *)
(* do unless the run was cancelled: the order of the tests in                *)
(* deriveRunStatus decides nothing but the precedence of cancellation, and   *)
(* its last line (return currentStatus) is never reached.                    *)
DerivedAsDocumented ==
  LET S == Occurring(status)
      d == DeriveRunStatus(run, S)
  IN  /\ DocumentedStatus(run, S, d)
      /\ \A r \in RunStatuses : DocumentedStatus(run, S, r) => r = d \/ d = "cancelled"

(* What the run was before a batch of changes is forgotten unless it was     *)
(* cancelled: expireLeases, which recomputes after every task it visits,     *)
(* ends with the same status as one recompute at the end.                    *)
RecomputeForgetsHistory ==
  \A before \in RunStatuses \ {"cancelled"} :
    run # "cancelled" =>
      DeriveRunStatus(before, Occurring(status)) = DeriveRunStatus(run, Occurring(status))

=============================================================================
