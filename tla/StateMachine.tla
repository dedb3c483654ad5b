---------------------------- MODULE StateMachine ----------------------------
(***************************************************************************)
(* The two status machines of parallel-mcp (src/src/state-machine.ts): the *)
(* table of legal task transitions, and the status of a run as a function  *)
(* of its own status and the statuses of its tasks.                        *)
(*                                                                         *)
(* deriveRunStatus reads its array of task statuses only through every()   *)
(* and some(), so a run's tasks are represented by the SET of statuses     *)
(* that occur among them.                                                  *)
(***************************************************************************)

TaskStatuses == {"queued", "leased", "running", "blocked", "waiting_input",
                 "completed", "failed", "cancelled"}

RunStatuses == {"pending", "active", "waiting", "completed", "failed", "cancelled"}

ActiveTaskStatuses  == {"queued", "leased", "running"}
WaitingTaskStatuses == {"blocked", "waiting_input"}

(* The statuses the code tests together by name: a task somebody works on,  *)
(* the task statuses cancelRun leaves alone, and the run statuses           *)
(* enqueueTask, claimNextTask and pruneRuns call terminal.                  *)
HeldStatuses         == {"leased", "running"}
TerminalTaskStatuses == {"completed", "failed", "cancelled"}
TerminalRunStatuses  == {"completed", "failed", "cancelled"}

TaskTransitions ==
  [queued        |-> {"leased", "cancelled"},
   leased        |-> {"running", "queued"} \union WaitingTaskStatuses \union TerminalTaskStatuses,
   running       |-> {"queued"} \union WaitingTaskStatuses \union TerminalTaskStatuses,
   blocked       |-> {"queued", "cancelled"},
   waiting_input |-> {"queued", "cancelled"},
   completed     |-> {},
   failed        |-> {},
   cancelled     |-> {}]

\* assertTaskTransition throws InvalidTransitionError exactly when this is false.
CanTransition(from, to) == to \in TaskTransitions[from]

\* Mutant of DeriveRunStatus: tests for waiting tasks before active ones.
DeriveRunStatus_WaitingFirst(current, statuses) ==
  IF current = "cancelled" /\ statuses \intersect HeldStatuses = {} THEN "cancelled"
  ELSE IF statuses = {} THEN "pending"
  ELSE IF statuses \subseteq {"cancelled"} THEN "cancelled"
  ELSE IF statuses \subseteq {"completed", "cancelled"} THEN "completed"
  ELSE IF statuses \intersect WaitingTaskStatuses # {} THEN "waiting"
  ELSE IF statuses \intersect ActiveTaskStatuses # {} THEN "active" ELSE "failed"

\* Mutant of DeriveRunStatus: forgets that queued tasks are active.
DeriveRunStatus_QueuedForgotten(current, statuses) ==
  IF current = "cancelled" /\ statuses \intersect HeldStatuses = {} THEN "cancelled"
  ELSE IF statuses = {} THEN "pending"
  ELSE IF statuses \subseteq {"cancelled"} THEN "cancelled"
  ELSE IF statuses \subseteq {"completed", "cancelled"} THEN "completed"
  ELSE IF statuses \intersect HeldStatuses # {} THEN "active"
  ELSE IF statuses \intersect WaitingTaskStatuses # {} THEN "waiting"
  ELSE IF "failed" \in statuses THEN "failed" ELSE current

DeriveRunStatus(current, statuses) ==
  IF current = "cancelled" /\ statuses \intersect HeldStatuses = {} THEN "cancelled"
  ELSE IF statuses = {} THEN "pending"
  ELSE IF statuses \subseteq {"cancelled"} THEN "cancelled"
  ELSE IF statuses \subseteq {"completed", "cancelled"}
         THEN IF "completed" \in statuses THEN "completed" ELSE "cancelled"
  ELSE IF statuses \intersect ActiveTaskStatuses # {} THEN "active"
  ELSE IF statuses \intersect WaitingTaskStatuses # {} THEN "waiting"
  ELSE IF "failed" \in statuses THEN "failed"
  ELSE current
=============================================================================
