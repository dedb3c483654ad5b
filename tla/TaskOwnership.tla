---------------------------- MODULE TaskOwnership ----------------------------
(***************************************************************************)
(* What the store promises about who may work on a task, whatever tables   *)
(* it keeps: a task has at most one holder, a lease is granted once and to *)
(* one task, a holder keeps its task until it returns it or is revoked,    *)
(* and a task that is done never comes back.  A dead task may be revived.  *)
(***************************************************************************)
CONSTANTS Tasks, Leases

VARIABLES
  phase,    \* task -> where it stands
  holders,  \* task -> the leases that entitle somebody to work on it
  granted   \* the leases handed out so far

ownershipVars == <<phase, holders, granted>>

Phases == {"none", "ready", "owned", "parked", "done", "dead", "gone"}

OwnershipTypeOK ==
  /\ phase \in [Tasks -> Phases]
  /\ holders \in [Tasks -> SUBSET Leases]
  /\ granted \subseteq Leases

OwnershipInit ==
  /\ phase = [t \in Tasks |-> "none"]
  /\ holders = [t \in Tasks |-> {}]
  /\ granted = {}

Open == {"ready", "owned", "parked"}

Owned == {t \in Tasks : phase[t] = "owned"}

\* Tasks of S are taken from their holders and move to p[t].
Vacate(S, p) ==
  /\ phase' = [t \in Tasks |-> IF t \in S THEN p[t] ELSE phase[t]]
  /\ holders' = [t \in Tasks |-> IF t \in S THEN {} ELSE holders[t]]

Admit(t) ==
  /\ phase[t] = "none"
  /\ phase' = [phase EXCEPT ![t] = "ready"]
  /\ UNCHANGED <<holders, granted>>

\* Holders that went silent lose their tasks, all in one step.  Leases may also
\* be granted on tasks that are not among these.
Revoke(S, p) ==
  /\ S \subseteq Owned
  /\ Vacate(S, p)
  /\ granted \subseteq granted' /\ granted' \subseteq Leases

\* The same, and lease l is granted on a task that is ready after it.
Grant(S, p, t, l) ==
  /\ S \subseteq Owned
  /\ l \notin granted
  /\ IF t \in S THEN p[t] = "ready" ELSE phase[t] = "ready"
  /\ phase' = [u \in Tasks |-> IF u = t THEN "owned" ELSE IF u \in S THEN p[u] ELSE phase[u]]
  /\ holders' = [u \in Tasks |-> IF u = t THEN {l} ELSE IF u \in S THEN {} ELSE holders[u]]
  /\ granted' = granted \union {l}

Return(t, to) ==
  /\ phase[t] = "owned"
  /\ to \in {"ready", "parked", "done"}
  /\ Vacate({t}, [u \in {t} |-> to])
  /\ UNCHANGED granted

Readmit(t) ==
  /\ phase[t] \in {"parked", "dead"}
  /\ phase' = [phase EXCEPT ![t] = "ready"]
  /\ UNCHANGED <<holders, granted>>

\* Open tasks of S are called off, whoever holds them.
CallOff(S) ==
  /\ \A t \in S : phase[t] \in Open
  /\ Vacate(S, [t \in S |-> "done"])
  /\ UNCHANGED granted

Forget(S) ==
  /\ Vacate(S, [t \in S |-> "gone"])
  /\ UNCHANGED granted

OwnershipNext ==
  \/ \E t \in Tasks : Admit(t) \/ Readmit(t)
  \/ \E t \in Tasks, to \in {"ready", "parked", "done"} : Return(t, to)
  \/ \E S \in SUBSET Tasks :
       \/ CallOff(S)
       \/ Forget(S)
       \/ \E p \in [S -> {"ready", "dead"}] :
            \/ Revoke(S, p)
            \/ \E t \in Tasks, l \in Leases : Grant(S, p, t, l)

OwnershipSpec == OwnershipInit /\ [][OwnershipNext]_ownershipVars

-----------------------------------------------------------------------------

(* Nobody but the one holder of a task may work on it, no lease entitles to  *)
(* two tasks, and only owned tasks have a holder.                            *)
ExclusiveOwnership ==
  /\ \A t \in Tasks : IF phase[t] = "owned" THEN \E l \in Leases : holders[t] = {l}
                                            ELSE holders[t] = {}
  /\ \A t, u \in Tasks : t # u => holders[t] \intersect holders[u] = {}
  /\ \A t \in Tasks : holders[t] \subseteq granted
=============================================================================
