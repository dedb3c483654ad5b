------------------------------- MODULE OnceOnly -------------------------------
(***************************************************************************)
(* What a client that repeats a call until it is answered wants: however   *)
(* often the call arrives, it takes effect at most once; while it has not, *)
(* a copy may be refused; once it has, every copy is told the result.      *)
(***************************************************************************)
CONSTANTS Calls, Results

VARIABLES
  outcome,  \* call -> its result, or "open"
  answers   \* <<call, result or "refused">>: the answers given so far

onceVars == <<outcome, answers>>

OnceInit == outcome = [c \in Calls |-> "open"] /\ answers = {}

\* A call takes effect, which may be answered at once.
Act(c, result) ==
  /\ outcome[c] = "open"
  /\ outcome' = [outcome EXCEPT ![c] = result]
  /\ answers' \in {answers, answers \union {<<c, result>>}}

Refuse(c) ==
  /\ outcome[c] = "open"
  /\ answers' = answers \union {<<c, "refused">>}
  /\ UNCHANGED outcome

Repeat(c) ==
  /\ outcome[c] \in Results
  /\ answers' = answers \union {<<c, outcome[c]>>}
  /\ UNCHANGED outcome

OnceNext == \E c \in Calls : Refuse(c) \/ Repeat(c) \/ \E r \in Results : Act(c, r)

OnceSpec == OnceInit /\ [][OnceNext]_onceVars
=============================================================================
