------------------------------ MODULE MCPgStore ------------------------------
(***************************************************************************)
(* Small instances of PgStore for TLC.                                     *)
(***************************************************************************)
EXTENDS PgProperties, TLC

CONSTANTS r1, t1, t2

NoRetry == [delayMs |-> 0, backoff |-> "fixed", maxDelayMs |-> 0]

Task(key, maxAttempts) ==
  [run |-> r1, key |-> key, kind |-> "build", priority |-> 0, dependsOn |-> {},
   maxAttempts |-> maxAttempts, retry |-> NoRetry]

OneTaskInput == t1 :> Task(Null, 3)
TwoTaskInput == t1 :> Task(Null, 1) @@ t2 :> Task(Null, 1)
SameKeyInput == t1 :> Task("k", 2) @@ t2 :> Task("k", 1)

TerminalOnly == {TerminalRunStatuses}

Symmetric == Permutations(Sessions) \union Permutations(Leases)
=============================================================================
