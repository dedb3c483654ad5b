---------------------------- MODULE MCMemoryStore ----------------------------
(***************************************************************************)
(* Small instances of MemoryStore for TLC.                                 *)
(***************************************************************************)
EXTENDS MemoryProperties, TLC

CONSTANTS r1, t1, t2

NoRetry == [delayMs |-> 0, backoff |-> "fixed", maxDelayMs |-> 0]

Task(dependsOn, maxAttempts) ==
  [run |-> r1, key |-> Null, kind |-> "build", priority |-> 0, dependsOn |-> dependsOn,
   maxAttempts |-> maxAttempts, retry |-> NoRetry]

TwoTaskInput == t1 :> Task({}, 1) @@ t2 :> Task({}, 2)

\* t2 is to be retried later than a Date can say.
LongDelayInput ==
  [TwoTaskInput EXCEPT ![t2].retry = [delayMs |-> 3, backoff |-> "fixed", maxDelayMs |-> 0]]

AnyKind      == {{}}
ShortLeases  == {0, 1}
MomentLeases == {0}
TerminalOnly == {TerminalRunStatuses}

Symmetric == Permutations(Leases) \union Permutations(Workers) \union Permutations(Tokens)
=============================================================================
