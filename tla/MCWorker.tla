------------------------------- MODULE MCWorker -------------------------------
(***************************************************************************)
(* Small instances of Worker for TLC.                                      *)
(***************************************************************************)
EXTENDS WorkerProperties, TLC

CONSTANTS r1, t1

\* One task that may be attempted twice and is retried at once.
OneTaskInput ==
  t1 :> [run |-> r1, key |-> Null, kind |-> "build", priority |-> 0, dependsOn |-> {},
         maxAttempts |-> 2, retry |-> [delayMs |-> 0, backoff |-> "fixed", maxDelayMs |-> 0]]

AnyKind      == {{}}
TerminalOnly == {TerminalRunStatuses}
JustLease    == {LeaseMs}
AskedLeases  == {LeaseMs, DefaultLeaseMs}

\* Used in runs that check no liveness.
Symmetric == Permutations(Workers) \union Permutations(Leases)
=============================================================================
