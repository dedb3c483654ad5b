------------------------------- MODULE MCServer -------------------------------
(***************************************************************************)
(* Small instances of McpServer for TLC.                                   *)
(***************************************************************************)
EXTENDS McpServer, TLC

CONSTANTS r1, t1

\* One task that may be attempted twice and is retried at once.
OneTaskInput ==
  t1 :> [run |-> r1, key |-> Null, kind |-> "build", priority |-> 0, dependsOn |-> {},
         maxAttempts |-> 2, retry |-> [delayMs |-> 0, backoff |-> "fixed", maxDelayMs |-> 0]]

AnyKind  == {{}}
OneUnit  == {1}
TerminalOnly == {TerminalRunStatuses}

(* README.md:261 - the store "is safe to open concurrently from multiple     *)
(* processes": the constructor does not throw.                               *)
OpeningNeverThrows == Files!OpeningNeverThrows

Symmetric == Permutations(Workers) \union Permutations(Leases) \union Permutations(Tokens)
               \union Permutations(Servers)
=============================================================================
