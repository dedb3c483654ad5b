----------------------------- MODULE RetryPolicy -----------------------------
(***************************************************************************)
(* Timestamps and the retry delay (computeNotBefore, toIsoTimestamp in     *)
(* src/src/sqlite-store.ts).                                               *)
(*                                                                         *)
(* A timestamp is a number of milliseconds; NoTime is SQL's NULL.  Two     *)
(* limits of the representation matter because a delay may double on every *)
(* attempt:                                                                *)
(*   DateLimit  the last instant a JavaScript Date represents; beyond it   *)
(*              toISOString throws RangeError,                             *)
(*   IsoLimit   the last instant of year 9999; a later one is written      *)
(*              "+010000-...", and SQL compares the TEXT columns, so that  *)
(*              it sorts BEFORE every four-digit year.                     *)
(***************************************************************************)
EXTENDS Integers

CONSTANTS DateLimit, IsoLimit

ASSUME LimitsAssumption == /\ IsoLimit \in Nat
                           /\ DateLimit \in Nat
                           /\ IsoLimit =< DateLimit

NoTime == -1

\* task.retryDelayMs, retryBackoff, retryMaxDelayMs; 0 stands for an absent
\* delay or cap, which computeNotBefore treats alike.
RetryPolicies == [delayMs : Nat, backoff : {"fixed", "exponential"}, maxDelayMs : Nat]

AttemptOrOne(attemptCount) == IF attemptCount >= 1 THEN attemptCount ELSE 1

UncappedDelay(policy, attemptCount) ==
  IF policy.backoff = "exponential"
    THEN policy.delayMs * 2 ^ (AttemptOrOne(attemptCount) - 1)
    ELSE policy.delayMs

RetryDelay(policy, attemptCount) ==
  LET delay == UncappedDelay(policy, attemptCount)
  IN  IF policy.maxDelayMs > 0 /\ policy.maxDelayMs < delay THEN policy.maxDelayMs ELSE delay

ComputeNotBefore(policy, attemptCount, at) ==
  IF policy.delayMs <= 0 THEN NoTime ELSE at + RetryDelay(policy, attemptCount)

\* new Date(ms).toISOString() returns instead of throwing RangeError.
Representable(time) == time =< DateLimit

\* "column IS NULL OR column <= @at" on TEXT timestamps.
NullOrAtMost(time, at) == time = NoTime \/ time > IsoLimit \/ time =< at
=============================================================================
