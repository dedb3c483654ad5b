----------------------------- MODULE MCEventStory -----------------------------
(***************************************************************************)
(* Small instances of EventStory for TLC: those of the store it extends.   *)
(***************************************************************************)
EXTENDS EventStory, MCSqliteStore
=============================================================================
