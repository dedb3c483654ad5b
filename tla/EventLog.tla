------------------------------- MODULE EventLog -------------------------------
(***************************************************************************)
(* How events get from a store to its subscribers: the events table, the   *)
(* listeners (addEventListener) and the cursor (listEventsSince), under    *)
(* composite writes made with transaction(fn).                             *)
(*                                                                         *)
(* A unit is one transaction(fn); a step of fn is one call of the store    *)
(* that inserts an event (one event stands for the few a call inserts).    *)
(* The four ways the repository offers to run it differ:                   *)
(*   sqlite    the calls of fn run inside fn's IMMEDIATE transaction, which *)
(*             holds the only write lock; the id counter is a table row    *)
(*             and rolls back with the rest;                               *)
(*   bridge    toAsyncStore over sqlite: COMMIT comes before the promise   *)
(*             that fn returned is looked at;                              *)
(*   postgres  fn's calls take other connections from the pool and commit  *)
(*             by themselves; ids come from a sequence that never goes     *)
(*             back, in the order of the INSERTs;                          *)
(*   memory    there is no transaction, each call is visible at once.      *)
(*                                                                         *)
(* A crash of the writer is the Throw of its unit.  The subscriber keeps   *)
(* its cursor with what it has processed, as the documentation asks.       *)
(***************************************************************************)
EXTENDS Integers, Sequences, FiniteSets, SequencesExt

CONSTANTS
  Units,
  MaxCalls,   \* bound: calls a unit makes
  PollLimit,  \* the subscriber's `limit'
  Backend

ASSUME BackendAssumption == Backend \in {"sqlite", "bridge", "postgres", "memory"}

ASSUME LimitsAssumption == MaxCalls \in Nat /\ PollLimit \in Nat \ {0}

Events == Units \X (1 .. MaxCalls)

VARIABLES
  phase,      \* unit -> "new", "open", "committed" (fn's transaction), "resolved", "rejected"
  fate,       \* event -> "none", "open" (not committed), "visible", "pruned", "undone"
  id,         \* event -> its events.id
  lastId,     \* the counter behind events.id
  heard,      \* events the listeners were called with
  cursor,     \* the subscriber's cursor, 0 before the first page
  delivered   \* the events it has processed, in that order

logVars == <<phase, fate, id, lastId, heard, cursor, delivered>>

LogInit ==
  /\ phase = [u \in Units |-> "new"]
  /\ fate = [e \in Events |-> "none"]
  /\ id = [e \in Events |-> 0]
  /\ lastId = 0
  /\ heard = {}
  /\ cursor = 0
  /\ delivered = <<>>

\* The calls of fn run on the connection that transaction(fn) has opened.
CallsJoin == Backend \in {"sqlite", "bridge"}

EventsOf(u) == {e \in Events : e[1] = u}

With(s, u) == {e \in EventsOf(u) : fate[e] = s}

\* BEGIN IMMEDIATE waits for the write lock; the other stores wait for nobody.
Begin(u) ==
  /\ phase[u] = "new"
  /\ CallsJoin => \A v \in Units : phase[v] # "open"
  /\ phase' = [phase EXCEPT ![u] = "open"]
  /\ UNCHANGED <<fate, id, lastId, heard, cursor, delivered>>

\* Mutant of DrawId: the column is a plain INTEGER PRIMARY KEY, whose next
\* value is one more than the largest id still in the table.
DrawId_LargestInTable == Max({0} \union {id[e] : e \in UNION {With("open", u) \union With("visible", u) : u \in Units}}) + 1

DrawId == lastId + 1

\* insertEvent: the listeners are called before the transaction commits.
InsertEvent(u) ==
  /\ phase[u] = "open"
  /\ CallsJoin \/ With("open", u) = {}
  /\ \E e \in EventsOf(u) :
       /\ fate[e] = "none"
       /\ \A f \in EventsOf(u) : f[2] < e[2] => fate[f] # "none"
       /\ fate' = [fate EXCEPT ![e] = IF Backend = "memory" THEN "visible" ELSE "open"]
       /\ id' = [id EXCEPT ![e] = DrawId]
       /\ lastId' = DrawId
       /\ heard' = heard \union {e}
  /\ UNCHANGED <<phase, cursor, delivered>>

\* The open events of u all get fate s.
Settle(u, s) == fate' = [e \in Events |-> IF e \in With("open", u) THEN s ELSE fate[e]]

\* COMMIT, of fn's transaction or of the one that a call of fn has for itself.
Commit(u) ==
  /\ phase[u] = "open"
  /\ CallsJoin \/ With("open", u) # {}
  /\ phase' = [phase EXCEPT ![u] = IF CallsJoin THEN "committed" ELSE "open"]
  /\ Settle(u, "visible")
  /\ UNCHANGED <<id, lastId, heard, cursor, delivered>>

\* transaction(fn) resolves.
Return(u) ==
  /\ phase[u] = IF CallsJoin THEN "committed" ELSE "open"
  /\ With("open", u) = {}
  /\ phase' = [phase EXCEPT ![u] = "resolved"]
  /\ UNCHANGED <<fate, id, lastId, heard, cursor, delivered>>

\* Mutant of Throw: the writes are kept, as if the error had come after COMMIT.
Throw_Keeps(u) ==
  /\ phase[u] = "open"
  /\ phase' = [phase EXCEPT ![u] = "rejected"]
  /\ Settle(u, "visible")
  /\ UNCHANGED <<id, lastId, heard, cursor, delivered>>

\* transaction(fn) rejects: fn has thrown or its process has died, and what is
\* not committed is rolled back.  The bridge also looks at fn after COMMIT.
Throw(u) ==
  /\ phase[u] \in IF Backend = "bridge" THEN {"open", "committed"} ELSE {"open"}
  /\ phase' = [phase EXCEPT ![u] = "rejected"]
  /\ Settle(u, "undone")
  /\ lastId' = IF CallsJoin THEN lastId - Cardinality(With("open", u)) ELSE lastId
  /\ UNCHANGED <<id, heard, cursor, delivered>>

\* pruneRuns deletes the events of a run; here a run is what one unit wrote.
Prune(u) ==
  /\ With("visible", u) # {}
  /\ CallsJoin => \A v \in Units : phase[v] # "open"
  /\ fate' = [e \in Events |-> IF e \in With("visible", u) THEN "pruned" ELSE fate[e]]
  /\ UNCHANGED <<phase, id, lastId, heard, cursor, delivered>>

\* WHERE id > afterId
Found == {e \in Events : fate[e] = "visible" /\ id[e] > cursor}

\* ORDER BY id
InOrder(S) ==
  [i \in 1 .. Cardinality(S) |-> CHOOSE e \in S : Cardinality({f \in S : id[f] < id[e]}) = i - 1]

\* listEventsSince: one page, and nextCursor is the id of its last event.
Poll ==
  \E page \in SUBSET Found, last \in Found :
    /\ Cardinality(page) <= PollLimit
    /\ Cardinality(page) = PollLimit \/ page = Found
    /\ \A e \in page, f \in Found \ page : id[e] < id[f]
    /\ last \in page /\ \A e \in page : id[e] <= id[last]
    /\ delivered' = delivered \o InOrder(page)
    /\ cursor' = id[last]
    /\ UNCHANGED <<phase, fate, id, lastId, heard>>

UnitStep(u) ==
  Begin(u) \/ InsertEvent(u) \/ Commit(u) \/ Return(u) \/ Throw(u) \/ Prune(u)

LogNext == Poll \/ \E u \in Units : UnitStep(u)

LogSpec == LogInit /\ [][LogNext]_logVars

\* A subscriber polls on; no writer has to go on.
FairLogSpec == LogSpec /\ WF_logVars(Poll)

-----------------------------------------------------------------------------
(* What subscribers and callers of transaction(fn) rely on.                  *)

Published == {e \in Events : fate[e] \in {"visible", "pruned"}}

Feed == INSTANCE EventFeed WITH published <- Published, queue <- InOrder(Found), handedOut <- delivered

(* The table with its cursor is a queue: in the order of the commits, each   *)
(* event once, none left out but the pruned ones, although ids are drawn     *)
(* before the commit, given back by a rollback and deleted by pruneRuns.     *)
ImplementsFeed == Feed!FeedSpec

(* A transaction(fn) that rejected has left nothing behind, one that         *)
(* resolved has left everything, and nobody sees half of one in between.     *)
UnitAllOrNothing ==
  \A u \in Units :
    /\ phase[u] = "rejected" => EventsOf(u) \intersect Published = {}
    /\ phase[u] = "resolved" => With("undone", u) = {} /\ With("open", u) = {}
    /\ phase[u] = "open" => With("visible", u) = {}

(* A subscriber that goes on polling gets every event, unless pruneRuns is   *)
(* faster.                                                                   *)
EventuallyDelivered ==
  \A e \in Events : fate[e] = "visible" ~> fate[e] = "pruned" \/ Contains(delivered, e)

(* orchestrator.ts:263 - "Persist the cursor to build reliable downstream    *)
(* subscribers": no event in the table is behind the cursor and unprocessed. *)
CursorMissesNothing ==
  \A e \in Events : fate[e] = "visible" => id[e] > cursor \/ Contains(delivered, e)

(* lifecycle.md:66-68 - a listener is invoked "with the stored record": what *)
(* the listeners have heard of is stored once its unit is over.              *)
HeardIsStored == \A e \in heard : phase[e[1]] \in {"resolved", "rejected"} => e \in Published
=============================================================================
