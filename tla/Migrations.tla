------------------------------ MODULE Migrations ------------------------------
(***************************************************************************)
(* Opening the database file (the constructor of SqliteParallelMcpStore    *)
(* calls runMigrations, src/src/migrations.ts).  Several processes may     *)
(* open the same file at the same time, and any of them may die on the     *)
(* way.  The ids on record are read once, before the transactions that     *)
(* apply what is missing; each migration and its record are one            *)
(* transaction.  The DDL of a migration tolerates a schema that has it     *)
(* already, the INSERT of its record does not.                             *)
(***************************************************************************)
EXTENDS Naturals

CONSTANTS
  Processes,
  Versions   \* the ids in MIGRATIONS

VARIABLES
  applied,  \* the ids in schema_migrations
  opener    \* process -> how far it is, and the migrations it means to apply

migrationVars == <<applied, opener>>

Closed == [pc |-> "closed", todo |-> {}]

Upto(v) == {m \in Versions : m <= v}

\* The file is new or was written by an earlier release.
MigrationInit ==
  /\ applied \in {Upto(v) : v \in {0} \union Versions}
  /\ opener = [p \in Processes |-> Closed]

\* Mutant of ReadApplied: only the newest migration is looked for.
ReadApplied_OnlyNewest(p) ==
  /\ opener[p].pc = "closed"
  /\ opener' = [opener EXCEPT ![p] =
       [pc |-> "migrating", todo |-> {m \in Versions : \A v \in Versions : v <= m} \ applied]]
  /\ UNCHANGED applied

\* CREATE TABLE IF NOT EXISTS schema_migrations, then SELECT id.
ReadApplied(p) ==
  /\ opener[p].pc = "closed"
  /\ opener' = [opener EXCEPT ![p] = [pc |-> "migrating", todo |-> Versions \ applied]]
  /\ UNCHANGED applied

\* The loop over MIGRATIONS goes by their order.
IsNext(p, m) ==
  /\ opener[p].pc = "migrating"
  /\ m \in opener[p].todo
  /\ \A o \in opener[p].todo : m <= o

Migrate(p, m) ==
  /\ IsNext(p, m)
  /\ m \notin applied
  /\ applied' = applied \union {m}
  /\ opener' = [opener EXCEPT ![p].todo = @ \ {m}]

\* Another process has applied it since: PRIMARY KEY, and the constructor throws.
MigrateThrows(p, m) ==
  /\ IsNext(p, m)
  /\ m \in applied
  /\ opener' = [opener EXCEPT ![p] = [pc |-> "failed", todo |-> {}]]
  /\ UNCHANGED applied

Opened(p) ==
  /\ opener[p] = [pc |-> "migrating", todo |-> {}]
  /\ opener' = [opener EXCEPT ![p].pc = "open"]
  /\ UNCHANGED applied

\* The process ends, by itself or not, and may be started again.
Die(p) ==
  /\ opener[p].pc # "closed"
  /\ opener' = [opener EXCEPT ![p] = Closed]
  /\ UNCHANGED applied

OpenStep(p) ==
  ReadApplied(p) \/ Opened(p) \/ \E m \in Versions : Migrate(p, m) \/ MigrateThrows(p, m)

MigrationNext == \E p \in Processes : OpenStep(p) \/ Die(p)

MigrationSpec == MigrationInit /\ [][MigrationNext]_migrationVars

-----------------------------------------------------------------------------

(* No process works on an older schema than it was written for, although it  *)
(* looked at the applied migrations only once and others migrate, fail and   *)
(* die in the same file.                                                     *)
SchemaIsCurrent == \A p \in Processes : opener[p].pc = "open" => applied = Versions

(* No migration runs on a schema that lacks an earlier one.                  *)
AppliedInOrder == \E v \in {0} \union Versions : applied = Upto(v)

(* README.md:261 - the store "is safe to open concurrently from multiple     *)
(* processes pointing at the same database file": opening does not throw.    *)
OpeningNeverThrows == \A p \in Processes : opener[p].pc # "failed"
=============================================================================
