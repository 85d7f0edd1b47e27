----------------------------- MODULE Migrations -----------------------------
(***************************************************************************)
(* migrateRelayDatabase (src/remote/migrations.ts): how a relay that       *)
(* starts brings the database up to its own release.  Relays of different  *)
(* releases may open the same file, one after the other or, while the old  *)
(* one is still closing, both at once.  A statement is one step; a process *)
(* may die, and a statement may throw (the file is locked, the disk full), *)
(* between any two.                                                        *)
(*                                                                         *)
(* A migration is its version; what its SQL creates bears the same number. *)
(* Releases only append migrations, so release r knows those of 1..r.      *)
(***************************************************************************)
EXTENDS Integers

CONSTANTS
  Relays,      \* processes that may open the database
  Newest,      \* the last migration of the newest release
  MaxStarts    \* bound: starts of a relay

ASSUME MigrationsAssumption == Newest \in Nat /\ MaxStarts \in Nat

VARIABLES
  database,    \* what is committed: rows of schema_migrations, and tables
  draft,       \* the database as the open write transaction sees it
  writer,      \* the relays inside BEGIN IMMEDIATE .. COMMIT
  relay,       \* where each process is
  starts       \* starts so far

migrationVars == <<database, draft, writer, relay, starts>>

Versions == 1..Newest
Schema == [recorded : SUBSET Versions, tables : SUBSET Versions]

Phases == {"down", "open", "migrate", "create", "record", "commit", "serving"}
Process == [at : Phases, release : 0..Newest, seen : SUBSET Versions, next : 1..(Newest + 1)]

Down == [at |-> "down", release |-> 0, seen |-> {}, next |-> 1]
Empty == [recorded |-> {}, tables |-> {}]

MigrationTypeOK ==
  /\ database \in Schema
  /\ draft \in Schema
  /\ writer \in SUBSET Relays
  /\ relay \in [Relays -> Process]
  /\ starts \in 0..MaxStarts

Init ==
  /\ database = Empty
  /\ draft = Empty
  /\ writer = {}
  /\ relay = [p \in Relays |-> Down]
  /\ starts = 0

\* p goes on at the given place of the function.
Goes(p, place) == relay' = [relay EXCEPT ![p].at = place]

-----------------------------------------------------------------------------
(* Opening the database *)

Start(p, release) ==
  /\ relay[p].at = "down"
  /\ starts < MaxStarts
  /\ relay' = [relay EXCEPT ![p] = [Down EXCEPT !.at = "open", !.release = release]]
  /\ starts' = starts + 1
  /\ UNCHANGED <<database, draft, writer>>

\* DB_SCHEMA_TOO_NEW, DB_SCHEMA_MIGRATION_GAP
TooNew(seen, release) == \E v \in seen : v > release
Gap(seen) == \E v \in seen : \E u \in 1..v : u \notin seen

Refused(seen, release) == TooNew(seen, release) \/ Gap(seen)

\* A reader sees what is committed, and needs no lock.
ReadApplied(p) ==
  /\ relay[p].at = "open"
  /\ relay' = [relay EXCEPT ![p] =
       IF Refused(database.recorded, @.release)
       THEN Down
       ELSE [@ EXCEPT !.at = "migrate", !.seen = database.recorded]]
  /\ UNCHANGED <<database, draft, writer, starts>>

-----------------------------------------------------------------------------
(* The loop over the migrations *)

Skip(p) ==
  /\ relay[p].at = "migrate"
  /\ relay[p].next \in relay[p].seen
  /\ relay' = [relay EXCEPT ![p].next = @ + 1]
  /\ UNCHANGED <<database, draft, writer, starts>>

BeginImmediate(p) ==
  /\ relay[p].at = "migrate"
  /\ relay[p].next <= relay[p].release
  /\ relay[p].next \notin relay[p].seen
  /\ writer = {}
  /\ Goes(p, "create")
  /\ writer' = writer \cup {p}
  /\ draft' = database
  /\ UNCHANGED <<database, starts>>

\* Slip: the statements run outside the transaction.
WritesAtOnce(schema) == draft' = schema /\ database' = schema

Writes(schema) == draft' = schema /\ UNCHANGED database

\* CREATE TABLE of something that exists throws (see Dies).
ExecSql(p) ==
  /\ relay[p].at = "create"
  /\ relay[p].next \notin draft.tables
  /\ Writes([draft EXCEPT !.tables = @ \cup {relay[p].next}])
  /\ Goes(p, "record")
  /\ UNCHANGED <<writer, starts>>

\* version is the primary key.
InsertVersion(p) ==
  /\ relay[p].at = "record"
  /\ relay[p].next \notin draft.recorded
  /\ Writes([draft EXCEPT !.recorded = @ \cup {relay[p].next}])
  /\ Goes(p, "commit")
  /\ UNCHANGED <<writer, starts>>

Commit(p) ==
  /\ relay[p].at = "commit"
  /\ database' = draft
  /\ writer' = writer \ {p}
  /\ relay' = [relay EXCEPT ![p].at = "migrate", ![p].next = @ + 1]
  /\ UNCHANGED <<draft, starts>>

Ready(p) ==
  /\ relay[p].at = "migrate"
  /\ relay[p].next > relay[p].release
  /\ Goes(p, "serving")
  /\ UNCHANGED <<database, draft, writer, starts>>

\* Slip: the error is swallowed and the loop goes on.
NextMigration(process) ==
  IF process.at \in {"create", "record", "commit"}
  THEN [process EXCEPT !.at = "migrate", !.next = @ + 1]
  ELSE Down

Abandoned(process) == Down

\* A statement throws, which rolls back and ends the relay, or it dies, which
\* rolls back when the file is opened next.
Dies(p) ==
  /\ relay[p].at # "down"
  /\ relay' = [relay EXCEPT ![p] = Abandoned(@)]
  /\ writer' = writer \ {p}
  /\ draft' = IF p \in writer THEN database ELSE draft
  /\ UNCHANGED <<database, starts>>

Migrate(p) ==
  \/ ReadApplied(p)
  \/ Skip(p)
  \/ BeginImmediate(p)
  \/ ExecSql(p)
  \/ InsertVersion(p)
  \/ Commit(p)
  \/ Ready(p)

Next ==
  \E p \in Relays :
    \/ \E release \in Versions : Start(p, release)
    \/ Migrate(p)
    \/ Dies(p)

Spec == Init /\ [][Next]_migrationVars

-----------------------------------------------------------------------------
(* Correctness *)

\* Whatever dies or fails, and in whatever order releases open the file, the
\* database is at exactly one version: the tables of the first n migrations
\* and of no other exist, and just these are recorded.  The next start then
\* neither repeats a migration nor skips one.
AtVersion(schema, n) == schema.recorded = 1..n /\ schema.tables = 1..n

SchemaIsPrefix == \E n \in 0..Newest : AtVersion(database, n)

\* A relay that serves finds every table its release knows, although it read
\* what was applied before others migrated too.
ServesComplete ==
  \A p \in Relays :
    relay[p].at = "serving" => 1..relay[p].release \subseteq database.tables
=============================================================================
