-------------------------- MODULE PostgresMigrations --------------------------
(***************************************************************************)
(* The Postgres schema is kept by commands that a deployment, a seed, an      *)
(* import or a developer runs (packages/db/src/postgres/runner.ts): migrate,  *)
(* verify and reset.  Nothing keeps two from running at once, each from a     *)
(* source of its own: a branch may lack a migration, or hold an edited one.   *)
(*                                                                         *)
(* A migration's SQL and its row in glocalx_schema_migrations are one          *)
(* transaction; the list of applied migrations is read once, at the beginning.*)
(***************************************************************************)
EXTENDS Integers, FiniteSets

CONSTANTS
  Runs,          \* commands
  Versions,      \* numbers of migrations
  Sums, None,    \* checksums of what a migration's file may hold; no row
  Sources,       \* the files of each source tree: versions to checksums
  Creating       \* the migrations that create tables of databaseTableNames

MigrationsAssumption ==
  /\ Versions \subseteq Nat /\ IsFiniteSet(Versions) /\ Creating \subseteq Versions
  /\ None \notin Sums
  /\ \A f \in Sources : DOMAIN f \subseteq Versions /\ \A v \in DOMAIN f : f[v] \in Sums

VARIABLES
  public, logged,  \* whether the schema and glocalx_schema_migrations exist
  applied, effect, \* the checksum recorded, and of the SQL committed, by version
  command          \* the commands and where they are

migrationVars == <<public, logged, applied, effect, command>>
database == <<public, logged, applied, effect>>

Nothing == [v \in Versions |-> None]
NoCommand == [at |-> "none", kind |-> "migrate", files |-> <<>>, known |-> Nothing,
              done |-> {}, crossed |-> FALSE]

Init ==
  /\ public = TRUE /\ logged = FALSE /\ applied = Nothing /\ effect = Nothing
  /\ command = [r \in Runs |-> NoCommand]

Progress ==
  [at : {"none", "ensure", "read", "apply", "tables", "rows", "drop", "create",
         "ok", "failed"},
   kind : {"migrate", "verify", "reset"}, files : Sources \cup {<<>>},
   known : [Versions -> Sums \cup {None}], done : SUBSET Versions, crossed : BOOLEAN]

At(r, at) == command[r].at = at
Active(r) == command[r].at \notin {"none", "ok", "failed"}
Goes(r, at) == command' = [command EXCEPT ![r].at = at]
-------------------------------------------------------------------------------
Begin(r) == \E kind \in {"migrate", "verify", "reset"}, f \in Sources :
  /\ At(r, "none")
  /\ command' = [command EXCEPT ![r] =
       [NoCommand EXCEPT !.kind = kind, !.files = f,
          !.at = CASE kind = "migrate" -> "ensure"
                   [] kind = "verify" -> "tables"
                   [] kind = "reset" -> "drop"]]
  /\ UNCHANGED database

(* CREATE TABLE IF NOT EXISTS.                                             *)
EnsureLog(r) ==
  /\ At(r, "ensure") /\ public
  /\ logged' = TRUE /\ Goes(r, "read")
  /\ UNCHANGED <<public, applied, effect>>

ReadApplied(r) ==
  /\ At(r, "read") /\ logged
  /\ command' = [command EXCEPT ![r].at = "apply", ![r].known = applied]
  /\ UNCHANGED database

Todo(r) == DOMAIN command[r].files \ command[r].done
\* Plausible bug: the files in the order the directory lists them.
AnyOf(r, v) == v \in Todo(r)
IsNext(r, v) == v \in Todo(r) /\ \A w \in Todo(r) : v <= w

Done(r, v) == command' = [command EXCEPT ![r].done = @ \cup {v}]

\* Plausible bug: a migration that is recorded is taken for the same.
IsRecorded(r, v) == command[r].known[v] # None
IsApplied(r, v) == command[r].known[v] = command[r].files[v]

Skip(r) == \E v \in Versions :
  /\ At(r, "apply") /\ IsNext(r, v) /\ IsApplied(r, v)
  /\ Done(r, v) /\ UNCHANGED database

ChecksumDiffers(r) == \E v \in Versions :
  /\ At(r, "apply") /\ IsNext(r, v) /\ command[r].known[v] # None /\ ~IsApplied(r, v)
  /\ Goes(r, "failed") /\ UNCHANGED database

(* The primary key refuses a version that another run has recorded.          *)
Apply(r) == \E v \in Versions :
  /\ At(r, "apply") /\ IsNext(r, v) /\ command[r].known[v] = None
  /\ logged /\ applied[v] = None
  /\ effect' = [effect EXCEPT ![v] = command[r].files[v]]
  /\ applied' = [applied EXCEPT ![v] = command[r].files[v]]
  /\ Done(r, v) /\ UNCHANGED <<public, logged>>

Migrated(r) ==
  /\ At(r, "apply") /\ Todo(r) = {}
  /\ Goes(r, "ok") /\ UNCHANGED database
-------------------------------------------------------------------------------
\* Plausible bug: the tables alone are looked at.
TablesAlone(r) == TRUE
IsUpToDate(r) == \A v \in DOMAIN command[r].files : applied[v] = command[r].files[v]

VerifyTables(r) ==
  /\ At(r, "tables")
  /\ IF logged /\ \A v \in Creating \cap DOMAIN command[r].files : effect[v] # None
     THEN Goes(r, "rows") ELSE Goes(r, "failed")
  /\ UNCHANGED database

VerifyRows(r) ==
  /\ At(r, "rows") /\ logged
  /\ IF IsUpToDate(r) THEN Goes(r, "ok") ELSE Goes(r, "failed")
  /\ UNCHANGED database
-------------------------------------------------------------------------------
(* DROP SCHEMA is seen by every command that has begun.                     *)
Drop(r) ==
  /\ At(r, "drop")
  /\ public' = FALSE /\ logged' = FALSE /\ applied' = Nothing /\ effect' = Nothing
  /\ command' = [s \in Runs |->
       IF s = r THEN [command[s] EXCEPT !.at = "create"]
       ELSE [command[s] EXCEPT !.crossed = @ \/ command[s].at # "none"]]

Create(r) ==
  /\ At(r, "create") /\ ~public
  /\ public' = TRUE /\ Goes(r, "ensure")
  /\ UNCHANGED <<logged, applied, effect>>

\* Plausible bug: without a transaction the SQL stays when its row is refused.
FailHalfway(r) ==
  /\ Goes(r, "failed")
  /\ \/ \E v \in Versions :
          /\ At(r, "apply") /\ IsNext(r, v) /\ command[r].known[v] = None
          /\ effect' = [effect EXCEPT ![v] = command[r].files[v]]
     \/ UNCHANGED effect
  /\ UNCHANGED <<public, logged, applied>>
Fail(r) == Goes(r, "failed") /\ UNCHANGED database

(* A statement is refused, or the connection or the command is cut.          *)
Break(r) == Active(r) /\ Fail(r)

Step(r) ==
  \/ Begin(r) \/ EnsureLog(r) \/ ReadApplied(r) \/ Skip(r) \/ ChecksumDiffers(r)
  \/ Apply(r) \/ Migrated(r) \/ VerifyTables(r) \/ VerifyRows(r)
  \/ Drop(r) \/ Create(r) \/ Break(r)
Next == \E r \in Runs : Step(r)

Spec == Init /\ [][Next]_migrationVars
-------------------------------------------------------------------------------
(* Properties.                                                             *)

(* Type invariant.                                                         *)
TypeOK ==
  /\ public \in BOOLEAN /\ logged \in BOOLEAN
  /\ applied \in [Versions -> Sums \cup {None}]
  /\ effect \in [Versions -> Sums \cup {None}]
  /\ command \in [Runs -> Progress]

(* What is recorded is what the schema holds, whoever failed where.          *)
RecordIsTrue == applied = effect

(* A command that said yes leaves a database with every migration of its       *)
(* source, as its source has them, whatever ran beside it or after it; but    *)
(* not when the schema was dropped meanwhile.                               *)
YesMeansApplied ==
  \A r \in Runs : command[r].at = "ok" /\ ~command[r].crossed =>
    \A v \in DOMAIN command[r].files :
      applied[v] = command[r].files[v] /\ effect[v] = command[r].files[v]

(* A run stands on all the migrations of its source before the next.          *)
InOrder ==
  \A r \in Runs : ~command[r].crossed =>
    \A v \in command[r].done :
      \A w \in DOMAIN command[r].files : w < v => applied[w] = command[r].files[w]

SchemaIsSound == RecordIsTrue /\ YesMeansApplied /\ InOrder
===============================================================================
