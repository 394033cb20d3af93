------------------------------- MODULE Databases -------------------------------
(***************************************************************************)
(* Accounts, and the schemas of the databases they are kept in: the           *)
(* migrations of Postgres and the opening of a SQLite file.  They share nothing *)
(* here, so a behaviour is one of them: `part` says which, and the others stay  *)
(* as they start.                                                          *)
(***************************************************************************)
EXTENDS Accounts

CONSTANTS
  Commands, Versions, Sums, Sources, Creating,  \* PostgresMigrations
  Processes, Conversations, MaxOpens            \* SqliteSchema

VARIABLES
  part,
  public, logged, applied, effect, command,
  created, wide, column, conversations, messages, connection, enforced, opens,
  told, alone, excused

migrations == <<public, logged, applied, effect, command>>
sqlite ==
  <<created, wide, column, conversations, messages, connection, enforced, opens,
    told, alone, excused>>

Postgres == INSTANCE PostgresMigrations WITH Runs <- Commands
Sqlite == INSTANCE SqliteSchema WITH at <- connection

ASSUME SchemasAssumption ==
  Postgres!MigrationsAssumption /\ Sqlite!SchemaAssumption

InitParts ==
  /\ part \in {"accounts", "postgres", "sqlite"}
  /\ Init /\ Postgres!Init /\ Sqlite!Init

AccountsMove ==
  /\ part = "accounts" /\ Next
  /\ UNCHANGED <<migrations, sqlite>>
PostgresMoves ==
  /\ part = "postgres" /\ Postgres!Next
  /\ UNCHANGED <<vars, sqlite>>
SqliteMoves ==
  /\ part = "sqlite" /\ Sqlite!Next
  /\ UNCHANGED <<vars, migrations>>
NextPart ==
  /\ AccountsMove \/ PostgresMoves \/ SqliteMoves
  /\ UNCHANGED part

AccountsAndSchemas ==
  InitParts /\ [][NextPart]_<<part, vars, migrations, sqlite>>
-------------------------------------------------------------------------------
(* Properties.                                                             *)

(* The type invariants of the parts.                                       *)
TypesOK ==
  /\ part = "accounts" => TypeOK
  /\ part = "postgres" => Postgres!TypeOK
  /\ part = "sqlite" => Sqlite!TypeOK

(* PostgresMigrations' and SqliteSchema's properties.                         *)
SchemasAreSound ==
  /\ part = "postgres" => Postgres!SchemaIsSound
  /\ part = "sqlite" => Sqlite!FileIsSound
==============================================================================
