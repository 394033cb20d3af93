----------------------------- MODULE SqliteImport -----------------------------
(***************************************************************************)
(* The data of a SQLite file are moved to Postgres by a command (owner-app    *)
(* scripts/db-migrate-sqlite-to-pg.ts): it reads the file table by table,     *)
(* writes an encrypted export, and imports it, or an export of before, in one *)
(* transaction; then it reads the target table by table and compares.        *)
(*                                                                         *)
(* Two tables stand for the nineteen: stores, with a content, and post_drafts, *)
(* which refer to a store and to the draft they revise.  An app may be writing *)
(* to either database meanwhile.                                            *)
(***************************************************************************)
EXTENDS Integers, FiniteSets

CONSTANTS
  Runs,              \* commands
  Stores, Drafts,    \* ids; drafts are numbers, in the order they are exported
  Contents, None,    \* what a store's row holds; no row, no draft revised
  Worlds,            \* bound: what the apps make of a database
  MaxWrites,         \* bound: writes of the apps
  MaxSessions        \* bound: sign-ins at the target

Empty == [stores |-> [s \in Stores |-> None], drafts |-> [d \in Drafts |-> None]]
IsRow(t, id) == t[id] # None

(* The references that both databases enforce.                              *)
Closed(db) == \A d \in Drafts : IsRow(db.drafts, d) =>
  /\ IsRow(db.stores, db.drafts[d].store)
  /\ db.drafts[d].revises # None => IsRow(db.drafts, db.drafts[d].revises)

StoreTable == [Stores -> Contents \cup {None}]
DraftTable == [Drafts -> [store : Stores, revises : Drafts \cup {None}] \cup {None}]
Database == [stores : StoreTable, drafts : DraftTable]

ImportAssumption ==
  /\ Drafts \subseteq Nat /\ None \notin Contents \cup Drafts
  /\ Worlds \subseteq Database /\ \A db \in Worlds : Closed(db)
  /\ MaxWrites \in Nat /\ MaxSessions \in Nat

VARIABLES
  source, file, target, \* the SQLite file, the export, the Postgres database
  production,           \* whether the target is one the guards refuse
  sessions, begun,      \* user_sessions at the target; sign-ins so far
  import, writes        \* the commands; how much the apps have written

importVars == <<source, file, target, production, sessions, begun, import, writes>>
databases == <<source, target, sessions>>
bounds == <<production, begun, writes>>

NoRun == [at |-> "none", kind |-> "dry", reset |-> FALSE, snap |-> Empty,
          seen |-> Empty, cut |-> {}, ended |-> {}, excused |-> FALSE,
          disturbed |-> FALSE]

Init ==
  /\ source \in Worlds /\ target \in Worlds \cup {Empty} /\ file = [kind |-> "none", db |-> Empty]
  /\ production \in BOOLEAN
  /\ sessions = {} /\ begun = 0 /\ writes = 0
  /\ import = [r \in Runs |-> NoRun]

At(r, at) == import[r].at = at
Becomes(r, run) == import' = [import EXCEPT ![r] = run]
Goes(r, at) == Becomes(r, [import[r] EXCEPT !.at = at])
Active(r) == import[r].at \notin {"none", "passed", "failed"}
(* A run that has read, or is about to read, what it wrote is disturbed when   *)
(* somebody else writes there.                                              *)
Disturb(r, run, stages) ==
  import' = [q \in Runs |-> IF q = r THEN run
               ELSE [import[q] EXCEPT !.disturbed = @ \/ import[q].at \in stages]]
OnFile == {"reread", "passed"}
OnTarget == {"stores read", "drafts read", "passed"}
-------------------------------------------------------------------------------
(* Export.                                                                 *)

Start(r) == \E kind \in {"dry", "import", "input"}, reset \in BOOLEAN :
  /\ At(r, "none") /\ (reset => kind # "dry")
  /\ Becomes(r, [NoRun EXCEPT !.kind = kind, !.reset = reset,
                   !.at = IF kind = "input" THEN "input" ELSE "stores"])
  /\ UNCHANGED <<databases, file, bounds>>

CollectStores(r) ==
  /\ At(r, "stores")
  /\ Becomes(r, [import[r] EXCEPT !.at = "drafts", !.snap.stores = source.stores])
  /\ UNCHANGED <<databases, file, bounds>>

CollectDrafts(r) ==
  /\ At(r, "drafts")
  /\ Becomes(r, [import[r] EXCEPT !.at = "write", !.snap.drafts = source.drafts])
  /\ UNCHANGED <<databases, file, bounds>>

(* The file is for whoever reads it next; while it is written it is not one   *)
(* that can be decrypted.                                                  *)
WriteExport(r) ==
  /\ At(r, "write")
  /\ \/ /\ file' = [kind |-> "whole", db |-> import[r].snap]
        /\ Disturb(r, [import[r] EXCEPT
             !.at = IF import[r].kind = "dry" THEN "reread" ELSE "guard"], OnFile)
     \/ /\ file' = [kind |-> "broken", db |-> Empty]
        /\ Disturb(r, [import[r] EXCEPT !.at = "failed", !.excused = TRUE], OnFile)
  /\ UNCHANGED <<databases, bounds>>

IsReadable == file.kind = "whole"

ReadExport(r) ==
  /\ At(r, "input")
  /\ IF IsReadable
     THEN Becomes(r, [import[r] EXCEPT !.at = "guard", !.snap = file.db])
     ELSE Becomes(r, [import[r] EXCEPT !.at = "failed", !.excused = TRUE])
  /\ UNCHANGED <<databases, file, bounds>>

\* Plausible bug: what the target has besides is not looked at.
HasAll(expected, actual) ==
  /\ \A s \in Stores : IsRow(expected.stores, s) => actual.stores[s] = expected.stores[s]
  /\ \A d \in Drafts : IsRow(expected.drafts, d) => actual.drafts[d] = expected.drafts[d]
Reconciled(expected, actual) == expected = actual

DryRun(r) ==
  /\ At(r, "reread")
  /\ IF IsReadable /\ Reconciled(import[r].snap, file.db)
     THEN Goes(r, "passed") ELSE Goes(r, "failed")
  /\ UNCHANGED <<databases, file, bounds>>
-------------------------------------------------------------------------------
(* Import.                                                                 *)

Guard(r) ==
  /\ At(r, "guard")
  /\ IF production THEN Becomes(r, [import[r] EXCEPT !.at = "failed", !.excused = TRUE])
     ELSE Goes(r, "prepare")
  /\ UNCHANGED <<databases, file, bounds>>

(* migratePostgresDatabase leaves the rows, resetPostgresDatabase none.       *)
Prepare(r) ==
  /\ At(r, "prepare")
  /\ IF import[r].reset
     THEN /\ target' = Empty /\ sessions' = {}
          /\ Disturb(r, [import[r] EXCEPT !.at = "begin", !.ended = sessions], OnTarget)
     ELSE UNCHANGED <<target, sessions>> /\ Goes(r, "begin")
  /\ UNCHANGED <<source, file, bounds>>

\* Plausible bug: sessions are deleted before the transaction.
DeleteAtOnce(r) ==
  /\ At(r, "begin") /\ sessions' = {}
  /\ Goes(r, "import")
  /\ UNCHANGED <<source, target, file, bounds>>

(* DELETE FROM user_sessions: those there are by now, if the rest succeeds.   *)
Begin(r) ==
  /\ At(r, "begin")
  /\ Becomes(r, [import[r] EXCEPT !.at = "import", !.cut = sessions])
  /\ UNCHANGED <<databases, file, bounds>>

\* Plausible bug: rows that are there are left as they are.
OldFirst(old, new) == IF old # None THEN old ELSE new
NewFirst(old, new) == IF new # None THEN new ELSE old

Upserted(db, snap) ==
  [stores |-> [s \in Stores |-> NewFirst(db.stores[s], snap.stores[s])],
   drafts |-> [d \in Drafts |-> NewFirst(db.drafts[d], snap.drafts[d])]]

\* Plausible bug: a row is inserted with the draft it revises.
InOneGo(db, snap) == \A d \in Drafts :
  IsRow(snap.drafts, d) /\ snap.drafts[d].revises # None =>
    \/ IsRow(db.drafts, snap.drafts[d].revises)
    \/ IsRow(snap.drafts, snap.drafts[d].revises) /\ snap.drafts[d].revises < d
Deferred(db, snap) == Closed(Upserted(db, snap))

(* Rows of the target that the snapshot has not stay, and are a mismatch.     *)
Other(db, snap) ==
  \/ \E s \in Stores : IsRow(db.stores, s) /\ ~IsRow(snap.stores, s)
  \/ \E d \in Drafts : IsRow(db.drafts, d) /\ ~IsRow(snap.drafts, d)

Commit(r) ==
  /\ At(r, "import") /\ Deferred(target, import[r].snap)
  /\ target' = Upserted(target, import[r].snap)
  /\ sessions' = sessions \ import[r].cut
  /\ Disturb(r, [import[r] EXCEPT !.at = "stores read", !.ended = @ \cup import[r].cut,
       !.excused = Other(target, import[r].snap)], OnTarget)
  /\ UNCHANGED <<source, file, bounds>>

(* A snapshot of a database that was changing may refer to what it lacks: all *)
(* of the transaction is undone.                                            *)
RollBack(r) ==
  /\ At(r, "import") /\ ~Deferred(target, import[r].snap)
  /\ Becomes(r, [import[r] EXCEPT !.at = "failed", !.excused = ~Closed(import[r].snap)])
  /\ UNCHANGED <<databases, file, bounds>>

ReadStores(r) ==
  /\ At(r, "stores read")
  /\ Becomes(r, [import[r] EXCEPT !.at = "drafts read", !.seen.stores = target.stores])
  /\ UNCHANGED <<databases, file, bounds>>

ReadDrafts(r) ==
  /\ At(r, "drafts read")
  /\ LET seen == [import[r].seen EXCEPT !.drafts = target.drafts] IN
     Becomes(r, [import[r] EXCEPT !.seen = seen,
       !.at = IF Reconciled(import[r].snap, seen) THEN "passed" ELSE "failed"])
  /\ UNCHANGED <<databases, file, bounds>>

Break(r) ==
  /\ Active(r)
  /\ Becomes(r, [import[r] EXCEPT !.at = "failed", !.excused = TRUE])
  /\ UNCHANGED <<databases, file, bounds>>
-------------------------------------------------------------------------------
(* The apps.                                                               *)

SourceWrites == \E db \in Worlds :
  /\ writes < MaxWrites /\ writes' = writes + 1
  /\ source' = db
  /\ UNCHANGED <<file, target, production, sessions, begun, import>>

TargetWrites == \E db \in Worlds :
  /\ writes < MaxWrites /\ writes' = writes + 1
  /\ target' = db
  /\ import' = [r \in Runs |->
       [import[r] EXCEPT !.disturbed = @ \/ import[r].at \in OnTarget]]
  /\ UNCHANGED <<source, file, production, sessions, begun>>

SignIn ==
  /\ begun < MaxSessions /\ begun' = begun + 1
  /\ sessions' = sessions \cup {begun'}
  /\ UNCHANGED <<source, file, target, production, import, writes>>

Step(r) ==
  \/ Start(r) \/ CollectStores(r) \/ CollectDrafts(r) \/ WriteExport(r)
  \/ ReadExport(r) \/ DryRun(r) \/ Guard(r) \/ Prepare(r) \/ Begin(r)
  \/ Commit(r) \/ RollBack(r) \/ ReadStores(r) \/ ReadDrafts(r) \/ Break(r)
Next == (\E r \in Runs : Step(r)) \/ SourceWrites \/ TargetWrites \/ SignIn

Spec == Init /\ [][Next]_importVars
-------------------------------------------------------------------------------
(* Properties.                                                             *)

(* Type invariant.                                                         *)
TypeOK ==
  /\ source \in Worlds /\ target \in Database
  /\ production \in BOOLEAN /\ begun \in 0 .. MaxSessions /\ sessions \subseteq 1 .. begun
  /\ \A r \in Runs :
       /\ import[r].at \in {"none", "stores", "drafts", "write", "input", "reread",
            "guard", "prepare", "begin", "import", "stores read", "drafts read",
            "passed", "failed"}
       /\ import[r].excused \in BOOLEAN /\ import[r].disturbed \in BOOLEAN

(* What a run calls reconciled is what it exported: the file as a whole, or   *)
(* the whole target, unless somebody else has written there.                 *)
PassedMeansEqual ==
  \A r \in Runs : At(r, "passed") /\ ~import[r].disturbed =>
    IF import[r].kind = "dry" THEN file.db = import[r].snap ELSE target = import[r].snap

(* A run fails by a cut, a guard, a file that cannot be read, a snapshot torn  *)
(* by a write, rows the target had besides, or a write beside it: never by     *)
(* the order of the rows, nor because it was run before.                     *)
FailureHasReason ==
  \A r \in Runs : At(r, "failed") => import[r].excused \/ import[r].disturbed

(* Sessions end with an import or a reset, all that were there and no others.  *)
SessionsEndWithTheImport ==
  LET ended == UNION {import[r].ended : r \in Runs} IN
  sessions = (1 .. begun) \ ended

(* The target refers to nothing that it lacks.                              *)
TargetIsClosed == Closed(target)

ImportIsSound ==
  /\ PassedMeansEqual /\ FailureHasReason
  /\ SessionsEndWithTheImport /\ TargetIsClosed
===============================================================================
