----------------------------- MODULE SqliteSchema -----------------------------
(***************************************************************************)
(* A SQLite file has no list of applied migrations: every connection of every *)
(* process that opens it runs all of applyMigrations (packages/db/src/        *)
(* sqlite.ts), and each helper looks before it changes anything.  A statement *)
(* is atomic among processes, what lies between two is not.                  *)
(*                                                                         *)
(* cs_conversations stands for the tables that are rebuilt to widen a CHECK,   *)
(* cs_messages for the tables that refer to one and for those that get a       *)
(* column.                                                                 *)
(***************************************************************************)
EXTENDS Integers, FiniteSets

CONSTANTS
  Processes,
  Conversations,
  MaxOpens       \* bound: connections opened

SchemaAssumption ==
  IsFiniteSet(Processes) /\ MaxOpens \in Nat

VARIABLES
  created, wide, column, \* the file: tables, the widened CHECK, the new column
  conversations,         \* rows of cs_conversations
  messages,              \* rows of cs_messages, by their conversation
  at, enforced,          \* of a connection: where it is; pragma foreign_keys
  opens,                 \* the number of connections opened
  told,                  \* history: the rows that were there or were inserted
  alone, excused         \* history: connections that met no other, and failures
                         \* that another connection or a cut explains

schema == <<created, wide, column>>
content == <<conversations, messages>>
sqliteVars == <<schema, content, at, enforced, opens, told, alone, excused>>

Rows == {<<"conversation", c>> : c \in conversations}
          \cup {<<"message", c>> : c \in messages}
Opening == {"files", "look", "rebuild", "column", "alter"}

Init ==
  /\ created \in BOOLEAN /\ wide = FALSE /\ column = FALSE
  /\ conversations \in (IF created THEN {{}} \cup {{c} : c \in Conversations} ELSE {{}})
  /\ messages \in SUBSET conversations
  /\ at = [p \in Processes |-> "closed"] /\ enforced = [p \in Processes |-> TRUE]
  /\ opens = 0 /\ told = Rows /\ alone = Processes /\ excused = {}

Goes(p, where) == at' = [at EXCEPT ![p] = where]
Others(p) == {q \in Processes \ {p} : at[q] # "closed" /\ at[q] # "failed"}
-------------------------------------------------------------------------------
OpenDatabase(p) ==
  /\ at[p] \in {"closed", "failed"} /\ opens < MaxOpens
  /\ Goes(p, "files") /\ opens' = opens + 1
  /\ enforced' = [enforced EXCEPT ![p] = TRUE]
  /\ alone' = IF Others(p) = {} THEN alone \cup {p} ELSE alone \ ({p} \cup Others(p))
  /\ excused' = excused \ {p}
  /\ UNCHANGED <<schema, content, told>>

(* CREATE TABLE IF NOT EXISTS, in the shape of the first release.            *)
RunFiles(p) ==
  /\ at[p] = "files" /\ Goes(p, "look")
  /\ created' = TRUE
  /\ UNCHANGED <<wide, column, content, enforced, opens, told, alone, excused>>

\* Plausible bug: foreign keys are enforced while the table is dropped.
StayOn == TRUE
OffForRebuild == FALSE

(* The CHECK is read, and foreign keys are switched off for a rebuild.       *)
LookAtCheck(p) ==
  /\ at[p] = "look"
  /\ IF wide THEN Goes(p, "column") /\ UNCHANGED enforced
     ELSE Goes(p, "rebuild") /\ enforced' = [enforced EXCEPT ![p] = OffForRebuild]
  /\ UNCHANGED <<schema, content, opens, told, alone, excused>>

(* A table that is dropped deletes its rows, and what refers to them where    *)
(* foreign keys are enforced.                                               *)
Kept(p) == IF enforced[p] THEN messages \ conversations ELSE messages

\* Plausible bug: the rows are not copied.
EmptyTable == {}
Copied == conversations

(* BEGIN; create, copy, drop, rename; COMMIT: and again when another has       *)
(* rebuilt the table since the look.                                        *)
Rebuild(p) ==
  /\ at[p] = "rebuild" /\ Goes(p, "column")
  /\ wide' = TRUE /\ conversations' = Copied /\ messages' = Kept(p)
  /\ enforced' = [enforced EXCEPT ![p] = TRUE]
  /\ UNCHANGED <<created, column, opens, told, alone, excused>>

\* Plausible bug: the column is added without a look.
NoLook == FALSE
HasColumn == column

EnsureColumn(p) ==
  /\ at[p] = "column"
  /\ IF HasColumn THEN Goes(p, "open") ELSE Goes(p, "alter")
  /\ UNCHANGED <<schema, content, enforced, opens, told, alone, excused>>

AddColumn(p) ==
  /\ at[p] = "alter" /\ ~column
  /\ column' = TRUE /\ Goes(p, "open")
  /\ UNCHANGED <<created, wide, content, enforced, opens, told, alone, excused>>

(* ALTER TABLE refuses a column that is there.                              *)
DuplicateColumn(p) ==
  /\ at[p] = "alter" /\ column
  /\ Goes(p, "failed")
  /\ excused' = IF p \in alone THEN excused ELSE excused \cup {p}
  /\ UNCHANGED <<schema, content, enforced, opens, told, alone>>

(* Locked for too long, or the process is cut: a transaction is undone.      *)
Cut(p) ==
  /\ at[p] \in Opening
  /\ Goes(p, "failed") /\ excused' = excused \cup {p}
  /\ UNCHANGED <<schema, content, enforced, opens, told, alone>>
-------------------------------------------------------------------------------
(* An open connection writes and is closed.                                 *)

Insert(p) == \E c \in Conversations :
  /\ at[p] = "open"
  /\ \/ c \notin conversations /\ conversations' = conversations \cup {c}
        /\ UNCHANGED messages
     \/ c \in conversations /\ c \notin messages /\ messages' = messages \cup {c}
        /\ UNCHANGED conversations
  /\ told' = told \cup Rows'
  /\ UNCHANGED <<schema, at, enforced, opens, alone, excused>>

Close(p) ==
  /\ at[p] = "open" /\ Goes(p, "closed")
  /\ UNCHANGED <<schema, content, enforced, opens, told, alone, excused>>

Step(p) ==
  \/ OpenDatabase(p) \/ RunFiles(p) \/ LookAtCheck(p) \/ Rebuild(p)
  \/ EnsureColumn(p) \/ AddColumn(p) \/ DuplicateColumn(p) \/ Cut(p)
  \/ Insert(p) \/ Close(p)
Next == \E p \in Processes : Step(p)

Spec == Init /\ [][Next]_sqliteVars
-------------------------------------------------------------------------------
(* Properties.                                                             *)

(* Type invariant.                                                         *)
TypeOK ==
  /\ <<created, wide, column>> \in BOOLEAN \X BOOLEAN \X BOOLEAN
  /\ conversations \subseteq Conversations /\ messages \subseteq conversations
  /\ at \in [Processes -> Opening \cup {"closed", "open", "failed"}]
  /\ enforced \in [Processes -> BOOLEAN] /\ opens \in 0 .. MaxOpens

(* No row is lost to a rebuild: neither those of the table, nor those that    *)
(* refer to it, nor one inserted since the look.                            *)
RowsSurvive == Rows = told

(* A connection that is open sees the shape its code was written for, though  *)
(* others that looked earlier are still at work, and enforces foreign keys.   *)
OpenIsUpToDate ==
  \A p \in Processes : at[p] = "open" => created /\ wide /\ column /\ enforced[p]

(* A file is opened again and again without error; opening fails only beside  *)
(* another connection or by a cut.                                         *)
FailsOnlyInARace == \A p \in Processes : at[p] = "failed" => p \in excused

FileIsSound == RowsSurvive /\ OpenIsUpToDate /\ FailsOnlyInARace
===============================================================================
