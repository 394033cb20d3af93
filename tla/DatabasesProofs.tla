---------------------------- MODULE DatabasesProofs ----------------------------
(***************************************************************************)
(* The schemas of the databases are sound: for every number of commands,      *)
(* migrations, source trees and processes, as they interleave, fail and are   *)
(* cut.                                                                    *)
(***************************************************************************)
EXTENDS Databases, AccountsProofs
-----------------------------------------------------------------------------
(* The migrations of Postgres.                                              *)

(* What a command that no DROP has met knows of the tables as they are.       *)
Unread == {"none", "ensure", "read", "tables", "rows", "drop", "create"}
CommandStands(c) ==
  /\ c.at \in Unread => c.known = Postgres!Nothing /\ c.done = {}
  /\ c.done \subseteq DOMAIN c.files
  /\ \A v \in c.done : \A w \in DOMAIN c.files : w < v => w \in c.done
HoldsIn(c, rows) ==
  /\ \A v \in Versions : c.known[v] # None => rows[v] = c.known[v]
  /\ \A v \in c.done : rows[v] = c.files[v]
  /\ c.at = "ok" => \A v \in DOMAIN c.files : rows[v] = c.files[v]

CommandsStand == \A r \in Commands : CommandStands(command[r])
CommandsKnow ==
  \A r \in Commands : ~command[r].crossed => HoldsIn(command[r], applied)
MigrationsInv == Postgres!TypeOK /\ Postgres!RecordIsTrue /\ CommandsStand /\ CommandsKnow

LEMMA FilesTyped ==
  ASSUME NEW f \in Sources \cup {<<>>}
  PROVE  /\ DOMAIN f \subseteq Versions
         /\ \A v \in DOMAIN f : f[v] \in Sums /\ f[v] # None
<1>1. CASE f = <<>>
  BY <1>1
<1>2. CASE f \in Sources
  BY <1>2, SchemasAssumption DEF Postgres!MigrationsAssumption
<1> QED
  BY <1>1, <1>2

LEMMA NextIsLeast ==
  ASSUME Postgres!TypeOK, NEW r \in Commands, NEW v, Postgres!IsNext(r, v)
  PROVE  /\ v \in DOMAIN command[r].files /\ v \in Versions
         /\ v \notin command[r].done
         /\ \A w \in DOMAIN command[r].files : w < v => w \in command[r].done
<1>1. command[r].files \in Sources \cup {<<>>}
  BY DEF Postgres!TypeOK, Postgres!Progress
<1>2. DOMAIN command[r].files \subseteq Versions
  BY <1>1, FilesTyped
<1>3. Versions \subseteq Nat
  BY SchemasAssumption DEF Postgres!MigrationsAssumption
<1>4. v \in Postgres!Todo(r) /\ \A w \in Postgres!Todo(r) : v <= w
  BY DEF Postgres!IsNext
<1>5. ASSUME NEW w \in DOMAIN command[r].files, w < v PROVE w \in command[r].done
  <2>1. w \in Nat /\ v \in Nat
    BY <1>2, <1>3, <1>4 DEF Postgres!Todo
  <2> QED
    BY <1>4, <1>5, <2>1 DEF Postgres!Todo
<1> QED
  BY <1>2, <1>4, <1>5 DEF Postgres!Todo

LEMMA NothingTyped == Postgres!Nothing \in [Versions -> Sums \cup {None}]
  BY DEF Postgres!Nothing

LEMMA MigrationsInit == Postgres!Init => MigrationsInv
<1> SUFFICES ASSUME Postgres!Init PROVE MigrationsInv
  OBVIOUS
<1>1. Postgres!NoCommand \in Postgres!Progress
  BY NothingTyped DEF Postgres!NoCommand, Postgres!Progress
<1>2. Postgres!TypeOK
  BY <1>1, NothingTyped DEF Postgres!Init, Postgres!TypeOK
<1>3. CommandStands(Postgres!NoCommand)
  BY DEF CommandStands, Postgres!NoCommand, Unread
<1>4. HoldsIn(Postgres!NoCommand, applied)
  BY DEF HoldsIn, Postgres!NoCommand, Postgres!Nothing
<1> QED
  BY <1>2, <1>3, <1>4
  DEF Postgres!Init, MigrationsInv, Postgres!RecordIsTrue, CommandsStand, CommandsKnow

(* One command moves, and rows are only added: what others know stays true.   *)
CommandMoves(r, c) ==
  /\ command' = [command EXCEPT ![r] = c]
  /\ c \in Postgres!Progress /\ CommandStands(c)
OnlyAdds ==
  /\ applied' \in [Versions -> Sums \cup {None}] /\ effect' = applied'
  /\ \A v \in Versions : applied[v] # None => applied'[v] = applied[v]

LEMMA KeptRows ==
  ASSUME NEW c \in Postgres!Progress, CommandStands(c), HoldsIn(c, applied), OnlyAdds
  PROVE  HoldsIn(c, applied')
<1>1. c.files \in Sources \cup {<<>>} /\ c.known \in [Versions -> Sums \cup {None}]
  BY DEF Postgres!Progress
<1>2. DOMAIN c.files \subseteq Versions /\ \A v \in DOMAIN c.files : c.files[v] # None
  BY <1>1, FilesTyped
<1>3. \A v \in Versions : c.known[v] # None => applied'[v] = c.known[v]
  BY DEF HoldsIn, OnlyAdds
<1>4. \A v \in c.done : applied'[v] = c.files[v]
  BY <1>2 DEF HoldsIn, OnlyAdds, CommandStands
<1>5. c.at = "ok" => \A v \in DOMAIN c.files : applied'[v] = c.files[v]
  BY <1>2 DEF HoldsIn, OnlyAdds
<1> QED
  BY <1>3, <1>4, <1>5 DEF HoldsIn

LEMMA CommandKeeps ==
  ASSUME MigrationsInv, NEW r \in Commands, NEW c, CommandMoves(r, c), OnlyAdds,
         public' \in BOOLEAN, logged' \in BOOLEAN,
         ~c.crossed => HoldsIn(c, applied')
  PROVE  MigrationsInv'
<1>1. \A s \in Commands : command'[s] = IF s = r THEN c ELSE command[s]
  BY DEF MigrationsInv, Postgres!TypeOK, CommandMoves
<1>2. command' \in [Commands -> Postgres!Progress]
  BY DEF MigrationsInv, Postgres!TypeOK, CommandMoves
<1>3. Postgres!TypeOK' /\ Postgres!RecordIsTrue'
  BY <1>2 DEF Postgres!TypeOK, Postgres!RecordIsTrue, OnlyAdds
<1>4. CommandsStand'
  BY <1>1 DEF CommandsStand, MigrationsInv, CommandMoves
<1>5. ASSUME NEW s \in Commands, ~command'[s].crossed PROVE HoldsIn(command'[s], applied')
  <2>1. CASE s = r
    BY <1>1, <1>5, <2>1
  <2>2. CASE s # r
    <3>1. command[s] \in Postgres!Progress /\ CommandStands(command[s]) /\ HoldsIn(command[s], applied)
      BY <1>1, <1>5, <2>2
      DEF MigrationsInv, Postgres!TypeOK, CommandsStand, CommandsKnow
    <3> QED
      BY <1>1, <2>2, <3>1, KeptRows
  <2> QED
    BY <2>1, <2>2
<1> QED
  BY <1>3, <1>4, <1>5 DEF MigrationsInv, CommandsKnow

(* A command that moves to another place, with the same locals.               *)
LEMMA PlaceKeeps ==
  ASSUME MigrationsInv, NEW r \in Commands, NEW place, Postgres!Goes(r, place),
         UNCHANGED <<applied, effect>>, public' \in BOOLEAN, logged' \in BOOLEAN,
         place \in {"ensure", "read", "apply", "tables", "rows", "drop", "create",
                 "ok", "failed"},
         place \in Unread => command[r].at \in Unread,
         place = "ok" /\ ~command[r].crossed =>
           \A v \in DOMAIN command[r].files : applied[v] = command[r].files[v]
  PROVE  MigrationsInv'
<1> DEFINE c == [command[r] EXCEPT !.at = place]
<1>1. command[r] \in Postgres!Progress
  BY DEF MigrationsInv, Postgres!TypeOK
<1>2. /\ c \in Postgres!Progress /\ c.at = place /\ c.files = command[r].files
      /\ c.known = command[r].known /\ c.done = command[r].done
      /\ c.crossed = command[r].crossed
  BY <1>1 DEF Postgres!Progress
<1>3. command' = [command EXCEPT ![r] = c]
  BY DEF Postgres!Goes
<1> HIDE DEF c
<1>4. CommandStands(command[r])
  BY DEF MigrationsInv, CommandsStand
<1>5. CommandStands(c)
  BY <1>2, <1>4 DEF CommandStands
<1>6. OnlyAdds
  BY DEF OnlyAdds, MigrationsInv, Postgres!TypeOK, Postgres!RecordIsTrue
<1>7. ~c.crossed => HoldsIn(c, applied')
  BY <1>2 DEF MigrationsInv, CommandsKnow, HoldsIn
<1> QED
  BY <1>2, <1>3, <1>5, <1>6, <1>7, CommandKeeps DEF CommandMoves

LEMMA BeginKeeps ==
  ASSUME MigrationsInv, NEW r \in Commands, Postgres!Begin(r)
  PROVE  MigrationsInv'
<1>1. PICK kind \in {"migrate", "verify", "reset"}, f \in Sources :
        command' = [command EXCEPT ![r] =
          [Postgres!NoCommand EXCEPT !.kind = kind, !.files = f,
             !.at = CASE kind = "migrate" -> "ensure"
                      [] kind = "verify" -> "tables"
                      [] kind = "reset" -> "drop"]]
  BY DEF Postgres!Begin
<1> DEFINE c == [Postgres!NoCommand EXCEPT !.kind = kind, !.files = f,
                   !.at = CASE kind = "migrate" -> "ensure"
                            [] kind = "verify" -> "tables"
                            [] kind = "reset" -> "drop"]
<1>2. /\ c.kind = kind /\ c.files = f /\ c.known = Postgres!Nothing /\ c.done = {}
      /\ c.crossed = FALSE /\ c.at \in {"ensure", "tables", "drop"}
  BY DEF Postgres!NoCommand
<1>3. c \in Postgres!Progress
  BY NothingTyped DEF Postgres!NoCommand, Postgres!Progress
<1> HIDE DEF c
<1>4. CommandStands(c)
  BY <1>2 DEF CommandStands
<1>5. HoldsIn(c, applied')
  BY <1>2 DEF HoldsIn, Postgres!Nothing
<1>6. OnlyAdds
  BY DEF Postgres!Begin, Postgres!database, OnlyAdds, MigrationsInv, Postgres!TypeOK,
         Postgres!RecordIsTrue
<1>7. public' \in BOOLEAN /\ logged' \in BOOLEAN
  BY DEF Postgres!Begin, Postgres!database, MigrationsInv, Postgres!TypeOK
<1>8. CommandMoves(r, c)
  BY <1>1, <1>3, <1>4 DEF CommandMoves, c
<1> QED
  BY <1>5, <1>6, <1>7, <1>8, CommandKeeps

LEMMA ReadAppliedKeeps ==
  ASSUME MigrationsInv, NEW r \in Commands, Postgres!ReadApplied(r)
  PROVE  MigrationsInv'
<1> DEFINE c == [command[r] EXCEPT !.at = "apply", !.known = applied]
<1>1. command[r] \in Postgres!Progress /\ CommandStands(command[r])
  BY DEF MigrationsInv, Postgres!TypeOK, CommandsStand
<1>2. command[r].done = {}
  BY <1>1 DEF Postgres!ReadApplied, Postgres!At, CommandStands, Unread
<1>3. /\ c \in Postgres!Progress /\ c.at = "apply" /\ c.files = command[r].files
      /\ c.known = applied /\ c.done = {}
  BY <1>1, <1>2 DEF Postgres!Progress, MigrationsInv, Postgres!TypeOK
<1>4. command' = [command EXCEPT ![r] = c]
  BY <1>1 DEF Postgres!ReadApplied, Postgres!Progress, MigrationsInv, Postgres!TypeOK
<1> HIDE DEF c
<1>5. CommandStands(c)
  BY <1>3 DEF CommandStands, Unread
<1>6. OnlyAdds /\ public' \in BOOLEAN /\ logged' \in BOOLEAN /\ applied' = applied
  BY DEF Postgres!ReadApplied, Postgres!database, OnlyAdds, MigrationsInv,
         Postgres!TypeOK, Postgres!RecordIsTrue
<1>7. HoldsIn(c, applied')
  BY <1>3, <1>6 DEF HoldsIn
<1> QED
  BY <1>3, <1>4, <1>5, <1>6, <1>7, CommandKeeps DEF CommandMoves

(* A migration that is due is done: its row is the file's.                    *)
LEMMA DoneKeeps ==
  ASSUME MigrationsInv, NEW r \in Commands, NEW v, Postgres!At(r, "apply"),
         Postgres!IsNext(r, v),
         Postgres!Done(r, v), OnlyAdds, public' \in BOOLEAN, logged' \in BOOLEAN,
         ~command[r].crossed => applied'[v] = command[r].files[v]
  PROVE  MigrationsInv'
<1> DEFINE c == [command[r] EXCEPT !.done = @ \cup {v}]
<1>1. command[r] \in Postgres!Progress /\ CommandStands(command[r])
  BY DEF MigrationsInv, Postgres!TypeOK, CommandsStand
<1>2. /\ v \in DOMAIN command[r].files /\ v \in Versions
      /\ \A w \in DOMAIN command[r].files : w < v => w \in command[r].done
  BY NextIsLeast DEF MigrationsInv
<1>3. /\ c \in Postgres!Progress /\ c.at = "apply" /\ c.files = command[r].files
      /\ c.known = command[r].known /\ c.done = command[r].done \cup {v}
      /\ c.crossed = command[r].crossed
  BY <1>1, <1>2 DEF Postgres!Progress, Postgres!At
<1>4. command' = [command EXCEPT ![r] = c]
  BY DEF Postgres!Done
<1> HIDE DEF c
<1>5. CommandStands(c)
  BY <1>1, <1>2, <1>3 DEF CommandStands, Unread
<1>6. ASSUME ~c.crossed PROVE HoldsIn(c, applied')
  <2>1. HoldsIn(command[r], applied)
    BY <1>3, <1>6 DEF MigrationsInv, CommandsKnow
  <2>2. HoldsIn(command[r], applied')
    BY <1>1, <2>1, KeptRows
  <2> QED
    BY <1>3, <1>6, <2>2 DEF HoldsIn
<1> QED
  BY <1>3, <1>4, <1>5, <1>6, CommandKeeps DEF CommandMoves

LEMMA SkipKeeps ==
  ASSUME MigrationsInv, NEW r \in Commands, Postgres!Skip(r)
  PROVE  MigrationsInv'
<1>1. PICK v \in Versions : /\ Postgres!At(r, "apply") /\ Postgres!IsNext(r, v) /\ Postgres!IsApplied(r, v)
                            /\ Postgres!Done(r, v) /\ UNCHANGED Postgres!database
  BY DEF Postgres!Skip
<1>2. OnlyAdds /\ public' \in BOOLEAN /\ logged' \in BOOLEAN /\ applied' = applied
  BY <1>1
  DEF Postgres!database, OnlyAdds, MigrationsInv, Postgres!TypeOK, Postgres!RecordIsTrue
<1>3. v \in DOMAIN command[r].files /\ command[r].files \in Sources \cup {<<>>}
  BY <1>1, NextIsLeast DEF MigrationsInv, Postgres!TypeOK, Postgres!Progress
<1>4. command[r].files[v] # None
  BY <1>3, FilesTyped
<1>5. ~command[r].crossed => applied[v] = command[r].files[v]
  BY <1>1, <1>4 DEF Postgres!IsApplied, MigrationsInv, CommandsKnow, HoldsIn
<1> QED
  BY <1>1, <1>2, <1>5, DoneKeeps

LEMMA ApplyKeeps ==
  ASSUME MigrationsInv, NEW r \in Commands, Postgres!Apply(r)
  PROVE  MigrationsInv'
<1>1. PICK v \in Versions :
        /\ Postgres!At(r, "apply") /\ Postgres!IsNext(r, v) /\ applied[v] = None
        /\ effect' = [effect EXCEPT ![v] = command[r].files[v]]
        /\ applied' = [applied EXCEPT ![v] = command[r].files[v]]
        /\ Postgres!Done(r, v) /\ UNCHANGED <<public, logged>>
  BY DEF Postgres!Apply
<1>2. v \in DOMAIN command[r].files /\ command[r].files \in Sources \cup {<<>>}
  BY <1>1, NextIsLeast DEF MigrationsInv, Postgres!TypeOK, Postgres!Progress
<1>3. command[r].files[v] \in Sums
  BY <1>2, FilesTyped
<1>4. OnlyAdds
  BY <1>1, <1>3 DEF OnlyAdds, MigrationsInv, Postgres!TypeOK, Postgres!RecordIsTrue
<1>5. public' \in BOOLEAN /\ logged' \in BOOLEAN
  BY <1>1 DEF MigrationsInv, Postgres!TypeOK
<1>6. applied'[v] = command[r].files[v]
  BY <1>1 DEF MigrationsInv, Postgres!TypeOK
<1> QED
  BY <1>1, <1>4, <1>5, <1>6, DoneKeeps

LEMMA DropKeeps ==
  ASSUME MigrationsInv, NEW r \in Commands, Postgres!Drop(r)
  PROVE  MigrationsInv'
<1>1. ASSUME NEW s \in Commands
      PROVE  /\ command[s] \in Postgres!Progress /\ CommandStands(command[s])
             /\ command[s].crossed \in BOOLEAN
  BY DEF MigrationsInv, Postgres!TypeOK, CommandsStand, Postgres!Progress
<1>2. ASSUME NEW s \in Commands
      PROVE  /\ command'[s] \in Postgres!Progress /\ CommandStands(command'[s])
             /\ ~command'[s].crossed => HoldsIn(command'[s], applied')
  <2>1. CASE s = r
    <3>1. /\ command'[s] \in Postgres!Progress /\ command'[s].at = "create"
          /\ command'[s].files = command[s].files
          /\ command'[s].known = command[s].known /\ command'[s].done = command[s].done
      BY <1>1, <2>1 DEF Postgres!Drop, Postgres!Progress
    <3>2. command[s].known = Postgres!Nothing /\ command[s].done = {}
      BY <1>1, <2>1 DEF Postgres!Drop, Postgres!At, CommandStands, Unread
    <3> QED
      BY <3>1, <3>2 DEF CommandStands, HoldsIn, Postgres!Nothing
  <2>2. CASE s # r
    <3>1. /\ command'[s] \in Postgres!Progress /\ command'[s].at = command[s].at
          /\ command'[s].files = command[s].files
          /\ command'[s].known = command[s].known /\ command'[s].done = command[s].done
          /\ command'[s].crossed = (command[s].crossed \/ command[s].at # "none")
      BY <1>1, <2>2 DEF Postgres!Drop, Postgres!Progress
    <3>2. CommandStands(command'[s])
      BY <1>1, <3>1 DEF CommandStands
    <3>3. ASSUME ~command'[s].crossed PROVE HoldsIn(command'[s], applied')
      <4>1. command[s].at = "none"
        BY <3>1, <3>3
      <4>2. command[s].known = Postgres!Nothing /\ command[s].done = {}
        BY <1>1, <4>1 DEF CommandStands, Unread
      <4> QED
        BY <3>1, <4>1, <4>2 DEF HoldsIn, Postgres!Nothing
    <3> QED
      BY <3>1, <3>2, <3>3
  <2> QED
    BY <2>1, <2>2
<1>3. command' \in [Commands -> Postgres!Progress]
  <2>1. command' = [s \in Commands |-> command'[s]]
    BY DEF Postgres!Drop
  <2> QED
    BY <1>2, <2>1
<1>4. Postgres!TypeOK' /\ Postgres!RecordIsTrue'
  BY <1>3, NothingTyped DEF Postgres!Drop, Postgres!TypeOK, Postgres!RecordIsTrue
<1> QED
  BY <1>2, <1>4 DEF MigrationsInv, CommandsStand, CommandsKnow

LEMMA PlainKeeps ==
  ASSUME MigrationsInv, NEW r \in Commands,
         \/ Postgres!EnsureLog(r) \/ Postgres!ChecksumDiffers(r) \/ Postgres!Migrated(r)
         \/ Postgres!VerifyTables(r)
         \/ Postgres!VerifyRows(r) \/ Postgres!Create(r) \/ Postgres!Break(r)
  PROVE  MigrationsInv'
<1>1. public \in BOOLEAN /\ logged \in BOOLEAN
  BY DEF MigrationsInv, Postgres!TypeOK
<1>2. CASE Postgres!EnsureLog(r)
  BY <1>1, <1>2, PlaceKeeps DEF Postgres!EnsureLog, Postgres!At, Unread
<1>3. CASE Postgres!ChecksumDiffers(r)
  BY <1>1, <1>3, PlaceKeeps DEF Postgres!ChecksumDiffers, Unread, Postgres!database
<1>4. CASE Postgres!Migrated(r)
  <2>1. ASSUME ~command[r].crossed, NEW v \in DOMAIN command[r].files
        PROVE  applied[v] = command[r].files[v]
    BY <1>4, <2>1
    DEF Postgres!Migrated, Postgres!Todo, MigrationsInv, CommandsKnow, HoldsIn
  <2> QED
    BY <1>1, <1>4, <2>1, PlaceKeeps DEF Postgres!Migrated, Unread, Postgres!database
<1>5. CASE Postgres!VerifyTables(r)
  BY <1>1, <1>5, PlaceKeeps
  DEF Postgres!VerifyTables, Postgres!At, Unread, Postgres!database
<1>6. CASE Postgres!VerifyRows(r)
  BY <1>1, <1>6, PlaceKeeps
  DEF Postgres!VerifyRows, Postgres!IsUpToDate, Unread, Postgres!database
<1>7. CASE Postgres!Create(r)
  BY <1>1, <1>7, PlaceKeeps DEF Postgres!Create, Postgres!At, Unread
<1>8. CASE Postgres!Break(r)
  BY <1>1, <1>8, PlaceKeeps DEF Postgres!Break, Postgres!Fail, Unread, Postgres!database
<1> QED
  BY <1>2, <1>3, <1>4, <1>5, <1>6, <1>7, <1>8

LEMMA MigrationsNextKeeps == MigrationsInv /\ Postgres!Next => MigrationsInv'
<1> SUFFICES ASSUME MigrationsInv, NEW r \in Commands, Postgres!Step(r) PROVE MigrationsInv'
  BY DEF Postgres!Next
<1> QED
  BY BeginKeeps, ReadAppliedKeeps, SkipKeeps, ApplyKeeps, DropKeeps, PlainKeeps
  DEF Postgres!Step

LEMMA MigrationsSound == MigrationsInv => Postgres!TypeOK /\ Postgres!SchemaIsSound
<1> SUFFICES ASSUME MigrationsInv PROVE Postgres!SchemaIsSound
  BY DEF MigrationsInv
<1>1. Postgres!YesMeansApplied
  BY DEF Postgres!YesMeansApplied, MigrationsInv, CommandsKnow, HoldsIn,
         Postgres!RecordIsTrue
<1>2. Postgres!InOrder
  BY DEF Postgres!InOrder, MigrationsInv, CommandsKnow, CommandsStand, CommandStands,
         HoldsIn
<1> QED
  BY <1>1, <1>2 DEF Postgres!SchemaIsSound, MigrationsInv

LEMMA MigrationsStutter ==
  ASSUME MigrationsInv, UNCHANGED migrations
  PROVE  MigrationsInv'
<1>1. UNCHANGED <<public, logged, applied, effect, command>>
  BY DEF migrations
<1>2. Postgres!TypeOK' /\ Postgres!RecordIsTrue'
  BY <1>1 DEF MigrationsInv, Postgres!TypeOK, Postgres!RecordIsTrue
<1>3. CommandsStand' /\ CommandsKnow'
  BY <1>1 DEF MigrationsInv, CommandsStand, CommandsKnow
<1> QED
  BY <1>2, <1>3 DEF MigrationsInv
-----------------------------------------------------------------------------
(* The opening of a SQLite file.                                            *)

(* Where a connection stands tells the shape of the file, as tables and       *)
(* columns only come, and whether it enforces foreign keys.                  *)
Placed(where, on) ==
  /\ where \in {"look", "rebuild", "column", "alter", "open"} => created
  /\ where \in {"column", "alter", "open"} => wide
  /\ where = "open" => column
  /\ where = "rebuild" => ~on
  /\ where \in {"files", "look", "column", "alter", "open"} => on
Here(where) == where # "closed" /\ where # "failed"

ConnectionsPlaced == \A p \in Processes : Placed(connection[p], enforced[p])
AloneIsAlone ==
  \A p \in alone : Here(connection[p]) =>
    /\ \A q \in Processes \ {p} : ~Here(connection[q])
    /\ connection[p] = "alter" => ~column
FileInv ==
  /\ Sqlite!TypeOK /\ alone \subseteq Processes /\ Sqlite!RowsSurvive
  /\ ConnectionsPlaced /\ AloneIsAlone /\ Sqlite!FailsOnlyInARace

LEMMA FileInit == Sqlite!Init => FileInv
<1> SUFFICES ASSUME Sqlite!Init PROVE FileInv
  OBVIOUS
<1>1. conversations \subseteq Conversations
  BY DEF Sqlite!Init
<1>2. created \in BOOLEAN /\ wide \in BOOLEAN /\ column \in BOOLEAN
  BY DEF Sqlite!Init
<1>3. messages \subseteq conversations /\ opens \in 0 .. MaxOpens
  BY SchemasAssumption DEF Sqlite!Init, Sqlite!SchemaAssumption
<1>4. connection \in [Processes -> Sqlite!Opening \cup {"closed", "open", "failed"}]
  BY DEF Sqlite!Init
<1>5. enforced \in [Processes -> BOOLEAN]
  BY DEF Sqlite!Init
<1>6. Sqlite!TypeOK
  BY <1>1, <1>2, <1>3, <1>4, <1>5 DEF Sqlite!TypeOK
<1> QED
  BY <1>6 DEF Sqlite!Init, FileInv, Sqlite!RowsSurvive, ConnectionsPlaced, Placed,
              AloneIsAlone, Here,
              Sqlite!FailsOnlyInARace

(* One connection goes on to a place: no other is disturbed, as shapes are     *)
(* kept and those that are alone stay so.                                   *)
GoesOn(p, where, on) ==
  /\ Here(connection[p]) /\ where \in Sqlite!Opening \cup {"closed", "open", "failed"}
  /\ connection' = [connection EXCEPT ![p] = where] /\ enforced' = [enforced EXCEPT ![p] = on]
  /\ on \in BOOLEAN /\ Placed(where, on)'
  /\ created' \in BOOLEAN /\ wide' \in BOOLEAN /\ column' \in BOOLEAN
  /\ created => created' 
  /\ wide => wide'
  /\ column => column'
  /\ where = "failed" => p \in excused'
  /\ excused \subseteq excused'
  /\ where = "alter" /\ p \in alone => ~column'
  /\ UNCHANGED <<opens, alone>>

LEMMA GoesOnKeeps ==
  ASSUME FileInv, NEW p \in Processes, NEW where, NEW on, GoesOn(p, where, on),
         conversations' \subseteq Conversations, messages' \subseteq conversations',
         Sqlite!RowsSurvive'
  PROVE  FileInv'
<1>1. /\ \A q \in Processes : connection'[q] = IF q = p THEN where ELSE connection[q]
      /\ \A q \in Processes : enforced'[q] = IF q = p THEN on ELSE enforced[q]
  BY DEF GoesOn, FileInv, Sqlite!TypeOK
<1>2. Sqlite!TypeOK'
  BY DEF GoesOn, FileInv, Sqlite!TypeOK
<1>3. ConnectionsPlaced'
  <2> SUFFICES ASSUME NEW q \in Processes PROVE Placed(connection[q], enforced[q])'
    BY DEF ConnectionsPlaced
  <2>1. CASE q = p
    BY <1>1, <2>1 DEF GoesOn, Placed
  <2>2. CASE q # p
    BY <1>1, <2>2 DEF GoesOn, FileInv, ConnectionsPlaced, Placed
  <2> QED
    BY <2>1, <2>2
<1>4. AloneIsAlone'
  <2> SUFFICES ASSUME NEW a \in alone', Here(connection'[a])
               PROVE  /\ \A q \in Processes \ {a} : ~Here(connection'[q])
                      /\ connection'[a] = "alter" => ~column'
    BY DEF AloneIsAlone, Here
  <2>1. a \in alone /\ a \in Processes
    BY DEF GoesOn, FileInv
  <2>2. CASE a = p
    BY <1>1, <2>1, <2>2 DEF GoesOn, FileInv, AloneIsAlone, Here
  <2>3. CASE a # p
    BY <1>1, <2>1, <2>3 DEF GoesOn, FileInv, AloneIsAlone, Here
  <2> QED
    BY <2>2, <2>3
<1>5. Sqlite!FailsOnlyInARace'
  BY <1>1 DEF GoesOn, FileInv, Sqlite!FailsOnlyInARace
<1>6. (alone \subseteq Processes)'
  BY DEF GoesOn, FileInv
<1> QED
  BY <1>2, <1>3, <1>4, <1>5, <1>6 DEF FileInv

LEMMA OpenKeeps ==
  ASSUME FileInv, NEW p \in Processes, Sqlite!OpenDatabase(p)
  PROVE  FileInv'
<1>1. /\ \A q \in Processes : connection'[q] = IF q = p THEN "files" ELSE connection[q]
      /\ \A q \in Processes : enforced'[q] = IF q = p THEN TRUE ELSE enforced[q]
  BY DEF Sqlite!OpenDatabase, Sqlite!Goes, FileInv, Sqlite!TypeOK
<1>2. UNCHANGED <<created, wide, column, conversations, messages, told>>
  BY DEF Sqlite!OpenDatabase, Sqlite!schema, Sqlite!content
<1>3. opens' \in 0 .. MaxOpens
  BY SchemasAssumption
  DEF Sqlite!OpenDatabase, FileInv, Sqlite!TypeOK, Sqlite!SchemaAssumption
<1>4. Sqlite!TypeOK'
  BY <1>2, <1>3
  DEF Sqlite!OpenDatabase, Sqlite!Goes, Sqlite!Opening, FileInv, Sqlite!TypeOK
<1>5. Sqlite!RowsSurvive'
  BY <1>2 DEF FileInv, Sqlite!RowsSurvive, Sqlite!Rows
<1>6. ConnectionsPlaced'
  <2> SUFFICES ASSUME NEW q \in Processes PROVE Placed(connection[q], enforced[q])'
    BY DEF ConnectionsPlaced
  <2>1. Placed(connection[q], enforced[q])
    BY DEF FileInv, ConnectionsPlaced
  <2> QED
    BY <1>1, <1>2, <2>1 DEF Placed
<1>7. alone' = IF Sqlite!Others(p) = {} THEN alone \cup {p} ELSE alone \ ({p} \cup Sqlite!Others(p))
  BY DEF Sqlite!OpenDatabase
<1>8. \A q \in Processes \ {p} : q \in Sqlite!Others(p) <=> Here(connection[q])
  BY DEF Sqlite!Others, Here
<1>9. AloneIsAlone'
  <2> SUFFICES ASSUME NEW a \in alone', Here(connection'[a])
               PROVE  /\ \A q \in Processes \ {a} : ~Here(connection'[q])
                      /\ connection'[a] = "alter" => ~column'
    BY DEF AloneIsAlone, Here
  <2>1. CASE a = p
    <3>1. Sqlite!Others(p) = {}
      BY <1>7, <2>1
    <3> QED
      BY <1>1, <1>8, <2>1, <3>1
  <2>2. CASE a # p
    <3>1. a \in alone /\ a \in Processes /\ Here(connection[a])
      BY <1>1, <1>7, <2>2 DEF FileInv
    <3>2. a \in Sqlite!Others(p)
      BY <1>8, <2>2, <3>1
    <3> QED
      BY <1>7, <3>2
  <2> QED
    BY <2>1, <2>2
<1>10. Sqlite!FailsOnlyInARace'
  BY <1>1 DEF Sqlite!OpenDatabase, FileInv, Sqlite!FailsOnlyInARace
<1>11. (alone \subseteq Processes)'
  BY <1>7 DEF FileInv
<1> QED
  BY <1>4, <1>5, <1>6, <1>9, <1>10, <1>11 DEF FileInv

(* A step that touches no row.                                             *)
LEMMA SameRows ==
  ASSUME FileInv, UNCHANGED <<conversations, messages, told>>
  PROVE  /\ conversations' \subseteq Conversations /\ messages' \subseteq conversations'
         /\ Sqlite!RowsSurvive'
  BY DEF FileInv, Sqlite!TypeOK, Sqlite!RowsSurvive, Sqlite!Rows

LEMMA PlacedHere ==
  ASSUME FileInv, NEW p \in Processes
  PROVE  /\ Placed(connection[p], enforced[p]) /\ enforced[p] \in BOOLEAN
         /\ created \in BOOLEAN /\ wide \in BOOLEAN /\ column \in BOOLEAN
         /\ enforced = [enforced EXCEPT ![p] = enforced[p]]
  BY DEF FileInv, Sqlite!TypeOK, ConnectionsPlaced

LEMMA OpeningKeeps ==
  ASSUME FileInv, NEW p \in Processes,
         \/ Sqlite!RunFiles(p) \/ Sqlite!LookAtCheck(p) \/ Sqlite!EnsureColumn(p)
         \/ Sqlite!AddColumn(p)
         \/ Sqlite!DuplicateColumn(p) \/ Sqlite!Cut(p) \/ Sqlite!Close(p)
  PROVE  FileInv'
<1>1. UNCHANGED <<conversations, messages, told>>
  BY DEF Sqlite!RunFiles, Sqlite!LookAtCheck, Sqlite!EnsureColumn, Sqlite!AddColumn,
         Sqlite!DuplicateColumn, Sqlite!Cut, Sqlite!Close, Sqlite!content
<1>2. /\ Placed(connection[p], enforced[p]) /\ enforced[p] \in BOOLEAN
      /\ created \in BOOLEAN /\ wide \in BOOLEAN /\ column \in BOOLEAN
      /\ enforced = [enforced EXCEPT ![p] = enforced[p]]
  BY PlacedHere
<1>3. CASE Sqlite!RunFiles(p)
  <2>1. GoesOn(p, "look", enforced[p])
    BY <1>2, <1>3 DEF Sqlite!RunFiles, Sqlite!Goes, GoesOn, Here, Sqlite!Opening, Placed
  <2> QED
    BY <1>1, <2>1, SameRows, GoesOnKeeps
<1>4. CASE Sqlite!LookAtCheck(p) /\ wide
  <2>1. GoesOn(p, "column", enforced[p])
    BY <1>2, <1>4 DEF Sqlite!LookAtCheck, Sqlite!Goes, GoesOn, Here, Sqlite!Opening,
                      Placed, Sqlite!schema
  <2> QED
    BY <1>1, <2>1, SameRows, GoesOnKeeps
<1>5. CASE Sqlite!LookAtCheck(p) /\ ~wide
  <2>1. GoesOn(p, "rebuild", FALSE)
    BY <1>2, <1>5 DEF Sqlite!LookAtCheck, Sqlite!Goes, GoesOn, Here, Sqlite!Opening,
                      Placed, Sqlite!schema, Sqlite!OffForRebuild
  <2> QED
    BY <1>1, <2>1, SameRows, GoesOnKeeps
<1>6. CASE Sqlite!EnsureColumn(p)
  <2>1. GoesOn(p, IF column THEN "open" ELSE "alter", enforced[p])
    BY <1>2, <1>6 DEF Sqlite!EnsureColumn, Sqlite!HasColumn, Sqlite!Goes, GoesOn, Here,
                      Sqlite!Opening, Placed, Sqlite!schema
  <2> QED
    BY <1>1, <2>1, SameRows, GoesOnKeeps
<1>7. CASE Sqlite!AddColumn(p)
  <2>1. GoesOn(p, "open", enforced[p])
    BY <1>2, <1>7
    DEF Sqlite!AddColumn, Sqlite!Goes, GoesOn, Here, Sqlite!Opening, Placed
  <2> QED
    BY <1>1, <2>1, SameRows, GoesOnKeeps
<1>8. CASE Sqlite!DuplicateColumn(p)
  <2>1. p \notin alone
    BY <1>8 DEF Sqlite!DuplicateColumn, FileInv, AloneIsAlone, Here
  <2>2. GoesOn(p, "failed", enforced[p])
    BY <1>2, <1>8, <2>1 DEF Sqlite!DuplicateColumn, Sqlite!Goes, GoesOn, Here,
                            Sqlite!Opening, Placed, Sqlite!schema
  <2> QED
    BY <1>1, <2>2, SameRows, GoesOnKeeps
<1>9. CASE Sqlite!Cut(p)
  <2>1. GoesOn(p, "failed", enforced[p])
    BY <1>2, <1>9
    DEF Sqlite!Cut, Sqlite!Goes, GoesOn, Here, Sqlite!Opening, Placed, Sqlite!schema
  <2> QED
    BY <1>1, <2>1, SameRows, GoesOnKeeps
<1>10. CASE Sqlite!Close(p)
  <2>1. GoesOn(p, "closed", enforced[p])
    BY <1>2, <1>10
    DEF Sqlite!Close, Sqlite!Goes, GoesOn, Here, Sqlite!Opening, Placed, Sqlite!schema
  <2> QED
    BY <1>1, <2>1, SameRows, GoesOnKeeps
<1> QED
  BY <1>3, <1>4, <1>5, <1>6, <1>7, <1>8, <1>9, <1>10

LEMMA RebuildKeeps ==
  ASSUME FileInv, NEW p \in Processes, Sqlite!Rebuild(p)
  PROVE  FileInv'
<1>1. /\ Placed(connection[p], enforced[p]) /\ enforced[p] \in BOOLEAN
      /\ created \in BOOLEAN /\ wide \in BOOLEAN /\ column \in BOOLEAN
  BY PlacedHere
<1>2. ~enforced[p]
  BY <1>1 DEF Sqlite!Rebuild, Placed
<1>3. UNCHANGED <<conversations, messages, told>>
  BY <1>2 DEF Sqlite!Rebuild, Sqlite!Copied, Sqlite!Kept
<1>4. GoesOn(p, "column", TRUE)
  BY <1>1 DEF Sqlite!Rebuild, Sqlite!Goes, GoesOn, Here, Sqlite!Opening, Placed
<1> QED
  BY <1>3, <1>4, SameRows, GoesOnKeeps

LEMMA InsertKeeps ==
  ASSUME FileInv, NEW p \in Processes, Sqlite!Insert(p)
  PROVE  FileInv'
<1>1. PICK c \in Conversations :
        /\ connection[p] = "open"
        /\ \/ /\ c \notin conversations /\ conversations' = conversations \cup {c}
              /\ UNCHANGED messages
           \/ /\ c \in conversations /\ c \notin messages /\ messages' = messages \cup {c}
              /\ UNCHANGED conversations
        /\ told' = told \cup Sqlite!Rows'
        /\ UNCHANGED <<Sqlite!schema, connection, enforced, opens, alone, excused>>
  BY DEF Sqlite!Insert
<1>2. /\ Placed(connection[p], enforced[p]) /\ enforced[p] \in BOOLEAN
      /\ created \in BOOLEAN /\ wide \in BOOLEAN /\ column \in BOOLEAN
      /\ enforced = [enforced EXCEPT ![p] = enforced[p]]
  BY PlacedHere
<1>3. conversations' \subseteq Conversations /\ messages' \subseteq conversations'
  BY <1>1 DEF FileInv, Sqlite!TypeOK
<1>4. conversations \subseteq conversations' /\ messages \subseteq messages'
  BY <1>1
<1>5. Sqlite!Rows \subseteq Sqlite!Rows'
  BY <1>4 DEF Sqlite!Rows
<1>6. Sqlite!RowsSurvive'
  BY <1>1, <1>5 DEF FileInv, Sqlite!RowsSurvive
<1>7. connection = [connection EXCEPT ![p] = connection[p]]
  BY DEF FileInv, Sqlite!TypeOK
<1>8. GoesOn(p, connection[p], enforced[p])
  BY <1>1, <1>2, <1>7 DEF GoesOn, Here, Sqlite!Opening, Placed, Sqlite!schema
<1> QED
  BY <1>3, <1>6, <1>8, GoesOnKeeps

LEMMA FileNextKeeps == FileInv /\ Sqlite!Next => FileInv'
<1> SUFFICES ASSUME FileInv, NEW p \in Processes, Sqlite!Step(p) PROVE FileInv'
  BY DEF Sqlite!Next
<1> QED
  BY OpenKeeps, OpeningKeeps, RebuildKeeps, InsertKeeps DEF Sqlite!Step

LEMMA FileSound == FileInv => Sqlite!TypeOK /\ Sqlite!FileIsSound
  BY DEF FileInv, Sqlite!FileIsSound, Sqlite!OpenIsUpToDate, ConnectionsPlaced, Placed

LEMMA FileStutter ==
  ASSUME FileInv, UNCHANGED sqlite
  PROVE  FileInv'
<1>1. UNCHANGED <<created, wide, column, conversations, messages, connection, enforced,
                  opens, told, alone, excused>>
  BY DEF sqlite
<1>2. Sqlite!TypeOK' /\ Sqlite!RowsSurvive' /\ Sqlite!FailsOnlyInARace'
  BY <1>1 DEF FileInv, Sqlite!TypeOK, Sqlite!RowsSurvive, Sqlite!Rows,
              Sqlite!FailsOnlyInARace
<1>3. ConnectionsPlaced' /\ AloneIsAlone'
  BY <1>1 DEF FileInv, ConnectionsPlaced, Placed, AloneIsAlone, Here
<1>4. (alone \subseteq Processes)'
  BY <1>1 DEF FileInv
<1> QED
  BY <1>2, <1>3, <1>4 DEF FileInv

-----------------------------------------------------------------------------
DatabasesInv ==
  /\ TypeOK /\ AccountsAreSound
  /\ part = "postgres" => MigrationsInv
  /\ part = "sqlite" => FileInv

LEMMA DatabasesInit == InitParts => DatabasesInv
  BY InitTyped, InitSound, MigrationsInit, FileInit DEF InitParts, DatabasesInv

LEMMA DatabasesKeep ==
  DatabasesInv /\ [NextPart]_<<part, vars, migrations, sqlite>> => DatabasesInv'
<1> SUFFICES ASSUME DatabasesInv, [NextPart]_<<part, vars, migrations, sqlite>>
             PROVE  DatabasesInv'
  OBVIOUS
<1>1. UNCHANGED part
  BY DEF NextPart
<1>2. TypeOK' /\ AccountsAreSound'
  <2>1. [Next]_vars
    BY DEF NextPart, AccountsMove, PostgresMoves, SqliteMoves
  <2> QED
    BY <2>1, NextKeeps DEF DatabasesInv
<1>3. ASSUME part = "postgres" PROVE MigrationsInv'
  <2>1. Postgres!Next \/ UNCHANGED migrations
    BY <1>3 DEF NextPart, AccountsMove, PostgresMoves, SqliteMoves
  <2> QED
    BY <1>3, <2>1, MigrationsNextKeeps, MigrationsStutter DEF DatabasesInv
<1>4. ASSUME part = "sqlite" PROVE FileInv'
  <2>1. Sqlite!Next \/ UNCHANGED sqlite
    BY <1>4 DEF NextPart, AccountsMove, PostgresMoves, SqliteMoves
  <2> QED
    BY <1>4, <2>1, FileNextKeeps, FileStutter DEF DatabasesInv
<1> QED
  BY <1>1, <1>2, <1>3, <1>4 DEF DatabasesInv

LEMMA DatabasesSound ==
  DatabasesInv => TypesOK /\ AccountsAreSound /\ NoCircleOfWaits /\ SchemasAreSound
  BY SoundMeansNoCircle, MigrationsSound, FileSound
  DEF DatabasesInv, TypesOK, SchemasAreSound

(* Accounts, commands and connections are of their types in every state.      *)
THEOREM TypesCorrect == AccountsAndSchemas => []TypesOK
<1>1. InitParts => DatabasesInv
  BY DatabasesInit
<1> QED
  BY <1>1, DatabasesKeep, DatabasesSound, PTL DEF AccountsAndSchemas

(* Accounts are sound, and nobody waits in a circle, in every behaviour of the  *)
(* three parts.                                                            *)
THEOREM AccountsSoundThroughout ==
  AccountsAndSchemas => [](AccountsAreSound /\ NoCircleOfWaits)
<1>1. InitParts => DatabasesInv
  BY DatabasesInit
<1> QED
  BY <1>1, DatabasesKeep, DatabasesSound, PTL DEF AccountsAndSchemas

(* What is recorded of the Postgres schema is what it holds, a command that    *)
(* said yes stands on all migrations of its source, in their order; a SQLite   *)
(* file keeps every row while any number of connections upgrade it, an open    *)
(* connection sees the shape its code was written for, and opening fails only  *)
(* in a race or by a cut.  Inductive with what a command has read and done,    *)
(* and with where each connection stands.                                   *)
THEOREM SchemasStaySound == AccountsAndSchemas => []SchemasAreSound
<1>1. InitParts => DatabasesInv
  BY DatabasesInit
<1> QED
  BY <1>1, DatabasesKeep, DatabasesSound, PTL DEF AccountsAndSchemas
===============================================================================
