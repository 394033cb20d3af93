---------------------------- MODULE OperatorScreens ----------------------------
(***************************************************************************)
(* The operator's three screens: the inbox, the queue and the list of stores. *)
(* They share nothing, so a behaviour is one of them: `part` says which, and   *)
(* the others stay as they start.                                           *)
(***************************************************************************)
EXTENDS InboxConsole

CONSTANTS
  Requests, Channels, Flights, MaxClicks, MaxEdits,  \* QueueConsole
  Shops, Lines, Targets, Efforts                   \* StoresConsole

VARIABLES
  part,
  row, detail, selectedId, copyInput, ctaInput, publishChannels, busy, calls,
  wanted, disturbed, jumped, clicks, typed,
  request, clock, cards, setups, pendingId, runningId, orders, told, newest,
  trouble, effort

queueScreen ==
  <<row, detail, selectedId, copyInput, ctaInput, publishChannels, busy, calls,
    wanted, disturbed, jumped, clicks, typed>>
storesScreen ==
  <<request, clock, cards, setups, pendingId, runningId, orders, told, newest,
    trouble, effort>>

Queue == INSTANCE QueueConsole WITH Slots <- Flights
Stores == INSTANCE StoresConsole WITH Nobody <- None

ASSUME ScreensAssumption == Queue!QueueAssumption /\ Stores!StoresAssumption

InitScreens ==
  /\ part \in {"inbox", "queue", "stores"}
  /\ Init /\ Queue!Init /\ Stores!Init

InboxMoves == part = "inbox" /\ Next /\ UNCHANGED <<queueScreen, storesScreen>>
QueueMoves == part = "queue" /\ Queue!Next /\ UNCHANGED <<vars, storesScreen>>
StoresMove == part = "stores" /\ Stores!Next /\ UNCHANGED <<vars, queueScreen>>
NextScreen == (InboxMoves \/ QueueMoves \/ StoresMove) /\ UNCHANGED part

AllScreens == InitScreens /\ [][NextScreen]_<<part, vars, queueScreen, storesScreen>>
-------------------------------------------------------------------------------
(* Properties.                                                             *)

(* The type invariants of the three screens, each in its part: in the others  *)
(* its state is the one it starts with.                                     *)
TypesOK ==
  /\ TypeOK
  /\ part = "queue" => Queue!TypeOK
  /\ part = "stores" => Stores!TypeOK

(* QueueConsole's and StoresConsole's properties, in their parts.            *)
QueueIsSound == part = "queue" => Queue!QueueIsSound
StoresAreSound == part = "stores" => Stores!StoresAreSound
==============================================================================
