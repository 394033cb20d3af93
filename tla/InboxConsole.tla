----------------------------- MODULE InboxConsole -----------------------------
(***************************************************************************)
(* The operator's inbox screen (inbox-console.tsx): one conversation is      *)
(* selected and polled, its AI draft is edited, and the operator's requests  *)
(* are answered while polls of several ages are in flight.                   *)
(*                                                                         *)
(* Tickets are counters in the code; only their order against the applied   *)
(* watermark is used, so a poll here knows whether a later ticket has been  *)
(* applied (superseded) and which of the others in flight are older.         *)
(***************************************************************************)
EXTENDS Integers, FiniteSets

CONSTANTS
  Convs, Drafts,
  Ticks,         \* polls of the interval
  Own,           \* the poll an action waits for
  PageSize,      \* messages a poll brings at most
  None,
  Budgets        \* bound: changes by others, clicks of the operator, requests
                 \* that fail, and interval polls in flight together

Slots == Ticks \cup {Own}
Modes == {"ai", "human"}
Kinds == {"reply", "mode", "assign", "resolve", "send", "discard"}

Heads == [conv : Convs, mode : Modes, status : {"open", "resolved"}, version : Nat]
Conversations == [mode : Modes, status : {"open", "resolved"}, version : Nat,
                  length : Nat, draft : Drafts \cup {None}]
Texts == [of : Drafts \cup {None}, edited : BOOLEAN]
Panels == [selected : Convs \cup {None}, head : Heads \cup {None},
           confirmed : BOOLEAN, shown : SUBSET Nat, cursor : Nat,
           pending : Drafts \cup {None}, draftId : Drafts \cup {None}, text : Texts]
Polls == [stage : {"idle", "sent", "read"}, conv : Convs \cup {None}, cursor : Nat,
          superseded : BOOLEAN, head : Heads \cup {None}, upto : Nat,
          draft : Drafts \cup {None}]
Acts == [kind : Kinds \cup {None}, stage : {"idle", "sent", "ok", "refused", "polling"},
         conv : Convs \cup {None}, mode : Modes \cup {None},
         draft : Drafts \cup {None}, head : Heads \cup {None}]

ASSUME ConsoleAssumption ==
  /\ Own \notin Ticks /\ PageSize \in Nat \ {0}
  /\ None \notin Convs \cup Drafts \cup Slots \cup Heads \cup Kinds
  /\ Budgets \subseteq [changes : Nat, clicks : Nat, cuts : Nat, ticks : Nat]

VARIABLES
  server,        \* the conversations: mode, status, length, pending draft
  used,          \* draft ids the assistant has used
  screen,        \* what the operator sees and the refs beside it
  poll, older,   \* the polls in flight, and for each those issued before it
  act,           \* the operator's request in flight: busy
  acted, gone,   \* history: version of the last own change applied to this
                 \* selection, drafts the operator was told are gone
  budget         \* bound: what may still happen

vars == <<server, used, screen, poll, older, act, acted, gone, budget>>

Unsent == [stage |-> "idle", conv |-> None, cursor |-> 0, superseded |-> FALSE,
           head |-> None, upto |-> 0, draft |-> None]
Quiet == [kind |-> None, stage |-> "idle", conv |-> None, mode |-> None,
          draft |-> None, head |-> None]
NoText == [of |-> None, edited |-> FALSE]
Blank == [selected |-> None, head |-> None, confirmed |-> FALSE, shown |-> {},
          cursor |-> 0, pending |-> None, draftId |-> None, text |-> NoText]

TypeOK ==
  /\ server \in [Convs -> Conversations]
  /\ used \subseteq Drafts /\ gone \subseteq used
  /\ screen \in Panels
  /\ poll \in [Slots -> Polls] /\ act \in Acts
  /\ older \in [Slots -> SUBSET Slots]
  /\ \A s \in Slots : older[s] # {} => poll[s] # Unsent
  /\ \A s, q \in Slots : q \in older[s] => poll[q] # Unsent
  /\ act.stage = "polling" <=> poll[Own] # Unsent
  /\ act.kind = "mode" => act.mode \in Modes
  /\ acted \in Nat
  /\ budget \in [changes : Nat, clicks : Nat, cuts : Nat, ticks : Nat]

Init ==
  /\ server = [c \in Convs |-> [mode |-> "ai", status |-> "open", version |-> 1,
                                length |-> 0, draft |-> None]]
  /\ used = {} /\ screen = Blank
  /\ poll = [s \in Slots |-> Unsent] /\ older = [s \in Slots |-> {}]
  /\ act = Quiet /\ acted = 0 /\ gone = {}
  /\ budget \in Budgets

HeadOf(c, row) ==
  [conv |-> c, mode |-> row.mode, status |-> row.status, version |-> row.version]

-----------------------------------------------------------------------------
(* What the owner, the assistant and other operators do. *)

Spend(what) == budget[what] > 0 /\ budget' = [budget EXCEPT ![what] = @ - 1]

Change(c, row) ==
  /\ Spend("changes")
  /\ server' = [server EXCEPT ![c] = row]
  /\ UNCHANGED <<screen, poll, older, act, acted, gone>>

MessageArrives(c) ==
  Change(c, [server[c] EXCEPT !.length = @ + 1]) /\ UNCHANGED used
DraftComposed(c) ==
  \E d \in Drafts \ used :
    /\ used' = used \cup {d}
    /\ Change(c, [server[c] EXCEPT !.draft = d])
DraftSettled(c) ==
  /\ server[c].draft # None
  /\ \E n \in {0, 1} :
       Change(c, [server[c] EXCEPT !.draft = None, !.length = @ + n])
  /\ UNCHANGED used
ModeFlipped(c) ==
  /\ \E m \in Modes \ {server[c].mode} :
       Change(c, [server[c] EXCEPT !.mode = m, !.version = @ + 1])
  /\ UNCHANGED used

-----------------------------------------------------------------------------
(* Tickets. *)

(* A claimed and committed ticket is newer than every poll in flight.       *)
NoTicket == poll' = poll
ClaimAndCommit ==
  poll' = [s \in Slots |-> IF poll[s] = Unsent THEN Unsent
                           ELSE [poll[s] EXCEPT !.superseded = TRUE]]

IsNewest(s) == ~poll[s].superseded /\ \A q \in Slots : s \notin older[q]
Always(s) == TRUE
Commits(s) == ~poll[s].superseded

(* The arriving poll leaves; if it commits, the polls issued before it are  *)
(* superseded.                                                              *)
Forgotten(s) == [q \in Slots |-> IF q = s THEN {} ELSE older[q] \ {s}]
Lingers(s, commits) == older' = Forgotten(s) /\ UNCHANGED poll
Leaves(s, commits) ==
  /\ older' = Forgotten(s)
  /\ poll' = [q \in Slots |->
                IF q = s THEN Unsent
                ELSE IF commits /\ q \in older[s]
                     THEN [poll[q] EXCEPT !.superseded = TRUE] ELSE poll[q]]

InFlight == {q \in Slots : poll[q] # Unsent}
IssuedLast(s) == older' = [older EXCEPT ![s] = InFlight]
Issued(s) ==
  [Unsent EXCEPT !.stage = "sent", !.conv = screen.selected, !.cursor = screen.cursor]

-----------------------------------------------------------------------------
(* pollDetail *)

Tick(s) ==
  /\ poll[s] = Unsent /\ screen.selected # None
  /\ s = CHOOSE q \in Ticks : poll[q] = Unsent
  /\ Cardinality(InFlight \cap Ticks) < budget.ticks
  /\ poll' = [poll EXCEPT ![s] = Issued(s)]
  /\ IssuedLast(s)
  /\ UNCHANGED <<server, used, screen, act, acted, gone, budget>>

(* The route reads the conversation, a page of its messages and the draft;  *)
(* taken together here, as no property relates one to another.              *)
Answer(s) ==
  LET row == server[poll[s].conv]
      more == poll[s].cursor + PageSize IN
  /\ poll[s].stage = "sent"
  /\ poll' = [poll EXCEPT ![s].stage = "read", ![s].head = HeadOf(poll[s].conv, row),
                          ![s].draft = row.draft,
                          ![s].upto = IF row.length < more THEN row.length ELSE more]
  /\ UNCHANGED <<server, used, screen, older, act, acted, gone, budget>>

(* A draft is seeded only when its id is new to the editor.                 *)
Seeded(d) ==
  IF d = screen.draftId THEN screen.text ELSE [of |-> d, edited |-> FALSE]
Rendered(answer) ==
  [screen EXCEPT
     !.head = answer.head, !.confirmed = TRUE,
     !.text = Seeded(answer.draft), !.draftId = answer.draft, !.pending = answer.draft,
     !.cursor = IF answer.upto > answer.cursor THEN answer.upto ELSE @,
     !.shown = @ \cup (answer.cursor + 1 .. answer.upto)]
Arrive(s) ==
  LET applied == screen.selected = poll[s].conv /\ Commits(s) IN
  /\ poll[s].stage = "read"
  /\ Leaves(s, applied)
  /\ screen' = IF applied THEN Rendered(poll[s]) ELSE screen
  /\ act' = IF s = Own THEN Quiet ELSE act
  /\ UNCHANGED <<server, used, acted, gone, budget>>
Fails(s) ==
  /\ poll[s] # Unsent /\ Spend("cuts")
  /\ Leaves(s, FALSE)
  /\ act' = IF s = Own THEN Quiet ELSE act
  /\ UNCHANGED <<server, used, screen, acted, gone>>

-----------------------------------------------------------------------------
(* The operator. *)

Click == Spend("clicks")

(* The row of the list is up to a poll old: its mode is a guess.            *)
KeepDraftId(c, m) ==
  [Blank EXCEPT !.selected = c, !.draftId = screen.draftId,
     !.head = [conv |-> c, mode |-> m, status |-> server[c].status, version |-> 0]]
Selected(c, m) ==
  [Blank EXCEPT !.selected = c,
     !.head = [conv |-> c, mode |-> m, status |-> server[c].status, version |-> 0]]
Select(c) ==
  /\ Click
  /\ ClaimAndCommit
  /\ \E m \in Modes : screen' = Selected(c, m)
  /\ acted' = 0
  /\ UNCHANGED <<server, used, older, act, gone>>

Edit ==
  /\ screen.pending # None /\ screen.head.status = "open"
  /\ screen' = [screen EXCEPT !.text.edited = TRUE]
  /\ UNCHANGED <<server, used, poll, older, act, acted, gone, budget>>

(* One request at a time (busy); a mode the screen is sure of is not asked  *)
(* for again, and a resolved conversation offers only assign and discard.   *)
Offered(kind, m) ==
  /\ screen.selected # None /\ act = Quiet
  /\ screen.head.status = "resolved" => kind \in {"assign", "discard"}
  /\ kind = "mode" => ~(screen.confirmed /\ screen.head.mode = m)
  /\ kind \in {"send", "discard"} => screen.pending # None
Ask(kind) ==
  /\ Click
  /\ \E m \in IF kind = "mode" THEN Modes ELSE {None} :
       /\ Offered(kind, m)
       /\ act' = [kind |-> kind, stage |-> "sent", conv |-> screen.selected, mode |-> m,
                  draft |-> IF kind \in {"send", "discard"} THEN screen.pending ELSE None,
                  head |-> None]
  /\ UNCHANGED <<server, used, screen, poll, older, acted, gone>>

(* The route: a draft is settled only while it is the pending one.          *)
Refused == act.kind \in {"send", "discard"} /\ server[act.conv].draft # act.draft
Done(row) ==
  CASE act.kind = "reply"   -> [row EXCEPT !.length = @ + 1]
    [] act.kind = "mode"    -> [row EXCEPT !.mode = act.mode, !.version = @ + 1]
    [] act.kind = "assign"  -> [row EXCEPT !.version = @ + 1]
    [] act.kind = "resolve" -> [row EXCEPT !.status = "resolved", !.version = @ + 1]
    [] act.kind = "send"    -> [row EXCEPT !.draft = None, !.length = @ + 1]
    [] act.kind = "discard" -> [row EXCEPT !.draft = None]
Serve ==
  /\ act.stage = "sent"
  /\ IF Refused THEN act' = [act EXCEPT !.stage = "refused"] /\ UNCHANGED server
     ELSE LET row == Done(server[act.conv]) IN
          /\ server' = [server EXCEPT ![act.conv] = row]
          /\ act' = [act EXCEPT !.stage = "ok", !.head = HeadOf(act.conv, row)]
  /\ UNCHANGED <<used, screen, poll, older, acted, gone, budget>>

(* What an answered request does to the screen, while its conversation is   *)
(* still the selected one.                                                  *)
Anywhere == screen.selected # None
Here == screen.selected = act.conv
ShowsHead == act.kind \in {"mode", "assign", "resolve"} /\ Here
(* Resolving keeps refs that the next selection resets.                    *)
Closed == Blank
Shown == [screen EXCEPT !.head = act.head, !.confirmed = TRUE]

HeadAnswered ==
  /\ act.stage = "ok" /\ act.kind \in {"mode", "assign", "resolve"}
  /\ IF ShowsHead
     THEN /\ ClaimAndCommit
          /\ IF act.kind = "resolve" THEN screen' = Closed /\ acted' = 0
             ELSE screen' = Shown /\ acted' = act.head.version
     ELSE UNCHANGED <<poll, screen, acted>>
  /\ act' = Quiet
  /\ UNCHANGED <<server, used, older, gone, budget>>

Emptied == [screen EXCEPT !.pending = None, !.draftId = None, !.text = NoText]
DraftAnswered ==
  /\ act.stage = "ok" /\ act.kind \in {"send", "discard"}
  /\ gone' = gone \cup {act.draft}
  /\ IF ~Here THEN act' = Quiet /\ UNCHANGED <<poll, older, screen>>
     ELSE /\ screen' = Emptied
          /\ IF act.kind = "discard"
             THEN ClaimAndCommit /\ act' = Quiet /\ UNCHANGED older
             ELSE /\ act' = [Quiet EXCEPT !.stage = "polling"]
                  /\ poll' = [s \in Slots |->
                                IF s = Own THEN Issued(Own)
                                ELSE IF poll[s] = Unsent THEN Unsent
                                ELSE [poll[s] EXCEPT !.superseded = TRUE]]
                  /\ IssuedLast(Own)
  /\ UNCHANGED <<server, used, acted, budget>>

(* After a reply the selected conversation is polled, whichever it is.      *)
ReplyAnswered ==
  /\ act.stage = "ok" /\ act.kind = "reply"
  /\ IF screen.selected = None THEN act' = Quiet /\ UNCHANGED <<poll, older>>
     ELSE /\ act' = [Quiet EXCEPT !.stage = "polling"]
          /\ poll' = [poll EXCEPT ![Own] = Issued(Own)]
          /\ IssuedLast(Own)
  /\ UNCHANGED <<server, used, screen, acted, gone, budget>>

RefusalAnswered ==
  /\ act.stage = "refused" /\ act' = Quiet
  /\ UNCHANGED <<server, used, screen, poll, older, acted, gone, budget>>

(* The request or its answer is lost: whatever the server did stands.       *)
ActFails ==
  /\ act.stage \in {"sent", "ok", "refused"}
  /\ Spend("cuts")
  /\ act' = Quiet
  /\ UNCHANGED <<server, used, screen, poll, older, acted, gone>>

-----------------------------------------------------------------------------
Others(c) == MessageArrives(c) \/ DraftComposed(c) \/ DraftSettled(c) \/ ModeFlipped(c)
Polling(s) == Answer(s) \/ Arrive(s)
Acting == Serve \/ HeadAnswered \/ DraftAnswered \/ ReplyAnswered \/ RefusalAnswered

Next ==
  \/ \E c \in Convs : Others(c) \/ Select(c)
  \/ \E s \in Slots : Polling(s) \/ Fails(s)
  \/ \E s \in Ticks : Tick(s)
  \/ \E k \in Kinds : Ask(k)
  \/ Edit \/ Acting \/ ActFails

Spec == Init /\ [][Next]_vars
(* The interval goes on, and a request is answered.                         *)
Fairness ==
  /\ WF_vars(\E s \in Ticks : Tick(s))
  /\ \A s \in Slots : WF_vars(Polling(s))
  /\ WF_vars(Acting)
FairSpec == Spec /\ Fairness

-----------------------------------------------------------------------------
(* Properties *)

(* The header is of the conversation the composer writes to, whatever was   *)
(* clicked while an answer was on its way: "a reply meant for one store     *)
(* owner sent to another" (inbox-console.tsx:328-332).                      *)
HeaderIsSelected ==
  /\ screen.selected = None <=> screen.head = None
  /\ screen.selected # None => screen.head.conv = screen.selected

(* The text in the editor is of the draft that a send would name, and of no *)
(* other: neither an empty text nor another draft's stands under a draft.   *)
TextIsOfDraft == screen.text.of = screen.pending

(* The transcript is the beginning of the conversation, without a gap, and  *)
(* never behind the cursor, although cursors are read at issue and applied  *)
(* at arrival.                                                              *)
TranscriptIsPrefix ==
  /\ IsFiniteSet(screen.shown)
  /\ screen.shown = 1 .. Cardinality(screen.shown)
  /\ screen.cursor \in {0} \cup screen.shown

(* Once an own change is on the screen, no poll takes the conversation back *)
(* to before it.                                                            *)
OwnChangeSticks ==
  screen.confirmed => screen.head.version >= acted

(* A draft the operator has sent or discarded does not come back.           *)
GoneStaysGone == screen.pending \notin gone

(* What these rest on.  A poll that has not been superseded was issued for   *)
(* the conversation still selected, from a cursor the transcript has passed *)
(* since, and has read it after the last own change.                        *)
PollsAreCurrent ==
  \A s \in Slots : poll[s] # Unsent =>
    /\ poll[s].stage # "idle" /\ poll[s].conv # None
    /\ poll[s].stage = "read" => poll[s].head # None /\ poll[s].head.conv = poll[s].conv
    /\ ~poll[s].superseded =>
         /\ poll[s].conv = screen.selected
         /\ poll[s].cursor <= Cardinality(screen.shown)
         /\ poll[s].stage = "read" =>
              /\ poll[s].head.version >= acted
              /\ poll[s].draft \notin gone

(* What an answered request shows is of its conversation, no newer than it,  *)
(* and the draft it settled is nowhere pending.                             *)
AnswersAreCurrent ==
  /\ acted # 0 => screen.selected # None /\ acted <= server[screen.selected].version
  /\ act.stage \in {"sent", "ok", "refused"} => act.conv # None /\ act.kind \in Kinds
  /\ act.kind \in {"send", "discard"} => act.draft \in used
  /\ act.stage = "ok" =>
       /\ act.head # None /\ act.head.conv = act.conv
       /\ act.head.version <= server[act.conv].version
       /\ act.kind \in {"send", "discard"} =>
            \A c \in Convs : server[c].draft # act.draft
  /\ \A c \in Convs : server[c].draft \notin gone

(* A draft is one conversation's, wherever it is mentioned; and the editor's *)
(* id is that of the draft shown.                                           *)
Mentions ==
  {<<c, server[c].draft>> : c \in Convs} \cup {<<poll[s].conv, poll[s].draft>> : s \in Slots}
    \cup {<<screen.selected, screen.pending>>, <<act.conv, act.draft>>}
DraftsHaveOneHome ==
  /\ \A m \in Mentions : m[2] \in used \cup {None}
  /\ \A m, n \in Mentions : m[2] # None /\ m[2] = n[2] => m[1] = n[1]
  /\ screen.draftId = screen.pending

(* When the others and the operator rest, the screen catches up, however    *)
(* slow the answers: a poll that a later one was issued after still counts  *)
(* (inbox-console.tsx:151-155).                                             *)
InSync ==
  LET row == server[screen.selected] IN
  /\ screen.head = HeadOf(screen.selected, row)
  /\ screen.pending = row.draft
  /\ screen.shown = 1 .. row.length
CatchesUp == <>[](screen.selected # None => InSync)

(* Header, editor and transcript are of the conversation that is selected,  *)
(* whatever arrives and in whatever order, and no poll undoes what the       *)
(* operator has done; and what makes that so.                               *)
ScreenIsCoherent ==
  /\ HeaderIsSelected /\ TextIsOfDraft /\ TranscriptIsPrefix
  /\ OwnChangeSticks /\ GoneStaysGone
  /\ PollsAreCurrent /\ AnswersAreCurrent /\ DraftsHaveOneHome
==============================================================================
