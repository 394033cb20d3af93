-------------------------------- MODULE CsChat --------------------------------
(***************************************************************************)
(* The support chat of one store: cs_conversations and cs_messages, the     *)
(* owner's POST and the composition it schedules, the campaign notices, the *)
(* operators' handlers, and the two screens that poll with a cursor.        *)
(*                                                                         *)
(* A thread is one serverless invocation (a POST continues as its own       *)
(* composition after the response).  Between two of its statements any      *)
(* other thread may run, and it may die.  `now` is taken where the code     *)
(* calls new Date(): often long before the row is written.                  *)
(***************************************************************************)
EXTENDS Integers, FiniteSets

CONSTANTS
  Posts,         \* owner POSTs; post p's composition is p's too
  Notices,       \* campaign notices posted by the pipeline
  Earlier,       \* a conversation opened before, if there is one
  Operators,     \* operator requests: a reply, a draft sent or discarded
  OwnerPolls,    \* polls the owner's widget may have in flight
  ConsolePolls,  \* polls of the operator's console in flight: at most one
  IdRank,        \* the order of the messages' random ids
  PageSize,      \* csMessageDefaultPageSize
  None,
  Switches,      \* bound: the modes operators switch to
  MaxClock,      \* bound: ticks of the clock the stamps are taken from
  MaxCrashes     \* bound: threads that die

Writers == Posts \cup Notices
Threads == Writers \cup Operators

(* A conversation is named after the thread whose INSERT created it, and a  *)
(* message after its author and the thread that writes it: ids are fresh.   *)
Convs == Writers \cup Earlier
OwnerSays == {"owner"} \X Posts
AiSays == {"ai"} \X Posts
AdminSays == {"admin"} \X (Operators \cup Notices)
Messages == OwnerSays \cup AiSays \cup AdminSays

Modes == {"human", "ai_draft", "ai"}
Readers == {"widget", "console"}
Polls == OwnerPolls \cup ConsolePolls
Reader(s) == IF s \in OwnerPolls THEN "widget" ELSE "console"

Stamps == 0 .. MaxClock
Rows == [conv : Convs, status : {"draft", "sent"}, at : Stamps]

ASSUME PageAssumption == PageSize \in Nat \ {0} /\ IsFiniteSet(Messages)
ASSUME BoundsAssumption == MaxClock \in Nat \ {0} /\ MaxCrashes \in Nat
ASSUME IdAssumption ==
  /\ IdRank \in [Messages -> Nat \ {0}]
  /\ \A m, n \in Messages : IdRank[m] = IdRank[n] => m = n
ASSUME NamesAssumption ==
  /\ Posts \cap Notices = {} /\ Writers \cap Operators = {}
  /\ OwnerPolls \cap ConsolePolls = {}
  /\ \A s, q \in ConsolePolls : s = q
  /\ Writers \cap Earlier = {}
  /\ \A c, d \in Earlier : c = d
  /\ Switches \subseteq Modes
  /\ None \notin Convs \cup Messages \cup Modes \cup Rows

VARIABLES
  clock,
  convStatus, mode, flagged,   \* cs_conversations
  row, adminRead,              \* cs_messages; the rows with admin_read_at set
  pc, now, chat, heard, stance, target,        \* the threads
  screen, cursor, poll, selected,              \* the two screens
  approved, trusted, behind, crashes \* history and bound counters

conversations == <<convStatus, mode, flagged>>
messages == <<row, adminRead>>
locals == <<now, chat, heard, stance, target>>
threads == <<pc, locals>>
screens == <<screen, cursor, poll, selected>>
history == <<approved, trusted, behind, crashes>>
vars == <<clock, conversations, messages, threads, screens, history>>

Ended == {"done", "refused", "answered", "failed", "dead"}
Labels == {"idle", "insert", "append", "respond", "compose", "ask",
           "draft", "clear", "flag", "reply", "picked", "send", "drop",
           "mark"}
          \cup Ended

(* Nothing polled yet: below the position of every message.                *)
Start == <<0, 0>>
NoPoll == [pc |-> "idle", conv |-> None, after |-> Start, page |-> {},
           top |-> Start, stale |-> FALSE]

(* The store has no conversation, or an earlier one, empty, in any mode.    *)
Init ==
  /\ clock = 1
  /\ convStatus = [c \in Convs |-> IF c \in Earlier THEN "open" ELSE "none"]
  /\ mode \in [Convs -> Modes]
  /\ \A c \in Writers : mode[c] = "human"
  /\ trusted = {c \in Earlier : mode[c] = "ai"}
  /\ flagged = [c \in Convs |-> FALSE]
  /\ row = [m \in Messages |-> None] /\ adminRead = {}
  /\ pc = [t \in Threads |-> "idle"]
  /\ now = [t \in Threads |-> 0]
  /\ chat = [t \in Threads |-> None]
  /\ heard = [t \in Threads |-> None]
  /\ stance = [t \in Threads |-> None]
  /\ target = [t \in Threads |-> None]
  /\ screen = [r \in Readers |-> {}]
  /\ cursor = [r \in Readers |-> Start]
  /\ poll = [s \in Polls |-> NoPoll]
  /\ selected = None
  /\ approved = {}
  /\ behind = [r \in Readers |-> {}]
  /\ crashes = 0
-------------------------------------------------------------------------------
(* Rows and their order.                                                   *)

GoTo(t, label) == pc' = [pc EXCEPT ![t] = label]

\* Plausible bug: the stamp is rounded up.
StampAhead(t) == now' = [now EXCEPT ![t] = clock + 1]
Stamp(t) == now' = [now EXCEPT ![t] = clock]

(* The invocation is over: of its locals only the conversation is of use to  *)
(* a property.                                                             *)
End(t, label) ==
  /\ GoTo(t, label)
  /\ now' = [now EXCEPT ![t] = 0]
  /\ heard' = [heard EXCEPT ![t] = None]
  /\ stance' = [stance EXCEPT ![t] = None]
  /\ target' = [target EXCEPT ![t] = None]
  /\ UNCHANGED chat

OpenConvs == {c \in Convs : convStatus[c] = "open"}
Exists(m) == row[m] # None
In(m, c) == Exists(m) /\ row[m].conv = c
IsSent(m) == Exists(m) /\ row[m].status = "sent"
IsDraft(m) == Exists(m) /\ row[m].status = "draft"

\* Plausible bug: the discard leaves out the status.
AllOf(c) == {m \in Messages : In(m, c)}
Drafts(c) == {m \in Messages : IsDraft(m) /\ In(m, c)}

Position(m) == <<row[m].at, IdRank[m]>>

(* ORDER BY created_at, id                                                 *)
Beyond(q, p) == q[1] > p[1] \/ (q[1] = p[1] /\ q[2] > p[2])

Last(S) == {m \in S : \A n \in S : n = m \/ Beyond(Position(m), Position(n))}

(* The positions a reader holds: its cursor, and, for every poll on its way,  *)
(* the one it was asked with and the last of its page.                      *)
HandedOut(r) ==
  {cursor[r]} \cup UNION {{poll[s].after, poll[s].top} :
                           s \in {q \in Polls : Reader(q) = r}}

(* A row that becomes visible under its own tick's stamp, while no reader   *)
(* has been given a position of that tick, is prompt; any other may be      *)
(* behind a reader's cursor already.                                       *)
Prompt(r, at) == at = clock /\ \A p \in HandedOut(r) : p[1] < clock
NoteIfBehind(m, at) ==
  behind' = [r \in Readers |->
               IF Prompt(r, at) THEN behind[r] ELSE behind[r] \cup {m}]

(* Thread t's row m, into the conversation t has read.                     *)
Write(t, m, status, at) ==
  /\ row' = [row EXCEPT ![m] = [conv |-> chat[t], status |-> status, at |-> at]]
  /\ IF status = "sent" THEN NoteIfBehind(m, now[t]) ELSE UNCHANGED behind

MarkOwnerMessages(c) ==
  adminRead' = adminRead \cup {m \in OwnerSays : In(m, c)}
-------------------------------------------------------------------------------
(* The owner's POST and the pipeline's notice: find or open the             *)
(* conversation, then write.                                               *)

(* The throttle has let the request pass; its stamp is taken, and the       *)
(* transaction reads.                                                      *)
OpenRead(w) ==
  /\ pc[w] = "idle"
  /\ Stamp(w)
  /\ \/ /\ OpenConvs = {}
        /\ GoTo(w, "insert")
        /\ UNCHANGED <<chat, heard>>
     \/ \E c \in OpenConvs :
          /\ chat' = [chat EXCEPT ![w] = c]
          /\ heard' = [heard EXCEPT ![w] = mode[c]]
          /\ GoTo(w, "append")
  /\ UNCHANGED <<clock, conversations, messages, stance, target, screens,
                 history>>

\* Plausible bug: no unique index, the transaction's read is trusted.
NoIndex == TRUE

(* The partial unique index: one open conversation per store.              *)
IndexAdmits == OpenConvs = {}

OpenInsert(w) ==
  /\ pc[w] = "insert"
  /\ IndexAdmits
  /\ convStatus' = [convStatus EXCEPT ![w] = "open"]
  /\ chat' = [chat EXCEPT ![w] = w]
  /\ heard' = [heard EXCEPT ![w] = "human"]
  /\ GoTo(w, "append")
  /\ UNCHANGED <<clock, mode, flagged, messages, now, stance, target, screens,
                 history>>

(* The index refuses the row: the transaction throws, the request is a 500. *)
OpenRefused(w) ==
  /\ pc[w] = "insert"
  /\ ~IndexAdmits
  /\ End(w, "refused")
  /\ UNCHANGED <<clock, conversations, messages, screens, history>>

MessageOf(w) == IF w \in Posts THEN <<"owner", w>> ELSE <<"admin", w>>

Append(w) ==
  /\ pc[w] = "append"
  /\ Write(w, MessageOf(w), "sent", now[w])
  /\ \/ w \in Posts /\ GoTo(w, "respond") /\ UNCHANGED locals
     \/ w \in Notices /\ End(w, "done")
  /\ UNCHANGED <<clock, conversations, adminRead, screens, approved, trusted,
                 crashes>>

(* The response, which may be lost, puts the owner's message on the screen; *)
(* after() schedules the composition by the mode the POST has read.         *)
Respond(p) ==
  /\ pc[p] = "respond"
  /\ \/ screen' = [screen EXCEPT !["widget"] = @ \cup {<<"owner", p>>}]
     \/ UNCHANGED screen
  /\ \/ heard[p] = "human" /\ End(p, "done")
     \/ heard[p] # "human" /\ GoTo(p, "compose") /\ UNCHANGED locals
  /\ UNCHANGED <<clock, conversations, messages, cursor, poll, selected,
                 history>>
-------------------------------------------------------------------------------
(* composeAssistantReply.                                                  *)

ComposeRead(p) ==
  /\ pc[p] = "compose"
  /\ LET m == mode[chat[p]]
     IN  \/ m = "human" /\ End(p, "done")
         \/ /\ m # "human"
            /\ Stamp(p) /\ GoTo(p, "ask")
            /\ stance' = [stance EXCEPT ![p] = m]
            /\ UNCHANGED <<chat, heard, target>>
  /\ UNCHANGED <<clock, conversations, messages, screens, history>>

\* Plausible bug: a draft posture answers the owner directly.
AnyStance(p) == stance[p] \in {"ai", "ai_draft"}

(* Only the autonomous mode writes to the owner by itself.                 *)
Autonomous(p) == stance[p] = "ai"

(* The answer, or the fallback when the assistant fails.                   *)
SendAnswer(p) ==
  /\ pc[p] = "ask"
  /\ Autonomous(p)
  /\ Write(p, <<"ai", p>>, "sent", now[p])
  /\ \/ GoTo(p, "clear")
     \/ GoTo(p, "flag")
  /\ UNCHANGED <<clock, conversations, adminRead, locals, screens, approved,
                 trusted, crashes>>

DiscardPendingDrafts(p) ==
  /\ pc[p] = "ask"
  /\ stance[p] = "ai_draft"
  /\ row' = [m \in Messages |-> IF m \in Drafts(chat[p]) THEN None ELSE row[m]]
  /\ GoTo(p, "draft")
  /\ UNCHANGED <<clock, conversations, adminRead, locals, screens, history>>

WriteDraft(p) ==
  /\ pc[p] = "draft"
  /\ Write(p, <<"ai", p>>, "draft", now[p])
  /\ GoTo(p, "clear")
  /\ UNCHANGED <<clock, conversations, adminRead, locals, screens, approved,
                 trusted, crashes>>

ClearFlag(p) ==
  /\ pc[p] = "clear"
  /\ flagged' = [flagged EXCEPT ![chat[p]] = FALSE]
  /\ End(p, "answered")
  /\ UNCHANGED <<clock, convStatus, mode, messages, screens, history>>

\* Plausible bug: the flag is enough in every posture.
AlwaysFlagOnly(p) == TRUE

(* An operator reviews every answer: no fallback is owed to the owner.      *)
FlagSuffices(p) == stance[p] = "ai_draft"

\* Plausible bug: only the autonomous mode's failures are flagged.
FlagFallback(p) == flagged' = [flagged EXCEPT ![chat[p]] = stance[p] = "ai"]

Flag(p) == flagged' = [flagged EXCEPT ![chat[p]] = TRUE]

(* After the fallback, or at once.                                         *)
RaiseFlag(p) ==
  /\ pc[p] = "flag" \/ (pc[p] = "ask" /\ FlagSuffices(p))
  /\ Flag(p)
  /\ End(p, "failed")
  /\ UNCHANGED <<clock, convStatus, mode, messages, screens, history>>
-------------------------------------------------------------------------------
(* The operators' requests.                                                *)

ReplyRead(o) ==
  /\ pc[o] = "idle"
  /\ \E c \in OpenConvs : chat' = [chat EXCEPT ![o] = c]
  /\ Stamp(o) /\ GoTo(o, "reply")
  /\ UNCHANGED <<clock, conversations, messages, heard, stance, target,
                 screens, history>>

ReplyWrite(o) ==
  /\ pc[o] = "reply"
  /\ Write(o, <<"admin", o>>, "sent", now[o])
  /\ GoTo(o, "mark")
  /\ UNCHANGED <<clock, conversations, adminRead, locals, screens, approved,
                 trusted, crashes>>

(* The console shows the latest draft, for as long as the operator likes.   *)
PickDraft(o) ==
  /\ pc[o] = "idle"
  /\ \E c \in Convs : \E m \in Last(Drafts(c)) :
       /\ chat' = [chat EXCEPT ![o] = c]
       /\ target' = [target EXCEPT ![o] = m]
  /\ GoTo(o, "picked")
  /\ UNCHANGED <<clock, conversations, messages, now, heard, stance, screens,
                 history>>

(* The operator's request: send it or discard it.                          *)
DraftRead(o) ==
  /\ pc[o] = "picked"
  /\ Stamp(o)
  /\ \/ GoTo(o, "send")
     \/ GoTo(o, "drop")
  /\ UNCHANGED <<clock, conversations, messages, chat, heard, stance, target,
                 screens, history>>

\* Plausible bug: the row is found by its id alone.
AnyRow(m, c) == Exists(m)

(* WHERE id = ? AND conversation_id = ? AND status = 'draft'               *)
Pending(m, c) == IsDraft(m) /\ In(m, c)

(* created_at = ?: the promoted row takes the stamp of the send.           *)
PromotedAt(o) == now[o]

SendDraft(o) ==
  /\ pc[o] = "send"
  /\ Pending(target[o], chat[o])
  /\ Write(o, target[o], "sent", PromotedAt(o))
  /\ approved' = approved \cup {target[o]}
  /\ GoTo(o, "mark")
  /\ UNCHANGED <<clock, conversations, adminRead, locals, screens, trusted,
                 crashes>>

DiscardDraft(o) ==
  /\ pc[o] = "drop"
  /\ Pending(target[o], chat[o])
  /\ row' = [row EXCEPT ![target[o]] = None]
  /\ End(o, "done")
  /\ UNCHANGED <<clock, conversations, adminRead, screens, history>>

(* DRAFT_NOT_PENDING.                                                      *)
DraftGone(o) ==
  /\ pc[o] \in {"send", "drop"}
  /\ ~Pending(target[o], chat[o])
  /\ End(o, "done")
  /\ UNCHANGED <<clock, conversations, messages, screens, history>>

(* A reply and a sent draft mark what the owner wrote as read.             *)
MarkAdminRead(o) ==
  /\ pc[o] = "mark"
  /\ MarkOwnerMessages(chat[o])
  /\ End(o, "done")
  /\ UNCHANGED <<clock, conversations, row, screens, history>>

SetMode(c, m) ==
  /\ convStatus[c] # "none"
  /\ mode[c] # m
  /\ mode' = [mode EXCEPT ![c] = m]
  /\ trusted' = IF m = "ai" THEN trusted \cup {c} ELSE trusted
  /\ UNCHANGED <<clock, convStatus, flagged, messages, threads, screens,
                 approved, behind, crashes>>

Resolve(c) ==
  /\ convStatus[c] = "open"
  /\ convStatus' = [convStatus EXCEPT ![c] = "resolved"]
  /\ UNCHANGED <<clock, mode, flagged, messages, threads, screens, history>>
-------------------------------------------------------------------------------
(* The screens.  The widget reads the store's open conversation, the        *)
(* console the selected one; both read sent rows only, beyond their cursor. *)

(* The request leaves with the cursor of the moment.                       *)
PollAsk(s) ==
  /\ poll[s].pc = "idle"
  /\ \E c \in (IF s \in OwnerPolls THEN OpenConvs ELSE {selected} \ {None}) :
       poll' = [poll EXCEPT ![s] =
                  [NoPoll EXCEPT !.pc = "asked", !.conv = c,
                                 !.after = cursor[Reader(s)]]]
  /\ UNCHANGED <<clock, conversations, messages, threads, screen, cursor,
                 selected, history>>

\* Plausible bug: the draft filter is left out of the read.
AnyStatus(m) == Exists(m)

(* ownerVisibleOnly / sentOnly: AND status = 'sent'                        *)
Listed(m) == IsSent(m)

\* Plausible bug: the cursor compares the timestamps alone.
LaterStamp(q, p) == q[1] > p[1]

(* created_at > ? OR (created_at = ? AND id > ?)                           *)
PastCursor(q, p) == Beyond(q, p)

Waiting(c, after) ==
  {m \in Messages : Listed(m) /\ In(m, c) /\ PastCursor(Position(m), after)}

(* LIMIT ?                                                                 *)
FirstPage(S) ==
  {m \in S : Cardinality({n \in S : Beyond(Position(m), Position(n))})
               < PageSize}

PollList(s) ==
  /\ poll[s].pc = "asked"
  /\ LET page == FirstPage(Waiting(poll[s].conv, poll[s].after))
         tops == IF page = {} THEN {Start}
                 ELSE {Position(m) : m \in Last(page)}
     IN  \E top \in tops :
           poll' = [poll EXCEPT ![s].pc = IF s \in OwnerPolls THEN "answered"
                                                              ELSE "listed",
                                ![s].page = page,
                                ![s].top = top]
  /\ UNCHANGED <<clock, conversations, messages, threads, screen, cursor,
                 selected, history>>

(* The console's read marks the conversation, by a later statement.        *)
PollMark(s) ==
  /\ poll[s].pc = "listed"
  /\ MarkOwnerMessages(poll[s].conv)
  /\ poll' = [poll EXCEPT ![s].pc = "answered"]
  /\ UNCHANGED <<clock, conversations, row, threads, screen, cursor, selected,
                 history>>

(* An empty page leaves the cursor; a response that the operator's          *)
(* selection has overtaken is dropped.                                     *)
PollDeliver(s) ==
  LET r == Reader(s)
  IN  /\ poll[s].pc = "answered"
      /\ ~poll[s].stale
      /\ screen' = [screen EXCEPT ![r] = @ \cup poll[s].page]
      /\ cursor' = IF poll[s].page = {} THEN cursor
                   ELSE [cursor EXCEPT ![r] = poll[s].top]
      /\ poll' = [poll EXCEPT ![s] = NoPoll]
      /\ UNCHANGED <<clock, conversations, messages, threads, selected,
                     history>>

(* The request, or its response, is lost; or a stale response is dropped.   *)
PollLost(s) ==
  /\ poll[s].pc # "idle"
  /\ poll' = [poll EXCEPT ![s] = NoPoll]
  /\ UNCHANGED <<clock, conversations, messages, threads, screen, cursor,
                 selected, history>>

Select(c) ==
  /\ convStatus[c] # "none"
  /\ selected' = c
  /\ screen' = [screen EXCEPT !["console"] = {}]
  /\ cursor' = [cursor EXCEPT !["console"] = Start]
  /\ poll' = [s \in Polls |-> IF s \in ConsolePolls /\ poll[s].pc # "idle"
                              THEN [poll[s] EXCEPT !.stale = TRUE]
                              ELSE poll[s]]
  /\ UNCHANGED <<clock, conversations, messages, threads, history>>
-------------------------------------------------------------------------------
Tick ==
  /\ clock < MaxClock
  /\ clock' = clock + 1
  /\ UNCHANGED <<conversations, messages, threads, screens, history>>

Crash(t) ==
  /\ crashes < MaxCrashes
  /\ pc[t] \notin Ended \cup {"idle"}
  /\ End(t, "dead")
  /\ crashes' = crashes + 1
  /\ UNCHANGED <<clock, conversations, messages, screens, approved, trusted,
                 behind>>

WriterStep(w) ==
  OpenRead(w) \/ OpenInsert(w) \/ OpenRefused(w) \/ Append(w)

ComposeStep(p) ==
  \/ Respond(p) \/ ComposeRead(p) \/ SendAnswer(p) \/ DiscardPendingDrafts(p)
  \/ WriteDraft(p) \/ ClearFlag(p) \/ RaiseFlag(p)

OperatorStep(o) ==
  \/ ReplyRead(o) \/ ReplyWrite(o) \/ PickDraft(o) \/ DraftRead(o)
  \/ SendDraft(o) \/ DiscardDraft(o) \/ DraftGone(o) \/ MarkAdminRead(o)

PollStep(s) == PollAsk(s) \/ PollList(s) \/ PollMark(s) \/ PollDeliver(s)

Next ==
  \/ \E w \in Writers : WriterStep(w)
  \/ \E p \in Posts : ComposeStep(p)
  \/ \E o \in Operators : OperatorStep(o)
  \/ \E c \in Convs : Resolve(c) \/ (\E m \in Switches : SetMode(c, m))
  \/ \E s \in ConsolePolls, c \in Convs : Select(c)
  \/ \E s \in Polls : PollStep(s) \/ PollLost(s)
  \/ \E t \in Threads : Crash(t)
  \/ Tick

Spec == Init /\ [][Next]_vars
-------------------------------------------------------------------------------
(* Properties.                                                             *)

Positions == Stamps \X ({0} \cup {IdRank[m] : m \in Messages})
PollStates == [pc : {"idle", "asked", "listed", "answered"},
               conv : Convs \cup {None}, after : Positions,
               page : SUBSET Messages, top : Positions, stale : BOOLEAN]

RowsOK ==
  /\ row \in [Messages -> Rows \cup {None}]
  /\ adminRead \in SUBSET Messages
  /\ convStatus \in [Convs -> {"none", "open", "resolved"}]
  /\ mode \in [Convs -> Modes] /\ flagged \in [Convs -> BOOLEAN]
ThreadsOK ==
  /\ pc \in [Threads -> Labels] /\ now \in [Threads -> Stamps]
  /\ chat \in [Threads -> Convs \cup {None}]
  /\ heard \in [Threads -> Modes \cup {None}]
  /\ stance \in [Threads -> Modes \cup {None}]
  /\ target \in [Threads -> Messages \cup {None}]
ScreensOK ==
  /\ screen \in [Readers -> SUBSET Messages]
  /\ cursor \in [Readers -> Positions]
  /\ poll \in [Polls -> PollStates]
  /\ selected \in Convs \cup {None}
HistoryOK ==
  /\ clock \in 1 .. MaxClock /\ crashes \in 0 .. MaxCrashes
  /\ approved \in SUBSET Messages /\ trusted \in SUBSET Convs
  /\ behind \in [Readers -> SUBSET Messages]

(* Type invariant: rows, threads, screens and history are of their types.   *)
TypeOK == RowsOK /\ ThreadsOK /\ ScreensOK /\ HistoryOK

(* A store never has two open conversations, however first messages, notices *)
(* and resolutions interleave (cs_conversations_one_open_per_store_idx).    *)
OneOpenConversation == \A c, d \in OpenConvs : c = d

(* The owner's widget never shows a draft, nor a message that is gone: what  *)
(* is on the screen, or on its way there, is a sent row (readMessagePage's   *)
(* one draft filter, and the guards of the draft's send and discards).      *)
NoDraftOnScreen ==
  \A m \in Messages :
    \/ \E r \in Readers : m \in screen[r]
    \/ \E s \in Polls : m \in poll[s].page
    => IsSent(m)

(* What the assistant wrote reaches the owner only after an operator sent    *)
(* it, or in a conversation that an operator has once put in ai mode.       *)
NothingUnapproved ==
  \A m \in AiSays :
    IsSent(m) => m \in approved \/ row[m].conv \in trusted

(* The conversation a reader is polling.                                   *)
Watched(r) == IF r = "widget" THEN OpenConvs ELSE {selected}

(* Of the rows up to position p, reader r lacks none that was prompt.       *)
HasUpTo(r, m, p) ==
  m \in screen[r] \cup behind[r] \/ Beyond(Position(m), p)
NoneResolved == \A c \in Convs : convStatus[c] # "resolved"

(* No cursor passes a prompt row: with its first conversation open, whatever *)
(* the polls lose or overtake and wherever a page ends, every sent row that  *)
(* was not behind a position when it appeared is on the screen or ahead of   *)
(* the cursor (readMessagePage, nextCursorFor, useCsChat's poll).           *)
NothingSkipped ==
  NoneResolved =>
    \A r \in Readers : \A m \in Messages :
      IsSent(m) /\ row[m].conv \in Watched(r) => HasUpTo(r, m, cursor[r])

(* A failed composition leaves its conversation flagged until a composition  *)
(* of the same conversation has answered (handleComposeFailure, clearFlag).  *)
FailureShows ==
  \A p \in Posts : pc[p] = "failed" =>
    \/ flagged[chat[p]]
    \/ \E q \in Posts : pc[q] = "answered" /\ chat[q] = chat[p]

(* Once sent, a message is never changed, moved, re-stamped or deleted: not  *)
(* by a second send, a discard or a newer draft (the status = 'draft' guards). *)
SentIsFinal ==
  [][\A m \in Messages : IsSent(m) => row'[m] = row[m]]_vars
-------------------------------------------------------------------------------
(* Fairness.  An invocation runs on unless it dies.  The widget's timer      *)
(* polls for ever, and not every poll is lost.                             *)
PostFairness ==
  \A w \in Writers :
    /\ WF_vars(OpenRead(w) \/ OpenInsert(w) \/ OpenRefused(w) \/ Append(w))
    /\ w \in Posts => WF_vars(ComposeStep(w))
PollFairness ==
  \A s \in OwnerPolls :
    /\ WF_vars(PollAsk(s))
    /\ SF_vars(PollList(s)) /\ SF_vars(PollDeliver(s))

FairSpec == Spec /\ PostFairness /\ PollFairness

(* An owner waiting on the autonomous assistant is answered, if only by the  *)
(* fallback, unless the process dies (composeAssistantReply).               *)
NeverSilent ==
  \A p \in Posts :
    (pc[p] = "ask" /\ stance[p] = "ai")
      ~> (IsSent(<<"ai", p>>) \/ pc[p] = "dead")

(* A prompt row reaches the owner's screen, through lost polls and pages     *)
(* shorter than the transcript, unless a conversation is resolved first.    *)
PromptRowsArrive ==
  \A m \in Messages :
    (IsSent(m) /\ m \notin behind["widget"])
      ~> \/ m \in screen["widget"]
         \/ \E c \in Convs : convStatus[c] = "resolved"

(* The owner's question is answered, and what is answered is seen.          *)
OwnerIsAnswered == NeverSilent /\ PromptRowsArrive
===============================================================================
