--------------------------- MODULE PostingWorkspace ---------------------------
(***************************************************************************)
(* The owner's posting screen (use-posting-workspace.ts, use-image-assets.ts): *)
(* photographs are chosen and read one file after another, a draft is asked    *)
(* for, and its suggestion is answered in a chat that may bring a new draft.    *)
(*                                                                         *)
(* Only the button that asks for a draft is ever disabled.  Photographs may    *)
(* be chosen, and replies sent, while other answers are on their way; an       *)
(* answer is applied whenever it comes.                                      *)
(***************************************************************************)
EXTENDS Integers, Sequences

CONSTANTS
  MaxPicks,  \* bound: selections of photographs, and changes of their order
  MaxCalls   \* bound: requests to the server

WorkspaceAssumption == MaxPicks \in Nat /\ MaxCalls \in Nat

Picks == 1 .. MaxPicks
Calls == 1 .. MaxCalls

VARIABLES
  photos, picks,   \* imageAssets: the selection shown; selections so far
  reading,         \* selections whose files are being read
  draft,           \* the draft displayed
  chat, decision,  \* postingChatTurns, postingDecision
  session,         \* postingSessionId: the reply that opened the conversation
  view,            \* whether the owner was moved to the previews
  calls, late      \* requests; history: an answer came after a reset

workspaceVars ==
  <<photos, picks, reading, draft, chat, decision, session, view, calls, late>>

Empty(kind) == [kind |-> kind, photos |-> 0, asks |-> FALSE]
NoCall == [kind |-> "none", photos |-> 0, session |-> 0, stale |-> FALSE]

Init ==
  /\ photos = 0 /\ picks = 0 /\ reading = {} /\ draft = Empty("idle")
  /\ chat = <<>> /\ decision = "idle" /\ session = 0 /\ view = "photo"
  /\ calls = <<>> /\ late = FALSE

Flying == {c \in DOMAIN calls : calls[c].kind # "none"}
-------------------------------------------------------------------------------
(* Photographs.                                                            *)

\* Plausible bug: the conversation of the draft before goes on.
KeepsSession == decision' = "idle" /\ UNCHANGED <<chat, session>>
ForgetConversation == decision' = "idle" /\ chat' = <<>> /\ session' = 0

MarkStale == [c \in DOMAIN calls |->
  IF calls[c].kind = "none" THEN calls[c] ELSE [calls[c] EXCEPT !.stale = TRUE]]

\* Plausible bug: the draft of the photographs before stays.
KeepsDraft == ForgetConversation /\ UNCHANGED draft
OnImagesSelected == ForgetConversation /\ draft' = Empty("idle")

(* Types and sizes are looked at before anything is read.                    *)
RefuseFiles ==
  /\ draft' = Empty("error")
  /\ UNCHANGED <<photos, picks, reading, chat, decision, session, view, calls, late>>

PickFiles ==
  /\ picks < MaxPicks /\ picks' = picks + 1
  /\ reading' = reading \cup {picks'}
  /\ UNCHANGED <<photos, draft, chat, decision, session, view, calls, late>>

(* Files are read, and made smaller, in a time of their own; a file that      *)
(* cannot be read ends it without a word.                                    *)
FilesRead == \E p \in reading :
  /\ reading' = reading \ {p}
  /\ \/ photos' = p /\ OnImagesSelected /\ calls' = MarkStale
     \/ UNCHANGED <<photos, draft, chat, decision, session, calls>>
  /\ UNCHANGED <<picks, view, late>>

SetPrimaryAsset ==
  /\ photos # 0 /\ view = "photo" /\ picks < MaxPicks
  /\ picks' = picks + 1 /\ photos' = picks'
  /\ OnImagesSelected /\ calls' = MarkStale
  /\ UNCHANGED <<reading, view, late>>
-------------------------------------------------------------------------------
(* Drafts.                                                                 *)

Sent(call) == Append(MarkStale, call)

(* The chat is emptied first, then photographs are missed.                    *)
SubmitDraft ==
  /\ draft.kind # "loading" /\ view = "photo" /\ ForgetConversation
  /\ IF photos = 0
     THEN draft' = Empty("error") /\ calls' = MarkStale
     ELSE /\ Len(calls) < MaxCalls /\ draft' = Empty("loading")
          /\ calls' = Sent([NoCall EXCEPT !.kind = "draft", !.photos = photos])
  /\ UNCHANGED <<photos, picks, reading, view, late>>

Answered(c) ==
  /\ calls' = [calls EXCEPT ![c] = NoCall]
  /\ late' = (late \/ calls[c].stale)

Ready(c) == \E asks \in BOOLEAN :
  draft' = [kind |-> "ready", photos |-> calls[c].photos, asks |-> asks]

\* Plausible bug: a request that fails leaves the screen as it is.
NoWord == UNCHANGED draft
DraftFailed == draft' = Empty("error")

DraftAnswered(c) ==
  /\ calls[c].kind = "draft" /\ Answered(c)
  /\ Ready(c) \/ DraftFailed
  /\ UNCHANGED <<photos, picks, reading, chat, decision, session, view>>

Said(speaker, reply, about) ==
  [speaker |-> speaker, reply |-> reply, photos |-> about]

(* By the buttons, or by the composer on either screen.                      *)
ReplyToSuggestion ==
  /\ draft.kind = "ready" /\ draft.asks /\ Len(calls) < MaxCalls
  /\ chat' = Append(chat, Said("owner", Len(calls) + 1, photos))
  /\ decision' = "loading"
  /\ calls' = Append(calls,
       [NoCall EXCEPT !.kind = "reply", !.photos = photos, !.session = session])
  /\ UNCHANGED <<photos, picks, reading, draft, session, view, late>>

(* The server opens a conversation for a reply without one.  An answer may     *)
(* hold a draft, and the owner is then shown the previews.                    *)
ReplyAnswered(c) ==
  /\ calls[c].kind = "reply" /\ Answered(c)
  /\ session' = IF calls[c].session = 0 THEN c ELSE calls[c].session
  /\ chat' = Append(chat, Said("assistant", c, calls[c].photos))
  /\ decision' = "idle"
  /\ \/ UNCHANGED <<draft, view>>
     \/ Ready(c) /\ view' = "posting"
  /\ UNCHANGED <<photos, picks, reading>>

ReplyFailed(c) ==
  /\ calls[c].kind = "reply" /\ Answered(c)
  /\ decision' = "error"
  /\ UNCHANGED <<photos, picks, reading, draft, chat, session, view>>

Turn ==
  /\ view' = IF view = "photo" THEN "posting" ELSE "photo"
  /\ UNCHANGED <<photos, picks, reading, draft, chat, decision, session, calls, late>>

Next ==
  \/ RefuseFiles \/ PickFiles \/ FilesRead \/ SetPrimaryAsset
  \/ SubmitDraft \/ ReplyToSuggestion \/ Turn
  \/ \E c \in DOMAIN calls : DraftAnswered(c) \/ ReplyAnswered(c) \/ ReplyFailed(c)

Spec == Init /\ [][Next]_workspaceVars
-------------------------------------------------------------------------------
(* Properties.                                                             *)

(* Type invariant.                                                         *)
TypeOK ==
  /\ photos \in 0 .. MaxPicks /\ picks \in 0 .. MaxPicks /\ reading \subseteq Picks
  /\ draft \in [kind : {"idle", "loading", "error", "ready"},
                photos : 0 .. MaxPicks, asks : BOOLEAN]
  /\ decision \in {"idle", "loading", "error"} /\ session \in 0 .. MaxCalls
  /\ chat \in Seq([speaker : {"owner", "assistant"}, reply : Calls, photos : Picks])
  /\ view \in {"photo", "posting"} /\ late \in BOOLEAN
  /\ calls \in Seq([kind : {"none", "draft", "reply"}, photos : 0 .. MaxPicks,
                    session : 0 .. MaxCalls, stale : BOOLEAN])

(* As long as no answer has come after the selection changed or a new draft    *)
(* was asked for: draft and chat are of the photographs displayed, each turn of *)
(* the assistant follows the owner's, and the conversation that the next reply  *)
(* continues is the one of the chat on screen.                               *)
Turns(speaker) == {i \in DOMAIN chat : chat[i].speaker = speaker}
AllIsOfThePhotographs ==
  /\ draft.kind = "ready" => draft.photos = photos
  /\ \A i \in DOMAIN chat : chat[i].photos = photos
ChatIsInOrder == \A i \in Turns("assistant") :
  \E j \in Turns("owner") : j < i /\ chat[j].reply = chat[i].reply
ChatIsOfTheSession ==
  /\ session # 0 => \E i \in Turns("owner") : chat[i].reply = session
  /\ chat = <<>> => session = 0
ScreenIsOfOneDraft ==
  ~late => AllIsOfThePhotographs /\ ChatIsInOrder /\ ChatIsOfTheSession

(* Whatever comes late, nothing loads without a request that will end it: the   *)
(* button that asks for a draft is not disabled for ever.                     *)
NothingLoadsForEver ==
  /\ draft.kind = "loading" => \E c \in Flying : calls[c].kind = "draft"
  /\ decision = "loading" => \E c \in Flying : calls[c].kind = "reply"

WorkspaceIsSound == ScreenIsOfOneDraft /\ NothingLoadsForEver
===============================================================================
