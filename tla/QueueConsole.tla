----------------------------- MODULE QueueConsole -----------------------------
(***************************************************************************)
(* The operator's production queue (queue-console.tsx): a board of cards,    *)
(* the opened request with its editors, and the operator's requests.  Cards  *)
(* can be opened at any time, and the answers of opens, actions and uploads  *)
(* arrive in any order.  What the routes do to a campaign is CampaignPipeline *)
(* and is one step here.                                                    *)
(***************************************************************************)
EXTENDS Integers

CONSTANTS
  Requests, Channels, None,
  Slots,         \* bound: requests of the page in flight
  MaxClicks,     \* bound: cards opened, buttons pressed and edits
  MaxEdits       \* bound: edits of copy, button, link and channels among them

QueueAssumption ==
  /\ None \notin Requests /\ Slots \subseteq Nat
  /\ MaxClicks \in Nat /\ MaxEdits \in Nat

Phases == {"claimable", "production", "review", "publishable", "settled"}
Actions == {"claim", "copy", "cta", "submit", "nudge", "publish"}

(* A text is named after the request it was written for.                   *)
Texts == Requests \cup {None}
Buttons == [kind : {"none", "CALL", "link"}, url : Texts]
NoButton == [kind |-> "none", url |-> None]

(* What a detail view shows: `ready` are the channels isPublishable lets    *)
(* through (eligible, not live yet, attempts left).                        *)
Rows == [phase : Phases, copy : Texts, cta : Buttons, ready : SUBSET Channels]
Views == [id : Requests, phase : Phases, copy : Texts, cta : Buttons,
          ready : SUBSET Channels]

VARIABLES
  row,                                  \* the campaigns, as the routes answer
  detail, selectedId,                   \* the request shown, selectedIdRef
  copyInput, ctaInput, publishChannels, busy,
  calls,                                \* requests of the page in flight
  wanted, disturbed, jumped,            \* history: the last card clicked, if its
                                        \* open did not fail; something else was
                                        \* applied since; an open was under way
                                        \* beside an action
  clicks, typed

editor == <<copyInput, ctaInput, publishChannels>>
history == <<wanted, disturbed, jumped>>
queueVars == <<row, detail, selectedId, editor, busy, calls, history, clicks, typed>>

NoCall == [kind |-> "none", id |-> None, stage |-> "sent", heard |-> FALSE,
           left |-> 0, copy |-> None, cta |-> NoButton, channels |-> {},
           answer |-> None]
CallsOf ==
  [kind : Actions \cup {"open", "upload", "none"}, id : Texts,
   stage : {"sent", "answered"}, heard : BOOLEAN, left : 0 .. 2, copy : Texts,
   cta : Buttons, channels : SUBSET Channels, answer : Views \cup {None}]

Fresh == [phase |-> "claimable", copy |-> None, cta |-> NoButton, ready |-> {}]
Worked(r) == [phase |-> "production", copy |-> r,
              cta |-> [kind |-> "link", url |-> r], ready |-> {}]
Approved(r) == [phase |-> "publishable", copy |-> r,
                cta |-> [kind |-> "CALL", url |-> None], ready |-> Channels]

Init ==
  /\ row \in [Requests -> Rows]
  /\ \A r \in Requests :
       row[r] \in {Fresh, [Fresh EXCEPT !.phase = "production"], Worked(r), Approved(r)}
  /\ detail = None /\ selectedId = None
  /\ copyInput = None /\ ctaInput = NoButton /\ publishChannels = {}
  /\ busy = FALSE /\ calls = [s \in Slots |-> NoCall]
  /\ wanted = None /\ disturbed = FALSE /\ jumped = FALSE
  /\ clicks = 0 /\ typed = 0

View(r) == [id |-> r, phase |-> row[r].phase, copy |-> row[r].copy,
            cta |-> row[r].cta, ready |-> row[r].ready]
-------------------------------------------------------------------------------
(* The operator.                                                           *)

Free(s) == calls[s] = NoCall /\ \A t \in Slots : calls[t] = NoCall => s <= t
Acting(s) == calls[s].kind \in Actions \cup {"upload"} /\ calls[s].heard
Opening(s) == calls[s].kind = "open" /\ calls[s].heard

Send(s, c) == /\ Free(s) /\ clicks + typed < MaxClicks /\ clicks' = clicks + 1
              /\ calls' = [calls EXCEPT ![s] = c]
Call(k, r) == [NoCall EXCEPT !.kind = k, !.id = r, !.heard = TRUE]

OpenRequest(s, r) ==
  /\ Send(s, Call("open", r))
  /\ selectedId' = r /\ busy' = TRUE
  /\ wanted' = r /\ disturbed' = FALSE
  /\ jumped' = (jumped \/ \E t \in Slots : Acting(t))
  /\ UNCHANGED <<row, detail, editor, typed>>

(* The controls each state of a request has; the payload of an action is    *)
(* what the editors hold when it is pressed.                               *)
Offered(k) ==
  CASE k = "claim" -> detail.phase = "claimable"
    [] k = "nudge" -> detail.phase = "review"
    [] k = "publish" -> detail.phase = "publishable" /\ publishChannels # {}
    [] k = "copy" -> detail.phase = "production" /\ copyInput # None
    [] k = "cta" -> /\ detail.phase = "production"
                    /\ ctaInput.kind = "link" => ctaInput.url # None
    [] k = "submit" -> detail.phase = "production"

Payload(k, c) ==
  CASE k = "copy" -> [c EXCEPT !.copy = copyInput]
    [] k = "cta" -> [c EXCEPT !.cta.kind = ctaInput.kind,
                              !.cta.url = IF ctaInput.kind = "link" THEN ctaInput.url
                                          ELSE None]
    [] k = "publish" -> [c EXCEPT !.channels = publishChannels]
    [] OTHER -> c

\* Plausible bug: an action is accepted while another is under way.
Unguarded == detail # None
Idle == detail # None /\ ~busy

(* A card that was opened before may still be loading: its answer will end   *)
(* the waiting for the action too.                                         *)
Start(s, c) ==
  /\ Send(s, c) /\ busy' = TRUE
  /\ jumped' = (jumped \/ \E t \in Slots : Opening(t))
  /\ UNCHANGED <<row, detail, selectedId, editor, wanted, disturbed, typed>>

RunAction(s, k) == Idle /\ Offered(k) /\ Start(s, Payload(k, Call(k, detail.id)))

HandleFiles(s) ==
  /\ Idle /\ detail.phase = "production"
  /\ \E n \in 1 .. 2 : Start(s, [Call("upload", detail.id) EXCEPT !.left = n])

(* Typing into an empty field makes a text of the request shown; editing     *)
(* what is there does not.  The copy can be edited while the page is busy.   *)
Typed(old) == IF old = None THEN detail.id ELSE old

Editing ==
  /\ detail # None /\ typed < MaxEdits /\ clicks + typed < MaxClicks
  /\ typed' = typed + 1
  /\ UNCHANGED <<row, detail, selectedId, busy, calls, history, clicks>>

EditCopy ==
  /\ Editing /\ detail.phase = "production"
  /\ copyInput' \in {Typed(copyInput), None} /\ UNCHANGED <<ctaInput, publishChannels>>

EditButton ==
  /\ Editing /\ detail.phase = "production" /\ ~busy
  /\ \/ \E k \in {"none", "CALL", "link"} : ctaInput' = [ctaInput EXCEPT !.kind = k]
     \/ ctaInput.kind = "link" /\ ctaInput' = [ctaInput EXCEPT !.url = Typed(@)]
  /\ UNCHANGED <<copyInput, publishChannels>>

ToggleChannel ==
  /\ Editing /\ detail.phase = "publishable" /\ ~busy
  /\ \E c \in detail.ready :
       publishChannels' = IF c \in publishChannels THEN publishChannels \ {c}
                          ELSE publishChannels \cup {c}
  /\ UNCHANGED <<copyInput, ctaInput>>
-------------------------------------------------------------------------------
(* The answers, and the loop of an upload.                                 *)

\* Plausible bug: the editor keeps its text where the server has none.
KeepCopy(v) == IF v.copy = None THEN copyInput ELSE v.copy
SeedCopy(v) == v.copy

\* Plausible bug: the link outlives the button it belonged to.
KeepLink(v) == [v.cta EXCEPT !.url = IF v.cta.kind = "link" THEN @ ELSE ctaInput.url]
SeedButton(v) == v.cta

\* Plausible bug: the selection of channels is kept.
KeepChannels(v) == publishChannels
DefaultPublishChannels(v) == v.ready

(* applyResult: an error leaves everything but the message.                *)
ApplyResult(v) ==
  IF v = None THEN UNCHANGED <<detail, selectedId, editor>>
  ELSE /\ detail' = v /\ selectedId' = v.id
       /\ copyInput' = SeedCopy(v) /\ ctaInput' = SeedButton(v)
       /\ publishChannels' = DefaultPublishChannels(v)

Answered(s, kinds) ==
  calls[s].kind \in kinds /\ calls[s].heard /\ calls[s].stage = "answered"
Forget(s) == calls' = [calls EXCEPT ![s] = NoCall]

\* Plausible bug: an answer is applied although another card was opened.
AnyCard(s) == TRUE
StillSelected(s) == selectedId = calls[s].id

ShowRequest(s) ==
  /\ Answered(s, {"open"}) /\ Forget(s) /\ busy' = FALSE
  /\ IF StillSelected(s) THEN ApplyResult(calls[s].answer)
     ELSE UNCHANGED <<detail, selectedId, editor>>
  /\ wanted' = IF calls[s].answer = None /\ wanted = calls[s].id THEN None ELSE wanted
  /\ UNCHANGED <<row, disturbed, jumped, clicks, typed>>

(* The result of an action is adopted whatever is selected by now; an       *)
(* upload goes on with its next file.                                      *)
ShowResult(s) ==
  /\ Answered(s, Actions \cup {"upload"})
  /\ ApplyResult(calls[s].answer)
  /\ IF calls[s].left > 1 /\ calls[s].answer # None
     THEN /\ calls' = [calls EXCEPT ![s] = [Call("upload", @.id) EXCEPT !.left = 1]]
          /\ UNCHANGED busy
     ELSE Forget(s) /\ busy' = FALSE
  /\ disturbed' = TRUE
  /\ UNCHANGED <<row, wanted, jumped, clicks, typed>>

\* Plausible bug: no finally.
StaysBusy == UNCHANGED busy
Ready == busy' = FALSE

(* The connection fails; the route has answered, or runs on unheard.        *)
Throw(s) ==
  /\ calls[s].heard
  /\ \/ Forget(s)
     \/ calls[s].stage = "sent" /\ calls' = [calls EXCEPT ![s].heard = FALSE]
  /\ Ready
  /\ wanted' = IF calls[s].kind = "open" /\ wanted = calls[s].id THEN None ELSE wanted
  /\ UNCHANGED <<row, detail, selectedId, editor, disturbed, jumped, clicks, typed>>
-------------------------------------------------------------------------------
(* The routes, and what others do to a campaign.                            *)

Allowed(c) ==
  LET p == row[c.id].phase
  IN  CASE c.kind \in {"open"} -> TRUE
        [] c.kind = "claim" -> p = "claimable"
        [] c.kind = "nudge" -> p = "review"
        [] c.kind = "publish" -> p = "publishable" /\ c.channels \subseteq row[c.id].ready
        [] OTHER -> p = "production"

(* What each route writes; a run leaves the channels that may be retried.    *)
(* The routes of copy, button and material accept while in production.       *)
Outcomes(c) ==
  LET r == row[c.id]
  IN  CASE c.kind = "claim" -> {[r EXCEPT !.phase = "production"]}
        [] c.kind = "copy" -> {[r EXCEPT !.copy = c.copy]}
        [] c.kind = "cta" -> {[r EXCEPT !.cta = c.cta]}
        [] c.kind = "submit" ->
             IF r.copy = None THEN {} ELSE {[r EXCEPT !.phase = "review"]}
        [] c.kind = "publish" ->
             {[r EXCEPT !.ready = (r.ready \ c.channels) \cup f] : f \in SUBSET c.channels}
        [] OTHER -> {r}

Reply(s, v) ==
  calls' = [calls EXCEPT ![s] = IF @.heard THEN [@ EXCEPT !.stage = "answered", !.answer = v]
                                ELSE NoCall]

Serve(s) ==
  LET c == calls[s]
  IN  /\ c.kind # "none" /\ c.stage = "sent" /\ Allowed(c)
      /\ \E n \in Outcomes(c) :
           /\ row' = [row EXCEPT ![c.id] = n]
           /\ Reply(s, [id |-> c.id, phase |-> n.phase, copy |-> n.copy,
                        cta |-> n.cta, ready |-> n.ready])
      /\ UNCHANGED <<detail, selectedId, editor, busy, history, clicks, typed>>
Refuse(s) ==
  /\ calls[s].kind # "none" /\ calls[s].stage = "sent" /\ Reply(s, None)
  /\ UNCHANGED <<row, detail, selectedId, editor, busy, history, clicks, typed>>

(* The owner's verdict on a review.                                        *)
Decide(r) ==
  /\ row[r].phase = "review"
  /\ \E p \in {"claimable", "publishable", "settled"} :
       row' = [row EXCEPT ![r].phase = p,
                          ![r].ready = IF p = "publishable" THEN Channels ELSE {}]
  /\ UNCHANGED <<detail, selectedId, editor, busy, calls, history, clicks, typed>>

Next ==
  \/ EditCopy \/ EditButton \/ ToggleChannel \/ \E r \in Requests : Decide(r)
  \/ \E s \in Slots :
       \/ HandleFiles(s) \/ \E r \in Requests : OpenRequest(s, r)
       \/ \E k \in Actions : RunAction(s, k)
       \/ ShowRequest(s) \/ ShowResult(s) \/ Throw(s) \/ Serve(s) \/ Refuse(s)

Spec == Init /\ [][Next]_queueVars
-------------------------------------------------------------------------------
(* Type invariant.                                                         *)
TypeOK ==
  /\ row \in [Requests -> Rows] /\ detail \in Views \cup {None}
  /\ selectedId \in Texts /\ copyInput \in Texts /\ ctaInput \in Buttons
  /\ publishChannels \subseteq Channels /\ busy \in BOOLEAN
  /\ calls \in [Slots -> CallsOf] /\ wanted \in Texts
  /\ disturbed \in BOOLEAN /\ jumped \in BOOLEAN
  /\ clicks \in 0 .. MaxClicks /\ typed \in 0 .. MaxEdits

(* What is saved for a request was written for it, although one editor       *)
(* serves all requests and the screen may change under the operator's hands. *)
TextsStayHome ==
  \A r \in Requests : row[r].copy \in {r, None} /\ row[r].cta.url \in {r, None}

(* Only channels the panel offered for the request it shows are selected, so *)
(* no publish request names one that was blocked, live or exhausted when the *)
(* panel was last filled.                                                  *)
ChannelsWereOffered ==
  detail # None => publishChannels \subseteq detail.ready

(* When all is answered the card clicked last is shown, unless its open      *)
(* failed or another request's result was adopted since.                    *)
LastClickWins ==
  (\A s \in Slots : ~calls[s].heard) /\ wanted # None /\ ~disturbed =>
    detail # None /\ detail.id = wanted

(* One action at a time, unless a card was loading beside one: the answer of *)
(* the open ends the waiting for the action too.                           *)
OneActionAtATime ==
  (\E s, t \in Slots : s # t /\ Acting(s) /\ Acting(t)) => jumped

(* The controls are not disabled for ever.                                 *)
BusyEnds == busy => \E s \in Slots : calls[s].heard

QueueIsSound ==
  /\ TextsStayHome /\ ChannelsWereOffered /\ LastClickWins /\ OneActionAtATime
  /\ BusyEnds

===============================================================================
