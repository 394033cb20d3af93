--------------------------- MODULE OwnerOnboarding ---------------------------
(***************************************************************************)
(* The onboarding of one store: the owner's tab, which finds the business,  *)
(* completes and confirms its profile and finishes (owner-app onboarding/   *)
(* and, once finished, the same flow inside app/), and the routes it calls. *)
(*                                                                         *)
(* The tab's handlers run one at a time but continue after their request is *)
(* answered; what they apply then is applied to whatever the tab shows by   *)
(* then.  A reload drops the tab's state and leaves the routes running.     *)
(***************************************************************************)
EXTENDS Integers

CONSTANTS
  Shops,        \* businesses that Naver's search finds
  Gaps,         \* what a shop's listing lacks: phone, hours
  Manual,       \* the candidate of a profile typed in by hand
  None,
  MaxRequests,  \* bound: requests of the tab and edits, together
  MaxEdits      \* bound: edits of a draft

Fields == {"phone", "hours"}
Businesses == Shops \cup {Manual}
Ids == 1 .. MaxRequests

(* A draft: `named` when name, address and category are all filled in,      *)
(* `empty` the prompted fields that are not, `missing` those it lists as    *)
(* missing.  The version tells two texts of the same business apart: 0 as   *)
(* found, then one per edit and per answered turn.                          *)
DraftsOf ==
  [shop : Businesses, named : BOOLEAN, empty : SUBSET Fields,
   missing : SUBSET Fields, version : 0 .. (MaxEdits + MaxRequests)]

VARIABLES
  status, profile,        \* stores: onboarding_status, the profile's columns
  record,                 \* business_profile_extractions: the confirmed row
  access, attached,       \* gbp_access_requests' state; a gbp_locations row
  about, turns,           \* conversations: the business each was opened for,
                          \* the business of each turn recorded in it
  page,                   \* what the tab displays
  extraction, found, draft, slot, session, confirmation, setup, adoption,
  req, sent,              \* the tab's requests, how many were made
  edits, overtaken, torn  \* history: edits made; a late answer was applied;
                          \* confirmations overlapped, or one died halfway

server == <<status, profile, record, access, attached, about, turns>>
tab == <<extraction, found, draft, slot, session, confirmation, setup, adoption>>
requests == <<req, sent>>
history == <<edits, overtaken, torn>>
vars == <<server, page, tab, requests, history>>

NoAnswer == [confirmed |-> None, kind |-> "idle"]
Blank == [kind |-> "extract", at |-> "sent", draft |-> None, session |-> None,
          found |-> {}, answer |-> "none", gone |-> FALSE]
Kinds == {"extract", "slot", "confirm", "claim"}
Answers == {"none", "candidates", "manual", "query", "filled", "clarify",
            "confirmed", "reviewing", "error"}
RequestsOf ==
  [kind : Kinds,
   at : {"sent", "opened", "stored", "insert", "matched", "answered"},
   draft : DraftsOf \cup {None}, session : Ids \cup {None},
   found : SUBSET Shops, answer : Answers, gone : BOOLEAN]

ASSUME NamesAssumption ==
  /\ Manual \notin Shops /\ None \notin Businesses \cup Ids \cup DraftsOf \cup RequestsOf
  /\ Gaps \in [Shops -> SUBSET Fields]
ASSUME BoundsAssumption == MaxRequests \in Nat /\ MaxEdits \in Nat

Candidate(s) == [shop |-> s, named |-> TRUE, empty |-> Gaps[s],
                 missing |-> Gaps[s], version |-> 0]
ManualDraft == [shop |-> Manual, named |-> FALSE, empty |-> Fields,
                missing |-> Fields, version |-> 0]

(* Registration leaves the store's columns as placeholders.                *)
Init ==
  /\ status = "NOT_STARTED" /\ profile = None /\ record = None
  /\ access = "none" /\ attached = FALSE
  /\ about = [i \in Ids |-> None] /\ turns = {}
  /\ page = "chat"
  /\ extraction = "idle" /\ found = {} /\ draft = None
  /\ slot = "idle" /\ session = None /\ confirmation = NoAnswer
  /\ setup = "idle" /\ adoption = "idle"
  /\ req = [i \in Ids |-> None] /\ sent = 0
  /\ edits = 0 /\ overtaken = FALSE /\ torn = FALSE
-------------------------------------------------------------------------------
(* The tab.                                                                *)

InFlow == page \in {"chat", "app"}

(* fetch: the handler awaits the answer.                                   *)
Send(r) ==
  /\ sent + edits < MaxRequests
  /\ sent' = sent + 1
  /\ req' = [req EXCEPT ![sent + 1] = r]

\* Plausible bug: the turn's session outlives the draft it was opened for.
KeepSlot == UNCHANGED <<slot, session>>
ResetSlot == slot' = "idle" /\ session' = None

\* Plausible bug: evidence of an earlier draft is kept.
KeepEvidence == UNCHANGED <<confirmation, setup>>
DropEvidence == confirmation' = NoAnswer /\ setup' = "idle"

(* The composer of the onboarding page is disabled while it awaits an       *)
(* answer; that of the app is not.                                         *)
ComposerEnabled ==
  InFlow /\ (page = "chat" => extraction # "loading" /\ slot # "loading")

SlotCollectionActive ==
  /\ draft # None /\ extraction # "loading"
  /\ draft.shop # Manual /\ draft.missing # {}

(* A message that neither confirms nor fills a slot is searched for.        *)
Extract ==
  /\ ComposerEnabled /\ ~SlotCollectionActive
  /\ Send(Blank)
  /\ extraction' = "loading" /\ found' = {} /\ draft' = None
  /\ DropEvidence /\ ResetSlot
  /\ UNCHANGED <<server, page, adoption, history>>

(* One of several candidates, or the only one before it is a draft.        *)
Offered(s) == s \in found /\ (found = {s} => draft = None)

SelectCandidate(s) ==
  /\ InFlow /\ extraction = "candidates" /\ Offered(s)
  /\ draft' = Candidate(s)
  /\ DropEvidence /\ ResetSlot
  /\ UNCHANGED <<server, page, extraction, found, adoption, requests, history>>

SearchAgain ==
  /\ InFlow /\ extraction = "candidates" /\ draft = None
  /\ \E s \in Shops : found = {s}
  /\ extraction' = "query" /\ found' = {} /\ draft' = None
  /\ DropEvidence /\ ResetSlot
  /\ UNCHANGED <<server, page, adoption, requests, history>>

SubmitSlot ==
  /\ ComposerEnabled /\ SlotCollectionActive
  /\ Send([Blank EXCEPT !.kind = "slot", !.draft = draft, !.session = session])
  /\ slot' = "loading"
  /\ DropEvidence
  /\ UNCHANGED <<server, page, extraction, found, draft, session, adoption,
                 history>>

FormShown == InFlow /\ draft # None /\ (draft.shop = Manual \/ draft.missing = {})

\* Plausible bug: a field that is emptied is not missing again.
Cleared(d, f) == [d EXCEPT !.empty = @ \cup {f}]

(* updateStoreProfileDraftField: a prompted field that is emptied is missing *)
(* again, one that is filled is not.                                       *)
Filled(d, f) == [d EXCEPT !.empty = @ \ {f}, !.missing = @ \ {f}]
Emptied(d, f) == [d EXCEPT !.empty = @ \cup {f}, !.missing = @ \cup {f}]

(* An owner edits a field of the form: the name, or a prompted field.       *)
ChangeDraftField ==
  /\ FormShown /\ edits < MaxEdits /\ sent + edits < MaxRequests
  /\ edits' = edits + 1
  /\ \E d \in {[draft EXCEPT !.named = n] : n \in BOOLEAN}
              \cup {Filled(draft, f) : f \in Fields}
              \cup {Emptied(draft, f) : f \in Fields} :
       draft' = [d EXCEPT !.version = edits + 1]
  /\ DropEvidence
  /\ UNCHANGED <<server, page, extraction, found, slot, session, adoption,
                 requests, overtaken, torn>>

(* The form's button waits for the last confirmation and has required       *)
(* fields; a message that says yes confirms without either.                *)
ByForm == /\ FormShown /\ confirmation.kind # "loading"
          /\ draft.named /\ "phone" \notin draft.empty
ByMessage == ComposerEnabled /\ draft # None /\ draft.missing = {}

Confirming(i) == req[i] # None /\ req[i].kind = "confirm"

Confirm ==
  /\ ByForm \/ ByMessage
  /\ Send([Blank EXCEPT !.kind = "confirm", !.draft = draft])
  /\ confirmation' = [NoAnswer EXCEPT !.kind = "loading"] /\ setup' = "idle"
  /\ torn' = (torn \/ \E i \in Ids : Confirming(i))
  /\ UNCHANGED <<server, page, extraction, found, draft, slot, session,
                 adoption, edits, overtaken>>

(* checkSetup asks no server: an operator runs the setup.                   *)
CheckSetup ==
  /\ InFlow /\ confirmation.kind = "confirmed"
  /\ adoption \notin {"loading", "reviewing"}
  /\ setup' = "pendingReview"
  /\ UNCHANGED <<server, page, extraction, found, draft, slot, session,
                 confirmation, adoption, requests, history>>

ClaimExisting ==
  /\ page = "chat" /\ confirmation.kind = "confirmed"
  /\ adoption \notin {"loading", "reviewing"}
  /\ Send([Blank EXCEPT !.kind = "claim"])
  /\ adoption' = "loading"
  /\ UNCHANGED <<server, page, extraction, found, draft, slot, session,
                 confirmation, setup, history>>
-------------------------------------------------------------------------------
(* The answers, applied by the handlers that awaited them.                  *)

Awaited(i, k) == req[i] # None /\ req[i].kind = k /\ ~req[i].gone
Answered(i, k) == Awaited(i, k) /\ req[i].at = "answered"
Forget(i) == req' = [req EXCEPT ![i] = None] /\ UNCHANGED sent

Late(i) == draft # req[i].draft

(* A search was asked for without a draft; in the app a second one may answer  *)
(* when the first has led to one, which goes then.                           *)
ShowExtraction(i) ==
  /\ Answered(i, "extract") /\ Forget(i)
  /\ extraction' = req[i].answer /\ found' = req[i].found
  /\ draft' = IF req[i].answer = "manual" THEN ManualDraft ELSE None
  /\ overtaken' = (overtaken \/ Late(i))
  /\ UNCHANGED <<server, page, slot, session, confirmation, setup, adoption,
                 edits, torn>>

(* firstMissingStoreProfileField: the phone before the hours.              *)
Requested(d) == IF "phone" \in d.missing THEN "phone" ELSE "hours"

(* The candidate of the request, with the requested field if it is filled.  *)
Answer(i) ==
  LET d == req[i].draft
  IN  IF req[i].answer = "filled"
      THEN [Filled(d, Requested(d)) EXCEPT !.version = MaxEdits + i] ELSE d

(* The draft and the session of the answer replace those of the tab.        *)
ShowTurn(i) ==
  /\ Answered(i, "slot") /\ Forget(i)
  /\ IF req[i].answer = "error"
     THEN slot' = "error" /\ UNCHANGED <<session, draft, overtaken>>
     ELSE /\ slot' = "idle" /\ session' = req[i].session
          /\ draft' = Answer(i)
          /\ overtaken' = (overtaken \/ Late(i))
  /\ UNCHANGED <<server, page, extraction, found, confirmation, setup,
                 adoption, edits, torn>>

ShowConfirmation(i) ==
  /\ Answered(i, "confirm") /\ Forget(i)
  /\ confirmation' = IF req[i].answer = "confirmed"
                     THEN [confirmed |-> req[i].draft, kind |-> "confirmed"]
                     ELSE [NoAnswer EXCEPT !.kind = "error"]
  /\ overtaken' = (overtaken \/ Late(i))
  /\ UNCHANGED <<server, page, extraction, found, draft, slot, session, setup,
                 adoption, edits, torn>>

ShowAdoption(i) ==
  /\ Answered(i, "claim") /\ Forget(i)
  /\ adoption' = req[i].answer
  /\ UNCHANGED <<server, page, extraction, found, draft, slot, session,
                 confirmation, setup, history>>

\* Plausible bug: no error branch.
StillLoading(i) == UNCHANGED <<extraction, slot, confirmation, adoption>>

(* The catch of each handler.                                              *)
ShowFailure(i) ==
  /\ extraction' = IF req[i].kind = "extract" THEN "error" ELSE extraction
  /\ slot' = IF req[i].kind = "slot" THEN "error" ELSE slot
  /\ confirmation' = IF req[i].kind = "confirm"
                     THEN [NoAnswer EXCEPT !.kind = "error"] ELSE confirmation
  /\ adoption' = IF req[i].kind = "claim" THEN "error" ELSE adoption

(* The connection fails: the route has finished, dies, or runs on unheard.  *)
Fail(i) ==
  /\ \E k \in Kinds : Awaited(i, k)
  /\ \/ /\ Forget(i)
        /\ torn' = (torn \/ req[i].at \in {"stored", "insert"})
     \/ /\ req[i].at # "answered"
        /\ req' = [req EXCEPT ![i].gone = TRUE] /\ UNCHANGED <<sent, torn>>
  /\ ShowFailure(i)
  /\ UNCHANGED <<server, page, found, draft, session, setup, edits, overtaken>>
-------------------------------------------------------------------------------
(* The routes.                                                             *)

At(i, k, label) == req[i] # None /\ req[i].kind = k /\ req[i].at = label
GoTo(i, label) == req' = [req EXCEPT ![i].at = label] /\ UNCHANGED sent

(* The response: dropped when nobody awaits it.                            *)
Respond(i, r) ==
  /\ req' = [req EXCEPT ![i] =
               IF req[i].gone THEN None ELSE [r EXCEPT !.at = "answered"]]
  /\ UNCHANGED sent
Refuse(i) == Respond(i, [req[i] EXCEPT !.answer = "error"])

(* Naver finds businesses, none or too late, or the link names none.        *)
Search(i) ==
  /\ At(i, "extract", "sent")
  /\ \/ \E f \in SUBSET Shops \ {{}} :
          Respond(i, [req[i] EXCEPT !.answer = "candidates", !.found = f])
     \/ \E a \in {"manual", "query", "error"} :
          Respond(i, [req[i] EXCEPT !.answer = a])
  /\ UNCHANGED <<server, page, tab, history>>

(* A session of its own for a turn that brings none.                       *)
OpenSession(i) ==
  LET s == IF req[i].session = None THEN i ELSE req[i].session
  IN  /\ At(i, "slot", "sent")
      /\ req' = [req EXCEPT ![i].session = s, ![i].at = "opened"]
      /\ about' = [about EXCEPT ![s] = IF s = i THEN req[i].draft.shop ELSE @]
      /\ UNCHANGED <<status, profile, record, access, attached, turns, page,
                     tab, sent, history>>

(* The field is filled when the owner's answer is understood; either way    *)
(* the turn is recorded.  An assistant that cannot be reached fails it.     *)
RecordTurn(i) ==
  /\ At(i, "slot", "opened")
  /\ \E a \in {"filled", "clarify"} : Respond(i, [req[i] EXCEPT !.answer = a])
  /\ turns' = turns \cup {<<req[i].session, req[i].draft.shop>>}
  /\ UNCHANGED <<status, profile, record, access, attached, about, page, tab,
                 history>>
TurnFails(i) ==
  /\ At(i, "slot", "opened") /\ Refuse(i)
  /\ UNCHANGED <<server, page, tab, history>>

Usable(d) == d.named /\ "phone" \notin d.empty

(* A profile without name or phone fails the schema.                       *)
RefuseProfile(i) ==
  /\ At(i, "confirm", "sent") /\ ~Usable(req[i].draft)
  /\ Refuse(i)
  /\ UNCHANGED <<server, page, tab, history>>

StoreProfile(i) ==
  /\ At(i, "confirm", "sent") /\ Usable(req[i].draft)
  /\ profile' = req[i].draft /\ status' = "IN_PROGRESS"
  /\ GoTo(i, "stored")
  /\ UNCHANGED <<record, access, attached, about, turns, page, tab, history>>

Confirmed(i) == Respond(i, [req[i] EXCEPT !.answer = "confirmed"])

(* The extraction row is updated, or inserted when there was none; whoever   *)
(* inserts second fails on the key.                                        *)
UpdateRecord(i) ==
  /\ At(i, "confirm", "stored")
  /\ IF record = None THEN GoTo(i, "insert") /\ UNCHANGED record
     ELSE Confirmed(i) /\ record' = req[i].draft
  /\ UNCHANGED <<status, profile, access, attached, about, turns, page, tab,
                 history>>
InsertRecord(i) ==
  /\ At(i, "confirm", "insert")
  /\ IF record = None THEN Confirmed(i) /\ record' = req[i].draft
     ELSE Refuse(i) /\ UNCHANGED record
  /\ UNCHANGED <<status, profile, access, attached, about, turns, page, tab,
                 history>>

(* Adoption needs a confirmed profile, and Google's answer.                *)
MatchListing(i) ==
  /\ At(i, "claim", "sent")
  /\ \/ profile # None /\ record # None /\ GoTo(i, "matched")
     \/ Refuse(i)
  /\ UNCHANGED <<server, page, tab, history>>

\* Plausible bug: a claim that is tracked already has no message.
Untold(opened) == IF opened THEN "reviewing" ELSE "tracked"

(* Opened or tracked before: both wait for an operator (toAdoptionState).    *)
Reviewing(opened) == "reviewing"

(* One access request per store, for ever: a second claim opens no review.   *)
OpenAdoptionReview(i) ==
  /\ At(i, "claim", "matched")
  /\ access' = IF access = "none" THEN "adoption_review" ELSE access
  /\ Respond(i, [req[i] EXCEPT !.answer = Reviewing(access = "none")])
  /\ UNCHANGED <<status, profile, record, attached, about, turns, page, tab,
                 history>>

(* An operator rules on the claim or, without one, sets the listing up for    *)
(* a confirmed profile.                                                    *)
Operate ==
  /\ \/ /\ access = "adoption_review" /\ access' = "granted" /\ attached' = TRUE
     \/ /\ access = "adoption_review" /\ access' = "blocked"
        /\ UNCHANGED attached
     \/ /\ access # "adoption_review" /\ record # None
        /\ ~attached /\ attached' = TRUE /\ UNCHANGED access
  /\ UNCHANGED <<status, profile, record, about, turns, page, tab, requests,
                 history>>
-------------------------------------------------------------------------------
(* Pages.                                                                  *)

(* A navigation drops the tab's state; what it awaited is not heard.        *)
Leave ==
  /\ extraction' = "idle" /\ found' = {} /\ draft' = None
  /\ slot' = "idle" /\ session' = None /\ confirmation' = NoAnswer
  /\ setup' = "idle" /\ adoption' = "idle"
  /\ req' = [i \in Ids |->
               IF req[i] = None \/ req[i].at = "answered" THEN None
               ELSE [req[i] EXCEPT !.gone = TRUE]]
  /\ UNCHANGED sent

Reload ==
  /\ page' = "loading" /\ Leave
  /\ UNCHANGED <<server, history>>

(* An owner waiting for an operator, or one who has got the listing, does    *)
(* not start over.                                                         *)
ResumeState ==
  IF attached THEN "connected"
  ELSE IF access = "adoption_review" THEN "reviewing" ELSE "chat"

Load ==
  /\ page = "loading"
  /\ page' = IF status = "COMPLETED" THEN "app" ELSE ResumeState
  /\ UNCHANGED <<server, tab, requests, history>>

\* Plausible bug: the last panel is shown before anything is confirmed.
MayAlwaysFinish == InFlow \/ page \in {"connected", "result"}

(* InstagramConnectPanel: the last question, and the button that finishes.  *)
CanFinish ==
  \/ InFlow /\ setup = "pendingReview"
  \/ page \in {"connected", "result"}

ConnectInstagram ==
  /\ CanFinish
  /\ page' = "away" /\ Leave
  /\ UNCHANGED <<server, history>>

(* The consent's callback leads to the result page, unless all is completed. *)
Return ==
  /\ page = "away"
  /\ page' = IF status = "COMPLETED" THEN "app" ELSE "result"
  /\ UNCHANGED <<server, tab, requests, history>>

(* The session's store is completed, whatever its state.                   *)
Complete ==
  /\ CanFinish
  /\ status' = "COMPLETED"
  /\ page' = "loading" /\ Leave
  /\ UNCHANGED <<profile, record, access, attached, about, turns, history>>
-------------------------------------------------------------------------------
Owner ==
  \/ Extract \/ SearchAgain \/ SubmitSlot \/ ChangeDraftField \/ Confirm
  \/ CheckSetup \/ ClaimExisting \/ \E s \in Shops : SelectCandidate(s)
Show(i) ==
  ShowExtraction(i) \/ ShowTurn(i) \/ ShowConfirmation(i) \/ ShowAdoption(i)
Serve(i) ==
  \/ Search(i) \/ OpenSession(i) \/ RecordTurn(i) \/ TurnFails(i)
  \/ RefuseProfile(i) \/ StoreProfile(i) \/ UpdateRecord(i) \/ InsertRecord(i)
  \/ MatchListing(i) \/ OpenAdoptionReview(i)

Next ==
  \/ Owner \/ Operate
  \/ \E i \in Ids : Show(i) \/ Serve(i) \/ Fail(i)
  \/ Reload \/ Load \/ ConnectInstagram \/ Return \/ Complete

Spec == Init /\ [][Next]_vars
-------------------------------------------------------------------------------
(* Properties.                                                             *)

TabOK ==
  /\ page \in {"chat", "app", "reviewing", "connected", "result", "away",
               "loading"}
  /\ extraction \in {"idle", "loading", "candidates", "manual", "query", "error"}
  /\ found \subseteq Shops /\ draft \in DraftsOf \cup {None}
  /\ slot \in {"idle", "loading", "error"} /\ session \in Ids \cup {None}
  /\ confirmation \in [confirmed : DraftsOf \cup {None},
                       kind : {"idle", "loading", "confirmed", "error"}]
  /\ setup \in {"idle", "pendingReview"}
  /\ adoption \in {"idle", "loading", "reviewing", "error"}
ServerOK ==
  /\ status \in {"NOT_STARTED", "IN_PROGRESS", "COMPLETED"}
  /\ profile \in DraftsOf \cup {None} /\ record \in DraftsOf \cup {None}
  /\ access \in {"none", "adoption_review", "granted", "blocked"}
  /\ attached \in BOOLEAN
  /\ about \in [Ids -> Businesses \cup {None}]
  /\ turns \subseteq Ids \X Businesses

(* Type invariant.                                                         *)
TypeOK ==
  /\ TabOK /\ ServerOK
  /\ req \in [Ids -> RequestsOf \cup {None}] /\ sent \in 0 .. MaxRequests
  /\ edits \in 0 .. MaxEdits /\ overtaken \in BOOLEAN /\ torn \in BOOLEAN

(* What a draft lists as missing is what is empty in it: through edits of    *)
(* both kinds, and answers computed from an earlier copy of it.            *)
DraftIsWhole == draft # None => draft.missing = draft.empty

(* Every turn of a conversation is about the business it was opened for,     *)
(* however searches, selections and late answers interleave: the session     *)
(* and the draft of the tab are replaced together (slotTurn.reset).         *)
SessionsKeepToTheirShop ==
  /\ \A t \in turns : t[2] = about[t[1]]
  /\ session # None /\ SlotCollectionActive => about[session] = draft.shop

(* A confirmation that is shown is of the draft that is shown, unless an     *)
(* answer came after the draft it was asked for had changed (the comment in  *)
(* handleDraftFieldChange promises it without the exception).              *)
ConfirmedIsShown ==
  confirmation.kind = "confirmed" /\ ~overtaken => confirmation.confirmed = draft

(* A confirmation that is shown is what both tables hold, unless two were    *)
(* under way at once or one died between its statements (confirmProfile).   *)
ConfirmedIsStored ==
  confirmation.kind = "confirmed" /\ ~torn =>
    profile = confirmation.confirmed /\ record = confirmation.confirmed

(* Confirmed profiles have a name and a phone; without a confirmation under  *)
(* way the two tables agree, with the same exceptions.                     *)
TablesAgree ==
  /\ profile # None => Usable(profile)
  /\ profile # record =>
       torn \/ \E i \in Ids : Confirming(i) /\ req[i].at \in {"stored", "insert"}

(* An owner who is told that a claim is under review has one on record.     *)
ReviewIsOnRecord ==
  adoption = "reviewing" \/ page = "reviewing" => access # "none"

(* A store is completed only with a confirmed profile or an attached         *)
(* listing, although /complete checks neither: the pages that offer it do.   *)
CompletedIsReady ==
  status = "COMPLETED" => (profile # None /\ record # None) \/ attached

(* Whatever the tab shows as loading, the answer that ends it is awaited: no   *)
(* control stays loading once the answers, or the failures, are in.         *)
EveryWaitIsAnswered ==
  /\ extraction = "loading" => \E i \in Ids : Awaited(i, "extract")
  /\ slot = "loading" => \E i \in Ids : Awaited(i, "slot")
  /\ confirmation.kind = "loading" => \E i \in Ids : Awaited(i, "confirm")
  /\ adoption = "loading" => \E i \in Ids : Awaited(i, "claim")

ScreenTellsTheTruth ==
  /\ DraftIsWhole /\ ConfirmedIsShown /\ ConfirmedIsStored /\ TablesAgree
  /\ ReviewIsOnRecord /\ CompletedIsReady /\ EveryWaitIsAnswered
  /\ SessionsKeepToTheirShop

===============================================================================
