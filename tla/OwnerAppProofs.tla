---------------------------- MODULE OwnerAppProofs ----------------------------
(***************************************************************************)
(* The owner's app keeps its word for any number of shops, requests, edits,     *)
(* photographs, submissions, events, flows, calls and commands, as they         *)
(* interleave, fail and are cut.                                            *)
(***************************************************************************)
EXTENDS OwnerApp, SequenceTheorems, TLAPS

Ready == (profile # None /\ record # None) \/ attached
IsWhole(d) == d \in DraftsOf /\ d.missing = d.empty
Confirmable(d) == d.shop = Manual \/ d.missing = {}

SlotFollows(i) ==
  /\ IsWhole(req[i].draft) /\ ~Confirmable(req[i].draft)
  /\ req[i].session # None => about[req[i].session] = req[i].draft.shop
  /\ req[i].at \in {"opened", "answered"} => req[i].session # None
  /\ req[i].at = "answered" => req[i].answer \in {"filled", "clarify", "error"}
  /\ req[i].at = "sent" /\ req[i].session = None => about[i] = None
ConfirmFollows(i) ==
  /\ IsWhole(req[i].draft) /\ Confirmable(req[i].draft)
  /\ req[i].at \in {"stored", "insert"} => profile # None /\ Usable(req[i].draft)
  /\ req[i].at = "answered" /\ req[i].answer = "confirmed" => profile # None /\ record # None
ReqFollows(i) ==
  req[i] # None =>
    /\ i <= sent
    /\ req[i].kind \in {"extract", "claim"} => req[i].draft = None
    /\ req[i].kind = "extract" /\ req[i].at = "answered" =>
         req[i].answer \in {"candidates", "manual", "query", "error"}
    /\ req[i].kind = "slot" => SlotFollows(i)
    /\ req[i].kind = "confirm" => ConfirmFollows(i)
    /\ req[i].kind = "claim" /\ req[i].at = "answered" =>
         /\ req[i].answer \in {"reviewing", "error"}
         /\ req[i].answer = "reviewing" => access # "none"

AboutFollows == \A i \in Ids : about[i] # None => i <= sent
SessionFollows ==
  session # None =>
    /\ about[session] # None
    /\ draft # None /\ draft.shop # Manual => about[session] = draft.shop
TurnsFollow == \A t \in turns : t[2] = about[t[1]]

Writing(i) == Confirming(i) /\ req[i].at \in {"stored", "insert"}
AloneFollows(i) ==
  /\ req[i].at \in {"stored", "insert"} => profile = req[i].draft
  /\ req[i].at = "insert" => record = None
  /\ req[i].at = "answered" /\ req[i].answer = "confirmed" =>
       profile = req[i].draft /\ record = req[i].draft
OneConfirms ==
  /\ \A i, j \in Ids : Confirming(i) /\ Confirming(j) => i = j
  /\ confirmation.kind = "confirmed" =>
       /\ profile = confirmation.confirmed /\ record = confirmation.confirmed
       /\ \A i \in Ids : ~Confirming(i)
  /\ \A i \in Ids : Confirming(i) => AloneFollows(i)
  /\ profile # record => \E i \in Ids : Writing(i)
ConfirmsFollow == ~torn => OneConfirms

ConfirmationFollows ==
  confirmation.kind = "confirmed" =>
    /\ profile # None /\ record # None
    /\ confirmation.confirmed \in DraftsOf /\ Confirmable(confirmation.confirmed)
    /\ ~overtaken => confirmation.confirmed = draft
PagesFollow ==
  /\ setup = "pendingReview" \/ page \in {"connected", "result", "away"} => Ready
  /\ adoption = "reviewing" \/ page = "reviewing" => access # "none"
  /\ status = "COMPLETED" => Ready

(* The invariant of the onboarding tab.                                     *)
OnbInv ==
  /\ TypeOK /\ \A i \in Ids : ReqFollows(i)
  /\ AboutFollows /\ SessionFollows /\ TurnsFollow
  /\ ConfirmsFollow /\ ConfirmationFollows /\ PagesFollow
  /\ DraftIsWhole /\ EveryWaitIsAnswered
  /\ profile # None => Usable(profile)

LEMMA Nones ==
  /\ None \notin Businesses /\ None \notin Ids /\ None \notin DraftsOf
  /\ None \notin RequestsOf /\ None \notin Shops /\ Manual \notin Shops
  /\ MaxRequests \in Nat /\ MaxEdits \in Nat
  BY NamesAssumption, BoundsAssumption DEF Businesses

LEMMA ScreenTellsTheTruthThen ==
  ASSUME OnbInv PROVE ScreenTellsTheTruth
<1>1. ConfirmedIsShown /\ ConfirmedIsStored /\ TablesAgree
  BY DEF OnbInv, ConfirmsFollow, OneConfirms, ConfirmationFollows, ConfirmedIsShown,
         ConfirmedIsStored,
     TablesAgree, Writing
<1>2. ReviewIsOnRecord /\ CompletedIsReady
  BY DEF OnbInv, PagesFollow, ReviewIsOnRecord, CompletedIsReady, Ready
<1>3. SessionsKeepToTheirShop
  BY
  DEF OnbInv, SessionFollows, TurnsFollow, SessionsKeepToTheirShop, SlotCollectionActive
<1> QED
  BY <1>1, <1>2, <1>3 DEF OnbInv, ScreenTellsTheTruth

LEMMA OnbStarts ==
  ASSUME Init PROVE OnbInv
<1>1. TypeOK
  <2>1. confirmation \in [confirmed : DraftsOf \cup {None},
                          kind : {"idle", "loading", "confirmed", "error"}]
    BY DEF Init, NoAnswer
  <2>2. TabOK
    BY <2>1 DEF Init, TabOK
  <2>3. ServerOK
    BY DEF Init, ServerOK
  <2>4. /\ req \in [Ids -> RequestsOf \cup {None}] /\ sent \in 0 .. MaxRequests
        /\ edits \in 0 .. MaxEdits
    BY Nones DEF Init
  <2>5. overtaken \in BOOLEAN /\ torn \in BOOLEAN
    BY DEF Init
  <2> QED
    BY <2>2, <2>3, <2>4, <2>5 DEF TypeOK
<1>2. \A i \in Ids : req[i] = None /\ about[i] = None
  BY DEF Init
<1> QED
  BY <1>1, <1>2 DEF Init, OnbInv, ReqFollows, AboutFollows, SessionFollows, TurnsFollow,
     ConfirmsFollow, OneConfirms, ConfirmationFollows, PagesFollow, DraftIsWhole,
     EveryWaitIsAnswered, Confirming, NoAnswer

(* A request that a step leaves as it is, or of which it only drops who waits.  *)
Unmoved(j) ==
  \/ req'[j] = None
  \/ /\ req[j] # None /\ req'[j] \in RequestsOf
     /\ req'[j].kind = req[j].kind /\ req'[j].at = req[j].at /\ req'[j].draft = req[j].draft
     /\ req'[j].session = req[j].session /\ req'[j].found = req[j].found
     /\ req'[j].answer = req[j].answer
Grows ==
  /\ profile # None => profile' # None
  /\ record # None => record' # None
  /\ access # "none" => access' # "none"
  /\ attached => attached'
  /\ \A s \in Ids : about[s] # None => about'[s] = about[s]

LEMMA ReqTyped ==
  ASSUME TypeOK, NEW i \in Ids, req[i] # None
  PROVE  req[i] \in RequestsOf /\ req[i].session \in Ids \cup {None}
         /\ req[i].draft \in DraftsOf \cup {None} /\ i \in Nat /\ sent \in Nat
  BY Nones DEF TypeOK, RequestsOf, Ids

LEMMA ReqKept ==
  ASSUME TypeOK, NEW j \in Ids, ReqFollows(j), Unmoved(j), Grows, sent' \in Nat,
         sent <= sent',
         about'[j] = about[j]
  PROVE  ReqFollows(j)'
<1> SUFFICES ASSUME req'[j] # None
             PROVE  ReqFollows(j)'
  BY DEF ReqFollows
<1>1. /\ req[j] # None /\ req'[j].kind = req[j].kind /\ req'[j].at = req[j].at
      /\ req'[j].draft = req[j].draft /\ req'[j].session = req[j].session
      /\ req'[j].answer = req[j].answer
  BY DEF Unmoved
<1>2. /\ req[j].session \in Ids \cup {None} /\ j \in Nat /\ sent \in Nat
      /\ req[j].draft \in DraftsOf \cup {None}
  BY <1>1, ReqTyped
<1>3. req[j].kind = "slot" => SlotFollows(j)'
  <2> SUFFICES ASSUME req[j].kind = "slot"
               PROVE  SlotFollows(j)'
    OBVIOUS
  <2>1. SlotFollows(j)
    BY <1>1 DEF ReqFollows
  <2>2. req[j].session # None => about'[req[j].session] = req[j].draft.shop
    <3>1. req[j].session # None => about[req[j].session] \in Businesses
      BY <2>1 DEF SlotFollows, IsWhole, DraftsOf
    <3> QED
      BY <1>2, <2>1, <3>1, Nones DEF SlotFollows, Grows
  <2> QED
    BY <1>1, <2>1, <2>2 DEF SlotFollows
<1>4. req[j].kind = "confirm" => ConfirmFollows(j)'
  BY <1>1 DEF ReqFollows, ConfirmFollows, Grows
<1>5. j <= sent'
  BY <1>1, <1>2 DEF ReqFollows
<1> QED
  BY <1>1, <1>3, <1>4, <1>5 DEF ReqFollows, Grows

(* The confirmations alone: nothing is written, nobody hears a new one.        *)
LEMMA ConfirmsKept ==
  ASSUME ConfirmsFollow, UNCHANGED <<profile, record>>, torn => torn',
         \A j \in Ids : Unmoved(j) \/ ~Confirming(j)',
         ~torn' => \A j \in Ids : Writing(j) => req'[j] # None,
         \A j \in Ids : Writing(j) => Unmoved(j),
         confirmation'.kind = "confirmed" => confirmation' = confirmation
  PROVE  ConfirmsFollow'
<1> SUFFICES ASSUME ~torn'
             PROVE  OneConfirms'
  BY DEF ConfirmsFollow
<1>1. ~torn
  OBVIOUS
<1>2. \A j \in Ids : Confirming(j)' =>
        Confirming(j) /\ req'[j].at = req[j].at /\ req'[j].draft = req[j].draft
        /\ req'[j].answer = req[j].answer
  BY DEF Confirming, Unmoved
<1>3. \A j \in Ids : Confirming(j)' => AloneFollows(j)'
  BY <1>1, <1>2 DEF ConfirmsFollow, OneConfirms, AloneFollows
<1>4. \A j \in Ids : Writing(j) => Writing(j)'
  BY DEF Writing, Confirming, Unmoved
<1> QED
  BY <1>1, <1>2, <1>3, <1>4 DEF ConfirmsFollow, OneConfirms, Ids

LEMMA PagesKept ==
  ASSUME PagesFollow, Grows, setup' = "pendingReview" => setup = "pendingReview",
         page' = page, adoption' = "reviewing" => adoption = "reviewing",
         status' = "COMPLETED" => status = "COMPLETED"
  PROVE  PagesFollow'
  BY DEF PagesFollow, Grows, Ready

(* A step of the tab: the tables stay.                                       *)
LEMMA TabKeeps ==
  ASSUME OnbInv, UNCHANGED <<profile, record, access, attached, about, turns>>, TypeOK',
         sent <= sent', torn => torn', \A j \in Ids : Unmoved(j) \/ ReqFollows(j)',
         SessionFollows', ConfirmsFollow', ConfirmationFollows', PagesFollow', DraftIsWhole',
         EveryWaitIsAnswered'
  PROVE  OnbInv'
<1>1. sent \in Nat /\ sent' \in Nat
  BY Nones DEF OnbInv, TypeOK
<1>2. \A j \in Ids : ReqFollows(j)'
  BY <1>1, ReqKept DEF OnbInv, Grows
<1>3. AboutFollows'
  BY <1>1, Nones DEF OnbInv, AboutFollows, Ids
<1>4. TurnsFollow'
  BY DEF OnbInv, TurnsFollow
<1> QED
  BY <1>2, <1>3, <1>4 DEF OnbInv, Ids

(* A step of a route: the tab stays.                                        *)
LEMMA RouteKeeps ==
  ASSUME OnbInv, NEW i \in Ids, req[i] # None, UNCHANGED <<page, tab, sent, history>>,
         Grows, TypeOK', \A j \in Ids \ {i} : req'[j] = req[j] /\ about'[j] = about[j],
         ReqFollows(i)', TurnsFollow', ConfirmsFollow',
         status' = "COMPLETED" => status = "COMPLETED",
         profile' # None => Usable(profile'),
         req[i].gone \/ (req'[i] # None /\ req'[i].kind = req[i].kind /\ ~req'[i].gone)
  PROVE  OnbInv'
<1>1. UNCHANGED <<page, extraction, found, draft, slot, session, confirmation, setup,
                  adoption, sent, edits, overtaken, torn>>
  BY DEF tab, history
<1>2. \A j \in Ids \ {i} : ReqFollows(j)'
  <2> SUFFICES ASSUME NEW j \in Ids \ {i}
               PROVE  ReqFollows(j)'
    OBVIOUS
  <2>1. Unmoved(j)
    <3>1. req'[j] = req[j] /\ req[j] \in RequestsOf \cup {None}
      BY DEF OnbInv, TypeOK
    <3> QED
      BY <3>1 DEF Unmoved
  <2>2. sent' \in Nat /\ sent <= sent'
    BY <1>1, Nones DEF OnbInv, TypeOK
  <2> QED
    BY <2>1, <2>2, ReqKept DEF OnbInv
<1>3. AboutFollows'
  BY <1>1 DEF OnbInv, AboutFollows, ReqFollows, Ids
<1>4. SessionFollows'
  <2>1. session # None => session \in Ids /\ about[session] # None
    BY DEF OnbInv, TypeOK, TabOK, SessionFollows
  <2>2. session # None => about'[session] = about[session]
    BY <2>1 DEF Grows
  <2> QED
    BY <1>1, <2>1, <2>2 DEF OnbInv, SessionFollows
<1>5. ConfirmationFollows' /\ DraftIsWhole'
  BY <1>1 DEF OnbInv, ConfirmationFollows, DraftIsWhole, Grows
<1>6. PagesFollow'
  BY <1>1, PagesKept DEF OnbInv
<1>7. EveryWaitIsAnswered'
  <2>1. \A j \in Ids, k \in Kinds : Awaited(j, k) => Awaited(j, k)'
    BY DEF Awaited
  <2> QED
    BY <1>1, <2>1 DEF OnbInv, EveryWaitIsAnswered, Kinds, Ids
<1> QED
  BY <1>2, <1>3, <1>4, <1>5, <1>6, <1>7 DEF OnbInv, Ids

(* A response: the request says what it was answered, or nobody waits for it.   *)
LEMMA RespondIs ==
  ASSUME TypeOK, NEW i \in Ids, req[i] # None, NEW r \in RequestsOf, Respond(i, r)
  PROVE  /\ req' \in [Ids -> RequestsOf \cup {None}] /\ sent' = sent
         /\ \A j \in Ids \ {i} : req'[j] = req[j]
         /\ req[i].gone => req'[i] = None
         /\ ~req[i].gone => /\ req'[i] # None /\ req'[i].at = "answered"
                            /\ req'[i].kind = r.kind /\ req'[i].draft = r.draft
                            /\ req'[i].session = r.session /\ req'[i].answer = r.answer
                            /\ req'[i].gone = r.gone
<1>1. /\ [r EXCEPT !.at = "answered"] \in RequestsOf
      /\ [r EXCEPT !.at = "answered"] # None
  BY Nones DEF RequestsOf
<1> DEFINE heard == [r EXCEPT !.at = "answered"]
<1>2. /\ heard.at = "answered" /\ heard.kind = r.kind /\ heard.draft = r.draft
      /\ heard.session = r.session /\ heard.answer = r.answer /\ heard.gone = r.gone
  BY DEF RequestsOf
<1>3. req' = [req EXCEPT ![i] = IF req[i].gone THEN None ELSE heard] /\ sent' = sent
  BY DEF Respond
<1> HIDE DEF heard
<1>4. heard \in RequestsOf /\ heard # None
  BY <1>1 DEF heard
<1>5. req \in [Ids -> RequestsOf \cup {None}]
  BY DEF TypeOK
<1> QED
  BY <1>2, <1>3, <1>4, <1>5

(* What the answer of each kind of request may be.                            *)
Responds(i, answer) ==
  /\ req' \in [Ids -> RequestsOf \cup {None}] /\ sent' = sent
  /\ \A j \in Ids \ {i} : req'[j] = req[j]
  /\ req[i].gone => req'[i] = None
  /\ ~req[i].gone => /\ req'[i] # None /\ req'[i].at = "answered"
                     /\ req'[i].kind = req[i].kind /\ req'[i].draft = req[i].draft
                     /\ req'[i].session = req[i].session /\ req'[i].answer = answer
                     /\ ~req'[i].gone

LEMMA RespondsIs ==
  ASSUME TypeOK, NEW i \in Ids, req[i] # None, NEW a \in Answers,
         Respond(i, [req[i] EXCEPT !.answer = a])
  PROVE  Responds(i, a)
<1>1. req[i] \in RequestsOf
  BY ReqTyped
<1> DEFINE r == [req[i] EXCEPT !.answer = a]
<1>2. /\ r \in RequestsOf /\ r.kind = req[i].kind /\ r.draft = req[i].draft
      /\ r.session = req[i].session /\ r.answer = a /\ r.gone = req[i].gone
  BY <1>1 DEF RequestsOf
<1>3. Respond(i, r)
  OBVIOUS
<1> HIDE DEF r
<1> QED
  BY <1>2, <1>3, RespondIs DEF Responds

LEMMA SearchIs ==
  ASSUME TypeOK, NEW i \in Ids, req[i] # None, NEW f \in SUBSET Shops,
         Respond(i, [req[i] EXCEPT !.answer = "candidates", !.found = f])
  PROVE  Responds(i, "candidates")
<1>1. req[i] \in RequestsOf
  BY ReqTyped
<1> DEFINE r == [[req[i] EXCEPT !.answer = "candidates"] EXCEPT !.found = f]
<1>2. /\ r \in RequestsOf /\ r.kind = req[i].kind /\ r.draft = req[i].draft
      /\ r.session = req[i].session /\ r.answer = "candidates" /\ r.gone = req[i].gone
  BY <1>1 DEF RequestsOf, Answers
<1>3. Respond(i, r)
  OBVIOUS
<1> HIDE DEF r
<1> QED
  BY <1>2, <1>3, RespondIs DEF Responds

LEMMA GoToIs ==
  ASSUME TypeOK, NEW i \in Ids, req[i] # None,
         NEW label \in {"sent", "opened", "stored", "insert", "matched", "answered"},
         GoTo(i, label)
  PROVE  /\ req' \in [Ids -> RequestsOf \cup {None}] /\ sent' = sent
         /\ \A j \in Ids \ {i} : req'[j] = req[j]
         /\ req'[i] # None /\ req'[i].at = label /\ req'[i].kind = req[i].kind
         /\ req'[i].draft = req[i].draft /\ req'[i].session = req[i].session
         /\ req'[i].answer = req[i].answer /\ req'[i].gone = req[i].gone
<1>1. req[i] \in RequestsOf /\ req \in [Ids -> RequestsOf \cup {None}]
  BY ReqTyped DEF TypeOK
<1> DEFINE r == [req[i] EXCEPT !.at = label]
<1>2. /\ r \in RequestsOf /\ r.kind = req[i].kind /\ r.draft = req[i].draft /\ r.at = label
      /\ r.session = req[i].session /\ r.answer = req[i].answer /\ r.gone = req[i].gone
  BY <1>1 DEF RequestsOf
<1>3. req' = [req EXCEPT ![i] = r] /\ sent' = sent
  BY DEF GoTo
<1> HIDE DEF r
<1>4. r # None
  BY <1>2, Nones
<1> QED
  BY <1>1, <1>2, <1>3, <1>4

LEMMA AnswerFollows ==
  ASSUME OnbInv, NEW i \in Ids, req[i] # None, NEW a \in Answers, Responds(i, a), Grows,
         req[i].kind = "extract" => a \in {"candidates", "manual", "query", "error"},
         req[i].kind = "slot" => a \in {"filled", "clarify", "error"} /\ req[i].at = "opened",
         req[i].kind = "confirm" /\ a = "confirmed" => profile' # None /\ record' # None,
         req[i].kind = "claim" =>
           a \in {"reviewing", "error"} /\ (a = "reviewing" => access' # "none"),
         about' = about
  PROVE  ReqFollows(i)'
<1>1. ReqFollows(i)
  BY DEF OnbInv
<1>2. CASE req[i].gone
  BY <1>2 DEF Responds, ReqFollows
<1>3. CASE ~req[i].gone
  <2>1. /\ req'[i].at = "answered" /\ req'[i].kind = req[i].kind
        /\ req'[i].draft = req[i].draft
        /\ req'[i].session = req[i].session /\ req'[i].answer = a /\ sent' = sent
    BY <1>3 DEF Responds
  <2>2. req[i].kind = "slot" => SlotFollows(i)'
    BY <1>1, <2>1 DEF ReqFollows, SlotFollows
  <2>3. req[i].kind = "confirm" => ConfirmFollows(i)'
    BY <1>1, <2>1 DEF ReqFollows, ConfirmFollows
  <2> QED
    BY <1>1, <2>1, <2>2, <2>3 DEF ReqFollows
<1> QED
  BY <1>2, <1>3

(* An answer that is no confirmation's.                                     *)
LEMMA OtherConfirms ==
  ASSUME OnbInv, NEW i \in Ids, req[i] # None, req[i].kind # "confirm",
         \A j \in Ids \ {i} : req'[j] = req[j],
         req'[i] = None \/ req'[i].kind = req[i].kind,
         UNCHANGED <<profile, record, torn, confirmation>>
  PROVE  ConfirmsFollow'
<1>1. \A j \in Ids : Confirming(j) =>
        j # i /\ req'[j] = req[j] /\ Confirming(j)'
  BY DEF Confirming
<1>2. \A j \in Ids : Confirming(j)' => Confirming(j) /\ req'[j] = req[j]
  BY DEF Confirming
<1>3. \A j \in Ids : Writing(j) => Writing(j)'
  BY <1>1 DEF Writing
<1>4. \A j \in Ids : Confirming(j)' /\ AloneFollows(j) => AloneFollows(j)'
  BY <1>2 DEF AloneFollows
<1> QED
  BY <1>1, <1>2, <1>3, <1>4 DEF OnbInv, ConfirmsFollow, OneConfirms, Ids

LEMMA SearchKeeps ==
  ASSUME OnbInv, NEW i \in Ids, Search(i) PROVE OnbInv'
<1>1. /\ req[i] # None /\ req[i].kind = "extract"
      /\ UNCHANGED <<server, page, tab, history>>
  BY DEF Search, At
<1>2. PICK a \in {"candidates", "manual", "query", "error"} : Responds(i, a)
  <2>1. CASE \E f \in SUBSET Shops \ {{}} :
               Respond(i, [req[i] EXCEPT !.answer = "candidates", !.found = f])
    BY <1>1, <2>1, SearchIs DEF OnbInv
  <2>2. CASE \E a \in {"manual", "query", "error"} :
               Respond(i, [req[i] EXCEPT !.answer = a])
    BY <1>1, <2>2, RespondsIs DEF OnbInv, Answers
  <2> QED
    BY <2>1, <2>2 DEF Search
<1>3. UNCHANGED <<status, profile, record, access, attached, about, turns>> /\ Grows
  BY <1>1 DEF server, Grows
<1>4. UNCHANGED <<extraction, found, draft, slot, session, confirmation, setup, adoption,
                  edits, overtaken, torn, sent>>
  BY <1>1, <1>2 DEF tab, history, Responds
<1>5. ReqFollows(i)'
  BY <1>1, <1>2, <1>3, AnswerFollows DEF Answers
<1>6. TypeOK'
  BY <1>1, <1>2, <1>3, <1>4 DEF OnbInv, TypeOK, TabOK, ServerOK, Responds
<1>7. ConfirmsFollow'
  BY <1>1, <1>2, <1>3, <1>4, OtherConfirms DEF Responds
<1>8. TurnsFollow'
  BY <1>3 DEF OnbInv, TurnsFollow
<1>9. profile' # None => Usable(profile')
  BY <1>3 DEF OnbInv
<1> QED
  BY <1>1, <1>2, <1>3, <1>4, <1>5, <1>6, <1>7, <1>8, <1>9, RouteKeeps DEF Responds

(* Answers that write nothing.                                              *)
LEMMA PlainAnswerKeeps ==
  ASSUME OnbInv, NEW i \in Ids, req[i] # None, NEW a \in Answers,
         Respond(i, [req[i] EXCEPT !.answer = a]),
         UNCHANGED <<server, page, tab, history>>,
         req[i].kind # "extract", req[i].kind = "confirm" => a = "error" /\ ~Writing(i),
         req[i].kind = "slot" => a \in {"filled", "clarify", "error"} /\ req[i].at = "opened",
         req[i].kind = "claim" => a = "error"
  PROVE  OnbInv'
<1>1. Responds(i, a)
  BY RespondsIs DEF OnbInv
<1>2. UNCHANGED <<status, profile, record, access, attached, about, turns>> /\ Grows
  BY DEF server, Grows
<1>3. UNCHANGED <<extraction, found, draft, slot, session, confirmation, setup, adoption,
                  edits, overtaken, torn, sent>>
  BY <1>1 DEF tab, history, Responds
<1>4. ReqFollows(i)'
  BY <1>1, <1>2, AnswerFollows
<1>5. TypeOK'
  BY <1>1, <1>2, <1>3 DEF OnbInv, TypeOK, TabOK, ServerOK, Responds
<1>6. ConfirmsFollow'
  <2>1. CASE req[i].kind # "confirm"
    BY <1>1, <1>2, <1>3, <2>1, OtherConfirms DEF Responds
  <2>2. CASE req[i].kind = "confirm"
    <3>1. \A j \in Ids : Writing(j) => j # i /\ req'[j] = req[j]
      BY <1>1, <2>2 DEF Responds
    <3>2. \A j \in Ids : Confirming(j)' => Confirming(j)
      BY <1>1, <2>2 DEF Responds, Confirming
    <3>3. \A j \in Ids : Confirming(j)' /\ AloneFollows(j) => AloneFollows(j)'
      BY <1>1, <1>2, <2>2 DEF Responds, Confirming, AloneFollows
    <3>4. \A j \in Ids : Writing(j) => Writing(j)'
      BY <3>1 DEF Writing, Confirming
    <3> QED
      BY <1>2, <1>3, <3>2, <3>3, <3>4 DEF OnbInv, ConfirmsFollow, OneConfirms, Ids
  <2> QED
    BY <2>1, <2>2
<1>7. TurnsFollow' /\ (profile' # None => Usable(profile'))
  BY <1>2 DEF OnbInv, TurnsFollow
<1> QED
  BY <1>1, <1>2, <1>3, <1>4, <1>5, <1>6, <1>7, RouteKeeps DEF Responds

LEMMA RefusalsKeep ==
  ASSUME OnbInv, NEW i \in Ids, TurnFails(i) \/ RefuseProfile(i) PROVE OnbInv'
<1>1. CASE TurnFails(i)
  BY <1>1, PlainAnswerKeeps DEF TurnFails, Refuse, At, Answers
<1>2. CASE RefuseProfile(i)
  BY <1>2, PlainAnswerKeeps DEF RefuseProfile, Refuse, At, Writing, Answers
<1> QED
  BY <1>1, <1>2

LEMMA OpenSessionKeeps ==
  ASSUME OnbInv, NEW i \in Ids, OpenSession(i) PROVE OnbInv'
<1> DEFINE s == IF req[i].session = None THEN i ELSE req[i].session
<1>1. /\ req[i] # None /\ req[i].kind = "slot" /\ req[i].at = "sent"
      /\ req' = [req EXCEPT ![i].session = s, ![i].at = "opened"]
      /\ about' = [about EXCEPT ![s] = IF s = i THEN req[i].draft.shop ELSE @]
      /\ UNCHANGED <<status, profile, record, access, attached, turns, page,
                     tab, sent, history>>
  BY DEF OpenSession, At
<1>2. req[i] \in RequestsOf /\ req \in [Ids -> RequestsOf \cup {None}]
      /\ about \in [Ids -> Businesses \cup {None}] /\ ReqFollows(i) /\ SlotFollows(i)
  BY <1>1, ReqTyped DEF OnbInv, TypeOK, ServerOK, ReqFollows
<1>3. s \in Ids
  BY <1>2 DEF RequestsOf
<1>4. /\ req' \in [Ids -> RequestsOf \cup {None}] /\ \A j \in Ids \ {i} : req'[j] = req[j]
      /\ req'[i] # None /\ req'[i].at = "opened" /\ req'[i].kind = "slot"
      /\ req'[i].draft = req[i].draft /\ req'[i].session = s
      /\ req'[i].gone = req[i].gone
  <2> HIDE DEF s
  <2> DEFINE r == [[req[i] EXCEPT !.session = s] EXCEPT !.at = "opened"]
  <2>1. /\ r \in RequestsOf /\ r.kind = req[i].kind /\ r.draft = req[i].draft
        /\ r.at = "opened" /\ r.session = s /\ r.gone = req[i].gone
    BY <1>2, <1>3 DEF RequestsOf
  <2>2. req' = [req EXCEPT ![i] = r]
    BY <1>1, <1>2 DEF RequestsOf
  <2> HIDE DEF r
  <2>3. r # None
    BY <2>1, Nones
  <2> QED
    BY <1>1, <1>2, <2>1, <2>2, <2>3
<1>5. req[i].draft.shop \in Businesses /\ req[i].draft.shop # None
  BY <1>2, Nones DEF SlotFollows, IsWhole, DraftsOf
<1>6. /\ about' \in [Ids -> Businesses \cup {None}]
      /\ \A t \in Ids : about[t] # None => about'[t] = about[t]
      /\ \A t \in Ids \ {i} : about'[t] = about[t]
      /\ about'[s] = req[i].draft.shop
  <2>1. CASE req[i].session = None
    <3>1. s = i /\ about[i] = None /\ about' = [about EXCEPT ![i] = req[i].draft.shop]
      BY <1>1, <1>2, <2>1 DEF SlotFollows
    <3> HIDE DEF s
    <3> QED
      BY <1>2, <1>5, <3>1
  <2>2. CASE req[i].session # None
    <3>1. s = req[i].session /\ about[s] = req[i].draft.shop
      BY <1>2, <2>2 DEF SlotFollows
    <3>2. about'[s] = req[i].draft.shop /\ \A t \in Ids \ {s} : about'[t] = about[t]
      <4> HIDE DEF s
      <4> QED
        BY <1>1, <1>2, <1>3, <3>1
    <3>3. \A t \in Ids : about'[t] = about[t]
      <4> HIDE DEF s
      <4> QED
        BY <3>1, <3>2
    <3>4. about' \in [Ids -> Businesses \cup {None}]
      <4> HIDE DEF s
      <4> QED
        BY <1>1, <1>2, <1>3, <1>5
    <3> HIDE DEF s
    <3> QED
      BY <3>2, <3>3, <3>4
  <2> QED
    BY <2>1, <2>2
<1>7. Grows
  BY <1>1, <1>6 DEF Grows
<1>8. UNCHANGED <<extraction, found, draft, slot, session, confirmation, setup, adoption,
                  edits, overtaken, torn>>
  BY <1>1 DEF tab, history
<1>9. TypeOK'
  BY <1>1, <1>4, <1>6, <1>8 DEF OnbInv, TypeOK, TabOK, ServerOK
<1>10. ReqFollows(i)'
  <2> HIDE DEF s
  <2>1. s # None
    BY <1>3, Nones
  <2>2. SlotFollows(i)'
    BY <1>2, <1>4, <1>6, <2>1 DEF SlotFollows
  <2> QED
    BY <1>1, <1>2, <1>4, <2>2 DEF ReqFollows
<1>11. ConfirmsFollow'
  BY <1>1, <1>4, <1>8, OtherConfirms
<1>12. TurnsFollow'
  <2>1. \A t \in turns : t[1] \in Ids /\ t[2] # None
    BY Nones DEF OnbInv, TypeOK, ServerOK
  <2> QED
    BY <1>1, <1>6, <2>1 DEF OnbInv, TurnsFollow
<1>13. profile' # None => Usable(profile')
  BY <1>1 DEF OnbInv
<1> QED
  BY <1>1, <1>4, <1>6, <1>7, <1>9, <1>10, <1>11, <1>12, <1>13, RouteKeeps

LEMMA RecordTurnKeeps ==
  ASSUME OnbInv, NEW i \in Ids, RecordTurn(i) PROVE OnbInv'
<1>1. PICK a \in {"filled", "clarify"} : Respond(i, [req[i] EXCEPT !.answer = a])
  BY DEF RecordTurn
<1>2. /\ req[i] # None /\ req[i].kind = "slot" /\ req[i].at = "opened"
      /\ turns' = turns \cup {<<req[i].session, req[i].draft.shop>>}
      /\ UNCHANGED <<status, profile, record, access, attached, about, page, tab, history>>
  BY DEF RecordTurn, At
<1>3. Responds(i, a)
  BY <1>1, <1>2, RespondsIs DEF OnbInv, Answers
<1>4. Grows
  BY <1>2 DEF Grows
<1>5. UNCHANGED <<extraction, found, draft, slot, session, confirmation, setup, adoption,
                  edits, overtaken, torn, sent>>
  BY <1>2, <1>3 DEF tab, history, Responds
<1>6. ReqFollows(i)'
  BY <1>2, <1>3, <1>4, AnswerFollows DEF Answers
<1>7. /\ req[i].session \in Ids /\ req[i].draft.shop \in Businesses
      /\ about[req[i].session] = req[i].draft.shop
  <2>1. SlotFollows(i) /\ req[i] \in RequestsOf
    BY <1>2, ReqTyped DEF OnbInv, ReqFollows
  <2> QED
    BY <1>2, <2>1 DEF SlotFollows, IsWhole, DraftsOf, RequestsOf
<1>8. TypeOK'
  <2>1. turns' \subseteq Ids \X Businesses
    BY <1>2, <1>7 DEF OnbInv, TypeOK, ServerOK
  <2> QED
    BY <1>2, <1>3, <1>5, <2>1 DEF OnbInv, TypeOK, TabOK, ServerOK, Responds
<1>9. ConfirmsFollow'
  BY <1>2, <1>3, <1>5, OtherConfirms DEF Responds
<1>10. TurnsFollow'
  BY <1>2, <1>7 DEF OnbInv, TurnsFollow
<1>11. profile' # None => Usable(profile')
  BY <1>2 DEF OnbInv
<1> QED
  BY <1>2, <1>3, <1>4, <1>5, <1>6, <1>8, <1>9, <1>10, <1>11, RouteKeeps DEF Responds

LEMMA StoreProfileKeeps ==
  ASSUME OnbInv, NEW i \in Ids, StoreProfile(i) PROVE OnbInv'
<1>1. /\ req[i] # None /\ req[i].kind = "confirm" /\ req[i].at = "sent"
      /\ Usable(req[i].draft) /\ profile' = req[i].draft /\ status' = "IN_PROGRESS"
      /\ GoTo(i, "stored")
      /\ UNCHANGED <<record, access, attached, about, turns, page, tab, history>>
  BY DEF StoreProfile, At
<1>2. /\ req' \in [Ids -> RequestsOf \cup {None}] /\ sent' = sent
      /\ \A j \in Ids \ {i} : req'[j] = req[j]
      /\ req'[i] # None /\ req'[i].at = "stored" /\ req'[i].kind = "confirm"
      /\ req'[i].draft = req[i].draft /\ req'[i].answer = req[i].answer
      /\ req'[i].gone = req[i].gone
  BY <1>1, GoToIs DEF OnbInv
<1>3. ReqFollows(i) /\ ConfirmFollows(i)
  BY <1>1 DEF OnbInv, ReqFollows
<1>4. profile' \in DraftsOf /\ profile' # None
  BY <1>1, <1>3, Nones DEF ConfirmFollows, IsWhole
<1>5. Grows
  BY <1>1, <1>4 DEF Grows
<1>6. UNCHANGED <<extraction, found, draft, slot, session, confirmation, setup, adoption,
                  edits, overtaken, torn>>
  BY <1>1 DEF tab, history
<1>7. TypeOK'
  BY <1>1, <1>2, <1>4, <1>6 DEF OnbInv, TypeOK, TabOK, ServerOK
<1>8. ReqFollows(i)'
  <2>1. ConfirmFollows(i)'
    BY <1>1, <1>2, <1>3, <1>4 DEF ConfirmFollows
  <2> QED
    BY <1>1, <1>2, <1>3, <2>1 DEF ReqFollows
<1>9. ConfirmsFollow'
  <2> SUFFICES ASSUME ~torn
               PROVE  OneConfirms'
    BY <1>6 DEF ConfirmsFollow
  <2>1. OneConfirms /\ Confirming(i)
    BY <1>1 DEF OnbInv, ConfirmsFollow, Confirming
  <2>2. \A j \in Ids : Confirming(j)' => j = i
    BY <1>2, <2>1 DEF OneConfirms, Confirming
  <2>3. Writing(i)' /\ AloneFollows(i)'
    BY <1>1, <1>2 DEF Writing, Confirming, AloneFollows
  <2>4. confirmation.kind # "confirmed"
    BY <2>1 DEF OneConfirms
  <2> QED
    BY <1>6, <2>2, <2>3, <2>4 DEF OneConfirms, Ids
<1>10. TurnsFollow' /\ (profile' # None => Usable(profile'))
  BY <1>1 DEF OnbInv, TurnsFollow
<1> QED
  BY <1>1, <1>2, <1>5, <1>7, <1>8, <1>9, <1>10, RouteKeeps

(* The record is written, and the confirmation is answered.                    *)
LEMMA RecordWritten ==
  ASSUME OnbInv, NEW i \in Ids, Writing(i),
         Respond(i, [req[i] EXCEPT !.answer = "confirmed"]),
         record' = req[i].draft,
         UNCHANGED <<status, profile, access, attached, about, turns, page, tab,
         history>>
  PROVE  OnbInv'
<1>1. req[i] # None /\ req[i].kind = "confirm" /\ req[i].at \in {"stored", "insert"}
  BY DEF Writing, Confirming
<1>2. Responds(i, "confirmed")
  BY <1>1, RespondsIs DEF OnbInv, Answers
<1>3. ReqFollows(i) /\ ConfirmFollows(i)
  BY <1>1 DEF OnbInv, ReqFollows
<1>4. record' \in DraftsOf /\ record' # None /\ profile # None
  BY <1>1, <1>3, Nones DEF ConfirmFollows, IsWhole
<1>5. Grows
  BY <1>4 DEF Grows
<1>6. UNCHANGED <<extraction, found, draft, slot, session, confirmation, setup, adoption,
                  edits, overtaken, torn, sent>>
  BY <1>2 DEF tab, history, Responds
<1>7. TypeOK'
  BY <1>2, <1>4, <1>6 DEF OnbInv, TypeOK, TabOK, ServerOK, Responds
<1>8. ReqFollows(i)'
  BY <1>1, <1>2, <1>4, <1>5, AnswerFollows DEF Answers
<1>9. ConfirmsFollow'
  <2> SUFFICES ASSUME ~torn
               PROVE  OneConfirms'
    BY <1>6 DEF ConfirmsFollow
  <2>1. OneConfirms /\ Confirming(i)
    BY <1>1 DEF OnbInv, ConfirmsFollow, Confirming
  <2>2. \A j \in Ids : Confirming(j)' => j = i
    BY <1>2, <2>1 DEF OneConfirms, Confirming, Responds
  <2>3. confirmation.kind # "confirmed"
    BY <2>1 DEF OneConfirms
  <2>4. profile = req[i].draft
    BY <1>1, <2>1 DEF OneConfirms, AloneFollows
  <2>5. Confirming(i)' => AloneFollows(i)'
    BY <1>2, <2>4 DEF Responds, Confirming, AloneFollows
  <2> QED
    BY <1>6, <2>2, <2>3, <2>4, <2>5 DEF OneConfirms, Ids
<1>10. TurnsFollow' /\ (profile' # None => Usable(profile'))
  BY DEF OnbInv, TurnsFollow
<1> QED
  BY <1>1, <1>2, <1>5, <1>6, <1>7, <1>8, <1>9, <1>10, RouteKeeps DEF Responds

LEMMA UpdateRecordKeeps ==
  ASSUME OnbInv, NEW i \in Ids, UpdateRecord(i) PROVE OnbInv'
<1>1. /\ req[i] # None /\ req[i].kind = "confirm" /\ req[i].at = "stored"
      /\ UNCHANGED <<status, profile, access, attached, about, turns, page, tab, history>>
  BY DEF UpdateRecord, At
<1>2. CASE record # None
  <2>1. Writing(i) /\ Respond(i, [req[i] EXCEPT !.answer = "confirmed"])
        /\ record' = req[i].draft
    BY <1>1, <1>2 DEF UpdateRecord, Writing, Confirming, Confirmed
  <2> QED
    BY <1>1, <2>1, RecordWritten
<1>3. CASE record = None
  <2>1. GoTo(i, "insert") /\ record' = record
    BY <1>3 DEF UpdateRecord
  <2>2. /\ req' \in [Ids -> RequestsOf \cup {None}] /\ sent' = sent
        /\ \A j \in Ids \ {i} : req'[j] = req[j]
        /\ req'[i] # None /\ req'[i].at = "insert" /\ req'[i].kind = "confirm"
        /\ req'[i].draft = req[i].draft /\ req'[i].answer = req[i].answer
        /\ req'[i].gone = req[i].gone
    BY <1>1, <2>1, GoToIs DEF OnbInv
  <2>3. ReqFollows(i) /\ ConfirmFollows(i)
    BY <1>1 DEF OnbInv, ReqFollows
  <2>4. Grows
    BY <1>1, <2>1 DEF Grows
  <2>5. UNCHANGED <<extraction, found, draft, slot, session, confirmation, setup, adoption,
                    edits, overtaken, torn>>
    BY <1>1 DEF tab, history
  <2>6. TypeOK'
    BY <1>1, <2>1, <2>2, <2>5 DEF OnbInv, TypeOK, TabOK, ServerOK
  <2>7. ReqFollows(i)'
    <3>1. ConfirmFollows(i)'
      BY <1>1, <2>1, <2>2, <2>3 DEF ConfirmFollows
    <3> QED
      BY <1>1, <2>2, <2>3, <3>1 DEF ReqFollows
  <2>8. ConfirmsFollow'
    <3> SUFFICES ASSUME ~torn
                 PROVE  OneConfirms'
      BY <2>5 DEF ConfirmsFollow
    <3>1. OneConfirms /\ Confirming(i)
      BY <1>1 DEF OnbInv, ConfirmsFollow, Confirming
    <3>2. \A j \in Ids : Confirming(j)' => j = i
      BY <2>2, <3>1 DEF OneConfirms, Confirming
    <3>3. AloneFollows(i)
      BY <3>1 DEF OneConfirms
    <3>4. Writing(i)' /\ AloneFollows(i)'
      BY <1>1, <1>3, <2>1, <2>2, <3>3 DEF Writing, Confirming, AloneFollows
    <3>5. confirmation.kind # "confirmed"
      BY <3>1 DEF OneConfirms
    <3> QED
      BY <2>5, <3>2, <3>4, <3>5 DEF OneConfirms, Ids
  <2>9. TurnsFollow' /\ (profile' # None => Usable(profile'))
    BY <1>1 DEF OnbInv, TurnsFollow
  <2> QED
    BY <1>1, <2>2, <2>4, <2>6, <2>7, <2>8, <2>9, RouteKeeps
<1> QED
  BY <1>2, <1>3

(* Whoever inserts second was not alone.                                     *)
LEMMA InsertRecordKeeps ==
  ASSUME OnbInv, NEW i \in Ids, InsertRecord(i) PROVE OnbInv'
<1>1. /\ req[i] # None /\ req[i].kind = "confirm" /\ req[i].at = "insert" /\ Writing(i)
      /\ UNCHANGED <<status, profile, access, attached, about, turns, page, tab, history>>
  BY DEF InsertRecord, At, Writing, Confirming
<1>2. CASE record = None
  <2>1. Respond(i, [req[i] EXCEPT !.answer = "confirmed"]) /\ record' = req[i].draft
    BY <1>2 DEF InsertRecord, Confirmed
  <2> QED
    BY <1>1, <2>1, RecordWritten
<1>3. CASE record # None
  <2>1. Respond(i, [req[i] EXCEPT !.answer = "error"]) /\ record' = record
    BY <1>3 DEF InsertRecord, Refuse
  <2>2. Responds(i, "error")
    BY <1>1, <2>1, RespondsIs DEF OnbInv, Answers
  <2>3. Grows
    BY <1>1, <2>1 DEF Grows
  <2>4. UNCHANGED <<extraction, found, draft, slot, session, confirmation, setup, adoption,
                    edits, overtaken, torn, sent>>
    BY <1>1, <2>2 DEF tab, history, Responds
  <2>5. torn
    BY <1>1, <1>3 DEF OnbInv, ConfirmsFollow, OneConfirms, AloneFollows, Writing
  <2>6. ConfirmsFollow'
    BY <2>4, <2>5 DEF ConfirmsFollow
  <2>7. TypeOK'
    BY <1>1, <2>1, <2>2, <2>4 DEF OnbInv, TypeOK, TabOK, ServerOK, Responds
  <2>8. ReqFollows(i)'
    BY <1>1, <2>2, <2>3, AnswerFollows DEF Answers
  <2>9. TurnsFollow' /\ (profile' # None => Usable(profile'))
    BY <1>1 DEF OnbInv, TurnsFollow
  <2> QED
    BY <1>1, <2>2, <2>3, <2>4, <2>6, <2>7, <2>8, <2>9, RouteKeeps DEF Responds
<1> QED
  BY <1>2, <1>3

LEMMA MatchListingKeeps ==
  ASSUME OnbInv, NEW i \in Ids, MatchListing(i) PROVE OnbInv'
<1>1. /\ req[i] # None /\ req[i].kind = "claim" /\ req[i].at = "sent"
      /\ GoTo(i, "matched") \/ Refuse(i)
      /\ UNCHANGED <<server, page, tab, history>>
  BY DEF MatchListing, At
<1>2. CASE Refuse(i)
  BY <1>1, <1>2, PlainAnswerKeeps DEF Refuse, Answers
<1>3. CASE GoTo(i, "matched")
  <2>1. /\ req' \in [Ids -> RequestsOf \cup {None}] /\ sent' = sent
        /\ \A j \in Ids \ {i} : req'[j] = req[j]
        /\ req'[i] # None /\ req'[i].at = "matched" /\ req'[i].kind = "claim"
        /\ req'[i].draft = req[i].draft /\ req'[i].gone = req[i].gone
    BY <1>1, <1>3, GoToIs DEF OnbInv
  <2>2. UNCHANGED <<status, profile, record, access, attached, about, turns>> /\ Grows
    BY <1>1 DEF server, Grows
  <2>3. UNCHANGED <<extraction, found, draft, slot, session, confirmation, setup, adoption,
                    edits, overtaken, torn>>
    BY <1>1 DEF tab, history
  <2>4. TypeOK'
    BY <1>1, <2>1, <2>2, <2>3 DEF OnbInv, TypeOK, TabOK, ServerOK
  <2>5. ReqFollows(i)'
    BY <1>1, <2>1 DEF OnbInv, ReqFollows
  <2>6. ConfirmsFollow'
    BY <1>1, <2>1, <2>2, <2>3, OtherConfirms
  <2>7. TurnsFollow' /\ (profile' # None => Usable(profile'))
    BY <2>2 DEF OnbInv, TurnsFollow
  <2> QED
    BY <1>1, <2>1, <2>2, <2>4, <2>5, <2>6, <2>7, RouteKeeps
<1> QED
  BY <1>1, <1>2, <1>3

LEMMA OpenAdoptionReviewKeeps ==
  ASSUME OnbInv, NEW i \in Ids, OpenAdoptionReview(i) PROVE OnbInv'
<1>1. /\ req[i] # None /\ req[i].kind = "claim" /\ req[i].at = "matched"
      /\ access' = IF access = "none" THEN "adoption_review" ELSE access
      /\ Respond(i, [req[i] EXCEPT !.answer = "reviewing"])
      /\ UNCHANGED <<status, profile, record, attached, about, turns, page, tab, history>>
  BY DEF OpenAdoptionReview, At, Reviewing
<1>2. Responds(i, "reviewing")
  BY <1>1, RespondsIs DEF OnbInv, Answers
<1>3. Grows /\ access' # "none"
  BY <1>1 DEF Grows
<1>4. UNCHANGED <<extraction, found, draft, slot, session, confirmation, setup, adoption,
                  edits, overtaken, torn, sent>>
  BY <1>1, <1>2 DEF tab, history, Responds
<1>5. ReqFollows(i)'
  BY <1>1, <1>2, <1>3, AnswerFollows DEF Answers
<1>6. TypeOK'
  BY <1>1, <1>2, <1>4 DEF OnbInv, TypeOK, TabOK, ServerOK, Responds
<1>7. ConfirmsFollow'
  BY <1>1, <1>2, <1>4, OtherConfirms DEF Responds
<1>8. TurnsFollow' /\ (profile' # None => Usable(profile'))
  BY <1>1 DEF OnbInv, TurnsFollow
<1> QED
  BY <1>1, <1>2, <1>3, <1>4, <1>5, <1>6, <1>7, <1>8, RouteKeeps DEF Responds

LEMMA OperateKeeps ==
  ASSUME OnbInv, Operate PROVE OnbInv'
<1>1. /\ UNCHANGED <<status, profile, record, about, turns, page, tab, requests, history>>
      /\ Grows /\ access' \in {"none", "adoption_review", "granted", "blocked"}
      /\ attached' \in BOOLEAN
  BY DEF Operate, Grows, OnbInv, TypeOK, ServerOK
<1>2. UNCHANGED <<extraction, found, draft, slot, session, confirmation, setup, adoption,
                  req, sent, edits, overtaken, torn>>
  BY <1>1 DEF tab, requests, history
<1>3. TypeOK'
  BY <1>1, <1>2 DEF OnbInv, TypeOK, TabOK, ServerOK
<1>4. \A i \in Ids : ReqFollows(i)'
  BY <1>1, <1>2 DEF OnbInv, ReqFollows, SlotFollows, ConfirmFollows, Grows
<1>5. ConfirmsFollow'
  BY <1>1, <1>2
  DEF OnbInv, ConfirmsFollow, OneConfirms, Confirming, Writing, AloneFollows
<1>6. PagesFollow'
  BY <1>1, <1>2, PagesKept DEF OnbInv
<1>7. AboutFollows' /\ SessionFollows' /\ TurnsFollow'
  BY <1>1, <1>2 DEF OnbInv, AboutFollows, SessionFollows, TurnsFollow
<1>8. ConfirmationFollows' /\ DraftIsWhole' /\ EveryWaitIsAnswered'
  BY <1>1, <1>2
  DEF OnbInv, ConfirmationFollows, DraftIsWhole, EveryWaitIsAnswered, Awaited
<1> QED
  BY <1>1, <1>3, <1>4, <1>5, <1>6, <1>7, <1>8 DEF OnbInv, Ids

(* What the tab's other parts keep when their own requests do.                 *)
LEMMA NoneSame ==
  ASSUME TypeOK, NEW j \in Ids, req'[j] = req[j]
  PROVE  Unmoved(j)
<1>1. req[j] \in RequestsOf \cup {None}
  BY DEF TypeOK
<1> QED
  BY <1>1 DEF Unmoved

Sends(n, r) ==
  /\ sent' = n /\ n <= sent' /\ sent <= n /\ n \in 0 .. MaxRequests
  /\ req' \in [Ids -> RequestsOf \cup {None}] /\ req'[n] = r /\ r # None
  /\ \A j \in Ids \ {n} : req'[j] = req[j] /\ Unmoved(j)
  /\ req[n] = None /\ about[n] = None
  /\ \A j \in Ids, k \in Kinds : Awaited(j, k) => Awaited(j, k)'

LEMMA SendIs ==
  ASSUME OnbInv, NEW r \in RequestsOf, Send(r)
  PROVE  \E n \in Ids : Sends(n, r)
<1> DEFINE n == sent + 1
<1>1. sent \in Nat /\ edits \in Nat /\ sent + edits < MaxRequests /\ MaxRequests \in Nat
  BY Nones DEF OnbInv, TypeOK, Send
<1>2. n \in Ids /\ n \in 0 .. MaxRequests /\ sent <= n /\ ~(n <= sent)
  BY <1>1 DEF Ids
<1>3. sent' = n /\ req' = [req EXCEPT ![n] = r]
  BY DEF Send
<1> HIDE DEF n
<1>4. req \in [Ids -> RequestsOf \cup {None}]
  BY DEF OnbInv, TypeOK
<1>5. /\ req' \in [Ids -> RequestsOf \cup {None}] /\ req'[n] = r
      /\ \A j \in Ids \ {n} : req'[j] = req[j]
  BY <1>2, <1>3, <1>4
<1>6. \A j \in Ids \ {n} : Unmoved(j)
  BY <1>5, NoneSame DEF OnbInv
<1>7. req[n] = None /\ about[n] = None
  BY <1>2 DEF OnbInv, ReqFollows, AboutFollows
<1>8. \A j \in Ids, k \in Kinds : Awaited(j, k) => Awaited(j, k)'
  BY <1>5, <1>7 DEF Awaited
<1>9. n <= sent' /\ r # None
  BY <1>1, <1>3, Nones DEF n
<1> QED
  BY <1>2, <1>3, <1>5, <1>6, <1>7, <1>8, <1>9 DEF Sends

LEMMA ExtractKeeps ==
  ASSUME OnbInv, Extract PROVE OnbInv'
<1>1. /\ Send(Blank) /\ extraction' = "loading" /\ found' = {} /\ draft' = None
      /\ confirmation' = NoAnswer /\ setup' = "idle" /\ slot' = "idle" /\ session' = None
      /\ UNCHANGED <<server, page, adoption, history>>
  BY DEF Extract, DropEvidence, ResetSlot
<1>2. /\ Blank \in RequestsOf /\ Blank.kind = "extract" /\ Blank.draft = None
      /\ Blank.at = "sent" /\ Blank.gone = FALSE
  BY DEF Blank, RequestsOf, Kinds, Answers
<1>3. PICK n \in Ids : Sends(n, Blank)
  BY <1>1, <1>2, SendIs
<1>4. UNCHANGED <<status, profile, record, access, attached, about, turns, edits, overtaken, torn>>
  BY <1>1 DEF server, history
<1>5. NoAnswer \in [confirmed : DraftsOf \cup {None},
                    kind : {"idle", "loading", "confirmed", "error"}]
      /\ NoAnswer.kind = "idle"
  BY DEF NoAnswer
<1>6. TypeOK'
  BY <1>1, <1>3, <1>4, <1>5 DEF OnbInv, TypeOK, TabOK, ServerOK, Sends
<1>7. ReqFollows(n)'
  BY <1>2, <1>3 DEF Sends, ReqFollows
<1>8. ConfirmsFollow'
  <2>1. ~Confirming(n)' /\ ~Writing(n)
    BY <1>2, <1>3 DEF Sends, Confirming, Writing
  <2>2. \A j \in Ids : Writing(j) => Unmoved(j) /\ req'[j] # None
    BY <1>3, <2>1 DEF Sends, Writing, Confirming
  <2> QED
    BY <1>1, <1>3, <1>4, <1>5, <2>1, <2>2, ConfirmsKept DEF OnbInv, Sends
<1>9. SessionFollows' /\ ConfirmationFollows' /\ DraftIsWhole'
  BY <1>1, <1>5 DEF SessionFollows, ConfirmationFollows, DraftIsWhole
<1>10. PagesFollow'
  BY <1>1, <1>4 DEF OnbInv, PagesFollow, Ready
<1>11. EveryWaitIsAnswered'
  <2>1. Awaited(n, "extract")'
    BY <1>2, <1>3 DEF Sends, Awaited
  <2> QED
    BY <1>1, <1>3, <1>5, <2>1 DEF OnbInv, EveryWaitIsAnswered, Sends, Kinds, Ids
<1> QED
  BY <1>3, <1>4, <1>6, <1>7, <1>8, <1>9, <1>10, <1>11, TabKeeps DEF Sends

LEMMA SubmitSlotKeeps ==
  ASSUME OnbInv, SubmitSlot PROVE OnbInv'
<1> DEFINE r == [[[Blank EXCEPT !.kind = "slot"] EXCEPT !.draft = draft]
                   EXCEPT !.session = session]
<1>1. /\ Send(r) /\ slot' = "loading" /\ confirmation' = NoAnswer /\ setup' = "idle"
      /\ UNCHANGED <<server, page, extraction, found, draft, session, adoption, history>>
      /\ draft # None /\ draft.shop # Manual /\ draft.missing # {}
  BY DEF SubmitSlot, DropEvidence, SlotCollectionActive
<1>2. /\ r \in RequestsOf /\ r.kind = "slot" /\ r.draft = draft /\ r.session = session
      /\ r.at = "sent" /\ r.gone = FALSE
  <2>1. draft \in DraftsOf \cup {None} /\ session \in Ids \cup {None}
    BY DEF OnbInv, TypeOK, TabOK
  <2>2. Blank \in RequestsOf /\ Blank.at = "sent" /\ Blank.gone = FALSE
    BY DEF Blank, RequestsOf, Kinds, Answers
  <2> HIDE DEF Blank
  <2> QED
    BY <2>1, <2>2 DEF RequestsOf, Kinds
<1> HIDE DEF r
<1>3. PICK n \in Ids : Sends(n, r)
  BY <1>1, <1>2, SendIs
<1>4. UNCHANGED <<status, profile, record, access, attached, about, turns, edits, overtaken, torn>>
  BY <1>1 DEF server, history
<1>5. NoAnswer \in [confirmed : DraftsOf \cup {None},
                    kind : {"idle", "loading", "confirmed", "error"}]
      /\ NoAnswer.kind = "idle"
  BY DEF NoAnswer
<1>6. TypeOK'
  BY <1>1, <1>3, <1>4, <1>5 DEF OnbInv, TypeOK, TabOK, ServerOK, Sends
<1>7. ReqFollows(n)'
  <2>1. /\ req'[n].kind = "slot" /\ req'[n].draft = draft /\ req'[n].session = session
        /\ req'[n].at = "sent" /\ about'[n] = None /\ n <= sent'
    BY <1>2, <1>3, <1>4 DEF Sends
  <2>2. IsWhole(draft) /\ ~Confirmable(draft)
    BY <1>1 DEF OnbInv, TypeOK, TabOK, DraftIsWhole, IsWhole, Confirmable
  <2>3. session # None => about[session] = draft.shop
    BY <1>1 DEF OnbInv, SessionFollows
  <2>4. SlotFollows(n)'
    BY <1>1, <1>4, <2>1, <2>2, <2>3 DEF SlotFollows
  <2> QED
    BY <2>1, <2>4 DEF ReqFollows
<1>8. ConfirmsFollow'
  <2>1. ~Confirming(n)' /\ ~Writing(n)
    BY <1>2, <1>3 DEF Sends, Confirming, Writing
  <2>2. \A j \in Ids : Writing(j) => Unmoved(j) /\ req'[j] # None
    BY <1>3, <2>1 DEF Sends, Writing, Confirming
  <2> QED
    BY <1>1, <1>3, <1>4, <1>5, <2>1, <2>2, ConfirmsKept DEF OnbInv, Sends
<1>9. SessionFollows' /\ ConfirmationFollows' /\ DraftIsWhole'
  BY <1>1, <1>4, <1>5 DEF OnbInv, SessionFollows, ConfirmationFollows, DraftIsWhole
<1>10. PagesFollow'
  BY <1>1, <1>4 DEF OnbInv, PagesFollow, Ready
<1>11. EveryWaitIsAnswered'
  <2>1. Awaited(n, "slot")'
    BY <1>2, <1>3 DEF Sends, Awaited
  <2> QED
    BY <1>1, <1>3, <1>5, <2>1 DEF OnbInv, EveryWaitIsAnswered, Sends, Kinds, Ids
<1> QED
  BY <1>3, <1>4, <1>6, <1>7, <1>8, <1>9, <1>10, <1>11, TabKeeps DEF Sends

LEMMA ConfirmKeeps ==
  ASSUME OnbInv, Confirm PROVE OnbInv'
<1> DEFINE r == [[Blank EXCEPT !.kind = "confirm"] EXCEPT !.draft = draft]
<1>1. /\ Send(r) /\ confirmation' = [NoAnswer EXCEPT !.kind = "loading"] /\ setup' = "idle"
      /\ torn' = (torn \/ \E i \in Ids : Confirming(i))
      /\ UNCHANGED <<server, page, extraction, found, draft, slot, session,
                     adoption, edits, overtaken>>
      /\ draft # None /\ Confirmable(draft)
  BY DEF Confirm, ByForm, ByMessage, FormShown, Confirmable
<1>2. /\ r \in RequestsOf /\ r.kind = "confirm" /\ r.draft = draft
      /\ r.at = "sent" /\ r.gone = FALSE
  <2>1. draft \in DraftsOf \cup {None}
    BY DEF OnbInv, TypeOK, TabOK
  <2>2. Blank \in RequestsOf /\ Blank.at = "sent" /\ Blank.gone = FALSE
    BY DEF Blank, RequestsOf, Kinds, Answers
  <2> HIDE DEF Blank
  <2> QED
    BY <2>1, <2>2 DEF RequestsOf, Kinds
<1> HIDE DEF r
<1>3. PICK n \in Ids : Sends(n, r)
  BY <1>1, <1>2, SendIs
<1>4. UNCHANGED <<status, profile, record, access, attached, about, turns>>
  BY <1>1 DEF server
<1>5. confirmation' \in [confirmed : DraftsOf \cup {None},
                         kind : {"idle", "loading", "confirmed", "error"}]
      /\ confirmation'.kind = "loading"
  BY <1>1 DEF NoAnswer
<1>6. TypeOK'
  <2>1. torn' \in BOOLEAN
    BY <1>1 DEF OnbInv, TypeOK
  <2> QED
    BY <1>1, <1>3, <1>4, <1>5, <2>1 DEF OnbInv, TypeOK, TabOK, ServerOK, Sends
<1>7. ReqFollows(n)'
  <2>1. /\ req'[n].kind = "confirm" /\ req'[n].draft = draft /\ req'[n].at = "sent"
        /\ n <= sent'
    BY <1>2, <1>3 DEF Sends
  <2>2. IsWhole(draft) /\ Confirmable(draft)
    BY <1>1 DEF OnbInv, TypeOK, TabOK, DraftIsWhole, IsWhole
  <2>3. ConfirmFollows(n)'
    BY <1>1, <2>1, <2>2 DEF ConfirmFollows
  <2> QED
    BY <2>1, <2>3 DEF ReqFollows
<1>8. ConfirmsFollow'
  <2> SUFFICES ASSUME ~torn'
               PROVE  OneConfirms'
    BY DEF ConfirmsFollow
  <2>1. ~torn /\ \A j \in Ids : ~Confirming(j)
    BY <1>1
  <2>2. \A j \in Ids : Confirming(j)' => j = n
    BY <1>3, <2>1 DEF Sends, Confirming
  <2>3. profile = record
    BY <2>1 DEF OnbInv, ConfirmsFollow, OneConfirms, Writing
  <2>4. AloneFollows(n)'
    BY <1>2, <1>3 DEF Sends, AloneFollows
  <2> QED
    BY <1>4, <1>5, <2>2, <2>3, <2>4 DEF OneConfirms, Ids
<1>9. SessionFollows' /\ ConfirmationFollows' /\ DraftIsWhole'
  BY <1>1, <1>4, <1>5 DEF OnbInv, SessionFollows, ConfirmationFollows, DraftIsWhole
<1>10. PagesFollow'
  BY <1>1, <1>4 DEF OnbInv, PagesFollow, Ready
<1>11. EveryWaitIsAnswered'
  <2>1. Awaited(n, "confirm")'
    BY <1>2, <1>3 DEF Sends, Awaited
  <2> QED
    BY <1>1, <1>3, <1>5, <2>1 DEF OnbInv, EveryWaitIsAnswered, Sends, Kinds, Ids
<1> QED
  BY <1>1, <1>3, <1>4, <1>6, <1>7, <1>8, <1>9, <1>10, <1>11, TabKeeps DEF Sends

LEMMA ClaimExistingKeeps ==
  ASSUME OnbInv, ClaimExisting PROVE OnbInv'
<1> DEFINE r == [Blank EXCEPT !.kind = "claim"]
<1>1. /\ Send(r) /\ adoption' = "loading"
      /\ UNCHANGED <<server, page, extraction, found, draft, slot, session,
                     confirmation, setup, history>>
  BY DEF ClaimExisting
<1>2. /\ r \in RequestsOf /\ r.kind = "claim" /\ r.draft = None
      /\ r.at = "sent" /\ r.gone = FALSE
  BY DEF Blank, RequestsOf, Kinds, Answers
<1> HIDE DEF r
<1>3. PICK n \in Ids : Sends(n, r)
  BY <1>1, <1>2, SendIs
<1>4. UNCHANGED <<status, profile, record, access, attached, about, turns, edits, overtaken, torn>>
  BY <1>1 DEF server, history
<1>6. TypeOK'
  BY <1>1, <1>3, <1>4 DEF OnbInv, TypeOK, TabOK, ServerOK, Sends
<1>7. ReqFollows(n)'
  BY <1>2, <1>3 DEF Sends, ReqFollows
<1>8. ConfirmsFollow'
  <2>1. ~Confirming(n)' /\ ~Writing(n)
    BY <1>2, <1>3 DEF Sends, Confirming, Writing
  <2>2. \A j \in Ids : Writing(j) => Unmoved(j) /\ req'[j] # None
    BY <1>3, <2>1 DEF Sends, Writing, Confirming
  <2> QED
    BY <1>1, <1>3, <1>4, <2>1, <2>2, ConfirmsKept DEF OnbInv, Sends
<1>9. SessionFollows' /\ ConfirmationFollows' /\ DraftIsWhole'
  BY <1>1, <1>4 DEF OnbInv, SessionFollows, ConfirmationFollows, DraftIsWhole
<1>10. PagesFollow'
  BY <1>1, <1>4 DEF OnbInv, PagesFollow, Ready
<1>11. EveryWaitIsAnswered'
  <2>1. Awaited(n, "claim")'
    BY <1>2, <1>3 DEF Sends, Awaited
  <2> QED
    BY <1>1, <1>3, <2>1 DEF OnbInv, EveryWaitIsAnswered, Sends, Kinds, Ids
<1> QED
  BY <1>3, <1>4, <1>6, <1>7, <1>8, <1>9, <1>10, <1>11, TabKeeps DEF Sends

LEMMA SelectCandidateKeeps ==
  ASSUME OnbInv, NEW s \in Shops, SelectCandidate(s) PROVE OnbInv'
<1>1. /\ draft' = Candidate(s) /\ confirmation' = NoAnswer /\ setup' = "idle"
      /\ slot' = "idle" /\ session' = None
      /\ UNCHANGED <<server, page, extraction, found, adoption, requests, history>>
  BY DEF SelectCandidate, DropEvidence, ResetSlot
<1>2. UNCHANGED <<status, profile, record, access, attached, about, turns, req, sent, edits,
                  overtaken, torn>>
  BY <1>1 DEF server, requests, history
<1>3. Candidate(s) \in DraftsOf /\ Candidate(s).missing = Candidate(s).empty
  <2>1. Gaps[s] \in SUBSET Fields /\ s \in Businesses
    BY NamesAssumption DEF Businesses
  <2>2. 0 \in 0 .. (MaxEdits + MaxRequests)
    BY Nones
  <2> QED
    BY <2>1, <2>2 DEF Candidate, DraftsOf
<1>4. NoAnswer \in [confirmed : DraftsOf \cup {None},
                    kind : {"idle", "loading", "confirmed", "error"}]
      /\ NoAnswer.kind = "idle"
  BY DEF NoAnswer
<1>5. TypeOK'
  BY <1>1, <1>2, <1>3, <1>4 DEF OnbInv, TypeOK, TabOK, ServerOK
<1>6. \A j \in Ids : Unmoved(j)
  BY <1>2, NoneSame DEF OnbInv
<1>7. ConfirmsFollow'
  <2>1. \A j \in Ids : Writing(j) => req'[j] # None
    BY <1>2 DEF Writing, Confirming
  <2> QED
    BY <1>1, <1>2, <1>4, <1>6, <2>1, ConfirmsKept DEF OnbInv
<1>8. SessionFollows' /\ ConfirmationFollows' /\ DraftIsWhole'
  BY <1>1, <1>3, <1>4 DEF SessionFollows, ConfirmationFollows, DraftIsWhole
<1>9. PagesFollow'
  BY <1>1, <1>2 DEF OnbInv, PagesFollow, Ready
<1>10. EveryWaitIsAnswered'
  BY <1>1, <1>2, <1>4 DEF OnbInv, EveryWaitIsAnswered, Awaited
<1>11. sent <= sent'
  BY <1>2, Nones DEF OnbInv, TypeOK
<1> QED
  BY <1>2, <1>5, <1>6, <1>7, <1>8, <1>9, <1>10, <1>11, TabKeeps

LEMMA SearchAgainKeeps ==
  ASSUME OnbInv, SearchAgain PROVE OnbInv'
<1>1. /\ extraction' = "query" /\ found' = {} /\ draft' = None
      /\ confirmation' = NoAnswer /\ setup' = "idle" /\ slot' = "idle" /\ session' = None
      /\ UNCHANGED <<server, page, adoption, requests, history>>
  BY DEF SearchAgain, DropEvidence, ResetSlot
<1>2. UNCHANGED <<status, profile, record, access, attached, about, turns, req, sent, edits,
                  overtaken, torn>>
  BY <1>1 DEF server, requests, history
<1>4. NoAnswer \in [confirmed : DraftsOf \cup {None},
                    kind : {"idle", "loading", "confirmed", "error"}]
      /\ NoAnswer.kind = "idle"
  BY DEF NoAnswer
<1>5. TypeOK'
  BY <1>1, <1>2, <1>4 DEF OnbInv, TypeOK, TabOK, ServerOK
<1>6. \A j \in Ids : Unmoved(j)
  BY <1>2, NoneSame DEF OnbInv
<1>7. ConfirmsFollow'
  <2>1. \A j \in Ids : Writing(j) => req'[j] # None
    BY <1>2 DEF Writing, Confirming
  <2> QED
    BY <1>1, <1>2, <1>4, <1>6, <2>1, ConfirmsKept DEF OnbInv
<1>8. SessionFollows' /\ ConfirmationFollows' /\ DraftIsWhole'
  BY <1>1, <1>4 DEF SessionFollows, ConfirmationFollows, DraftIsWhole
<1>9. PagesFollow'
  BY <1>1, <1>2 DEF OnbInv, PagesFollow, Ready
<1>10. EveryWaitIsAnswered'
  BY <1>1, <1>2, <1>4 DEF OnbInv, EveryWaitIsAnswered, Awaited
<1>11. sent <= sent'
  BY <1>2, Nones DEF OnbInv, TypeOK
<1> QED
  BY <1>2, <1>5, <1>6, <1>7, <1>8, <1>9, <1>10, <1>11, TabKeeps

(* An edit keeps a draft whole.                                              *)
LEMMA EditIsWhole ==
  ASSUME NEW d0 \in DraftsOf, d0.missing = d0.empty, NEW v \in 0 .. (MaxEdits + MaxRequests),
         NEW d \in {[d0 EXCEPT !.named = n] : n \in BOOLEAN}
                   \cup {Filled(d0, f) : f \in Fields} \cup {Emptied(d0, f) : f \in Fields}
  PROVE  LET e == [d EXCEPT !.version = v]
         IN  e \in DraftsOf /\ e.missing = e.empty /\ e.shop = d0.shop
<1>1. d \in DraftsOf /\ d.missing = d.empty /\ d.shop = d0.shop
  <2>1. CASE \E n \in BOOLEAN : d = [d0 EXCEPT !.named = n]
    BY <2>1 DEF DraftsOf
  <2>2. CASE \E f \in Fields : d = Filled(d0, f)
    <3>1. PICK f \in Fields : d = [[d0 EXCEPT !.empty = d0.empty \ {f}]
                                     EXCEPT !.missing = d0.missing \ {f}]
      BY <2>2 DEF Filled, DraftsOf
    <3> QED
      BY <3>1 DEF DraftsOf
  <2>3. CASE \E f \in Fields : d = Emptied(d0, f)
    <3>1. PICK f \in Fields : d = [[d0 EXCEPT !.empty = d0.empty \cup {f}]
                                     EXCEPT !.missing = d0.missing \cup {f}]
      BY <2>3 DEF Emptied, DraftsOf
    <3>2. d0.empty \cup {f} \in SUBSET Fields /\ d0.missing \cup {f} \in SUBSET Fields
      BY DEF DraftsOf
    <3> QED
      BY <3>1, <3>2 DEF DraftsOf
  <2> QED
    BY <2>1, <2>2, <2>3
<1> QED
  BY <1>1 DEF DraftsOf

LEMMA ChangeDraftFieldKeeps ==
  ASSUME OnbInv, ChangeDraftField PROVE OnbInv'
<1>1. /\ draft # None /\ edits < MaxEdits /\ edits' = edits + 1
      /\ confirmation' = NoAnswer /\ setup' = "idle"
      /\ UNCHANGED <<server, page, extraction, found, slot, session, adoption,
                     requests, overtaken, torn>>
  BY DEF ChangeDraftField, DropEvidence, FormShown
<1>2. UNCHANGED <<status, profile, record, access, attached, about, turns, req, sent>>
  BY <1>1 DEF server, requests
<1>3. draft' \in DraftsOf /\ draft'.missing = draft'.empty /\ draft'.shop = draft.shop
  <2>1. draft \in DraftsOf /\ draft.missing = draft.empty
    BY <1>1 DEF OnbInv, TypeOK, TabOK, DraftIsWhole
  <2>2. edits + 1 \in 0 .. (MaxEdits + MaxRequests)
    BY <1>1, Nones DEF OnbInv, TypeOK
  <2>3. PICK d \in {[draft EXCEPT !.named = n] : n \in BOOLEAN}
                   \cup {Filled(draft, f) : f \in Fields}
                   \cup {Emptied(draft, f) : f \in Fields} :
             draft' = [d EXCEPT !.version = edits + 1]
    BY DEF ChangeDraftField
  <2> QED
    BY <2>1, <2>2, <2>3, EditIsWhole
<1>4. NoAnswer \in [confirmed : DraftsOf \cup {None},
                    kind : {"idle", "loading", "confirmed", "error"}]
      /\ NoAnswer.kind = "idle"
  BY DEF NoAnswer
<1>5. TypeOK'
  <2>1. edits' \in 0 .. MaxEdits
    BY <1>1, Nones DEF OnbInv, TypeOK
  <2> QED
    BY <1>1, <1>2, <1>3, <1>4, <2>1 DEF OnbInv, TypeOK, TabOK, ServerOK
<1>6. \A j \in Ids : Unmoved(j)
  BY <1>2, NoneSame DEF OnbInv
<1>7. ConfirmsFollow'
  <2>1. \A j \in Ids : Writing(j) => req'[j] # None
    BY <1>2 DEF Writing, Confirming
  <2> QED
    BY <1>1, <1>2, <1>4, <1>6, <2>1, ConfirmsKept DEF OnbInv
<1>8. SessionFollows' /\ ConfirmationFollows' /\ DraftIsWhole'
  BY <1>1, <1>2, <1>3, <1>4
  DEF OnbInv, SessionFollows, ConfirmationFollows, DraftIsWhole
<1>9. PagesFollow'
  BY <1>1, <1>2 DEF OnbInv, PagesFollow, Ready
<1>10. EveryWaitIsAnswered'
  BY <1>1, <1>2, <1>4 DEF OnbInv, EveryWaitIsAnswered, Awaited
<1>11. sent <= sent'
  BY <1>2, Nones DEF OnbInv, TypeOK
<1> QED
  BY <1>1, <1>2, <1>5, <1>6, <1>7, <1>8, <1>9, <1>10, <1>11, TabKeeps

LEMMA CheckSetupKeeps ==
  ASSUME OnbInv, CheckSetup PROVE OnbInv'
<1>1. /\ confirmation.kind = "confirmed" /\ setup' = "pendingReview"
      /\ UNCHANGED <<server, page, extraction, found, draft, slot, session,
                     confirmation, adoption, requests, history>>
  BY DEF CheckSetup
<1>2. UNCHANGED <<status, profile, record, access, attached, about, turns, req, sent, edits,
                  overtaken, torn>>
  BY <1>1 DEF server, requests, history
<1>5. TypeOK'
  BY <1>1, <1>2 DEF OnbInv, TypeOK, TabOK, ServerOK
<1>6. \A j \in Ids : Unmoved(j)
  BY <1>2, NoneSame DEF OnbInv
<1>7. ConfirmsFollow'
  <2>1. \A j \in Ids : Writing(j) => req'[j] # None
    BY <1>2 DEF Writing, Confirming
  <2> QED
    BY <1>1, <1>2, <1>6, <2>1, ConfirmsKept DEF OnbInv
<1>8. SessionFollows' /\ ConfirmationFollows' /\ DraftIsWhole'
  BY <1>1, <1>2 DEF OnbInv, SessionFollows, ConfirmationFollows, DraftIsWhole
<1>9. PagesFollow'
  BY <1>1, <1>2 DEF OnbInv, PagesFollow, Ready, ConfirmationFollows
<1>10. EveryWaitIsAnswered'
  BY <1>1, <1>2 DEF OnbInv, EveryWaitIsAnswered, Awaited
<1>11. sent <= sent'
  BY <1>2, Nones DEF OnbInv, TypeOK
<1> QED
  BY <1>2, <1>5, <1>6, <1>7, <1>8, <1>9, <1>10, <1>11, TabKeeps

(* The answered request is gone, the others are awaited as before.              *)
Forgets(i) ==
  /\ sent' = sent /\ req' \in [Ids -> RequestsOf \cup {None}] /\ req'[i] = None
  /\ \A j \in Ids \ {i} : req'[j] = req[j]
  /\ \A j \in Ids : Unmoved(j)
  /\ \A j \in Ids, k \in Kinds : k # req[i].kind /\ Awaited(j, k) => Awaited(j, k)'
  /\ sent <= sent'

LEMMA ForgetIs ==
  ASSUME OnbInv, NEW i \in Ids, Forget(i)
  PROVE  Forgets(i)
<1>1. req \in [Ids -> RequestsOf \cup {None}] /\ sent \in Nat
  BY Nones DEF OnbInv, TypeOK
<1>2. /\ req' \in [Ids -> RequestsOf \cup {None}] /\ req'[i] = None /\ sent' = sent
      /\ \A j \in Ids \ {i} : req'[j] = req[j]
  BY <1>1 DEF Forget
<1>3. \A j \in Ids : Unmoved(j)
  <2>1. \A j \in Ids \ {i} : Unmoved(j)
    BY <1>2, NoneSame DEF OnbInv
  <2>2. Unmoved(i)
    BY <1>2 DEF Unmoved
  <2> QED
    BY <2>1, <2>2
<1>4. \A j \in Ids, k \in Kinds : k # req[i].kind /\ Awaited(j, k) => Awaited(j, k)'
  BY <1>2 DEF Awaited
<1> QED
  BY <1>1, <1>2, <1>3, <1>4 DEF Forgets

(* Nothing that was being written is forgotten when an answer is shown.        *)
LEMMA WritingStays ==
  ASSUME OnbInv, NEW i \in Ids, req[i].at = "answered", Forgets(i)
  PROVE  \A j \in Ids : Writing(j) => req'[j] # None
  BY DEF Forgets, Writing, Confirming

LEMMA ShowExtractionKeeps ==
  ASSUME OnbInv, NEW i \in Ids, ShowExtraction(i) PROVE OnbInv'
<1>1. /\ req[i] # None /\ req[i].kind = "extract" /\ req[i].at = "answered"
      /\ Forget(i) /\ extraction' = req[i].answer /\ found' = req[i].found
      /\ draft' = (IF req[i].answer = "manual" THEN ManualDraft ELSE None)
      /\ overtaken' = (overtaken \/ draft # req[i].draft)
      /\ UNCHANGED <<server, page, slot, session, confirmation, setup, adoption,
                     edits, torn>>
  BY DEF ShowExtraction, Answered, Awaited, Late
<1>2. UNCHANGED <<status, profile, record, access, attached, about, turns>>
  BY <1>1 DEF server
<1>3. Forgets(i)
  BY <1>1, ForgetIs
<1>4. /\ req[i].draft = None /\ req[i].found \in SUBSET Shops
      /\ req[i].answer \in {"candidates", "manual", "query", "error"}
  BY <1>1, ReqTyped DEF OnbInv, ReqFollows, RequestsOf
<1>5. /\ ManualDraft \in DraftsOf /\ ManualDraft.missing = ManualDraft.empty
      /\ ManualDraft.shop = Manual
  <2>1. 0 \in 0 .. (MaxEdits + MaxRequests) /\ Manual \in Businesses
    BY Nones DEF Businesses
  <2> QED
    BY <2>1 DEF ManualDraft, DraftsOf
<1>6. TypeOK'
  <2>1. overtaken' \in BOOLEAN
    BY <1>1 DEF OnbInv, TypeOK
  <2> QED
    BY <1>1, <1>2, <1>3, <1>4, <1>5, <2>1 DEF OnbInv, TypeOK, TabOK, ServerOK, Forgets
<1>7. ConfirmsFollow'
  BY <1>1, <1>2, <1>3, WritingStays, ConfirmsKept DEF OnbInv, Forgets
<1>8. SessionFollows' /\ DraftIsWhole'
  BY <1>1, <1>2, <1>5 DEF OnbInv, SessionFollows, DraftIsWhole
<1>9. ConfirmationFollows'
  BY <1>1, <1>2, <1>4, Nones DEF OnbInv, ConfirmationFollows
<1>10. PagesFollow'
  BY <1>1, <1>2 DEF OnbInv, PagesFollow, Ready
<1>11. EveryWaitIsAnswered'
  BY <1>1, <1>3, <1>4 DEF OnbInv, EveryWaitIsAnswered, Forgets, Kinds
<1> QED
  BY <1>1, <1>2, <1>3, <1>6, <1>7, <1>8, <1>9, <1>10, <1>11, TabKeeps DEF Forgets

LEMMA AnswerIs ==
  ASSUME OnbInv, NEW i \in Ids, req[i] # None, req[i].kind = "slot"
  PROVE  Answer(i) \in DraftsOf /\ Answer(i).missing = Answer(i).empty
         /\ Answer(i).shop = req[i].draft.shop
<1>1. req[i].draft \in DraftsOf /\ req[i].draft.missing = req[i].draft.empty
  BY DEF OnbInv, ReqFollows, SlotFollows, IsWhole
<1>2. MaxEdits + i \in 0 .. (MaxEdits + MaxRequests)
  BY Nones DEF Ids
<1>3. Requested(req[i].draft) \in Fields
  BY DEF Requested, Fields
<1>4. CASE req[i].answer = "filled"
  BY <1>1, <1>2, <1>3, <1>4, EditIsWhole DEF Answer
<1>5. CASE req[i].answer # "filled"
  BY <1>1, <1>5 DEF Answer
<1> QED
  BY <1>4, <1>5

LEMMA ShowTurnKeeps ==
  ASSUME OnbInv, NEW i \in Ids, ShowTurn(i) PROVE OnbInv'
<1>1. /\ req[i] # None /\ req[i].kind = "slot" /\ req[i].at = "answered" /\ Forget(i)
      /\ \/ slot' = "error" /\ UNCHANGED <<session, draft, overtaken>>
         \/ /\ slot' = "idle" /\ session' = req[i].session /\ draft' = Answer(i)
            /\ overtaken' = (overtaken \/ draft # req[i].draft)
      /\ UNCHANGED <<server, page, extraction, found, confirmation, setup, adoption,
                     edits, torn>>
  BY DEF ShowTurn, Answered, Awaited, Late
<1>2. UNCHANGED <<status, profile, record, access, attached, about, turns>>
  BY <1>1 DEF server
<1>3. Forgets(i)
  BY <1>1, ForgetIs
<1>4. /\ req[i].session \in Ids /\ about[req[i].session] = req[i].draft.shop
      /\ req[i].draft \in DraftsOf /\ ~Confirmable(req[i].draft)
  BY <1>1, ReqTyped DEF OnbInv, ReqFollows, SlotFollows, IsWhole
<1>5. /\ Answer(i) \in DraftsOf /\ Answer(i).missing = Answer(i).empty
      /\ Answer(i).shop = req[i].draft.shop
  BY <1>1, AnswerIs
<1>6. TypeOK'
  <2>1. overtaken' \in BOOLEAN
    BY <1>1 DEF OnbInv, TypeOK
  <2> QED
    BY <1>1, <1>2, <1>3, <1>4, <1>5, <2>1 DEF OnbInv, TypeOK, TabOK, ServerOK, Forgets
<1>7. ConfirmsFollow'
  BY <1>1, <1>2, <1>3, WritingStays, ConfirmsKept DEF OnbInv, Forgets
<1>8. SessionFollows'
  <2>1. req[i].draft.shop # None
    BY <1>4, Nones DEF DraftsOf
  <2> QED
    BY <1>1, <1>2, <1>4, <1>5, <2>1 DEF OnbInv, SessionFollows
<1>9. DraftIsWhole'
  BY <1>1, <1>5 DEF OnbInv, DraftIsWhole
<1>10. ConfirmationFollows'
  <2>1. ConfirmationFollows /\ UNCHANGED <<profile, record, confirmation>>
    BY <1>1, <1>2 DEF OnbInv
  <2>2. CASE UNCHANGED <<draft, overtaken>>
    BY <2>1, <2>2 DEF ConfirmationFollows
  <2>3. CASE overtaken' = (overtaken \/ draft # req[i].draft)
    <3>1. confirmation.kind = "confirmed" => overtaken \/ draft # req[i].draft
      BY <1>4, <2>1 DEF ConfirmationFollows
    <3>2. confirmation.kind = "confirmed" => overtaken'
      BY <2>3, <3>1
    <3> QED
      BY <2>1, <3>2 DEF ConfirmationFollows
  <2> QED
    BY <1>1, <2>2, <2>3
<1>11. PagesFollow'
  BY <1>1, <1>2 DEF OnbInv, PagesFollow, Ready
<1>12. EveryWaitIsAnswered'
  BY <1>1, <1>3 DEF OnbInv, EveryWaitIsAnswered, Forgets, Kinds
<1> QED
  BY <1>1, <1>2, <1>3, <1>6, <1>7, <1>8, <1>9, <1>10, <1>11, <1>12, TabKeeps DEF Forgets

LEMMA ShowConfirmationKeeps ==
  ASSUME OnbInv, NEW i \in Ids, ShowConfirmation(i) PROVE OnbInv'
<1>1. /\ req[i] # None /\ req[i].kind = "confirm" /\ req[i].at = "answered" /\ Forget(i)
      /\ confirmation' = (IF req[i].answer = "confirmed"
                          THEN [confirmed |-> req[i].draft, kind |-> "confirmed"]
                          ELSE [NoAnswer EXCEPT !.kind = "error"])
      /\ overtaken' = (overtaken \/ draft # req[i].draft)
      /\ UNCHANGED <<server, page, extraction, found, draft, slot, session, setup,
                     adoption, edits, torn>>
  BY DEF ShowConfirmation, Answered, Awaited, Late
<1>2. UNCHANGED <<status, profile, record, access, attached, about, turns>>
  BY <1>1 DEF server
<1>3. Forgets(i)
  BY <1>1, ForgetIs
<1>4. /\ req[i].draft \in DraftsOf /\ Confirmable(req[i].draft)
      /\ req[i].answer = "confirmed" => profile # None /\ record # None
  BY <1>1 DEF OnbInv, ReqFollows, ConfirmFollows, IsWhole
<1>5. /\ confirmation' \in [confirmed : DraftsOf \cup {None},
                            kind : {"idle", "loading", "confirmed", "error"}]
      /\ confirmation'.kind \in {"confirmed", "error"}
      /\ confirmation'.kind = "confirmed" =>
           req[i].answer = "confirmed" /\ confirmation'.confirmed = req[i].draft
  BY <1>1, <1>4 DEF NoAnswer
<1>6. TypeOK'
  <2>1. overtaken' \in BOOLEAN
    BY <1>1 DEF OnbInv, TypeOK
  <2> QED
    BY <1>1, <1>2, <1>3, <1>5, <2>1 DEF OnbInv, TypeOK, TabOK, ServerOK, Forgets
<1>7. ConfirmsFollow'
  <2> SUFFICES ASSUME ~torn'
               PROVE  OneConfirms'
    BY DEF ConfirmsFollow
  <2>1. OneConfirms /\ Confirming(i)
    BY <1>1 DEF OnbInv, ConfirmsFollow, Confirming
  <2>2. \A j \in Ids : ~Confirming(j)'
    BY <1>3, <2>1 DEF OneConfirms, Confirming, Forgets
  <2>3. profile = record
    BY <1>1, <2>1 DEF OneConfirms, Writing
  <2>4. req[i].answer = "confirmed" => profile = req[i].draft /\ record = req[i].draft
    BY <1>1, <2>1 DEF OneConfirms, AloneFollows
  <2> QED
    BY <1>2, <1>5, <2>2, <2>3, <2>4 DEF OneConfirms, Ids
<1>8. SessionFollows' /\ DraftIsWhole'
  BY <1>1, <1>2 DEF OnbInv, SessionFollows, DraftIsWhole
<1>9. ConfirmationFollows'
  BY <1>1, <1>2, <1>4, <1>5 DEF ConfirmationFollows
<1>10. PagesFollow'
  BY <1>1, <1>2 DEF OnbInv, PagesFollow, Ready
<1>11. EveryWaitIsAnswered'
  BY <1>1, <1>3, <1>5 DEF OnbInv, EveryWaitIsAnswered, Forgets, Kinds
<1> QED
  BY <1>1, <1>2, <1>3, <1>6, <1>7, <1>8, <1>9, <1>10, <1>11, TabKeeps DEF Forgets

LEMMA ShowAdoptionKeeps ==
  ASSUME OnbInv, NEW i \in Ids, ShowAdoption(i) PROVE OnbInv'
<1>1. /\ req[i] # None /\ req[i].kind = "claim" /\ req[i].at = "answered" /\ Forget(i)
      /\ adoption' = req[i].answer
      /\ UNCHANGED <<server, page, extraction, found, draft, slot, session,
                     confirmation, setup, history>>
  BY DEF ShowAdoption, Answered, Awaited
<1>2. UNCHANGED <<status, profile, record, access, attached, about, turns, edits, overtaken, torn>>
  BY <1>1 DEF server, history
<1>3. Forgets(i)
  BY <1>1, ForgetIs
<1>4. /\ req[i].answer \in {"reviewing", "error"}
      /\ req[i].answer = "reviewing" => access # "none"
  BY <1>1 DEF OnbInv, ReqFollows
<1>5. TypeOK'
  BY <1>1, <1>2, <1>3, <1>4 DEF OnbInv, TypeOK, TabOK, ServerOK, Forgets
<1>6. ConfirmsFollow'
  BY <1>1, <1>2, <1>3, WritingStays, ConfirmsKept DEF OnbInv, Forgets
<1>7. SessionFollows' /\ DraftIsWhole' /\ ConfirmationFollows'
  BY <1>1, <1>2 DEF OnbInv, SessionFollows, DraftIsWhole, ConfirmationFollows
<1>8. PagesFollow'
  BY <1>1, <1>2, <1>4 DEF OnbInv, PagesFollow, Ready
<1>9. EveryWaitIsAnswered'
  BY <1>1, <1>3, <1>4 DEF OnbInv, EveryWaitIsAnswered, Forgets, Kinds
<1> QED
  BY <1>1, <1>2, <1>3, <1>5, <1>6, <1>7, <1>8, <1>9, TabKeeps DEF Forgets

(* The failed request is forgotten, or runs on unheard.                        *)
LEMMA FailIs ==
  ASSUME OnbInv, NEW i \in Ids, Fail(i)
  PROVE  /\ req[i] # None /\ sent' = sent /\ req' \in [Ids -> RequestsOf \cup {None}]
         /\ \A j \in Ids : Unmoved(j)
         /\ \A j \in Ids, k \in Kinds : k # req[i].kind /\ Awaited(j, k) => Awaited(j, k)'
         /\ \A j \in Ids : Writing(j) => torn' \/ req'[j] # None
         /\ torn => torn' /\ torn' \in BOOLEAN
<1>1. /\ req[i] # None /\ req \in [Ids -> RequestsOf \cup {None}]
      /\ req[i] \in RequestsOf /\ torn \in BOOLEAN
  BY ReqTyped DEF OnbInv, TypeOK, Fail, Awaited
<1>2. CASE Forget(i) /\ torn' = (torn \/ req[i].at \in {"stored", "insert"})
  <2>1. Forgets(i)
    BY <1>2, ForgetIs
  <2>2. \A j \in Ids : Writing(j) => torn' \/ req'[j] # None
    BY <1>2, <2>1 DEF Forgets, Writing, Confirming
  <2>3. torn => torn' /\ torn' \in BOOLEAN
    BY <1>1, <1>2
  <2> QED
    BY <1>1, <2>1, <2>2, <2>3 DEF Forgets
<1>3. CASE req' = [req EXCEPT ![i].gone = TRUE] /\ UNCHANGED <<sent, torn>>
  <2> DEFINE r == [req[i] EXCEPT !.gone = TRUE]
  <2>1. /\ r \in RequestsOf /\ r.kind = req[i].kind /\ r.draft = req[i].draft
        /\ r.at = req[i].at /\ r.session = req[i].session /\ r.answer = req[i].answer
        /\ r.found = req[i].found
    BY <1>1 DEF RequestsOf
  <2>2. req' = [req EXCEPT ![i] = r]
    BY <1>3
  <2> HIDE DEF r
  <2>3. /\ req' \in [Ids -> RequestsOf \cup {None}] /\ req'[i] = r
        /\ \A j \in Ids \ {i} : req'[j] = req[j]
    BY <1>1, <2>1, <2>2
  <2>4. \A j \in Ids : Unmoved(j)
    <3>1. \A j \in Ids \ {i} : Unmoved(j)
      BY <2>3, NoneSame DEF OnbInv
    <3>2. Unmoved(i)
      BY <1>1, <2>1, <2>3 DEF Unmoved
    <3> QED
      BY <3>1, <3>2
  <2>5. \A j \in Ids, k \in Kinds : k # req[i].kind /\ Awaited(j, k) => Awaited(j, k)'
    BY <2>3 DEF Awaited
  <2>6. \A j \in Ids : Writing(j) => req'[j] # None
    BY <2>1, <2>3, Nones DEF Writing, Confirming
  <2> QED
    BY <1>1, <1>3, <2>3, <2>4, <2>5, <2>6
<1> QED
  BY <1>2, <1>3 DEF Fail

LEMMA FailKeeps ==
  ASSUME OnbInv, NEW i \in Ids, Fail(i) PROVE OnbInv'
<1>1. /\ extraction' = (IF req[i].kind = "extract" THEN "error" ELSE extraction)
      /\ slot' = (IF req[i].kind = "slot" THEN "error" ELSE slot)
      /\ confirmation' = (IF req[i].kind = "confirm"
                          THEN [NoAnswer EXCEPT !.kind = "error"] ELSE confirmation)
      /\ adoption' = (IF req[i].kind = "claim" THEN "error" ELSE adoption)
      /\ UNCHANGED <<server, page, found, draft, session, setup, edits, overtaken>>
  BY DEF Fail, ShowFailure
<1>2. UNCHANGED <<status, profile, record, access, attached, about, turns>>
  BY <1>1 DEF server
<1>3. /\ req[i] # None /\ sent' = sent /\ req' \in [Ids -> RequestsOf \cup {None}]
      /\ \A j \in Ids : Unmoved(j)
      /\ \A j \in Ids, k \in Kinds : k # req[i].kind /\ Awaited(j, k) => Awaited(j, k)'
      /\ \A j \in Ids : Writing(j) => torn' \/ req'[j] # None
      /\ torn => torn' /\ torn' \in BOOLEAN
  BY FailIs
<1>4. /\ confirmation' \in [confirmed : DraftsOf \cup {None},
                            kind : {"idle", "loading", "confirmed", "error"}]
      /\ confirmation'.kind = "confirmed" => confirmation' = confirmation
      /\ confirmation'.kind = "loading" =>
           confirmation.kind = "loading" /\ req[i].kind # "confirm"
  BY <1>1 DEF NoAnswer, OnbInv, TypeOK, TabOK
<1>5. TypeOK'
  <2>1. torn' \in BOOLEAN
    <3>1. torn \in BOOLEAN
      BY DEF OnbInv, TypeOK
    <3> QED
      BY <1>3, <3>1 DEF Fail
  <2> QED
    BY <1>1, <1>2, <1>3, <1>4, <2>1 DEF OnbInv, TypeOK, TabOK, ServerOK
<1>6. ConfirmsFollow'
  BY <1>2, <1>3, <1>4, ConfirmsKept DEF OnbInv
<1>7. SessionFollows' /\ DraftIsWhole' /\ ConfirmationFollows'
  BY <1>1, <1>2, <1>4 DEF OnbInv, SessionFollows, DraftIsWhole, ConfirmationFollows
<1>8. PagesFollow'
  BY <1>1, <1>2 DEF OnbInv, PagesFollow, Ready
<1>9. EveryWaitIsAnswered'
  BY <1>1, <1>3, <1>4 DEF OnbInv, EveryWaitIsAnswered, Kinds
<1>10. sent <= sent'
  BY <1>3, Nones DEF OnbInv, TypeOK
<1> QED
  BY <1>1, <1>2, <1>3, <1>5, <1>6, <1>7, <1>8, <1>9, <1>10, TabKeeps

(* A navigation: what is written by then is written by routes that live on.     *)
LEMMA LeaveKeeps ==
  ASSUME OnbInv, Leave, UNCHANGED <<profile, record, access, attached, about, turns,
  history>>,
         page' \in {"chat", "app", "reviewing", "connected", "result", "away", "loading"},
         status' \in {"NOT_STARTED", "IN_PROGRESS", "COMPLETED"}, PagesFollow'
  PROVE  OnbInv'
<1>1. /\ extraction' = "idle" /\ found' = {} /\ draft' = None /\ slot' = "idle"
      /\ session' = None /\ confirmation' = NoAnswer /\ setup' = "idle" /\ adoption' = "idle"
      /\ sent' = sent
      /\ req' = [i \in Ids |-> IF req[i] = None \/ req[i].at = "answered" THEN None
                               ELSE [req[i] EXCEPT !.gone = TRUE]]
  BY DEF Leave
<1>2. UNCHANGED <<edits, overtaken, torn>>
  BY DEF history
<1>3. ASSUME NEW j \in Ids
      PROVE  /\ Unmoved(j) /\ req'[j] \in RequestsOf \cup {None}
             /\ Writing(j) => req'[j] # None
  <2>1. CASE req[j] = None \/ req[j].at = "answered"
    BY <1>1, <2>1 DEF Unmoved, Writing, Confirming
  <2>2. CASE ~(req[j] = None \/ req[j].at = "answered")
    <3> DEFINE r == [req[j] EXCEPT !.gone = TRUE]
    <3>1. req[j] \in RequestsOf
      BY <2>2, ReqTyped DEF OnbInv
    <3>2. /\ r \in RequestsOf /\ r.kind = req[j].kind /\ r.draft = req[j].draft
          /\ r.at = req[j].at /\ r.session = req[j].session /\ r.answer = req[j].answer
          /\ r.found = req[j].found
      BY <3>1 DEF RequestsOf
    <3>3. req'[j] = r
      BY <1>1, <2>2
    <3> HIDE DEF r
    <3> QED
      BY <2>2, <3>2, <3>3, Nones DEF Unmoved
  <2> QED
    BY <2>1, <2>2
<1>4. req' \in [Ids -> RequestsOf \cup {None}]
  BY <1>1, <1>3
<1>5. NoAnswer \in [confirmed : DraftsOf \cup {None},
                    kind : {"idle", "loading", "confirmed", "error"}]
      /\ NoAnswer.kind = "idle"
  BY DEF NoAnswer
<1>6. TypeOK'
  BY <1>1, <1>2, <1>4, <1>5 DEF OnbInv, TypeOK, TabOK, ServerOK
<1>7. ConfirmsFollow'
  BY <1>1, <1>2, <1>3, <1>5, ConfirmsKept DEF OnbInv
<1>8. SessionFollows' /\ DraftIsWhole' /\ ConfirmationFollows' /\ EveryWaitIsAnswered'
  BY <1>1, <1>5
  DEF SessionFollows, DraftIsWhole, ConfirmationFollows, EveryWaitIsAnswered
<1>9. sent <= sent'
  BY <1>1, Nones DEF OnbInv, TypeOK
<1> QED
  BY <1>2, <1>3, <1>6, <1>7, <1>8, <1>9, TabKeeps

LEMMA CanFinishIsReady ==
  ASSUME OnbInv, CanFinish PROVE Ready
  BY DEF OnbInv, PagesFollow, CanFinish

LEMMA ReloadKeeps ==
  ASSUME OnbInv, Reload PROVE OnbInv'
<1>1. page' = "loading" /\ Leave /\ UNCHANGED <<server, history>>
  BY DEF Reload
<1>2. UNCHANGED <<status, profile, record, access, attached, about, turns>>
  BY <1>1 DEF server
<1>3. PagesFollow' /\ status' \in {"NOT_STARTED", "IN_PROGRESS", "COMPLETED"}
  BY <1>1, <1>2 DEF OnbInv, PagesFollow, Ready, Leave, TypeOK, ServerOK
<1> QED
  BY <1>1, <1>2, <1>3, LeaveKeeps

LEMMA ConnectInstagramKeeps ==
  ASSUME OnbInv, ConnectInstagram PROVE OnbInv'
<1>1. page' = "away" /\ Leave /\ UNCHANGED <<server, history>> /\ Ready
  BY CanFinishIsReady DEF ConnectInstagram
<1>2. UNCHANGED <<status, profile, record, access, attached, about, turns>>
  BY <1>1 DEF server
<1>3. PagesFollow' /\ status' \in {"NOT_STARTED", "IN_PROGRESS", "COMPLETED"}
  BY <1>1, <1>2 DEF OnbInv, PagesFollow, Ready, Leave, TypeOK, ServerOK
<1> QED
  BY <1>1, <1>2, <1>3, LeaveKeeps

LEMMA CompleteKeeps ==
  ASSUME OnbInv, Complete PROVE OnbInv'
<1>1. /\ status' = "COMPLETED" /\ page' = "loading" /\ Leave /\ Ready
      /\ UNCHANGED <<profile, record, access, attached, about, turns, history>>
  BY CanFinishIsReady DEF Complete
<1>2. PagesFollow'
  BY <1>1 DEF PagesFollow, Ready, Leave
<1> QED
  BY <1>1, <1>2, LeaveKeeps

(* The page changes and nothing else.                                         *)
LEMMA PageKeeps ==
  ASSUME OnbInv, UNCHANGED <<server, tab, requests, history>>,
         page' \in {"chat", "app", "reviewing", "connected", "result"},
         page' \in {"connected", "result"} => Ready,
         page' = "reviewing" => access # "none"
  PROVE  OnbInv'
<1>1. UNCHANGED <<status, profile, record, access, attached, about, turns, extraction, found,
                  draft, slot, session, confirmation, setup, adoption, req, sent, edits,
                  overtaken, torn>>
  BY DEF server, tab, requests, history
<1>2. TypeOK'
  BY <1>1 DEF OnbInv, TypeOK, TabOK, ServerOK
<1>3. \A j \in Ids : Unmoved(j)
  BY <1>1, NoneSame DEF OnbInv
<1>4. ConfirmsFollow'
  <2>1. \A j \in Ids : Writing(j) => req'[j] # None
    BY <1>1 DEF Writing, Confirming
  <2> QED
    BY <1>1, <1>3, <2>1, ConfirmsKept DEF OnbInv
<1>5. SessionFollows' /\ DraftIsWhole' /\ ConfirmationFollows'
  BY <1>1 DEF OnbInv, SessionFollows, DraftIsWhole, ConfirmationFollows
<1>6. EveryWaitIsAnswered'
  BY <1>1 DEF OnbInv, EveryWaitIsAnswered, Awaited
<1>7. PagesFollow'
  BY <1>1 DEF OnbInv, PagesFollow, Ready
<1>8. sent <= sent'
  BY <1>1, Nones DEF OnbInv, TypeOK
<1> QED
  BY <1>1, <1>2, <1>3, <1>4, <1>5, <1>6, <1>7, <1>8, TabKeeps

LEMMA LoadKeeps ==
  ASSUME OnbInv, Load PROVE OnbInv'
<1>1. /\ page' \in {"app", "connected", "reviewing", "chat"}
      /\ page' = "connected" => attached
      /\ page' = "reviewing" => access = "adoption_review"
      /\ UNCHANGED <<server, tab, requests, history>>
  BY DEF Load, ResumeState
<1> QED
  BY <1>1, PageKeeps DEF Ready

LEMMA ReturnKeeps ==
  ASSUME OnbInv, Return PROVE OnbInv'
<1>1. /\ page = "away" /\ page' \in {"app", "result"}
      /\ UNCHANGED <<server, tab, requests, history>>
  BY DEF Return
<1>2. Ready
  BY <1>1 DEF OnbInv, PagesFollow
<1> QED
  BY <1>1, <1>2, PageKeeps

LEMMA OnbStep ==
  ASSUME OnbInv, Next \/ UNCHANGED vars PROVE OnbInv'
<1>1. CASE Owner
  BY <1>1, ExtractKeeps, SearchAgainKeeps, SubmitSlotKeeps, ChangeDraftFieldKeeps,
     ConfirmKeeps,
     CheckSetupKeeps, ClaimExistingKeeps, SelectCandidateKeeps DEF Owner
<1>2. ASSUME NEW i \in Ids, Show(i)
      PROVE  OnbInv'
  BY <1>2, ShowExtractionKeeps, ShowTurnKeeps, ShowConfirmationKeeps, ShowAdoptionKeeps
  DEF Show
<1>3. ASSUME NEW i \in Ids, Serve(i)
      PROVE  OnbInv'
  BY <1>3, SearchKeeps, OpenSessionKeeps, RecordTurnKeeps, RefusalsKeep,
     StoreProfileKeeps,
     UpdateRecordKeeps, InsertRecordKeeps, MatchListingKeeps, OpenAdoptionReviewKeeps
     DEF Serve
<1>4. CASE UNCHANGED vars
  <2>1. UNCHANGED <<status, profile, record, access, attached, about, turns, page, extraction,
                    found, draft, slot, session, confirmation, setup, adoption, req,
                    sent,
                    edits, overtaken, torn>>
    BY <1>4 DEF vars, server, tab, requests, history
  <2>2. TypeOK' /\ \A i \in Ids : ReqFollows(i)'
    BY <2>1 DEF OnbInv, TypeOK, TabOK, ServerOK, ReqFollows, SlotFollows, ConfirmFollows
  <2>3. AboutFollows' /\ SessionFollows' /\ TurnsFollow' /\ ConfirmationFollows' /\ PagesFollow'
    BY <2>1 DEF OnbInv, AboutFollows, SessionFollows, TurnsFollow, ConfirmationFollows,
       PagesFollow, Ready
  <2>4. ConfirmsFollow'
    BY <2>1 DEF OnbInv, ConfirmsFollow, OneConfirms, Confirming, Writing, AloneFollows
  <2>5. DraftIsWhole' /\ EveryWaitIsAnswered'
    BY <2>1 DEF OnbInv, DraftIsWhole, EveryWaitIsAnswered, Awaited
  <2> QED
    BY <2>1, <2>2, <2>3, <2>4, <2>5 DEF OnbInv, Ids
<1>5. CASE Operate
  BY <1>5, OperateKeeps
<1>6. CASE Reload \/ Load \/ ConnectInstagram \/ Return \/ Complete
  BY <1>6, ReloadKeeps, LoadKeeps, ConnectInstagramKeeps, ReturnKeeps, CompleteKeeps
<1>7. ASSUME NEW i \in Ids, Fail(i)
      PROVE  OnbInv'
  BY <1>7, FailKeeps
<1> QED
  BY <1>1, <1>2, <1>3, <1>4, <1>5, <1>6, <1>7 DEF Next
-------------------------------------------------------------------------------
(* The activity trail.                                                    *)

(* Membership of a queue, and what the operators on queues do to it.          *)
In(e, q) == \E i \in 1 .. Len(q) : q[i] = e

LEMMA RangeIs ==
  ASSUME NEW q \in Seq(Trail!Events), NEW e
  PROVE  e \in Trail!Range(q) <=> In(e, q)
<1>1. DOMAIN q = 1 .. Len(q)
  BY LenProperties
<1> QED
  BY <1>1 DEF Trail!Range, In

LEMMA EmptyIs ==
  /\ <<>> \in Seq(Trail!Events) /\ Len(<<>>) = 0
  /\ \A e : ~In(e, <<>>)
  /\ \A q \in Seq(Trail!Events) : q # <<>> => Len(q) > 0
<1>1. <<>> \in Seq(Trail!Events) /\ Len(<<>>) = 0
  BY EmptySeq
<1>2. \A q \in Seq(Trail!Events) : q # <<>> => Len(q) > 0
  BY EmptySeq
<1> QED
  BY <1>1, <1>2 DEF In

LEMMA FirstIs ==
  ASSUME NEW q \in Seq(Trail!Events), NEW n \in Nat
  PROVE  /\ Trail!First(q, n) \in Seq(Trail!Events)
         /\ Len(Trail!First(q, n)) = IF Len(q) < n THEN Len(q) ELSE n
         /\ \A i \in 1 .. Len(Trail!First(q, n)) : i \in 1 .. Len(q) /\ Trail!First(q, n)[i] = q[i]
<1> DEFINE k == IF Len(q) < n THEN Len(q) ELSE n
<1>1. Len(q) \in Nat /\ \A i \in 1 .. Len(q) : q[i] \in Trail!Events
  BY LenProperties, ElementOfSeq
<1>2. k \in Nat /\ k <= Len(q)
  BY <1>1
<1>3. \A i \in 1 .. k : q[i] \in Trail!Events
  BY <1>1, <1>2
<1>4. Trail!First(q, n) = SubSeq(q, 1, k)
  BY DEF Trail!First
<1> HIDE DEF k
<1>5. /\ SubSeq(q, 1, k) \in Seq(Trail!Events)
      /\ Len(SubSeq(q, 1, k)) = IF 1 <= k THEN k - 1 + 1 ELSE 0
      /\ \A i \in 1 .. k - 1 + 1 : SubSeq(q, 1, k)[i] = q[1 + i - 1]
  BY <1>2, <1>3, SubSeqProperties
<1>6. Len(Trail!First(q, n)) = k
  BY <1>2, <1>4, <1>5
<1>7. \A i \in 1 .. k : i \in 1 .. Len(q) /\ Trail!First(q, n)[i] = q[i]
  BY <1>1, <1>2, <1>4, <1>5
<1> QED
  BY <1>4, <1>5, <1>6, <1>7 DEF k

LEMMA RestIs ==
  ASSUME NEW q \in Seq(Trail!Events), NEW n \in Nat
  PROVE  /\ Trail!Rest(q, n) \in Seq(Trail!Events)
         /\ Len(Trail!Rest(q, n)) = IF n < Len(q) THEN Len(q) - n ELSE 0
         /\ \A i \in 1 .. Len(Trail!Rest(q, n)) : i + n \in 1 .. Len(q) /\ Trail!Rest(q, n)[i] = q[i + n]
<1>1. Len(q) \in Nat /\ \A i \in 1 .. Len(q) : q[i] \in Trail!Events
  BY LenProperties, ElementOfSeq
<1>2. \A i \in n + 1 .. Len(q) : q[i] \in Trail!Events
  BY <1>1
<1>3. /\ Trail!Rest(q, n) \in Seq(Trail!Events)
      /\ Len(Trail!Rest(q, n)) = IF n + 1 <= Len(q) THEN Len(q) - (n + 1) + 1 ELSE 0
      /\ \A i \in 1 .. Len(q) - (n + 1) + 1 : Trail!Rest(q, n)[i] = q[n + 1 + i - 1]
  BY <1>1, <1>2, SubSeqProperties DEF Trail!Rest
<1>4. Len(Trail!Rest(q, n)) = IF n < Len(q) THEN Len(q) - n ELSE 0
  BY <1>1, <1>3
<1>5. \A i \in 1 .. Len(Trail!Rest(q, n)) : i + n \in 1 .. Len(q) /\ Trail!Rest(q, n)[i] = q[i + n]
  BY <1>1, <1>3, <1>4
<1> QED
  BY <1>3, <1>4, <1>5

(* Nothing is lost where a queue is cut in two.                              *)
LEMMA CutInTwo ==
  ASSUME NEW q \in Seq(Trail!Events), NEW n \in Nat, NEW e
  PROVE  In(e, q) <=> In(e, Trail!First(q, n)) \/ In(e, Trail!Rest(q, n))
<1>1. Len(q) \in Nat
  BY LenProperties
<1>2. ASSUME In(e, q) PROVE In(e, Trail!First(q, n)) \/ In(e, Trail!Rest(q, n))
  <2>1. PICK i \in 1 .. Len(q) : q[i] = e
    BY <1>2 DEF In
  <2>2. CASE i <= n
    <3>1. i \in 1 .. Len(Trail!First(q, n))
      BY <1>1, <2>2, FirstIs
    <3> QED
      BY <2>1, <3>1, FirstIs DEF In
  <2>3. CASE i > n
    <3> DEFINE j == i - n
    <3>1. j \in 1 .. Len(Trail!Rest(q, n)) /\ j + n = i
      BY <1>1, <2>3, RestIs
    <3> HIDE DEF j
    <3>2. Trail!Rest(q, n)[j] = q[j + n]
      BY <3>1, RestIs
    <3> QED
      BY <2>1, <3>1, <3>2 DEF In
  <2> QED
    BY <2>2, <2>3
<1>3. In(e, Trail!First(q, n)) => In(e, q)
  BY FirstIs DEF In
<1>4. In(e, Trail!Rest(q, n)) => In(e, q)
  BY RestIs DEF In
<1> QED
  BY <1>2, <1>3, <1>4

LEMMA TrailAppendIs ==
  ASSUME NEW q \in Seq(Trail!Events), NEW x \in Trail!Events
  PROVE  /\ Append(q, x) \in Seq(Trail!Events) /\ Len(Append(q, x)) = Len(q) + 1
         /\ \A i \in 1 .. Len(q) : Append(q, x)[i] = q[i]
         /\ Append(q, x)[Len(q) + 1] = x
         /\ \A e : In(e, Append(q, x)) <=> In(e, q) \/ e = x
<1>1. Len(q) \in Nat
  BY LenProperties
<1>2. /\ Append(q, x) \in Seq(Trail!Events) /\ Len(Append(q, x)) = Len(q) + 1
      /\ \A i \in 1 .. Len(q) : Append(q, x)[i] = q[i]
      /\ Append(q, x)[Len(q) + 1] = x
  BY AppendProperties
<1>3. ASSUME NEW e PROVE In(e, Append(q, x)) <=> In(e, q) \/ e = x
  <2>1. 1 .. Len(q) + 1 = 1 .. Len(q) \cup {Len(q) + 1}
    BY <1>1
  <2> QED
    BY <1>2, <2>1 DEF In
<1> QED
  BY <1>2, <1>3

LEMMA JoinIs ==
  ASSUME NEW b \in Seq(Trail!Events), NEW p \in Seq(Trail!Events)
  PROVE  /\ b \o p \in Seq(Trail!Events) /\ Len(b \o p) = Len(b) + Len(p)
         /\ \A i \in 1 .. Len(b) + Len(p) :
              (b \o p)[i] = IF i <= Len(b) THEN b[i] ELSE p[i - Len(b)]
         /\ \A e : In(e, b \o p) <=> In(e, b) \/ In(e, p)
<1>1. Len(b) \in Nat /\ Len(p) \in Nat
  BY LenProperties
<1>2. /\ b \o p \in Seq(Trail!Events) /\ Len(b \o p) = Len(b) + Len(p)
      /\ \A i \in 1 .. Len(b) + Len(p) :
           (b \o p)[i] = IF i <= Len(b) THEN b[i] ELSE p[i - Len(b)]
  BY ConcatProperties
<1>3. ASSUME NEW e, In(e, b) PROVE In(e, b \o p)
  BY <1>1, <1>2, <1>3 DEF In
<1>4. ASSUME NEW e, In(e, p) PROVE In(e, b \o p)
  <2>1. PICK j \in 1 .. Len(p) : p[j] = e
    BY <1>4 DEF In
  <2>2. /\ j + Len(b) \in 1 .. Len(b) + Len(p)
        /\ ~(j + Len(b) <= Len(b)) /\ (j + Len(b)) - Len(b) = j
    BY <1>1
  <2>3. (b \o p)[j + Len(b)] = e
    BY <1>2, <2>1, <2>2
  <2> QED
    BY <1>2, <2>2, <2>3 DEF In
<1>5. ASSUME NEW e, In(e, b \o p) PROVE In(e, b) \/ In(e, p)
  <2>1. PICK i \in 1 .. Len(b) + Len(p) : (b \o p)[i] = e
    BY <1>2, <1>5 DEF In
  <2>2. CASE i <= Len(b)
    BY <1>1, <1>2, <2>1, <2>2 DEF In
  <2>3. CASE ~(i <= Len(b))
    <3>1. i - Len(b) \in 1 .. Len(p)
      BY <1>1, <2>3
    <3> QED
      BY <1>2, <2>1, <2>3, <3>1 DEF In
  <2> QED
    BY <2>2, <2>3
<1> QED
  BY <1>2, <1>3, <1>4, <1>5

(* What a surface keeps is spaced as it was recorded: of two events the later *)
(* has a number greater by at least their distance.                         *)
Spaced(q) == \A m, n \in 1 .. Len(q) : m < n => q[m] + n <= q[n] + m
Before(b, p) ==
  \A i \in 1 .. Len(b), j \in 1 .. Len(p) : b[i] + Len(b) + j <= p[j] + i
Below(q, rec) == \A i \in 1 .. Len(q) : q[i] <= rec
Queued(b, p, rec) ==
  /\ b \in Seq(Trail!Events) /\ p \in Seq(Trail!Events)
  /\ Spaced(b) /\ Spaced(p) /\ Before(b, p) /\ Below(b, rec) /\ Below(p, rec)
  /\ Len(b) <= FlushMax /\ Len(p) <= MaxPending + FlushMax
  /\ b # <<>> => Len(p) <= MaxPending

LEMMA QueueTypes ==
  ASSUME NEW q \in Seq(Trail!Events)
  PROVE  Len(q) \in Nat /\ \A i \in 1 .. Len(q) : q[i] \in Nat /\ q[i] \in Trail!Events
<1>1. Len(q) \in Nat
  BY LenProperties
<1>2. \A i \in 1 .. Len(q) : q[i] \in Trail!Events
  BY ElementOfSeq
<1>3. \A e \in Trail!Events : e \in Nat
  BY DEF Trail!Events
<1> QED
  BY <1>1, <1>2, <1>3

LEMMA InEvents ==
  ASSUME NEW q \in Seq(Trail!Events), NEW e, In(e, q)
  PROVE  e \in Trail!Events
  BY QueueTypes DEF In

LEMMA TrailBounds == MaxPending \in Nat \ {0} /\ FlushMax \in Nat \ {0} /\ MaxEvents \in Nat
  BY PartsAssumption DEF Trail!TrailAssumption

LEMMA Shifted ==
  ASSUME NEW x \in Nat, NEW y \in Nat, NEW h \in Nat, NEW j \in Nat, NEW m \in Nat,
         x + j <= y + h
  PROVE  x + (m + j) <= y + (m + h)
  OBVIOUS

LEMMA TrailCleared ==
  ASSUME NEW b, NEW p, NEW rec \in Nat, Queued(b, p, rec)
  PROVE  Queued(b, <<>>, rec) /\ Queued(<<>>, p, rec) /\ Queued(<<>>, <<>>, rec)
  BY EmptyIs, TrailBounds DEF Queued, Spaced, Before, Below

LEMMA LaterQueued ==
  ASSUME NEW b, NEW p, NEW rec \in Nat, Queued(b, p, rec)
  PROVE  Queued(b, p, rec + 1)
<1>1. Below(b, rec + 1) /\ Below(p, rec + 1)
  BY QueueTypes DEF Queued, Below
<1> QED
  BY <1>1 DEF Queued

LEMMA FlushQueued ==
  ASSUME NEW p, NEW rec \in Nat, Queued(<<>>, p, rec), NEW n \in Nat, n <= FlushMax,
         Len(p) <= n \/ n = FlushMax
  PROVE  Queued(Trail!First(p, n), Trail!Rest(p, n), rec)
<1> DEFINE b == Trail!First(p, n)
           r == Trail!Rest(p, n)
<1>1. p \in Seq(Trail!Events) /\ Spaced(p) /\ Below(p, rec) /\ Len(p) <= MaxPending + FlushMax
  BY DEF Queued
<1>2. Len(p) \in Nat /\ \A i \in 1 .. Len(p) : p[i] \in Nat
  BY <1>1, QueueTypes
<1>3. /\ b \in Seq(Trail!Events) /\ Len(b) = IF Len(p) < n THEN Len(p) ELSE n
      /\ \A i \in 1 .. Len(b) : i \in 1 .. Len(p) /\ b[i] = p[i]
  BY <1>1, FirstIs
<1>4. /\ r \in Seq(Trail!Events) /\ Len(r) = IF n < Len(p) THEN Len(p) - n ELSE 0
      /\ \A i \in 1 .. Len(r) : i + n \in 1 .. Len(p) /\ r[i] = p[i + n]
  BY <1>1, RestIs
<1> HIDE DEF b, r
<1>5. Len(b) <= FlushMax /\ Len(r) <= MaxPending /\ Len(r) <= MaxPending + FlushMax
  BY <1>1, <1>2, <1>3, <1>4, TrailBounds
<1>6. Spaced(b)
  BY <1>1, <1>3 DEF Spaced
<1>7. Spaced(r)
  <2> SUFFICES ASSUME NEW i \in 1 .. Len(r), NEW k \in 1 .. Len(r), i < k
               PROVE  r[i] + k <= r[k] + i
    BY DEF Spaced
  <2>1. i + n \in 1 .. Len(p) /\ k + n \in 1 .. Len(p) /\ i + n < k + n
    BY <1>4
  <2>2. p[i + n] + (k + n) <= p[k + n] + (i + n)
    BY <1>1, <2>1 DEF Spaced
  <2>3. p[i + n] \in Nat /\ p[k + n] \in Nat /\ r[i] = p[i + n] /\ r[k] = p[k + n]
    BY <1>2, <1>4, <2>1
  <2> QED
    BY <2>2, <2>3
<1>8. Before(b, r)
  <2> SUFFICES ASSUME NEW i \in 1 .. Len(b), NEW j \in 1 .. Len(r)
               PROVE  b[i] + Len(b) + j <= r[j] + i
    BY DEF Before
  <2>1. n < Len(p) /\ Len(b) = n
    BY <1>2, <1>3, <1>4
  <2>2. i \in 1 .. Len(p) /\ j + n \in 1 .. Len(p) /\ i < j + n
    BY <1>2, <1>3, <1>4, <2>1
  <2>3. p[i] + (j + n) <= p[j + n] + i
    BY <1>1, <2>2 DEF Spaced
  <2>4. p[i] \in Nat /\ p[j + n] \in Nat /\ b[i] = p[i] /\ r[j] = p[j + n]
    BY <1>2, <1>3, <1>4, <2>2
  <2> QED
    BY <2>1, <2>3, <2>4
<1>9. Below(b, rec) /\ Below(r, rec)
  BY <1>1, <1>3, <1>4 DEF Below
<1> QED
  BY <1>3, <1>4, <1>5, <1>6, <1>7, <1>8, <1>9 DEF Queued, b, r

LEMMA JoinSpaced ==
  ASSUME NEW b, NEW p, NEW rec \in Nat, Queued(b, p, rec)
  PROVE  b \o p \in Seq(Trail!Events) /\ Spaced(b \o p) /\ Below(b \o p, rec)
<1> DEFINE q == b \o p
<1>1. /\ b \in Seq(Trail!Events) /\ p \in Seq(Trail!Events) /\ Spaced(b) /\ Spaced(p)
      /\ Before(b, p)
      /\ Below(b, rec) /\ Below(p, rec)
  BY DEF Queued
<1>2. /\ Len(b) \in Nat /\ \A i \in 1 .. Len(b) : b[i] \in Nat
      /\ Len(p) \in Nat /\ \A i \in 1 .. Len(p) : p[i] \in Nat
  BY <1>1, QueueTypes
<1>3. /\ q \in Seq(Trail!Events) /\ Len(q) = Len(b) + Len(p)
      /\ \A i \in 1 .. Len(b) + Len(p) : q[i] = IF i <= Len(b) THEN b[i] ELSE p[i - Len(b)]
  BY <1>1, JoinIs
<1> HIDE DEF q
<1>4. \A i \in 1 .. Len(q) : ~(i <= Len(b)) => i - Len(b) \in 1 .. Len(p)
  BY <1>2, <1>3
<1>5. Spaced(q)
  <2> SUFFICES ASSUME NEW i \in 1 .. Len(q), NEW k \in 1 .. Len(q), i < k
               PROVE  q[i] + k <= q[k] + i
    BY DEF Spaced
  <2>1. CASE k <= Len(b)
    <3>1. i \in 1 .. Len(b) /\ k \in 1 .. Len(b) /\ q[i] = b[i] /\ q[k] = b[k]
      BY <1>2, <1>3, <2>1
    <3> QED
      BY <1>1, <3>1 DEF Spaced
  <2>2. CASE i <= Len(b) /\ ~(k <= Len(b))
    <3> DEFINE j == k - Len(b)
    <3>1. i \in 1 .. Len(b) /\ j \in 1 .. Len(p) /\ q[i] = b[i] /\ q[k] = p[j]
      BY <1>2, <1>3, <1>4, <2>2
    <3>2. k = Len(b) + j
      BY <1>2, <1>3
    <3> HIDE DEF j
    <3>3. b[i] + Len(b) + j <= p[j] + i /\ b[i] \in Nat /\ p[j] \in Nat
      BY <1>1, <1>2, <3>1 DEF Before
    <3> QED
      BY <1>2, <3>1, <3>2, <3>3
  <2>3. CASE ~(i <= Len(b))
    <3> DEFINE j == k - Len(b)
               h == i - Len(b)
    <3>1. h \in 1 .. Len(p) /\ j \in 1 .. Len(p) /\ q[i] = p[h] /\ q[k] = p[j]
      BY <1>2, <1>3, <1>4, <2>3
    <3>2. k = Len(b) + j /\ i = Len(b) + h /\ h < j
      BY <1>2, <1>3
    <3> HIDE DEF j, h
    <3>3. p[h] + j <= p[j] + h /\ p[h] \in Nat /\ p[j] \in Nat
      BY <1>1, <1>2, <3>1, <3>2 DEF Spaced
    <3>4. h \in Nat /\ j \in Nat
      BY <1>2, <3>1
    <3>5. p[h] + (Len(b) + j) <= p[j] + (Len(b) + h)
      BY <1>2, <3>3, <3>4, Shifted
    <3> QED
      BY <3>1, <3>2, <3>5
  <2> QED
    BY <1>2, <1>3, <2>1, <2>2, <2>3
<1>6. Below(q, rec)
  <2> SUFFICES ASSUME NEW i \in 1 .. Len(q) PROVE q[i] <= rec
    BY DEF Below
  <2>1. CASE i <= Len(b)
    <3>1. i \in 1 .. Len(b) /\ q[i] = b[i]
      BY <1>2, <1>3, <2>1
    <3> QED
      BY <1>1, <3>1 DEF Below
  <2>2. CASE ~(i <= Len(b))
    <3>1. i - Len(b) \in 1 .. Len(p) /\ q[i] = p[i - Len(b)]
      BY <1>2, <1>3, <1>4, <2>2
    <3> QED
      BY <1>1, <3>1 DEF Below
  <2> QED
    BY <2>1, <2>2
<1> QED
  BY <1>3, <1>5, <1>6 DEF q

LEMMA TakenBack ==
  ASSUME NEW b, NEW p, NEW rec \in Nat, b # <<>>, Queued(b, p, rec)
  PROVE  Queued(<<>>, b \o p, rec)
<1> DEFINE q == b \o p
<1>1. q \in Seq(Trail!Events) /\ Spaced(q) /\ Below(q, rec)
  BY JoinSpaced
<1>2. /\ b \in Seq(Trail!Events) /\ p \in Seq(Trail!Events) /\ Len(b) <= FlushMax
      /\ Len(p) <= MaxPending
  BY DEF Queued
<1>3. Len(b) \in Nat /\ Len(p) \in Nat /\ Len(q) = Len(b) + Len(p)
  BY <1>2, QueueTypes, JoinIs
<1> HIDE DEF q
<1>4. Len(q) <= MaxPending + FlushMax
  BY <1>2, <1>3, TrailBounds
<1>5. Spaced(<<>>) /\ Before(<<>>, q) /\ Below(<<>>, rec) /\ Len(<<>>) <= FlushMax
  BY EmptyIs, TrailBounds DEF Spaced, Before, Below
<1> QED
  BY <1>1, <1>4, <1>5, EmptyIs DEF Queued, q

LEMMA RecordQueued ==
  ASSUME NEW b, NEW p, NEW rec \in Nat, Queued(b, p, rec), rec + 1 \in Trail!Events
  PROVE  LET longer == Append(p, rec + 1)
         IN  /\ Queued(b, Trail!Bounded(longer), rec + 1)
             /\ longer \in Seq(Trail!Events)
             /\ \A e : In(e, Trail!Bounded(longer)) => In(e, longer)
             /\ \A e \in Trail!Events : In(e, longer) /\ ~In(e, Trail!Bounded(longer)) =>
                  e + MaxPending <= rec + 1
<1> DEFINE longer == Append(p, rec + 1)
           n == IF Len(longer) <= MaxPending THEN 0 ELSE Len(longer) - MaxPending
           k == Trail!Bounded(longer)
<1>1. /\ b \in Seq(Trail!Events) /\ p \in Seq(Trail!Events) /\ Spaced(p) /\ Before(b, p)
      /\ Below(p, rec)
  BY DEF Queued
<1>2. /\ Len(b) \in Nat /\ \A i \in 1 .. Len(b) : b[i] \in Nat
      /\ Len(p) \in Nat /\ \A i \in 1 .. Len(p) : p[i] \in Nat
  BY <1>1, QueueTypes
<1>3. /\ longer \in Seq(Trail!Events) /\ Len(longer) = Len(p) + 1
      /\ \A i \in 1 .. Len(p) : longer[i] = p[i]
      /\ longer[Len(p) + 1] = rec + 1
  BY <1>1, TrailAppendIs
<1> HIDE DEF longer
<1>4. n \in Nat /\ n < Len(longer)
  BY <1>2, <1>3, TrailBounds
<1>5. /\ \A i \in 1 .. Len(longer) : longer[i] \in Nat /\ longer[i] <= rec + 1
      /\ Spaced(longer) /\ Before(b, longer)
  <2>1. \A i \in 1 .. Len(longer) : i \in 1 .. Len(p) \/ i = Len(p) + 1
    BY <1>2, <1>3
  <2>2. \A i \in 1 .. Len(longer) : longer[i] \in Nat /\ longer[i] <= rec + 1
    BY <1>1, <1>2, <1>3, <2>1 DEF Below
  <2>3. Spaced(longer)
    <3> SUFFICES ASSUME NEW i \in 1 .. Len(longer), NEW j \in 1 .. Len(longer), i < j
                 PROVE  longer[i] + j <= longer[j] + i
      BY DEF Spaced
    <3>1. i \in 1 .. Len(p) /\ longer[i] = p[i] /\ p[i] \in Nat
      BY <1>2, <1>3, <2>1
    <3>2. CASE j \in 1 .. Len(p)
      BY <1>1, <1>3, <3>1, <3>2 DEF Spaced
    <3>3. CASE j = Len(p) + 1
      <4>1. Len(p) \in 1 .. Len(p) /\ p[Len(p)] \in Nat /\ p[Len(p)] <= rec
        BY <1>1, <1>2, <3>1 DEF Below
      <4>2. p[i] + Len(p) <= p[Len(p)] + i
        BY <1>1, <1>2, <3>1, <4>1 DEF Spaced
      <4> QED
        BY <1>2, <1>3, <3>1, <3>3, <4>1, <4>2
    <3> QED
      BY <2>1, <3>2, <3>3
  <2>4. Before(b, longer)
    <3> SUFFICES ASSUME NEW i \in 1 .. Len(b), NEW j \in 1 .. Len(longer)
                 PROVE  b[i] + Len(b) + j <= longer[j] + i
      BY DEF Before
    <3>1. CASE j \in 1 .. Len(p)
      BY <1>1, <1>3, <3>1 DEF Before
    <3>2. CASE j = Len(p) + 1 /\ Len(p) > 0
      <4>1. Len(p) \in 1 .. Len(p) /\ p[Len(p)] \in Nat /\ p[Len(p)] <= rec
        BY <1>1, <1>2, <3>2 DEF Below
      <4>2. b[i] + Len(b) + Len(p) <= p[Len(p)] + i
        BY <1>1, <4>1 DEF Before
      <4> QED
        BY <1>2, <1>3, <3>2, <4>1, <4>2
    <3>3. CASE j = Len(p) + 1 /\ Len(p) = 0
      <4>1. Len(b) \in 1 .. Len(b) /\ b[Len(b)] <= rec /\ b[Len(b)] \in Nat
        BY <1>2 DEF Queued, Below
      <4>2. b[i] + Len(b) <= b[Len(b)] + i
        BY <1>2, <4>1 DEF Queued, Spaced
      <4> QED
        BY <1>2, <1>3, <3>3, <4>1, <4>2
    <3> QED
      BY <1>2, <2>1, <3>1, <3>2, <3>3
  <2> QED
    BY <2>2, <2>3, <2>4
<1>6. \/ n = 0 /\ k = longer
      \/ n > 0 /\ k = Trail!Rest(longer, n) /\ n = Len(longer) - MaxPending
  BY <1>2, <1>3, TrailBounds DEF Trail!Bounded
<1>7. /\ k \in Seq(Trail!Events) /\ Len(k) = Len(longer) - n
      /\ \A i \in 1 .. Len(k) : i + n \in 1 .. Len(longer) /\ k[i] = longer[i + n]
  <2>1. CASE n = 0 /\ k = longer
    <3>1. Len(k) = Len(longer) - n /\ \A i \in 1 .. Len(k) : i + n = i
      BY <1>2, <1>3, <2>1
    <3> QED
      BY <1>3, <2>1, <3>1
  <2>2. CASE k = Trail!Rest(longer, n)
    BY <1>3, <1>4, <2>2, RestIs
  <2> QED
    BY <1>6, <2>1, <2>2
<1>8. Len(k) <= MaxPending
  BY <1>2, <1>3, <1>7, TrailBounds
<1>9. \A e : In(e, k) => In(e, longer)
  BY <1>7 DEF In
<1>10. ASSUME NEW e \in Trail!Events, In(e, longer), ~In(e, k) PROVE e + MaxPending <= rec + 1
  <2>1. n > 0 /\ k = Trail!Rest(longer, n) /\ n = Len(longer) - MaxPending
    BY <1>6, <1>10
  <2>2. In(e, Trail!First(longer, n))
    BY <1>3, <1>4, <1>10, <2>1, CutInTwo
  <2>3. PICK i \in 1 .. Len(Trail!First(longer, n)) : Trail!First(longer, n)[i] = e
    BY <2>2 DEF In
  <2>4. i \in 1 .. Len(longer) /\ longer[i] = e /\ i <= n
    BY <1>3, <1>4, <2>3, FirstIs
  <2>5. Len(longer) \in 1 .. Len(longer) /\ i < Len(longer)
    BY <1>2, <1>3, <1>4, <2>4
  <2>6. longer[i] + Len(longer) <= longer[Len(longer)] + i
    BY <1>5, <2>4, <2>5 DEF Spaced
  <2>7. longer[Len(longer)] = rec + 1 /\ e \in Nat
    BY <1>3, <1>5, <2>4
  <2> QED
    BY <1>2, <1>3, <2>1, <2>4, <2>6, <2>7, TrailBounds
<1> HIDE DEF n, k
<1>17. n \in Nat /\ Len(k) \in Nat
  BY <1>2, <1>3, <1>4, <1>7
<1>11. Spaced(k)
  <2> SUFFICES ASSUME NEW i \in 1 .. Len(k), NEW j \in 1 .. Len(k), i < j
               PROVE  k[i] + j <= k[j] + i
    BY DEF Spaced
  <2>1. i + n \in 1 .. Len(longer) /\ j + n \in 1 .. Len(longer) /\ i + n < j + n
    BY <1>4, <1>7
  <2>2. longer[i + n] + (j + n) <= longer[j + n] + (i + n)
    BY <1>5, <2>1 DEF Spaced
  <2>3. /\ longer[i + n] \in Nat /\ longer[j + n] \in Nat
        /\ k[i] = longer[i + n] /\ k[j] = longer[j + n]
    BY <1>5, <1>7, <2>1
  <2>4. i \in Nat /\ j \in Nat
    BY <1>17
  <2>5. longer[i + n] + j <= longer[j + n] + i
    BY <1>17, <2>2, <2>3, <2>4
  <2> QED
    BY <2>3, <2>5
<1>12. Before(b, k)
  <2> SUFFICES ASSUME NEW i \in 1 .. Len(b), NEW j \in 1 .. Len(k)
               PROVE  b[i] + Len(b) + j <= k[j] + i
    BY DEF Before
  <2>1. j + n \in 1 .. Len(longer) /\ k[j] = longer[j + n] /\ longer[j + n] \in Nat
    BY <1>5, <1>7
  <2>2. b[i] + Len(b) + (j + n) <= longer[j + n] + i
    BY <1>5, <2>1 DEF Before
  <2>3. i \in Nat /\ j \in Nat /\ b[i] \in Nat
    BY <1>2, <1>17
  <2>4. b[i] + Len(b) + j <= longer[j + n] + i
    BY <1>2, <1>17, <2>1, <2>2, <2>3
  <2> QED
    BY <2>1, <2>4
<1>13. Below(k, rec + 1)
  BY <1>5, <1>7 DEF Below
<1>14. Below(b, rec + 1) /\ Spaced(b) /\ Len(b) <= FlushMax
  BY <1>2 DEF Queued, Below
<1>15. Len(k) <= MaxPending + FlushMax
  BY <1>2, <1>3, <1>4, <1>7, <1>8, TrailBounds
<1>16. Queued(b, k, rec + 1)
  BY <1>1, <1>7, <1>8, <1>11, <1>12, <1>13, <1>14, <1>15 DEF Queued
<1> QED
  BY <1>3, <1>9, <1>10, <1>16 DEF longer, k

(* What is known of an event.                                                *)
TrailWaits(e, s) == In(e, flight[s].batch) \/ In(e, pending[s])

InOnePlace(e) == \A s, t \in Trail!Mounts : TrailWaits(e, s) /\ TrailWaits(e, t) => s = t
StoredOnce(e) ==
  stored[e] > 0 =>
    /\ e <= recorded
    /\ e \notin unsure =>
         /\ stored[e] = 1
         /\ \A s \in Trail!Mounts : ~In(e, pending[s])
                              /\ (In(e, flight[s].batch) => flight[s].answer = "ok")
OkIsStored(e) ==
  \A s \in Trail!Mounts : In(e, flight[s].batch) /\ flight[s].answer = "ok" => stored[e] > 0
IsSomewhere(e) ==
  e <= recorded =>
    stored[e] > 0 \/ e \in dropped \cup parted \/ \E s \in Trail!Mounts : TrailWaits(e, s)
IsOld(e) == e \in dropped => e + MaxPending <= recorded
Kept(e) == InOnePlace(e) /\ StoredOnce(e) /\ OkIsStored(e) /\ IsSomewhere(e) /\ IsOld(e)

QueuesTidy == \A s \in Trail!Mounts : Queued(flight[s].batch, pending[s], recorded)
NothingWaitsBehind == \A s \in Trail!Mounts : ~Trail!Here(s) => pending[s] = <<>>
(* The invariant of the activity trail.                                     *)
TrailInv == Trail!TypeOK /\ QueuesTidy /\ NothingWaitsBehind /\ \A e \in Trail!Events : Kept(e)

(* A step of one surface: what it keeps and sends afterwards.                *)
Turned(s, b, a, p) ==
  /\ flight'[s].batch = b /\ flight'[s].answer = a /\ pending'[s] = p
  /\ \A t \in Trail!Mounts \ {s} : flight'[t] = flight[t] /\ pending'[t] = pending[t]
HistoryGrows ==
  /\ recorded \in Nat /\ recorded' \in Nat /\ recorded <= recorded'
  /\ unsure \subseteq unsure' /\ dropped \cup parted \subseteq dropped' \cup parted'
EventTurns(e, s, b, a, p) ==
  /\ stored[e] \in 0 .. Trail!Many /\ stored'[e] \in 0 .. Trail!Many
  /\ stored[e] <= stored'[e]
  /\ stored'[e] = stored[e] \/ In(e, flight[s].batch)
  /\ In(e, b) \/ In(e, p) => TrailWaits(e, s) \/ e > recorded
  /\ TrailWaits(e, s) =>
       In(e, b) \/ In(e, p) \/ stored'[e] > 0 \/ e \in dropped' \cup parted'
  /\ e > recorded /\ e <= recorded' => In(e, b) \/ In(e, p)
  /\ stored'[e] > 0 /\ e \notin unsure' =>
       stored'[e] = 1 /\ ~In(e, p) /\ (In(e, b) => a = "ok")
  /\ In(e, b) /\ a = "ok" => stored'[e] > 0
  /\ e \in dropped' => e + MaxPending <= recorded'

LEMMA QueueEnds ==
  ASSUME NEW b, NEW p, NEW rec \in Nat, Queued(b, p, rec), NEW e, In(e, b) \/ In(e, p)
  PROVE  e \in Trail!Events /\ e \in Nat /\ e <= rec
<1>1. b \in Seq(Trail!Events) /\ p \in Seq(Trail!Events) /\ Below(b, rec) /\ Below(p, rec)
  BY DEF Queued
<1> QED
  BY <1>1, QueueTypes DEF Below, In

LEMMA NotInBoth ==
  ASSUME NEW b, NEW p, NEW rec \in Nat, Queued(b, p, rec), NEW e, In(e, b), In(e, p)
  PROVE  FALSE
<1>1. b \in Seq(Trail!Events) /\ p \in Seq(Trail!Events) /\ Before(b, p)
  BY DEF Queued
<1>2. PICK i \in 1 .. Len(b) : b[i] = e
  BY DEF In
<1>3. PICK j \in 1 .. Len(p) : p[j] = e
  BY DEF In
<1>4. Len(b) \in Nat /\ Len(p) \in Nat /\ e \in Nat
  BY <1>1, <1>2, QueueTypes
<1>5. b[i] + Len(b) + j <= p[j] + i
  BY <1>1 DEF Before
<1>6. e + Len(b) + j <= e + i /\ i \in Nat /\ j \in Nat /\ i <= Len(b) /\ j > 0
  BY <1>2, <1>3, <1>4, <1>5
<1> QED
  BY <1>4, <1>6

LEMMA EventKept ==
  ASSUME QueuesTidy, NEW e \in Trail!Events, Kept(e), NEW s \in Trail!Mounts, NEW b, NEW a,
         NEW p,
         Turned(s, b, a, p), HistoryGrows, EventTurns(e, s, b, a, p)
  PROVE  Kept(e)'
<1>1. e \in Nat
  BY DEF Trail!Events
<1>2. \A t \in Trail!Mounts : t # s => (TrailWaits(e, t)' <=> TrailWaits(e, t))
  BY DEF Turned, TrailWaits
<1>3. TrailWaits(e, s)' <=> In(e, b) \/ In(e, p)
  BY DEF Turned, TrailWaits
<1>4. \A t \in Trail!Mounts : TrailWaits(e, t) => e <= recorded
  BY QueueEnds DEF QueuesTidy, TrailWaits, HistoryGrows
<1>5. InOnePlace(e)'
  <2>1. \A t \in Trail!Mounts : t # s /\ TrailWaits(e, t)' => ~TrailWaits(e, s)'
    BY <1>1, <1>2, <1>3, <1>4 DEF EventTurns, Kept, InOnePlace, HistoryGrows
  <2>2. \A t, u \in Trail!Mounts : t # s /\ u # s /\ TrailWaits(e, t)' /\ TrailWaits(e, u)' => t = u
    BY <1>2 DEF Kept, InOnePlace
  <2>3. \A t, u \in Trail!Mounts : TrailWaits(e, t)' /\ TrailWaits(e, u)' => t = u
    BY <2>1, <2>2
  <2> QED
    BY <2>3 DEF InOnePlace, Trail!Mounts
<1>6. StoredOnce(e)'
  <2> SUFFICES ASSUME stored'[e] > 0
               PROVE  /\ e <= recorded'
                      /\ e \notin unsure' =>
                           /\ stored'[e] = 1
                           /\ \A t \in Trail!Mounts : ~In(e, pending'[t])
                                /\ (In(e, flight'[t].batch) => flight'[t].answer = "ok")
    BY DEF StoredOnce, Trail!Mounts
  <2>1. e <= recorded'
    <3>1. CASE stored'[e] = stored[e]
      BY <1>1, <3>1 DEF Kept, StoredOnce, HistoryGrows
    <3>2. CASE In(e, flight[s].batch)
      BY <1>1, <1>4, <3>2 DEF TrailWaits, HistoryGrows
    <3> QED
      BY <3>1, <3>2 DEF EventTurns
  <2>2. ASSUME e \notin unsure', NEW t \in Trail!Mounts, t # s
        PROVE  ~In(e, pending'[t]) /\ (In(e, flight'[t].batch) => flight'[t].answer = "ok")
    <3>1. CASE stored'[e] = stored[e]
      BY <2>2, <3>1 DEF Turned, Kept, StoredOnce, HistoryGrows
    <3>2. CASE In(e, flight[s].batch)
      BY <2>2, <3>2 DEF Turned, Kept, InOnePlace, TrailWaits
    <3> QED
      BY <3>1, <3>2 DEF EventTurns
  <2>3. ASSUME e \notin unsure'
        PROVE  /\ stored'[e] = 1 /\ ~In(e, pending'[s])
               /\ In(e, flight'[s].batch) => flight'[s].answer = "ok"
    BY <2>3 DEF Turned, EventTurns
  <2> QED
    BY <2>1, <2>2, <2>3
<1>7. OkIsStored(e)'
  <2>1. ASSUME NEW t \in Trail!Mounts, In(e, flight'[t].batch), flight'[t].answer = "ok"
        PROVE  stored'[e] > 0
    <3>1. CASE t = s
      BY <2>1, <3>1 DEF Turned, EventTurns
    <3>2. CASE t # s
      <4>1. stored[e] > 0
        BY <2>1, <3>2 DEF Turned, Kept, OkIsStored
      <4> QED
        BY <4>1 DEF EventTurns
    <3> QED
      BY <3>1, <3>2
  <2> QED
    BY <2>1 DEF OkIsStored, Trail!Mounts
<1>8. IsSomewhere(e)'
  <2> SUFFICES ASSUME e <= recorded'
               PROVE  \/ stored'[e] > 0 \/ e \in dropped' \cup parted'
                      \/ \E t \in Trail!Mounts : TrailWaits(e, t)'
    BY DEF IsSomewhere, Trail!Mounts
  <2>1. CASE e > recorded
    BY <1>3, <2>1 DEF EventTurns
  <2>2. CASE e <= recorded
    <3>1. CASE stored[e] > 0
      BY <3>1 DEF EventTurns
    <3>2. CASE e \in dropped \cup parted
      BY <3>2 DEF HistoryGrows
    <3>3. CASE \E t \in Trail!Mounts : TrailWaits(e, t)
      BY <1>2, <1>3, <3>3 DEF EventTurns
    <3> QED
      BY <2>2, <3>1, <3>2, <3>3 DEF Kept, IsSomewhere
  <2> QED
    BY <1>1, <2>1, <2>2 DEF HistoryGrows
<1>9. IsOld(e)'
  BY DEF IsOld, EventTurns
<1> QED
  BY <1>5, <1>6, <1>7, <1>8, <1>9 DEF Kept

LEMMA QueuesKept ==
  ASSUME QueuesTidy, NEW s \in Trail!Mounts, NEW b, NEW a, NEW p,
         Turned(s, b, a, p), Queued(b, p, recorded'),
         recorded \in Nat, recorded' \in {recorded, recorded + 1}
  PROVE  QueuesTidy'
<1>1. ASSUME NEW t \in Trail!Mounts PROVE Queued(flight'[t].batch, pending'[t], recorded')
  <2>1. CASE t = s
    BY <2>1 DEF Turned
  <2>2. CASE t # s
    <3>1. Queued(flight[t].batch, pending[t], recorded)
      BY DEF QueuesTidy
    <3>2. Queued(flight[t].batch, pending[t], recorded + 1)
      BY <3>1, LaterQueued
    <3>3. flight'[t].batch = flight[t].batch /\ pending'[t] = pending[t]
      BY <2>2 DEF Turned
    <3> QED
      BY <3>1, <3>2, <3>3
  <2> QED
    BY <2>1, <2>2
<1> QED
  BY <1>1 DEF QueuesTidy, Trail!Mounts

TrailAnswers == {"none", "ok", "refused", "lost"}

LEMMA TrailTypes ==
  ASSUME Trail!TypeOK
  PROVE  /\ recorded \in Nat /\ recorded \in 0 .. MaxEvents /\ mounted \in Trail!Mounts
         /\ shown \in BOOLEAN
         /\ \A s \in Trail!Mounts : /\ pending[s] \in Seq(Trail!Events)
                                    /\ flight[s].batch \in Seq(Trail!Events)
                                    /\ flight[s].answer \in TrailAnswers
         /\ \A e \in Trail!Events : stored[e] \in 0 .. Trail!Many
         /\ \A e \in dropped \cup parted \cup unsure : e \in Trail!Events
  BY TrailBounds DEF Trail!TypeOK, TrailAnswers

LEMMA TypesKept ==
  ASSUME Trail!TypeOK, recorded' \in 0 .. MaxEvents, mounted' \in Trail!Mounts,
         shown' \in BOOLEAN,
         pending' \in [Trail!Mounts -> Seq(Trail!Events)],
         flight' \in [Trail!Mounts -> [batch : Seq(Trail!Events), answer : TrailAnswers]],
         stored' \in [Trail!Events -> 0 .. Trail!Many],
         dropped' \cup parted' \cup unsure' \subseteq Trail!Events
  PROVE  Trail!TypeOK'
  BY DEF Trail!TypeOK, TrailAnswers, Trail!Mounts, Trail!Events, Trail!Many

(* Every step of a surface: its types, its queues, every event, and that a     *)
(* surface that is gone keeps nothing.                                       *)
LEMMA TurnKeeps ==
  ASSUME TrailInv, Trail!TypeOK', NEW s \in Trail!Mounts, NEW b, NEW a, NEW p,
         Turned(s, b, a, p), Queued(b, p, recorded'), recorded' \in {recorded, recorded + 1},
         unsure \subseteq unsure', dropped \cup parted \subseteq dropped' \cup parted',
         \A e \in Trail!Events : EventTurns(e, s, b, a, p),
         mounted' = mounted, shown' => shown, ~Trail!Here(s)' => p = <<>>,
         ~shown' => s = mounted \/ ~shown
  PROVE  TrailInv'
<1>1. recorded \in Nat /\ recorded' \in Nat /\ recorded <= recorded'
  BY TrailTypes DEF TrailInv
<1>2. QueuesTidy'
  BY <1>1, QueuesKept DEF TrailInv
<1>3. \A e \in Trail!Events : Kept(e)'
  BY <1>1, EventKept DEF TrailInv, HistoryGrows
<1>4. ASSUME NEW t \in Trail!Mounts, ~Trail!Here(t)' PROVE pending'[t] = <<>>
  <2>1. CASE t = s
    BY <1>4, <2>1 DEF Turned
  <2>2. CASE t # s
    <3>1. ~Trail!Here(t)
      BY <1>4, <2>2 DEF Trail!Here
    <3> QED
      BY <2>2, <3>1 DEF Turned, TrailInv, NothingWaitsBehind
  <2> QED
    BY <2>1, <2>2
<1>5. NothingWaitsBehind'
  BY <1>4 DEF NothingWaitsBehind, Trail!Mounts
<1> QED
  BY <1>2, <1>3, <1>5 DEF TrailInv, Trail!Events

(* A step that neither mounts a surface nor takes one away.                   *)
LEMMA StayKeeps ==
  ASSUME TrailInv, Trail!TypeOK', NEW s \in Trail!Mounts, NEW b, NEW a, NEW p,
         Turned(s, b, a, p), Queued(b, p, recorded), recorded' = recorded,
         unsure \subseteq unsure', dropped \cup parted \subseteq dropped' \cup parted',
         \A e \in Trail!Events : EventTurns(e, s, b, a, p),
         mounted' = mounted, shown' = shown, ~Trail!Here(s)' => p = <<>>
  PROVE  TrailInv'
<1>1. recorded' \in {recorded, recorded + 1} /\ (shown' => shown) /\ (~shown' => ~shown)
  BY DEF TrailInv
<1>2. Queued(b, p, recorded')
  OBVIOUS
<1> QED
  BY <1>1, <1>2, TurnKeeps

LEMMA RecordActionKeeps ==
  ASSUME TrailInv, Trail!RecordAction
  PROVE  TrailInv'
<1> DEFINE b == flight[mounted].batch
           a == flight[mounted].answer
           q == pending[mounted]
           longer == Append(q, recorded + 1)
           k == Trail!Bounded(longer)
<1>1. /\ recorded \in Nat /\ mounted \in Trail!Mounts /\ a \in TrailAnswers
      /\ recorded + 1 \in Trail!Events
      /\ b \in Seq(Trail!Events) /\ q \in Seq(Trail!Events) /\ recorded + 1 \in 0 .. MaxEvents
  BY TrailTypes, TrailBounds DEF TrailInv, Trail!RecordAction, Trail!Events
<1>2. Queued(b, q, recorded)
  BY <1>1 DEF TrailInv, QueuesTidy
<1>3. /\ Queued(b, k, recorded + 1) /\ longer \in Seq(Trail!Events)
      /\ \A e : In(e, k) => In(e, longer)
      /\ \A e \in Trail!Events : In(e, longer) /\ ~In(e, k) => e + MaxPending <= recorded + 1
  BY <1>1, <1>2, RecordQueued
<1>4. /\ shown /\ pending' = [pending EXCEPT ![mounted] = k]
      /\ dropped' = dropped \cup (Trail!Range(longer) \ Trail!Range(k))
      /\ recorded' = recorded + 1
      /\ mounted' = mounted /\ shown' = shown /\ flight' = flight /\ stored' = stored
      /\ parted' = parted /\ unsure' = unsure
  BY DEF Trail!RecordAction
<1>5. \A e : In(e, longer) <=> In(e, q) \/ e = recorded + 1
  BY <1>1, TrailAppendIs
<1>6. k \in Seq(Trail!Events)
  BY <1>3 DEF Queued
<1>7. \A e : e \in Trail!Range(longer) \ Trail!Range(k) <=> In(e, longer) /\ ~In(e, k)
  BY <1>3, <1>6, RangeIs
<1> HIDE DEF k, longer
<1>8. \A e : In(e, longer) => e \in Trail!Events
  BY <1>1, <1>5, QueueTypes DEF In
<1>9. Trail!TypeOK'
  <2>1. pending' \in [Trail!Mounts -> Seq(Trail!Events)]
    BY <1>4, <1>6 DEF TrailInv, Trail!TypeOK
  <2>2. dropped' \cup parted' \cup unsure' \subseteq Trail!Events
    BY <1>4, <1>7, <1>8 DEF TrailInv, Trail!TypeOK
  <2> QED
    BY <1>1, <1>4, <2>1, <2>2, TypesKept DEF TrailInv, Trail!TypeOK, TrailAnswers
<1>10. Turned(mounted, b, a, k)
  BY <1>1, <1>4 DEF Turned, TrailInv, Trail!TypeOK
<1>11. ASSUME NEW e \in Trail!Events PROVE EventTurns(e, mounted, b, a, k)
  <2>1. /\ stored'[e] \in 0 .. Trail!Many /\ stored'[e] = stored[e]
        /\ stored[e] \in 0 .. Trail!Many /\ e \in Nat
    BY <1>4, TrailTypes DEF TrailInv, Trail!Events
  <2>2. /\ TrailWaits(e, mounted) <=> In(e, b) \/ In(e, q)
        /\ In(e, b) \/ In(e, k) => TrailWaits(e, mounted) \/ e > recorded
    BY <1>1, <1>3, <1>5 DEF TrailWaits
  <2>3. TrailWaits(e, mounted) => In(e, b) \/ In(e, k) \/ e \in dropped' \cup parted'
    BY <1>4, <1>5, <1>7, <2>2
  <2>4. e > recorded /\ e <= recorded' => In(e, b) \/ In(e, k)
    <3> SUFFICES ASSUME e > recorded, e <= recorded + 1, ~In(e, k) PROVE FALSE
      BY <1>4
    <3>1. e = recorded + 1
      BY <1>1, <2>1
    <3>2. e + MaxPending <= recorded + 1
      BY <1>3, <1>5, <3>1
    <3> QED
      BY <1>1, <3>1, <3>2, TrailBounds
  <2>5. stored'[e] > 0 /\ e \notin unsure' =>
          stored'[e] = 1 /\ ~In(e, k) /\ (In(e, b) => a = "ok")
    <3> SUFFICES ASSUME stored[e] > 0, e \notin unsure
                 PROVE  stored[e] = 1 /\ ~In(e, k) /\ (In(e, b) => a = "ok")
      BY <1>4
    <3>1. /\ stored[e] = 1 /\ e <= recorded /\ ~In(e, q) /\ (In(e, b) => a = "ok")
      BY <1>1 DEF TrailInv, Kept, StoredOnce
    <3> QED
      BY <1>1, <1>3, <1>5, <2>1, <3>1
  <2>6. In(e, b) /\ a = "ok" => stored'[e] > 0
    BY <1>1, <2>1 DEF TrailInv, Kept, OkIsStored
  <2>7. e \in dropped' => e + MaxPending <= recorded'
    <3>1. e \in dropped => e + MaxPending <= recorded
      BY DEF TrailInv, Kept, IsOld
    <3> QED
      BY <1>1, <1>3, <1>4, <1>7, <2>1, <3>1, TrailBounds
  <2> QED
    BY <2>1, <2>2, <2>3, <2>4, <2>5, <2>6, <2>7 DEF EventTurns
<1>12. Trail!Here(mounted)'
  BY <1>4 DEF Trail!Here
<1> HIDE DEF a, b
<1> QED
  BY <1>1, <1>3, <1>4, <1>9, <1>10, <1>11, <1>12, TurnKeeps

(* What leaves a queue for its batch, and what is left.                       *)
LEMMA FlushCuts ==
  ASSUME TrailInv, NEW s \in Trail!Mounts, Trail!MayFlush(s)
  PROVE  LET b == Trail!Batch(s)
             r == Trail!Rest(pending[s], Len(b))
         IN  /\ pending[s] \in Seq(Trail!Events) /\ b \in Seq(Trail!Events) /\ r \in Seq(Trail!Events)
             /\ Queued(b, r, recorded) /\ Queued(b, <<>>, recorded)
             /\ \A e : In(e, pending[s]) <=> In(e, b) \/ In(e, r)
             /\ \A e : In(e, pending[s]) <=> In(e, b) \/ In(e, Trail!Rest(pending[s], FlushMax))
             /\ Trail!Rest(pending[s], FlushMax) \in Seq(Trail!Events)
             /\ \A e : ~In(e, flight[s].batch)
             /\ \A e : ~(In(e, b) /\ In(e, r))
<1> DEFINE q == pending[s]
           b == Trail!Batch(s)
           n == Len(b)
           r == Trail!Rest(q, n)
<1>1. q \in Seq(Trail!Events) /\ recorded \in Nat /\ flight[s].batch = <<>>
  BY TrailTypes DEF TrailInv, Trail!MayFlush, Trail!Flushing
<1>2. Queued(<<>>, q, recorded)
  BY <1>1 DEF TrailInv, QueuesTidy
<1>3. Len(q) \in Nat
  BY <1>1, LenProperties
<1>4. n = IF Len(q) < FlushMax THEN Len(q) ELSE FlushMax
  BY <1>1, FirstIs, TrailBounds DEF Trail!Batch
<1>5. n \in Nat /\ n <= FlushMax /\ (Len(q) <= n \/ n = FlushMax)
  BY <1>3, <1>4, TrailBounds
<1>6. b = SubSeq(q, 1, n)
  BY <1>3, <1>4 DEF Trail!Batch, Trail!First
<1>7. Trail!First(q, n) = SubSeq(q, 1, IF Len(q) < n THEN Len(q) ELSE n)
  BY DEF Trail!First
<1>8. (IF Len(q) < n THEN Len(q) ELSE n) = n
  BY <1>3, <1>4, TrailBounds
<1>9. Trail!First(q, n) = b
  BY <1>6, <1>7, <1>8
<1>10. b = Trail!First(q, FlushMax)
  BY DEF Trail!Batch
<1> HIDE DEF n, q
<1>11. Queued(Trail!First(q, n), Trail!Rest(q, n), recorded)
  BY <1>1, <1>2, <1>5, FlushQueued
<1>12. Queued(b, r, recorded)
  BY <1>9, <1>11
<1>13. Queued(b, <<>>, recorded)
  BY <1>1, <1>12, TrailCleared
<1>14. \A e : In(e, q) <=> In(e, b) \/ In(e, r)
  BY <1>1, <1>5, <1>9, CutInTwo
<1>15. \A e : In(e, q) <=> In(e, b) \/ In(e, Trail!Rest(q, FlushMax))
  BY <1>1, <1>10, TrailBounds, CutInTwo
<1>16. Trail!Rest(q, FlushMax) \in Seq(Trail!Events)
  BY <1>1, TrailBounds, RestIs
<1>17. b \in Seq(Trail!Events) /\ r \in Seq(Trail!Events)
  BY <1>12 DEF Queued
<1>18. \A e : ~In(e, flight[s].batch)
  BY <1>1, EmptyIs
<1>19. \A e : ~(In(e, b) /\ In(e, r))
  BY <1>1, <1>12, NotInBoth
<1> QED
  BY <1>1, <1>12, <1>13, <1>14, <1>15, <1>16, <1>17, <1>18, <1>19 DEF q, n

LEMMA FlightTypes ==
  ASSUME Trail!TypeOK, NEW s \in Trail!Mounts, NEW b \in Seq(Trail!Events),
         NEW a \in TrailAnswers
  PROVE  /\ [flight EXCEPT ![s] = [batch |-> b, answer |-> a]]
              \in [Trail!Mounts -> [batch : Seq(Trail!Events), answer : TrailAnswers]]
         /\ [flight EXCEPT ![s].answer = a]
              \in [Trail!Mounts -> [batch : Seq(Trail!Events), answer : TrailAnswers]]
  BY DEF Trail!TypeOK, TrailAnswers

(* A flush, by the timer or by the last of a surface.                        *)
LEMMA SendTurns ==
  ASSUME TrailInv, NEW s \in Trail!Mounts, Trail!MayFlush(s), NEW p,
         \A e : In(e, p) => In(e, Trail!Rest(pending[s], Len(Trail!Batch(s)))),
         \A e : In(e, pending[s]) => In(e, Trail!Batch(s)) \/ In(e, p) \/ e \in parted',
         stored' = stored, unsure' = unsure, dropped' = dropped, recorded' = recorded
  PROVE  \A e \in Trail!Events : EventTurns(e, s, Trail!Batch(s), "none", p)
<1> DEFINE b == Trail!Batch(s)
           r == Trail!Rest(pending[s], Len(b))
<1>1. /\ \A e : In(e, pending[s]) <=> In(e, b) \/ In(e, r)
      /\ \A e : ~In(e, flight[s].batch) /\ ~(In(e, b) /\ In(e, r))
  BY FlushCuts
<1> HIDE DEF b, r
<1>2. SUFFICES ASSUME NEW e \in Trail!Events PROVE EventTurns(e, s, b, "none", p)
  BY DEF b
<1>3. stored[e] \in 0 .. Trail!Many /\ stored'[e] = stored[e] /\ e \in Nat /\ recorded \in Nat
  BY TrailTypes DEF TrailInv, Trail!Events
<1>4. stored[e] > 0 /\ e \notin unsure => stored[e] = 1 /\ ~In(e, pending[s])
  BY DEF TrailInv, Kept, StoredOnce
<1>5. e \in dropped => e + MaxPending <= recorded
  BY DEF TrailInv, Kept, IsOld
<1>6. TrailWaits(e, s) <=> In(e, pending[s])
  BY <1>1 DEF TrailWaits
<1>7. /\ In(e, p) => In(e, r)
      /\ In(e, pending[s]) => In(e, b) \/ In(e, p) \/ e \in parted'
  BY DEF b, r
<1> QED
  BY <1>1, <1>3, <1>4, <1>5, <1>6, <1>7 DEF EventTurns, Trail!Many

LEMMA FlushNowKeeps ==
  ASSUME TrailInv, Trail!FlushNow
  PROVE  TrailInv'
<1> DEFINE b == Trail!Batch(mounted)
           r == Trail!Rest(pending[mounted], Len(b))
<1>1. /\ shown /\ Trail!MayFlush(mounted) /\ mounted' = mounted /\ shown' = shown
      /\ flight' = [flight EXCEPT ![mounted] = [batch |-> b, answer |-> "none"]]
      /\ pending' = [pending EXCEPT ![mounted] = r]
      /\ recorded' = recorded /\ stored' = stored /\ dropped' = dropped
      /\ parted' = parted /\ unsure' = unsure
  BY DEF Trail!FlushNow, Trail!Sends
<1>2. mounted \in Trail!Mounts /\ recorded \in 0 .. MaxEvents /\ "none" \in TrailAnswers
  BY TrailTypes DEF TrailInv, TrailAnswers
<1>3. /\ b \in Seq(Trail!Events) /\ r \in Seq(Trail!Events) /\ Queued(b, r, recorded)
      /\ \A e : In(e, pending[mounted]) => In(e, b) \/ In(e, r)
  BY <1>1, <1>2, FlushCuts
<1>4. \A e \in Trail!Events : EventTurns(e, mounted, b, "none", r)
  BY <1>1, <1>2, <1>3, SendTurns
<1> HIDE DEF b, r
<1>5. Trail!TypeOK'
  <2>1. pending' \in [Trail!Mounts -> Seq(Trail!Events)]
    BY <1>1, <1>3 DEF TrailInv, Trail!TypeOK
  <2> QED
    BY <1>1, <1>2, <1>3, <2>1, FlightTypes, TypesKept DEF TrailInv, Trail!TypeOK
<1>6. Turned(mounted, b, "none", r)
  BY <1>1, <1>2 DEF Turned, TrailInv, Trail!TypeOK
<1>7. Trail!Here(mounted)'
  BY <1>1 DEF Trail!Here
<1> QED
  BY <1>1, <1>2, <1>3, <1>4, <1>5, <1>6, <1>7, TurnKeeps

(* A surface that goes without a flush leaves what is pending.                *)
LEMMA GoneKeeps ==
  ASSUME TrailInv, shown, ~shown', shown' \in BOOLEAN, mounted' = mounted,
         pending' = [pending EXCEPT ![mounted] = <<>>], flight' = flight,
         parted' = parted \cup Trail!Range(pending[mounted]), recorded' = recorded,
         stored' = stored, dropped' = dropped, unsure' = unsure
  PROVE  TrailInv'
<1> DEFINE b == flight[mounted].batch
           a == flight[mounted].answer
           q == pending[mounted]
<1>1. /\ mounted \in Trail!Mounts /\ recorded \in 0 .. MaxEvents /\ recorded \in Nat
      /\ a \in TrailAnswers /\ b \in Seq(Trail!Events) /\ q \in Seq(Trail!Events)
  BY TrailTypes DEF TrailInv
<1>2. <<>> \in Seq(Trail!Events) /\ \A e : ~In(e, <<>>)
  BY EmptyIs
<1>3. \A e : e \in Trail!Range(q) <=> In(e, q)
  BY <1>1, RangeIs
<1>4. Queued(b, <<>>, recorded)
  <2>1. Queued(b, q, recorded)
    BY <1>1 DEF TrailInv, QueuesTidy
  <2> QED
    BY <1>1, <2>1, TrailCleared
<1>5. Trail!TypeOK'
  <2>1. pending' \in [Trail!Mounts -> Seq(Trail!Events)]
    BY <1>2 DEF TrailInv, Trail!TypeOK
  <2>2. dropped' \cup parted' \cup unsure' \subseteq Trail!Events
    BY <1>1, <1>3, InEvents DEF TrailInv, Trail!TypeOK
  <2> QED
    BY <1>1, <2>1, <2>2, TypesKept DEF TrailInv, Trail!TypeOK, TrailAnswers
<1>6. Turned(mounted, b, a, <<>>)
  BY <1>1 DEF Turned, TrailInv, Trail!TypeOK
<1>7. ASSUME NEW e \in Trail!Events PROVE EventTurns(e, mounted, b, a, <<>>)
  <2>1. stored[e] \in 0 .. Trail!Many /\ stored'[e] = stored[e] /\ e \in Nat
    BY TrailTypes DEF TrailInv, Trail!Events
  <2>2. stored[e] > 0 /\ e \notin unsure => stored[e] = 1 /\ (In(e, b) => a = "ok")
    BY <1>1 DEF TrailInv, Kept, StoredOnce
  <2>3. e \in dropped => e + MaxPending <= recorded
    BY DEF TrailInv, Kept, IsOld
  <2>4. TrailWaits(e, mounted) <=> In(e, b) \/ e \in Trail!Range(q)
    BY <1>3 DEF TrailWaits
  <2>5. In(e, b) /\ a = "ok" => stored[e] > 0
    BY <1>1 DEF TrailInv, Kept, OkIsStored
  <2>6. stored[e] <= stored'[e] /\ ~(e > recorded /\ e <= recorded)
    BY <1>1, <2>1 DEF Trail!Many
  <2> HIDE DEF a, b, q
  <2>7. /\ In(e, b) \/ In(e, <<>>) => TrailWaits(e, mounted)
        /\ TrailWaits(e, mounted) => In(e, b) \/ e \in parted'
    BY <1>2, <2>4 DEF q
  <2> QED
    BY <1>2, <2>1, <2>2, <2>3, <2>5, <2>6, <2>7 DEF EventTurns
<1> HIDE DEF a, b, q
<1> QED
  BY <1>1, <1>4, <1>5, <1>6, <1>7, TurnKeeps

LEMMA CloseKeeps ==
  ASSUME TrailInv, Trail!Close
  PROVE  TrailInv'
  BY GoneKeeps DEF Trail!Close

LEMMA UnmountKeeps ==
  ASSUME TrailInv, Trail!Unmount
  PROVE  TrailInv'
<1>1. /\ shown /\ ~shown' /\ mounted' = mounted /\ shown' \in BOOLEAN
      /\ pending' = [pending EXCEPT ![mounted] = <<>>]
      /\ recorded' = recorded /\ stored' = stored /\ dropped' = dropped
      /\ unsure' = unsure
  BY DEF Trail!Unmount
<1>2. mounted \in Trail!Mounts /\ recorded \in 0 .. MaxEvents /\ "none" \in TrailAnswers
      /\ recorded \in Nat
  BY TrailTypes DEF TrailInv, TrailAnswers
<1>3. <<>> \in Seq(Trail!Events) /\ \A e : ~In(e, <<>>)
  BY EmptyIs
<1>4. pending' \in [Trail!Mounts -> Seq(Trail!Events)]
  BY <1>1, <1>3 DEF TrailInv, Trail!TypeOK
<1>5. CASE Trail!MayFlush(mounted) /\ Trail!Sends(mounted)
           /\ parted' = parted \cup Trail!Range(Trail!Rest(pending[mounted], FlushMax))
  <2> DEFINE b == Trail!Batch(mounted)
             rest == Trail!Rest(pending[mounted], FlushMax)
  <2>1. /\ flight' = [flight EXCEPT ![mounted] = [batch |-> b, answer |-> "none"]]
        /\ parted' = parted \cup Trail!Range(rest)
    BY <1>5 DEF Trail!Sends
  <2>2. /\ b \in Seq(Trail!Events) /\ rest \in Seq(Trail!Events) /\ Queued(b, <<>>, recorded)
        /\ pending[mounted] \in Seq(Trail!Events)
        /\ \A e : In(e, pending[mounted]) <=> In(e, b) \/ In(e, rest)
    BY <1>2, <1>5, FlushCuts
  <2>3. \A e : e \in Trail!Range(rest) <=> In(e, rest)
    BY <2>2, RangeIs
  <2>4. \A e \in Trail!Events : EventTurns(e, mounted, b, "none", <<>>)
    BY <1>1, <1>2, <1>3, <1>5, <2>1, <2>2, <2>3, SendTurns
  <2> HIDE DEF b, rest
  <2>5. Trail!TypeOK'
    <3>1. parted' \subseteq Trail!Events
      BY <2>1, <2>2, <2>3, InEvents DEF TrailInv, Trail!TypeOK
    <3>2. dropped' \cup parted' \cup unsure' \subseteq Trail!Events
      BY <1>1, <3>1 DEF TrailInv, Trail!TypeOK
    <3>3. flight' \in [Trail!Mounts -> [batch : Seq(Trail!Events), answer : TrailAnswers]]
      BY <1>2, <2>1, <2>2, FlightTypes DEF TrailInv
    <3> QED
      BY <1>1, <1>2, <1>4, <3>2, <3>3, TypesKept DEF TrailInv, Trail!TypeOK
  <2>6. Turned(mounted, b, "none", <<>>)
    BY <1>1, <1>2, <2>1 DEF Turned, TrailInv, Trail!TypeOK
  <2> QED
    BY <1>1, <1>2, <2>1, <2>2, <2>4, <2>5, <2>6, TurnKeeps
<1>6. CASE parted' = parted \cup Trail!Range(pending[mounted]) /\ flight' = flight
  BY <1>1, <1>2, <1>6, GoneKeeps
<1> QED
  BY <1>5, <1>6 DEF Trail!Unmount

LEMMA MountKeeps ==
  ASSUME TrailInv, Trail!Mount
  PROVE  TrailInv'
<1>1. /\ ~shown /\ shown' = TRUE /\ mounted' = mounted + 1 /\ mounted < MaxMounts
      /\ recorded' = recorded /\ pending' = pending /\ flight' = flight
      /\ stored' = stored /\ dropped' = dropped /\ parted' = parted /\ unsure' = unsure
  BY DEF Trail!Mount
<1>2. MaxMounts \in Nat \ {0}
  BY PartsAssumption DEF Trail!TrailAssumption
<1>3. mounted' \in Trail!Mounts
  BY <1>1, <1>2, TrailTypes DEF TrailInv, Trail!Mounts
<1>4. Trail!TypeOK'
  BY <1>1, <1>3 DEF TrailInv, Trail!TypeOK, Trail!Mounts, Trail!Events, Trail!Many
<1>5. QueuesTidy'
  BY <1>1
  DEF TrailInv, QueuesTidy, Queued, Spaced, Before, Below, Trail!Mounts, Trail!Events
<1>6. ASSUME NEW s \in Trail!Mounts PROVE pending'[s] = <<>>
  BY <1>1 DEF TrailInv, NothingWaitsBehind, Trail!Here
<1>7. NothingWaitsBehind'
  BY <1>6 DEF NothingWaitsBehind, Trail!Mounts
<1>8. ASSUME NEW e \in Trail!Events PROVE Kept(e)'
  <2>1. Kept(e)
    BY DEF TrailInv
  <2> QED
    BY <1>1, <2>1 DEF Kept, InOnePlace, StoredOnce, OkIsStored, IsSomewhere, IsOld,
       TrailWaits, Trail!Mounts
<1> QED
  BY <1>4, <1>5, <1>7, <1>8 DEF TrailInv, Trail!Events

(* A batch under way: what is known of it and of the surface.                 *)
LEMMA FlightIs ==
  ASSUME TrailInv, NEW s \in Trail!Mounts, Trail!Flushing(s)
  PROVE  LET b == flight[s].batch
             a == flight[s].answer
         IN  /\ recorded \in Nat /\ recorded \in 0 .. MaxEvents /\ mounted \in Trail!Mounts
             /\ b \in Seq(Trail!Events) /\ b # <<>> /\ a \in TrailAnswers
             /\ pending[s] \in Seq(Trail!Events) /\ Queued(b, pending[s], recorded)
             /\ \A e : e \in Trail!Range(b) <=> In(e, b)
             /\ \A e : In(e, b) => e \in Trail!Events
             /\ \A e : ~(In(e, b) /\ In(e, pending[s]))
             /\ \A e \in Trail!Events :
                  /\ e \in Nat /\ stored[e] \in 0 .. Trail!Many
                  /\ stored[e] > 0 /\ e \notin unsure =>
                       stored[e] = 1 /\ ~In(e, pending[s]) /\ (In(e, b) => a = "ok")
                  /\ In(e, b) /\ a = "ok" => stored[e] > 0
                  /\ e \in dropped => e + MaxPending <= recorded
<1> DEFINE b == flight[s].batch
           a == flight[s].answer
<1>1. /\ recorded \in Nat /\ recorded \in 0 .. MaxEvents /\ mounted \in Trail!Mounts
      /\ b \in Seq(Trail!Events) /\ a \in TrailAnswers /\ pending[s] \in Seq(Trail!Events)
  BY TrailTypes DEF TrailInv
<1>2. b # <<>>
  BY DEF Trail!Flushing
<1>3. Queued(b, pending[s], recorded)
  BY DEF TrailInv, QueuesTidy
<1>4. /\ \A e : e \in Trail!Range(b) <=> In(e, b)
      /\ \A e : In(e, b) => e \in Trail!Events
  BY <1>1, RangeIs, InEvents
<1>5. \A e : ~(In(e, b) /\ In(e, pending[s]))
  BY <1>1, <1>3, NotInBoth
<1>6. ASSUME NEW e \in Trail!Events
      PROVE  /\ e \in Nat /\ stored[e] \in 0 .. Trail!Many
             /\ stored[e] > 0 /\ e \notin unsure =>
                  stored[e] = 1 /\ ~In(e, pending[s]) /\ (In(e, b) => a = "ok")
             /\ In(e, b) /\ a = "ok" => stored[e] > 0
             /\ e \in dropped => e + MaxPending <= recorded
  <2>1. Kept(e) /\ stored[e] \in 0 .. Trail!Many /\ e \in Nat
    BY TrailTypes DEF TrailInv, Trail!Events
  <2> QED
    BY <2>1 DEF Kept, StoredOnce, OkIsStored, IsOld
<1> QED
  BY <1>1, <1>2, <1>3, <1>4, <1>5, <1>6

LEMMA AnsweredKeeps ==
  ASSUME TrailInv, NEW s \in Trail!Mounts, Trail!Answered(s)
  PROVE  TrailInv'
<1> DEFINE b == flight[s].batch
           a == flight[s].answer
           q == pending[s]
<1>1. /\ Trail!Flushing(s) /\ a # "none" /\ flight' = [flight EXCEPT ![s] = Trail!Idle]
      /\ recorded' = recorded /\ mounted' = mounted /\ shown' = shown
      /\ stored' = stored /\ dropped' = dropped /\ unsure' = unsure
      /\ \/ a = "ok" /\ pending' = pending /\ parted' = parted
         \/ a # "ok" /\ Trail!Here(s) /\ parted' = parted /\ pending' = [pending EXCEPT ![s] = b \o q]
         \/ a # "ok" /\ ~Trail!Here(s) /\ pending' = pending /\ parted' = parted \cup Trail!Range(b)
  BY DEF Trail!Answered, Trail!Requeued
<1>2. /\ recorded \in Nat /\ recorded \in 0 .. MaxEvents /\ mounted \in Trail!Mounts
      /\ b \in Seq(Trail!Events) /\ b # <<>> /\ a \in TrailAnswers
      /\ q \in Seq(Trail!Events) /\ Queued(b, q, recorded)
      /\ \A e : e \in Trail!Range(b) <=> In(e, b)
      /\ \A e : In(e, b) => e \in Trail!Events
  BY <1>1, FlightIs
<1>3. ASSUME NEW e \in Trail!Events
      PROVE  /\ e \in Nat /\ stored[e] \in 0 .. Trail!Many
             /\ stored[e] > 0 /\ e \notin unsure =>
                  stored[e] = 1 /\ ~In(e, q) /\ (In(e, b) => a = "ok")
             /\ In(e, b) /\ a = "ok" => stored[e] > 0
             /\ e \in dropped => e + MaxPending <= recorded
             /\ TrailWaits(e, s) <=> In(e, b) \/ In(e, q)
             /\ stored[e] <= stored'[e] /\ ~(e > recorded /\ e <= recorded)
  BY <1>1, <1>2, FlightIs DEF TrailWaits, Trail!Many
<1>4. <<>> \in Seq(Trail!Events) /\ (\A e : ~In(e, <<>>)) /\ "none" \in TrailAnswers
  BY EmptyIs DEF TrailAnswers
<1>5. /\ flight' = [flight EXCEPT ![s] = [batch |-> <<>>, answer |-> "none"]]
      /\ flight' \in [Trail!Mounts -> [batch : Seq(Trail!Events), answer : TrailAnswers]]
  BY <1>1, <1>4, FlightTypes DEF Trail!Idle, TrailInv
<1>6. shown' => shown
  BY <1>1
<1>7. Trail!Here(s)' <=> Trail!Here(s)
  BY <1>1 DEF Trail!Here
<1>8. CASE a = "ok" /\ pending' = pending /\ parted' = parted
  <2>1. Trail!TypeOK'
    BY <1>1, <1>2, <1>5, <1>8, TypesKept DEF TrailInv, Trail!TypeOK
  <2>2. Turned(s, <<>>, "none", q)
    BY <1>5, <1>8 DEF Turned, TrailInv, Trail!TypeOK
  <2>3. Queued(<<>>, q, recorded)
    BY <1>2, TrailCleared
  <2>4. ~Trail!Here(s) => q = <<>>
    BY DEF TrailInv, NothingWaitsBehind
  <2> HIDE DEF a, b, q
  <2>5. \A e \in Trail!Events : EventTurns(e, s, <<>>, "none", q)
    BY <1>1, <1>3, <1>4, <1>8 DEF EventTurns
  <2> QED
    BY <1>1, <1>2, <1>7, <1>8, <2>1, <2>2, <2>3, <2>4, <2>5, StayKeeps
<1>9. CASE a # "ok" /\ Trail!Here(s) /\ parted' = parted /\ pending' = [pending EXCEPT ![s] = b \o q]
  <2>1. /\ b \o q \in Seq(Trail!Events)
        /\ \A e : In(e, b \o q) <=> In(e, b) \/ In(e, q)
    BY <1>2, JoinIs
  <2>2. Trail!TypeOK'
    <3>1. pending' \in [Trail!Mounts -> Seq(Trail!Events)]
      BY <1>9, <2>1 DEF TrailInv, Trail!TypeOK
    <3> QED
      BY <1>1, <1>2, <1>5, <1>9, <3>1, TypesKept DEF TrailInv, Trail!TypeOK
  <2>3. Turned(s, <<>>, "none", b \o q)
    BY <1>5, <1>9 DEF Turned, TrailInv, Trail!TypeOK
  <2>4. Queued(<<>>, b \o q, recorded)
    BY <1>2, TakenBack
  <2> DEFINE p == b \o q
  <2> HIDE DEF a, b, q, p
  <2>5. \A e : In(e, p) <=> In(e, b) \/ In(e, q)
    BY <2>1 DEF p
  <2>6. ASSUME NEW e \in Trail!Events PROVE EventTurns(e, s, <<>>, "none", p)
    BY <1>1, <1>3, <1>4, <1>9, <2>5 DEF EventTurns
  <2> QED
    BY <1>1, <1>2, <1>7, <1>9, <2>2, <2>3, <2>4, <2>6, StayKeeps DEF p
<1>10. CASE a # "ok" /\ ~Trail!Here(s) /\ pending' = pending /\ parted' = parted \cup Trail!Range(b)
  <2>1. Trail!TypeOK'
    <3>1. parted' \subseteq Trail!Events
      BY <1>2, <1>10 DEF TrailInv, Trail!TypeOK
    <3>2. dropped' \cup parted' \cup unsure' \subseteq Trail!Events
      BY <1>1, <3>1 DEF TrailInv, Trail!TypeOK
    <3> QED
      BY <1>1, <1>2, <1>5, <1>10, <3>2, TypesKept DEF TrailInv, Trail!TypeOK
  <2>2. Turned(s, <<>>, "none", q)
    BY <1>5, <1>10 DEF Turned, TrailInv, Trail!TypeOK
  <2>3. Queued(<<>>, q, recorded)
    BY <1>2, TrailCleared
  <2>4. ~Trail!Here(s) => q = <<>>
    BY DEF TrailInv, NothingWaitsBehind
  <2> HIDE DEF a, b, q
  <2>5. ASSUME NEW e \in Trail!Events PROVE EventTurns(e, s, <<>>, "none", q)
    BY <1>1, <1>2, <1>3, <1>4, <1>10 DEF EventTurns
  <2> QED
    BY <1>1, <1>2, <1>7, <1>10, <2>1, <2>2, <2>3, <2>4, <2>5, StayKeeps
<1> QED
  BY <1>1, <1>8, <1>9, <1>10

(* The answers of the route and of the connection.                           *)
LEMMA SaysKeeps ==
  ASSUME TrailInv, NEW s \in Trail!Mounts, Trail!Flushing(s), NEW a \in TrailAnswers,
         Trail!Says(s, a),
         pending' = pending, recorded' = recorded, mounted' = mounted, shown' = shown,
         dropped' = dropped, parted' = parted, stored' \in [Trail!Events -> 0 .. Trail!Many],
         unsure \subseteq unsure', unsure' \subseteq Trail!Events,
         \A e \in Trail!Events : EventTurns(e, s, flight[s].batch, a, pending[s])
  PROVE  TrailInv'
<1> DEFINE b == flight[s].batch
           q == pending[s]
<1>1. /\ recorded \in Nat /\ recorded \in 0 .. MaxEvents /\ mounted \in Trail!Mounts
      /\ b \in Seq(Trail!Events) /\ q \in Seq(Trail!Events) /\ Queued(b, q, recorded)
  BY FlightIs
<1>2. /\ flight' = [flight EXCEPT ![s].answer = a]
      /\ flight' \in [Trail!Mounts -> [batch : Seq(Trail!Events), answer : TrailAnswers]]
  BY <1>1, FlightTypes DEF Trail!Says, TrailInv
<1>3. Trail!TypeOK'
  BY <1>1, <1>2, TypesKept DEF TrailInv, Trail!TypeOK
<1>4. Turned(s, b, a, q)
  BY <1>2 DEF Turned, TrailInv, Trail!TypeOK
<1>5. (~Trail!Here(s) => q = <<>>) /\ (Trail!Here(s)' <=> Trail!Here(s))
  BY DEF TrailInv, NothingWaitsBehind, Trail!Here
<1> HIDE DEF b, q
<1> QED
  BY <1>1, <1>3, <1>4, <1>5, StayKeeps DEF b, q

LEMMA RecordEventsKeeps ==
  ASSUME TrailInv, NEW s \in Trail!Mounts, Trail!RecordEvents(s)
  PROVE  TrailInv'
<1> DEFINE b == flight[s].batch
           q == pending[s]
<1>1. /\ Trail!Flushing(s) /\ flight[s].answer = "none" /\ Trail!Says(s, "ok")
      /\ stored' = [e \in Trail!Events |-> IF e \notin Trail!Range(b) \/ stored[e] = Trail!Many
                                     THEN stored[e] ELSE stored[e] + 1]
      /\ recorded' = recorded /\ mounted' = mounted /\ shown' = shown
      /\ pending' = pending /\ dropped' = dropped /\ parted' = parted /\ unsure' = unsure
  BY DEF Trail!RecordEvents, Trail!Insert
<1>2. ASSUME NEW e \in Trail!Events
      PROVE  /\ e \in Nat /\ stored[e] \in 0 .. Trail!Many /\ recorded \in Nat
             /\ stored[e] > 0 /\ e \notin unsure => stored[e] = 1 /\ ~In(e, q) /\ ~In(e, b)
             /\ e \in dropped => e + MaxPending <= recorded
             /\ TrailWaits(e, s) <=> In(e, b) \/ In(e, q)
             /\ e \in Trail!Range(b) <=> In(e, b)
             /\ ~(In(e, b) /\ In(e, q))
  BY <1>1, FlightIs DEF TrailWaits
<1> HIDE DEF b, q
<1>3. ASSUME NEW e \in Trail!Events
      PROVE  /\ stored'[e] \in 0 .. Trail!Many /\ stored[e] <= stored'[e]
             /\ ~In(e, b) => stored'[e] = stored[e]
             /\ In(e, b) => stored'[e] > 0
             /\ In(e, b) /\ e \notin unsure => stored'[e] = 1
  BY <1>1, <1>2 DEF Trail!Many
<1>4. ASSUME NEW e \in Trail!Events PROVE EventTurns(e, s, b, "ok", q)
  <2>1. ~(e > recorded /\ e <= recorded)
    BY <1>2
  <2> QED
    BY <1>1, <1>2, <1>3, <2>1 DEF EventTurns, b
<1>5. stored' \in [Trail!Events -> 0 .. Trail!Many]
  BY <1>1, <1>3
<1>6. unsure' \subseteq Trail!Events /\ "ok" \in TrailAnswers
  BY <1>1 DEF TrailInv, Trail!TypeOK, TrailAnswers
<1> QED
  BY <1>1, <1>4, <1>5, <1>6, SaysKeeps DEF b, q

LEMMA RefuseKeeps ==
  ASSUME TrailInv, NEW s \in Trail!Mounts, Trail!Refuse(s)
  PROVE  TrailInv'
<1> DEFINE b == flight[s].batch
           q == pending[s]
<1>1. /\ Trail!Flushing(s) /\ flight[s].answer = "none" /\ Trail!Says(s, "refused")
      /\ stored' = [e \in Trail!Events |-> IF e \notin Trail!Range(<<>>) \/ stored[e] = Trail!Many
                                     THEN stored[e] ELSE stored[e] + 1]
      /\ recorded' = recorded /\ mounted' = mounted /\ shown' = shown
      /\ pending' = pending /\ dropped' = dropped /\ parted' = parted /\ unsure' = unsure
  BY DEF Trail!Refuse, Trail!Insert, Trail!RolledBack
<1>2. ASSUME NEW e \in Trail!Events
      PROVE  /\ e \in Nat /\ stored[e] \in 0 .. Trail!Many /\ recorded \in Nat
             /\ stored[e] > 0 /\ e \notin unsure => stored[e] = 1 /\ ~In(e, q) /\ ~In(e, b)
             /\ e \in dropped => e + MaxPending <= recorded
             /\ TrailWaits(e, s) <=> In(e, b) \/ In(e, q)
  BY <1>1, FlightIs DEF TrailWaits
<1>3. \A e : e \notin Trail!Range(<<>>)
  BY EmptyIs, RangeIs
<1>4. stored' = stored
  BY <1>1, <1>3 DEF TrailInv, Trail!TypeOK
<1> HIDE DEF b, q
<1>5. ASSUME NEW e \in Trail!Events PROVE EventTurns(e, s, b, "refused", q)
  <2>1. ~(e > recorded /\ e <= recorded) /\ stored[e] <= stored[e]
    BY <1>2 DEF Trail!Many
  <2> QED
    BY <1>1, <1>2, <1>4, <2>1 DEF EventTurns, b
<1>6. /\ unsure' \subseteq Trail!Events /\ "refused" \in TrailAnswers
      /\ stored' \in [Trail!Events -> 0 .. Trail!Many]
  BY <1>1, <1>4 DEF TrailInv, Trail!TypeOK, TrailAnswers
<1> QED
  BY <1>1, <1>5, <1>6, SaysKeeps DEF b, q

LEMMA LoseKeeps ==
  ASSUME TrailInv, NEW s \in Trail!Mounts, Trail!Lose(s)
  PROVE  TrailInv'
<1> DEFINE b == flight[s].batch
           a == flight[s].answer
           q == pending[s]
<1>1. /\ Trail!Flushing(s) /\ Trail!Says(s, "lost") /\ unsure' = unsure \cup Trail!Range(b)
      /\ recorded' = recorded /\ mounted' = mounted /\ shown' = shown /\ stored' = stored
      /\ pending' = pending /\ dropped' = dropped /\ parted' = parted
  BY DEF Trail!Lose
<1>2. ASSUME NEW e \in Trail!Events
      PROVE  /\ e \in Nat /\ stored[e] \in 0 .. Trail!Many /\ recorded \in Nat
             /\ stored[e] > 0 /\ e \notin unsure => stored[e] = 1 /\ ~In(e, q)
             /\ e \in dropped => e + MaxPending <= recorded
             /\ TrailWaits(e, s) <=> In(e, b) \/ In(e, q)
             /\ e \in Trail!Range(b) <=> In(e, b)
  BY <1>1, FlightIs DEF TrailWaits
<1>3. \A e \in Trail!Range(b) : e \in Trail!Events
  BY <1>1, FlightIs
<1> HIDE DEF a, b, q
<1>4. ASSUME NEW e \in Trail!Events PROVE EventTurns(e, s, b, "lost", q)
  <2>1. ~(e > recorded /\ e <= recorded) /\ stored[e] <= stored[e]
    BY <1>2 DEF Trail!Many
  <2>2. e \notin unsure' => e \notin unsure /\ ~In(e, b)
    BY <1>1, <1>2
  <2> QED
    BY <1>1, <1>2, <2>1, <2>2 DEF EventTurns, b
<1>5. /\ unsure' \subseteq Trail!Events /\ "lost" \in TrailAnswers
      /\ stored' \in [Trail!Events -> 0 .. Trail!Many]
  BY <1>1, <1>3 DEF TrailInv, Trail!TypeOK, TrailAnswers
<1> QED
  BY <1>1, <1>4, <1>5, SaysKeeps DEF b, q

LEMMA TrailStarts == Trail!Init => TrailInv
<1> SUFFICES ASSUME Trail!Init PROVE TrailInv
  OBVIOUS
<1>1. /\ recorded = 0 /\ mounted = 1 /\ shown = TRUE
      /\ pending = [s \in Trail!Mounts |-> <<>>]
      /\ flight = [s \in Trail!Mounts |-> Trail!Idle]
      /\ stored = [e \in Trail!Events |-> 0] /\ dropped = {} /\ parted = {} /\ unsure = {}
  BY DEF Trail!Init
<1>2. <<>> \in Seq(Trail!Events) /\ (\A e : ~In(e, <<>>)) /\ Len(<<>>) = 0
  BY EmptyIs
<1>3. MaxMounts \in Nat \ {0}
  BY PartsAssumption DEF Trail!TrailAssumption
<1>4. Trail!TypeOK
  <2>1. recorded \in 0 .. MaxEvents /\ mounted \in Trail!Mounts /\ shown \in BOOLEAN
    BY <1>1, <1>3, TrailBounds DEF Trail!Mounts
  <2>2. pending \in [Trail!Mounts -> Seq(Trail!Events)]
    BY <1>1, <1>2
  <2>3. flight \in [Trail!Mounts -> [batch : Seq(Trail!Events), answer : TrailAnswers]]
    BY <1>1, <1>2 DEF Trail!Idle, TrailAnswers
  <2>4. stored \in [Trail!Events -> 0 .. Trail!Many]
    BY <1>1 DEF Trail!Many
  <2> QED
    BY <1>1, <2>1, <2>2, <2>3, <2>4 DEF Trail!TypeOK, TrailAnswers
<1>5. \A s \in Trail!Mounts : flight[s].batch = <<>> /\ pending[s] = <<>>
  BY <1>1 DEF Trail!Idle
<1>6. Queued(<<>>, <<>>, 0)
  BY <1>2, TrailBounds DEF Queued, Spaced, Before, Below
<1>7. QueuesTidy /\ NothingWaitsBehind
  BY <1>1, <1>5, <1>6 DEF QueuesTidy, NothingWaitsBehind
<1>8. ASSUME NEW e \in Trail!Events PROVE Kept(e)
  <2>1. stored[e] = 0 /\ e \in Nat /\ e > 0 /\ e \notin dropped
    BY <1>1 DEF Trail!Events
  <2> QED
    BY <1>1, <1>2, <1>5, <2>1 DEF Kept, InOnePlace, StoredOnce, OkIsStored, IsSomewhere,
       IsOld, TrailWaits
<1> QED
  BY <1>4, <1>7, <1>8 DEF TrailInv

LEMMA TrailRests ==
  ASSUME TrailInv, UNCHANGED Trail!trailVars
  PROVE  TrailInv'
<1>1. /\ recorded' = recorded /\ mounted' = mounted /\ shown' = shown
      /\ pending' = pending /\ flight' = flight /\ stored' = stored
      /\ dropped' = dropped /\ parted' = parted /\ unsure' = unsure
  BY DEF Trail!trailVars
<1>2. Trail!TypeOK'
  BY <1>1 DEF TrailInv, Trail!TypeOK, Trail!Mounts, Trail!Events, Trail!Many
<1>3. QueuesTidy' /\ NothingWaitsBehind'
  BY <1>1
  DEF TrailInv, QueuesTidy, Queued, Spaced, Before, Below, Trail!Mounts, Trail!Events,
     NothingWaitsBehind, Trail!Here
<1>4. ASSUME NEW e \in Trail!Events PROVE Kept(e)'
  <2>1. Kept(e)
    BY DEF TrailInv
  <2> QED
    BY <1>1, <2>1 DEF Kept, InOnePlace, StoredOnce, OkIsStored, IsSomewhere, IsOld,
       TrailWaits, Trail!Mounts
<1> QED
  BY <1>2, <1>3, <1>4 DEF TrailInv, Trail!Events

LEMMA TrailStep ==
  ASSUME TrailInv, Trail!Next \/ UNCHANGED Trail!trailVars
  PROVE  TrailInv'
  BY RecordActionKeeps, FlushNowKeeps, UnmountKeeps, CloseKeeps, MountKeeps,
     AnsweredKeeps, RecordEventsKeeps, RefuseKeeps, LoseKeeps, TrailRests DEF Trail!Next

LEMMA TrailIsSoundThen ==
  ASSUME TrailInv
  PROVE  Trail!TrailIsSound
<1>1. recorded \in Nat /\ recorded \in 0 .. MaxEvents
  BY TrailTypes DEF TrailInv
<1>2. ASSUME NEW s \in Trail!Mounts
      PROVE  /\ Queued(flight[s].batch, pending[s], recorded)
             /\ flight[s].batch \in Seq(Trail!Events) /\ pending[s] \in Seq(Trail!Events)
  BY TrailTypes DEF TrailInv, QueuesTidy
<1>3. Trail!BatchesFit
  BY <1>2 DEF Trail!BatchesFit, Queued
<1>4. Trail!OrderSurvivesRetries
  <2> SUFFICES ASSUME NEW s \in Trail!Mounts, NEW m \in DOMAIN Trail!Waiting(s),
                      NEW n \in DOMAIN Trail!Waiting(s),
                      m < n
               PROVE  Trail!Waiting(s)[m] < Trail!Waiting(s)[n]
    BY DEF Trail!OrderSurvivesRetries
  <2> DEFINE b == flight[s].batch
             p == pending[s]
             q == b \o p
  <2>1. b \in Seq(Trail!Events) /\ p \in Seq(Trail!Events) /\ Queued(b, p, recorded)
    BY <1>2
  <2>2. Len(b) \in Nat /\ Len(p) \in Nat
    BY <2>1, QueueTypes
  <2>3. q \in Seq(Trail!Events) /\ Spaced(q)
    BY <1>1, <2>1, JoinSpaced
  <2>4. q = Trail!Waiting(s)
    BY DEF Trail!Waiting
  <2> HIDE DEF q
  <2>5. DOMAIN q = 1 .. Len(q) /\ Len(q) \in Nat
    BY <2>3, LenProperties
  <2>6. /\ m \in 1 .. Len(q) /\ n \in 1 .. Len(q) /\ m \in Nat /\ n \in Nat
        /\ q[m] \in Nat /\ q[n] \in Nat
    BY <2>3, <2>4, <2>5, QueueTypes
  <2>7. q[m] + n <= q[n] + m
    BY <2>3, <2>6 DEF Spaced
  <2>8. q[m] < q[n]
    BY <2>6, <2>7
  <2> QED
    BY <2>4, <2>8
<1>5. Trail!NothingVanishes
  <2> SUFFICES ASSUME NEW e \in 1 .. recorded
               PROVE  \/ stored[e] > 0 \/ e \in dropped \cup parted
                      \/ \E s \in Trail!Mounts : e \in Trail!Range(Trail!Waiting(s))
    BY DEF Trail!NothingVanishes
  <2>1. e \in Trail!Events /\ e <= recorded
    BY <1>1, TrailBounds DEF Trail!Events
  <2>2. ASSUME NEW s \in Trail!Mounts, TrailWaits(e, s)
        PROVE  e \in Trail!Range(Trail!Waiting(s))
    BY <1>2, <2>2, JoinIs, RangeIs DEF TrailWaits, Trail!Waiting
  <2> QED
    BY <2>1, <2>2 DEF TrailInv, Kept, IsSomewhere
<1>6. Trail!LatestAreKept
  <2>1. ASSUME NEW e \in dropped PROVE e <= recorded - MaxPending
    <3>1. e \in Trail!Events /\ e \in Nat /\ e + MaxPending <= recorded
      BY TrailTypes DEF TrailInv, Kept, IsOld, Trail!Events
    <3> QED
      BY <1>1, <3>1, TrailBounds
  <2>2. \A s \in Trail!Mounts : Len(pending[s]) <= MaxPending + FlushMax
    BY <1>2 DEF Queued
  <2> QED
    BY <2>1, <2>2 DEF Trail!LatestAreKept
<1>7. Trail!TwiceOnlyWhenUnsure
  <2> SUFFICES ASSUME NEW e \in Trail!Events, stored[e] > 1, e \notin unsure PROVE FALSE
    BY DEF Trail!TwiceOnlyWhenUnsure
  <2>1. stored[e] \in 0 .. Trail!Many /\ StoredOnce(e)
    BY TrailTypes DEF TrailInv, Kept
  <2>2. stored[e] > 0
    BY <2>1 DEF Trail!Many
  <2>3. stored[e] = 1
    BY <2>1, <2>2 DEF StoredOnce
  <2> QED
    BY <2>3
<1> QED
  BY <1>3, <1>4, <1>5, <1>6, <1>7 DEF Trail!TrailIsSound
-------------------------------------------------------------------------------
(* The linking of an account.                                             *)

Successes == {"connected", "connected_other_account"}
FlowRecords ==
  [nonce : Link!Flows \cup {0}, store : Stores \cup {None}, typed : Typed \cup {None}]
CallRecords ==
  [at : {"none", "arrived", "valid", "linked", "answered"}, state : Link!Flows \cup {0},
   account : Names \cup {None}, binding : FlowRecords, store : Stores \cup {None},
   result : Link!Results]
TabRecords ==
  [at : {"panel", "meta", "calling", "result"}, flow : Link!Flows \cup {0},
   account : Names \cup {None}, call : Link!Calls \cup {0}, flag : Link!Results]
LinkTypes ==
  /\ signedIn \in Stores \cup {None} /\ cookie \in FlowRecords
  /\ window \in [Tabs -> TabRecords] /\ call \in [Link!Calls -> CallRecords]
  /\ links \in [Stores -> Link!Links \cup {None}]
  /\ started \in [Link!Flows -> FlowRecords] /\ spent \subseteq Link!Flows

Known(n) == n \in Link!Flows /\ started[n].store # None
IsAFlow(n) == Known(n) => started[n].nonce = n
CookieIsAFlow == cookie.store # None => Known(cookie.nonce) /\ started[cookie.nonce] = cookie

Linking(c) == call[c].at = "linked" \/ call[c].result \in Successes
Outcome(flow, account, result) ==
  /\ links[flow.store] # None
  /\ result = "connected_other_account" => Link!Normalized(flow.typed) \notin {None, account}
CallFollows(c) ==
  /\ call[c].at # "answered" => call[c].result = "none"
  /\ call[c].at # "none" => call[c].account \in Names
  /\ call[c].at \in {"valid", "linked"} \/ call[c].result \in Successes =>
       /\ Known(call[c].state) /\ started[call[c].state] = call[c].binding
       /\ call[c].binding.store = call[c].store
  /\ Linking(c) => call[c].state \in spent
  /\ call[c].result \in Successes =>
       Outcome(started[call[c].state], call[c].account, call[c].result)
TabFollows(t) ==
  /\ window[t].at = "meta" => window[t].flow \in Link!Flows
  /\ window[t].at = "calling" =>
       /\ window[t].call \in Link!Calls /\ call[window[t].call].at # "none"
       /\ call[window[t].call].state = window[t].flow /\ window[t].flow \in Link!Flows
       /\ call[window[t].call].account = window[t].account /\ window[t].account \in Names
  /\ Link!Told(t) =>
       Known(window[t].flow) /\ Outcome(started[window[t].flow], window[t].account, window[t].flag)
LinkFollows(s) ==
  links[s] # None => \E c \in Link!Calls : call[c].result \in Successes /\ Link!IsOf(s, c)
OneLinks(c, d) == c # d /\ call[c].state = call[d].state => ~(Linking(c) /\ Linking(d))

(* The invariant of linking.                                                *)
LinkInv ==
  /\ LinkTypes /\ CookieIsAFlow
  /\ \A n \in Link!Flows : IsAFlow(n)
  /\ \A c \in Link!Calls : CallFollows(c)
  /\ \A t \in Tabs : TabFollows(t)
  /\ \A s \in Stores : LinkFollows(s)
  /\ \A c, d \in Link!Calls : OneLinks(c, d)

LEMMA LinkNones == None \notin Stores /\ None \notin Names /\ None \notin Link!Links
  BY PartsAssumption DEF Link!LinkAssumption

(* What every step leaves: flows that were started, stores that are linked,    *)
(* codes that were used, and of a call its flow, its account and its result.   *)
LinkGrows ==
  /\ \A n \in Link!Flows : Known(n) => started'[n] = started[n]
  /\ \A s \in Stores : links[s] # None => links'[s] # None
  /\ spent \subseteq spent'
CallsGoOn ==
  \A c \in Link!Calls : call[c].at # "none" =>
    /\ call'[c].at # "none" /\ call'[c].state = call[c].state
    /\ call'[c].account = call[c].account
    /\ call[c].result \in Successes => call'[c] = call[c]

LEMMA CallKept ==
  ASSUME LinkTypes, LinkGrows, NEW c \in Link!Calls, CallFollows(c), call'[c] = call[c]
  PROVE  CallFollows(c)'
<1>1. Known(call[c].state) =>
        Known(call[c].state)' /\ started'[call[c].state] = started[call[c].state]
        /\ started[call[c].state].store \in Stores
  BY LinkNones DEF LinkGrows, Known, Link!Flows, LinkTypes, FlowRecords
<1>2. call[c].result \in Successes => Known(call[c].state)
  BY DEF CallFollows
<1> QED
  BY <1>1, <1>2 DEF CallFollows, Linking, Outcome, LinkGrows, Successes, Link!Normalized

LEMMA TabKept ==
  ASSUME LinkTypes, LinkGrows, CallsGoOn, NEW t \in Tabs, TabFollows(t),
         window'[t] = window[t]
  PROVE  TabFollows(t)'
<1>1. Link!Told(t) => Known(window[t].flow)' /\ started'[window[t].flow] = started[window[t].flow]
                 /\ started[window[t].flow].store \in Stores
  BY LinkNones DEF TabFollows, LinkGrows, Known, Link!Flows, LinkTypes, FlowRecords
<1>2. Link!Told(t)' <=> Link!Told(t)
  BY DEF Link!Told
<1>3. Link!Told(t) => Known(window[t].flow)' /\ Outcome(started[window[t].flow], window[t].account, window[t].flag)'
  BY <1>1 DEF TabFollows, Outcome, LinkGrows, Link!Normalized
<1>4. window[t].at = "calling" =>
        /\ window[t].call \in Link!Calls /\ call'[window[t].call].at # "none"
        /\ call'[window[t].call].state = window[t].flow /\ window[t].flow \in Link!Flows
        /\ call'[window[t].call].account = window[t].account /\ window[t].account \in Names
  BY DEF TabFollows, CallsGoOn
<1>5. window[t].at = "meta" => window[t].flow \in Link!Flows
  BY DEF TabFollows
<1> QED
  BY <1>2, <1>3, <1>4, <1>5 DEF TabFollows, Link!Flows, Link!Calls

LEMMA LinkKept ==
  ASSUME LinkTypes, LinkGrows, CallsGoOn, \A c \in Link!Calls : CallFollows(c),
         NEW s \in Stores, LinkFollows(s), links'[s] = links[s]
  PROVE  LinkFollows(s)'
<1>1. SUFFICES ASSUME links[s] # None
               PROVE  \E c \in Link!Calls : call'[c].result \in Successes /\ Link!IsOf(s, c)'
  BY DEF LinkFollows, Successes, Link!Calls
<1>2. PICK c \in Link!Calls : call[c].result \in Successes /\ Link!IsOf(s, c)
  BY <1>1 DEF LinkFollows
<1>3. call[c].at # "none" /\ Known(call[c].state)
  BY <1>2 DEF CallFollows, Successes
<1>4. call'[c] = call[c] /\ started'[call[c].state] = started[call[c].state]
  BY <1>2, <1>3 DEF CallsGoOn, LinkGrows, Known
<1>5. Link!IsOf(s, c)'
  BY <1>2, <1>4 DEF Link!IsOf, Link!Normalized
<1> QED
  BY <1>2, <1>4, <1>5

LEMMA LinkStepKeeps ==
  ASSUME LinkInv, LinkTypes', LinkGrows, CallsGoOn, CookieIsAFlow',
         \A n \in Link!Flows : IsAFlow(n)',
         \A c \in Link!Calls : call'[c] = call[c] \/ CallFollows(c)',
         \A t \in Tabs : window'[t] = window[t] \/ TabFollows(t)',
         \A s \in Stores : links'[s] = links[s] \/ LinkFollows(s)',
         \A c, d \in Link!Calls : OneLinks(c, d)'
  PROVE  LinkInv'
<1>1. \A c \in Link!Calls : CallFollows(c)'
  BY CallKept DEF LinkInv
<1>2. \A t \in Tabs : TabFollows(t)'
  BY TabKept DEF LinkInv
<1>3. \A s \in Stores : LinkFollows(s)'
  BY LinkKept DEF LinkInv
<1> QED
  BY <1>1, <1>2, <1>3 DEF LinkInv, Link!Calls, Link!Flows

LEMMA NoneLinksMore ==
  ASSUME \A c, d \in Link!Calls : OneLinks(c, d),
         \A c \in Link!Calls : Linking(c)' => Linking(c) /\ call'[c].state = call[c].state
  PROVE  \A c, d \in Link!Calls : OneLinks(c, d)'
  BY DEF OneLinks

(* The steps of one call.                                                    *)
Moves(c, at, binding, store, result) ==
  /\ call' \in [Link!Calls -> CallRecords]
  /\ call'[c].at = at /\ call'[c].state = call[c].state
  /\ call'[c].account = call[c].account /\ call'[c].binding = binding
  /\ call'[c].store = store /\ call'[c].result = result
  /\ \A d \in Link!Calls \ {c} : call'[d] = call[d]

LEMMA CallTypes ==
  ASSUME LinkTypes, NEW c \in Link!Calls
  PROVE  /\ call[c] \in CallRecords /\ call \in [Link!Calls -> CallRecords]
         /\ call[c].at \in {"none", "arrived", "valid", "linked", "answered"}
         /\ call[c].state \in Link!Flows \cup {0} /\ call[c].account \in Names \cup {None}
         /\ call[c].binding \in FlowRecords /\ call[c].store \in Stores \cup {None}
         /\ call[c].result \in Link!Results
  BY DEF LinkTypes, CallRecords

LEMMA AnswerMoves ==
  ASSUME LinkTypes, NEW c \in Link!Calls, NEW result \in Link!Results,
         call' = Link!Answers(c, result)
  PROVE  Moves(c, "answered", call[c].binding, call[c].store, result)
<1>1. call[c] \in CallRecords /\ call \in [Link!Calls -> CallRecords]
  BY CallTypes
<1>2. /\ DOMAIN call' = Link!Calls /\ \A d \in Link!Calls \ {c} : call'[d] = call[d]
      /\ call' = [d \in Link!Calls |-> call'[d]]
  BY <1>1 DEF Link!Answers
<1>3. call'[c] = [at |-> "answered", state |-> call[c].state,
                  account |-> call[c].account, binding |-> call[c].binding,
                  store |-> call[c].store, result |-> result]
  BY <1>1 DEF Link!Answers, CallRecords
<1>4. call'[c] \in CallRecords
  BY <1>1, <1>3 DEF CallRecords
<1>5. \A d \in Link!Calls : call'[d] \in CallRecords
  BY <1>1, <1>2, <1>4
<1>6. call' \in [Link!Calls -> CallRecords]
  BY <1>2, <1>5
<1> QED
  BY <1>2, <1>3, <1>6 DEF Moves

LEMMA CallStepKeeps ==
  ASSUME LinkInv, NEW c \in Link!Calls, NEW at, NEW binding, NEW store, NEW result,
         Moves(c, at, binding, store, result), at # "none", call[c].at # "answered",
         signedIn' = signedIn, cookie' = cookie, window' = window, started' = started,
         links' \in [Stores -> Link!Links \cup {None}], spent' \subseteq Link!Flows,
         spent \subseteq spent', \A s \in Stores : links[s] # None => links'[s] # None,
         \A s \in Stores : links'[s] = links[s] \/ LinkFollows(s)',
         CallFollows(c)',
         Linking(c)' => Linking(c) \/ call[c].state \notin spent
  PROVE  LinkInv'
<1>1. LinkTypes'
  BY DEF LinkInv, LinkTypes, Moves, CallRecords, FlowRecords, TabRecords, Link!Links,
         Link!Flows,
     Link!Calls, Link!Results
<1>2. LinkGrows
  BY DEF LinkGrows
<1>3. CallsGoOn
  BY DEF LinkInv, CallFollows, CallsGoOn, Moves, Successes
<1>4. CookieIsAFlow' /\ \A n \in Link!Flows : IsAFlow(n)'
  BY DEF LinkInv, CookieIsAFlow, IsAFlow, Known, Link!Flows
<1>5. \A d \in Link!Calls : call'[d] = call[d] \/ CallFollows(d)'
  BY DEF Moves
<1>6. \A d, e \in Link!Calls : OneLinks(d, e)'
  <2>1. \A d \in Link!Calls : call'[d].state = call[d].state
    BY DEF Moves
  <2>2. \A d \in Link!Calls : d # c => (Linking(d)' <=> Linking(d))
    BY DEF Moves, Linking, Successes
  <2>3. ASSUME NEW d \in Link!Calls, d # c, call[d].state = call[c].state,
               Linking(c)', Linking(d)
        PROVE  FALSE
    <3>1. ~Linking(c)
      BY <2>3 DEF LinkInv, OneLinks
    <3> QED
      BY <2>3, <3>1 DEF LinkInv, CallFollows
  <2> QED
    BY <2>1, <2>2, <2>3 DEF LinkInv, OneLinks
<1>7. \A t \in Tabs : window'[t] = window[t]
  OBVIOUS
<1> QED
  BY <1>1, <1>2, <1>3, <1>4, <1>5, <1>6, <1>7, LinkStepKeeps

(* A call is answered without a link.                                        *)
LEMMA AnswerFails ==
  ASSUME LinkInv, NEW c \in Link!Calls, NEW result \in Link!Results \ Successes,
         call' = Link!Answers(c, result), call[c].at \notin {"none", "answered"},
         signedIn' = signedIn, cookie' = cookie, window' = window, started' = started,
         links' = links, spent \subseteq spent', spent' \subseteq Link!Flows
  PROVE  LinkInv'
<1>1. LinkTypes
  BY DEF LinkInv
<1>2. Moves(c, "answered", call[c].binding, call[c].store, result)
  BY <1>1, AnswerMoves
<1>3. /\ links' \in [Stores -> Link!Links \cup {None}]
      /\ \A s \in Stores : links'[s] = links[s]
  BY <1>1 DEF LinkTypes
<1>4. CallFollows(c)' /\ ~Linking(c)'
  <2>1. call[c].account \in Names
    BY DEF LinkInv, CallFollows
  <2> QED
    BY <1>2, <2>1 DEF CallFollows, Moves, Linking, Successes
<1> QED
  BY <1>2, <1>3, <1>4, CallStepKeeps

LEMMA ArriveKeeps ==
  ASSUME LinkInv, NEW c \in Link!Calls, Link!Arrive(c)
  PROVE  LinkInv'
<1>1. /\ call[c].at = "arrived" /\ signedIn' = signedIn /\ cookie' = cookie
      /\ window' = window
      /\ started' = started /\ links' = links /\ spent' = spent
  BY DEF Link!Arrive
<1>2. /\ LinkTypes /\ CallFollows(c) /\ call[c] \in CallRecords
      /\ call[c].account \in Names \cup {None}
  BY CallTypes DEF LinkInv
<1>3. /\ links' \in [Stores -> Link!Links \cup {None}] /\ spent' \subseteq Link!Flows
      /\ \A s \in Stores : links'[s] = links[s]
  BY <1>1, <1>2 DEF LinkTypes
<1>4. call[c].result = "none"
  BY <1>1, <1>2 DEF CallFollows
<1>5. CASE /\ signedIn # None /\ Link!IsValid(call[c].state, cookie)
           /\ call' = [call EXCEPT ![c].at = "valid", ![c].binding = cookie, ![c].store = signedIn]
  <2>1. Moves(c, "valid", cookie, signedIn, "none")
    <3>1. call[c] \in CallRecords /\ call \in [Link!Calls -> CallRecords]
      BY <1>2, CallTypes
    <3>2. /\ \A d \in Link!Calls \ {c} : call'[d] = call[d]
          /\ call' = [d \in Link!Calls |-> call'[d]]
      BY <1>5, <3>1
    <3>3. call'[c] = [at |-> "valid", state |-> call[c].state,
                      account |-> call[c].account, binding |-> cookie,
                      store |-> signedIn, result |-> "none"]
      BY <1>4, <1>5, <3>1 DEF CallRecords
    <3>4. call'[c] \in CallRecords
      BY <1>2, <3>1, <3>3 DEF CallRecords, LinkTypes, Link!Results
    <3>5. call' \in [Link!Calls -> CallRecords]
      BY <3>1, <3>2, <3>4
    <3> QED
      BY <3>2, <3>3, <3>5 DEF Moves
  <2>2. /\ Known(call[c].state) /\ started[call[c].state] = cookie /\ cookie.store = signedIn
    BY <1>5 DEF LinkInv, CookieIsAFlow, Link!IsValid
  <2>3. CallFollows(c)' /\ ~Linking(c)'
    <3>1. call[c].account \in Names
      BY <1>1, <1>2 DEF CallFollows
    <3> QED
      BY <1>1, <2>1, <2>2, <3>1
      DEF CallFollows, Moves, Linking, Successes, Known, Link!Flows
  <2> QED
    BY <1>1, <1>3, <2>1, <2>3, CallStepKeeps
<1>6. ASSUME NEW result \in {"entry", "error"}, call' = Link!Answers(c, result)
      PROVE  LinkInv'
  BY <1>1, <1>2, <1>3, <1>6, AnswerFails DEF Link!Results, Successes
<1> QED
  BY <1>5, <1>6 DEF Link!Arrive

LEMMA LinkBreakKeeps ==
  ASSUME LinkInv, NEW c \in Link!Calls, Link!Break(c)
  PROVE  LinkInv'
<1>1. spent' \subseteq Link!Flows /\ "none" \in Link!Results \ Successes
  BY DEF Link!Break, LinkInv, LinkTypes, Link!Results, Successes
<1> QED
  BY <1>1, AnswerFails DEF Link!Break

LEMMA ExchangeKeeps ==
  ASSUME LinkInv, NEW c \in Link!Calls, Link!Exchange(c)
  PROVE  LinkInv'
<1>1. /\ call[c].at = "valid" /\ signedIn' = signedIn /\ cookie' = cookie /\ window' = window
      /\ started' = started /\ links' = links
  BY DEF Link!Exchange
<1>2. LinkTypes /\ CallFollows(c) /\ call[c].state \in Link!Flows
  BY <1>1 DEF LinkInv, CallFollows, Known
<1>3. /\ spent \subseteq spent' /\ spent' \subseteq Link!Flows
      /\ spent' \subseteq spent \cup {call[c].state}
  BY <1>2 DEF Link!Exchange, LinkTypes
<1>4. /\ "error" \in Link!Results \ Successes
      /\ "needs_professional_account" \in Link!Results \ Successes
  BY DEF Link!Results, Successes
<1>5. CASE call' = Link!Answers(c, "error") \/ call' = Link!Answers(c, "needs_professional_account")
  BY <1>1, <1>3, <1>4, <1>5, AnswerFails
<1>6. CASE /\ call[c].state \notin spent /\ spent' = spent \cup {call[c].state}
           /\ call' = [call EXCEPT ![c].at = "linked"]
  <2>1. Moves(c, "linked", call[c].binding, call[c].store, call[c].result)
    <3>1. call[c] \in CallRecords /\ call \in [Link!Calls -> CallRecords]
      BY <1>2, CallTypes
    <3>2. call'[c] = [at |-> "linked", state |-> call[c].state,
                      account |-> call[c].account, binding |-> call[c].binding,
                      store |-> call[c].store, result |-> call[c].result]
      BY <1>6, <3>1 DEF CallRecords
    <3>3. call'[c] \in CallRecords
      BY <3>1, <3>2 DEF CallRecords
    <3>4. /\ \A d \in Link!Calls \ {c} : call'[d] = call[d]
          /\ call' = [d \in Link!Calls |-> call'[d]]
      BY <1>6, <3>1
    <3>5. call' \in [Link!Calls -> CallRecords]
      BY <3>1, <3>3, <3>4
    <3> QED
      BY <3>2, <3>4, <3>5 DEF Moves
  <2>2. call[c].result = "none"
    BY <1>1, <1>2 DEF CallFollows
  <2>3. CallFollows(c)'
    BY <1>1, <1>2, <1>6, <2>1, <2>2
    DEF CallFollows, Moves, Linking, Successes, Known, Link!Flows
  <2>4. /\ links' \in [Stores -> Link!Links \cup {None}]
        /\ \A s \in Stores : links'[s] = links[s]
    BY <1>1, <1>2 DEF LinkTypes
  <2> QED
    BY <1>1, <1>3, <1>6, <2>1, <2>3, <2>4, CallStepKeeps
<1> QED
  BY <1>5, <1>6 DEF Link!Exchange

LEMMA NormalizedIs ==
  ASSUME NEW typed \in Typed \cup {None}
  PROVE  Link!Normalized(typed) \in Names \cup {None}
  BY PartsAssumption DEF Link!LinkAssumption, Link!Normalized

LEMMA UpsertLinkKeeps ==
  ASSUME LinkInv, NEW c \in Link!Calls, Link!UpsertLink(c)
  PROVE  LinkInv'
<1>1. /\ call[c].at = "linked" /\ signedIn' = signedIn /\ cookie' = cookie /\ window' = window
      /\ started' = started /\ spent' = spent
  BY DEF Link!UpsertLink
<1>2. /\ LinkTypes /\ CallFollows(c) /\ call[c].state \in Link!Flows \cup {0}
      /\ call[c].binding \in FlowRecords
  BY CallTypes DEF LinkInv
<1>20. PICK n, binding, store, account, requested :
         /\ n = call[c].state /\ binding = call[c].binding /\ store = call[c].store
         /\ account = call[c].account /\ requested = Link!Normalized(binding.typed)
  OBVIOUS
<1>3. /\ Known(n) /\ started[n] = binding /\ binding.store = store
      /\ account \in Names /\ n \in spent
  BY <1>1, <1>2, <1>20 DEF CallFollows, Linking
<1>4. store \in Stores
  BY <1>2, <1>3, <1>20 DEF Known, FlowRecords
<1>5. requested \in Names \cup {None}
  BY <1>2, <1>20, NormalizedIs DEF FlowRecords
<1>6. PICK linked \in {account, None} :
        /\ links' = [links EXCEPT ![store] =
             [account |-> account, requested |-> requested, linked |-> linked]]
        /\ call' = Link!Answers(c, IF Link!Mismatch(requested, linked)
                              THEN "connected_other_account" ELSE "connected")
  BY <1>20 DEF Link!UpsertLink, Link!StoreOf
<1> DEFINE result == IF Link!Mismatch(requested, linked)
                     THEN "connected_other_account" ELSE "connected"
           link == [account |-> account, requested |-> requested, linked |-> linked]
<1>7. link \in Link!Links
  BY <1>3, <1>5, <1>6 DEF Link!Links
<1>8. result \in Link!Results /\ result \in Successes
  BY DEF Link!Results, Successes
<1>9. result = "connected_other_account" => requested \notin {None, account}
  BY <1>6 DEF Link!Mismatch
<1>10. Moves(c, "answered", binding, store, result)
  BY <1>2, <1>6, <1>8, <1>20, AnswerMoves
<1>11. /\ links' \in [Stores -> Link!Links \cup {None}] /\ links'[store] = link
       /\ \A s \in Stores : s # store => links'[s] = links[s]
  BY <1>2, <1>4, <1>6, <1>7 DEF LinkTypes
<1>12. link # None
  BY <1>7, LinkNones
<1> HIDE DEF link, result
<1>13. \A s \in Stores : links[s] # None => links'[s] # None
  BY <1>11, <1>12
<1>21. /\ call'[c].account = account /\ call'[c].state = n
       /\ call'[c].binding = binding /\ call'[c].store = store
       /\ call'[c].result = result /\ call'[c].at = "answered"
  BY <1>10, <1>20 DEF Moves
<1>22. Known(n)' /\ started'[n] = binding /\ n \in spent'
  BY <1>1, <1>3 DEF Known, Link!Flows
<1>14. CallFollows(c)'
  <2>1. Link!Normalized(binding.typed)' = requested
    BY <1>20 DEF Link!Normalized
  <2>2. Outcome(started[call[c].state], call[c].account, call[c].result)'
    BY <1>3, <1>9, <1>11, <1>12, <1>20, <1>21, <1>22, <2>1 DEF Outcome, Link!Normalized
  <2>3. Known(call[c].state)'
    BY <1>21, <1>22 DEF Known, Link!Flows
  <2> QED
    BY <1>3, <1>21, <1>22, <2>2, <2>3 DEF CallFollows, Linking, Successes
<1>15. LinkFollows(store)'
  <2>1. Link!IsOf(store, c)'
    BY <1>3, <1>11, <1>20, <1>21, <1>22 DEF Link!IsOf, link, Link!Normalized
  <2> QED
    BY <1>8, <1>21, <2>1 DEF LinkFollows, Successes, Link!Calls
<1>16. \A s \in Stores : links'[s] = links[s] \/ LinkFollows(s)'
  BY <1>11, <1>15
<1>17. Linking(c)' => Linking(c)
  BY <1>1 DEF Linking
<1>18. spent' \subseteq Link!Flows /\ spent \subseteq spent'
  BY <1>1, <1>2 DEF LinkTypes
<1> QED
  BY <1>1, <1>10, <1>11, <1>13, <1>14, <1>16, <1>17, <1>18, CallStepKeeps

(* The steps of the browser.                                                 *)
LEMMA TabTypes ==
  ASSUME LinkTypes, NEW t \in Tabs
  PROVE  /\ window[t] \in TabRecords /\ window \in [Tabs -> TabRecords]
         /\ window[t].at \in {"panel", "meta", "calling", "result"}
         /\ window[t].flow \in Link!Flows \cup {0} /\ window[t].account \in Names \cup {None}
         /\ window[t].call \in Link!Calls \cup {0} /\ window[t].flag \in Link!Results
  BY DEF LinkTypes, TabRecords

(* A tab turns to a new page.                                                *)
LEMMA TabStepKeeps ==
  ASSUME LinkInv, NEW t \in Tabs, window' \in [Tabs -> TabRecords],
         \A u \in Tabs \ {t} : window'[u] = window[u], TabFollows(t)',
         signedIn' \in Stores \cup {None}, cookie' \in FlowRecords,
         CookieIsAFlow', \A n \in Link!Flows : IsAFlow(n)',
         started' \in [Link!Flows -> FlowRecords],
         \A n \in Link!Flows : Known(n) => started'[n] = started[n],
         call' \in [Link!Calls -> CallRecords], CallsGoOn,
         \A c \in Link!Calls : call'[c] = call[c] \/ (CallFollows(c)' /\ ~Linking(c)'),
         links' = links, spent' = spent
  PROVE  LinkInv'
<1>1. LinkTypes'
  BY
  DEF LinkInv, LinkTypes, CallRecords, FlowRecords, TabRecords, Link!Links, Link!Flows,
     Link!Calls, Link!Results
<1>2. LinkGrows
  BY DEF LinkGrows
<1>3. \A u \in Tabs : window'[u] = window[u] \/ TabFollows(u)'
  OBVIOUS
<1>4. \A c, d \in Link!Calls : OneLinks(c, d)'
  <2>1. \A c \in Link!Calls : Linking(c)' => call'[c] = call[c] /\ Linking(c)
    BY DEF Linking, Successes
  <2> QED
    BY <2>1, NoneLinksMore DEF LinkInv
<1>5. \A s \in Stores : links'[s] = links[s]
  OBVIOUS
<1> QED
  BY <1>1, <1>2, <1>3, <1>4, <1>5, LinkStepKeeps

LEMMA PageTurned ==
  ASSUME LinkTypes, NEW t \in Tabs, NEW landing \in TabRecords,
         window' = [window EXCEPT ![t] = landing]
  PROVE  /\ window' \in [Tabs -> TabRecords] /\ window'[t] = landing
         /\ \A u \in Tabs \ {t} : window'[u] = window[u]
  BY DEF LinkTypes

LEMMA RestingCalls ==
  ASSUME LinkInv, call' = call
  PROVE  call' \in [Link!Calls -> CallRecords] /\ CallsGoOn /\ \A c \in Link!Calls : call'[c] = call[c]
  BY DEF LinkInv, LinkTypes, CallsGoOn

LEMMA StartRefusedKeeps ==
  ASSUME LinkInv, NEW t \in Tabs, Link!StartRefused(t)
  PROVE  LinkInv'
<1> DEFINE landing == [Link!NoTab EXCEPT !.at = "result",
                      !.flag = IF signedIn = None THEN "entry" ELSE "error"]
<1>1. /\ window' = [window EXCEPT ![t] = landing] /\ signedIn' = signedIn /\ cookie' = cookie
      /\ call' = call /\ links' = links /\ started' = started /\ spent' = spent
  BY DEF Link!StartRefused
<1>2. landing \in TabRecords /\ landing.at = "result" /\ landing.flag \in {"entry", "error"}
  BY DEF Link!NoTab, TabRecords, Link!Results
<1> HIDE DEF landing
<1>3. window'[t] = landing
  BY <1>1 DEF LinkInv, LinkTypes
<1>4. TabFollows(t)'
  BY <1>2, <1>3 DEF TabFollows, Link!Told
<1>5. /\ signedIn \in Stores \cup {None} /\ cookie \in FlowRecords
      /\ started \in [Link!Flows -> FlowRecords] /\ CookieIsAFlow'
      /\ \A n \in Link!Flows : IsAFlow(n)'
  BY <1>1 DEF LinkInv, LinkTypes, CookieIsAFlow, IsAFlow, Known, Link!Flows
<1>6. window' \in [Tabs -> TabRecords] /\ \A u \in Tabs \ {t} : window'[u] = window[u]
  BY <1>1, <1>2, PageTurned DEF LinkInv
<1> QED
  BY <1>1, <1>4, <1>5, <1>6, RestingCalls, TabStepKeeps

LEMMA LinkReturnKeeps ==
  ASSUME LinkInv, NEW t \in Tabs, Link!Return(t)
  PROVE  LinkInv'
<1>1. PICK c \in Link!Calls :
        /\ window[t].at = "calling" /\ c = window[t].call /\ call[c].at = "answered"
        /\ cookie' = IF call[c].result = "none" THEN cookie ELSE Link!NoFlow
        /\ window' = [window EXCEPT ![t] = [Link!NoTab EXCEPT !.at = "result", !.flag = call[c].result,
                     !.flow = window[t].flow, !.account = window[t].account]]
        /\ signedIn' = signedIn /\ call' = call /\ links' = links
        /\ started' = started /\ spent' = spent
  BY DEF Link!Return
<1> DEFINE landing == [Link!NoTab EXCEPT !.at = "result", !.flag = call[c].result,
                     !.flow = window[t].flow, !.account = window[t].account]
<1>2. /\ LinkTypes /\ TabFollows(t) /\ CallFollows(c) /\ call[c].result \in Link!Results
      /\ window[t].flow \in Link!Flows \cup {0} /\ window[t].account \in Names \cup {None}
  BY CallTypes, TabTypes DEF LinkInv
<1>3. /\ landing.at = "result" /\ landing.flow = window[t].flow
      /\ landing.account = window[t].account /\ landing.flag = call[c].result
  BY DEF Link!NoTab
<1>4. landing \in TabRecords
  BY <1>2 DEF TabRecords, Link!NoTab
<1> HIDE DEF landing
<1>5. window'[t] = landing
  BY <1>1, <1>2 DEF LinkTypes, landing
<1>6. call[c].state = window[t].flow /\ call[c].account = window[t].account
  BY <1>1, <1>2 DEF TabFollows
<1>7. PICK n, account, result :
        n = window[t].flow /\ account = window[t].account /\ result = call[c].result
  OBVIOUS
<1>8. TabFollows(t)'
  <2>1. result \in Successes =>
          Known(n) /\ Outcome(started[n], account, result)
    BY <1>2, <1>6, <1>7 DEF CallFollows
  <2>2. /\ window'[t].at = "result" /\ window'[t].flow = n
        /\ window'[t].account = account /\ window'[t].flag = result
    BY <1>3, <1>5, <1>7
  <2>3. result \in Successes => Known(n)' /\ Outcome(started[n], account, result)'
    BY <1>1, <2>1 DEF Known, Outcome, Link!Flows, Link!Normalized
  <2>4. Link!Told(t)' => result \in Successes
    BY <2>2 DEF Link!Told, Successes
  <2>5. Link!Told(t)' =>
          Known(window[t].flow)' /\ Outcome(started[window[t].flow], window[t].account, window[t].flag)'
    BY <2>2, <2>3, <2>4 DEF Known, Outcome, Link!Flows, Link!Normalized
  <2> QED
    BY <2>2, <2>5 DEF TabFollows, Known, Link!Flows
<1>9. Link!NoFlow \in FlowRecords /\ Link!NoFlow.store = None
  BY DEF Link!NoFlow, FlowRecords
<1>10. /\ signedIn \in Stores \cup {None} /\ cookie' \in FlowRecords
       /\ started \in [Link!Flows -> FlowRecords] /\ CookieIsAFlow'
       /\ \A m \in Link!Flows : IsAFlow(m)'
  BY <1>1, <1>9 DEF LinkInv, LinkTypes, CookieIsAFlow, IsAFlow, Known, Link!Flows
<1>11. window' \in [Tabs -> TabRecords] /\ \A u \in Tabs \ {t} : window'[u] = window[u]
  BY <1>1, <1>4, PageTurned DEF landing, LinkInv
<1> QED
  BY <1>1, <1>8, <1>10, <1>11, RestingCalls, TabStepKeeps

LEMMA StartConnectKeeps ==
  ASSUME LinkInv, NEW t \in Tabs, Link!StartConnect(t)
  PROVE  LinkInv'
<1>1. PICK n \in Link!Flows, typed \in Typed \cup {None} :
        /\ signedIn # None /\ Link!FreeFlow(n)
        /\ cookie' = [nonce |-> n, store |-> signedIn, typed |-> typed]
        /\ started' = [started EXCEPT ![n] = cookie']
        /\ window' = [window EXCEPT ![t] = [Link!NoTab EXCEPT !.at = "meta", !.flow = n]]
        /\ signedIn' = signedIn /\ call' = call /\ links' = links /\ spent' = spent
  BY DEF Link!StartConnect
<1> DEFINE landing == [Link!NoTab EXCEPT !.at = "meta", !.flow = n]
<1>2. landing \in TabRecords /\ landing.at = "meta" /\ landing.flow = n
  BY DEF Link!NoTab, TabRecords, Link!Results
<1> HIDE DEF landing
<1>3. /\ window' \in [Tabs -> TabRecords] /\ window'[t] = landing
      /\ \A u \in Tabs \ {t} : window'[u] = window[u]
  BY <1>1, <1>2, PageTurned DEF landing, LinkInv
<1>4. TabFollows(t)'
  BY <1>2, <1>3 DEF TabFollows, Link!Told, Link!Flows
<1>5. /\ signedIn \in Stores \cup {None} /\ started \in [Link!Flows -> FlowRecords]
      /\ started[n].store = None
  BY <1>1 DEF LinkInv, LinkTypes, Link!FreeFlow
<1>6. cookie' \in FlowRecords /\ cookie'.nonce = n /\ cookie'.store # None
  BY <1>1, <1>5 DEF FlowRecords
<1>7. /\ started' \in [Link!Flows -> FlowRecords] /\ started'[n] = cookie'
      /\ \A m \in Link!Flows : m # n => started'[m] = started[m]
  BY <1>1, <1>5, <1>6
<1>8. \A m \in Link!Flows : Known(m) => started'[m] = started[m]
  BY <1>5, <1>7 DEF Known
<1>9. CookieIsAFlow'
  BY <1>6, <1>7 DEF CookieIsAFlow, Known, Link!Flows
<1>10. \A m \in Link!Flows : IsAFlow(m)'
  BY <1>6, <1>7 DEF LinkInv, IsAFlow, Known, Link!Flows
<1> QED
  BY <1>1, <1>3, <1>4, <1>5, <1>6, <1>7, <1>8, <1>9, <1>10, RestingCalls, TabStepKeeps

(* A call that arrives with what its tab has.                                *)
Arrives(c, flow, account) ==
  call' = [call EXCEPT ![c] =
    [Link!NoCall EXCEPT !.at = "arrived", !.state = flow, !.account = account]]

LEMMA CallArrives ==
  ASSUME LinkInv, NEW t \in Tabs, NEW c \in Link!Calls, NEW flow \in Link!Flows,
         NEW account \in Names, Link!FreeCall(c), Arrives(c, flow, account),
         window' \in [Tabs -> TabRecords], \A u \in Tabs \ {t} : window'[u] = window[u],
         window'[t].at = "calling", window'[t].call = c, window'[t].flow = flow,
         window'[t].account = account,
         signedIn' = signedIn, cookie' = cookie, links' = links, started' = started,
         spent' = spent
  PROVE  LinkInv'
<1> DEFINE new == [Link!NoCall EXCEPT !.at = "arrived", !.state = flow, !.account = account]
<1>1. /\ new \in CallRecords /\ new.at = "arrived" /\ new.state = flow
      /\ new.account = account /\ new.result = "none"
  BY DEF Link!NoCall, CallRecords, Link!NoFlow, FlowRecords, Link!Results
<1> HIDE DEF new
<1>2. /\ call' \in [Link!Calls -> CallRecords] /\ call'[c] = new
      /\ \A d \in Link!Calls : d # c => call'[d] = call[d]
  BY <1>1 DEF LinkInv, LinkTypes, Arrives, new
<1>3. CallFollows(c)' /\ ~Linking(c)'
  BY <1>1, <1>2 DEF CallFollows, Linking, Successes
<1>4. CallsGoOn
  BY <1>2 DEF CallsGoOn, Link!FreeCall
<1>5. \A d \in Link!Calls : call'[d] = call[d] \/ (CallFollows(d)' /\ ~Linking(d)')
  BY <1>2, <1>3
<1>6. TabFollows(t)'
  BY <1>1, <1>2 DEF TabFollows, Link!Told, Link!Calls, Link!Flows
<1>7. /\ signedIn \in Stores \cup {None} /\ cookie \in FlowRecords
      /\ started \in [Link!Flows -> FlowRecords] /\ CookieIsAFlow'
      /\ \A n \in Link!Flows : IsAFlow(n)'
  BY DEF LinkInv, LinkTypes, CookieIsAFlow, IsAFlow, Known, Link!Flows
<1>8. /\ signedIn' \in Stores \cup {None} /\ cookie' \in FlowRecords
      /\ started' \in [Link!Flows -> FlowRecords]
      /\ \A n \in Link!Flows : Known(n) => started'[n] = started[n]
  BY <1>7
<1> QED
  BY <1>2, <1>4, <1>5, <1>6, <1>7, <1>8, TabStepKeeps

LEMMA ConsentKeeps ==
  ASSUME LinkInv, NEW t \in Tabs, Link!Consent(t)
  PROVE  LinkInv'
<1>1. PICK c \in Link!Calls, a \in Names :
        /\ window[t].at = "meta" /\ Link!FreeCall(c)
        /\ window' = [Link!Calling(t, c) EXCEPT ![t].account = a]
        /\ call' = [call EXCEPT ![c] =
             [Link!NoCall EXCEPT !.at = "arrived", !.state = window[t].flow, !.account = a]]
        /\ signedIn' = signedIn /\ cookie' = cookie /\ links' = links
        /\ started' = started /\ spent' = spent
  BY DEF Link!Consent
<1>2. window[t] \in TabRecords /\ window \in [Tabs -> TabRecords] /\ TabFollows(t)
  BY TabTypes DEF LinkInv
<1>3. /\ DOMAIN window' = Tabs /\ window' = [u \in Tabs |-> window'[u]]
      /\ \A u \in Tabs \ {t} : window'[u] = window[u]
  BY <1>1, <1>2 DEF Link!Calling
<1>4. window'[t] = [at |-> "calling", flow |-> window[t].flow, account |-> a, call |-> c,
                 flag |-> window[t].flag]
  BY <1>1, <1>2 DEF Link!Calling, TabRecords
<1>5. window'[t] \in TabRecords
  BY <1>2, <1>4 DEF TabRecords
<1>6. window' \in [Tabs -> TabRecords]
  BY <1>2, <1>3, <1>5
<1>7. window[t].flow \in Link!Flows
  BY <1>1, <1>2 DEF TabFollows
<1>8. PICK flow \in Link!Flows : flow = window[t].flow
  BY <1>7
<1>9. /\ window'[t].at = "calling" /\ window'[t].call = c /\ window'[t].flow = flow
      /\ window'[t].account = a
  BY <1>4, <1>8
<1>10. Arrives(c, flow, a)
  BY <1>1, <1>8 DEF Arrives
<1>11. /\ Link!FreeCall(c) /\ signedIn' = signedIn /\ cookie' = cookie /\ links' = links
       /\ started' = started /\ spent' = spent
  BY <1>1
<1> QED
  BY <1>3, <1>6, <1>9, <1>10, <1>11, CallArrives

LEMMA CallAgainKeeps ==
  ASSUME LinkInv, NEW t \in Tabs, Link!CallAgain(t)
  PROVE  LinkInv'
<1>1. PICK c \in Link!Calls :
        /\ window[t].at = "calling" /\ Link!FreeCall(c)
        /\ window' = Link!Calling(t, c)
        /\ call' = [call EXCEPT ![c] =
             [Link!NoCall EXCEPT !.at = "arrived", !.state = window[t].flow,
                            !.account = window[t].account]]
        /\ signedIn' = signedIn /\ cookie' = cookie /\ links' = links
        /\ started' = started /\ spent' = spent
  BY DEF Link!CallAgain
<1>2. window[t] \in TabRecords /\ window \in [Tabs -> TabRecords] /\ TabFollows(t)
  BY TabTypes DEF LinkInv
<1>3. /\ DOMAIN window' = Tabs /\ window' = [u \in Tabs |-> window'[u]]
      /\ \A u \in Tabs \ {t} : window'[u] = window[u]
  BY <1>1, <1>2 DEF Link!Calling
<1>4. window'[t] = [at |-> "calling", flow |-> window[t].flow, account |-> window[t].account,
                 call |-> c, flag |-> window[t].flag]
  BY <1>1, <1>2 DEF Link!Calling, TabRecords
<1>5. window'[t] \in TabRecords
  BY <1>2, <1>4 DEF TabRecords
<1>6. window' \in [Tabs -> TabRecords]
  BY <1>2, <1>3, <1>5
<1>7. window[t].flow \in Link!Flows /\ window[t].account \in Names
  BY <1>1, <1>2 DEF TabFollows
<1>8. PICK flow \in Link!Flows, a \in Names : flow = window[t].flow /\ a = window[t].account
  BY <1>7
<1>9. /\ window'[t].at = "calling" /\ window'[t].call = c /\ window'[t].flow = flow
      /\ window'[t].account = a
  BY <1>4, <1>8
<1>10. Arrives(c, flow, a)
  BY <1>1, <1>8 DEF Arrives
<1>11. /\ Link!FreeCall(c) /\ signedIn' = signedIn /\ cookie' = cookie /\ links' = links
       /\ started' = started /\ spent' = spent
  BY <1>1
<1> QED
  BY <1>3, <1>6, <1>9, <1>10, <1>11, CallArrives

(* The session and the cookie alone.                                         *)
LEMMA BrowserKeeps ==
  ASSUME LinkInv, signedIn' \in Stores \cup {None}, cookie' \in {cookie, Link!NoFlow},
         window' = window, call' = call, links' = links, started' = started, spent' = spent
  PROVE  LinkInv'
<1>1. Link!NoFlow \in FlowRecords /\ Link!NoFlow.store = None
  BY DEF Link!NoFlow, FlowRecords
<1>2. LinkTypes'
  BY <1>1
  DEF LinkInv, LinkTypes, CallRecords, FlowRecords, TabRecords, Link!Links, Link!Flows,
     Link!Calls, Link!Results
<1>3. LinkGrows /\ CallsGoOn
  BY DEF LinkGrows, CallsGoOn, LinkInv, CallFollows
<1>4. CookieIsAFlow' /\ \A n \in Link!Flows : IsAFlow(n)'
  BY <1>1 DEF LinkInv, CookieIsAFlow, IsAFlow, Known, Link!Flows
<1>5. \A c, d \in Link!Calls : OneLinks(c, d)'
  BY DEF LinkInv, OneLinks, Linking, Successes
<1> QED
  BY <1>2, <1>3, <1>4, <1>5, LinkStepKeeps

LEMMA SwitchKeeps ==
  ASSUME LinkInv, Link!Switch
  PROVE  LinkInv'
  BY BrowserKeeps DEF Link!Switch

LEMMA ExpireKeeps ==
  ASSUME LinkInv, Link!Expire
  PROVE  LinkInv'
  BY BrowserKeeps DEF Link!Expire, LinkInv, LinkTypes

LEMMA LinkRests ==
  ASSUME LinkInv, UNCHANGED Link!linkVars
  PROVE  LinkInv'
  BY BrowserKeeps DEF Link!linkVars, LinkInv, LinkTypes

LEMMA LinkStep ==
  ASSUME LinkInv, Link!Next \/ UNCHANGED Link!linkVars
  PROVE  LinkInv'
  BY SwitchKeeps, ExpireKeeps, StartConnectKeeps, StartRefusedKeeps, ConsentKeeps,
     CallAgainKeeps, LinkReturnKeeps, ArriveKeeps, ExchangeKeeps, UpsertLinkKeeps,
     LinkBreakKeeps,
     LinkRests DEF Link!Next

LEMMA LinkStarts == Link!Init => LinkInv
<1> SUFFICES ASSUME Link!Init PROVE LinkInv
  OBVIOUS
<1>1. /\ signedIn \in Stores /\ cookie = Link!NoFlow
      /\ window = [t \in Tabs |-> Link!NoTab] /\ call = [c \in Link!Calls |-> Link!NoCall]
      /\ links = [s \in Stores |-> None]
      /\ started = [n \in Link!Flows |-> Link!NoFlow] /\ spent = {}
  BY DEF Link!Init
<1>2. Link!NoFlow \in FlowRecords /\ Link!NoFlow.store = None
  BY DEF Link!NoFlow, FlowRecords
<1>3. Link!NoTab \in TabRecords /\ Link!NoTab.at = "panel"
  BY DEF Link!NoTab, TabRecords, Link!Results
<1>4. Link!NoCall \in CallRecords /\ Link!NoCall.at = "none" /\ Link!NoCall.result = "none"
  BY <1>2 DEF Link!NoCall, CallRecords, Link!Results
<1>5. LinkTypes
  BY <1>1, <1>2, <1>3, <1>4 DEF LinkTypes
<1>6. CookieIsAFlow /\ \A n \in Link!Flows : IsAFlow(n)
  BY <1>1, <1>2 DEF CookieIsAFlow, IsAFlow, Known
<1>7. \A c \in Link!Calls : CallFollows(c) /\ ~Linking(c)
  BY <1>1, <1>4 DEF CallFollows, Linking, Successes
<1>8. \A t \in Tabs : TabFollows(t)
  BY <1>1, <1>3 DEF TabFollows, Link!Told
<1>9. \A s \in Stores : LinkFollows(s)
  BY <1>1 DEF LinkFollows
<1> QED
  BY <1>5, <1>6, <1>7, <1>8, <1>9 DEF LinkInv, OneLinks

LEMMA LinkIsSoundThen ==
  ASSUME LinkInv
  PROVE  Link!TypeOK /\ Link!LinkIsSound
<1>1. Link!TypeOK
  BY DEF LinkInv, LinkTypes, Link!TypeOK, FlowRecords, TabRecords, CallRecords
<1>2. Link!LinkIsOfOneFlow
  BY DEF LinkInv, LinkFollows, Link!LinkIsOfOneFlow, Successes
<1>3. Link!SuccessIsTrue
  BY DEF LinkInv, TabFollows, Outcome, Link!SuccessIsTrue
<1>4. Link!LinksOnce
  <2> SUFFICES ASSUME NEW c \in Link!Calls, NEW d \in Link!Calls, c # d,
                      call[c].state = call[d].state
               PROVE  /\ {call[c].at, call[d].at} # {"linked"}
                      /\ ~({call[c].result, call[d].result} \subseteq Successes)
    BY DEF Link!LinksOnce, Successes
  <2>1. ~(Linking(c) /\ Linking(d))
    BY DEF LinkInv, OneLinks
  <2> QED
    BY <2>1 DEF Linking
<1> QED
  BY <1>1, <1>2, <1>3, <1>4 DEF Link!LinkIsSound
-------------------------------------------------------------------------------
(* The import.                                                            *)

Labels ==
  {"none", "stores", "drafts", "write", "input", "reread", "guard", "prepare", "begin",
   "import", "stores read", "drafts read", "passed", "failed"}
RunRecords ==
  [at : Labels, kind : {"dry", "import", "input"}, reset : BOOLEAN, snap : Import!Database,
   seen : Import!Database, cut : SUBSET Nat, ended : SUBSET Nat, excused : BOOLEAN,
   disturbed : BOOLEAN]
ImportTypes ==
  /\ source \in Worlds /\ target \in Import!Database
  /\ file \in [kind : {"none", "whole", "broken"}, db : Import!Database]
  /\ production \in BOOLEAN /\ signIns \in 0 .. MaxSessions
  /\ sessionRows \subseteq 1 .. signIns
  /\ import \in [Commands -> RunRecords]

(* What is known of a run.                                                   *)
Follows(run) ==
  /\ run.at \in {"none", "stores", "drafts", "write", "input", "reread", "guard", "prepare"} =>
       run.ended = {}
  /\ run.ended \subseteq 1 .. signIns /\ run.cut \subseteq 1 .. signIns
  /\ run.at = "reread" => run.kind = "dry"
  /\ run.at \in {"input", "guard", "prepare", "begin", "import", "stores read",
                 "drafts read"} => run.kind # "dry"
  /\ run.at = "reread" /\ ~run.disturbed => file.kind = "whole" /\ file.db = run.snap
  /\ run.at \in {"stores read", "drafts read"} /\ ~run.disturbed /\ ~run.excused =>
       target = run.snap
  /\ run.at = "drafts read" /\ ~run.disturbed => run.seen.stores = target.stores
  /\ run.at = "passed" /\ ~run.disturbed =>
       IF run.kind = "dry" THEN file.db = run.snap ELSE target = run.snap
  /\ run.at = "failed" => run.excused \/ run.disturbed

HasEnded(e) == \E r \in Commands : e \in import[r].ended
SessionsKnown == \A e \in Nat : e \in sessionRows <=> e \in 1 .. signIns /\ ~HasEnded(e)
(* The invariant of the import.                                            *)
ImportInv ==
  /\ ImportTypes /\ SessionsKnown /\ Import!Closed(target)
  /\ \A r \in Commands : Follows(import[r])

LEMMA ImportGiven ==
  /\ Worlds \subseteq Import!Database /\ (\A db \in Worlds : Import!Closed(db)) /\ MaxSessions \in Nat
  /\ Import!Empty \in Import!Database /\ Import!Closed(Import!Empty)
<1>1. Import!Empty \in Import!Database
  BY DEF Import!Empty, Import!Database, Import!StoreTable, Import!DraftTable
<1>2. Import!Closed(Import!Empty)
  BY DEF Import!Closed, Import!Empty, Import!IsRow
<1> QED
  BY <1>1, <1>2, PartsAssumption DEF Import!ImportAssumption

LEMMA UpsertTypes ==
  ASSUME NEW db \in Import!Database, NEW snap \in Import!Database
  PROVE  /\ Import!Upserted(db, snap) \in Import!Database
         /\ \A s \in StoreIds : Import!Upserted(db, snap).stores[s] =
              IF snap.stores[s] # None THEN snap.stores[s] ELSE db.stores[s]
         /\ \A d \in Drafts : Import!Upserted(db, snap).drafts[d] =
              IF snap.drafts[d] # None THEN snap.drafts[d] ELSE db.drafts[d]
<1>1. /\ db.stores \in Import!StoreTable /\ db.drafts \in Import!DraftTable
      /\ snap.stores \in Import!StoreTable /\ snap.drafts \in Import!DraftTable
  BY DEF Import!Database
<1> DEFINE stores == [s \in StoreIds |-> Import!NewFirst(db.stores[s], snap.stores[s])]
           drafts == [d \in Drafts |-> Import!NewFirst(db.drafts[d], snap.drafts[d])]
<1>2. stores \in Import!StoreTable
  BY <1>1 DEF Import!NewFirst, Import!StoreTable
<1>3. drafts \in Import!DraftTable
  BY <1>1 DEF Import!NewFirst, Import!DraftTable
<1>4. Import!Upserted(db, snap) = [stores |-> stores, drafts |-> drafts]
  BY DEF Import!Upserted
<1>5. /\ \A s \in StoreIds : stores[s] =
           IF snap.stores[s] # None THEN snap.stores[s] ELSE db.stores[s]
      /\ \A d \in Drafts : drafts[d] =
           IF snap.drafts[d] # None THEN snap.drafts[d] ELSE db.drafts[d]
  BY DEF Import!NewFirst
<1> HIDE DEF stores, drafts
<1> QED
  BY <1>2, <1>3, <1>4, <1>5 DEF Import!Database

(* A closed snapshot never fails for the order of its rows.                   *)
LEMMA UpsertCloses ==
  ASSUME NEW db \in Import!Database, NEW snap \in Import!Database, Import!Closed(db),
         Import!Closed(snap)
  PROVE  Import!Closed(Import!Upserted(db, snap))
<1>1. PICK new : new = Import!Upserted(db, snap)
  OBVIOUS
<1>2. /\ \A s \in StoreIds : new.stores[s] =
           IF snap.stores[s] # None THEN snap.stores[s] ELSE db.stores[s]
      /\ \A d \in Drafts : new.drafts[d] =
           IF snap.drafts[d] # None THEN snap.drafts[d] ELSE db.drafts[d]
  BY <1>1, UpsertTypes
<1>3. ASSUME NEW from \in Import!Database, Import!Closed(from), from = db \/ from = snap,
             NEW d \in Drafts, Import!IsRow(from.drafts, d), new.drafts[d] = from.drafts[d]
      PROVE  /\ Import!IsRow(new.stores, new.drafts[d].store)
             /\ new.drafts[d].revises # None => Import!IsRow(new.drafts, new.drafts[d].revises)
  <2>1. from.drafts[d] \in [store : StoreIds, revises : Drafts \cup {None}]
    BY <1>3 DEF Import!Database, Import!DraftTable, Import!IsRow
  <2>2. /\ from.drafts[d].store \in StoreIds
        /\ from.drafts[d].revises # None => from.drafts[d].revises \in Drafts
    BY <2>1
  <2>3. /\ Import!IsRow(from.stores, from.drafts[d].store)
        /\ from.drafts[d].revises # None => Import!IsRow(from.drafts, from.drafts[d].revises)
    BY <1>3 DEF Import!Closed
  <2> QED
    BY <1>2, <1>3, <2>2, <2>3 DEF Import!IsRow
<1>4. ASSUME NEW d \in Drafts, Import!IsRow(new.drafts, d)
      PROVE  /\ Import!IsRow(new.stores, new.drafts[d].store)
             /\ new.drafts[d].revises # None => Import!IsRow(new.drafts, new.drafts[d].revises)
  <2>1. CASE snap.drafts[d] # None
    BY <1>2, <1>3, <2>1 DEF Import!IsRow
  <2>2. CASE snap.drafts[d] = None
    BY <1>2, <1>3, <1>4, <2>2 DEF Import!IsRow
  <2> QED
    BY <2>1, <2>2
<1> QED
  BY <1>1, <1>4 DEF Import!Closed

LEMMA UpsertOfAll ==
  ASSUME NEW db \in Import!Database, NEW snap \in Import!Database, ~Import!Other(db, snap)
  PROVE  Import!Upserted(db, snap) = snap
<1>1. PICK new : new = Import!Upserted(db, snap)
  OBVIOUS
<1>2. /\ new \in Import!Database
      /\ \A s \in StoreIds : new.stores[s] =
           IF snap.stores[s] # None THEN snap.stores[s] ELSE db.stores[s]
      /\ \A d \in Drafts : new.drafts[d] =
           IF snap.drafts[d] # None THEN snap.drafts[d] ELSE db.drafts[d]
  BY <1>1, UpsertTypes
<1>3. \A s \in StoreIds : new.stores[s] = snap.stores[s]
  BY <1>2 DEF Import!Other, Import!IsRow
<1>4. \A d \in Drafts : new.drafts[d] = snap.drafts[d]
  BY <1>2 DEF Import!Other, Import!IsRow
<1>5. new.stores = snap.stores
  BY <1>2, <1>3 DEF Import!Database, Import!StoreTable
<1>6. new.drafts = snap.drafts
  BY <1>2, <1>4 DEF Import!Database, Import!DraftTable
<1> QED
  BY <1>1, <1>2, <1>5, <1>6 DEF Import!Database

(* What a run still knows when another has acted.                            *)
LEMMA FollowsOn ==
  ASSUME NEW run \in RunRecords, NEW new \in RunRecords, Follows(run),
         new.at = run.at, new.kind = run.kind, new.snap = run.snap, new.seen = run.seen,
         new.cut = run.cut, new.ended = run.ended, new.excused = run.excused,
         run.disturbed => new.disturbed,
         file' = file \/ (run.at \in Import!OnFile => new.disturbed),
         target' = target \/ (run.at \in Import!OnTarget => new.disturbed),
         signIns \in Nat, signIns' \in Nat, signIns <= signIns'
  PROVE  Follows(new)'
<1>1. 1 .. signIns \subseteq 1 .. signIns'
  OBVIOUS
<1>2. run.disturbed \in BOOLEAN /\ new.disturbed \in BOOLEAN /\ run.excused \in BOOLEAN
  BY DEF RunRecords
<1> QED
  BY <1>1, <1>2 DEF Follows, Import!OnFile, Import!OnTarget

LEMMA ImportStepKeeps ==
  ASSUME ImportInv, source' \in Worlds, target' \in Import!Database,
         file' \in [kind : {"none", "whole", "broken"}, db : Import!Database],
         production' \in BOOLEAN, signIns' \in 0 .. MaxSessions,
         sessionRows' \subseteq Nat, import' \in [Commands -> RunRecords],
         Import!Closed(target)', SessionsKnown',
         \A r \in Commands : Follows(import[r])'
  PROVE  ImportInv'
<1>1. sessionRows' \subseteq 1 .. signIns'
  BY DEF SessionsKnown
<1>2. ImportTypes'
  BY <1>1 DEF ImportTypes, RunRecords, Import!Database, Import!StoreTable,
              Import!DraftTable, Labels
<1> QED
  BY <1>2 DEF ImportInv

LEMMA RunTypes ==
  ASSUME ImportInv, NEW r \in Commands
  PROVE  /\ import[r] \in RunRecords /\ import \in [Commands -> RunRecords]
         /\ import[r].snap \in Import!Database /\ import[r].seen \in Import!Database
         /\ import[r].excused \in BOOLEAN /\ import[r].disturbed \in BOOLEAN
         /\ import[r].cut \subseteq 1 .. signIns /\ import[r].ended \subseteq 1 .. signIns
         /\ import[r].cut \subseteq Nat /\ import[r].ended \subseteq Nat
         /\ Follows(import[r]) /\ signIns \in Nat /\ signIns \in 0 .. MaxSessions
         /\ source \in Worlds /\ source \in Import!Database /\ target \in Import!Database
         /\ file.db \in Import!Database /\ sessionRows \subseteq 1 .. signIns
         /\ sessionRows \subseteq Nat
<1>1. import[r] \in RunRecords /\ Follows(import[r])
  BY DEF ImportInv, ImportTypes
<1>2. signIns \in Nat /\ 1 .. signIns \subseteq Nat
  BY ImportGiven DEF ImportInv, ImportTypes
<1> QED
  BY <1>1, <1>2, ImportGiven DEF ImportInv, ImportTypes, RunRecords, Follows

(* A step of a run that writes to no database.                               *)
LEMMA RunGoes ==
  ASSUME ImportInv, NEW r \in Commands, NEW run \in RunRecords, Import!Becomes(r, run),
         Follows(run),
         run.ended = import[r].ended, UNCHANGED <<Import!databases, file, Import!bounds>>
  PROVE  ImportInv'
<1>1. /\ source' = source /\ target' = target /\ sessionRows' = sessionRows /\ file' = file
      /\ production' = production /\ signIns' = signIns
      /\ import' = [import EXCEPT ![r] = run]
  BY DEF Import!databases, Import!bounds, Import!Becomes
<1>2. /\ import' \in [Commands -> RunRecords] /\ import'[r] = run
      /\ \A q \in Commands : q # r => import'[q] = import[q]
  BY <1>1 DEF ImportInv, ImportTypes
<1>3. Follows(run)'
  BY <1>1 DEF Follows
<1>4. ASSUME NEW q \in Commands PROVE Follows(import[q])'
  <2>1. CASE q = r
    <3>1. import'[q] = run
      BY <1>2, <2>1
    <3> QED
      BY <1>3, <3>1 DEF Follows
  <2>2. CASE q # r
    <3>1. import'[q] = import[q]
      BY <1>2, <2>2
    <3>2. Follows(import[q])
      BY DEF ImportInv
    <3> QED
      BY <1>1, <3>1, <3>2 DEF Follows
  <2> QED
    BY <2>1, <2>2
<1>5. \A q \in Commands : import'[q].ended = import[q].ended
  BY <1>2
<1>6. SessionsKnown'
  BY <1>1, <1>5 DEF ImportInv, SessionsKnown, HasEnded
<1>7. Import!Closed(target)'
  BY <1>1 DEF ImportInv, Import!Closed, Import!IsRow
<1>8. /\ source' \in Worlds /\ target' \in Import!Database
      /\ file' \in [kind : {"none", "whole", "broken"}, db : Import!Database]
      /\ production' \in BOOLEAN /\ signIns' \in 0 .. MaxSessions
      /\ sessionRows' \subseteq Nat
  BY <1>1, RunTypes DEF ImportInv, ImportTypes
<1> QED
  BY <1>2, <1>4, <1>6, <1>7, <1>8, ImportStepKeeps

LEMMA StartKeeps ==
  ASSUME ImportInv, NEW r \in Commands, Import!Start(r)
  PROVE  ImportInv'
<1>1. PICK kind \in {"dry", "import", "input"}, reset \in BOOLEAN :
        /\ Import!At(r, "none")
        /\ Import!Becomes(r, [Import!NoRun EXCEPT !.kind = kind, !.reset = reset,
                         !.at = IF kind = "input" THEN "input" ELSE "stores"])
        /\ UNCHANGED <<Import!databases, file, Import!bounds>>
  BY DEF Import!Start
<1>2. PICK run : run = [Import!NoRun EXCEPT !.kind = kind, !.reset = reset,
                          !.at = IF kind = "input" THEN "input" ELSE "stores"]
  OBVIOUS
<1>3. /\ run.at = IF kind = "input" THEN "input" ELSE "stores"
      /\ run.kind = kind /\ run.ended = {} /\ run.cut = {}
  BY <1>2 DEF Import!NoRun
<1>4. run \in RunRecords
  BY <1>2, ImportGiven DEF Import!NoRun, RunRecords, Labels
<1>5. import[r].ended = {}
  BY <1>1, RunTypes DEF Import!At, Follows
<1>6. Follows(run)
  BY <1>3 DEF Follows
<1>7. Import!Becomes(r, run)
  BY <1>1, <1>2
<1> QED
  BY <1>1, <1>3, <1>4, <1>5, <1>6, <1>7, RunGoes

LEMMA CollectStoresKeeps ==
  ASSUME ImportInv, NEW r \in Commands, Import!CollectStores(r)
  PROVE  ImportInv'
<1>1. PICK run : run = [import[r] EXCEPT !.at = "drafts", !.snap.stores = source.stores]
  OBVIOUS
<1>2. /\ Import!At(r, "stores") /\ Import!Becomes(r, run)
      /\ UNCHANGED <<Import!databases, file, Import!bounds>>
  BY <1>1 DEF Import!CollectStores
<1>3. import[r] \in RunRecords /\ Follows(import[r]) /\ source \in Import!Database
  BY RunTypes
<1>4. /\ run.at = "drafts" /\ run.kind = import[r].kind /\ run.ended = import[r].ended
      /\ run.cut = import[r].cut
  BY <1>1, <1>3 DEF RunRecords
<1>5. run \in RunRecords
  BY <1>1, <1>3 DEF RunRecords, Import!Database, Labels
<1>6. Follows(run)
  BY <1>2, <1>3, <1>4 DEF Follows, Import!At
<1> QED
  BY <1>2, <1>4, <1>5, <1>6, RunGoes

LEMMA CollectDraftsKeeps ==
  ASSUME ImportInv, NEW r \in Commands, Import!CollectDrafts(r)
  PROVE  ImportInv'
<1>1. PICK run : run = [import[r] EXCEPT !.at = "write", !.snap.drafts = source.drafts]
  OBVIOUS
<1>2. /\ Import!At(r, "drafts") /\ Import!Becomes(r, run)
      /\ UNCHANGED <<Import!databases, file, Import!bounds>>
  BY <1>1 DEF Import!CollectDrafts
<1>3. import[r] \in RunRecords /\ Follows(import[r]) /\ source \in Import!Database
  BY RunTypes
<1>4. /\ run.at = "write" /\ run.kind = import[r].kind /\ run.ended = import[r].ended
      /\ run.cut = import[r].cut
  BY <1>1, <1>3 DEF RunRecords
<1>5. run \in RunRecords
  BY <1>1, <1>3 DEF RunRecords, Import!Database, Labels
<1>6. Follows(run)
  BY <1>2, <1>3, <1>4 DEF Follows, Import!At
<1> QED
  BY <1>2, <1>4, <1>5, <1>6, RunGoes

(* A run that fails for a reason, or that only goes on.                       *)
LEMMA ImportFailKeeps ==
  ASSUME ImportInv, NEW r \in Commands, NEW why \in BOOLEAN,
         Import!Becomes(r, [import[r] EXCEPT !.at = "failed", !.excused = why]),
         why \/ import[r].disturbed, UNCHANGED <<Import!databases, file, Import!bounds>>
  PROVE  ImportInv'
<1>1. PICK run : run = [import[r] EXCEPT !.at = "failed", !.excused = why]
  OBVIOUS
<1>2. import[r] \in RunRecords /\ Follows(import[r])
  BY RunTypes
<1>3. /\ run.at = "failed" /\ run.ended = import[r].ended /\ run.cut = import[r].cut
      /\ run.excused = why /\ run.disturbed = import[r].disturbed
  BY <1>1, <1>2 DEF RunRecords
<1>4. run \in RunRecords
  BY <1>1, <1>2 DEF RunRecords, Labels
<1>5. Follows(run)
  BY <1>2, <1>3 DEF Follows
<1>6. Import!Becomes(r, run)
  BY <1>1
<1> QED
  BY <1>3, <1>4, <1>5, <1>6, RunGoes

LEMMA GoesIs ==
  ASSUME ImportInv, NEW r \in Commands, NEW label \in Labels,
         NEW run, run = [import[r] EXCEPT !.at = label]
  PROVE  /\ run \in RunRecords /\ run.at = label
         /\ run.kind = import[r].kind /\ run.snap = import[r].snap
         /\ run.seen = import[r].seen /\ run.cut = import[r].cut
         /\ run.ended = import[r].ended /\ run.excused = import[r].excused
         /\ run.disturbed = import[r].disturbed
<1>1. import[r] \in RunRecords
  BY RunTypes
<1> QED
  BY <1>1 DEF RunRecords

LEMMA ReadExportKeeps ==
  ASSUME ImportInv, NEW r \in Commands, Import!ReadExport(r)
  PROVE  ImportInv'
<1>1. CASE Import!Becomes(r, [import[r] EXCEPT !.at = "failed", !.excused = TRUE])
  BY <1>1, ImportFailKeeps DEF Import!ReadExport
<1>2. CASE Import!Becomes(r, [import[r] EXCEPT !.at = "guard", !.snap = file.db])
  <2>1. PICK run : run = [import[r] EXCEPT !.at = "guard", !.snap = file.db]
    OBVIOUS
  <2>2. /\ Import!At(r, "input") /\ Import!Becomes(r, run)
        /\ UNCHANGED <<Import!databases, file, Import!bounds>>
    BY <1>2, <2>1 DEF Import!ReadExport
  <2>3. import[r] \in RunRecords /\ Follows(import[r]) /\ file.db \in Import!Database
    BY RunTypes
  <2>4. /\ run.at = "guard" /\ run.kind = import[r].kind /\ run.ended = import[r].ended
        /\ run.cut = import[r].cut
    BY <2>1, <2>3 DEF RunRecords
  <2>5. run \in RunRecords
    BY <2>1, <2>3 DEF RunRecords, Labels
  <2>6. Follows(run)
    BY <2>2, <2>3, <2>4 DEF Follows, Import!At
  <2> QED
    BY <2>2, <2>4, <2>5, <2>6, RunGoes
<1> QED
  BY <1>1, <1>2 DEF Import!ReadExport

LEMMA DryRunKeeps ==
  ASSUME ImportInv, NEW r \in Commands, Import!DryRun(r)
  PROVE  ImportInv'
<1>1. /\ import[r].at = "reread" /\ UNCHANGED <<Import!databases, file, Import!bounds>>
      /\ Follows(import[r]) /\ import[r].ended \subseteq 1 .. signIns
  BY RunTypes DEF Import!DryRun, Import!At
<1>2. CASE /\ file.kind = "whole" /\ import[r].snap = file.db
           /\ Import!Goes(r, "passed")
  <2>9. "passed" \in Labels
    BY DEF Labels
  <2>1. PICK run : run = [import[r] EXCEPT !.at = "passed"]
    OBVIOUS
  <2>2. /\ run \in RunRecords /\ run.at = "passed" /\ run.kind = import[r].kind
        /\ run.snap = import[r].snap /\ run.ended = import[r].ended
        /\ run.cut = import[r].cut
    BY <2>1, <2>9, GoesIs
  <2>3. Follows(run)
    BY <1>1, <1>2, <2>2 DEF Follows
  <2>4. Import!Becomes(r, run)
    BY <1>2, <2>1 DEF Import!Goes
  <2> QED
    BY <1>1, <2>2, <2>3, <2>4, RunGoes
<1>3. CASE /\ ~(file.kind = "whole" /\ import[r].snap = file.db)
           /\ Import!Goes(r, "failed")
  <2>9. "failed" \in Labels
    BY DEF Labels
  <2>1. PICK run : run = [import[r] EXCEPT !.at = "failed"]
    OBVIOUS
  <2>2. /\ run \in RunRecords /\ run.at = "failed" /\ run.kind = import[r].kind
        /\ run.snap = import[r].snap /\ run.ended = import[r].ended
        /\ run.cut = import[r].cut /\ run.disturbed = import[r].disturbed
    BY <2>1, <2>9, GoesIs
  <2>3. import[r].disturbed
    BY <1>1, <1>3 DEF Follows
  <2>4. Follows(run)
    BY <1>1, <2>2, <2>3 DEF Follows
  <2>5. Import!Becomes(r, run)
    BY <1>3, <2>1 DEF Import!Goes
  <2> QED
    BY <1>1, <2>2, <2>4, <2>5, RunGoes
<1> QED
  BY <1>2, <1>3 DEF Import!DryRun, Import!IsReadable, Import!Reconciled

LEMMA GuardKeeps ==
  ASSUME ImportInv, NEW r \in Commands, Import!Guard(r)
  PROVE  ImportInv'
<1>1. CASE Import!Becomes(r, [import[r] EXCEPT !.at = "failed", !.excused = TRUE])
  BY <1>1, ImportFailKeeps DEF Import!Guard
<1>2. CASE Import!Goes(r, "prepare")
  <2>9. "prepare" \in Labels
    BY DEF Labels
  <2>1. PICK run : run = [import[r] EXCEPT !.at = "prepare"]
    OBVIOUS
  <2>2. /\ run \in RunRecords /\ run.at = "prepare" /\ run.kind = import[r].kind
        /\ run.ended = import[r].ended /\ run.cut = import[r].cut
    BY <2>1, <2>9, GoesIs
  <2>3. Follows(run)
    BY <2>2, RunTypes DEF Follows, Import!Guard, Import!At
  <2>4. Import!Becomes(r, run)
    BY <1>2, <2>1 DEF Import!Goes
  <2> QED
    BY <2>2, <2>3, <2>4, RunGoes DEF Import!Guard
<1> QED
  BY <1>1, <1>2 DEF Import!Guard

LEMMA BeginKeeps ==
  ASSUME ImportInv, NEW r \in Commands, Import!Begin(r)
  PROVE  ImportInv'
<1>1. PICK run : run = [import[r] EXCEPT !.at = "import", !.cut = sessionRows]
  OBVIOUS
<1>2. /\ Import!At(r, "begin") /\ Import!Becomes(r, run)
      /\ UNCHANGED <<Import!databases, file, Import!bounds>>
  BY <1>1 DEF Import!Begin
<1>3. /\ import[r] \in RunRecords /\ Follows(import[r])
      /\ sessionRows \subseteq 1 .. signIns /\ sessionRows \subseteq Nat
  BY RunTypes
<1>4. /\ run.at = "import" /\ run.kind = import[r].kind /\ run.ended = import[r].ended
      /\ run.cut = sessionRows
  BY <1>1, <1>3 DEF RunRecords
<1>5. run \in RunRecords
  BY <1>1, <1>3 DEF RunRecords, Labels
<1>6. Follows(run)
  BY <1>2, <1>3, <1>4 DEF Follows, Import!At
<1> QED
  BY <1>2, <1>4, <1>5, <1>6, RunGoes

LEMMA RollBackKeeps ==
  ASSUME ImportInv, NEW r \in Commands, Import!RollBack(r)
  PROVE  ImportInv'
<1>1. ~Import!Closed(import[r].snap)
  BY RunTypes, UpsertCloses DEF Import!RollBack, Import!Deferred, ImportInv
<1> QED
  BY <1>1, ImportFailKeeps DEF Import!RollBack

LEMMA ReadStoresKeeps ==
  ASSUME ImportInv, NEW r \in Commands, Import!ReadStores(r)
  PROVE  ImportInv'
<1>1. PICK run : run = [import[r] EXCEPT !.at = "drafts read", !.seen.stores = target.stores]
  OBVIOUS
<1>2. /\ Import!At(r, "stores read") /\ Import!Becomes(r, run)
      /\ UNCHANGED <<Import!databases, file, Import!bounds>>
  BY <1>1 DEF Import!ReadStores
<1>3. import[r] \in RunRecords /\ Follows(import[r]) /\ target \in Import!Database
  BY RunTypes
<1>4. /\ run.at = "drafts read" /\ run.kind = import[r].kind /\ run.ended = import[r].ended
      /\ run.cut = import[r].cut /\ run.snap = import[r].snap
      /\ run.excused = import[r].excused /\ run.disturbed = import[r].disturbed
  BY <1>1, <1>3 DEF RunRecords
<1>5. /\ import[r].seen \in Import!Database
      /\ run.seen = [import[r].seen EXCEPT !.stores = target.stores]
  BY <1>1, <1>3 DEF RunRecords
<1>6. run.seen.stores = target.stores /\ run.seen \in Import!Database
  BY <1>3, <1>5 DEF Import!Database
<1>7. run \in RunRecords
  BY <1>1, <1>3, <1>5, <1>6 DEF RunRecords, Labels
<1>8. Follows(run)
  BY <1>2, <1>3, <1>4, <1>6 DEF Follows, Import!At
<1> QED
  BY <1>2, <1>4, <1>7, <1>8, RunGoes

LEMMA ReadDraftsKeeps ==
  ASSUME ImportInv, NEW r \in Commands, Import!ReadDrafts(r)
  PROVE  ImportInv'
<1>1. PICK seen : seen = [import[r].seen EXCEPT !.drafts = target.drafts]
  OBVIOUS
<1>2. PICK run : run = [import[r] EXCEPT !.seen = seen,
                          !.at = IF import[r].snap = seen THEN "passed" ELSE "failed"]
  OBVIOUS
<1>3. /\ Import!At(r, "drafts read") /\ Import!Becomes(r, run)
      /\ UNCHANGED <<Import!databases, file, Import!bounds>>
  BY <1>1, <1>2 DEF Import!ReadDrafts, Import!Reconciled
<1>4. /\ import[r] \in RunRecords /\ Follows(import[r]) /\ target \in Import!Database
      /\ import[r].seen \in Import!Database /\ import[r].snap \in Import!Database
      /\ import[r].disturbed \in BOOLEAN /\ import[r].excused \in BOOLEAN
  BY RunTypes
<1>5. /\ seen \in Import!Database /\ seen.stores = import[r].seen.stores
      /\ seen.drafts = target.drafts
  BY <1>1, <1>4 DEF Import!Database
<1>6. import[r].seen.stores = target.stores => seen = target
  BY <1>4, <1>5 DEF Import!Database
<1>7. /\ run.at = IF import[r].snap = seen THEN "passed" ELSE "failed"
      /\ run.kind = import[r].kind /\ run.ended = import[r].ended
      /\ run.cut = import[r].cut /\ run.snap = import[r].snap
      /\ run.excused = import[r].excused /\ run.disturbed = import[r].disturbed
  BY <1>2, <1>4 DEF RunRecords
<1>8. run \in RunRecords
  BY <1>2, <1>4, <1>5 DEF RunRecords, Labels
<1>9. Follows(run)
  BY <1>3, <1>4, <1>6, <1>7 DEF Follows, Import!At
<1> QED
  BY <1>3, <1>7, <1>8, <1>9, RunGoes

LEMMA ImportBreakKeeps ==
  ASSUME ImportInv, NEW r \in Commands, Import!Break(r)
  PROVE  ImportInv'
  BY ImportFailKeeps DEF Import!Break

(* A step that writes to the file or to the target: the others are disturbed.  *)
LEMMA DisturbIs ==
  ASSUME ImportInv, NEW r \in Commands, NEW run \in RunRecords, NEW stages,
         Import!Disturb(r, run, stages)
  PROVE  /\ import' \in [Commands -> RunRecords] /\ import'[r] = run
         /\ \A q \in Commands \ {r} :
              /\ import'[q] \in RunRecords /\ import'[q].at = import[q].at
              /\ import'[q].kind = import[q].kind /\ import'[q].snap = import[q].snap
              /\ import'[q].seen = import[q].seen /\ import'[q].cut = import[q].cut
              /\ import'[q].ended = import[q].ended
              /\ import'[q].excused = import[q].excused
              /\ import'[q].disturbed = (import[q].disturbed \/ import[q].at \in stages)
<1>1. \A q \in Commands : import[q] \in RunRecords
  BY RunTypes
<1>2. import'[r] = run /\ DOMAIN import' = Commands /\ import' = [q \in Commands |-> import'[q]]
  BY DEF Import!Disturb
<1>3. ASSUME NEW q \in Commands \ {r}
      PROVE  import'[q] = [import[q] EXCEPT !.disturbed =
                             import[q].disturbed \/ import[q].at \in stages]
  BY DEF Import!Disturb
<1>4. ASSUME NEW q \in Commands \ {r}
      PROVE  /\ import'[q] \in RunRecords /\ import'[q].at = import[q].at
             /\ import'[q].kind = import[q].kind /\ import'[q].snap = import[q].snap
             /\ import'[q].seen = import[q].seen /\ import'[q].cut = import[q].cut
             /\ import'[q].ended = import[q].ended
             /\ import'[q].excused = import[q].excused
             /\ import'[q].disturbed = (import[q].disturbed \/ import[q].at \in stages)
  <2>1. PICK b \in BOOLEAN : b = (import[q].disturbed \/ import[q].at \in stages)
    BY <1>1 DEF RunRecords
  <2>2. import'[q] = [import[q] EXCEPT !.disturbed = b] /\ import[q] \in RunRecords
    BY <1>1, <1>3, <2>1
  <2> QED
    BY <2>1, <2>2 DEF RunRecords
<1>5. \A q \in Commands : import'[q] \in RunRecords
  BY <1>2, <1>4
<1>6. import' \in [Commands -> RunRecords]
  BY <1>2, <1>5
<1> QED
  BY <1>2, <1>4, <1>6

LEMMA WriteExportKeeps ==
  ASSUME ImportInv, NEW r \in Commands, Import!WriteExport(r)
  PROVE  ImportInv'
<1>1. /\ import[r].at = "write" /\ source' = source /\ target' = target
      /\ sessionRows' = sessionRows /\ production' = production /\ signIns' = signIns
  BY DEF Import!WriteExport, Import!At, Import!databases, Import!bounds
<1>2. /\ import[r] \in RunRecords /\ Follows(import[r]) /\ import[r].snap \in Import!Database
      /\ import[r].ended \subseteq 1 .. signIns /\ signIns \in Nat
  BY RunTypes
<1>3. PICK run, label, why, new :
        /\ run = [import[r] EXCEPT !.at = label, !.excused = why] /\ file' = new
        /\ Import!Disturb(r, run, Import!OnFile)
        /\ \/ /\ why = import[r].excused /\ new = [kind |-> "whole", db |-> import[r].snap]
              /\ label = IF import[r].kind = "dry" THEN "reread" ELSE "guard"
           \/ label = "failed" /\ why = TRUE /\ new = [kind |-> "broken", db |-> Import!Empty]
  <2>1. CASE /\ file' = [kind |-> "whole", db |-> import[r].snap]
             /\ Import!Disturb(r, [import[r] EXCEPT
                  !.at = IF import[r].kind = "dry" THEN "reread" ELSE "guard"], Import!OnFile)
    <3>1. PICK label : label = IF import[r].kind = "dry" THEN "reread" ELSE "guard"
      OBVIOUS
    <3>2. [import[r] EXCEPT !.at = label]
            = [import[r] EXCEPT !.at = label, !.excused = import[r].excused]
      BY <1>2 DEF RunRecords
    <3> QED
      BY <2>1, <3>1, <3>2
  <2>2. CASE /\ file' = [kind |-> "broken", db |-> Import!Empty]
             /\ Import!Disturb(r, [import[r] EXCEPT !.at = "failed", !.excused = TRUE], Import!OnFile)
    BY <2>2
  <2> QED
    BY <2>1, <2>2 DEF Import!WriteExport
<1>4. label \in Labels /\ why \in BOOLEAN
  BY <1>2, <1>3 DEF Labels, RunRecords
<1>5. /\ run.at = label /\ run.kind = import[r].kind /\ run.snap = import[r].snap
      /\ run.ended = import[r].ended /\ run.cut = import[r].cut /\ run.excused = why
      /\ run \in RunRecords
  BY <1>2, <1>3, <1>4 DEF RunRecords
<1>6. file' \in [kind : {"none", "whole", "broken"}, db : Import!Database]
  BY <1>2, <1>3, ImportGiven
<1>7. /\ import' \in [Commands -> RunRecords] /\ import'[r] = run
      /\ \A q \in Commands \ {r} :
           /\ import'[q] \in RunRecords /\ import'[q].at = import[q].at
           /\ import'[q].kind = import[q].kind /\ import'[q].snap = import[q].snap
           /\ import'[q].seen = import[q].seen /\ import'[q].cut = import[q].cut
           /\ import'[q].ended = import[q].ended
           /\ import'[q].excused = import[q].excused
           /\ import'[q].disturbed = (import[q].disturbed \/ import[q].at \in Import!OnFile)
  BY <1>3, <1>5, DisturbIs
<1>8. Follows(run)'
  <2>1. label = "reread" => new = [kind |-> "whole", db |-> import[r].snap]
    BY <1>3
  <2>2. label = "reread" => file'.kind = "whole" /\ file'.db = run.snap
    BY <1>3, <1>5, <2>1
  <2>3. label \in {"reread", "guard", "failed"} /\ (label = "failed" => why)
        /\ (label = "reread" => import[r].kind = "dry")
        /\ (label = "guard" => import[r].kind # "dry")
    BY <1>3
  <2>4. import[r].ended = {}
    BY <1>1, <1>2 DEF Follows
  <2> QED
    BY <1>1, <1>2, <1>5, <2>2, <2>3, <2>4 DEF Follows
<1>9. ASSUME NEW q \in Commands PROVE Follows(import[q])'
  <2>1. CASE q = r
    <3>1. import'[q] = run
      BY <1>7, <2>1
    <3> QED
      BY <1>8, <3>1 DEF Follows
  <2>2. CASE q # r
    <3>1. PICK old, more : old = import[q] /\ more = import'[q]
      OBVIOUS
    <3>2. Follows(old) /\ old \in RunRecords /\ more \in RunRecords
      BY <1>7, <2>2, <3>1, RunTypes
    <3>3. /\ more.at = old.at /\ more.kind = old.kind /\ more.snap = old.snap
          /\ more.seen = old.seen /\ more.cut = old.cut /\ more.ended = old.ended
          /\ more.excused = old.excused /\ (old.disturbed => more.disturbed)
          /\ old.at \in Import!OnFile => more.disturbed
      BY <1>7, <2>2, <3>1
    <3>4. Follows(more)'
      BY <1>1, <1>2, <3>2, <3>3, FollowsOn
    <3> QED
      BY <3>1, <3>4 DEF Follows
  <2> QED
    BY <2>1, <2>2
<1>10. \A q \in Commands : import'[q].ended = import[q].ended
  BY <1>5, <1>7
<1>11. SessionsKnown'
  BY <1>1, <1>10 DEF ImportInv, SessionsKnown, HasEnded
<1>12. Import!Closed(target)'
  BY <1>1 DEF ImportInv, Import!Closed, Import!IsRow
<1>13. /\ source' \in Worlds /\ target' \in Import!Database /\ production' \in BOOLEAN
       /\ signIns' \in 0 .. MaxSessions /\ sessionRows' \subseteq Nat
  BY <1>1, RunTypes DEF ImportInv, ImportTypes
<1> QED
  BY <1>6, <1>7, <1>9, <1>11, <1>12, <1>13, ImportStepKeeps

(* The others when the target changes.                                       *)
DisturbedOnly(q) ==
  /\ import'[q] \in RunRecords /\ import'[q].at = import[q].at
  /\ import'[q].kind = import[q].kind /\ import'[q].snap = import[q].snap
  /\ import'[q].seen = import[q].seen /\ import'[q].cut = import[q].cut
  /\ import'[q].ended = import[q].ended /\ import'[q].excused = import[q].excused
  /\ import'[q].disturbed = (import[q].disturbed \/ import[q].at \in Import!OnTarget)

LEMMA OtherFollows ==
  ASSUME ImportInv, NEW q \in Commands, DisturbedOnly(q), file' = file,
         signIns' \in Nat, signIns <= signIns'
  PROVE  Follows(import[q])'
<1>1. PICK old, more : old = import[q] /\ more = import'[q]
  OBVIOUS
<1>2. Follows(old) /\ old \in RunRecords /\ more \in RunRecords /\ signIns \in Nat
  BY <1>1, RunTypes DEF DisturbedOnly
<1>3. /\ more.at = old.at /\ more.kind = old.kind /\ more.snap = old.snap
      /\ more.seen = old.seen /\ more.cut = old.cut /\ more.ended = old.ended
      /\ more.excused = old.excused /\ (old.disturbed => more.disturbed)
      /\ old.at \in Import!OnTarget => more.disturbed
  BY <1>1 DEF DisturbedOnly
<1>4. Follows(more)'
  BY <1>2, <1>3, FollowsOn
<1> QED
  BY <1>1, <1>4 DEF Follows

LEMMA PrepareKeeps ==
  ASSUME ImportInv, NEW r \in Commands, Import!Prepare(r)
  PROVE  ImportInv'
<1>1. /\ import[r].at = "prepare" /\ source' = source /\ file' = file
      /\ production' = production /\ signIns' = signIns /\ writes' = writes
  BY DEF Import!Prepare, Import!At, Import!bounds
<1>2. /\ import[r] \in RunRecords /\ Follows(import[r]) /\ sessionRows \subseteq 1 .. signIns
      /\ sessionRows \subseteq Nat /\ signIns \in Nat /\ import[r].cut \subseteq 1 .. signIns
      /\ signIns \in 0 .. MaxSessions
  BY RunTypes
<1>3. CASE /\ target' = Import!Empty /\ sessionRows' = {}
           /\ Import!Disturb(r, [import[r] EXCEPT !.at = "begin", !.ended = sessionRows], Import!OnTarget)
  <2>1. PICK run : run = [import[r] EXCEPT !.at = "begin", !.ended = sessionRows]
    OBVIOUS
  <2>2. Import!Disturb(r, run, Import!OnTarget)
    BY <1>3, <2>1
  <2>3. /\ run.at = "begin" /\ run.kind = import[r].kind /\ run.ended = sessionRows
        /\ run.cut = import[r].cut /\ run \in RunRecords
    BY <1>2, <2>1 DEF RunRecords, Labels
  <2>4. /\ import' \in [Commands -> RunRecords] /\ import'[r] = run
        /\ \A q \in Commands \ {r} : DisturbedOnly(q)
    BY <2>2, <2>3, DisturbIs DEF DisturbedOnly
  <2>5. Follows(run)'
    BY <1>1, <1>2, <2>3 DEF Follows
  <2>6. ASSUME NEW q \in Commands PROVE Follows(import[q])'
    <3>1. CASE q = r
      <4>1. import'[q] = run
        BY <2>4, <3>1
      <4> QED
        BY <2>5, <4>1 DEF Follows
    <3>2. CASE q # r
      BY <1>1, <1>2, <2>4, <3>2, OtherFollows
    <3> QED
      BY <3>1, <3>2
  <2>7. SessionsKnown'
    <3>1. \A e : HasEnded(e)' <=> HasEnded(e) \/ e \in sessionRows
      <4>1. import[r].ended = {}
        BY <1>1, <1>2 DEF Follows
      <4>2. \A q \in Commands : q # r => import'[q].ended = import[q].ended
        BY <2>4 DEF DisturbedOnly
      <4>3. import'[r].ended = sessionRows
        BY <2>3, <2>4
      <4> QED
        BY <4>1, <4>2, <4>3 DEF HasEnded
    <3> QED
      BY <1>1, <1>3, <3>1 DEF SessionsKnown, ImportInv
  <2>8. Import!Closed(target)'
    BY <1>3, ImportGiven DEF Import!Closed, Import!IsRow
  <2>9. /\ source' \in Worlds /\ target' \in Import!Database /\ production' \in BOOLEAN
        /\ file' \in [kind : {"none", "whole", "broken"}, db : Import!Database]
        /\ signIns' \in 0 .. MaxSessions /\ sessionRows' \subseteq Nat
    BY <1>1, <1>2, <1>3, ImportGiven DEF ImportInv, ImportTypes
  <2> QED
    BY <2>4, <2>6, <2>7, <2>8, <2>9, ImportStepKeeps
<1>4. CASE UNCHANGED <<target, sessionRows>> /\ Import!Goes(r, "begin")
  <2>1. PICK run : run = [import[r] EXCEPT !.at = "begin"]
    OBVIOUS
  <2>2. "begin" \in Labels
    BY DEF Labels
  <2>3. /\ run \in RunRecords /\ run.at = "begin" /\ run.kind = import[r].kind
        /\ run.ended = import[r].ended /\ run.cut = import[r].cut
    BY <2>1, <2>2, GoesIs
  <2>4. Follows(run)
    BY <1>1, <1>2, <2>3 DEF Follows
  <2>5. Import!Becomes(r, run)
    BY <1>4, <2>1 DEF Import!Goes
  <2>6. UNCHANGED <<Import!databases, file, Import!bounds>>
    BY <1>1, <1>4 DEF Import!databases, Import!bounds
  <2> QED
    BY <2>3, <2>4, <2>5, <2>6, RunGoes
<1> QED
  BY <1>3, <1>4 DEF Import!Prepare

LEMMA CommitKeeps ==
  ASSUME ImportInv, NEW r \in Commands, Import!Commit(r)
  PROVE  ImportInv'
<1>1. PICK run : run = [import[r] EXCEPT !.at = "stores read",
                          !.ended = import[r].ended \cup import[r].cut,
                          !.excused = Import!Other(target, import[r].snap)]
  OBVIOUS
<1>2. /\ import[r].at = "import" /\ Import!Closed(Import!Upserted(target, import[r].snap))
      /\ target' = Import!Upserted(target, import[r].snap)
      /\ sessionRows' = sessionRows \ import[r].cut
      /\ source' = source /\ file' = file /\ production' = production /\ signIns' = signIns
  BY DEF Import!Commit, Import!At, Import!bounds, Import!Deferred
<1>3. Import!Disturb(r, run, Import!OnTarget)
  BY <1>1 DEF Import!Commit
<1>4. /\ import[r] \in RunRecords /\ Follows(import[r]) /\ sessionRows \subseteq 1 .. signIns
      /\ sessionRows \subseteq Nat /\ signIns \in Nat /\ import[r].cut \subseteq 1 .. signIns
      /\ import[r].ended \subseteq 1 .. signIns /\ import[r].snap \in Import!Database
      /\ import[r].cut \subseteq Nat /\ import[r].ended \subseteq Nat
      /\ target \in Import!Database /\ signIns \in 0 .. MaxSessions
  BY RunTypes
<1>5. Import!Other(target, import[r].snap) \in BOOLEAN
  BY DEF Import!Other
<1>6. /\ run.at = "stores read" /\ run.kind = import[r].kind
      /\ run.ended = import[r].ended \cup import[r].cut
      /\ run.cut = import[r].cut /\ run.snap = import[r].snap
      /\ run.excused = Import!Other(target, import[r].snap)
  BY <1>1, <1>4, <1>5 DEF RunRecords
<1>7. run \in RunRecords
  BY <1>1, <1>4, <1>5 DEF RunRecords, Labels
<1>8. /\ import' \in [Commands -> RunRecords] /\ import'[r] = run
      /\ \A q \in Commands \ {r} : DisturbedOnly(q)
  BY <1>3, <1>7, DisturbIs DEF DisturbedOnly
<1>9. ~run.excused => target' = run.snap
  BY <1>2, <1>4, <1>6, UpsertOfAll
<1>10. Follows(run)'
  BY <1>2, <1>4, <1>6, <1>9 DEF Follows
<1>11. ASSUME NEW q \in Commands PROVE Follows(import[q])'
  <2>1. CASE q = r
    <3>1. import'[q] = run
      BY <1>8, <2>1
    <3> QED
      BY <1>10, <3>1 DEF Follows
  <2>2. CASE q # r
    BY <1>2, <1>4, <1>8, <2>2, OtherFollows
  <2> QED
    BY <2>1, <2>2
<1>12. SessionsKnown'
  <2>1. \A e : HasEnded(e)' <=> HasEnded(e) \/ e \in import[r].cut
    <3>1. \A q \in Commands : q # r => import'[q].ended = import[q].ended
      BY <1>8 DEF DisturbedOnly
    <3>2. import'[r].ended = import[r].ended \cup import[r].cut
      BY <1>6, <1>8
    <3> QED
      BY <3>1, <3>2 DEF HasEnded
  <2> QED
    BY <1>2, <2>1 DEF SessionsKnown, ImportInv
<1>13. Import!Closed(target)'
  BY <1>2 DEF Import!Closed, Import!IsRow
<1>14. /\ source' \in Worlds /\ target' \in Import!Database /\ production' \in BOOLEAN
       /\ file' \in [kind : {"none", "whole", "broken"}, db : Import!Database]
       /\ signIns' \in 0 .. MaxSessions /\ sessionRows' \subseteq Nat
  BY <1>2, <1>4, UpsertTypes DEF ImportInv, ImportTypes
<1> QED
  BY <1>8, <1>11, <1>12, <1>13, <1>14, ImportStepKeeps

LEMMA TargetWritesKeeps ==
  ASSUME ImportInv, Import!TargetWrites
  PROVE  ImportInv'
<1>1. /\ target' \in Worlds /\ source' = source /\ file' = file /\ production' = production
      /\ sessionRows' = sessionRows /\ signIns' = signIns
      /\ import' = [r \in Commands |-> [import[r] EXCEPT !.disturbed =
                                      import[r].disturbed \/ import[r].at \in Import!OnTarget]]
  BY DEF Import!TargetWrites
<1>2. \A q \in Commands : import[q] \in RunRecords
  BY RunTypes
<1>3. ASSUME NEW q \in Commands PROVE DisturbedOnly(q)
  <2>1. PICK b \in BOOLEAN : b = (import[q].disturbed \/ import[q].at \in Import!OnTarget)
    BY <1>2 DEF RunRecords
  <2>2. import'[q] = [import[q] EXCEPT !.disturbed = b] /\ import[q] \in RunRecords
    BY <1>1, <1>2, <2>1
  <2> QED
    BY <2>1, <2>2 DEF RunRecords, DisturbedOnly
<1>4. import' \in [Commands -> RunRecords]
  <2>1. import' = [q \in Commands |-> import'[q]]
    BY <1>1
  <2> QED
    BY <1>3, <2>1 DEF DisturbedOnly
<1>5. ASSUME NEW q \in Commands PROVE Follows(import[q])'
  <2>1. signIns \in Nat
    BY RunTypes
  <2> QED
    BY <1>1, <1>3, <2>1, OtherFollows
<1>6. SessionsKnown'
  <2>1. \A q \in Commands : import'[q].ended = import[q].ended
    BY <1>3 DEF DisturbedOnly
  <2> QED
    BY <1>1, <2>1 DEF SessionsKnown, HasEnded, ImportInv
<1>7. Import!Closed(target)'
  BY <1>1, ImportGiven DEF Import!Closed, Import!IsRow
<1>8. /\ source' \in Worlds /\ target' \in Import!Database /\ production' \in BOOLEAN
      /\ file' \in [kind : {"none", "whole", "broken"}, db : Import!Database]
      /\ signIns' \in 0 .. MaxSessions /\ sessionRows' \subseteq Nat
  <2>1. sessionRows \subseteq Nat
    BY ImportGiven DEF ImportInv, ImportTypes
  <2> QED
    BY <1>1, <2>1, ImportGiven DEF ImportInv, ImportTypes
<1> QED
  BY <1>4, <1>5, <1>6, <1>7, <1>8, ImportStepKeeps

(* The app at the source, a sign-in, and no step at all.                      *)
LEMMA OutsideKeeps ==
  ASSUME ImportInv, source' \in Worlds, file' = file, target' = target,
         production' = production, import' = import, signIns' \in 0 .. MaxSessions,
         \/ signIns' = signIns /\ sessionRows' = sessionRows
         \/ signIns' = signIns + 1 /\ sessionRows' = sessionRows \cup {signIns'}
  PROVE  ImportInv'
<1>1. signIns \in Nat /\ signIns' \in Nat /\ signIns <= signIns' /\ sessionRows \subseteq Nat
  BY ImportGiven DEF ImportInv, ImportTypes
<1>2. ASSUME NEW q \in Commands PROVE Follows(import[q])'
  <2>1. PICK run : run = import[q]
    OBVIOUS
  <2>2. Follows(run) /\ run \in RunRecords /\ import'[q] = run
    BY <2>1, RunTypes
  <2>3. Follows(run)'
    BY <1>1, <2>2, FollowsOn
  <2> QED
    BY <2>2, <2>3 DEF Follows
<1>3. SessionsKnown'
  <2>1. \A e : HasEnded(e)' <=> HasEnded(e)
    BY DEF HasEnded
  <2>2. \A e : HasEnded(e) => e \in 1 .. signIns
    BY DEF HasEnded, ImportInv, Follows
  <2>3. CASE signIns' = signIns /\ sessionRows' = sessionRows
    BY <2>1, <2>3 DEF SessionsKnown, ImportInv
  <2>4. CASE signIns' = signIns + 1 /\ sessionRows' = sessionRows \cup {signIns'}
    <3>1. 1 .. signIns' = 1 .. signIns \cup {signIns'} /\ signIns' \notin 1 .. signIns
      BY <1>1, <2>4
    <3> QED
      BY <2>1, <2>2, <2>4, <3>1 DEF SessionsKnown, ImportInv
  <2> QED
    BY <2>3, <2>4
<1>4. Import!Closed(target)'
  BY DEF Import!Closed, Import!IsRow, ImportInv
<1>5. /\ target' \in Import!Database /\ production' \in BOOLEAN
      /\ file' \in [kind : {"none", "whole", "broken"}, db : Import!Database]
      /\ import' \in [Commands -> RunRecords] /\ sessionRows' \subseteq Nat
  BY <1>1 DEF ImportInv, ImportTypes
<1> QED
  BY <1>2, <1>3, <1>4, <1>5, ImportStepKeeps

LEMMA ImportStep ==
  ASSUME ImportInv, Import!Next \/ UNCHANGED Import!importVars
  PROVE  ImportInv'
<1>1. CASE Import!SourceWrites
  BY <1>1, OutsideKeeps DEF Import!SourceWrites, ImportInv, ImportTypes
<1>2. CASE Import!SignIn
  <2>1. signIns' \in 0 .. MaxSessions
    BY <1>2, ImportGiven DEF Import!SignIn, ImportInv, ImportTypes
  <2> QED
    BY <1>2, <2>1, OutsideKeeps DEF Import!SignIn, ImportInv, ImportTypes
<1>3. CASE UNCHANGED Import!importVars
  BY <1>3, OutsideKeeps DEF Import!importVars, ImportInv, ImportTypes
<1> QED
  BY <1>1, <1>2, <1>3, TargetWritesKeeps, StartKeeps, CollectStoresKeeps,
     CollectDraftsKeeps,
     WriteExportKeeps, ReadExportKeeps, DryRunKeeps, GuardKeeps, PrepareKeeps,
     BeginKeeps,
     CommitKeeps, RollBackKeeps, ReadStoresKeeps, ReadDraftsKeeps, ImportBreakKeeps
     DEF Import!Next, Import!Step

LEMMA ImportStarts == Import!Init => ImportInv
<1> SUFFICES ASSUME Import!Init PROVE ImportInv
  OBVIOUS
<1>1. Import!NoRun \in RunRecords /\ Follows(Import!NoRun) /\ Import!NoRun.ended = {}
  BY ImportGiven DEF Import!NoRun, RunRecords, Labels, Follows
<1>2. ImportTypes
  BY <1>1, ImportGiven DEF Import!Init, ImportTypes
<1>3. \A r \in Commands : Follows(import[r]) /\ import[r].ended = {}
  BY <1>1 DEF Import!Init
<1>4. SessionsKnown
  BY <1>3 DEF SessionsKnown, HasEnded, Import!Init
<1>5. Import!Closed(target)
  BY ImportGiven DEF Import!Init
<1> QED
  BY <1>2, <1>3, <1>4, <1>5 DEF ImportInv

LEMMA ImportIsSoundThen ==
  ASSUME ImportInv
  PROVE  Import!TypeOK /\ Import!ImportIsSound
<1>1. Import!TypeOK
  BY DEF ImportInv, ImportTypes, Import!TypeOK, RunRecords, Labels
<1>2. Import!PassedMeansEqual
  BY DEF ImportInv, Follows, Import!PassedMeansEqual, Import!At
<1>3. Import!FailureHasReason
  BY DEF ImportInv, Follows, Import!FailureHasReason, Import!At
<1>4. Import!SessionsEndWithTheImport
  <2>1. \A e : e \in UNION {import[r].ended : r \in Commands} <=> HasEnded(e)
    BY DEF HasEnded
  <2>2. signIns \in Nat /\ sessionRows \subseteq Nat
    BY ImportGiven DEF ImportInv, ImportTypes
  <2>3. \A e \in Nat : e \in sessionRows <=> e \in 1 .. signIns /\ ~HasEnded(e)
    BY DEF SessionsKnown, ImportInv
  <2>4. \A e : e \in 1 .. signIns => e \in Nat
    BY <2>2
  <2>5. sessionRows = (1 .. signIns) \ UNION {import[r].ended : r \in Commands}
    BY <2>1, <2>2, <2>3, <2>4
  <2> QED
    BY <2>5 DEF Import!SessionsEndWithTheImport
<1> QED
  BY <1>1, <1>2, <1>3, <1>4 DEF Import!ImportIsSound, Import!TargetIsClosed, ImportInv
-------------------------------------------------------------------------------
(* The posting screen.                                                    *)

RequestRecords ==
  [kind : {"none", "draft", "reply"}, photos : 0 .. MaxPicks,
   session : 0 .. MaxCalls, stale : BOOLEAN]
TurnRecords == [speaker : {"owner", "assistant"}, reply : Posting!Calls, photos : Posting!Picks]

Owns(n) == \E j \in 1 .. Len(chat) : chat[j].speaker = "owner" /\ chat[j].reply = n
Followed(c) ==
  /\ calls[c].photos = photos
  /\ calls[c].kind = "reply" => Owns(c)
  /\ ~late /\ calls[c].kind = "reply" /\ calls[c].session # 0 => Owns(calls[c].session)
RequestFollows(c) ==
  calls[c].kind # "none" =>
    photos # 0 /\ calls[c].photos # 0 /\ (~calls[c].stale => Followed(c))

(* The invariant of the posting screen.                                     *)
WorkInv ==
  /\ Posting!TypeOK /\ Len(calls) <= MaxCalls /\ Posting!WorkspaceIsSound
  /\ marketing.kind = "ready" => photos # 0
  /\ \A c \in 1 .. Len(calls) : RequestFollows(c)

LEMMA PostingBounds == MaxPicks \in Nat /\ MaxCalls \in Nat
  BY PartsAssumption DEF Posting!WorkspaceAssumption

LEMMA Lengths ==
  ASSUME WorkInv
  PROVE  /\ calls \in Seq(RequestRecords) /\ chat \in Seq(TurnRecords)
         /\ Len(calls) \in Nat /\ DOMAIN calls = 1 .. Len(calls)
         /\ Len(chat) \in Nat /\ DOMAIN chat = 1 .. Len(chat)
         /\ \A c \in 1 .. Len(calls) : calls[c] \in RequestRecords
         /\ \A i \in 1 .. Len(chat) : chat[i] \in TurnRecords
<1>1. calls \in Seq(RequestRecords) /\ chat \in Seq(TurnRecords)
  BY DEF WorkInv, Posting!TypeOK, RequestRecords, TurnRecords
<1> QED
  BY <1>1, LenProperties, ElementOfSeq

LEMMA MarkStaleMarks ==
  ASSUME WorkInv
  PROVE  /\ Posting!MarkStale \in Seq(RequestRecords) /\ Len(Posting!MarkStale) = Len(calls)
         /\ \A c \in 1 .. Len(calls) :
              /\ Posting!MarkStale[c].kind = calls[c].kind
              /\ Posting!MarkStale[c].photos = calls[c].photos
              /\ Posting!MarkStale[c].kind # "none" => Posting!MarkStale[c].stale
<1>1. Posting!MarkStale = [c \in 1 .. Len(calls) |-> Posting!MarkStale[c]]
  BY Lengths DEF Posting!MarkStale
<1>2. ASSUME NEW c \in 1 .. Len(calls)
      PROVE  /\ Posting!MarkStale[c] \in RequestRecords
             /\ Posting!MarkStale[c].kind = calls[c].kind
             /\ Posting!MarkStale[c].photos = calls[c].photos
             /\ Posting!MarkStale[c].kind # "none" => Posting!MarkStale[c].stale
  <2>1. Posting!MarkStale[c] = IF calls[c].kind = "none" THEN calls[c]
                       ELSE [calls[c] EXCEPT !.stale = TRUE]
    BY Lengths DEF Posting!MarkStale
  <2>2. calls[c] \in RequestRecords
    BY Lengths
  <2> QED
    BY <2>1, <2>2 DEF RequestRecords
<1>3. Posting!MarkStale \in [1 .. Len(calls) -> RequestRecords]
  BY <1>1, <1>2
<1>4. Posting!MarkStale \in Seq(RequestRecords)
  BY <1>3, Lengths, SeqDef
<1>5. Len(Posting!MarkStale) = Len(calls)
  BY <1>1, <1>4, Lengths, LenProperties
<1> QED
  BY <1>2, <1>4, <1>5

LEMMA SentAppends ==
  ASSUME NEW S, NEW s \in Seq(S), NEW e \in S
  PROVE  /\ Append(s, e) \in Seq(S) /\ Len(Append(s, e)) = Len(s) + 1
         /\ DOMAIN Append(s, e) = 1 .. Len(s) + 1
         /\ \A i \in 1 .. Len(s) : Append(s, e)[i] = s[i]
         /\ Append(s, e)[Len(s) + 1] = e
         /\ Len(s) \in Nat
  BY AppendProperties, LenProperties

LEMMA NoCallIs == Posting!NoCall \in RequestRecords /\ Posting!NoCall.stale = FALSE
<1>1. Posting!NoCall = [kind |-> "none", photos |-> 0, session |-> 0, stale |-> FALSE]
  BY DEF Posting!NoCall
<1> QED
  BY <1>1, PostingBounds DEF RequestRecords

LEMMA RequestIs ==
  ASSUME NEW n \in 0 .. MaxPicks, NEW s \in 0 .. MaxCalls
  PROVE  LET asked == [Posting!NoCall EXCEPT !.kind = "draft", !.photos = n]
             replied == [Posting!NoCall EXCEPT !.kind = "reply", !.photos = n, !.session = s]
         IN  /\ asked \in RequestRecords /\ asked.kind = "draft" /\ asked.photos = n
             /\ asked.stale = FALSE
             /\ replied \in RequestRecords /\ replied.kind = "reply"
             /\ replied.photos = n /\ replied.session = s
  BY NoCallIs DEF RequestRecords

(* A step that forgets the conversation: the requests before it are stale.     *)
LEMMA ForgettingKeeps ==
  ASSUME WorkInv, Posting!ForgetConversation, late' = late,
         photos' \in 0 .. MaxPicks, picks' \in 0 .. MaxPicks, reading' \subseteq Posting!Picks,
         view' \in {"photo", "posting"}, photos # 0 => photos' # 0,
         NEW kind \in {"idle", "error"}, marketing' = Posting!Empty(kind),
         calls' = Posting!MarkStale
  PROVE  WorkInv'
<1>1. chat' = <<>> /\ talk' = 0 /\ decision' = "idle"
  BY DEF Posting!ForgetConversation
<1>2. Posting!TypeOK'
  BY <1>1, MarkStaleMarks, PostingBounds
  DEF Posting!TypeOK, WorkInv, Posting!Empty, RequestRecords
<1>3. (Len(calls) <= MaxCalls)' /\ (\A c \in 1 .. Len(calls) : RequestFollows(c))'
  BY MarkStaleMarks DEF WorkInv, RequestFollows
<1>4. Posting!WorkspaceIsSound'
  BY <1>1 DEF Posting!WorkspaceIsSound, Posting!ScreenIsOfOneDraft,
              Posting!AllIsOfThePhotographs, Posting!ChatIsInOrder,
     Posting!ChatIsOfTheSession, Posting!NothingLoadsForEver, Posting!Turns,
     Posting!Empty
<1> QED
  BY <1>2, <1>3, <1>4 DEF WorkInv, Posting!Empty

LEMMA SubmitSends ==
  ASSUME WorkInv, Posting!ForgetConversation, photos # 0, Len(calls) < MaxCalls,
         marketing' = Posting!Empty("loading"),
         UNCHANGED <<photos, picks, reading, view, late>>,
         calls' = Posting!Sent([Posting!NoCall EXCEPT !.kind = "draft", !.photos = photos])
  PROVE  WorkInv'
<1> DEFINE request == [Posting!NoCall EXCEPT !.kind = "draft", !.photos = photos]
           last == Len(calls) + 1
<1>1. chat' = <<>> /\ talk' = 0 /\ decision' = "idle"
  BY DEF Posting!ForgetConversation
<1>2. request \in RequestRecords /\ request.kind = "draft" /\ request.photos = photos
      /\ request.stale = FALSE
  BY RequestIs DEF WorkInv, Posting!TypeOK
<1>3. /\ calls' \in Seq(RequestRecords) /\ Len(calls') = last /\ DOMAIN calls' = 1 .. last
      /\ \A c \in 1 .. Len(calls) : calls'[c] = Posting!MarkStale[c]
      /\ calls'[last] = request
  <2> HIDE DEF request
  <2> QED
    BY <1>2, MarkStaleMarks, SentAppends DEF Posting!Sent, request
<1> HIDE DEF request
<1>4. Posting!TypeOK'
  BY <1>1, <1>3, PostingBounds
  DEF Posting!TypeOK, WorkInv, Posting!Empty, RequestRecords
<1>5. Len(calls)' <= MaxCalls
  BY <1>3, Lengths, PostingBounds
<1>6. (\A c \in 1 .. Len(calls) : RequestFollows(c))'
  <2> SUFFICES ASSUME NEW c \in 1 .. last
               PROVE  RequestFollows(c)'
    BY <1>3
  <2>1. CASE c = last
    BY <2>1, <1>2, <1>3 DEF RequestFollows, Followed
  <2>2. CASE c # last
    <3>1. c \in 1 .. Len(calls)
      BY <2>2, Lengths
    <3> QED
      BY <3>1, <1>3, MarkStaleMarks DEF RequestFollows, WorkInv
  <2> QED
    BY <2>1, <2>2
<1>7. Posting!WorkspaceIsSound'
  <2>1. last \in DOMAIN calls' /\ calls'[last].kind = "draft"
    BY <1>2, <1>3, Lengths
  <2>2. \E c \in Posting!Flying' : calls'[c].kind = "draft"
    BY <2>1 DEF Posting!Flying
  <2> QED
    BY <1>1, <2>2 DEF Posting!WorkspaceIsSound, Posting!ScreenIsOfOneDraft,
                      Posting!AllIsOfThePhotographs,
       Posting!ChatIsInOrder, Posting!ChatIsOfTheSession, Posting!NothingLoadsForEver,
       Posting!Turns, Posting!Empty
<1> QED
  BY <1>4, <1>5, <1>6, <1>7 DEF WorkInv, Posting!Empty

LEMMA WorkStarts ==
  ASSUME Posting!Init PROVE WorkInv
<1>1. Posting!TypeOK
  <2>1. calls \in Seq(RequestRecords) /\ chat \in Seq(TurnRecords)
    BY EmptySeq DEF Posting!Init
  <2>2. marketing \in [kind : {"idle", "loading", "error", "ready"},
                  photos : 0 .. MaxPicks, asks : BOOLEAN]
    BY PostingBounds DEF Posting!Init, Posting!Empty
  <2>3. /\ photos \in 0 .. MaxPicks /\ picks \in 0 .. MaxPicks
        /\ reading \subseteq Posting!Picks
        /\ decision \in {"idle", "loading", "error"} /\ talk \in 0 .. MaxCalls
        /\ view \in {"photo", "posting"} /\ late \in BOOLEAN
    <3>1. photos = 0 /\ picks = 0 /\ talk = 0 /\ reading = {}
      BY DEF Posting!Init
    <3>2. decision = "idle" /\ view = "photo" /\ late = FALSE
      BY DEF Posting!Init
    <3>3. photos \in 0 .. MaxPicks /\ picks \in 0 .. MaxPicks /\ talk \in 0 .. MaxCalls
      BY <3>1, PostingBounds
    <3>4. reading \subseteq Posting!Picks
      BY <3>1
    <3> QED
      BY <3>2, <3>3, <3>4
  <2> QED
    BY <2>1, <2>2, <2>3 DEF Posting!TypeOK, RequestRecords, TurnRecords
<1>2. Posting!WorkspaceIsSound
  BY DEF Posting!Init, Posting!WorkspaceIsSound, Posting!ScreenIsOfOneDraft,
         Posting!AllIsOfThePhotographs, Posting!ChatIsInOrder,
     Posting!ChatIsOfTheSession, Posting!NothingLoadsForEver, Posting!Turns,
     Posting!Empty
<1> QED
  BY <1>1, <1>2, PostingBounds DEF WorkInv, Posting!Init, Posting!Empty

(* What a step may change while the requests stay: nothing that they name.     *)
LEMMA ScreenMoves ==
  ASSUME WorkInv, UNCHANGED <<photos, marketing, chat, decision, talk, calls, late>>,
         picks' \in 0 .. MaxPicks, reading' \subseteq Posting!Picks,
         view' \in {"photo", "posting"}
  PROVE  WorkInv'
<1>1. Posting!TypeOK'
  BY DEF WorkInv, Posting!TypeOK
<1>2. Posting!WorkspaceIsSound'
  BY DEF WorkInv, Posting!WorkspaceIsSound, Posting!ScreenIsOfOneDraft,
         Posting!AllIsOfThePhotographs,
     Posting!ChatIsInOrder, Posting!ChatIsOfTheSession, Posting!NothingLoadsForEver,
     Posting!Turns, Posting!Flying
<1>3. (\A c \in 1 .. Len(calls) : RequestFollows(c))'
  BY DEF WorkInv, RequestFollows, Followed, Owns
<1> QED
  BY <1>1, <1>2, <1>3 DEF WorkInv

LEMMA RefuseFilesKeeps ==
  ASSUME WorkInv, Posting!RefuseFiles PROVE WorkInv'
<1>1. Posting!TypeOK'
  BY PostingBounds DEF WorkInv, Posting!TypeOK, Posting!RefuseFiles, Posting!Empty
<1>2. Posting!WorkspaceIsSound'
  BY DEF Posting!RefuseFiles, Posting!Empty, WorkInv, Posting!WorkspaceIsSound,
         Posting!ScreenIsOfOneDraft,
     Posting!AllIsOfThePhotographs, Posting!ChatIsInOrder, Posting!ChatIsOfTheSession,
     Posting!NothingLoadsForEver, Posting!Turns,
     Posting!Flying
<1>3. (\A c \in 1 .. Len(calls) : RequestFollows(c))'
  BY DEF Posting!RefuseFiles, WorkInv, RequestFollows, Followed, Owns
<1> QED
  BY <1>1, <1>2, <1>3 DEF WorkInv, Posting!RefuseFiles, Posting!Empty

LEMMA PhotographsKeep ==
  ASSUME WorkInv,
         Posting!PickFiles \/ Posting!FilesRead \/ Posting!SetPrimaryAsset \/ Posting!Turn
  PROVE  WorkInv'
<1>1. CASE Posting!PickFiles
  <2>1. picks' \in 0 .. MaxPicks /\ reading' \subseteq Posting!Picks
    BY <1>1, PostingBounds DEF Posting!PickFiles, WorkInv, Posting!TypeOK, Posting!Picks
  <2> QED
    BY <1>1, <2>1, ScreenMoves DEF Posting!PickFiles, WorkInv, Posting!TypeOK
<1>2. CASE Posting!FilesRead
  <2>1. PICK p \in reading :
          /\ reading' = reading \ {p}
          /\ \/ photos' = p /\ Posting!OnImagesSelected /\ calls' = Posting!MarkStale
             \/ UNCHANGED <<photos, marketing, chat, decision, talk, calls>>
          /\ UNCHANGED <<picks, view, late>>
    BY <1>2 DEF Posting!FilesRead
  <2>2. p \in 1 .. MaxPicks /\ reading' \subseteq Posting!Picks
    BY <2>1 DEF WorkInv, Posting!TypeOK, Posting!Picks
  <2>3. CASE photos' = p /\ Posting!OnImagesSelected /\ calls' = Posting!MarkStale
    <3>1. photos' \in 0 .. MaxPicks /\ photos' # 0
      BY <2>2, <2>3, PostingBounds
    <3> QED
      BY <2>1, <2>2, <2>3, <3>1, ForgettingKeeps
      DEF Posting!OnImagesSelected, WorkInv, Posting!TypeOK
  <2>4. CASE UNCHANGED <<photos, marketing, chat, decision, talk, calls>>
    BY <2>1, <2>2, <2>4, ScreenMoves DEF WorkInv, Posting!TypeOK
  <2> QED
    BY <2>1, <2>3, <2>4
<1>3. CASE Posting!SetPrimaryAsset
  <2>1. picks' \in 0 .. MaxPicks /\ picks' # 0
    BY <1>3, PostingBounds DEF Posting!SetPrimaryAsset, WorkInv, Posting!TypeOK
  <2> QED
    BY <1>3, <2>1, ForgettingKeeps
    DEF Posting!SetPrimaryAsset, Posting!OnImagesSelected, WorkInv, Posting!TypeOK
<1>4. CASE Posting!Turn
  BY <1>4, ScreenMoves DEF Posting!Turn, WorkInv, Posting!TypeOK
<1> QED
  BY <1>1, <1>2, <1>3, <1>4

LEMMA PostingSubmitKeeps ==
  ASSUME WorkInv, Posting!SubmitDraft PROVE WorkInv'
<1>1. CASE photos = 0
  BY <1>1, ForgettingKeeps DEF Posting!SubmitDraft, WorkInv, Posting!TypeOK
<1>2. CASE photos # 0
  BY <1>2, SubmitSends DEF Posting!SubmitDraft
<1> QED
  BY <1>1, <1>2

(* An answer ends its own request and leaves the others as they are.          *)
LEMMA AnsweredLeaves ==
  ASSUME WorkInv, NEW c \in 1 .. Len(calls), Posting!Answered(c), photos' = photos,
         \A n : Owns(n) => Owns(n)'
  PROVE  /\ calls' \in Seq(RequestRecords) /\ Len(calls') = Len(calls)
         /\ DOMAIN calls' = 1 .. Len(calls)
         /\ \A d \in 1 .. Len(calls) : d # c => calls'[d] = calls[d]
         /\ (\A d \in 1 .. Len(calls) : RequestFollows(d))'
         /\ late' \in BOOLEAN
         /\ ~late' => ~late /\ ~calls[c].stale
<1>1. Posting!NoCall \in RequestRecords
  BY PostingBounds DEF Posting!NoCall, RequestRecords
<1>2. calls' = [calls EXCEPT ![c] = Posting!NoCall] /\ late' = (late \/ calls[c].stale)
  BY DEF Posting!Answered
<1>3. /\ calls' \in Seq(RequestRecords) /\ Len(calls') = Len(calls)
      /\ \A d \in 1 .. Len(calls) : calls'[d] = IF d = c THEN Posting!NoCall ELSE calls[d]
  <2>1. calls \in Seq(RequestRecords) /\ c \in 1 .. Len(calls)
    BY Lengths
  <2> QED
    BY <1>1, <1>2, <2>1, ExceptSeq
<1>4. ASSUME NEW d \in 1 .. Len(calls)
      PROVE  RequestFollows(d)'
  <2>1. CASE d = c
    BY <1>3, <2>1 DEF RequestFollows, Posting!NoCall
  <2>2. CASE d # c
    <3>1. calls'[d] = calls[d] /\ RequestFollows(d) /\ (~late' => ~late)
      BY <1>2, <1>3, <2>2 DEF WorkInv
    <3> QED
      BY <3>1 DEF RequestFollows, Followed
  <2> QED
    BY <2>1, <2>2
<1>5. DOMAIN calls' = 1 .. Len(calls)
  BY <1>3, LenProperties
<1>6. calls[c] \in RequestRecords /\ late \in BOOLEAN
  BY Lengths DEF WorkInv, Posting!TypeOK
<1>7. late' \in BOOLEAN /\ (~late' => ~late /\ ~calls[c].stale)
  BY <1>2, <1>6 DEF RequestRecords
<1> QED
  BY <1>3, <1>4, <1>5, <1>7

LEMMA OthersFly ==
  ASSUME WorkInv, NEW c \in 1 .. Len(calls), DOMAIN calls' = 1 .. Len(calls),
         \A d \in 1 .. Len(calls) : d # c => calls'[d] = calls[d]
  PROVE  \A d \in Posting!Flying : d # c => d \in Posting!Flying' /\ calls'[d] = calls[d]
  BY Lengths DEF Posting!Flying

LEMMA ReadyIs ==
  ASSUME WorkInv, NEW c \in 1 .. Len(calls), calls[c].kind # "none", Posting!Ready(c)
  PROVE  /\ marketing' \in [kind : {"idle", "loading", "error", "ready"},
                        photos : 0 .. MaxPicks, asks : BOOLEAN]
         /\ marketing'.kind = "ready" /\ marketing'.photos = calls[c].photos
         /\ photos # 0 /\ calls[c].photos # 0 /\ (~calls[c].stale => Followed(c))
<1>1. calls[c] \in RequestRecords /\ RequestFollows(c)
  BY Lengths DEF WorkInv
<1> QED
  BY <1>1 DEF Posting!Ready, RequestFollows, RequestRecords

LEMMA DraftAnsweredKeeps ==
  ASSUME WorkInv, NEW c \in 1 .. Len(calls), Posting!DraftAnswered(c) PROVE WorkInv'
<1>1. calls[c].kind = "draft" /\ Posting!Answered(c) /\ (Posting!Ready(c) \/ Posting!DraftFailed)
      /\ UNCHANGED <<photos, picks, reading, chat, decision, talk, view>>
  BY DEF Posting!DraftAnswered
<1>2. \A n : Owns(n) => Owns(n)'
  BY <1>1 DEF Owns
<1>3. /\ calls' \in Seq(RequestRecords) /\ Len(calls') = Len(calls)
      /\ DOMAIN calls' = 1 .. Len(calls)
      /\ \A d \in 1 .. Len(calls) : d # c => calls'[d] = calls[d]
      /\ (\A d \in 1 .. Len(calls) : RequestFollows(d))'
      /\ late' \in BOOLEAN /\ (~late' => ~late /\ ~calls[c].stale)
  BY <1>1, <1>2, AnsweredLeaves
<1>4. /\ marketing' \in [kind : {"idle", "loading", "error", "ready"},
                     photos : 0 .. MaxPicks, asks : BOOLEAN]
      /\ marketing'.kind \in {"error", "ready"}
      /\ marketing'.kind = "ready" =>
           photos # 0 /\ (~calls[c].stale => marketing'.photos = photos)
  <2>1. CASE Posting!Ready(c)
    BY <1>1, <2>1, ReadyIs DEF Followed
  <2>2. CASE Posting!DraftFailed
    BY <2>2, PostingBounds DEF Posting!DraftFailed, Posting!Empty
  <2> QED
    BY <1>1, <2>1, <2>2
<1>5. Posting!TypeOK'
  BY <1>1, <1>3, <1>4 DEF WorkInv, Posting!TypeOK, RequestRecords
<1>6. Posting!ScreenIsOfOneDraft'
  BY <1>1, <1>3, <1>4 DEF WorkInv, Posting!WorkspaceIsSound, Posting!ScreenIsOfOneDraft,
     Posting!AllIsOfThePhotographs, Posting!ChatIsInOrder, Posting!ChatIsOfTheSession,
     Posting!Turns
<1>7. Posting!NothingLoadsForEver'
  <2>1. \A d \in Posting!Flying : d # c => d \in Posting!Flying' /\ calls'[d] = calls[d]
    BY <1>3, OthersFly
  <2> QED
    BY <1>1, <1>4, <2>1
    DEF WorkInv, Posting!WorkspaceIsSound, Posting!NothingLoadsForEver
<1> QED
  BY <1>1, <1>3, <1>4, <1>5, <1>6, <1>7 DEF WorkInv, Posting!WorkspaceIsSound

LEMMA ReplyFailedKeeps ==
  ASSUME WorkInv, NEW c \in 1 .. Len(calls), Posting!ReplyFailed(c) PROVE WorkInv'
<1>1. calls[c].kind = "reply" /\ Posting!Answered(c) /\ decision' = "error"
      /\ UNCHANGED <<photos, picks, reading, marketing, chat, talk, view>>
  BY DEF Posting!ReplyFailed
<1>2. \A n : Owns(n) => Owns(n)'
  BY <1>1 DEF Owns
<1>3. /\ calls' \in Seq(RequestRecords) /\ Len(calls') = Len(calls)
      /\ DOMAIN calls' = 1 .. Len(calls)
      /\ \A d \in 1 .. Len(calls) : d # c => calls'[d] = calls[d]
      /\ (\A d \in 1 .. Len(calls) : RequestFollows(d))'
      /\ late' \in BOOLEAN /\ (~late' => ~late /\ ~calls[c].stale)
  BY <1>1, <1>2, AnsweredLeaves
<1>4. Posting!TypeOK'
  BY <1>1, <1>3 DEF WorkInv, Posting!TypeOK, RequestRecords
<1>5. Posting!ScreenIsOfOneDraft'
  BY <1>1, <1>3 DEF WorkInv, Posting!WorkspaceIsSound, Posting!ScreenIsOfOneDraft,
     Posting!AllIsOfThePhotographs, Posting!ChatIsInOrder, Posting!ChatIsOfTheSession,
     Posting!Turns
<1>6. Posting!NothingLoadsForEver'
  <2>1. \A d \in Posting!Flying : d # c => d \in Posting!Flying' /\ calls'[d] = calls[d]
    BY <1>3, OthersFly
  <2> QED
    BY <1>1, <2>1 DEF WorkInv, Posting!WorkspaceIsSound, Posting!NothingLoadsForEver
<1> QED
  BY <1>1, <1>3, <1>4, <1>5, <1>6 DEF WorkInv, Posting!WorkspaceIsSound

(* A turn that is added stands after the others.                              *)
LEMMA TurnAdded ==
  ASSUME WorkInv, NEW speaker \in {"owner", "assistant"}, NEW n \in 1 .. MaxCalls,
         NEW of \in 1 .. MaxPicks, chat' = Append(chat, Posting!Said(speaker, n, of))
  PROVE  /\ chat' \in Seq(TurnRecords) /\ Len(chat)' = Len(chat) + 1 /\ Len(chat) \in Nat
         /\ DOMAIN chat' = 1 .. Len(chat) + 1
         /\ \A i \in 1 .. Len(chat) : chat'[i] = chat[i]
         /\ chat'[Len(chat) + 1] = Posting!Said(speaker, n, of)
         /\ chat' # <<>>
         /\ \A m : Owns(m) => Owns(m)'
<1>1. Posting!Said(speaker, n, of) \in TurnRecords
  BY DEF Posting!Said, TurnRecords, Posting!Calls, Posting!Picks
<1>2. chat \in Seq(TurnRecords)
  BY Lengths
<1>3. /\ chat' \in Seq(TurnRecords) /\ Len(chat') = Len(chat) + 1 /\ Len(chat) \in Nat
      /\ DOMAIN chat' = 1 .. Len(chat) + 1
      /\ \A i \in 1 .. Len(chat) : chat'[i] = chat[i]
      /\ chat'[Len(chat) + 1] = Posting!Said(speaker, n, of)
  BY <1>1, <1>2, SentAppends
<1>4. \A m : Owns(m) => Owns(m)'
  BY <1>3 DEF Owns
<1>5. chat' # <<>>
  BY <1>3, EmptySeq
<1> QED
  BY <1>3, <1>4, <1>5

(* The chat stays in order when the owner speaks, or the assistant after her.  *)
LEMMA ChatGoesOn ==
  ASSUME WorkInv, ~late, NEW speaker \in {"owner", "assistant"}, NEW n \in 1 .. MaxCalls,
         photos \in 1 .. MaxPicks, chat' = Append(chat, Posting!Said(speaker, n, photos)),
         photos' = photos, speaker = "assistant" => Owns(n)
  PROVE  Posting!ChatIsInOrder' /\ \A i \in DOMAIN chat' : chat'[i].photos = photos'
<1> DEFINE last == Len(chat) + 1
<1>1. /\ Len(chat) \in Nat /\ DOMAIN chat' = 1 .. last /\ DOMAIN chat = 1 .. Len(chat)
      /\ \A i \in 1 .. Len(chat) : chat'[i] = chat[i]
      /\ chat'[last].speaker = speaker /\ chat'[last].reply = n /\ chat'[last].photos = photos
  BY TurnAdded, Lengths DEF Posting!Said
<1>2. Posting!ChatIsInOrder /\ \A i \in 1 .. Len(chat) : chat[i].photos = photos
  BY <1>1 DEF WorkInv, Posting!WorkspaceIsSound, Posting!ScreenIsOfOneDraft,
              Posting!AllIsOfThePhotographs
<1>3. ASSUME NEW i \in 1 .. last, chat'[i].speaker = "assistant"
      PROVE  \E j \in 1 .. last :
               chat'[j].speaker = "owner" /\ j < i /\ chat'[j].reply = chat'[i].reply
  <2>1. CASE i = last
    <3>1. PICK j \in 1 .. Len(chat) : chat[j].speaker = "owner" /\ chat[j].reply = n
      BY <1>1, <1>3, <2>1 DEF Owns
    <3>2. j \in 1 .. last /\ j < last
      BY <1>1
    <3> QED
      BY <1>1, <2>1, <3>1, <3>2
  <2>2. CASE i # last
    <3>1. i \in 1 .. Len(chat)
      BY <1>1, <2>2
    <3>2. PICK j \in Posting!Turns("owner") : j < i /\ chat[j].reply = chat[i].reply
      BY <1>1, <1>2, <1>3, <3>1 DEF Posting!ChatIsInOrder, Posting!Turns
    <3>3. j \in 1 .. Len(chat) /\ j \in 1 .. last /\ chat[j].speaker = "owner"
      BY <1>1, <3>2 DEF Posting!Turns
    <3> QED
      BY <1>1, <3>1, <3>2, <3>3
  <2> QED
    BY <2>1, <2>2
<1>4. \A i \in 1 .. last : chat'[i].photos = photos
  <2> TAKE i \in 1 .. last
  <2>1. i = last \/ i \in 1 .. Len(chat)
    BY <1>1
  <2> QED
    BY <1>1, <1>2, <2>1
<1>5. Posting!ChatIsInOrder'
  <2> HIDE DEF last
  <2>1. \A i \in Posting!Turns("assistant")' : i \in 1 .. last /\ chat'[i].speaker = "assistant"
    BY <1>1 DEF Posting!Turns
  <2>2. \A j \in 1 .. last : chat'[j].speaker = "owner" => j \in Posting!Turns("owner")'
    BY <1>1 DEF Posting!Turns
  <2> QED
    BY <1>3, <2>1, <2>2 DEF Posting!ChatIsInOrder
<1> QED
  BY <1>1, <1>4, <1>5

LEMMA ReplyKeeps ==
  ASSUME WorkInv, Posting!ReplyToSuggestion PROVE WorkInv'
<1> DEFINE last == Len(calls) + 1
           request == [Posting!NoCall EXCEPT !.kind = "reply", !.photos = photos, !.session = talk]
<1>1. /\ marketing.kind = "ready" /\ Len(calls) < MaxCalls
      /\ chat' = Append(chat, Posting!Said("owner", last, photos)) /\ decision' = "loading"
      /\ calls' = Append(calls, request)
      /\ UNCHANGED <<photos, picks, reading, marketing, talk, view, late>>
  BY DEF Posting!ReplyToSuggestion
<1>2. /\ request \in RequestRecords /\ request.kind = "reply" /\ request.photos = photos
      /\ request.session = talk
  <2>1. photos \in 0 .. MaxPicks /\ talk \in 0 .. MaxCalls
    BY DEF WorkInv, Posting!TypeOK
  <2> QED
    BY <2>1, NoCallIs DEF RequestRecords
<1> HIDE DEF request
<1>3. photos \in 1 .. MaxPicks /\ last \in 1 .. MaxCalls /\ Len(calls) \in Nat
  BY <1>1, PostingBounds, Lengths DEF WorkInv, Posting!TypeOK
<1>4. /\ calls' \in Seq(RequestRecords) /\ Len(calls') = last /\ DOMAIN calls' = 1 .. last
      /\ \A c \in 1 .. Len(calls) : calls'[c] = calls[c]
      /\ calls'[last] = request
  BY <1>1, <1>2, Lengths, SentAppends
<1>5. /\ chat' \in Seq(TurnRecords) /\ Len(chat)' = Len(chat) + 1 /\ Len(chat) \in Nat
      /\ DOMAIN chat' = 1 .. Len(chat) + 1
      /\ chat'[Len(chat) + 1] = Posting!Said("owner", last, photos) /\ chat' # <<>>
      /\ \A m : Owns(m) => Owns(m)'
  <2> HIDE DEF last
  <2> QED
    BY <1>1, <1>3, TurnAdded
<1>6. \A n : n = last => Owns(n)'
  <2>1. /\ Len(chat) + 1 \in 1 .. Len(chat')
        /\ chat'[Len(chat) + 1].speaker = "owner" /\ chat'[Len(chat) + 1].reply = last
    BY <1>5 DEF Posting!Said
  <2> QED
    BY <2>1 DEF Owns
<1>7. ~late /\ talk # 0 => Owns(talk)
  BY Lengths DEF WorkInv, Posting!WorkspaceIsSound, Posting!ScreenIsOfOneDraft,
                 Posting!ChatIsOfTheSession, Posting!Turns, Owns
<1>8. Posting!TypeOK'
  BY <1>1, <1>4, <1>5 DEF WorkInv, Posting!TypeOK, RequestRecords, TurnRecords
<1>9. (\A c \in 1 .. Len(calls) : RequestFollows(c))'
  <2> HIDE DEF last
  <2> SUFFICES ASSUME NEW c \in 1 .. last
               PROVE  RequestFollows(c)'
    BY <1>4
  <2>1. CASE c = last
    <3>1. calls'[c].photos = photos /\ calls'[c].session = talk /\ photos # 0
      BY <1>2, <1>3, <1>4, <2>1
    <3>2. \A m : ~late /\ m # 0 /\ m = talk => Owns(m)'
      BY <1>5, <1>7
    <3>3. Owns(c)' /\ photos' = photos /\ late' = late
      BY <1>1, <1>6, <2>1
    <3>4. ~late' /\ calls'[c].session # 0 => Owns(calls[c].session)'
      BY <3>1, <3>2, <3>3 DEF Owns
    <3> QED
      BY <3>1, <3>3, <3>4 DEF RequestFollows, Followed, Owns
  <2>2. CASE c # last
    <3>1. c \in 1 .. Len(calls)
      BY <1>3, <2>2 DEF last
    <3>2. calls'[c] = calls[c] /\ RequestFollows(c)
      BY <1>4, <3>1 DEF WorkInv
    <3> QED
      BY <1>1, <1>5, <3>2 DEF RequestFollows, Followed
  <2> QED
    BY <2>1, <2>2
<1>10. Posting!ScreenIsOfOneDraft'
  <2> SUFFICES ASSUME ~late
               PROVE  (Posting!AllIsOfThePhotographs /\ Posting!ChatIsInOrder /\ Posting!ChatIsOfTheSession)'
    BY <1>1 DEF Posting!ScreenIsOfOneDraft
  <2>1. Posting!ChatIsInOrder' /\ \A i \in DOMAIN chat' : chat'[i].photos = photos'
    <3> HIDE DEF last
    <3> QED
      BY <1>1, <1>3, ChatGoesOn
  <2>2. marketing'.kind = "ready" => marketing'.photos = photos'
    BY <1>1 DEF WorkInv, Posting!WorkspaceIsSound, Posting!ScreenIsOfOneDraft,
                Posting!AllIsOfThePhotographs
  <2>3. talk' # 0 => Owns(talk)'
    BY <1>1, <1>5, <1>7
  <2> QED
    BY <1>5, <2>1, <2>2, <2>3
    DEF Posting!AllIsOfThePhotographs, Posting!ChatIsOfTheSession, Posting!Turns, Owns
<1>11. Posting!NothingLoadsForEver'
  <2>1. \A d \in Posting!Flying : d \in Posting!Flying' /\ calls'[d] = calls[d]
    BY <1>3, <1>4, Lengths DEF Posting!Flying
  <2>2. last \in Posting!Flying' /\ calls'[last].kind = "reply"
    BY <1>2, <1>3, <1>4 DEF Posting!Flying
  <2> QED
    BY <1>1, <2>1, <2>2
    DEF WorkInv, Posting!WorkspaceIsSound, Posting!NothingLoadsForEver
<1> QED
  BY <1>1, <1>3, <1>4, <1>8, <1>9, <1>10, <1>11 DEF WorkInv, Posting!WorkspaceIsSound

LEMMA ReplyAnsweredKeeps ==
  ASSUME WorkInv, NEW c \in 1 .. Len(calls), Posting!ReplyAnswered(c) PROVE WorkInv'
<1>1. /\ calls[c].kind = "reply" /\ Posting!Answered(c)
      /\ talk' = IF calls[c].session = 0 THEN c ELSE calls[c].session
      /\ chat' = Append(chat, Posting!Said("assistant", c, calls[c].photos))
      /\ decision' = "idle"
      /\ UNCHANGED <<marketing, view>> \/ (Posting!Ready(c) /\ view' = "posting")
      /\ UNCHANGED <<photos, picks, reading>>
  BY DEF Posting!ReplyAnswered
<1>2. /\ calls[c] \in RequestRecords /\ RequestFollows(c) /\ c \in 1 .. MaxCalls
      /\ calls[c].photos \in 1 .. MaxPicks /\ calls[c].session \in 0 .. MaxCalls
  <2>1. calls[c] \in RequestRecords /\ RequestFollows(c) /\ Len(calls) \in Nat
        /\ Len(calls) <= MaxCalls
    BY Lengths DEF WorkInv
  <2>2. calls[c].photos \in 0 .. MaxPicks /\ calls[c].photos # 0
    BY <1>1, <2>1 DEF RequestFollows, RequestRecords
  <2> QED
    BY <2>1, <2>2, PostingBounds DEF RequestRecords
<1>3. /\ chat' \in Seq(TurnRecords) /\ chat' # <<>> /\ \A m : Owns(m) => Owns(m)'
      /\ DOMAIN chat' = 1 .. Len(chat') /\ Len(chat)' = Len(chat) + 1
  BY <1>1, <1>2, TurnAdded
<1>4. /\ calls' \in Seq(RequestRecords) /\ Len(calls') = Len(calls)
      /\ DOMAIN calls' = 1 .. Len(calls)
      /\ \A d \in 1 .. Len(calls) : d # c => calls'[d] = calls[d]
      /\ (\A d \in 1 .. Len(calls) : RequestFollows(d))'
      /\ late' \in BOOLEAN /\ (~late' => ~late /\ ~calls[c].stale)
  BY <1>1, <1>3, AnsweredLeaves
<1>5. /\ marketing' \in [kind : {"idle", "loading", "error", "ready"},
                     photos : 0 .. MaxPicks, asks : BOOLEAN]
      /\ view' \in {"photo", "posting"}
      /\ marketing'.kind = "loading" => marketing' = marketing
      /\ marketing'.kind = "ready" => photos # 0
      /\ marketing'.kind = "ready" /\ ~late' => marketing'.photos = photos
  <2>1. CASE UNCHANGED <<marketing, view>>
    BY <1>4, <2>1 DEF WorkInv, Posting!TypeOK, Posting!WorkspaceIsSound,
                      Posting!ScreenIsOfOneDraft, Posting!AllIsOfThePhotographs
  <2>2. CASE Posting!Ready(c) /\ view' = "posting"
    BY <1>1, <1>4, <2>2, ReadyIs DEF Followed
  <2> QED
    BY <1>1, <2>1, <2>2
<1>6. Posting!TypeOK'
  BY <1>1, <1>2, <1>3, <1>4, <1>5
  DEF WorkInv, Posting!TypeOK, RequestRecords, TurnRecords
<1>7. Posting!ScreenIsOfOneDraft'
  <2> SUFFICES ASSUME ~late'
               PROVE  (Posting!AllIsOfThePhotographs /\ Posting!ChatIsInOrder /\ Posting!ChatIsOfTheSession)'
    BY DEF Posting!ScreenIsOfOneDraft
  <2>1. ~late /\ Followed(c)
    BY <1>1, <1>2, <1>4 DEF RequestFollows
  <2>2. calls[c].photos = photos /\ Owns(c) /\ (calls[c].session # 0 => Owns(calls[c].session))
    BY <1>1, <2>1 DEF Followed
  <2>3. Posting!ChatIsInOrder' /\ \A i \in DOMAIN chat' : chat'[i].photos = photos'
    BY <1>1, <1>2, <2>1, <2>2, ChatGoesOn
  <2>4. Owns(talk)'
    BY <1>1, <1>3, <2>2 DEF Owns
  <2> QED
    BY <1>1, <1>3, <1>5, <2>3, <2>4
    DEF Posting!AllIsOfThePhotographs, Posting!ChatIsOfTheSession, Posting!Turns, Owns
<1>8. Posting!NothingLoadsForEver'
  <2>1. \A d \in Posting!Flying : d # c => d \in Posting!Flying' /\ calls'[d] = calls[d]
    BY <1>4, OthersFly
  <2> QED
    BY <1>1, <1>5, <2>1
    DEF WorkInv, Posting!WorkspaceIsSound, Posting!NothingLoadsForEver
<1> QED
  BY <1>1, <1>4, <1>5, <1>6, <1>7, <1>8 DEF WorkInv, Posting!WorkspaceIsSound

LEMMA WorkStep ==
  ASSUME WorkInv, Posting!Next \/ UNCHANGED Posting!workspaceVars PROVE WorkInv'
<1>1. CASE UNCHANGED Posting!workspaceVars
  BY <1>1, ScreenMoves DEF Posting!workspaceVars, WorkInv, Posting!TypeOK
<1>2. CASE Posting!RefuseFiles
  BY <1>2, RefuseFilesKeeps
<1>3. CASE Posting!PickFiles \/ Posting!FilesRead \/ Posting!SetPrimaryAsset \/ Posting!Turn
  BY <1>3, PhotographsKeep
<1>4. CASE Posting!SubmitDraft
  BY <1>4, PostingSubmitKeeps
<1>5. CASE Posting!ReplyToSuggestion
  BY <1>5, ReplyKeeps
<1>6. ASSUME NEW c \in DOMAIN calls,
             Posting!DraftAnswered(c) \/ Posting!ReplyAnswered(c) \/ Posting!ReplyFailed(c)
      PROVE  WorkInv'
  <2>1. c \in 1 .. Len(calls)
    BY Lengths
  <2> QED
    BY <1>6, <2>1, DraftAnsweredKeeps, ReplyAnsweredKeeps, ReplyFailedKeeps
<1> QED
  BY <1>1, <1>2, <1>3, <1>4, <1>5, <1>6 DEF Posting!Next
-------------------------------------------------------------------------------
(* The form for campaign material.                                        *)

SubRecords ==
  [at : Intake!Stages \cup {"none", "done", "failed"},
   answer : {"none", "ok", "refused", "thrown"}, brief : Texts \cup {Nothing},
   photos : Selections \cup {<<>>}, next : 1 .. MaxPhotos, gone : BOOLEAN]
Sweeps ==
  [known : BOOLEAN, registered : SUBSET Intake!Paths, listed : BOOLEAN,
   found : SUBSET (Intake!Paths \X BOOLEAN), before : SUBSET Intake!Paths,
   report : SUBSET Intake!Paths]

Types ==
  /\ brief \in Texts \cup {Nothing} /\ selected \in Selections \cup {<<>>}
  /\ intake \in [kind : Intake!Busy \cup {"idle", "success", "error"}, by : 0 .. MaxSubmissions]
  /\ sub \in [Intake!Subs -> SubRecords] /\ created \in [Intake!Subs -> Texts \cup {Nothing}]
  /\ assets \in [Intake!Subs -> Seq(Intake!Paths)]
  /\ blobs \subseteq Intake!Paths /\ aged \subseteq blobs /\ sweep \in Sweeps
  /\ told \subseteq Intake!Subs /\ limit \in Limits

Travels(i) ==
  \/ Intake!Active(i) /\ sub[i].at \in {"put", "register"}
  \/ sub[i].at = "register" /\ sub[i].answer = "none"

SubFollows(i) ==
  /\ IF sub[i].at = "none" THEN sub[i].next = 1
     ELSE /\ Len(sub[i].photos) \in 1 .. MaxPhotos /\ sub[i].next <= Len(sub[i].photos)
          /\ sub[i].brief # Nothing
  /\ sub[i].at = "create" => sub[i].next = 1
  /\ sub[i].at = "create" /\ sub[i].answer = "ok" => created[i] = sub[i].brief
  /\ sub[i].at \in {"token", "put", "register", "refresh", "done"} =>
       created[i] = sub[i].brief
  /\ sub[i].at \in {"refresh", "done"} => sub[i].next = Len(sub[i].photos)
  /\ sub[i].at = "failed" <=> i \in told
  /\ sub[i].gone => i \in left
AssetsFollow(i) ==
  /\ Len(assets[i]) <= sub[i].next
  /\ sub[i].at \in {"none", "create", "token", "put"} => Len(assets[i]) = sub[i].next - 1
  /\ sub[i].at = "register" /\ sub[i].answer = "none" => Len(assets[i]) = sub[i].next - 1
  /\ sub[i].at = "register" /\ sub[i].answer = "ok" => Len(assets[i]) = sub[i].next
  /\ sub[i].at \in {"refresh", "done"} => Len(assets[i]) = sub[i].next
  /\ \A m \in 1 .. Len(assets[i]) : assets[i][m] = <<i, m>> /\ <<i, m>> \in blobs
BlobsFollow(i) ==
  /\ \A m \in 1 .. MaxPhotos : <<i, m>> \in blobs =>
       m <= sub[i].next /\ (sub[i].at \in {"none", "create", "token"} => m < sub[i].next)
  /\ Travels(i) => Intake!Path(i) \notin aged

Saved == \E k \in told : Intake!Complete(k)
Unfinishes(i) == Intake!Active(i) /\ sub[i].at # "refresh"
FormWaits(i) == Unfinishes(i) => (intake.kind \in Intake!Busy /\ intake.by = i) \/ Saved

SweepFollows ==
  /\ \A b \in Intake!Paths : <<b, TRUE>> \in sweep.found => b \in aged
  /\ sweep.report \subseteq aged /\ sweep.report \cap sweep.before = {}
  /\ sweep.known \/ sweep.listed => sweep.report = {}
  /\ sweep.known => sweep.before \subseteq sweep.registered
  /\ sweep.listed /\ ~sweep.known => sweep.before \subseteq Intake!InUse
ButtonFollows == intake.kind \in Intake!Busy => intake.by \in Intake!Subs /\ Unfinishes(intake.by)

(* The invariant of the form.                                              *)
IntakeInv ==
  /\ Types /\ ButtonFollows /\ SweepFollows
  /\ \A i \in Intake!Subs : SubFollows(i) /\ AssetsFollow(i) /\ BlobsFollow(i) /\ FormWaits(i)

LEMMA FormBounds ==
  /\ MaxPhotos \in Nat /\ MaxPhotos >= 1 /\ MaxSubmissions \in Nat /\ Nothing \notin Texts
  /\ \A s \in Selections \cup {<<>>} : s \in Seq(Photos) /\ Len(s) \in Nat
<1>1. /\ MaxPhotos \in Nat /\ MaxPhotos # 0 /\ MaxSubmissions \in Nat /\ Nothing \notin Texts
      /\ Selections \subseteq Seq(Photos)
  BY PartsAssumption DEF Intake!IntakeAssumption
<1>2. <<>> \in Seq(Photos)
  BY EmptySeq
<1>3. \A s \in Selections \cup {<<>>} : s \in Seq(Photos) /\ Len(s) \in Nat
  BY <1>1, <1>2, LenProperties
<1> QED
  BY <1>1, <1>3

LEMMA FormTyped ==
  ASSUME Types, NEW i \in Intake!Subs
  PROVE  /\ i \in Nat /\ i >= 1 /\ sub[i] \in SubRecords /\ sub[i].next \in Nat
         /\ Len(sub[i].photos) \in Nat
         /\ assets[i] \in Seq(Intake!Paths) /\ Len(assets[i]) \in Nat
         /\ DOMAIN assets[i] = 1 .. Len(assets[i])
  BY FormBounds, LenProperties DEF Types, SubRecords, Intake!Subs

(* What the invariant says of the properties.                                *)
LEMMA OnTheWayIs ==
  Intake!OnTheWay = {Intake!Path(i) : i \in {j \in Intake!Subs : Travels(j)}}
  BY DEF Intake!OnTheWay, Travels, Intake!Sent

LEMMA IntakeIsSoundThen ==
  ASSUME IntakeInv PROVE Intake!TypeOK /\ Intake!IntakeIsSound
<1>1. Intake!TypeOK
  BY DEF IntakeInv, Types, Intake!TypeOK, SubRecords, Sweeps
<1>2. ASSUME NEW i \in Intake!Subs
      PROVE  /\ Intake!Range(assets[i]) \subseteq blobs
             /\ Len(assets[i]) <= Len(sub[i].photos)
             /\ sub[i].at \in {"refresh", "done"} => Intake!Complete(i)
             /\ Intake!IsPrefix(assets[i], Intake!Owed(i))
  <2>1. SubFollows(i) /\ AssetsFollow(i) /\ Types
    BY DEF IntakeInv
  <2>2. /\ DOMAIN assets[i] = 1 .. Len(assets[i]) /\ Len(assets[i]) \in Nat
        /\ Len(sub[i].photos) \in Nat /\ sub[i].next \in Nat
        /\ assets[i] \in Seq(Intake!Paths)
        /\ sub[i].at \in Intake!Stages \cup {"none", "done", "failed"}
    BY <2>1, FormTyped DEF SubRecords
  <2>3. Intake!Range(assets[i]) \subseteq blobs
    BY <2>1, <2>2 DEF AssetsFollow, Intake!Range
  <2>4. Len(assets[i]) <= Len(sub[i].photos)
    BY <2>1, <2>2 DEF AssetsFollow, SubFollows
  <2>5. assets[i] = [n \in 1 .. Len(assets[i]) |-> <<i, n>>]
    <3>1. assets[i] = [n \in 1 .. Len(assets[i]) |-> assets[i][n]]
      BY <2>2, LenProperties
    <3> QED
      BY <2>1, <3>1 DEF AssetsFollow
  <2>6. sub[i].at \in {"refresh", "done"} => Intake!Complete(i)
    BY <2>1, <2>2, <2>5 DEF SubFollows, AssetsFollow, Intake!Complete, Intake!Owed
  <2>7. Intake!IsPrefix(assets[i], Intake!Owed(i))
    <3> DEFINE k == Len(assets[i])
    <3>1. \A n \in 1 .. Len(sub[i].photos) : <<i, n>> \in Nat \X Nat
      BY FormTyped, <2>1
    <3>2. Intake!Owed(i) \in [1 .. Len(sub[i].photos) -> Nat \X Nat]
      BY <3>1 DEF Intake!Owed
    <3>3. Intake!Owed(i) \in Seq(Nat \X Nat)
      BY <3>2, <2>2, SeqDef
    <3>4. Len(Intake!Owed(i)) = Len(sub[i].photos) /\ \A n \in 1 .. k : Intake!Owed(i)[n] = <<i, n>>
      BY <3>2, <3>3, <2>2, <2>4, LenProperties DEF Intake!Owed
    <3>5. SubSeq(assets[i], 1, k) = assets[i]
      BY <2>2, SubSeqFull
    <3>6. SubSeq(Intake!Owed(i), 1, k) = assets[i]
      <4>1. \A n \in 1 .. k : Intake!Owed(i)[n] \in Nat \X Nat
        <5>1. \A n \in 1 .. k : n \in 1 .. Len(sub[i].photos)
          BY <2>2, <2>4
        <5> HIDE DEF k
        <5> QED
          BY <3>1, <3>4, <5>1
      <4> HIDE DEF k
      <4>2. k \in Nat
        BY <2>2 DEF k
      <4>3. /\ SubSeq(Intake!Owed(i), 1, k) \in Seq(Nat \X Nat)
            /\ Len(SubSeq(Intake!Owed(i), 1, k)) = IF 1 <= k THEN k - 1 + 1 ELSE 0
            /\ \A n \in 1 .. k - 1 + 1 : SubSeq(Intake!Owed(i), 1, k)[n] = Intake!Owed(i)[1 + n - 1]
        BY <4>1, <4>2, SubSeqProperties
      <4>4. Len(SubSeq(Intake!Owed(i), 1, k)) = k
            /\ \A n \in 1 .. k : SubSeq(Intake!Owed(i), 1, k)[n] = <<i, n>>
        BY <3>4, <4>2, <4>3
      <4>5. SubSeq(Intake!Owed(i), 1, k) = [n \in 1 .. k |-> SubSeq(Intake!Owed(i), 1, k)[n]]
        BY <4>3, <4>4, LenProperties
      <4> QED
        BY <2>5, <4>4, <4>5 DEF k
    <3> QED
      BY <2>4, <3>4, <3>5, <3>6 DEF Intake!IsPrefix
  <2> QED
    BY <2>3, <2>4, <2>6, <2>7
<1>3. Intake!NothingIsMissingUntold
  <2> SUFFICES ASSUME NEW i \in Intake!Subs, sub[i].at # "none"
               PROVE  Intake!Complete(i) \/ Intake!Active(i) \/ i \in told \cup left
    BY DEF Intake!NothingIsMissingUntold, Intake!Began
  <2>1. SubFollows(i) /\ sub[i] \in SubRecords
    BY FormTyped DEF IntakeInv
  <2> QED
    BY <1>2, <2>1 DEF SubFollows, SubRecords, Intake!Active
<1>4. Intake!ButtonComesBack
  <2>1. intake.kind \in Intake!Busy => Intake!Active(intake.by)
    BY DEF IntakeInv, ButtonFollows, Unfinishes
  <2>2. ASSUME NEW i \in Intake!Unfinished, NEW j \in Intake!Unfinished, i # j
        PROVE  Saved
    BY <2>2 DEF Intake!Unfinished, IntakeInv, FormWaits, Unfinishes
  <2> QED
    BY <2>1, <2>2 DEF Intake!ButtonComesBack, Saved
<1>5. Intake!SweepSparesTheLiving
  BY OnTheWayIs DEF Intake!SweepSparesTheLiving, IntakeInv, SweepFollows, BlobsFollow
<1> QED
  BY <1>1, <1>2, <1>3, <1>4, <1>5
  DEF Intake!IntakeIsSound, Intake!SuccessIsComplete, Intake!AssetsAreStored

LEMMA IntakeStarts ==
  ASSUME Intake!Init PROVE IntakeInv
<1>1. /\ Intake!NoSub \in SubRecords /\ Intake!NoSub.at = "none" /\ Intake!NoSub.next = 1
      /\ Intake!NoSub.gone = FALSE
      /\ Intake!NoSub.answer = "none"
  BY FormBounds DEF Intake!NoSub, SubRecords
<1>2. Intake!NoSweep \in Sweeps
  BY DEF Intake!NoSweep, Sweeps
<1>3. <<>> \in Seq(Intake!Paths) /\ Len(<<>>) = 0
  BY EmptySeq
<1>4. Types
  <2>1. intake \in [kind : Intake!Busy \cup {"idle", "success", "error"}, by : 0 .. MaxSubmissions]
    BY FormBounds DEF Intake!Init
  <2>2. sub \in [Intake!Subs -> SubRecords] /\ assets \in [Intake!Subs -> Seq(Intake!Paths)]
        /\ created \in [Intake!Subs -> Texts \cup {Nothing}]
    BY <1>1, <1>3 DEF Intake!Init
  <2> QED
    BY <1>2, <2>1, <2>2 DEF Intake!Init, Types
<1>5. ASSUME NEW i \in Intake!Subs
      PROVE  SubFollows(i) /\ AssetsFollow(i) /\ BlobsFollow(i) /\ FormWaits(i)
  <2>1. sub[i] = Intake!NoSub /\ assets[i] = <<>> /\ told = {} /\ blobs = {}
    BY DEF Intake!Init
  <2>2. SubFollows(i) /\ BlobsFollow(i) /\ FormWaits(i)
    BY <1>1, <2>1 DEF SubFollows, BlobsFollow, FormWaits, Unfinishes, Travels,
                      Intake!Active, Intake!Stages
  <2>3. AssetsFollow(i)
    BY <1>1, <1>3, <2>1 DEF AssetsFollow
  <2> QED
    BY <2>2, <2>3
<1>6. ButtonFollows /\ SweepFollows
  BY DEF Intake!Init, ButtonFollows, SweepFollows, Intake!Busy, Intake!NoSweep
<1> QED
  BY <1>4, <1>5, <1>6 DEF IntakeInv

(* What a step leaves of a submission.                                      *)
Same(j) ==
  /\ sub'[j] = sub[j] /\ created'[j] = created[j] /\ assets'[j] = assets[j]
  /\ j \in told' <=> j \in told
  /\ j \in left' <=> j \in left
  /\ \A m : <<j, m>> \in blobs' <=> <<j, m>> \in blobs
  /\ \A m : <<j, m>> \in aged' <=> <<j, m>> \in aged

LEMMA SubKept ==
  ASSUME NEW j \in Intake!Subs, Same(j), SubFollows(j), AssetsFollow(j), BlobsFollow(j)
  PROVE  SubFollows(j)' /\ AssetsFollow(j)' /\ BlobsFollow(j)'
<1>1. SubFollows(j)'
  BY DEF Same, SubFollows
<1>2. AssetsFollow(j)'
  BY DEF Same, AssetsFollow
<1>3. BlobsFollow(j)'
  BY DEF Same, BlobsFollow, Travels, Intake!Active, Intake!Path, Intake!Stages
<1> QED
  BY <1>1, <1>2, <1>3

(* A request that was told of stays as it was told of.                        *)
LEMMA SavedStays ==
  ASSUME told \subseteq told', \A k \in told : Same(k), Saved
  PROVE  Saved'
<1>1. PICK k \in told : Intake!Complete(k)
  BY DEF Saved
<1>2. Intake!Complete(k)'
  BY <1>1 DEF Same, Intake!Complete, Intake!Owed
<1> QED
  BY <1>1, <1>2 DEF Saved

(* Registrations are added after the others, so what is in use stays so.       *)
LEMMA InUseGrows ==
  ASSUME Types, Types', NEW i \in Intake!Subs, \A j \in Intake!Subs \ {i} : Same(j),
         \/ assets'[i] = assets[i]
         \/ \E b \in Intake!Paths : assets'[i] = Append(assets[i], b)
  PROVE  Intake!InUse \subseteq Intake!InUse'
<1>1. ASSUME NEW j \in Intake!Subs
      PROVE  Intake!Range(assets[j]) \subseteq Intake!Range(assets'[j])
  <2>1. assets[j] \in Seq(Intake!Paths)
    BY FormTyped
  <2>2. CASE assets'[j] = assets[j]
    BY <2>2
  <2>3. CASE \E b \in Intake!Paths : assets'[j] = Append(assets[j], b)
    <3>1. PICK b \in Intake!Paths : assets'[j] = Append(assets[j], b)
      BY <2>3
    <3>2. /\ DOMAIN assets[j] = 1 .. Len(assets[j]) /\ Len(assets[j]) \in Nat
          /\ DOMAIN assets'[j] = 1 .. Len(assets[j]) + 1
          /\ \A m \in 1 .. Len(assets[j]) : assets'[j][m] = assets[j][m]
      BY <2>1, <3>1, AppendProperties, LenProperties
    <3> QED
      BY <3>2 DEF Intake!Range
  <2> QED
    BY <2>2, <2>3 DEF Same
<1> QED
  BY <1>1 DEF Intake!InUse

LEMMA SweepKept ==
  ASSUME SweepFollows, sweep' = sweep, Intake!InUse \subseteq Intake!InUse',
         aged \subseteq aged'
  PROVE  SweepFollows'
  BY DEF SweepFollows, Intake!Paths, Intake!Subs

(* A step of one submission.                                               *)
LEMMA FormStepKeeps ==
  ASSUME IntakeInv, NEW i \in Intake!Subs, \A j \in Intake!Subs \ {i} : Same(j), Types',
         SubFollows(i)', AssetsFollow(i)', BlobsFollow(i)',
         i \notin told, told \subseteq told', SweepFollows',
         \/ /\ intake' = intake
            /\ Unfinishes(i)' <=> Unfinishes(i)
         \/ intake'.by = i /\ Unfinishes(i) /\ Unfinishes(i)' /\ intake'.kind \in Intake!Busy
         \/ intake'.kind \notin Intake!Busy /\ Unfinishes(i) /\ ~Unfinishes(i)'
         \/ intake'.kind \notin Intake!Busy /\ i \in told' /\ Intake!Complete(i)' /\ ~Unfinishes(i)'
         \/ intake.kind \notin Intake!Busy /\ intake'.by = i /\ Unfinishes(i)' /\ intake'.kind \in Intake!Busy
  PROVE  IntakeInv'
<1>1. \A j \in Intake!Subs : SubFollows(j)' /\ AssetsFollow(j)' /\ BlobsFollow(j)'
  BY SubKept DEF IntakeInv
<1>2. Saved => Saved'
  BY SavedStays DEF IntakeInv, Types
<1>3. \A j \in Intake!Subs \ {i} : Unfinishes(j)' <=> Unfinishes(j)
  BY DEF Same, Unfinishes, Intake!Active
<1>4. ButtonFollows'
  BY <1>3 DEF IntakeInv, ButtonFollows, Intake!Busy, Intake!Subs
<1>5. ASSUME NEW j \in Intake!Subs, Unfinishes(j)'
      PROVE  (intake.kind \in Intake!Busy /\ intake.by = j)' \/ Saved'
  <2>1. FormWaits(i) /\ FormWaits(j)
    BY DEF IntakeInv
  <2>2. CASE j = i
    BY <1>2, <1>5, <2>1, <2>2 DEF FormWaits, Intake!Busy
  <2>3. CASE j # i
    <3>1. Unfinishes(j)
      BY <1>3, <1>5, <2>3
    <3>2. CASE intake' = intake
      BY <1>2, <2>1, <3>1, <3>2 DEF FormWaits, Intake!Busy
    <3>3. CASE Unfinishes(i)
      BY <1>2, <2>1, <2>3, <3>1, <3>2, <3>3 DEF FormWaits, Intake!Busy
    <3>4. CASE i \in told' /\ Intake!Complete(i)'
      BY <3>4 DEF Saved
    <3>5. CASE intake.kind \notin Intake!Busy
      BY <1>2, <2>1, <3>1, <3>5 DEF FormWaits, Intake!Busy
    <3> QED
      BY <3>2, <3>3, <3>4, <3>5
  <2> QED
    BY <2>2, <2>3
<1> QED
  BY <1>1, <1>4, <1>5 DEF IntakeInv, FormWaits, Intake!Subs

LEMMA FormGoToIs ==
  ASSUME Types, NEW i \in Intake!Subs,
         NEW at \in Intake!Stages \cup {"none", "done", "failed"}, Intake!GoTo(i, at)
  PROVE  /\ sub' \in [Intake!Subs -> SubRecords] /\ \A j \in Intake!Subs \ {i} : sub'[j] = sub[j]
         /\ sub'[i].at = at /\ sub'[i].answer = "none" /\ sub'[i].brief = sub[i].brief
         /\ sub'[i].photos = sub[i].photos /\ sub'[i].next = sub[i].next
         /\ sub'[i].gone = sub[i].gone
<1>1. sub \in [Intake!Subs -> SubRecords] /\ sub[i] \in SubRecords
  BY DEF Types
<1>2. sub' = [sub EXCEPT ![i] = [[sub[i] EXCEPT !.at = at] EXCEPT !.answer = "none"]]
  BY <1>1 DEF Intake!GoTo
<1> DEFINE entry == [[sub[i] EXCEPT !.at = at] EXCEPT !.answer = "none"]
<1>3. /\ entry \in SubRecords
      /\ entry.at = at /\ entry.answer = "none" /\ entry.brief = sub[i].brief
      /\ entry.photos = sub[i].photos /\ entry.next = sub[i].next
      /\ entry.gone = sub[i].gone
  BY <1>1 DEF SubRecords
<1> HIDE DEF entry
<1>4. sub' = [sub EXCEPT ![i] = entry]
  BY <1>2 DEF entry
<1> QED
  BY <1>1, <1>3, <1>4

LEMMA FormAnswerIs ==
  ASSUME Types, NEW i \in Intake!Subs, NEW a \in {"ok", "refused", "thrown"},
         Intake!Answer(i, a)
  PROVE  /\ sub' \in [Intake!Subs -> SubRecords] /\ \A j \in Intake!Subs \ {i} : sub'[j] = sub[j]
         /\ sub'[i].at = sub[i].at /\ sub'[i].answer = a /\ sub'[i].brief = sub[i].brief
         /\ sub'[i].photos = sub[i].photos /\ sub'[i].next = sub[i].next
         /\ sub'[i].gone = sub[i].gone
<1>1. sub \in [Intake!Subs -> SubRecords] /\ sub[i] \in SubRecords
  BY DEF Types
<1> DEFINE entry == [sub[i] EXCEPT !.answer = a]
<1>2. /\ entry \in SubRecords
      /\ entry.at = sub[i].at /\ entry.answer = a /\ entry.brief = sub[i].brief
      /\ entry.photos = sub[i].photos /\ entry.next = sub[i].next
      /\ entry.gone = sub[i].gone
  BY <1>1 DEF SubRecords
<1>3. sub' = [sub EXCEPT ![i] = entry]
  BY <1>1 DEF Intake!Answer
<1> HIDE DEF entry
<1> QED
  BY <1>1, <1>2, <1>3

(* A step of the loop: the tables, the store and the report are left alone.    *)
Loops(i) ==
  /\ sub' \in [Intake!Subs -> SubRecords] /\ \A j \in Intake!Subs \ {i} : sub'[j] = sub[j]
  /\ UNCHANGED <<Intake!tables, Intake!media, sweep, left, limit>>
  /\ brief' \in Texts \cup {Nothing} /\ selected' \in Selections \cup {<<>>}
  /\ intake' \in [kind : Intake!Busy \cup {"idle", "success", "error"}, by : 0 .. MaxSubmissions]

LEMMA LoopKeeps ==
  ASSUME IntakeInv, NEW i \in Intake!Subs, Loops(i), told' \in {told, told \cup {i}}
  PROVE  Types' /\ SweepFollows' /\ \A j \in Intake!Subs \ {i} : Same(j)
<1>1. Types'
  BY DEF IntakeInv, Types, Loops, Intake!tables, Intake!media
<1>2. \A j \in Intake!Subs \ {i} : Same(j)
  BY DEF Loops, Same, Intake!tables, Intake!media
<1>3. Intake!InUse' = Intake!InUse
  BY DEF Loops, Intake!tables, Intake!InUse
<1>4. SweepFollows'
  BY <1>3, SweepKept DEF Loops, Intake!media, IntakeInv
<1> QED
  BY <1>1, <1>2, <1>4

LEMMA SayIs ==
  ASSUME NEW i \in Intake!Subs, NEW kind \in Intake!Busy \cup {"idle", "success", "error"},
         Intake!Say(i, kind)
  PROVE  /\ intake' \in [kind : Intake!Busy \cup {"idle", "success", "error"},
                         by : 0 .. MaxSubmissions]
         /\ intake'.kind = kind /\ intake'.by = i
  BY FormBounds DEF Intake!Say, Intake!Subs

LEMMA FormGiven ==
  ASSUME IntakeInv, NEW i \in Intake!Subs
  PROVE  /\ Types /\ SubFollows(i) /\ AssetsFollow(i) /\ BlobsFollow(i) /\ FormWaits(i)
         /\ brief \in Texts \cup {Nothing} /\ selected \in Selections \cup {<<>>}
         /\ intake \in [kind : Intake!Busy \cup {"idle", "success", "error"},
                        by : 0 .. MaxSubmissions]
  BY DEF IntakeInv, Types

LEMMA RequestIsCreatedKeeps ==
  ASSUME IntakeInv, NEW i \in Intake!Subs, Intake!RequestIsCreated(i) PROVE IntakeInv'
<1>1. /\ Intake!Active(i) /\ sub[i].at = "create" /\ sub[i].answer = "ok"
      /\ Intake!GoTo(i, "token") /\ Intake!Say(i, "uploading")
      /\ UNCHANGED <<brief, selected, Intake!tables, Intake!media, sweep, Intake!memory>>
  BY DEF Intake!RequestIsCreated, Intake!Got, Intake!IsExpected
<1>2. Types /\ SubFollows(i) /\ AssetsFollow(i) /\ BlobsFollow(i)
  BY FormGiven
<1>3. /\ sub' \in [Intake!Subs -> SubRecords] /\ \A j \in Intake!Subs \ {i} : sub'[j] = sub[j]
      /\ sub'[i].at = "token" /\ sub'[i].answer = "none" /\ sub'[i].brief = sub[i].brief
      /\ sub'[i].photos = sub[i].photos /\ sub'[i].next = sub[i].next
      /\ sub'[i].gone = sub[i].gone
  BY <1>1, <1>2, FormGoToIs DEF Intake!Stages
<1>4. /\ intake' \in [kind : Intake!Busy \cup {"idle", "success", "error"}, by : 0 .. MaxSubmissions]
      /\ intake'.kind = "uploading" /\ intake'.by = i
  BY <1>1, SayIs DEF Intake!Busy
<1>5. UNCHANGED <<created, assets, blobs, aged, told, left>>
  BY <1>1 DEF Intake!tables, Intake!media, Intake!memory
<1>6. Loops(i)
  BY <1>1, <1>3, <1>4, FormGiven DEF Loops, Intake!memory
<1>7. Types' /\ SweepFollows' /\ \A j \in Intake!Subs \ {i} : Same(j)
  BY <1>5, <1>6, LoopKeeps
<1>8. SubFollows(i)'
  BY <1>1, <1>2, <1>3, <1>5 DEF SubFollows
<1>9. AssetsFollow(i)'
  BY <1>1, <1>2, <1>3, <1>5 DEF AssetsFollow
<1>10. BlobsFollow(i)'
  BY <1>1, <1>2, <1>3, <1>5 DEF BlobsFollow, Travels
<1>11. Unfinishes(i) /\ Unfinishes(i)' /\ i \notin told
  BY <1>1, <1>2, <1>3 DEF Unfinishes, Intake!Active, Intake!Stages, SubFollows
<1> QED
  BY <1>4, <1>5, <1>7, <1>8, <1>9, <1>10, <1>11, FormStepKeeps DEF Intake!Busy

LEMMA MayUploadKeeps ==
  ASSUME IntakeInv, NEW i \in Intake!Subs, Intake!MayUpload(i) PROVE IntakeInv'
<1>1. /\ Intake!Active(i) /\ sub[i].at = "token" /\ sub[i].answer = "ok"
      /\ Intake!GoTo(i, "put")
      /\ UNCHANGED <<Intake!screen, Intake!tables, Intake!media, sweep, Intake!memory>>
  BY DEF Intake!MayUpload, Intake!Got, Intake!IsExpected
<1>2. Types /\ SubFollows(i) /\ AssetsFollow(i) /\ BlobsFollow(i)
  BY FormGiven
<1>3. /\ sub' \in [Intake!Subs -> SubRecords] /\ \A j \in Intake!Subs \ {i} : sub'[j] = sub[j]
      /\ sub'[i].at = "put" /\ sub'[i].answer = "none" /\ sub'[i].brief = sub[i].brief
      /\ sub'[i].photos = sub[i].photos /\ sub'[i].next = sub[i].next
      /\ sub'[i].gone = sub[i].gone
  BY <1>1, <1>2, FormGoToIs DEF Intake!Stages
<1>5. UNCHANGED <<brief, selected, intake, created, assets, blobs, aged, told, left>>
  BY <1>1 DEF Intake!screen, Intake!tables, Intake!media, Intake!memory
<1>6. Loops(i)
  BY <1>1, <1>3, <1>5, FormGiven DEF Loops, Intake!memory
<1>7. Types' /\ SweepFollows' /\ \A j \in Intake!Subs \ {i} : Same(j)
  BY <1>5, <1>6, LoopKeeps
<1>8. SubFollows(i)'
  BY <1>1, <1>2, <1>3, <1>5 DEF SubFollows
<1>9. AssetsFollow(i)'
  BY <1>1, <1>2, <1>3, <1>5 DEF AssetsFollow
<1>10. BlobsFollow(i)'
  <2>1. Intake!Path(i)' = Intake!Path(i) /\ sub[i].next \in 1 .. MaxPhotos
    BY <1>2, <1>3, FormTyped DEF Intake!Path, SubRecords
  <2>2. Intake!Path(i) \notin blobs
    BY <1>1, <1>2, <2>1, FormBounds DEF BlobsFollow, Intake!Path
  <2>3. Intake!Path(i)' \notin aged'
    BY <1>2, <1>5, <2>1, <2>2 DEF Types
  <2> QED
    BY <1>1, <1>2, <1>3, <1>5, <2>3 DEF BlobsFollow
<1>11. Unfinishes(i) /\ Unfinishes(i)' /\ i \notin told
  BY <1>1, <1>2, <1>3 DEF Unfinishes, Intake!Active, Intake!Stages, SubFollows
<1> QED
  BY <1>5, <1>7, <1>8, <1>9, <1>10, <1>11, FormStepKeeps

LEMMA IsUploadedKeeps ==
  ASSUME IntakeInv, NEW i \in Intake!Subs, Intake!IsUploaded(i) PROVE IntakeInv'
<1>1. /\ Intake!Active(i) /\ sub[i].at = "put" /\ sub[i].answer = "ok"
      /\ Intake!GoTo(i, "register")
      /\ UNCHANGED <<Intake!screen, Intake!tables, Intake!media, sweep, Intake!memory>>
  BY DEF Intake!IsUploaded, Intake!Got, Intake!IsExpected
<1>2. Types /\ SubFollows(i) /\ AssetsFollow(i) /\ BlobsFollow(i)
  BY FormGiven
<1>3. /\ sub' \in [Intake!Subs -> SubRecords] /\ \A j \in Intake!Subs \ {i} : sub'[j] = sub[j]
      /\ sub'[i].at = "register" /\ sub'[i].answer = "none" /\ sub'[i].brief = sub[i].brief
      /\ sub'[i].photos = sub[i].photos /\ sub'[i].next = sub[i].next
      /\ sub'[i].gone = sub[i].gone
  BY <1>1, <1>2, FormGoToIs DEF Intake!Stages
<1>5. UNCHANGED <<brief, selected, intake, created, assets, blobs, aged, told, left>>
  BY <1>1 DEF Intake!screen, Intake!tables, Intake!media, Intake!memory
<1>6. Loops(i)
  BY <1>1, <1>3, <1>5, FormGiven DEF Loops, Intake!memory
<1>7. Types' /\ SweepFollows' /\ \A j \in Intake!Subs \ {i} : Same(j)
  BY <1>5, <1>6, LoopKeeps
<1>8. SubFollows(i)'
  BY <1>1, <1>2, <1>3, <1>5 DEF SubFollows
<1>9. AssetsFollow(i)'
  BY <1>1, <1>2, <1>3, <1>5 DEF AssetsFollow
<1>10. BlobsFollow(i)'
  <2>1. Travels(i) /\ Intake!Path(i)' = Intake!Path(i)
    BY <1>1, <1>3 DEF Travels, Intake!Path
  <2> QED
    BY <1>1, <1>2, <1>3, <1>5, <2>1 DEF BlobsFollow
<1>11. Unfinishes(i) /\ Unfinishes(i)' /\ i \notin told
  BY <1>1, <1>2, <1>3 DEF Unfinishes, Intake!Active, Intake!Stages, SubFollows
<1> QED
  BY <1>5, <1>7, <1>8, <1>9, <1>10, <1>11, FormStepKeeps

LEMMA IsRegisteredKeeps ==
  ASSUME IntakeInv, NEW i \in Intake!Subs, Intake!IsRegistered(i) PROVE IntakeInv'
<1>1. /\ Intake!Active(i) /\ sub[i].at = "register" /\ sub[i].answer = "ok" /\ Intake!More(i)
      /\ sub' = [sub EXCEPT ![i].at = "token", ![i].answer = "none", ![i].next = @ + 1]
      /\ Intake!Say(i, "uploading")
      /\ UNCHANGED <<brief, selected, Intake!tables, Intake!media, sweep, Intake!memory>>
  BY DEF Intake!IsRegistered, Intake!Got, Intake!IsExpected
<1>2. Types /\ SubFollows(i) /\ AssetsFollow(i) /\ BlobsFollow(i)
  BY FormGiven
<1>3. /\ sub' \in [Intake!Subs -> SubRecords] /\ \A j \in Intake!Subs \ {i} : sub'[j] = sub[j]
      /\ sub'[i].at = "token" /\ sub'[i].answer = "none" /\ sub'[i].brief = sub[i].brief
      /\ sub'[i].photos = sub[i].photos /\ sub'[i].next = sub[i].next + 1
      /\ sub'[i].gone = sub[i].gone
  <2>1. sub \in [Intake!Subs -> SubRecords] /\ sub[i] \in SubRecords
    BY <1>2 DEF Types
  <2>2. sub[i].next + 1 \in 1 .. MaxPhotos
    BY <1>1, <1>2, <2>1, FormBounds, FormTyped DEF Intake!More, SubFollows, SubRecords
  <2> DEFINE entry ==
        [[[sub[i] EXCEPT !.at = "token"] EXCEPT !.answer = "none"]
           EXCEPT !.next = sub[i].next + 1]
  <2>3. /\ entry \in SubRecords
        /\ entry.at = "token" /\ entry.answer = "none" /\ entry.brief = sub[i].brief
        /\ entry.photos = sub[i].photos /\ entry.next = sub[i].next + 1
        /\ entry.gone = sub[i].gone
    BY <2>1, <2>2 DEF SubRecords, Intake!Stages
  <2>4. sub' = [sub EXCEPT ![i] = entry]
    BY <1>1, <2>1 DEF SubRecords
  <2> HIDE DEF entry
  <2> QED
    BY <2>1, <2>3, <2>4
<1>4. /\ intake' \in [kind : Intake!Busy \cup {"idle", "success", "error"}, by : 0 .. MaxSubmissions]
      /\ intake'.kind = "uploading" /\ intake'.by = i
  BY <1>1, SayIs DEF Intake!Busy
<1>5. UNCHANGED <<created, assets, blobs, aged, told, left>>
  BY <1>1 DEF Intake!tables, Intake!media, Intake!memory
<1>6. Loops(i)
  BY <1>1, <1>3, <1>4, FormGiven DEF Loops, Intake!memory
<1>7. Types' /\ SweepFollows' /\ \A j \in Intake!Subs \ {i} : Same(j)
  BY <1>5, <1>6, LoopKeeps
<1>8. SubFollows(i)'
  <2>1. sub[i].next + 1 <= Len(sub[i].photos)
    BY <1>1, <1>2, FormTyped DEF Intake!More
  <2> QED
    BY <1>1, <1>2, <1>3, <1>5, <2>1 DEF SubFollows
<1>9. AssetsFollow(i)'
  <2>1. Len(assets[i]) = sub[i].next + 1 - 1 /\ Len(assets[i]) <= sub[i].next + 1
    BY <1>1, <1>2, FormTyped DEF AssetsFollow
  <2> QED
    BY <1>1, <1>2, <1>3, <1>5, <2>1 DEF AssetsFollow
<1>10. BlobsFollow(i)'
  <2>1. \A m \in 1 .. MaxPhotos : <<i, m>> \in blobs => m < sub[i].next + 1
    BY <1>2, FormTyped DEF BlobsFollow
  <2>2. ~Travels(i)'
    BY <1>3 DEF Travels
  <2> QED
    BY <1>3, <1>5, <2>1, <2>2, FormTyped, <1>2 DEF BlobsFollow
<1>11. Unfinishes(i) /\ Unfinishes(i)' /\ i \notin told
  BY <1>1, <1>2, <1>3 DEF Unfinishes, Intake!Active, Intake!Stages, SubFollows
<1> QED
  BY <1>4, <1>5, <1>7, <1>8, <1>9, <1>10, <1>11, FormStepKeeps DEF Intake!Busy

LEMMA SucceedKeeps ==
  ASSUME IntakeInv, NEW i \in Intake!Subs, Intake!Succeed(i) PROVE IntakeInv'
<1>1. /\ Intake!Active(i) /\ sub[i].at = "register" /\ sub[i].answer = "ok" /\ ~Intake!More(i)
      /\ Intake!GoTo(i, "refresh") /\ Intake!Say(i, "success") /\ brief' = Nothing
      /\ selected' = <<>>
      /\ UNCHANGED <<Intake!tables, Intake!media, sweep, Intake!memory>>
  BY DEF Intake!Succeed, Intake!Got, Intake!IsExpected
<1>2. Types /\ SubFollows(i) /\ AssetsFollow(i) /\ BlobsFollow(i)
  BY FormGiven
<1>3. /\ sub' \in [Intake!Subs -> SubRecords] /\ \A j \in Intake!Subs \ {i} : sub'[j] = sub[j]
      /\ sub'[i].at = "refresh" /\ sub'[i].answer = "none" /\ sub'[i].brief = sub[i].brief
      /\ sub'[i].photos = sub[i].photos /\ sub'[i].next = sub[i].next
      /\ sub'[i].gone = sub[i].gone
  BY <1>1, <1>2, FormGoToIs DEF Intake!Stages
<1>4. /\ intake' \in [kind : Intake!Busy \cup {"idle", "success", "error"}, by : 0 .. MaxSubmissions]
      /\ intake'.kind = "success" /\ intake'.by = i
  BY <1>1, SayIs
<1>5. UNCHANGED <<created, assets, blobs, aged, told, left>>
  BY <1>1 DEF Intake!tables, Intake!media, Intake!memory
<1>6. Loops(i)
  BY <1>1, <1>3, <1>4 DEF Loops, Intake!memory
<1>7. Types' /\ SweepFollows' /\ \A j \in Intake!Subs \ {i} : Same(j)
  BY <1>5, <1>6, LoopKeeps
<1>8. SubFollows(i)'
  <2>1. sub[i].next = Len(sub[i].photos)
    BY <1>1, <1>2, FormTyped DEF Intake!More, SubFollows
  <2> QED
    BY <1>1, <1>2, <1>3, <1>5, <2>1 DEF SubFollows
<1>9. AssetsFollow(i)'
  BY <1>1, <1>2, <1>3, <1>5 DEF AssetsFollow
<1>10. BlobsFollow(i)'
  BY <1>1, <1>2, <1>3, <1>5 DEF BlobsFollow, Travels
<1>11. Unfinishes(i) /\ ~Unfinishes(i)' /\ i \notin told
  BY <1>1, <1>2, <1>3 DEF Unfinishes, Intake!Active, Intake!Stages, SubFollows
<1> QED
  BY <1>4, <1>5, <1>7, <1>8, <1>9, <1>10, <1>11, FormStepKeeps DEF Intake!Busy

LEMMA RefreshRequestsKeeps ==
  ASSUME IntakeInv, NEW i \in Intake!Subs, Intake!RefreshRequests(i) PROVE IntakeInv'
<1>1. /\ Intake!Active(i) /\ sub[i].at = "refresh" /\ Intake!GoTo(i, "done")
      /\ UNCHANGED <<Intake!screen, Intake!tables, Intake!media, sweep, Intake!memory>>
  BY DEF Intake!RefreshRequests
<1>2. Types /\ SubFollows(i) /\ AssetsFollow(i) /\ BlobsFollow(i)
  BY FormGiven
<1>3. /\ sub' \in [Intake!Subs -> SubRecords] /\ \A j \in Intake!Subs \ {i} : sub'[j] = sub[j]
      /\ sub'[i].at = "done" /\ sub'[i].answer = "none" /\ sub'[i].brief = sub[i].brief
      /\ sub'[i].photos = sub[i].photos /\ sub'[i].next = sub[i].next
      /\ sub'[i].gone = sub[i].gone
  BY <1>1, <1>2, FormGoToIs
<1>5. UNCHANGED <<brief, selected, intake, created, assets, blobs, aged, told, left>>
  BY <1>1 DEF Intake!screen, Intake!tables, Intake!media, Intake!memory
<1>6. Loops(i)
  BY <1>1, <1>3, <1>5, FormGiven DEF Loops, Intake!memory
<1>7. Types' /\ SweepFollows' /\ \A j \in Intake!Subs \ {i} : Same(j)
  BY <1>5, <1>6, LoopKeeps
<1>8. SubFollows(i)'
  BY <1>1, <1>2, <1>3, <1>5 DEF SubFollows
<1>9. AssetsFollow(i)'
  BY <1>1, <1>2, <1>3, <1>5 DEF AssetsFollow
<1>10. BlobsFollow(i)'
  BY <1>1, <1>2, <1>3, <1>5 DEF BlobsFollow, Travels
<1>11. ~Unfinishes(i) /\ ~Unfinishes(i)' /\ i \notin told
  BY <1>1, <1>2, <1>3 DEF Unfinishes, Intake!Active, Intake!Stages, SubFollows
<1> QED
  BY <1>5, <1>7, <1>8, <1>9, <1>10, <1>11, FormStepKeeps

LEMMA GiveUpKeeps ==
  ASSUME IntakeInv, NEW i \in Intake!Subs, Intake!GiveUp(i) PROVE IntakeInv'
<1>1. /\ Intake!Active(i) /\ Intake!GoTo(i, "failed") /\ Intake!Say(i, "error")
      /\ told' = told \cup {i}
      /\ UNCHANGED <<brief, selected, Intake!tables, Intake!media, sweep, left, limit>>
  BY DEF Intake!GiveUp, Intake!Fail
<1>2. Types /\ SubFollows(i) /\ AssetsFollow(i) /\ BlobsFollow(i)
  BY FormGiven
<1>3. /\ sub' \in [Intake!Subs -> SubRecords] /\ \A j \in Intake!Subs \ {i} : sub'[j] = sub[j]
      /\ sub'[i].at = "failed" /\ sub'[i].answer = "none" /\ sub'[i].brief = sub[i].brief
      /\ sub'[i].photos = sub[i].photos /\ sub'[i].next = sub[i].next
      /\ sub'[i].gone = sub[i].gone
  BY <1>1, <1>2, FormGoToIs
<1>4. /\ intake' \in [kind : Intake!Busy \cup {"idle", "success", "error"}, by : 0 .. MaxSubmissions]
      /\ intake'.kind = "error" /\ intake'.by = i
  BY <1>1, SayIs
<1>5. UNCHANGED <<created, assets, blobs, aged, left>>
  BY <1>1 DEF Intake!tables, Intake!media
<1>6. Loops(i)
  BY <1>1, <1>3, <1>4, FormGiven DEF Loops
<1>7. Types' /\ SweepFollows' /\ \A j \in Intake!Subs \ {i} : Same(j)
  BY <1>1, <1>6, LoopKeeps
<1>8. SubFollows(i)'
  BY <1>1, <1>2, <1>3, <1>5 DEF SubFollows, Intake!Active, Intake!Stages
<1>9. AssetsFollow(i)'
  BY <1>1, <1>2, <1>3, <1>5 DEF AssetsFollow
<1>10. BlobsFollow(i)'
  BY <1>1, <1>2, <1>3, <1>5 DEF BlobsFollow, Travels, Intake!Active, Intake!Stages
<1>11. ~Unfinishes(i)' /\ i \notin told /\ i \in told'
  BY <1>1, <1>2, <1>3 DEF Unfinishes, Intake!Active, Intake!Stages, SubFollows
<1>12. Unfinishes(i) \/ Intake!Complete(i)'
  <2> SUFFICES ASSUME sub[i].at = "refresh"
               PROVE  Intake!Complete(i)'
    BY <1>1 DEF Unfinishes
  <2>1. Intake!Complete(i)
    BY IntakeIsSoundThen DEF Intake!IntakeIsSound, Intake!SuccessIsComplete
  <2> QED
    BY <1>3, <1>5, <2>1 DEF Intake!Complete, Intake!Owed
<1> QED
  BY <1>1, <1>4, <1>7, <1>8, <1>9, <1>10, <1>11, <1>12, FormStepKeeps DEF Intake!Busy

(* An answer that leaves the tables and the store alone.                      *)
LEMMA FormPlainAnswerKeeps ==
  ASSUME IntakeInv, NEW i \in Intake!Subs, NEW a \in {"ok", "refused", "thrown"},
         Intake!Answer(i, a),
         UNCHANGED <<Intake!screen, Intake!tables, Intake!media, sweep, Intake!memory>>,
         sub[i].at \in Intake!Stages,
         a = "ok" => sub[i].at \in {"token", "refresh"}
  PROVE  IntakeInv'
<1>2. Types /\ SubFollows(i) /\ AssetsFollow(i) /\ BlobsFollow(i)
  BY FormGiven
<1>3. /\ sub' \in [Intake!Subs -> SubRecords] /\ \A j \in Intake!Subs \ {i} : sub'[j] = sub[j]
      /\ sub'[i].at = sub[i].at /\ sub'[i].answer = a /\ sub'[i].brief = sub[i].brief
      /\ sub'[i].photos = sub[i].photos /\ sub'[i].next = sub[i].next
      /\ sub'[i].gone = sub[i].gone
  BY <1>2, FormAnswerIs
<1>5. UNCHANGED <<brief, selected, intake, created, assets, blobs, aged, told, left>>
  BY DEF Intake!screen, Intake!tables, Intake!media, Intake!memory
<1>6. Loops(i)
  BY <1>3, <1>5, FormGiven DEF Loops, Intake!tables, Intake!media, Intake!memory
<1>7. Types' /\ SweepFollows' /\ \A j \in Intake!Subs \ {i} : Same(j)
  BY <1>5, <1>6, LoopKeeps
<1>8. SubFollows(i)'
  BY <1>2, <1>3, <1>5 DEF SubFollows
<1>9. AssetsFollow(i)'
  BY <1>2, <1>3, <1>5 DEF AssetsFollow
<1>10. BlobsFollow(i)'
  BY <1>2, <1>3, <1>5 DEF BlobsFollow, Travels, Intake!Active, Intake!Path
<1>11. (Unfinishes(i)' <=> Unfinishes(i)) /\ i \notin told
  BY <1>2, <1>3 DEF Unfinishes, Intake!Active, Intake!Stages, SubFollows
<1> QED
  BY <1>5, <1>7, <1>8, <1>9, <1>10, <1>11, FormStepKeeps

LEMMA PlainAnswersKeep ==
  ASSUME IntakeInv, NEW i \in Intake!Subs,
         Intake!IssueToken(i) \/ Intake!ListRequests(i) \/ Intake!RouteRefuses(i) \/ Intake!Break(i)
  PROVE  IntakeInv'
<1>1. CASE Intake!IssueToken(i)
  BY <1>1, FormPlainAnswerKeeps DEF Intake!IssueToken, Intake!Sent, Intake!Stages
<1>2. CASE Intake!ListRequests(i)
  BY <1>2, FormPlainAnswerKeeps DEF Intake!ListRequests, Intake!Sent, Intake!Stages
<1>3. CASE Intake!RouteRefuses(i)
  BY <1>3, FormPlainAnswerKeeps DEF Intake!RouteRefuses, Intake!Sent
<1>4. CASE Intake!Break(i)
  BY <1>4, FormPlainAnswerKeeps DEF Intake!Break, Intake!Active
<1> QED
  BY <1>1, <1>2, <1>3, <1>4

LEMMA CreateRequestKeeps ==
  ASSUME IntakeInv, NEW i \in Intake!Subs, Intake!CreateRequest(i) PROVE IntakeInv'
<1>1. /\ sub[i].at = "create" /\ sub[i].answer = "none" /\ Intake!Answer(i, "ok")
      /\ created' = [created EXCEPT ![i] = sub[i].brief]
      /\ UNCHANGED <<Intake!screen, assets, Intake!media, sweep, Intake!memory>>
  BY DEF Intake!CreateRequest, Intake!Sent
<1>2. Types /\ SubFollows(i) /\ AssetsFollow(i) /\ BlobsFollow(i)
  BY FormGiven
<1>3. /\ sub' \in [Intake!Subs -> SubRecords] /\ \A j \in Intake!Subs \ {i} : sub'[j] = sub[j]
      /\ sub'[i].at = sub[i].at /\ sub'[i].answer = "ok" /\ sub'[i].brief = sub[i].brief
      /\ sub'[i].photos = sub[i].photos /\ sub'[i].next = sub[i].next
      /\ sub'[i].gone = sub[i].gone
  BY <1>1, <1>2, FormAnswerIs
<1>4. UNCHANGED <<brief, selected, intake, assets, blobs, aged, sweep, told, left, limit>>
  BY <1>1 DEF Intake!screen, Intake!media, Intake!memory
<1>5. /\ created' \in [Intake!Subs -> Texts \cup {Nothing}] /\ created'[i] = sub[i].brief
      /\ \A j \in Intake!Subs \ {i} : created'[j] = created[j]
  <2>1. /\ created \in [Intake!Subs -> Texts \cup {Nothing}]
        /\ sub[i].brief \in Texts \cup {Nothing}
    BY <1>2, FormTyped DEF Types, SubRecords
  <2> QED
    BY <1>1, <2>1
<1>6. Types'
  BY <1>2, <1>3, <1>4, <1>5 DEF Types
<1>7. \A j \in Intake!Subs \ {i} : Same(j)
  BY <1>3, <1>4, <1>5 DEF Same
<1>8. SweepFollows'
  BY <1>4, SweepKept DEF IntakeInv, Intake!InUse
<1>9. SubFollows(i)'
  BY <1>1, <1>2, <1>3, <1>4, <1>5 DEF SubFollows
<1>10. AssetsFollow(i)'
  BY <1>1, <1>2, <1>3, <1>4 DEF AssetsFollow
<1>11. BlobsFollow(i)'
  BY <1>1, <1>2, <1>3, <1>4 DEF BlobsFollow, Travels
<1>12. (Unfinishes(i)' <=> Unfinishes(i)) /\ i \notin told
  BY <1>1, <1>2, <1>3 DEF Unfinishes, Intake!Active, SubFollows
<1> QED
  BY <1>4, <1>6, <1>7, <1>8, <1>9, <1>10, <1>11, <1>12, FormStepKeeps

LEMMA FormAppendIs ==
  ASSUME NEW s \in Seq(Intake!Paths), NEW b \in Intake!Paths
  PROVE  /\ Append(s, b) \in Seq(Intake!Paths) /\ Len(Append(s, b)) = Len(s) + 1
         /\ \A m \in 1 .. Len(s) : Append(s, b)[m] = s[m]
         /\ Append(s, b)[Len(s) + 1] = b
  BY AppendProperties, LenProperties

LEMMA PathIs ==
  ASSUME Types, NEW i \in Intake!Subs
  PROVE  /\ Intake!Path(i) \in Intake!Paths /\ sub[i].next \in 1 .. MaxPhotos
         /\ Intake!Path(i) = <<i, sub[i].next>>
  BY FormTyped DEF Intake!Path, Intake!Paths, SubRecords

LEMMA PutKeeps ==
  ASSUME IntakeInv, NEW i \in Intake!Subs, Intake!Put(i) PROVE IntakeInv'
<1>1. /\ sub[i].at = "put" /\ sub[i].answer = "none" /\ Intake!Answer(i, "ok")
      /\ blobs' = blobs \cup {Intake!Path(i)}
      /\ UNCHANGED <<Intake!screen, Intake!tables, aged, sweep, Intake!memory>>
  BY DEF Intake!Put, Intake!Sent
<1>2. Types /\ SubFollows(i) /\ AssetsFollow(i) /\ BlobsFollow(i)
  BY FormGiven
<1>3. /\ sub' \in [Intake!Subs -> SubRecords] /\ \A j \in Intake!Subs \ {i} : sub'[j] = sub[j]
      /\ sub'[i].at = sub[i].at /\ sub'[i].answer = "ok" /\ sub'[i].brief = sub[i].brief
      /\ sub'[i].photos = sub[i].photos /\ sub'[i].next = sub[i].next
      /\ sub'[i].gone = sub[i].gone
  BY <1>1, <1>2, FormAnswerIs
<1>4. UNCHANGED <<brief, selected, intake, created, assets, aged, sweep, told, left, limit>>
  BY <1>1 DEF Intake!screen, Intake!tables, Intake!memory
<1>5. /\ Intake!Path(i) \in Intake!Paths /\ sub[i].next \in 1 .. MaxPhotos
      /\ Intake!Path(i) = <<i, sub[i].next>>
  BY <1>2, PathIs
<1>6. Types'
  BY <1>1, <1>2, <1>3, <1>4, <1>5 DEF Types
<1>7. \A j \in Intake!Subs \ {i} : Same(j)
  BY <1>1, <1>3, <1>4, <1>5 DEF Same
<1>8. SweepFollows'
  BY <1>4, SweepKept DEF IntakeInv, Intake!InUse
<1>9. SubFollows(i)'
  BY <1>1, <1>2, <1>3, <1>4 DEF SubFollows
<1>10. AssetsFollow(i)'
  BY <1>1, <1>2, <1>3, <1>4 DEF AssetsFollow
<1>11. BlobsFollow(i)'
  <2>1. \A m \in 1 .. MaxPhotos : <<i, m>> \in blobs' => m <= sub[i].next
    BY <1>1, <1>2, <1>5 DEF BlobsFollow
  <2>2. Travels(i)' => Travels(i)
    BY <1>1, <1>3 DEF Travels, Intake!Active
  <2> QED
    BY <1>1, <1>2, <1>3, <1>4, <2>1, <2>2 DEF BlobsFollow, Intake!Path
<1>12. (Unfinishes(i)' <=> Unfinishes(i)) /\ i \notin told
  BY <1>1, <1>2, <1>3 DEF Unfinishes, Intake!Active, SubFollows
<1> QED
  BY <1>4, <1>6, <1>7, <1>8, <1>9, <1>10, <1>11, <1>12, FormStepKeeps

LEMMA RegisterAssetKeeps ==
  ASSUME IntakeInv, NEW i \in Intake!Subs, Intake!RegisterAsset(i) PROVE IntakeInv'
<1>1. /\ sub[i].at = "register" /\ sub[i].answer = "none" /\ Intake!Path(i) \in blobs
      /\ \/ /\ Intake!Answer(i, "ok")
            /\ assets' = [assets EXCEPT ![i] = Append(@, Intake!Path(i))]
            /\ UNCHANGED Intake!media
         \/ /\ Intake!Answer(i, "refused")
            /\ blobs' = blobs \ {Intake!Path(i)} /\ aged' = aged \ {Intake!Path(i)}
            /\ UNCHANGED assets
      /\ UNCHANGED <<Intake!screen, created, sweep, Intake!memory>>
  BY DEF Intake!RegisterAsset, Intake!Sent
<1>2. Types /\ SubFollows(i) /\ AssetsFollow(i) /\ BlobsFollow(i)
  BY FormGiven
<1>3. PICK a \in {"ok", "refused"} : Intake!Answer(i, a)
  BY <1>1
<1>4. /\ sub' \in [Intake!Subs -> SubRecords] /\ \A j \in Intake!Subs \ {i} : sub'[j] = sub[j]
      /\ sub'[i].at = sub[i].at /\ sub'[i].answer = a /\ sub'[i].brief = sub[i].brief
      /\ sub'[i].photos = sub[i].photos /\ sub'[i].next = sub[i].next
      /\ sub'[i].gone = sub[i].gone
  BY <1>2, <1>3, FormAnswerIs
<1>5. UNCHANGED <<brief, selected, intake, created, sweep, told, left, limit>>
  BY <1>1 DEF Intake!screen, Intake!memory
<1>6. /\ Intake!Path(i) \in Intake!Paths /\ sub[i].next \in 1 .. MaxPhotos
      /\ Intake!Path(i) = <<i, sub[i].next>>
  BY <1>2, PathIs
<1>7. Intake!Path(i) \notin aged /\ aged \ {Intake!Path(i)} = aged
  BY <1>1, <1>2 DEF BlobsFollow, Travels
<1>8. SubFollows(i)'
  BY <1>1, <1>2, <1>4, <1>5 DEF SubFollows
<1>9. Travels(i)' => Travels(i)
  BY <1>1 DEF Travels
<1>10. (Unfinishes(i)' <=> Unfinishes(i)) /\ i \notin told
  BY <1>1, <1>2, <1>4 DEF Unfinishes, Intake!Active, SubFollows
<1>11. /\ assets \in [Intake!Subs -> Seq(Intake!Paths)] /\ assets[i] \in Seq(Intake!Paths)
       /\ Len(assets[i]) = sub[i].next - 1 /\ Len(assets[i]) \in Nat
  BY <1>1, <1>2, FormTyped DEF AssetsFollow, Types
<1>12. CASE /\ Intake!Answer(i, "ok") /\ assets' = [assets EXCEPT ![i] = Append(@, Intake!Path(i))]
            /\ UNCHANGED Intake!media
  <2>1. /\ assets'[i] = Append(assets[i], Intake!Path(i)) /\ UNCHANGED <<blobs, aged>>
        /\ \A j \in Intake!Subs \ {i} : assets'[j] = assets[j]
    BY <1>11, <1>12 DEF Intake!media
  <2>2. /\ Append(assets[i], Intake!Path(i)) \in Seq(Intake!Paths)
        /\ Len(Append(assets[i], Intake!Path(i))) = Len(assets[i]) + 1
        /\ \A m \in 1 .. Len(assets[i]) : Append(assets[i], Intake!Path(i))[m] = assets[i][m]
        /\ Append(assets[i], Intake!Path(i))[Len(assets[i]) + 1] = Intake!Path(i)
    BY <1>6, <1>11, FormAppendIs
  <2>3. Types'
    BY <1>2, <1>4, <1>5, <1>11, <1>12, <2>1, <2>2 DEF Types
  <2>4. \A j \in Intake!Subs \ {i} : Same(j)
    BY <1>4, <1>5, <2>1 DEF Same
  <2>5. SweepFollows'
    <3>1. Intake!InUse \subseteq Intake!InUse'
      BY <1>2, <1>6, <2>1, <2>3, <2>4, InUseGrows
    <3> QED
      BY <1>5, <2>1, <3>1, SweepKept DEF IntakeInv
  <2>6. AssetsFollow(i)'
    <3>1. Len(assets'[i]) = sub[i].next
      BY <1>6, <1>11, <2>1, <2>2
    <3>2. ASSUME NEW m \in 1 .. sub[i].next
          PROVE  assets'[i][m] = <<i, m>> /\ <<i, m>> \in blobs
      <4>1. CASE m = sub[i].next
        BY <1>1, <1>6, <1>11, <2>1, <2>2, <4>1
      <4>2. CASE m # sub[i].next
        <5>1. m \in 1 .. Len(assets[i])
          BY <1>6, <1>11, <4>2
        <5> QED
          BY <1>2, <2>1, <2>2, <5>1 DEF AssetsFollow
      <4> QED
        BY <4>1, <4>2
    <3>3. sub[i].next <= sub[i].next /\ a # "none"
      BY <1>6
    <3> QED
      BY <1>1, <1>4, <2>1, <3>1, <3>2, <3>3 DEF AssetsFollow
  <2>7. BlobsFollow(i)'
    BY <1>1, <1>2, <1>4, <1>9, <2>1 DEF BlobsFollow, Intake!Path
  <2> QED
    BY <1>5, <1>8, <1>10, <2>3, <2>4, <2>5, <2>6, <2>7, FormStepKeeps
<1>13. CASE /\ Intake!Answer(i, "refused") /\ blobs' = blobs \ {Intake!Path(i)}
            /\ aged' = aged \ {Intake!Path(i)} /\ UNCHANGED assets
  <2>1. aged' = aged /\ assets' = assets /\ blobs' = blobs \ {Intake!Path(i)}
    BY <1>7, <1>13
  <2>2. Types'
    BY <1>2, <1>4, <1>5, <1>7, <2>1 DEF Types
  <2>3. \A j \in Intake!Subs \ {i} : Same(j)
    BY <1>4, <1>5, <1>6, <2>1 DEF Same
  <2>4. SweepFollows'
    BY <1>5, <2>1, SweepKept DEF IntakeInv, Intake!InUse
  <2>5. sub'[i].answer = "refused"
    <3>1. \A j \in Intake!Subs \ {i} : sub'[j] = sub[j]
      BY <1>4
    <3> QED
      BY <1>2, <1>13, FormAnswerIs
  <2>6. AssetsFollow(i)'
    <3>1. \A m \in 1 .. Len(assets[i]) : <<i, m>> # Intake!Path(i)
      BY <1>6, <1>11
    <3> QED
      BY <1>1, <1>2, <1>4, <2>1, <2>5, <3>1 DEF AssetsFollow
  <2>7. BlobsFollow(i)'
    BY <1>1, <1>2, <1>4, <1>9, <2>1 DEF BlobsFollow, Intake!Path
  <2> QED
    BY <1>5, <1>8, <1>10, <2>2, <2>3, <2>4, <2>6, <2>7, FormStepKeeps
<1> QED
  BY <1>1, <1>12, <1>13

(* Steps that no submission takes.                                          *)
LEMMA NobodyMoves ==
  ASSUME IntakeInv, \A j \in Intake!Subs : Same(j), Types', SweepFollows',
         intake' = intake \/ (intake.kind \notin Intake!Busy /\ intake'.kind \notin Intake!Busy)
  PROVE  IntakeInv'
<1>1. \A j \in Intake!Subs : SubFollows(j)' /\ AssetsFollow(j)' /\ BlobsFollow(j)'
  BY SubKept DEF IntakeInv
<1>2. Saved => Saved'
  <2>1. told \subseteq told'
    BY DEF IntakeInv, Types, Same
  <2> QED
    BY <2>1, SavedStays DEF IntakeInv, Types
<1>3. \A j \in Intake!Subs : Unfinishes(j)' <=> Unfinishes(j)
  BY DEF Same, Unfinishes, Intake!Active
<1>4. ButtonFollows'
  BY <1>3 DEF IntakeInv, ButtonFollows, Intake!Busy, Intake!Subs
<1>5. \A j \in Intake!Subs : FormWaits(j)'
  BY <1>2, <1>3 DEF IntakeInv, FormWaits, Intake!Busy
<1> QED
  BY <1>1, <1>4, <1>5 DEF IntakeInv, Intake!Subs

LEMMA FormKeeps ==
  ASSUME IntakeInv, Intake!SetBrief \/ Intake!HandleFiles \/ Intake!Refuse PROVE IntakeInv'
<1>1. /\ UNCHANGED <<sub, Intake!tables, Intake!media, sweep, Intake!memory>>
      /\ brief' \in Texts \cup {Nothing} /\ selected' \in Selections \cup {<<>>}
      /\ intake' \in [kind : Intake!Busy \cup {"idle", "success", "error"}, by : 0 .. MaxSubmissions]
      /\ intake' = intake \/ (intake.kind \notin Intake!Busy /\ intake'.kind \notin Intake!Busy)
  <2>1. limit.chosen \subseteq Selections
    BY PartsAssumption DEF IntakeInv, Types, Intake!IntakeAssumption
  <2>2. CASE Intake!SetBrief
    BY <2>2 DEF Intake!SetBrief, IntakeInv, Types
  <2>3. CASE Intake!HandleFiles
    BY <2>1, <2>3 DEF Intake!HandleFiles, IntakeInv, Types
  <2>4. CASE Intake!Refuse
    <3>1. intake' = [kind |-> "error", by |-> 0] /\ intake.kind \notin Intake!Busy
      BY <2>4 DEF Intake!Refuse, Intake!Say, Intake!Enabled
    <3>2. intake'.kind = "error"
          /\ intake' \in [kind : Intake!Busy \cup {"idle", "success", "error"},
                          by : 0 .. MaxSubmissions]
      BY <3>1, FormBounds
    <3> QED
      BY <2>4, <3>1, <3>2 DEF Intake!Refuse, IntakeInv, Types, Intake!Busy
  <2> QED
    BY <2>2, <2>3, <2>4
<1>2. \A j \in Intake!Subs : Same(j)
  BY <1>1 DEF Same, Intake!tables, Intake!media, Intake!memory
<1>3. Types'
  BY <1>1 DEF IntakeInv, Types, Intake!tables, Intake!media, Intake!memory
<1>4. SweepFollows'
  BY <1>1, SweepKept DEF IntakeInv, Intake!InUse, Intake!tables, Intake!media
<1> QED
  BY <1>1, <1>2, <1>3, <1>4, NobodyMoves

LEMMA FormSubmitKeeps ==
  ASSUME IntakeInv, Intake!Submit PROVE IntakeInv'
<1>1. PICK i \in (1 .. limit.submissions) \ Intake!Began :
        /\ Intake!Enabled /\ Intake!Valid
        /\ sub' = [sub EXCEPT ![i] =
                     [Intake!NoSub EXCEPT !.at = "create", !.brief = brief, !.photos = selected]]
        /\ Intake!Say(i, "submitting")
        /\ UNCHANGED <<brief, selected, Intake!tables, Intake!media, sweep, Intake!memory>>
  BY DEF Intake!Submit
<1>2. i \in Intake!Subs /\ sub[i].at = "none"
  <2>1. limit.submissions \in 0 .. MaxSubmissions
    BY PartsAssumption DEF IntakeInv, Types, Intake!IntakeAssumption
  <2>2. i \in Intake!Subs
    BY <1>1, <2>1, FormBounds DEF Intake!Subs
  <2> QED
    BY <1>1, <2>2 DEF Intake!Began
<1>3. Types /\ SubFollows(i) /\ AssetsFollow(i) /\ BlobsFollow(i)
  BY <1>2, FormGiven
<1>4. /\ sub' \in [Intake!Subs -> SubRecords] /\ \A j \in Intake!Subs \ {i} : sub'[j] = sub[j]
      /\ sub'[i].at = "create" /\ sub'[i].answer = "none" /\ sub'[i].brief = brief
      /\ sub'[i].photos = selected /\ sub'[i].next = 1 /\ sub'[i].gone = FALSE
  <2> DEFINE entry == [[[Intake!NoSub EXCEPT !.at = "create"] EXCEPT !.brief = brief]
                          EXCEPT !.photos = selected]
  <2>1. brief \in Texts \cup {Nothing} /\ selected \in Selections \cup {<<>>}
    BY <1>3 DEF Types
  <2>2. /\ Intake!NoSub \in SubRecords /\ Intake!NoSub.answer = "none"
        /\ Intake!NoSub.next = 1 /\ Intake!NoSub.gone = FALSE
    BY FormBounds DEF Intake!NoSub, SubRecords
  <2>3. /\ entry \in SubRecords /\ entry.at = "create" /\ entry.answer = Intake!NoSub.answer
        /\ entry.brief = brief /\ entry.photos = selected /\ entry.next = Intake!NoSub.next
        /\ entry.gone = Intake!NoSub.gone
    <3> HIDE DEF Intake!NoSub
    <3> QED
      BY <2>1, <2>2 DEF SubRecords, Intake!Stages
  <2>4. sub' = [sub EXCEPT ![i] = entry]
    BY <1>1 DEF Intake!NoSub
  <2> HIDE DEF entry
  <2> QED
    BY <1>2, <1>3, <2>2, <2>3, <2>4 DEF Types
<1>5. /\ intake' \in [kind : Intake!Busy \cup {"idle", "success", "error"}, by : 0 .. MaxSubmissions]
      /\ intake'.kind = "submitting" /\ intake'.by = i
  BY <1>1, <1>2, SayIs DEF Intake!Busy
<1>6. UNCHANGED <<created, assets, blobs, aged, told, left>>
  BY <1>1 DEF Intake!tables, Intake!media, Intake!memory
<1>7. Loops(i)
  BY <1>1, <1>2, <1>4, <1>5, FormGiven DEF Loops, Intake!memory
<1>8. Types' /\ SweepFollows' /\ \A j \in Intake!Subs \ {i} : Same(j)
  BY <1>2, <1>6, <1>7, LoopKeeps
<1>9. SubFollows(i)'
  <2>1. brief # Nothing /\ Len(selected) \in 1 .. MaxPhotos
    BY <1>1 DEF Intake!Valid
  <2>2. 1 <= Len(selected)
    BY <2>1, FormBounds
  <2> QED
    BY <1>2, <1>3, <1>4, <1>6, <2>1, <2>2 DEF SubFollows
<1>10. AssetsFollow(i)'
  BY <1>2, <1>3, <1>4, <1>6 DEF AssetsFollow, SubFollows
<1>11. BlobsFollow(i)'
  BY <1>2, <1>3, <1>4, <1>6 DEF BlobsFollow, SubFollows, Travels
<1>12. Unfinishes(i)' /\ intake.kind \notin Intake!Busy /\ i \notin told
  BY <1>1, <1>2, <1>3, <1>4
  DEF Unfinishes, Intake!Active, Intake!Stages, SubFollows, Intake!Enabled
<1> QED
  BY <1>2, <1>5, <1>6, <1>8, <1>9, <1>10, <1>11, <1>12, FormStepKeeps DEF Intake!Busy

LEMMA FormReloadKeeps ==
  ASSUME IntakeInv, Intake!Reload PROVE IntakeInv'
<1>1. /\ brief' = Nothing /\ selected' = <<>> /\ Intake!Say(0, "idle")
      /\ left' = left \cup {i \in Intake!Subs : Intake!Active(i)}
      /\ sub' = [i \in Intake!Subs |-> [sub[i] EXCEPT !.gone = @ \/ Intake!Active(i)]]
      /\ UNCHANGED <<created, assets, blobs, aged, sweep, told, limit>>
  BY DEF Intake!Reload, Intake!tables, Intake!media
<1>2. intake'.kind = "idle"
      /\ intake' \in [kind : Intake!Busy \cup {"idle", "success", "error"}, by : 0 .. MaxSubmissions]
  BY <1>1, FormBounds DEF Intake!Say
<1>3. ASSUME NEW i \in Intake!Subs
      PROVE  /\ sub'[i] \in SubRecords
             /\ sub'[i].at = sub[i].at /\ sub'[i].answer = sub[i].answer
             /\ sub'[i].brief = sub[i].brief /\ sub'[i].photos = sub[i].photos
             /\ sub'[i].next = sub[i].next
             /\ sub'[i].gone => sub[i].gone \/ Intake!Active(i)
             /\ sub[i].gone \/ Intake!Active(i) => sub'[i].gone
  <2>1. sub[i] \in SubRecords /\ Intake!Active(i) \in BOOLEAN
    BY FormTyped DEF IntakeInv, Intake!Active
  <2>2. sub'[i] = [sub[i] EXCEPT !.gone = sub[i].gone \/ Intake!Active(i)]
    BY <1>1, <2>1 DEF SubRecords
  <2>3. sub[i].gone \/ Intake!Active(i) \in BOOLEAN
    BY <2>1 DEF SubRecords
  <2> DEFINE gone == sub[i].gone \/ Intake!Active(i)
  <2> HIDE DEF gone
  <2>4. sub'[i] = [sub[i] EXCEPT !.gone = gone] /\ gone \in BOOLEAN
    BY <2>2, <2>1 DEF gone, SubRecords
  <2>5. /\ sub'[i] \in SubRecords /\ sub'[i].gone = gone
        /\ sub'[i].at = sub[i].at /\ sub'[i].answer = sub[i].answer
        /\ sub'[i].brief = sub[i].brief /\ sub'[i].photos = sub[i].photos
        /\ sub'[i].next = sub[i].next
    BY <2>1, <2>4 DEF SubRecords
  <2> QED
    BY <2>5 DEF gone
<1>4. Types'
  <2>1. sub' \in [Intake!Subs -> SubRecords]
    BY <1>1, <1>3
  <2> QED
    BY <1>1, <1>2, <2>1 DEF IntakeInv, Types
<1>5. ASSUME NEW i \in Intake!Subs
      PROVE  SubFollows(i)' /\ AssetsFollow(i)' /\ BlobsFollow(i)' /\ ~Unfinishes(i)'
  <2>1. SubFollows(i) /\ AssetsFollow(i) /\ BlobsFollow(i)
    BY FormGiven
  <2>2. i \in left' <=> i \in left \/ Intake!Active(i)
    BY <1>1
  <2>3. SubFollows(i)'
    BY <1>1, <1>3, <2>1, <2>2 DEF SubFollows
  <2>4. AssetsFollow(i)'
    BY <1>1, <1>3, <2>1 DEF AssetsFollow
  <2>5. Travels(i)' => Travels(i)
    BY <1>3 DEF Travels, Intake!Active
  <2>6. BlobsFollow(i)'
    BY <1>1, <1>3, <2>1, <2>5 DEF BlobsFollow, Intake!Path
  <2>7. ~Unfinishes(i)'
    BY <1>3 DEF Unfinishes, Intake!Active
  <2> QED
    BY <2>3, <2>4, <2>6, <2>7
<1>6. SweepFollows'
  BY <1>1, SweepKept DEF IntakeInv, Intake!InUse
<1>7. ButtonFollows' /\ \A i \in Intake!Subs : FormWaits(i)'
  BY <1>2, <1>5 DEF ButtonFollows, FormWaits, Intake!Busy
<1> QED
  BY <1>4, <1>5, <1>6, <1>7 DEF IntakeInv, Intake!Subs

LEMMA AgeKeeps ==
  ASSUME IntakeInv, Intake!Age PROVE IntakeInv'
<1>1. PICK b \in blobs \ (aged \cup Intake!OnTheWay) :
        /\ aged' = aged \cup {b}
        /\ UNCHANGED <<Intake!screen, sub, Intake!tables, blobs, sweep, Intake!memory>>
  BY DEF Intake!Age
<1>2. UNCHANGED <<brief, selected, intake, sub, created, assets, blobs, sweep, told, left, limit>>
  BY <1>1 DEF Intake!screen, Intake!tables, Intake!memory
<1>3. Types'
  BY <1>1, <1>2 DEF IntakeInv, Types
<1>4. ASSUME NEW i \in Intake!Subs
      PROVE  SubFollows(i)' /\ AssetsFollow(i)' /\ BlobsFollow(i)' /\ FormWaits(i)'
  <2>1. SubFollows(i) /\ AssetsFollow(i) /\ BlobsFollow(i) /\ FormWaits(i)
    BY FormGiven
  <2>2. Travels(i) => Intake!Path(i) # b
    BY <1>1, OnTheWayIs
  <2>3. SubFollows(i)'
    BY <1>2, <2>1 DEF SubFollows
  <2>4. AssetsFollow(i)'
    BY <1>2, <2>1 DEF AssetsFollow
  <2>5. BlobsFollow(i)'
    BY <1>1, <1>2, <2>1, <2>2 DEF BlobsFollow, Travels, Intake!Active, Intake!Path
  <2>6. FormWaits(i)'
    BY <1>2, <2>1
    DEF FormWaits, Unfinishes, Intake!Active, Saved, Intake!Complete, Intake!Owed
  <2> QED
    BY <2>3, <2>4, <2>5, <2>6
<1>5. SweepFollows'
  BY <1>1, <1>2, SweepKept DEF IntakeInv, Intake!InUse
<1>6. ButtonFollows'
  BY <1>2 DEF IntakeInv, ButtonFollows, Unfinishes, Intake!Active
<1> QED
  BY <1>3, <1>4, <1>5, <1>6 DEF IntakeInv, Intake!Subs

LEMMA ReportsKeep ==
  ASSUME IntakeInv, Intake!ListAllAssetBlobUrls \/ Intake!ListAssets \/ Intake!Report
  PROVE  IntakeInv'
<1>1. UNCHANGED <<Intake!screen, sub, Intake!tables, Intake!media, Intake!memory>>
  BY DEF Intake!ListAllAssetBlobUrls, Intake!ListAssets, Intake!Report
<1>2. \A j \in Intake!Subs : Same(j)
  BY <1>1 DEF Same, Intake!tables, Intake!media, Intake!memory
<1>3. Intake!InUse \subseteq Intake!Paths /\ Intake!InUse' = Intake!InUse /\ aged' = aged
  <2>1. ASSUME NEW i \in Intake!Subs
        PROVE  Intake!Range(assets[i]) \subseteq Intake!Paths
    BY IntakeIsSoundThen
    DEF Intake!IntakeIsSound, Intake!AssetsAreStored, IntakeInv, Types
  <2> QED
    BY <1>1, <2>1 DEF Intake!InUse, Intake!tables, Intake!media
<1>4. Sweeps = Sweeps' /\ sweep \in Sweeps /\ blobs \subseteq Intake!Paths
  BY DEF IntakeInv, Types, Sweeps, Intake!Paths, Intake!Subs
<1>5. sweep' \in Sweeps /\ SweepFollows'
  <2>1. ASSUME NEW s \in Sweeps, Intake!Read(s), s.known \/ s.listed,
               s.before = sweep.before, s.report = sweep.report,
               s.known => s.registered = IF sweep.known THEN sweep.registered ELSE Intake!InUse,
               \A b \in Intake!Paths : <<b, TRUE>> \in s.found => b \in aged,
               sweep.known => s.known, sweep.listed => s.listed
        PROVE  sweep' \in Sweeps /\ SweepFollows'
    <3>1. CASE sweep.known \/ sweep.listed
      <4>1. sweep' = s
        BY <2>1, <3>1 DEF Intake!Read
      <4> QED
        BY <1>3, <2>1, <3>1, <4>1 DEF IntakeInv, SweepFollows, Intake!Paths, Intake!Subs
    <3>2. CASE ~(sweep.known \/ sweep.listed)
      <4>1. sweep' = [[s EXCEPT !.before = Intake!InUse] EXCEPT !.report = {}]
        BY <2>1, <3>2 DEF Intake!Read
      <4>2. /\ sweep' \in Sweeps /\ sweep'.before = Intake!InUse /\ sweep'.report = {}
            /\ sweep'.known = s.known /\ sweep'.listed = s.listed
            /\ sweep'.registered = s.registered /\ sweep'.found = s.found
        BY <1>3, <2>1, <4>1 DEF Sweeps
      <4> QED
        BY <1>3, <2>1, <3>2, <4>2 DEF SweepFollows, Intake!Paths, Intake!Subs
    <3> QED
      BY <3>1, <3>2
  <2>2. CASE Intake!ListAllAssetBlobUrls
    <3> DEFINE s == [[sweep EXCEPT !.known = TRUE] EXCEPT !.registered = Intake!InUse]
    <3>1. Intake!Read(s) /\ ~sweep.known
      BY <2>2 DEF Intake!ListAllAssetBlobUrls
    <3>2. /\ s \in Sweeps /\ s.known = TRUE /\ s.registered = Intake!InUse
          /\ s.listed = sweep.listed /\ s.found = sweep.found
          /\ s.before = sweep.before /\ s.report = sweep.report
      BY <1>3, <1>4 DEF Sweeps
    <3> HIDE DEF s
    <3> QED
      BY <2>1, <3>1, <3>2 DEF IntakeInv, SweepFollows
  <2>3. CASE Intake!ListAssets
    <3> DEFINE sighted == {<<b, b \in aged>> : b \in blobs}
               s == [[sweep EXCEPT !.listed = TRUE] EXCEPT !.found = sighted]
    <3>1. Intake!Read(s)
      BY <2>3 DEF Intake!ListAssets
    <3>2. sighted \subseteq Intake!Paths \X BOOLEAN /\ \A b \in Intake!Paths : <<b, TRUE>> \in sighted => b \in aged
      <4>1. ASSUME NEW f \in sighted
            PROVE  \E b \in Intake!Paths, q \in BOOLEAN : f = <<b, q>> /\ (q = TRUE => b \in aged)
        <5>1. PICK b \in blobs : f = <<b, b \in aged>>
          BY <4>1
        <5>2. CASE b \in aged
          <6>1. (b \in aged) = TRUE
            BY <5>2
          <6> QED
            BY <1>4, <5>1, <5>2, <6>1
        <5>3. CASE b \notin aged
          <6>1. (b \in aged) = FALSE
            BY <5>3
          <6> QED
            BY <1>4, <5>1, <6>1
        <5> QED
          BY <5>2, <5>3
      <4> HIDE DEF sighted
      <4>2. ASSUME NEW f \in sighted
            PROVE  f \in Intake!Paths \X BOOLEAN
        <5>1. PICK b \in Intake!Paths, q \in BOOLEAN : f = <<b, q>>
          BY <4>1, <4>2
        <5> QED
          BY <5>1
      <4>3. ASSUME NEW b \in Intake!Paths, <<b, TRUE>> \in sighted
            PROVE  b \in aged
        <5>1. PICK c \in Intake!Paths, q \in BOOLEAN : <<b, TRUE>> = <<c, q>> /\ (q = TRUE => c \in aged)
          BY <4>1, <4>3
        <5> QED
          BY <5>1
      <4> QED
        BY <4>2, <4>3
    <3> HIDE DEF sighted
    <3>3. /\ s \in Sweeps /\ s.known = sweep.known /\ s.registered = sweep.registered
          /\ s.listed = TRUE /\ s.found = sighted
          /\ s.before = sweep.before /\ s.report = sweep.report
      BY <1>4, <3>2 DEF Sweeps
    <3> HIDE DEF s
    <3> QED
      BY <2>1, <3>1, <3>2, <3>3
  <2>4. CASE Intake!Report
    <3> DEFINE finding == Intake!FindOrphanedUploads(sweep.found, sweep.registered)
    <3>1. /\ sweep.known /\ sweep.listed
          /\ sweep' = [[Intake!NoSweep EXCEPT !.before = sweep.before] EXCEPT !.report = finding]
      BY <2>4 DEF Intake!Report
    <3>2. /\ finding \subseteq Intake!Paths /\ finding \subseteq aged
          /\ finding \cap sweep.registered = {}
      <4>1. sweep.found \subseteq Intake!Paths \X BOOLEAN
        BY <1>4 DEF Sweeps
      <4>2. ASSUME NEW b \in finding
            PROVE  b \in Intake!Paths /\ b \in aged /\ b \notin sweep.registered
        <5>1. PICK f \in sweep.found : f[2] /\ b = f[1]
          BY <4>2 DEF Intake!FindOrphanedUploads
        <5>2. b \in Intake!Paths /\ f = <<b, TRUE>>
          <6>1. PICK p \in Intake!Paths, q \in BOOLEAN : f = <<p, q>>
            BY <4>1, <5>1
          <6>2. p = b /\ q
            BY <5>1, <6>1
          <6>3. q = TRUE
            BY <6>1, <6>2
          <6> QED
            BY <6>1, <6>2, <6>3
        <5>3. b \notin sweep.registered
          BY <4>2 DEF Intake!FindOrphanedUploads
        <5> QED
          BY <5>1, <5>2, <5>3 DEF IntakeInv, SweepFollows
      <4> QED
        BY <4>2
    <3> HIDE DEF finding
    <3>3. /\ Intake!NoSweep \in Sweeps /\ Intake!NoSweep.known = FALSE
          /\ Intake!NoSweep.listed = FALSE
          /\ Intake!NoSweep.found = {}
      BY DEF Intake!NoSweep, Sweeps
    <3>4. /\ sweep' \in Sweeps /\ sweep'.before = sweep.before /\ sweep'.report = finding
          /\ sweep'.known = FALSE /\ sweep'.listed = FALSE /\ sweep'.found = {}
      <4> HIDE DEF Intake!NoSweep
      <4> QED
        BY <1>4, <3>1, <3>2, <3>3 DEF Sweeps
    <3>5. sweep.before \subseteq sweep.registered
      BY <3>1 DEF IntakeInv, SweepFollows
    <3> QED
      BY <1>3, <3>2, <3>4, <3>5 DEF SweepFollows, Intake!Paths, Intake!Subs
  <2> QED
    BY <2>2, <2>3, <2>4
<1>6. Types' /\ intake' = intake
  BY <1>1, <1>4, <1>5
  DEF IntakeInv, Types, Intake!screen, Intake!tables, Intake!media, Intake!memory
<1> QED
  BY <1>2, <1>5, <1>6, NobodyMoves

LEMMA IntakeStep ==
  ASSUME IntakeInv, Intake!Next \/ UNCHANGED Intake!intakeVars PROVE IntakeInv'
<1>1. CASE UNCHANGED Intake!intakeVars
  <2>1. UNCHANGED <<Intake!screen, sub, Intake!tables, Intake!media, sweep, Intake!memory>>
    BY <1>1 DEF Intake!intakeVars
  <2>2. \A j \in Intake!Subs : Same(j)
    BY <2>1 DEF Same, Intake!tables, Intake!media, Intake!memory
  <2>3. Types' /\ intake' = intake
    BY <2>1
    DEF IntakeInv, Types, Intake!screen, Intake!tables, Intake!media, Intake!memory
  <2>4. SweepFollows'
    BY <2>1, SweepKept DEF IntakeInv, Intake!InUse, Intake!tables, Intake!media
  <2> QED
    BY <2>2, <2>3, <2>4, NobodyMoves
<1>2. CASE Intake!SetBrief \/ Intake!HandleFiles \/ Intake!Refuse \/ Intake!Submit \/ Intake!Reload
  BY <1>2, FormKeeps, FormSubmitKeeps, FormReloadKeeps
<1>3. CASE Intake!Age \/ Intake!ListAllAssetBlobUrls \/ Intake!ListAssets \/ Intake!Report
  BY <1>3, AgeKeeps, ReportsKeep
<1>4. ASSUME NEW i \in Intake!Subs, Intake!Step(i) PROVE IntakeInv'
  BY <1>4, RequestIsCreatedKeeps, MayUploadKeeps, IsUploadedKeeps, IsRegisteredKeeps,
     SucceedKeeps, RefreshRequestsKeeps, GiveUpKeeps DEF Intake!Step
<1>5. ASSUME NEW i \in Intake!Subs, Intake!Serve(i) PROVE IntakeInv'
  BY <1>5, CreateRequestKeeps, PlainAnswersKeep, PutKeeps, RegisterAssetKeeps
  DEF Intake!Serve
<1> QED
  BY <1>1, <1>2, <1>3, <1>4, <1>5 DEF Intake!Next
-------------------------------------------------------------------------------
(* The parts together.                                                      *)

AppInv ==
  /\ part \in {"onboarding", "intake", "trail", "link", "posting", "import"}
  /\ part = "onboarding" => OnbInv
  /\ part = "intake" => IntakeInv
  /\ part = "trail" => TrailInv
  /\ part = "link" => LinkInv
  /\ part = "posting" => WorkInv
  /\ part = "import" => ImportInv

LEMMA AppStarts == InitParts => AppInv
  BY OnbStarts, IntakeStarts, TrailStarts, LinkStarts, WorkStarts, ImportStarts
  DEF InitParts, AppInv

LEMMA AppKeeps == AppInv /\ [NextPart]_appVars => AppInv'
<1> SUFFICES ASSUME AppInv, [NextPart]_appVars
             PROVE  AppInv'
  OBVIOUS
<1>1. UNCHANGED part
  BY DEF NextPart, appVars
<1>2. ASSUME part = "onboarding" PROVE OnbInv'
  <2>1. Next \/ UNCHANGED vars
    BY <1>2
    DEF NextPart, OnboardingMoves, IntakeMoves, TrailMoves, LinkMoves, PostingMoves,
       ImportMoves, appVars
  <2> QED
    BY <1>2, <2>1, OnbStep DEF AppInv
<1>3. ASSUME part = "intake" PROVE IntakeInv'
  <2>1. Intake!Next \/ UNCHANGED intakeForm
    BY <1>3
    DEF NextPart, OnboardingMoves, IntakeMoves, TrailMoves, LinkMoves, PostingMoves,
       ImportMoves, appVars
  <2>2. Intake!Next \/ UNCHANGED Intake!intakeVars
    BY <2>1
    DEF intakeForm, Intake!intakeVars, Intake!screen, Intake!tables, Intake!media,
       Intake!memory
  <2> QED
    BY <1>3, <2>2, IntakeStep DEF AppInv
<1>4. ASSUME part = "trail" PROVE TrailInv'
  <2>1. Trail!Next \/ UNCHANGED trail
    BY <1>4
    DEF NextPart, OnboardingMoves, IntakeMoves, TrailMoves, LinkMoves, PostingMoves,
       ImportMoves, appVars
  <2>2. Trail!Next \/ UNCHANGED Trail!trailVars
    BY <2>1 DEF trail, Trail!trailVars
  <2> QED
    BY <1>4, <2>2, TrailStep DEF AppInv
<1>5. ASSUME part = "link" PROVE LinkInv'
  <2>1. Link!Next \/ UNCHANGED linking
    BY <1>5
    DEF NextPart, OnboardingMoves, IntakeMoves, TrailMoves, LinkMoves, PostingMoves,
       ImportMoves, appVars
  <2>2. Link!Next \/ UNCHANGED Link!linkVars
    BY <2>1 DEF linking, Link!linkVars
  <2> QED
    BY <1>5, <2>2, LinkStep DEF AppInv
<1>6. ASSUME part = "posting" PROVE WorkInv'
  <2>1. Posting!Next \/ UNCHANGED posting
    BY <1>6
    DEF NextPart, OnboardingMoves, IntakeMoves, TrailMoves, LinkMoves, PostingMoves,
       ImportMoves, appVars
  <2>2. Posting!Next \/ UNCHANGED Posting!workspaceVars
    BY <2>1 DEF posting, Posting!workspaceVars
  <2> QED
    BY <1>6, <2>2, WorkStep DEF AppInv
<1>7. ASSUME part = "import" PROVE ImportInv'
  <2>1. Import!Next \/ UNCHANGED importing
    BY <1>7
    DEF NextPart, OnboardingMoves, IntakeMoves, TrailMoves, LinkMoves, PostingMoves,
       ImportMoves, appVars
  <2>2. Import!Next \/ UNCHANGED Import!importVars
    BY <2>1 DEF importing, Import!importVars
  <2> QED
    BY <1>7, <2>2, ImportStep DEF AppInv
<1> QED
  BY <1>1, <1>2, <1>3, <1>4, <1>5, <1>6, <1>7 DEF AppInv

LEMMA AppSound == AppInv => TypesOK /\ ScreensTellTheTruth /\ RecordsAreSound
<1> SUFFICES ASSUME AppInv
             PROVE  TypesOK /\ ScreensTellTheTruth /\ RecordsAreSound
  OBVIOUS
<1>1. part = "onboarding" => TypeOK /\ ScreenTellsTheTruth
  BY ScreenTellsTheTruthThen DEF AppInv, OnbInv
<1>2. part = "intake" => Intake!TypeOK /\ Intake!IntakeIsSound
  BY IntakeIsSoundThen DEF AppInv
<1>3. part = "trail" => Trail!TypeOK /\ Trail!TrailIsSound
  BY TrailIsSoundThen DEF AppInv, TrailInv
<1>4. part = "link" => Link!TypeOK /\ Link!LinkIsSound
  BY LinkIsSoundThen DEF AppInv
<1>5. part = "posting" => Posting!TypeOK /\ Posting!WorkspaceIsSound
  BY DEF AppInv, WorkInv
<1>6. part = "import" => Import!TypeOK /\ Import!ImportIsSound
  BY ImportIsSoundThen DEF AppInv
<1> QED
  BY <1>1, <1>2, <1>3, <1>4, <1>5, <1>6
  DEF TypesOK, ScreensTellTheTruth, RecordsAreSound

(* The state of each part of the owner's app is of its types.                *)
THEOREM TypesCorrect == AllParts => []TypesOK
<1>1. InitParts => AppInv
  BY AppStarts
<1> QED
  BY <1>1, AppKeeps, AppSound, PTL DEF AllParts

(* What the owner's screens show is true: of the onboarding tab, each draft,   *)
(* confirmation, review, completion, session and wait; of the form, what was    *)
(* kept of a submission; of the posting screen, whose photographs a draft and   *)
(* a turn are about.  Inductive with what each request is for, which stage its  *)
(* route has reached and what the tables held then.                          *)
THEOREM ScreensStayTrue == AllParts => []ScreensTellTheTruth
<1>1. InitParts => AppInv
  BY AppStarts
<1> QED
  BY <1>1, AppKeeps, AppSound, PTL DEF AllParts

(* What the tables hold is sound: events are stored in order and none twice     *)
(* but where an answer was lost, an account is linked by the flow that asked    *)
(* for it, and an import leaves what it read.  Inductive with what each queue   *)
(* and batch holds, where each flow stands, and what each command has seen.     *)
THEOREM RecordsStaySound == AllParts => []RecordsAreSound
<1>1. InitParts => AppInv
  BY AppStarts
<1> QED
  BY <1>1, AppKeeps, AppSound, PTL DEF AllParts
===============================================================================
