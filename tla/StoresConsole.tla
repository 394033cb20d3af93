---------------------------- MODULE StoresConsole ----------------------------
(***************************************************************************)
(* The operator's list of stores (stores-console.tsx): the stores that wait  *)
(* for their setup, and a card for each access request with the moves its    *)
(* state offers.  One lock serves all cards (pendingId) and another all      *)
(* setups (runningSetupStoreId), and nothing is polled: what the screen      *)
(* shows comes from the answers to the operator's own requests.  The routes' *)
(* statements are GbpListing's and are one step here.                       *)
(***************************************************************************)
EXTENDS GbpAccess, Integers

CONSTANTS
  Shops, Nobody,
  Lines,         \* bound: requests of the page in flight
  Targets,       \* bound: the states an override is asked for
  Efforts        \* bound: buttons the operator presses, changes by the owners
                 \* and by other operators, and answers that fail

StoresAssumption ==
  /\ Nobody \notin Shops /\ Lines \subseteq Nat \ {0} /\ 1 \in Lines
  /\ Targets \subseteq AccessStates /\ Efforts \subseteq [presses : Nat, moves : Nat, cuts : Nat]

VARIABLES
  request, clock,         \* the access requests, and the changes made so far
  cards, setups,          \* stores and pendingSetupStores of the page
  pendingId, runningId,   \* the two locks
  orders,                 \* requests of the page in flight
  told, newest, trouble,  \* history: the row last answered for a store, the
                          \* latest reading shown, what went wrong on the way
  effort                  \* bound: what may still happen

lists == <<cards, setups>>
locks == <<pendingId, runningId>>
past == <<told, newest, trouble>>
storeVars == <<request, clock, lists, locks, orders, past, effort>>

(* A request: its state, whether a listing is on file, when it was changed.  *)
NoRequest == [state |-> "none", listing |-> FALSE, at |-> 0]
RequestRows == [state : AccessStates \cup {"none"}, listing : BOOLEAN, at : Nat]
Tracked(s) == request[s].state # "none"

Moves == AccessActions \cup {"note", "setup", "load"}
ByCard == (AccessActions \ {"ATTACH_LOCATION"}) \cup {"note"}
Refetching == {"setup", "ATTACH_LOCATION"}

(* What an answer brings: the rows of some stores, as they were at `asOf`.   *)
NoRows == [s \in {} |-> NoRequest]
IsReading(f) == \E S \in SUBSET Shops : f \in [S -> RequestRows]
Stages == {"sent", "ok", "refused", "pend", "pended", "list", "listed", "loading", "loaded"}
IsOrder(o) ==
  \E S \in SUBSET Shops :
    o \in [move : Moves \cup {"none"}, shop : Shops \cup {Nobody}, stage : Stages,
          asOf : Nat, rows : [S -> RequestRows], waiting : SUBSET Shops]
NoOrder == [move |-> "none", shop |-> Nobody, stage |-> "sent", asOf |-> 0,
            rows |-> NoRows, waiting |-> {}]
Order(m, s) == [NoOrder EXCEPT !.move = m, !.shop = s]

Init ==
  /\ request \in [Shops -> {NoRequest, [NoRequest EXCEPT !.state = "not_requested"]}]
  /\ clock = 0 /\ cards = NoRows /\ setups = {} /\ pendingId = Nobody /\ runningId = Nobody
  /\ orders = [l \in Lines |-> IF l = 1 THEN Order("load", Nobody) ELSE NoOrder]
  /\ told = [s \in Shops |-> 0] /\ newest = 0 /\ trouble = {}
  /\ effort \in Efforts
-------------------------------------------------------------------------------
(* The operator.                                                           *)

\* Plausible bug: access can be granted before it was asked for.
GrantsAtOnce(state) ==
  IF state = "not_requested" THEN {"SEND_INVITE", "GRANT"} ELSE {}

(* naturalActionsByState, and the controls beside it.                      *)
NaturalActions(state) ==
  CASE state = "not_requested" -> {"SEND_INVITE"}
    [] state = "adoption_review" -> {"CONFIRM_ADOPTION"}
    [] state = "invited" -> {"MARK_PENDING", "GRANT"}
    [] state = "pending" -> {"GRANT"}
    [] state = "granted" -> {"REVOKE"}
    [] state = "revoked" -> {}
    [] state = "blocked" -> {"SEND_INVITE", "CONFIRM_ADOPTION", "GRANT"}
CanBlock == {"not_requested", "adoption_review", "invited", "pending"}

CanAttach(card) ==
  /\ "CONFIRM_ADOPTION" \notin NaturalActions(card.state)
  /\ ~card.listing /\ card.state \in AttachFrom

Offered(card) ==
  NaturalActions(card.state) \cup {"OVERRIDE", "note"}
    \cup (IF card.state \in CanBlock THEN {"BLOCK"} ELSE {})
    \cup (IF card.state = "adoption_review" THEN {"REJECT_ADOPTION"} ELSE {})

Free(l) == orders[l] = NoOrder /\ \A k \in Lines : orders[k] = NoOrder => l <= k
InFlight(s, kinds) == {l \in Lines : orders[l].move \in kinds /\ orders[l].shop = s}

Press(l, o) ==
  /\ Free(l) /\ effort.presses > 0 /\ effort' = [effort EXCEPT !.presses = @ - 1]
  /\ orders' = [orders EXCEPT ![l] = o]
  /\ UNCHANGED <<request, clock, lists, told, newest>>

\* Plausible bug: a card is not disabled while it waits.
NeverBusy(s) == FALSE
Busy(s) == pendingId = s

(* run: one lock, taken over from whichever card held it.                  *)
Run(l, s, m) ==
  /\ s \in DOMAIN cards /\ ~Busy(s) /\ m \in Offered(cards[s])
  /\ Press(l, Order(m, s))
  /\ pendingId' = s
  /\ trouble' = trouble \cup
       (IF \E t \in Shops \ {s} : InFlight(t, ByCard) # {} THEN {"overlap"} ELSE {})
  /\ UNCHANGED runningId

(* handleRunSetup and handleAttachLocation.  An attachment from a card does  *)
(* not look at the setups' lock.                                           *)
RunSetup(l, s, m) ==
  /\ m \in Refetching
  /\ \/ s \in setups /\ runningId # s
     \/ m = "ATTACH_LOCATION" /\ s \in DOMAIN cards /\ CanAttach(cards[s]) /\ ~Busy(s)
  /\ Press(l, Order(m, s))
  /\ runningId' = s
  /\ UNCHANGED <<pendingId, trouble>>
-------------------------------------------------------------------------------
(* The routes.                                                             *)

Change(s, state, listing) ==
  /\ clock' = clock + 1
  /\ request' = [request EXCEPT ![s] = [state |-> state, listing |-> listing, at |-> clock + 1]]
Stage(l, stage, rows, waiting) ==
  orders' = [orders EXCEPT ![l].stage = stage, ![l].rows = rows, ![l].waiting = waiting,
                           ![l].asOf = clock']

Listings(s, m) == request[s].listing \/ m \in {"CONFIRM_ADOPTION", "ATTACH_LOCATION", "setup"}

(* What a route writes, when it finds the request where the move starts.     *)
Effect(o) ==
  LET s == o.shop
  IN  \/ /\ o.move \in ByCard \ {"note"}
         /\ \E n \in Transition(request[s].state, o.move) :
               /\ o.move = "OVERRIDE" => n \in Targets
               /\ Change(s, n, Listings(s, o.move))
      \/ o.move = "note" /\ Change(s, request[s].state, request[s].listing)
      \/ /\ o.move = "setup"
         /\ \/ UNCHANGED <<request, clock>>
            \/ ~Tracked(s) /\ Change(s, "not_requested", TRUE)
      \/ /\ o.move = "ATTACH_LOCATION" /\ request[s].state \in AttachFrom \cup {"none"}
         /\ Change(s, "granted", TRUE)

Sent(l) == orders[l].move \notin {"none", "load"} /\ orders[l].stage = "sent"

Serve(l) ==
  /\ Sent(l) /\ Effect(orders[l]) /\ Stage(l, "ok", [s \in {orders[l].shop} |-> request'[s]], {})
  /\ UNCHANGED <<lists, locks, past, effort>>

Cut(what) ==
  /\ effort.cuts > 0 /\ effort' = [effort EXCEPT !.cuts = @ - 1]
  /\ trouble' = trouble \cup {what}

(* A refusal writes nothing, but that an attachment has opened the request   *)
(* by then; an error may come when all is written.                          *)
Refuse(l) ==
  /\ Sent(l)
  /\ \/ UNCHANGED <<request, clock, trouble, effort>>
     \/ Effect(orders[l]) /\ Cut("error")
     \/ /\ orders[l].move = "ATTACH_LOCATION" /\ ~Tracked(orders[l].shop)
        /\ Change(orders[l].shop, "not_requested", FALSE)
        /\ UNCHANGED <<trouble, effort>>
  /\ Stage(l, "refused", [s \in {orders[l].shop} |-> request'[s]], {})
  /\ UNCHANGED <<lists, locks, told, newest>>

Waiting == {s \in Shops : ~Tracked(s)}
Listed == {s \in Shops : Tracked(s)}
ListedRows == [s \in Listed |-> request[s]]

(* The two lists; an answer that is no success is read as an empty list.     *)
ReadList(l) ==
  /\ UNCHANGED <<request, clock>>
  /\ \/ orders[l].stage = "list" /\ \E f \in {ListedRows, NoRows} :
          /\ Stage(l, "listed", f, {})
          /\ IF f = ListedRows THEN UNCHANGED <<trouble, effort>> ELSE Cut("failed")
     \/ orders[l].stage = "pend" /\ \E w \in {Waiting, {}} :
          /\ Stage(l, "pended", NoRows, w)
          /\ IF w = Waiting THEN UNCHANGED <<trouble, effort>> ELSE Cut("failed")
     \/ /\ orders[l].move = "load" /\ orders[l].stage = "sent"
        /\ Stage(l, "loading", ListedRows, {})
        /\ UNCHANGED <<trouble, effort>>
     \/ /\ orders[l].stage = "loading"
        /\ Stage(l, "loaded", orders[l].rows, Waiting)
        /\ UNCHANGED <<trouble, effort>>
  /\ UNCHANGED <<lists, locks, told, newest>>

(* Owners open adoption reviews, other operators set up and move requests.   *)
OtherMoves(s) ==
  /\ effort.moves > 0 /\ effort' = [effort EXCEPT !.moves = @ - 1]
  /\ \/ ~Tracked(s) /\ \E n \in {"not_requested", "adoption_review"}, b \in BOOLEAN :
          Change(s, n, b)
     \/ /\ Tracked(s)
        /\ \E a \in {"CONFIRM_ADOPTION", "GRANT", "BLOCK"} :
             \E n \in Transition(request[s].state, a) : Change(s, n, Listings(s, a))
  /\ UNCHANGED <<lists, locks, orders, past>>
-------------------------------------------------------------------------------
(* The answers on the page.                                                *)

Await(l, stage) ==
  orders' = [orders EXCEPT ![l].stage = stage, ![l].rows = NoRows, ![l].waiting = {}]
End(l) == orders' = [orders EXCEPT ![l] = NoOrder]

(* An answer that was read before another one that is already shown.         *)
Shows(l) ==
  /\ newest' = IF orders[l].asOf > newest THEN orders[l].asOf ELSE newest
  /\ trouble' = IF orders[l].asOf < newest THEN trouble \cup {"crossed"} ELSE trouble
Tells(l) == told' = [told EXCEPT ![orders[l].shop] = orders[l].rows[orders[l].shop].at]

Upserted(o) ==
  [s \in DOMAIN cards |-> IF s = o.shop THEN o.rows[s] ELSE cards[s]]

\* Plausible bug: the card is unlocked only where its move succeeded.
StaysLocked == UNCHANGED pendingId
Unlock == pendingId' = Nobody

\* Plausible bug: a conflict is only told.
OnlyTold(l) == End(l) /\ Unlock
Resync(l) == Await(l, "list") /\ UNCHANGED pendingId

ShowMove(l) ==
  LET o == orders[l]
  IN  /\ o.move \in ByCard /\ o.stage \in {"ok", "refused"}
      /\ Tells(l)
      /\ IF o.stage = "ok"
         THEN cards' = Upserted(o) /\ End(l) /\ Unlock /\ Shows(l)
         ELSE Resync(l) /\ UNCHANGED <<cards, newest, trouble>>
      /\ UNCHANGED <<request, clock, setups, runningId, effort>>

\* Plausible bug: the cards are fetched before the stores that wait.
Swapped(stage) ==
  CASE stage = "start" -> "list" [] stage = "listed" -> "pend" [] stage = "pended" -> "end"
NextList(stage) ==
  CASE stage = "start" -> "pend" [] stage = "pended" -> "list" [] stage = "listed" -> "end"

ShowSetup(l) ==
  /\ orders[l].move \in Refetching /\ orders[l].stage \in {"ok", "refused"}
  /\ Tells(l) /\ Await(l, NextList("start"))
  /\ UNCHANGED <<request, clock, lists, locks, newest, trouble, effort>>

ShowList(l) ==
  LET o == orders[l]
      refetching == o.move \in Refetching
  IN  /\ o.stage \in {"pended", "listed"}
      /\ IF o.stage = "listed" THEN cards' = o.rows /\ UNCHANGED setups
         ELSE setups' = o.waiting /\ UNCHANGED cards
      /\ Shows(l)
      /\ IF refetching /\ NextList(o.stage) # "end"
         THEN Await(l, NextList(o.stage)) /\ UNCHANGED locks
         ELSE /\ End(l)
              /\ IF refetching THEN runningId' = Nobody /\ UNCHANGED pendingId
                 ELSE Unlock /\ UNCHANGED runningId
      /\ UNCHANGED <<request, clock, told, effort>>

(* The page reads the cards first and the stores that wait second.          *)
ShowPage(l) ==
  /\ orders[l].stage = "loaded"
  /\ cards' = orders[l].rows /\ setups' = orders[l].waiting
  /\ newest' = orders[l].asOf /\ End(l)
  /\ trouble' = IF setups' \cup DOMAIN cards' = Shops THEN trouble
                ELSE trouble \cup {"missed"}
  /\ UNCHANGED <<request, clock, locks, told, effort>>

(* A request that throws ends its handler; nothing is caught, so the lock    *)
(* stays.  The route may have done its work.                               *)
Throw(l) ==
  /\ orders[l].move \notin {"none", "load"}
  /\ End(l) /\ Cut("thrown")
  /\ UNCHANGED <<request, clock, lists, locks, told, newest>>

Next ==
  \/ \E s \in Shops : OtherMoves(s)
  \/ \E l \in Lines :
       \/ \E s \in Shops, m \in Moves : Run(l, s, m) \/ RunSetup(l, s, m)
       \/ Serve(l) \/ Refuse(l) \/ ReadList(l) \/ ShowMove(l) \/ ShowSetup(l)
       \/ ShowList(l) \/ ShowPage(l) \/ Throw(l)

Spec == Init /\ [][Next]_storeVars
-------------------------------------------------------------------------------
(* Type invariant.                                                         *)
TypeOK ==
  /\ request \in [Shops -> RequestRows] /\ clock \in Nat
  /\ IsReading(cards) /\ setups \subseteq Shops
  /\ \A s \in DOMAIN cards : cards[s].state \in AccessStates
  /\ pendingId \in Shops \cup {Nobody} /\ runningId \in Shops \cup {Nobody}
  /\ orders = [l \in Lines |-> orders[l]] /\ \A l \in Lines : IsOrder(orders[l])
  /\ told \in [Shops -> Nat] /\ newest \in 0 .. clock
  /\ trouble \subseteq {"overlap", "failed", "crossed", "missed", "error", "thrown"}
  /\ effort \in [presses : Nat, moves : Nat, cuts : Nat]

AtRest == \A l \in Lines : orders[l] = NoOrder

(* What a card offers its state allows, as far as the card is up to date: a   *)
(* refusal means that somebody else has moved the request.  Blocking under   *)
(* review is offered and always refused.                                    *)
OfferedIsLegal ==
  \A s \in DOMAIN cards :
    /\ \A a \in Offered(cards[s]) \ {"note"} :
         \/ Transition(cards[s].state, a) # {}
         \/ a = "BLOCK" /\ cards[s].state = "adoption_review"
    /\ CanAttach(cards[s]) => Transition(cards[s].state, "ATTACH_LOCATION") # {}

(* After a move or a conflict the card shows the request as the answer found  *)
(* it, or newer.                                                            *)
AnswersAreShown ==
  AtRest /\ trouble \cap {"failed", "crossed", "thrown"} = {} =>
    \A s \in Shops : told[s] > 0 => s \in DOMAIN cards /\ cards[s].at >= told[s]

(* No store falls between the two lists, although they are read one after     *)
(* the other and a request may be opened in between; but for the page's load. *)
NoStoreFallsBetween ==
  AtRest /\ trouble \subseteq {"overlap", "error"} => setups \cup DOMAIN cards = Shops

(* A card and a setup are locked no longer than a request of theirs runs.     *)
LocksAreReleased ==
  "thrown" \notin trouble =>
    /\ pendingId # Nobody => InFlight(pendingId, ByCard) # {}
    /\ runningId # Nobody => InFlight(runningId, Refetching) # {}

(* One move of a card at a time, unless another card took the lock.          *)
OneMovePerCard ==
  "overlap" \notin trouble =>
    \A s \in Shops : \A k, l \in InFlight(s, ByCard) : k = l

StoresAreSound ==
  /\ OfferedIsLegal /\ AnswersAreShown /\ NoStoreFallsBetween /\ LocksAreReleased
  /\ OneMovePerCard
===============================================================================
