--------------------------- MODULE GbpListingProofs ---------------------------
(***************************************************************************)
(* A store's Google listing, for every number of stores, listings and       *)
(* requests: moves are legal whoever races, what was confirmed is attached, *)
(* and setup makes and keeps one listing for a request.                     *)
(***************************************************************************)
EXTENDS GbpListing, TLAPS

(* The inductive invariant: the types, what every running request knows,    *)
(* what it found and may still rely on, and how the tables agree.            *)
(* EligibleHasTarget and VerdictIsAboutListing are not part of it; they      *)
(* follow from RowsJoin, and from MadeOnce and RowsAreOwn.                  *)
Knows(label, q) ==
  /\ MoveFits(label, q) /\ MoveKnows(label, q) /\ SetupKnows(label, q)
  /\ label = "post" => <<q.store, q.listing>> \in approved
Looked(label, q) == AttachLooked(label, q) /\ SetupLooked(label, q)
Known == \A r \in Requests : at[r] # "idle" => Knows(at[r], req[r])
AllLooked == \A r \in Requests : at[r] # "idle" => Looked(at[r], req[r])
Settled == RowsJoin /\ GrantIsAttached /\ RejectionIsTold
Own == MadeOnce /\ RowsAreOwn
Inv == TypeOK /\ Known /\ AllLooked /\ Settled /\ Own

(* What a step does to the requests: one of them gets a label and locals,   *)
(* the others stay where they are or are marked as overtaken.               *)
Mark(q) == [q EXCEPT !.overtaken = TRUE]
Stays(o) ==
  /\ at'[o] = at[o]
  /\ \/ req'[o] = req[o]
     \/ at[o] \in PastStore /\ req'[o] = Mark(req[o])
AreFunctions ==
  /\ at' = [o \in Requests |-> at'[o]]
  /\ req' = [o \in Requests |-> req'[o]]
MovesTo(r, label, q) ==
  /\ AreFunctions
  /\ at'[r] = label /\ req'[r] = q
  /\ \A o \in Requests \ {r} : Stays(o)

-----------------------------------------------------------------------------
(* Requests. *)

LEMMA Running ==
  ASSUME TypeOK, NEW r \in Requests, at[r] # "idle"
  PROVE  req[r] \in Locals
BY DEF TypeOK, RequestsOK

LEMMA LocalsFields ==
  ASSUME NEW q \in Locals
  PROVE  /\ q.kind \in AllKinds /\ q.store \in Stores
         /\ q.seen \in AccessStates \cup {None} /\ q.goal \in AccessStates \cup {None}
         /\ q.ref \in Listings \cup {None} /\ q.listing \in Listings \cup {None}
         /\ q.edit \in 0 .. MaxEdits /\ q.verdict \in Verdicts
         /\ q.overtaken \in BOOLEAN
BY DEF Locals

LEMMA MarkFields ==
  ASSUME NEW q \in Locals
  PROVE  /\ Mark(q) \in Locals
         /\ Mark(q).kind = q.kind /\ Mark(q).store = q.store
         /\ Mark(q).seen = q.seen /\ Mark(q).goal = q.goal
         /\ Mark(q).ref = q.ref /\ Mark(q).listing = q.listing
         /\ Mark(q).edit = q.edit /\ Mark(q).verdict = q.verdict
         /\ Mark(q).overtaken = TRUE
BY DEF Locals, Mark

(* A mark takes no knowledge away.                                          *)
LEMMA MarkKnows ==
  ASSUME NEW label, NEW q \in Locals, Knows(label, q)
  PROVE  Knows(label, Mark(q))
<1> DEFINE m == Mark(q)
<1>1. /\ m.kind = q.kind /\ m.store = q.store /\ m.seen = q.seen
      /\ m.goal = q.goal /\ m.ref = q.ref /\ m.listing = q.listing
      /\ m.edit = q.edit
  BY MarkFields
<1> HIDE DEF m
<1>2. MoveFits(label, m)
  BY <1>1 DEF Knows, MoveFits
<1>3. MoveKnows(label, m)
  BY <1>1 DEF Knows, MoveKnows
<1>4. SetupKnows(label, m)
  BY <1>1 DEF Knows, SetupKnows
<1>5. Knows(label, m)
  BY <1>1, <1>2, <1>3, <1>4 DEF Knows
<1> QED
  BY <1>5 DEF m

LEMMA KnowsNow ==
  ASSUME NEW r \in Requests, NEW CONSTANT label, NEW CONSTANT q,
         at'[r] = label, req'[r] = q, Knows(label, q)'
  PROVE  Knows(at[r], req[r])'
<1>1. MoveFits(at[r], req[r])'
  BY DEF Knows, MoveFits
<1>2. MoveKnows(at[r], req[r])'
  BY DEF Knows, MoveKnows
<1>3. SetupKnows(at[r], req[r])'
  BY DEF Knows, SetupKnows, MadeFor
<1> QED
  BY <1>1, <1>2, <1>3 DEF Knows

LEMMA LookedNow ==
  ASSUME NEW r \in Requests, NEW CONSTANT label, NEW CONSTANT q,
         at'[r] = label, req'[r] = q, Looked(label, q)'
  PROVE  Looked(at[r], req[r])'
BY DEF Looked, AttachLooked, SetupLooked, Attached, Holders

(* The types of the requests.                                               *)
LEMMA StaysTyped ==
  ASSUME TypeOK, NEW o \in Requests, Stays(o)
  PROVE  /\ at'[o] \in Labels /\ req'[o] \in Locals \cup {None}
         /\ req'[o] = None <=> at'[o] = "idle"
<1>1. CASE req'[o] = req[o]
  BY <1>1 DEF TypeOK, RequestsOK, Stays
<1>2. CASE at[o] \in PastStore /\ req'[o] = Mark(req[o])
  <2>1. at[o] # "idle" /\ at[o] \in Labels
    BY <1>2 DEF TypeOK, RequestsOK, PastStore, PastListing, PastReview
  <2>2. req[o] \in Locals
    BY <2>1, Running
  <2>3. req'[o] \in Locals
    BY <1>2, <2>2, MarkFields
  <2> QED
    BY <2>1, <2>3, NamesAssumption DEF Stays
<1> QED
  BY <1>1, <1>2 DEF Stays

LEMMA MovesTyped ==
  ASSUME TypeOK, NEW r \in Requests, NEW label \in Labels, NEW q \in Locals \cup {None},
         q = None <=> label = "idle", MovesTo(r, label, q)
  PROVE  RequestsOK'
<1>1. ASSUME NEW o \in Requests
      PROVE  /\ at'[o] \in Labels /\ req'[o] \in Locals \cup {None}
             /\ req'[o] = None <=> at'[o] = "idle"
  BY StaysTyped DEF MovesTo
<1> QED
  BY <1>1 DEF RequestsOK, MovesTo, AreFunctions

LEMMA AllStayTyped ==
  ASSUME TypeOK, AreFunctions, \A o \in Requests : Stays(o)
  PROVE  RequestsOK'
<1>1. ASSUME NEW o \in Requests
      PROVE  /\ at'[o] \in Labels /\ req'[o] \in Locals \cup {None}
             /\ req'[o] = None <=> at'[o] = "idle"
  BY StaysTyped
<1> QED
  BY <1>1 DEF RequestsOK, AreFunctions

(* A step that takes no knowledge away from anybody keeps all of it.        *)
KnowledgeKept ==
  \A label \in Labels, q \in Locals : Knows(label, q) => Knows(label, q)'

LEMMA StaysKnown ==
  ASSUME TypeOK, Known, KnowledgeKept, NEW o \in Requests, Stays(o), at'[o] # "idle"
  PROVE  Knows(at[o], req[o])'
<1>1. PICK label, q : label = at[o] /\ q = req[o]
  OBVIOUS
<1>2. label \in Labels /\ label # "idle" /\ q \in Locals /\ Knows(label, q)
  BY <1>1, Running DEF Stays, TypeOK, RequestsOK, Known
<1>3. Mark(q) \in Locals /\ Knows(label, Mark(q))
  BY <1>2, MarkFields, MarkKnows
<1>4. Knows(label, q)' /\ Knows(label, Mark(q))'
  BY <1>2, <1>3 DEF KnowledgeKept
<1>5. at'[o] = label /\ (req'[o] = q \/ req'[o] = Mark(q))
  BY <1>1 DEF Stays
<1>6. PICK m : m = Mark(q)
  OBVIOUS
<1>7. Knows(label, m)'
  BY <1>4, <1>6
<1> QED
  BY <1>4, <1>5, <1>6, <1>7, KnowsNow

LEMMA MovesKnown ==
  ASSUME TypeOK, Known, KnowledgeKept, NEW r \in Requests, NEW CONSTANT label,
         NEW CONSTANT q, MovesTo(r, label, q), label # "idle" => Knows(label, q)'
  PROVE  Known'
<1> SUFFICES ASSUME NEW o \in Requests, at'[o] # "idle" PROVE Knows(at[o], req[o])'
  BY DEF Known
<1>1. CASE o = r
  BY <1>1, KnowsNow DEF MovesTo
<1>2. CASE o # r
  BY <1>2, StaysKnown DEF MovesTo
<1> QED
  BY <1>1, <1>2

(* What the requests found.                                                 *)
LookKept(o) ==
  \A label \in Labels, q \in Locals :
    /\ at[o] = label /\ req'[o] = q /\ Knows(label, q) /\ Looked(label, q)
    => Looked(label, q)'

LEMMA AttachesAListing ==
  ASSUME TypeOK, NEW label \in PastListing, NEW q \in Locals,
         Knows(label, q), q.kind \in Adoptions
  PROVE  q.listing \in Listings
<1>1. CASE label = "update"
  BY <1>1 DEF Knows, MoveFits
<1>2. CASE label \in {"account", "location"}
  <2>1. <<q.store, q.listing>> \in approved
    BY <1>2 DEF Knows, MoveKnows
  <2> QED
    BY <2>1 DEF TypeOK, HistoryOK
<1> QED
  BY <1>1, <1>2 DEF PastListing

LEMMA StaysLooked ==
  ASSUME TypeOK, Known, AllLooked, NEW o \in Requests, Stays(o), LookKept(o), at'[o] # "idle"
  PROVE  Looked(at[o], req[o])'
<1>1. PICK label, q : label = at[o] /\ q = req'[o]
  OBVIOUS
<1>2. label \in Labels /\ label # "idle" /\ at'[o] = label /\ q \in Locals
  BY <1>1, StaysTyped, NamesAssumption DEF Stays, TypeOK, RequestsOK
<1>3. req[o] \in Locals /\ Looked(label, req[o]) /\ Knows(label, req[o])
  BY <1>1, <1>2, Running DEF AllLooked, Known, Stays
<1>4. Looked(label, q) /\ Knows(label, q)
  <2>1. CASE q = req[o]
    BY <1>3, <2>1
  <2>2. CASE q = Mark(req[o])
    <3>1. q.overtaken = TRUE
      BY <1>3, <2>2, MarkFields
    <3>2. Knows(label, q)
      BY <1>3, <2>2, MarkKnows
    <3> QED
      BY <3>1, <3>2 DEF Looked, AttachLooked, SetupLooked
  <2> QED
    BY <1>1, <2>1, <2>2 DEF Stays
<1>5. Looked(label, q)'
  BY <1>1, <1>2, <1>4 DEF LookKept
<1> QED
  BY <1>1, <1>2, <1>5, LookedNow

LEMMA MovesLooked ==
  ASSUME TypeOK, Known, AllLooked, NEW r \in Requests, NEW CONSTANT label,
         NEW CONSTANT q, MovesTo(r, label, q),
         \A o \in Requests \ {r} : LookKept(o),
         label # "idle" => Looked(label, q)'
  PROVE  AllLooked'
<1> SUFFICES ASSUME NEW o \in Requests, at'[o] # "idle" PROVE Looked(at[o], req[o])'
  BY DEF AllLooked
<1>1. CASE o = r
  BY <1>1, LookedNow DEF MovesTo
<1>2. CASE o # r
  BY <1>2, StaysLooked DEF MovesTo
<1> QED
  BY <1>1, <1>2

(* The rows a look is about only become fewer, and no store comes under     *)
(* review.                                                                  *)
LEMMA FewerRows ==
  ASSUME TypeOK,
         \A s \in Stores, k \in RowKinds : location'[s][k] \in {None, location[s][k]},
         \A s \in Stores : access'[s].state = "adoption_review" =>
                             access[s].state = "adoption_review"
  PROVE  \A o \in Requests : LookKept(o)
<1> SUFFICES ASSUME NEW label \in Labels, NEW q \in Locals,
                    Knows(label, q), Looked(label, q)
             PROVE  Looked(label, q)'
  BY DEF LookKept
<1>1. q.store \in Stores /\ q.listing \in Listings \cup {None}
  BY LocalsFields
<1>2. Attached(q.store) = {} => Attached(q.store)' = {}
  BY <1>1 DEF Attached
<1>3. q.listing # None /\ Holders(q.listing) = {} => Holders(q.listing)' = {}
  BY DEF Holders
<1>4. AttachLooked(label, q)'
  <2>1. label \in PastListing /\ q.kind \in Adoptions => q.listing # None
    BY AttachesAListing, NamesAssumption
  <2> QED
    BY <1>2, <1>3, <2>1 DEF Looked, AttachLooked
<1>5. SetupLooked(label, q)'
  BY <1>1, <1>2 DEF Looked, SetupLooked
<1> QED
  BY <1>4, <1>5 DEF Looked

-----------------------------------------------------------------------------
(* Steps that write no table. *)

LEMMA StaysFields ==
  ASSUME TypeOK, NEW o \in Requests, Stays(o), at[o] # "idle"
  PROVE  /\ at'[o] = at[o] /\ req'[o].store = req[o].store
         /\ req'[o].kind = req[o].kind /\ req'[o].listing = req[o].listing
<1>1. req[o] \in Locals
  BY Running
<1> QED
  BY <1>1, MarkFields DEF Stays

(* Who carries an approval out, or has a rejection to tell, still does.     *)
LEMMA CarryingKept ==
  ASSUME TypeOK, NEW r \in Requests, NEW CONSTANT label, NEW CONSTANT q,
         MovesTo(r, label, q),
         at[r] \in {"account", "location"} =>
           label \in {"account", "location"} /\ q.store = req[r].store,
         NEW s \in Stores, Carrying(s)
  PROVE  Carrying(s)'
<1>1. PICK o \in Requests : at[o] \in {"account", "location"} /\ req[o].store = s
  BY DEF Carrying
<1>2. at'[o] \in {"account", "location"} /\ req'[o].store = s
  <2>1. CASE o = r
    BY <1>1, <2>1 DEF MovesTo
  <2>2. CASE o # r
    BY <1>1, <2>2, StaysFields DEF MovesTo
  <2> QED
    BY <2>1, <2>2
<1> QED
  BY <1>2 DEF Carrying

Telling(s) ==
  \E r \in Requests :
    /\ at[r] = "notice" /\ req[r].store = s /\ req[r].kind = "REJECT_ADOPTION"
LEMMA TellingKept ==
  ASSUME TypeOK, NEW r \in Requests, NEW CONSTANT label, NEW CONSTANT q,
         MovesTo(r, label, q), at[r] # "notice", NEW s \in Stores, Telling(s)
  PROVE  Telling(s)'
<1>1. PICK o \in Requests : at[o] = "notice" /\ req[o].store = s
                            /\ req[o].kind = "REJECT_ADOPTION"
  BY DEF Telling
<1>2. o # r
  BY <1>1
<1>3. at'[o] = "notice" /\ req'[o].store = s /\ req'[o].kind = "REJECT_ADOPTION"
  BY <1>1, <1>2, StaysFields DEF MovesTo
<1> QED
  BY <1>3 DEF Telling

LEMMA QuietKnows ==
  ASSUME access' = access, account' = account, verified' = verified,
         made' = made, profile' = profile, approved' = approved, forced' = forced
  PROVE  KnowledgeKept
<1> SUFFICES ASSUME NEW label \in Labels, NEW q \in Locals, Knows(label, q)
             PROVE  Knows(label, q)'
  BY DEF KnowledgeKept
<1>1. MoveFits(label, q)'
  BY DEF Knows, MoveFits
<1>2. MoveKnows(label, q)'
  BY DEF Knows, MoveKnows
<1>3. SetupKnows(label, q)'
  BY DEF Knows, SetupKnows, MadeFor
<1> QED
  BY <1>1, <1>2, <1>3 DEF Knows

LEMMA QuietOwn ==
  ASSUME Own, location' = location, verified' = verified, made' = made,
         profile' = profile
  PROVE  Own'
BY DEF Own, MadeOnce, RowsAreOwn, MadeFor

LEMMA QuietRows ==
  ASSUME RowsJoin, location' = location, newest' = newest, account' = account,
         approved' = approved
  PROVE  RowsJoin'
BY DEF RowsJoin, Attached

LEMMA QuietGrants ==
  ASSUME GrantIsAttached, access' = access, location' = location,
         approved' = approved, forced' = forced, cut' = cut,
         \A s \in Stores : Carrying(s) => Carrying(s)'
  PROVE  GrantIsAttached'
BY DEF GrantIsAttached

LEMMA QuietTold ==
  ASSUME RejectionIsTold, rejected' = rejected, cut' = cut, told' = told,
         \A s \in Stores : Telling(s) => Telling(s)', TypeOK
  PROVE  RejectionIsTold'
BY DEF RejectionIsTold, Telling, TypeOK, HistoryOK

LEMMA QuietStep ==
  ASSUME Inv, NEW r \in Requests, NEW CONSTANT label \in Labels,
         NEW CONSTANT q \in Locals \cup {None}, q = None <=> label = "idle",
         MovesTo(r, label, q), UNCHANGED <<tables, outside, history>>,
         at[r] \notin {"account", "location", "notice"},
         label # "idle" => Knows(label, q) /\ Looked(label, q)
  PROVE  Inv'
<1> USE DEF Inv, tables, outside, history
<1>1. TypeOK'
  <2>1. RequestsOK'
    BY MovesTyped
  <2>2. TablesOK' /\ HistoryOK'
    BY DEF TypeOK, TablesOK, HistoryOK
  <2> QED
    BY <2>1, <2>2 DEF TypeOK
<1>2. KnowledgeKept
  BY QuietKnows
<1>3. Known'
  <2>1. label # "idle" => Knows(label, q)'
    BY <1>2 DEF KnowledgeKept
  <2> QED
    BY <1>2, <2>1, MovesKnown
<1>4. AllLooked'
  <2>1. label # "idle" => Looked(label, q)'
    BY DEF Looked, AttachLooked, SetupLooked, Attached, Holders
  <2>2. \A o \in Requests : LookKept(o)
    BY FewerRows
  <2> QED
    BY <2>1, <2>2, MovesLooked
<1>5. Settled'
  <2>1. \A s \in Stores : (Carrying(s) => Carrying(s)') /\ (Telling(s) => Telling(s)')
    BY CarryingKept, TellingKept
  <2> QED
    BY <2>1, QuietRows, QuietGrants, QuietTold DEF Settled
<1>6. Own'
  BY QuietOwn
<1> QED
  BY <1>1, <1>3, <1>4, <1>5, <1>6

(* How a step moves one request.                                            *)
LEMMA ExceptMoves ==
  ASSUME TypeOK, NEW r \in Requests, NEW label, NEW q,
         at' = [at EXCEPT ![r] = label], req' = [req EXCEPT ![r] = q]
  PROVE  MovesTo(r, label, q)
<1>1. DOMAIN at = Requests /\ DOMAIN req = Requests
  BY DEF TypeOK, RequestsOK
<1>2. AreFunctions
  <2>1. at' = [o \in Requests |-> IF o = r THEN label ELSE at[o]]
    BY <1>1
  <2>2. req' = [o \in Requests |-> IF o = r THEN q ELSE req[o]]
    BY <1>1
  <2> QED
    BY <2>1, <2>2, Zenon DEF AreFunctions
<1>3. at'[r] = label /\ req'[r] = q
  BY <1>1
<1>4. ASSUME NEW o \in Requests \ {r} PROVE Stays(o)
  <2>1. at'[o] = at[o]
    BY <1>1
  <2>2. req'[o] = req[o]
    BY <1>1
  <2> QED
    BY <2>1, <2>2 DEF Stays
<1> QED
  BY <1>2, <1>3, <1>4 DEF MovesTo
LEMMA GoMoves ==
  ASSUME TypeOK, NEW r \in Requests, NEW label, Go(r, label), req' = req
  PROVE  MovesTo(r, label, req[r])
<1>1. req' = [req EXCEPT ![r] = req[r]]
  BY DEF TypeOK, RequestsOK
<1> QED
  BY <1>1, ExceptMoves DEF Go
LEMMA EndMoves ==
  ASSUME TypeOK, NEW r \in Requests, End(r)
  PROVE  MovesTo(r, "idle", None)
BY ExceptMoves DEF End
LEMMA PutMoves ==
  ASSUME TypeOK, NEW r \in Requests, NEW label, NEW q,
         Go(r, label), req' = [req EXCEPT ![r] = q]
  PROVE  MovesTo(r, label, q)
BY ExceptMoves DEF Go
LEMMA StartMoves ==
  ASSUME TypeOK, NEW r \in Requests, NEW label, NEW q, Start(r, label, q)
  PROVE  MovesTo(r, label, q) /\ at[r] = "idle"
BY ExceptMoves DEF Start

LEMMA BlankFields ==
  ASSUME NEW kind \in AllKinds, NEW s \in Stores
  PROVE  Blank(kind, s) \in Locals
<1>1. 0 \in 0 .. MaxEdits
  BY BoundsAssumption
<1>2. Unknown \in Verdicts
  BY NamesAssumption
<1> QED
  BY <1>1, <1>2 DEF Blank, Locals

(* A request that begins, and reads only.                                   *)
LEMMA StartMoveKeeps ==
  ASSUME Inv, NEW r \in Requests, NEW s \in Stores, NEW action \in Moves,
         NEW pick \in Hand \cup {None}, StartMove(r, s, action, pick)
  PROVE  Inv'
<1> DEFINE ref == IF pick # None THEN pick ELSE access[s].ref
           confirm == action = "CONFIRM_ADOPTION"
           label == IF confirm THEN "vacant" ELSE "update"
<1>1. TypeOK
  BY DEF Inv
<1>2. PICK next \in Transition(access[s].state, action) :
        Start(r, label, [Blank(action, s) EXCEPT
                 !.seen = access[s].state, !.goal = next, !.ref = pick,
                 !.listing = IF confirm THEN ref ELSE None])
  BY DEF StartMove
<1>3. PICK l, q : /\ l = label
                  /\ q = [Blank(action, s) EXCEPT
                            !.seen = access[s].state, !.goal = next, !.ref = pick,
                            !.listing = IF confirm THEN ref ELSE None]
  OBVIOUS
<1>4. /\ Tracked(s) /\ (pick # None => confirm) /\ (confirm => ref # None)
      /\ UNCHANGED <<tables, outside, history>>
  BY DEF StartMove
<1>5. access[s] \in Rows /\ access[s].state \in AccessStates
      /\ access[s].ref \in Listings \cup {None}
  BY <1>1, <1>4 DEF TypeOK, TablesOK, Tracked, Rows
<1>6. action \in AllKinds /\ action \in AccessActions /\ action # "ATTACH_LOCATION"
  BY DEF Moves, AllKinds
<1>7. next \in AccessStates
  BY <1>5, <1>6 DEF Transition, NaturalMoves, AccessStates, AccessActions
<1>8. ref \in Listings \cup {None} /\ pick \in Listings \cup {None}
  BY <1>5 DEF Listings
<1>9. /\ q.kind = action /\ q.store = s /\ q.seen = access[s].state
      /\ q.goal = next /\ q.ref = pick /\ q.overtaken = FALSE
      /\ q.listing = IF confirm THEN ref ELSE None
  BY <1>3 DEF Blank
<1>10. q \in Locals
  <2>1. Blank(action, s) \in Locals
    BY <1>6, BlankFields
  <2>2. (IF confirm THEN ref ELSE None) \in Listings \cup {None}
    BY <1>8
  <2> HIDE DEF confirm, ref
  <2> QED
    BY <1>3, <1>5, <1>7, <1>8, <2>1, <2>2 DEF Locals
<1>11. l \in Labels /\ l # "idle" /\ (l = "vacant" \/ l = "update")
       /\ (l = "vacant" <=> confirm)
  BY <1>3 DEF Labels
<1> HIDE DEF label, ref
<1>12. MoveFits(l, q)
  <2>1. ref \in Listings \/ ~confirm
    BY <1>4, <1>8
  <2>2. confirm => pick \in {None, ref}
    BY DEF ref
  <2>3. q.goal \in Transition(q.seen, q.kind)
    BY <1>9
  <2>4. l = "update" => q.kind \notin Adoptions
    BY <1>6, <1>9, <1>11 DEF Adoptions
  <2>5. l = "vacant" => q.kind \in Adoptions /\ q.listing \in Listings
                        /\ q.ref \in {None, q.listing}
    BY <1>9, <1>11, <2>1, <2>2 DEF Adoptions
  <2>6. l = "update" => q.ref = None
    BY <1>4, <1>9, <1>11
  <2> QED
    BY <1>5, <1>6, <1>9, <1>11, <2>3, <2>4, <2>5, <2>6 DEF MoveFits
<1>13. MoveKnows(l, q)
  <2>1. confirm /\ pick = None => access[s].ref = ref
    BY DEF ref
  <2> QED
    BY <1>9, <1>11, <2>1 DEF MoveKnows
<1>14. SetupKnows(l, q)
  BY <1>11 DEF SetupKnows
<1>15. Knows(l, q)
  BY <1>11, <1>12, <1>13, <1>14 DEF Knows
<1>16. Looked(l, q)
  <2>1. l = "update" => q.kind \notin Adoptions
    BY <1>6, <1>9, <1>11 DEF Adoptions
  <2> QED
    BY <1>11, <2>1 DEF Looked, AttachLooked, SetupLooked, PastListing, PastReview
<1>17. MovesTo(r, l, q) /\ at[r] = "idle"
  BY <1>1, <1>2, <1>3, StartMoves DEF label
<1> QED
  BY <1>4, <1>10, <1>11, <1>15, <1>16, <1>17, NamesAssumption, QuietStep

LEMMA StartSetupKeeps ==
  ASSUME Inv, NEW r \in Requests, NEW s \in Stores, StartSetup(r, s)
  PROVE  Inv'
<1>1. TypeOK /\ UNCHANGED <<tables, outside, history>>
  BY DEF Inv, StartSetup
<1>2. Blank("RUN_SETUP", s) \in Locals
  BY BlankFields DEF AllKinds
<1>3. CASE Attached(s) = {}
  <2>1. PICK q : q = Blank("RUN_SETUP", s)
    OBVIOUS
  <2>2. MovesTo(r, "review", q) /\ at[r] = "idle"
    BY <1>1, <1>3, <2>1, StartMoves DEF StartSetup
  <2>3. q \in Locals /\ q.store = s /\ q.kind = "RUN_SETUP"
    BY <1>2, <2>1 DEF Blank
  <2>4. Knows("review", q) /\ Looked("review", q)
    BY <1>3, <2>3 DEF Knows, MoveFits, MoveKnows, SetupKnows, Looked, AttachLooked,
                      SetupLooked, PastListing, PastReview, Adoptions
  <2> QED
    BY <1>1, <2>2, <2>3, <2>4, NamesAssumption, QuietStep DEF Labels
<1>4. CASE Attached(s) # {}
  <2>1. PICK k \in Attached(s) :
          Start(r, "track", [Blank("RUN_SETUP", s) EXCEPT !.listing = location[s][k]])
    BY <1>4 DEF StartSetup
  <2>2. PICK q : q = [Blank("RUN_SETUP", s) EXCEPT !.listing = location[s][k]]
    OBVIOUS
  <2>3. MovesTo(r, "track", q) /\ at[r] = "idle"
    BY <1>1, <2>1, <2>2, StartMoves
  <2>4. location[s][k] \in Listings \cup {None}
    BY <1>1 DEF TypeOK, TablesOK, Attached
  <2>5. q \in Locals
    BY <1>2, <2>2, <2>4 DEF Locals
  <2>6. Knows("track", q) /\ Looked("track", q)
    BY DEF Knows, MoveFits, MoveKnows, SetupKnows, Looked, AttachLooked,
           SetupLooked, PastListing, PastReview
  <2> QED
    BY <1>1, <2>3, <2>5, <2>6, NamesAssumption, QuietStep DEF Labels
<1> QED
  BY <1>3, <1>4

LEMMA StartRefreshKeeps ==
  ASSUME Inv, NEW r \in Requests, NEW s \in Stores, StartRefresh(r, s)
  PROVE  Inv'
<1>1. TypeOK /\ UNCHANGED <<tables, outside, history>> /\ verified[s] # None
  BY DEF Inv, StartRefresh
<1>2. Blank("REFRESH", s) \in Locals
  BY BlankFields DEF AllKinds
<1>3. PICK q : q = [Blank("REFRESH", s) EXCEPT !.listing = verified[s].listing]
  OBVIOUS
<1>4. MovesTo(r, "look", q) /\ at[r] = "idle"
  BY <1>1, <1>3, StartMoves DEF StartRefresh
<1>5. verified[s].listing \in New
  BY <1>1 DEF TypeOK, TablesOK, Verifications
<1>6. q \in Locals /\ q.store = s /\ q.listing = verified[s].listing
  BY <1>2, <1>3, <1>5 DEF Locals, Listings, Blank
<1>7. MadeFor(s, verified[s].listing)
  BY <1>1 DEF Inv, Own, RowsAreOwn
<1>8. SetupKnows("look", q)
  BY <1>1, <1>5, <1>6, <1>7 DEF SetupKnows
<1>9. Knows("look", q) /\ Looked("look", q)
  BY <1>8 DEF Knows, MoveFits, MoveKnows, Looked, AttachLooked,
              SetupLooked, PastListing, PastReview
<1> QED
  BY <1>1, <1>4, <1>6, <1>9, NamesAssumption, QuietStep DEF Labels

LEMMA StartPublishKeeps ==
  ASSUME Inv, NEW r \in Requests, NEW s \in Stores, StartPublish(r, s)
  PROVE  Inv'
<1>1. TypeOK /\ UNCHANGED <<tables, outside, history>>
  BY DEF Inv, StartPublish
<1>2. PICK q : q = Blank("PUBLISH", s)
  OBVIOUS
<1>3. q \in Locals
  BY <1>2, BlankFields DEF AllKinds
<1>4. MovesTo(r, "parent", q) /\ at[r] = "idle"
  BY <1>1, <1>2, StartMoves DEF StartPublish
<1>5. Knows("parent", q) /\ Looked("parent", q)
  BY DEF Knows, MoveFits, MoveKnows, SetupKnows, Looked, AttachLooked,
         SetupLooked, PastListing, PastReview
<1> QED
  BY <1>1, <1>3, <1>4, <1>5, NamesAssumption, QuietStep DEF Labels

(* A running request that reads.                                            *)
Reads(r) ==
  /\ UNCHANGED <<tables, outside, history>>
  /\ at[r] \notin {"idle", "account", "location", "notice"}

LEMMA QuietEnd ==
  ASSUME Inv, NEW r \in Requests, Reads(r), End(r)
  PROVE  Inv'
<1>1. TypeOK /\ UNCHANGED <<tables, outside, history>>
      /\ at[r] \notin {"account", "location", "notice"}
  BY DEF Inv, Reads
<1>2. MovesTo(r, "idle", None)
  BY <1>1, EndMoves
<1> QED
  BY <1>1, <1>2, QuietStep DEF Labels

LEMMA QuietPut ==
  ASSUME Inv, NEW r \in Requests, NEW label \in Labels \ {"idle"}, NEW q \in Locals,
         Reads(r), Go(r, label), req' = [req EXCEPT ![r] = q],
         Knows(label, q), Looked(label, q)
  PROVE  Inv'
<1>1. TypeOK /\ UNCHANGED <<tables, outside, history>>
      /\ at[r] \notin {"account", "location", "notice"}
  BY DEF Inv, Reads
<1>2. PICK l, p : l = label /\ p = q
  OBVIOUS
<1>3. MovesTo(r, l, p)
  BY <1>1, <1>2, PutMoves
<1>4. l \in Labels /\ l # "idle" /\ p \in Locals /\ Knows(l, p) /\ Looked(l, p)
  BY <1>2
<1> QED
  BY <1>1, <1>3, <1>4, NamesAssumption, QuietStep

LEMMA QuietGo ==
  ASSUME Inv, NEW r \in Requests, NEW label \in Labels \ {"idle"}, Reads(r),
         Go(r, label), req' = req, Knows(label, req[r]), Looked(label, req[r])
  PROVE  Inv'
<1>1. req[r] \in Locals
  BY Running DEF Inv, Reads
<1>2. req' = [req EXCEPT ![r] = req[r]]
  BY DEF Inv, TypeOK, RequestsOK
<1> QED
  BY <1>1, <1>2, QuietPut

(* What the running request knows.                                          *)
LEMMA KnowsOwn ==
  ASSUME Inv, NEW r \in Requests, at[r] # "idle"
  PROVE  /\ TypeOK /\ req[r] \in Locals
         /\ MoveFits(at[r], req[r]) /\ MoveKnows(at[r], req[r])
         /\ SetupKnows(at[r], req[r])
         /\ AttachLooked(at[r], req[r]) /\ SetupLooked(at[r], req[r])
         /\ at[r] = "post" => <<req[r].store, req[r].listing>> \in approved
BY Running DEF Inv, Known, AllLooked, Knows, Looked

LEMMA ReadEnsuredKeeps ==
  ASSUME Inv, NEW r \in Requests, ReadEnsured(r)
  PROVE  Inv'
<1>1. at[r] = "ensured" /\ Reads(r) /\ Go(r, "vacant")
      /\ req' = [req EXCEPT ![r].seen = access[req[r].store].state]
  BY DEF ReadEnsured, Reads
<1> DEFINE p == req[r]
           q == [p EXCEPT !.seen = access[p.store].state]
<1>2. TypeOK /\ p \in Locals /\ MoveFits("ensured", p)
  BY <1>1, KnowsOwn
<1>3. access[p.store].state \in AccessStates \cup {None}
  BY <1>2, LocalsFields DEF TypeOK, TablesOK, Rows, NoRow
<1>4. q \in Locals
  BY <1>2, <1>3 DEF Locals
<1>5. /\ q.kind = p.kind /\ q.store = p.store /\ q.ref = p.ref
      /\ q.listing = p.listing
  BY <1>2 DEF Locals
<1>6. p.kind = "ATTACH_LOCATION" /\ p.listing \in Listings /\ p.ref = p.listing
  BY <1>2 DEF MoveFits, Adoptions
<1>7. req' = [req EXCEPT ![r] = q]
  BY <1>1
<1> HIDE DEF p, q
<1>8. MoveFits("vacant", q)
  BY <1>5, <1>6 DEF MoveFits, Adoptions
<1>9. Knows("vacant", q) /\ Looked("vacant", q)
  BY <1>5, <1>6, <1>8 DEF Knows, MoveKnows, SetupKnows, Looked, AttachLooked,
                          SetupLooked, PastListing, PastReview
<1> QED
  BY <1>1, <1>4, <1>7, <1>9, QuietPut DEF Labels

LEMMA CheckVacantKeeps ==
  ASSUME Inv, NEW r \in Requests, CheckVacant(r)
  PROVE  Inv'
<1>1. at[r] = "vacant" /\ Reads(r)
  BY DEF CheckVacant, Reads
<1>2. CASE Attached(req[r].store) = {}
  <2>1. MoveFits("vacant", req[r]) /\ MoveKnows("vacant", req[r])
    BY <1>1, KnowsOwn
  <2>2. MoveFits("unshared", req[r])
    BY <2>1 DEF MoveFits
  <2>3. MoveKnows("unshared", req[r])
    BY <2>1 DEF MoveKnows
  <2>4. Knows("unshared", req[r])
    BY <2>2, <2>3 DEF Knows, SetupKnows
  <2>5. Looked("unshared", req[r])
    BY <1>2 DEF Looked, AttachLooked, SetupLooked, PastListing, PastReview
  <2>6. Go(r, "unshared") /\ req' = req
    BY <1>2 DEF CheckVacant
  <2> QED
    BY <1>1, <2>4, <2>5, <2>6, QuietGo DEF Labels
<1>3. CASE Attached(req[r].store) # {}
  BY <1>1, <1>3, QuietEnd DEF CheckVacant
<1> QED
  BY <1>2, <1>3

LEMMA TransitionFrom ==
  ASSUME NEW a \in AccessActions \ {"OVERRIDE"}, NEW current,
         NEW goal \in Transition(current, a)
  PROVE  /\ current \in NaturalMoves[a].from /\ goal = NaturalMoves[a].to
         /\ current \in AccessStates /\ goal \in AccessStates
         /\ goal # "adoption_review"
<1>1. current \in NaturalMoves[a].from /\ goal = NaturalMoves[a].to
  BY DEF Transition
<1> QED
  BY <1>1 DEF NaturalMoves, AccessActions, AccessStates, ConfirmFrom, AttachFrom

LEMMA CheckUnsharedKeeps ==
  ASSUME Inv, NEW r \in Requests, CheckUnshared(r)
  PROVE  Inv'
<1> DEFINE q == req[r]
           s == q.store
           conflicts == q.goal \notin Transition(q.seen, q.kind)
<1>1. at[r] = "unshared" /\ Reads(r)
  BY DEF CheckUnshared, Reads
<1>2. CASE End(r)
  BY <1>1, <1>2, QuietEnd
<1>3. CASE /\ Holders(q.listing) = {} \/ s \in Holders(q.listing)
           /\ ~conflicts
           /\ Go(r, "update") /\ req' = req
  <2>1. /\ MoveFits("unshared", q) /\ MoveKnows("unshared", q)
        /\ AttachLooked("unshared", q) /\ q \in Locals
    BY <1>1, KnowsOwn
  <2>2. q.kind \in Adoptions
    BY <2>1 DEF MoveFits
  <2>3. q.seen \in AccessStates
    BY <1>3, <2>2, TransitionFrom DEF Adoptions, AccessActions, NaturalMoves
  <2>4. MoveFits("update", q)
    BY <1>3, <2>1, <2>2, <2>3 DEF MoveFits, Adoptions, AccessActions, NaturalMoves
  <2>5. MoveKnows("update", q)
    BY <2>1 DEF MoveKnows
  <2>6. Knows("update", q)
    BY <2>4, <2>5 DEF Knows, SetupKnows
  <2>7. q.listing \in Listings
    BY <2>1, <2>2 DEF MoveFits
  <2>8. ~q.overtaken => Attached(s) = {} /\ Holders(q.listing) = {}
    <3>1. ~q.overtaken => Attached(s) = {}
      BY <2>1, <2>2 DEF AttachLooked
    <3>2. s \in Holders(q.listing) => Attached(s) # {}
      BY <2>7, NamesAssumption DEF Holders, Attached
    <3> QED
      BY <1>3, <3>1, <3>2
  <2>9. Looked("update", q)
    BY <2>8 DEF Looked, AttachLooked, SetupLooked, PastReview
  <2> QED
    BY <1>1, <1>3, <2>6, <2>9, QuietGo DEF Labels
<1> QED
  BY <1>2, <1>3 DEF CheckUnshared

LEMMA CheckReviewKeeps ==
  ASSUME Inv, NEW r \in Requests, CheckReview(r)
  PROVE  Inv'
<1>1. at[r] = "review" /\ Reads(r)
  BY DEF CheckReview, Reads
<1>2. CASE access[req[r].store].state = "adoption_review"
  BY <1>1, <1>2, QuietEnd DEF CheckReview
<1>3. CASE access[req[r].store].state # "adoption_review"
  <2>1. SetupLooked("review", req[r])
    BY <1>1, KnowsOwn
  <2>2. Looked("search", req[r])
    BY <1>3, <2>1 DEF Looked, AttachLooked, SetupLooked, PastListing, PastReview
  <2>3. Knows("search", req[r])
    BY DEF Knows, MoveFits, MoveKnows, SetupKnows
  <2>4. Go(r, "search") /\ req' = req
    BY <1>3 DEF CheckReview
  <2> QED
    BY <1>1, <2>2, <2>3, <2>4, QuietGo DEF Labels
<1> QED
  BY <1>2, <1>3

LEMMA SearchKeeps ==
  ASSUME Inv, NEW r \in Requests, Search(r)
  PROVE  Inv'
<1> DEFINE p == req[r]
<1>1. at[r] = "search" /\ Reads(r)
  BY DEF Search, Reads
<1>2. /\ TypeOK /\ p \in Locals /\ SetupLooked("search", p)
  BY <1>1, KnowsOwn
<1>3. profile[p.store] \in 0 .. MaxEdits /\ profile[p.store] <= profile[p.store]
  BY <1>2, LocalsFields, BoundsAssumption DEF TypeOK, TablesOK
<1>4. ASSUME NEW label \in {"rights", "create"}, NEW q \in Locals,
             q.store = p.store, q.overtaken = p.overtaken,
             q.edit = profile[p.store],
             label = "rights" => q.listing \in Foreign
      PROVE  Knows(label, q) /\ Looked(label, q)
  <2>1. SetupKnows(label, q)
    BY <1>3, <1>4 DEF SetupKnows
  <2>2. SetupLooked(label, q)
    BY <1>2, <1>4 DEF SetupLooked, PastReview
  <2>3. MoveFits(label, q) /\ MoveKnows(label, q) /\ AttachLooked(label, q)
    BY DEF MoveFits, MoveKnows, AttachLooked, PastListing
  <2> QED
    BY <2>1, <2>2, <2>3 DEF Knows, Looked
<1>5. ASSUME NEW l \in Foreign,
             req' = [req EXCEPT ![r].listing = l, ![r].edit = profile[req[r].store]],
             Go(r, "rights")
      PROVE  Inv'
  <2> DEFINE q == [p EXCEPT !.listing = l, !.edit = profile[p.store]]
  <2>1. q \in Locals
    BY <1>2, <1>3 DEF Locals, Listings
  <2>2. q.store = p.store /\ q.overtaken = p.overtaken
        /\ q.edit = profile[p.store] /\ q.listing = l
    BY <1>2 DEF Locals
  <2>3. req' = [req EXCEPT ![r] = q]
    BY <1>2, <1>5 DEF TypeOK, RequestsOK
  <2> HIDE DEF p, q
  <2>4. Knows("rights", q) /\ Looked("rights", q)
    BY <1>4, <2>1, <2>2
  <2> QED
    BY <1>1, <1>5, <2>1, <2>3, <2>4, QuietPut DEF Labels
<1>6. ASSUME req' = [req EXCEPT ![r].edit = profile[req[r].store]], Go(r, "create")
      PROVE  Inv'
  <2> DEFINE q == [p EXCEPT !.edit = profile[p.store]]
  <2>1. q \in Locals
    BY <1>2, <1>3 DEF Locals
  <2>2. q.store = p.store /\ q.overtaken = p.overtaken /\ q.edit = profile[p.store]
    BY <1>2 DEF Locals
  <2>3. req' = [req EXCEPT ![r] = q]
    BY <1>6
  <2> HIDE DEF p, q
  <2>4. Knows("create", q) /\ Looked("create", q)
    BY <1>4, <2>1, <2>2
  <2> QED
    BY <1>1, <1>6, <2>1, <2>3, <2>4, QuietPut DEF Labels
<1> QED
  BY <1>5, <1>6 DEF Search

LEMMA EditIsPast ==
  ASSUME TypeOK, NEW q \in Locals, q.edit <= profile[q.store]
  PROVE  q.edit \in 0 .. profile[q.store]
BY LocalsFields, BoundsAssumption DEF TypeOK, TablesOK

LEMMA RequestRightsKeeps ==
  ASSUME Inv, NEW r \in Requests, RequestRights(r)
  PROVE  Inv'
<1>1. at[r] = "rights" /\ Reads(r) /\ Go(r, "setupAccount") /\ req' = req
  BY DEF RequestRights, Reads
<1>2. SetupKnows("rights", req[r]) /\ SetupLooked("rights", req[r])
  BY <1>1, KnowsOwn
<1>3. req[r].listing \in Foreign /\ req[r].listing \notin New
  BY <1>2, NamesAssumption DEF SetupKnows
<1>4. Knows("setupAccount", req[r])
  BY <1>3 DEF Knows, MoveFits, MoveKnows, SetupKnows
<1>5. Looked("setupAccount", req[r])
  BY <1>2 DEF Looked, AttachLooked, SetupLooked, PastListing, PastReview
<1> QED
  BY <1>1, <1>4, <1>5, QuietGo DEF Labels

(* The labels after setup has written its rows, and of a refresh, stand on  *)
(* nothing that could have changed.                                         *)
LEMMA LooksNoMore ==
  ASSUME NEW q, NEW label \in {"followUp", "verify", "record", "track", "look",
                               "refresh", "parent", "post", "notice", "detach",
                               "disown", "ensured", "vacant"}
  PROVE  Looked(label, q)
BY DEF Looked, AttachLooked, SetupLooked, PastListing, PastReview

LEMMA VerifyKeeps ==
  ASSUME Inv, NEW r \in Requests, Verify(r)
  PROVE  Inv'
<1> DEFINE p == req[r]
<1>1. at[r] = "verify" /\ Reads(r)
  BY DEF Verify, Reads
<1>2. p \in Locals /\ SetupKnows("verify", p) /\ TypeOK
  BY <1>1, KnowsOwn
<1>3. ASSUME NEW v \in Verdicts, req' = [req EXCEPT ![r].verdict = v], Go(r, "record")
      PROVE  Inv'
  <2> DEFINE q == [p EXCEPT !.verdict = v]
  <2>1. q \in Locals /\ q.store = p.store /\ q.listing = p.listing
    BY <1>2 DEF Locals
  <2>2. req' = [req EXCEPT ![r] = q]
    BY <1>3
  <2> HIDE DEF q
  <2>3. SetupKnows("record", q)
    BY <1>2, <2>1 DEF SetupKnows
  <2>4. Knows("record", q) /\ Looked("record", q)
    BY <2>3, LooksNoMore DEF Knows, MoveFits, MoveKnows
  <2> QED
    BY <1>1, <1>3, <2>1, <2>2, <2>4, QuietPut DEF Labels
<1>4. ASSUME Go(r, "track"), req' = req
      PROVE  Inv'
  <2>1. Knows("track", p) /\ Looked("track", p)
    BY LooksNoMore DEF Knows, MoveFits, MoveKnows, SetupKnows
  <2> QED
    BY <1>1, <1>4, <2>1, QuietGo DEF Labels
<1> QED
  BY <1>3, <1>4 DEF Verify

LEMMA LookKeeps ==
  ASSUME Inv, NEW r \in Requests, Look(r)
  PROVE  Inv'
<1> DEFINE p == req[r]
<1>1. at[r] = "look" /\ Reads(r)
  BY DEF Look, Reads
<1>2. p \in Locals /\ SetupKnows("look", p) /\ TypeOK
  BY <1>1, KnowsOwn
<1>3. ASSUME NEW v \in Verdicts, req' = [req EXCEPT ![r].verdict = v], Go(r, "refresh")
      PROVE  Inv'
  <2> DEFINE q == [p EXCEPT !.verdict = v]
  <2>1. q \in Locals /\ q.store = p.store /\ q.listing = p.listing
    BY <1>2 DEF Locals
  <2>2. req' = [req EXCEPT ![r] = q]
    BY <1>3
  <2> HIDE DEF q
  <2>3. SetupKnows("refresh", q)
    BY <1>2, <2>1 DEF SetupKnows
  <2>4. Knows("refresh", q) /\ Looked("refresh", q)
    BY <2>3, LooksNoMore DEF Knows, MoveFits, MoveKnows
  <2> QED
    BY <1>1, <1>3, <2>1, <2>2, <2>4, QuietPut DEF Labels
<1> QED
  BY <1>1, <1>3, QuietEnd DEF Look

(* Only an adopted row is VERIFIED.                                         *)
LEMMA VerifiedIsAdopted ==
  ASSUME NEW s, NEW k \in RowKinds, Status(s, k) = "VERIFIED"
  PROVE  k = "adopted"
BY DEF Status, RowKinds

LEMMA ReadParentKeeps ==
  ASSUME Inv, NEW r \in Requests, ReadParent(r)
  PROVE  Inv'
<1> DEFINE p == req[r]
<1>1. at[r] = "parent" /\ Reads(r)
  BY DEF ReadParent, Reads
<1>2. p \in Locals /\ TypeOK
  BY <1>1, KnowsOwn
<1>3. CASE Parents(p.store) = {}
  BY <1>1, <1>3, QuietEnd DEF ReadParent
<1>4. ASSUME NEW l \in Parents(p.store), req' = [req EXCEPT ![r].listing = l],
             Go(r, "post")
      PROVE  Inv'
  <2> DEFINE q == [p EXCEPT !.listing = l]
  <2>1. PICK k \in Attached(p.store) :
          Status(p.store, k) = "VERIFIED" /\ l = location[p.store][k]
    BY <1>4 DEF Parents
  <2>2. k = "adopted" /\ l = location[p.store]["adopted"] /\ l # None
    BY <2>1, VerifiedIsAdopted DEF Attached
  <2>3. <<p.store, l>> \in approved
    BY <1>2, <2>2, LocalsFields DEF Inv, Settled, RowsJoin
  <2>4. l \in Listings
    BY <1>2, <2>3 DEF TypeOK, HistoryOK
  <2>5. q \in Locals /\ q.store = p.store /\ q.listing = l
    BY <1>2, <2>4 DEF Locals
  <2>6. req' = [req EXCEPT ![r] = q]
    BY <1>4
  <2> HIDE DEF p, q
  <2>7. Knows("post", q) /\ Looked("post", q)
    BY <2>3, <2>5, LooksNoMore DEF Knows, MoveFits, MoveKnows, SetupKnows
  <2> QED
    BY <1>1, <1>4, <2>5, <2>6, <2>7, QuietPut DEF Labels
<1> QED
  BY <1>3, <1>4 DEF ReadParent

LEMMA CreateLocalPostKeeps ==
  ASSUME Inv, NEW r \in Requests, CreateLocalPost(r)
  PROVE  Inv'
<1>1. at[r] = "post" /\ Reads(r) /\ End(r)
  BY DEF CreateLocalPost, Reads
<1> QED
  BY <1>1, QuietEnd

-----------------------------------------------------------------------------
(* Steps that write. *)

(* What the requests know outlives every write: a ref is replaced only by   *)
(* an approval or an override, approvals stay, what Google made was made,   *)
(* and a set-up account is not deleted.                                     *)
OnlyGrows ==
  /\ \A s \in Stores : \/ access'[s].ref = access[s].ref \/ access[s].ref = None
                       \/ s \in forced' \/ \E l \in Listings : <<s, l>> \in approved'
  /\ approved \subseteq approved' /\ forced \subseteq forced'
  /\ \A s \in Stores, l \in New : MadeFor(s, l) => MadeFor(s, l)'
  /\ \A s \in Stores : /\ profile[s] <= profile'[s]
                       /\ verified[s] # None => verified'[s] # None
                       /\ "setup" \in account[s] => "setup" \in account'[s]

LEMMA GrowingKeepsKnowledge ==
  ASSUME TypeOK, TablesOK', OnlyGrows
  PROVE  KnowledgeKept
<1> SUFFICES ASSUME NEW label \in Labels, NEW q \in Locals, Knows(label, q)
             PROVE  Knows(label, q)'
  BY DEF KnowledgeKept
<1> USE DEF OnlyGrows
<1>1. q.store \in Stores /\ q.listing \in Listings \cup {None}
  BY LocalsFields
<1>2. MoveFits(label, q)'
  BY DEF Knows, MoveFits
<1>3. MoveKnows(label, q)'
  <2>1. ASSUME label \in {"vacant", "unshared", "update"}, q.kind = "CONFIRM_ADOPTION",
               q.ref = None, q.store \notin forced'
        PROVE  \/ access'[q.store].ref = q.listing
               \/ \E l \in Listings : <<q.store, l>> \in approved'
    <3>1. q.listing \in Listings
      BY <2>1 DEF Knows, MoveFits, Adoptions
    <3>2. \/ access[q.store].ref = q.listing
          \/ \E l \in Listings : <<q.store, l>> \in approved
      BY <2>1 DEF Knows, MoveKnows
    <3> QED
      BY <1>1, <2>1, <3>1, <3>2, NamesAssumption
  <2>2. label \in {"account", "location"} => <<q.store, q.listing>> \in approved'
    BY DEF Knows, MoveKnows
  <2>3. label \in {"detach", "disown"} => q.store \in forced'
    BY DEF Knows, MoveKnows
  <2> QED
    BY <2>1, <2>2, <2>3 DEF MoveKnows
<1>4. SetupKnows(label, q)'
  <2>1. q.edit <= profile[q.store] => q.edit <= profile'[q.store]
    <3>1. profile[q.store] \in Int /\ profile'[q.store] \in Int /\ q.edit \in Int
      BY <1>1, LocalsFields, BoundsAssumption DEF TypeOK, TablesOK
    <3> QED
      BY <1>1, <3>1
  <2>2. q.listing \in New /\ MadeFor(q.store, q.listing) => MadeFor(q.store, q.listing)'
    BY <1>1
  <2> QED
    BY <1>1, <2>1, <2>2 DEF Knows, SetupKnows
<1>5. label = "post" => <<q.store, q.listing>> \in approved'
  BY DEF Knows
<1> QED
  BY <1>2, <1>3, <1>4, <1>5 DEF Knows

(* The parts of such a step.                                                *)
LEMMA Writes ==
  ASSUME Inv, NEW r \in Requests, NEW CONSTANT label \in Labels,
         NEW CONSTANT q \in Locals \cup {None}, q = None <=> label = "idle",
         MovesTo(r, label, q), TablesOK', HistoryOK', OnlyGrows,
         \A o \in Requests \ {r} : LookKept(o),
         label # "idle" => Knows(label, q)' /\ Looked(label, q)',
         Settled', Own'
  PROVE  Inv'
<1> USE DEF Inv
<1>1. RequestsOK'
  BY MovesTyped
<1>2. KnowledgeKept
  BY GrowingKeepsKnowledge
<1>3. Known'
  BY <1>2, MovesKnown
<1>4. AllLooked'
  BY MovesLooked
<1> QED
  BY <1>1, <1>3, <1>4 DEF TypeOK

LEMMA LookedAnyway ==
  ASSUME NEW q, NEW label \in {"followUp", "verify", "record", "track", "look",
                               "refresh", "parent", "post", "notice", "detach",
                               "disown", "ensured", "vacant"}
  PROVE  Looked(label, q)'
BY DEF Looked, AttachLooked, SetupLooked, PastListing, PastReview

LEMMA LooksKept ==
  ASSUME TypeOK, location' = location,
         \A s \in Stores : access'[s].state = access[s].state
  PROVE  \A o \in Requests : LookKept(o)
BY FewerRows

LEMMA ScheduleFollowUpKeeps ==
  ASSUME Inv, NEW r \in Requests, ScheduleFollowUp(r)
  PROVE  Inv'
<1>1. /\ at[r] = "followUp" /\ followUp' = followUp \cup {req[r].store}
      /\ Go(r, IF req[r].listing \in New THEN "verify" ELSE "track")
      /\ UNCHANGED <<access, location, newest, account, verified, told, outside,
                     req, history>>
  BY DEF ScheduleFollowUp
<1>2. TypeOK /\ req[r] \in Locals /\ SetupKnows("followUp", req[r])
  BY <1>1, KnowsOwn
<1>3. PICK label, q : q = req[r] /\ label = IF q.listing \in New THEN "verify" ELSE "track"
  OBVIOUS
<1>4. MovesTo(r, label, q) /\ label \in {"verify", "track"}
  BY <1>1, <1>2, <1>3, GoMoves
<1>5. q \in Locals /\ q.store \in Stores
  BY <1>2, <1>3, LocalsFields
<1> USE DEF outside, history
<1>6. TablesOK' /\ HistoryOK'
  BY <1>1, <1>2, <1>3, <1>5 DEF TypeOK, TablesOK, HistoryOK
<1>7. OnlyGrows
  BY <1>1, <1>2, BoundsAssumption DEF OnlyGrows, MadeFor, TypeOK, TablesOK
<1>8. Knows(label, q)'
  <2>1. Knows(label, q)
    BY <1>2, <1>3, <1>4 DEF Knows, MoveFits, MoveKnows, SetupKnows
  <2>2. KnowledgeKept
    BY <1>2, <1>6, <1>7, GrowingKeepsKnowledge
  <2> QED
    BY <1>4, <1>5, <2>1, <2>2 DEF KnowledgeKept, Labels
<1>9. \A o \in Requests : LookKept(o)
  BY <1>1, <1>2, LooksKept
<1>10. Settled' /\ Own'
  <2>1. \A s \in Stores : (Carrying(s) => Carrying(s)') /\ (Telling(s) => Telling(s)')
    BY <1>1, <1>2, <1>4, CarryingKept, TellingKept
  <2> QED
    BY <1>1, <1>2, <2>1, QuietRows, QuietGrants, QuietTold, QuietOwn DEF Inv, Settled
<1> QED
  BY <1>4, <1>5, <1>6, <1>7, <1>8, <1>9, <1>10, NamesAssumption, LookedAnyway, Writes
     DEF Labels

LEMMA AccountsGrow ==
  ASSUME TypeOK, NEW s \in Stores, NEW k \in RowKinds,
         account' = [account EXCEPT ![s] = @ \cup {k}]
  PROVE  /\ account' \in [Stores -> SUBSET RowKinds]
         /\ k \in account'[s]
         /\ \A u \in Stores : account[u] \subseteq account'[u]
BY DEF TypeOK, TablesOK

LEMMA SetupAccountKeeps ==
  ASSUME Inv, NEW r \in Requests, SetupAccount(r)
  PROVE  Inv'
<1>1. PICK q : q = req[r]
  OBVIOUS
<1>2. /\ at[r] = "setupAccount" /\ Go(r, "setupLocation")
      /\ account' = [account EXCEPT ![q.store] = @ \cup {"setup"}]
      /\ UNCHANGED <<access, location, newest, verified, followUp, told, outside,
                     req, history>>
  BY <1>1 DEF SetupAccount
<1>3. TypeOK /\ q \in Locals /\ SetupKnows("setupAccount", q)
      /\ SetupLooked("setupAccount", q)
  BY <1>1, <1>2, KnowsOwn
<1>4. MovesTo(r, "setupLocation", q) /\ q.store \in Stores
  BY <1>1, <1>2, <1>3, GoMoves, LocalsFields
<1>5. /\ account' \in [Stores -> SUBSET RowKinds] /\ "setup" \in account'[q.store]
      /\ \A s \in Stores : account[s] \subseteq account'[s]
  BY <1>2, <1>3, <1>4, AccountsGrow DEF RowKinds
<1> USE DEF outside, history
<1>6. TablesOK' /\ HistoryOK'
  BY <1>2, <1>3, <1>5 DEF TypeOK, TablesOK, HistoryOK
<1>7. OnlyGrows
  BY <1>2, <1>3, <1>5, BoundsAssumption DEF OnlyGrows, MadeFor, TypeOK, TablesOK
<1>8. Knows("setupLocation", q)'
  <2>1. SetupKnows("setupLocation", q)'
    BY <1>2, <1>3, <1>5 DEF SetupKnows, MadeFor
  <2> QED
    BY <2>1 DEF Knows, MoveFits, MoveKnows
<1>9. Looked("setupLocation", q)'
  BY <1>2, <1>3 DEF Looked, AttachLooked, SetupLooked, PastListing, PastReview, Attached
<1>10. \A o \in Requests : LookKept(o)
  BY <1>2, <1>3, LooksKept
<1>11. Settled' /\ Own'
  <2>1. \A s \in Stores : (Carrying(s) => Carrying(s)') /\ (Telling(s) => Telling(s)')
    BY <1>2, <1>3, <1>4, CarryingKept, TellingKept
  <2>2. RowsJoin'
    BY <1>2, <1>5 DEF Inv, Settled, RowsJoin, Attached
  <2> QED
    BY <1>2, <1>3, <2>1, <2>2, QuietGrants, QuietTold, QuietOwn DEF Inv, Settled
<1> QED
  BY <1>3, <1>4, <1>6, <1>7, <1>8, <1>9, <1>10, <1>11, NamesAssumption, Writes DEF Labels

LEMMA AttachAccountKeeps ==
  ASSUME Inv, NEW r \in Requests, AttachAccount(r)
  PROVE  Inv'
<1>1. PICK q : q = req[r]
  OBVIOUS
<1>2. /\ at[r] = "account" /\ Go(r, "location")
      /\ account' = [account EXCEPT ![q.store] = @ \cup {"adopted"}]
      /\ UNCHANGED <<access, location, newest, verified, followUp, told, outside,
                     req, history>>
  BY <1>1 DEF AttachAccount
<1>3. /\ TypeOK /\ q \in Locals /\ MoveFits("account", q) /\ MoveKnows("account", q)
      /\ AttachLooked("account", q)
  BY <1>1, <1>2, KnowsOwn
<1>4. MovesTo(r, "location", q) /\ q.store \in Stores
  BY <1>1, <1>2, <1>3, GoMoves, LocalsFields
<1>5. /\ account' \in [Stores -> SUBSET RowKinds]
      /\ \A s \in Stores : account[s] \subseteq account'[s]
  BY <1>2, <1>3, <1>4, AccountsGrow DEF RowKinds
<1> USE DEF outside, history
<1>6. TablesOK' /\ HistoryOK'
  BY <1>2, <1>3, <1>5 DEF TypeOK, TablesOK, HistoryOK
<1>7. OnlyGrows
  BY <1>2, <1>3, <1>5, BoundsAssumption DEF OnlyGrows, MadeFor, TypeOK, TablesOK
<1>8. Knows("location", q)'
  <2>1. MoveKnows("location", q)'
    BY <1>2, <1>3 DEF MoveKnows
  <2>2. MoveFits("location", q)'
    BY <1>3 DEF MoveFits
  <2> QED
    BY <2>1, <2>2 DEF Knows, SetupKnows
<1>9. Looked("location", q)'
  BY <1>2, <1>3 DEF Looked, AttachLooked, SetupLooked, PastListing, PastReview,
                    Attached, Holders
<1>10. \A o \in Requests : LookKept(o)
  BY <1>2, <1>3, LooksKept
<1>11. Settled' /\ Own'
  <2>1. \A s \in Stores : (Carrying(s) => Carrying(s)') /\ (Telling(s) => Telling(s)')
    BY <1>1, <1>2, <1>3, <1>4, CarryingKept, TellingKept
  <2>2. RowsJoin'
    BY <1>2, <1>5 DEF Inv, Settled, RowsJoin, Attached
  <2> QED
    BY <1>2, <1>3, <2>1, <2>2, QuietGrants, QuietTold, QuietOwn DEF Inv, Settled
<1> QED
  BY <1>3, <1>4, <1>6, <1>7, <1>8, <1>9, <1>10, <1>11, NamesAssumption, Writes DEF Labels

LEMMA DisownKeeps ==
  ASSUME Inv, NEW r \in Requests, Disown(r)
  PROVE  Inv'
<1>1. PICK s : s = req[r].store
  OBVIOUS
<1>2. /\ at[r] = "disown" /\ End(r)
      /\ account' = IF location[s]["adopted"] = None
                    THEN [account EXCEPT ![s] = @ \ {"adopted"}] ELSE account
      /\ UNCHANGED <<access, location, newest, verified, followUp, told, outside,
                     history>>
  BY <1>1 DEF Disown
<1>3. TypeOK /\ s \in Stores
  BY <1>1, <1>2, KnowsOwn, LocalsFields
<1>4. MovesTo(r, "idle", None)
  BY <1>2, <1>3, EndMoves
<1>5. /\ account' \in [Stores -> SUBSET RowKinds]
      /\ \A u \in Stores : \/ account'[u] = account[u]
                           \/ /\ account'[u] = account[u] \ {"adopted"}
                              /\ location[u]["adopted"] = None
  BY <1>2, <1>3 DEF TypeOK, TablesOK
<1> USE DEF outside, history
<1>6. TablesOK' /\ HistoryOK'
  BY <1>2, <1>3, <1>5 DEF TypeOK, TablesOK, HistoryOK
<1>7. OnlyGrows
  BY <1>2, <1>3, <1>5, BoundsAssumption DEF OnlyGrows, MadeFor, TypeOK, TablesOK
<1>8. \A o \in Requests : LookKept(o)
  BY <1>2, <1>3, LooksKept
<1>9. Settled' /\ Own'
  <2>1. \A u \in Stores : (Carrying(u) => Carrying(u)') /\ (Telling(u) => Telling(u)')
    BY <1>2, <1>3, <1>4, CarryingKept, TellingKept
  <2>2. RowsJoin'
    BY <1>2, <1>5 DEF Inv, Settled, RowsJoin, Attached
  <2> QED
    BY <1>2, <1>3, <2>1, <2>2, QuietGrants, QuietTold, QuietOwn DEF Inv, Settled
<1> QED
  BY <1>4, <1>6, <1>7, <1>8, <1>9, Writes DEF Labels

LEMMA NoticeKeeps ==
  ASSUME Inv, NEW r \in Requests, Notice(r)
  PROVE  Inv'
<1>1. PICK q, told2 : /\ q = req[r]
                      /\ told2 = <<q.store, IF q.kind = "REJECT_ADOPTION"
                                            THEN "rejected" ELSE "attached">>
  OBVIOUS
<1>2. /\ at[r] = "notice" /\ End(r) /\ told' = told \cup {told2}
      /\ UNCHANGED <<access, location, newest, account, verified, followUp, outside,
                     history>>
  BY <1>1 DEF Notice
<1>3. TypeOK /\ q \in Locals /\ q.store \in Stores
  BY <1>1, <1>2, KnowsOwn, LocalsFields
<1>4. MovesTo(r, "idle", None)
  BY <1>2, <1>3, EndMoves
<1> USE DEF outside, history
<1>5. TablesOK' /\ HistoryOK'
  BY <1>1, <1>2, <1>3 DEF TypeOK, TablesOK, HistoryOK
<1>6. OnlyGrows
  BY <1>2, <1>3, BoundsAssumption DEF OnlyGrows, MadeFor, TypeOK, TablesOK
<1>7. \A o \in Requests : LookKept(o)
  BY <1>2, <1>3, LooksKept
<1>8. RejectionIsTold'
  <2> SUFFICES ASSUME NEW s \in rejected \ cut, <<s, "rejected">> \notin told'
               PROVE  Telling(s)'
    BY <1>2 DEF RejectionIsTold, Telling
  <2>1. Telling(s)
    BY <1>2 DEF Inv, Settled, RejectionIsTold, Telling
  <2>2. PICK o \in Requests : at[o] = "notice" /\ req[o].store = s
                              /\ req[o].kind = "REJECT_ADOPTION"
    BY <2>1 DEF Telling
  <2>3. o # r
    BY <1>1, <1>2, <2>2
  <2>4. at'[o] = "notice" /\ req'[o].store = s /\ req'[o].kind = "REJECT_ADOPTION"
    BY <1>3, <1>4, <2>2, <2>3, StaysFields DEF MovesTo
  <2> QED
    BY <2>4 DEF Telling
<1>9. Settled' /\ Own'
  <2>1. \A s \in Stores : Carrying(s) => Carrying(s)'
    BY <1>2, <1>3, <1>4, CarryingKept
  <2> QED
    BY <1>2, <1>8, <2>1, QuietRows, QuietGrants, QuietOwn DEF Inv, Settled
<1> QED
  BY <1>4, <1>5, <1>6, <1>7, <1>9, Writes DEF Labels

LEMMA RecordKeeps ==
  ASSUME Inv, NEW r \in Requests, Record(r)
  PROVE  Inv'
<1>1. PICK q : q = req[r]
  OBVIOUS
<1>2. /\ at[r] = "record" /\ Go(r, "track")
      /\ verified' = [verified EXCEPT
                        ![q.store] = [listing |-> q.listing, state |-> q.verdict,
                                      of |-> q.listing]]
      /\ UNCHANGED <<access, location, newest, account, followUp, told, outside,
                     req, history>>
  BY <1>1 DEF Record
<1>3. TypeOK /\ q \in Locals /\ SetupKnows("record", q)
  BY <1>1, <1>2, KnowsOwn
<1>4. /\ MovesTo(r, "track", q) /\ q.store \in Stores /\ q.verdict \in Verdicts
      /\ q.listing \in New /\ MadeFor(q.store, q.listing)
  BY <1>1, <1>2, <1>3, GoMoves, LocalsFields DEF SetupKnows
<1>5. PICK row : row = [listing |-> q.listing, state |-> q.verdict, of |-> q.listing]
  OBVIOUS
<1>6. row \in Verifications /\ row.listing = q.listing /\ row.of = q.listing /\ row # None
  BY <1>4, <1>5, NamesAssumption DEF Verifications
<1>7. /\ verified' \in [Stores -> Verifications \cup {None}]
      /\ verified'[q.store] = row
      /\ \A s \in Stores \ {q.store} : verified'[s] = verified[s]
  BY <1>2, <1>3, <1>4, <1>5, <1>6 DEF TypeOK, TablesOK
<1> USE DEF outside, history
<1>8. TablesOK' /\ HistoryOK'
  BY <1>2, <1>3, <1>7 DEF TypeOK, TablesOK, HistoryOK
<1>9. OnlyGrows
  BY <1>2, <1>3, <1>6, <1>7, BoundsAssumption DEF OnlyGrows, MadeFor, TypeOK, TablesOK
<1>10. \A o \in Requests : LookKept(o)
  BY <1>2, <1>3, LooksKept
<1>11. Knows("track", q)' /\ Looked("track", q)'
  BY LookedAnyway DEF Knows, MoveFits, MoveKnows, SetupKnows
<1>12. Settled'
  <2>1. \A s \in Stores : (Carrying(s) => Carrying(s)') /\ (Telling(s) => Telling(s)')
    BY <1>2, <1>3, <1>4, CarryingKept, TellingKept
  <2> QED
    BY <1>2, <1>3, <2>1, QuietRows, QuietGrants, QuietTold DEF Inv, Settled
<1>13. Own'
  BY <1>2, <1>4, <1>6, <1>7 DEF Inv, Own, MadeOnce, RowsAreOwn, MadeFor
<1> QED
  BY <1>3, <1>4, <1>8, <1>9, <1>10, <1>11, <1>12, <1>13, NamesAssumption, Writes DEF Labels

LEMMA RefreshKeeps ==
  ASSUME Inv, NEW r \in Requests, Refresh(r)
  PROVE  Inv'
<1>1. PICK q : q = req[r]
  OBVIOUS
<1>2. /\ at[r] = "refresh" /\ End(r)
      /\ verified' = [verified EXCEPT ![q.store].state = q.verdict,
                                      ![q.store].of = q.listing]
      /\ UNCHANGED <<access, location, newest, account, followUp, told, outside,
                     history>>
  BY <1>1 DEF Refresh
<1>3. TypeOK /\ q \in Locals /\ SetupKnows("refresh", q)
  BY <1>1, <1>2, KnowsOwn
<1>4. /\ MovesTo(r, "idle", None) /\ q.store \in Stores /\ q.verdict \in Verdicts
      /\ q.listing \in New /\ MadeFor(q.store, q.listing)
      /\ verified[q.store] \in Verifications
  BY <1>2, <1>3, EndMoves, LocalsFields DEF SetupKnows, TypeOK, TablesOK
<1>5. PICK row : row = [verified[q.store] EXCEPT !.state = q.verdict, !.of = q.listing]
  OBVIOUS
<1>6. /\ row \in Verifications /\ row.listing = verified[q.store].listing
      /\ row.of = q.listing /\ row # None
  BY <1>4, <1>5, NamesAssumption DEF Verifications
<1>7. /\ verified' \in [Stores -> Verifications \cup {None}]
      /\ verified'[q.store] = row
      /\ \A s \in Stores \ {q.store} : verified'[s] = verified[s]
  <2>1. verified' = [verified EXCEPT ![q.store] = row]
    BY <1>2, <1>3, <1>4, <1>5 DEF TypeOK, TablesOK
  <2> QED
    BY <1>3, <1>4, <1>6, <2>1 DEF TypeOK, TablesOK
<1> USE DEF outside, history
<1>8. TablesOK' /\ HistoryOK'
  BY <1>2, <1>3, <1>7 DEF TypeOK, TablesOK, HistoryOK
<1>9. OnlyGrows
  <2>1. \A s \in Stores : verified[s] # None => verified'[s] # None
    BY <1>6, <1>7
  <2>2. \A s \in Stores : profile[s] <= profile'[s]
    BY <1>2, <1>3, BoundsAssumption DEF TypeOK, TablesOK
  <2> QED
    BY <1>2, <2>1, <2>2 DEF OnlyGrows, MadeFor
<1>10. \A o \in Requests : LookKept(o)
  BY <1>2, <1>3, LooksKept
<1>11. Settled'
  <2>1. \A s \in Stores : (Carrying(s) => Carrying(s)') /\ (Telling(s) => Telling(s)')
    BY <1>2, <1>3, <1>4, CarryingKept, TellingKept
  <2> QED
    BY <1>2, <1>3, <2>1, QuietRows, QuietGrants, QuietTold DEF Inv, Settled
<1>12. Own'
  <2>1. verified[q.store] # None
    BY <1>3 DEF SetupKnows
  <2>2. MadeOnce'
    BY <1>2 DEF Inv, Own, MadeOnce
  <2>3. ASSUME NEW s \in Stores, verified'[s] # None
        PROVE  MadeFor(s, verified[s].listing)' /\ MadeFor(s, verified[s].of)'
    <3>1. CASE s = q.store
      <4>1. MadeFor(q.store, verified[q.store].listing)
        BY <1>4, <2>1 DEF Inv, Own, RowsAreOwn
      <4> QED
        BY <1>2, <1>4, <1>6, <1>7, <3>1, <4>1, Zenon DEF MadeFor
    <3>2. CASE s # q.store
      <4>1. verified'[s] = verified[s]
        BY <1>7, <3>2
      <4>2. MadeFor(s, verified[s].listing) /\ MadeFor(s, verified[s].of)
        BY <2>3, <4>1 DEF Inv, Own, RowsAreOwn
      <4> QED
        BY <1>2, <4>1, <4>2 DEF MadeFor
    <3> QED
      BY <3>1, <3>2
  <2>4. ASSUME NEW s \in Stores, location'[s]["setup"] \in New
        PROVE  MadeFor(s, location[s]["setup"])'
    BY <1>2, <2>4 DEF Inv, Own, RowsAreOwn, MadeFor
  <2>5. RowsAreOwn'
    BY <2>3, <2>4 DEF RowsAreOwn, MadeFor
  <2> QED
    BY <2>2, <2>5 DEF Own
<1> QED
  BY <1>4, <1>8, <1>9, <1>10, <1>11, <1>12, Writes DEF Labels

(* Google answers with the listing it made for the request id, or makes one *)
(* for it; no listing changes hands.                                        *)
LEMMA CreateKeeps ==
  ASSUME Inv, NEW r \in Requests, Create(r)
  PROVE  Inv'
<1>1. PICK p, id : p = req[r] /\ id = <<p.store, p.edit>>
  OBVIOUS
<1> DEFINE known == {n \in New : made[n] = id}
           fresh == {n \in New : made[n] = None}
<1>2. PICK l \in New : /\ l \in (IF known # {} THEN known ELSE fresh)
                       /\ made' = [made EXCEPT ![l] = id]
                       /\ req' = [req EXCEPT ![r].listing = l]
  <2>1. (IF known # {} THEN known ELSE fresh) # {}
    BY <1>1 DEF Create, RequestId
  <2>2. \E n \in New : n \in (IF known # {} THEN known ELSE fresh)
    BY <2>1
  <2> QED
    BY <1>1, <2>2 DEF Create, RequestId
<1>3. /\ at[r] = "create" /\ Go(r, "setupAccount")
      /\ UNCHANGED <<tables, profile, history>>
  BY DEF Create
<1>4. TypeOK /\ p \in Locals /\ SetupKnows("create", p) /\ SetupLooked("create", p)
  BY <1>1, <1>3, KnowsOwn
<1>5. PICK q : q = [p EXCEPT !.listing = l]
  OBVIOUS
<1>6. /\ q \in Locals /\ q.store = p.store /\ q.listing = l /\ q.edit = p.edit
      /\ q.overtaken = p.overtaken /\ p.store \in Stores
  BY <1>4, <1>5, LocalsFields DEF Locals, Listings
<1>7. MovesTo(r, "setupAccount", q)
  <2>1. req' = [req EXCEPT ![r] = q]
    BY <1>1, <1>2, <1>5
  <2> QED
    BY <1>3, <1>4, <2>1, PutMoves
<1>8. id \in Stores \X (0 .. MaxEdits) /\ id # None
  BY <1>1, <1>4, LocalsFields, NamesAssumption
<1>9. /\ made' \in [New -> (Stores \X (0 .. MaxEdits)) \cup {None}]
      /\ made'[l] = id /\ made[l] \in {None, id}
      /\ \A n \in New \ {l} : made'[n] = made[n] /\ (known = {} => made[n] # id)
  BY <1>2, <1>4, <1>8 DEF TypeOK, TablesOK
<1>10. \A n \in New \ {l} : made[n] # id
  BY <1>2, <1>8, <1>9 DEF Inv, Own, MadeOnce
<1> HIDE DEF known, fresh
<1> USE DEF tables, history
<1>11. TablesOK' /\ HistoryOK'
  BY <1>3, <1>4, <1>9 DEF TypeOK, TablesOK, HistoryOK
<1>12. \A s \in Stores, n \in New : MadeFor(s, n) => MadeFor(s, n)'
  <2> SUFFICES ASSUME NEW s \in Stores, NEW n \in New, NEW e \in 0 .. profile[s],
                      made[n] = <<s, e>>
               PROVE  made'[n] = <<s, e>>
    BY <1>3 DEF MadeFor
  <2>1. e \in 0 .. MaxEdits
    BY <1>4, BoundsAssumption DEF TypeOK, TablesOK
  <2>2. made[n] # None
    BY <2>1, NamesAssumption
  <2> QED
    BY <1>9, <2>2
<1>13. OnlyGrows
  BY <1>3, <1>4, <1>12, BoundsAssumption DEF OnlyGrows, TypeOK, TablesOK
<1>14. \A o \in Requests : LookKept(o)
  BY <1>3, <1>4, LooksKept
<1>15. Knows("setupAccount", q)'
  <2>1. p.edit <= profile[p.store]
    BY <1>4 DEF SetupKnows
  <2>2. p.edit \in 0 .. profile[p.store]
    BY <1>4, <2>1, EditIsPast
  <2>3. MadeFor(q.store, q.listing)'
    BY <1>1, <1>3, <1>6, <1>9, <2>2 DEF MadeFor
  <2>4. SetupKnows("setupAccount", q)'
    BY <1>6, <2>3 DEF SetupKnows
  <2> QED
    BY <2>4 DEF Knows, MoveFits, MoveKnows
<1>16. Looked("setupAccount", q)'
  BY <1>3, <1>4, <1>6 DEF Looked, AttachLooked, SetupLooked, PastListing, PastReview,
                          Attached
<1>17. Settled'
  <2>1. \A s \in Stores : (Carrying(s) => Carrying(s)') /\ (Telling(s) => Telling(s)')
    BY <1>3, <1>4, <1>7, CarryingKept, TellingKept
  <2> QED
    BY <1>3, <1>4, <2>1, QuietRows, QuietGrants, QuietTold DEF Inv, Settled
<1>18. Own'
  <2>1. MadeOnce'
    <3> SUFFICES ASSUME NEW m \in New, NEW n \in New, made'[m] = made'[n], made'[m] # None
                 PROVE  m = n
      BY DEF MadeOnce
    <3> QED
      BY <1>9, <1>10 DEF Inv, Own, MadeOnce
  <2>2. RowsAreOwn'
    <3>1. \A s \in Stores : verified[s] # None =>
            verified[s].listing \in New /\ verified[s].of \in New
      BY <1>4 DEF TypeOK, TablesOK, Verifications
    <3> QED
      BY <1>3, <1>12, <3>1 DEF Inv, Own, RowsAreOwn
  <2> QED
    BY <2>1, <2>2 DEF Own
<1> QED
  BY <1>6, <1>7, <1>11, <1>13, <1>14, <1>15, <1>16, <1>17, <1>18, NamesAssumption, Writes
     DEF Labels

(* A row that is not there yet.                                             *)
LEMMA NewRow ==
  ASSUME TypeOK, NEW s \in Stores, NEW row \in Rows,
         access' = IF Tracked(s) THEN access ELSE [access EXCEPT ![s] = row]
  PROVE  /\ access' \in [Stores -> Rows \cup {NoRow}]
         /\ \A u \in Stores :
              access'[u] = access[u] \/ (access[u] = NoRow /\ access'[u] = row)
BY DEF TypeOK, TablesOK, Tracked

LEMMA NewRowGrants ==
  ASSUME TypeOK, GrantIsAttached,
         \A s \in Stores : access'[s] = access[s] \/ access[s] = NoRow,
         location' = location, approved' = approved, forced' = forced, cut' = cut,
         \A s \in Stores : Carrying(s) => Carrying(s)'
  PROVE  GrantIsAttached'
<1> SUFFICES ASSUME NEW s \in Stores \ forced, NEW l \in Listings, <<s, l>> \in approved
             PROVE  /\ access'[s].ref = l /\ access'[s].state \in {"granted", "revoked"}
                    /\ s \in cut \/ Carrying(s)' \/ location[s]["adopted"] = l
  BY DEF GrantIsAttached
<1>1. /\ access[s].ref = l /\ access[s].state \in {"granted", "revoked"}
      /\ s \in cut \/ Carrying(s) \/ location[s]["adopted"] = l
  BY DEF GrantIsAttached
<1>2. access[s] # NoRow
  BY <1>1, NamesAssumption DEF NoRow, AccessStates
<1> QED
  BY <1>1, <1>2

LEMMA NewRowGrows ==
  ASSUME TypeOK, \A s \in Stores : access'[s] = access[s] \/ access[s] = NoRow,
         account' = account, verified' = verified, made' = made, profile' = profile,
         approved' = approved, forced' = forced
  PROVE  OnlyGrows
<1>1. \A s \in Stores : profile[s] <= profile'[s]
  BY BoundsAssumption DEF TypeOK, TablesOK
<1>2. \A s \in Stores : access'[s].ref = access[s].ref \/ access[s].ref = None
  BY DEF NoRow
<1> QED
  BY <1>1, <1>2 DEF OnlyGrows, MadeFor

LEMMA TrackKeeps ==
  ASSUME Inv, NEW r \in Requests, Track(r)
  PROVE  Inv'
<1>1. PICK q, row : q = req[r] /\ row = [state |-> "not_requested", ref |-> q.listing]
  OBVIOUS
<1>2. /\ at[r] = "track" /\ End(r)
      /\ access' = IF Tracked(q.store) THEN access ELSE [access EXCEPT ![q.store] = row]
      /\ UNCHANGED <<location, newest, account, verified, followUp, told, outside,
                     history>>
  BY <1>1 DEF Track
<1>3. TypeOK /\ q \in Locals
  BY <1>1, <1>2, KnowsOwn
<1>4. MovesTo(r, "idle", None) /\ q.store \in Stores /\ row \in Rows
      /\ row.state = "not_requested"
  BY <1>1, <1>2, <1>3, EndMoves, LocalsFields DEF Rows, AccessStates
<1>5. /\ access' \in [Stores -> Rows \cup {NoRow}]
      /\ \A s \in Stores :
           access'[s] = access[s] \/ (access[s] = NoRow /\ access'[s] = row)
  BY <1>2, <1>3, <1>4, NewRow
<1> USE DEF outside, history
<1>6. TablesOK' /\ HistoryOK'
  BY <1>2, <1>3, <1>5 DEF TypeOK, TablesOK, HistoryOK
<1>7. OnlyGrows
  BY <1>2, <1>3, <1>5, NewRowGrows
<1>8. \A o \in Requests : LookKept(o)
  <2>1. \A s \in Stores : access'[s].state = "adoption_review" =>
                            access[s].state = "adoption_review"
    BY <1>4, <1>5
  <2> QED
    BY <1>2, <1>3, <2>1, FewerRows
<1>9. Settled' /\ Own'
  <2>1. \A s \in Stores : (Carrying(s) => Carrying(s)') /\ (Telling(s) => Telling(s)')
    BY <1>2, <1>3, <1>4, CarryingKept, TellingKept
  <2>2. GrantIsAttached'
    BY <1>2, <1>3, <1>5, <2>1, NewRowGrants DEF Inv, Settled
  <2> QED
    BY <1>2, <1>3, <2>1, <2>2, QuietRows, QuietTold, QuietOwn DEF Inv, Settled
<1> QED
  BY <1>4, <1>6, <1>7, <1>8, <1>9, Writes DEF Labels

LEMMA StartAttachKeeps ==
  ASSUME Inv, NEW r \in Requests, NEW s \in Stores, NEW l \in Hand, StartAttach(r, s, l)
  PROVE  Inv'
<1>1. PICK q, row : /\ q = [Blank("ATTACH_LOCATION", s) EXCEPT
                              !.ref = l, !.listing = l, !.goal = "granted"]
                    /\ row = [state |-> "not_requested", ref |-> None]
  OBVIOUS
<1>2. /\ Start(r, "ensured", q)
      /\ access' = IF Tracked(s) THEN access ELSE [access EXCEPT ![s] = row]
      /\ UNCHANGED <<location, newest, account, verified, followUp, told, outside,
                     history>>
  BY <1>1 DEF StartAttach
<1>3. TypeOK
  BY DEF Inv
<1>4. /\ MovesTo(r, "ensured", q) /\ at[r] = "idle"
      /\ row \in Rows /\ row.state = "not_requested"
  BY <1>1, <1>2, <1>3, StartMoves DEF Rows, AccessStates
<1>5. q \in Locals /\ q.kind = "ATTACH_LOCATION" /\ q.ref = l /\ q.listing = l
  <2>1. Blank("ATTACH_LOCATION", s) \in Locals
    BY BlankFields DEF AllKinds, AccessActions, NaturalMoves
  <2> QED
    BY <1>1, <2>1 DEF Locals, Listings, AccessStates, Blank
<1>6. /\ access' \in [Stores -> Rows \cup {NoRow}]
      /\ \A u \in Stores :
           access'[u] = access[u] \/ (access[u] = NoRow /\ access'[u] = row)
  BY <1>2, <1>3, <1>4, NewRow
<1> USE DEF outside, history
<1>7. TablesOK' /\ HistoryOK'
  BY <1>2, <1>3, <1>6 DEF TypeOK, TablesOK, HistoryOK
<1>8. OnlyGrows
  BY <1>2, <1>3, <1>6, NewRowGrows
<1>9. \A o \in Requests : LookKept(o)
  <2>1. \A u \in Stores : access'[u].state = "adoption_review" =>
                            access[u].state = "adoption_review"
    BY <1>4, <1>6
  <2> QED
    BY <1>2, <1>3, <2>1, FewerRows
<1>10. Knows("ensured", q)' /\ Looked("ensured", q)'
  <2>1. MoveFits("ensured", q)'
    BY <1>5 DEF MoveFits, Adoptions, Listings
  <2> QED
    BY <2>1, LookedAnyway DEF Knows, MoveKnows, SetupKnows
<1>11. Settled' /\ Own'
  <2>1. \A u \in Stores : (Carrying(u) => Carrying(u)') /\ (Telling(u) => Telling(u)')
    BY <1>3, <1>4, CarryingKept, TellingKept
  <2>2. GrantIsAttached'
    BY <1>2, <1>3, <1>6, <2>1, NewRowGrants DEF Inv, Settled
  <2> QED
    BY <1>2, <1>3, <2>1, <2>2, QuietRows, QuietTold, QuietOwn DEF Inv, Settled
<1> QED
  BY <1>4, <1>5, <1>7, <1>8, <1>9, <1>10, <1>11, NamesAssumption, Writes DEF Labels

(* Steps of the owner: no request moves.                                    *)
LEMMA OwnerWrites ==
  ASSUME Inv, AreFunctions, \A o \in Requests : Stays(o), TablesOK', HistoryOK',
         OnlyGrows, \A o \in Requests : LookKept(o), Settled', Own'
  PROVE  Inv'
<1> USE DEF Inv
<1>1. RequestsOK'
  BY AllStayTyped
<1>2. KnowledgeKept
  BY GrowingKeepsKnowledge
<1>3. Known'
  BY <1>2, StaysKnown DEF Known
<1>4. AllLooked'
  BY StaysLooked DEF AllLooked
<1> QED
  BY <1>1, <1>3, <1>4 DEF TypeOK

LEMMA AllCarryOn ==
  ASSUME TypeOK, \A o \in Requests : Stays(o), NEW s \in Stores
  PROVE  (Carrying(s) => Carrying(s)') /\ (Telling(s) => Telling(s)')
<1>1. ASSUME Carrying(s) PROVE Carrying(s)'
  <2>1. PICK o \in Requests : at[o] \in {"account", "location"} /\ req[o].store = s
    BY <1>1 DEF Carrying
  <2>2. at'[o] \in {"account", "location"} /\ req'[o].store = s
    BY <2>1, StaysFields
  <2> QED
    BY <2>2 DEF Carrying
<1>2. ASSUME Telling(s) PROVE Telling(s)'
  <2>1. PICK o \in Requests : at[o] = "notice" /\ req[o].store = s
                              /\ req[o].kind = "REJECT_ADOPTION"
    BY <1>2 DEF Telling
  <2>2. at'[o] = "notice" /\ req'[o].store = s /\ req'[o].kind = "REJECT_ADOPTION"
    BY <2>1, StaysFields
  <2> QED
    BY <2>2 DEF Telling
<1> QED
  BY <1>1, <1>2

LEMMA EditProfileKeeps ==
  ASSUME Inv, NEW s \in Stores, EditProfile(s)
  PROVE  Inv'
<1>1. /\ profile[s] < MaxEdits /\ profile' = [profile EXCEPT ![s] = @ + 1]
      /\ UNCHANGED <<tables, made, at, req, history>>
  BY DEF EditProfile
<1>2. TypeOK
  BY DEF Inv
<1>3. AreFunctions /\ \A o \in Requests : Stays(o)
  <2>1. at' = [o \in Requests |-> at'[o]] /\ req' = [o \in Requests |-> req'[o]]
    BY <1>1, <1>2 DEF TypeOK, RequestsOK
  <2> QED
    BY <1>1, <2>1, Zenon DEF AreFunctions, Stays
<1> USE DEF tables, history
<1>4. /\ profile' \in [Stores -> 0 .. MaxEdits]
      /\ \A u \in Stores : profile[u] \in Nat /\ profile'[u] \in Nat
                           /\ profile[u] <= profile'[u]
  BY <1>1, <1>2, BoundsAssumption DEF TypeOK, TablesOK
<1>5. TablesOK' /\ HistoryOK'
  BY <1>1, <1>2, <1>4 DEF TypeOK, TablesOK, HistoryOK
<1>6. \A u \in Stores : \A l : MadeFor(u, l) => MadeFor(u, l)'
  <2> SUFFICES ASSUME NEW u \in Stores, NEW l, NEW e \in 0 .. profile[u],
                      made[l] = <<u, e>>
               PROVE  MadeFor(u, l)'
    BY DEF MadeFor
  <2>1. e \in 0 .. profile'[u]
    BY <1>4
  <2> QED
    BY <1>1, <2>1 DEF MadeFor
<1>7. OnlyGrows
  BY <1>1, <1>4, <1>6 DEF OnlyGrows
<1>8. \A o \in Requests : LookKept(o)
  BY <1>1, <1>2, LooksKept
<1>9. Own'
  BY <1>1, <1>6 DEF Inv, Own, MadeOnce, RowsAreOwn
<1>10. Settled'
  BY <1>1, <1>2, <1>3, AllCarryOn, QuietRows, QuietGrants, QuietTold DEF Inv, Settled
<1> QED
  BY <1>3, <1>5, <1>7, <1>8, <1>9, <1>10, OwnerWrites

(* What Overtake does to the others.                                        *)
LEMMA OvertakeMarks ==
  ASSUME TypeOK, NEW these \in SUBSET {o \in Requests : at[o] \in PastStore},
         NEW o \in Requests
  PROVE  /\ o \in these => Overtake(these)[o] = Mark(req[o]) /\ at[o] \in PastStore
         /\ o \notin these => Overtake(these)[o] = req[o]
BY DEF Overtake, Mark

LEMMA OnReviewIsPast ==
  ASSUME NEW s
  PROVE  OnReview(s) \in SUBSET {o \in Requests : at[o] \in PastStore}
BY DEF OnReview, PastStore

(* A look at the review of store s ends in a mark.                          *)
LEMMA ReviewOvertaken ==
  ASSUME TypeOK, NEW s \in Stores, location' = location,
         \A u \in Stores \ {s} : access'[u].state = "adoption_review" =>
                                   access[u].state = "adoption_review",
         NEW o \in Requests, req'[o] = Overtake(OnReview(s))[o]
  PROVE  LookKept(o)
<1> SUFFICES ASSUME NEW label \in Labels, NEW q \in Locals, at[o] = label, req'[o] = q,
                    Looked(label, q)
             PROVE  Looked(label, q)'
  BY DEF LookKept
<1>1. AttachLooked(label, q)'
  BY DEF Looked, AttachLooked, Attached, Holders
<1>2. q.store \in Stores
  BY LocalsFields
<1>3. CASE o \in OnReview(s)
  <2>1. at[o] # "idle" /\ q = Mark(req[o])
    BY <1>3, OnReviewIsPast, OvertakeMarks DEF OnReview, PastReview
  <2>2. q.overtaken = TRUE
    BY <2>1, Running, MarkFields
  <2> QED
    BY <1>1, <2>2 DEF Looked, SetupLooked
<1>4. CASE o \notin OnReview(s)
  <2>1. q = req[o]
    BY <1>4, OnReviewIsPast, OvertakeMarks
  <2>2. label \in PastReview => q.store # s
    BY <1>4, <2>1 DEF OnReview
  <2>3. SetupLooked(label, q)'
    BY <1>2, <2>2 DEF Looked, SetupLooked, Attached
  <2> QED
    BY <1>1, <2>3 DEF Looked
<1> QED
  BY <1>3, <1>4

LEMMA ClaimKeeps ==
  ASSUME Inv, NEW s \in Stores, Claim(s)
  PROVE  Inv'
<1>1. PICK l \in Hand \cup {None} :
        access' = [access EXCEPT ![s] = [state |-> "adoption_review", ref |-> l]]
  BY DEF Claim
<1>2. PICK row : row = [state |-> "adoption_review", ref |-> l]
  OBVIOUS
<1>3. /\ ~Tracked(s) /\ access' = [access EXCEPT ![s] = row]
      /\ req' = Overtake(OnReview(s))
      /\ UNCHANGED <<location, newest, account, verified, followUp, told, outside,
                     at, history>>
  BY <1>1, <1>2 DEF Claim
<1>4. TypeOK /\ row \in Rows
  BY <1>2 DEF Inv, Rows, AccessStates, Listings
<1>5. /\ access' \in [Stores -> Rows \cup {NoRow}]
      /\ \A u \in Stores : access'[u] = access[u] \/ access[u] = NoRow
      /\ \A u \in Stores \ {s} : access'[u] = access[u]
  BY <1>3, <1>4 DEF TypeOK, TablesOK, Tracked
<1>6. AreFunctions /\ \A o \in Requests : Stays(o)
  <2>1. at' = [o \in Requests |-> at'[o]]
    BY <1>3, <1>4 DEF TypeOK, RequestsOK
  <2>2. req' = [o \in Requests |-> req'[o]]
    BY <1>3 DEF Overtake
  <2>3. ASSUME NEW o \in Requests PROVE Stays(o)
    BY <1>3, <1>4, OnReviewIsPast, OvertakeMarks DEF Stays
  <2> QED
    BY <2>1, <2>2, <2>3, Zenon DEF AreFunctions
<1> USE DEF outside, history
<1>7. TablesOK' /\ HistoryOK'
  BY <1>3, <1>4, <1>5 DEF TypeOK, TablesOK, HistoryOK
<1>8. OnlyGrows
  BY <1>3, <1>4, <1>5, NewRowGrows
<1>9. \A o \in Requests : LookKept(o)
  BY <1>3, <1>4, <1>5, ReviewOvertaken
<1>10. Settled' /\ Own'
  <2>1. \A u \in Stores : (Carrying(u) => Carrying(u)') /\ (Telling(u) => Telling(u)')
    BY <1>4, <1>6, AllCarryOn
  <2>2. GrantIsAttached'
    BY <1>3, <1>4, <1>5, <2>1, NewRowGrants DEF Inv, Settled
  <2> QED
    BY <1>3, <1>4, <2>1, <2>2, QuietRows, QuietTold, QuietOwn DEF Inv, Settled
<1> QED
  BY <1>6, <1>7, <1>8, <1>9, <1>10, OwnerWrites

(* A request that dies takes its duties with it: its store is in cut.       *)
LEMMA CutKeeps ==
  ASSUME Inv, NEW r \in Requests, at[r] # "idle", End(r),
         cut' = cut \/ cut' = cut \cup {req[r].store},
         at[r] \in {"account", "location", "notice"} => cut' = cut \cup {req[r].store},
         cuts' \in 0 .. MaxCuts,
         UNCHANGED <<tables, outside, approved, rejected, forced>>
  PROVE  Inv'
<1> USE DEF tables, outside
<1>1. TypeOK /\ req[r] \in Locals /\ req[r].store \in Stores
  BY KnowsOwn, LocalsFields
<1>2. MovesTo(r, "idle", None)
  BY <1>1, EndMoves
<1>3. TablesOK' /\ HistoryOK'
  BY <1>1 DEF TypeOK, TablesOK, HistoryOK
<1>4. OnlyGrows
  BY <1>1, BoundsAssumption DEF OnlyGrows, MadeFor, TypeOK, TablesOK
<1>5. \A o \in Requests : LookKept(o)
  BY <1>1, LooksKept
<1>6. ASSUME NEW s \in Stores, s \notin cut'
      PROVE  (Carrying(s) => Carrying(s)') /\ (Telling(s) => Telling(s)')
  <2>1. ASSUME NEW o \in Requests, at[o] \in {"account", "location", "notice"},
               req[o].store = s
        PROVE  /\ at'[o] = at[o] /\ req'[o].store = s
               /\ req'[o].kind = req[o].kind
    <3>1. o # r
      BY <1>6, <2>1
    <3> QED
      BY <1>1, <1>2, <2>1, <3>1, StaysFields DEF MovesTo
  <2>2. ASSUME Carrying(s) PROVE Carrying(s)'
    <3>1. PICK o \in Requests : at[o] \in {"account", "location"} /\ req[o].store = s
      BY <2>2 DEF Carrying
    <3>2. at'[o] \in {"account", "location"} /\ req'[o].store = s
      BY <2>1, <3>1
    <3> QED
      BY <3>2 DEF Carrying
  <2>3. ASSUME Telling(s) PROVE Telling(s)'
    <3>1. PICK o \in Requests : at[o] = "notice" /\ req[o].store = s
                                /\ req[o].kind = "REJECT_ADOPTION"
      BY <2>3 DEF Telling
    <3>2. at'[o] = "notice" /\ req'[o].store = s /\ req'[o].kind = "REJECT_ADOPTION"
      BY <2>1, <3>1
    <3> QED
      BY <3>2 DEF Telling
  <2> QED
    BY <2>2, <2>3
<1>7. GrantIsAttached'
  <2> SUFFICES ASSUME NEW s \in Stores \ forced, NEW l \in Listings, <<s, l>> \in approved
               PROVE  /\ access[s].ref = l /\ access[s].state \in {"granted", "revoked"}
                      /\ s \in cut' \/ Carrying(s)' \/ location[s]["adopted"] = l
    BY DEF GrantIsAttached
  <2>1. /\ access[s].ref = l /\ access[s].state \in {"granted", "revoked"}
        /\ s \in cut \/ Carrying(s) \/ location[s]["adopted"] = l
    BY DEF Inv, Settled, GrantIsAttached
  <2> QED
    BY <1>6, <2>1
<1>8. RejectionIsTold'
  <2> SUFFICES ASSUME NEW s \in rejected \ cut', <<s, "rejected">> \notin told
               PROVE  Telling(s)'
    BY DEF RejectionIsTold, Telling
  <2>1. Telling(s)
    BY DEF Inv, Settled, RejectionIsTold, Telling
  <2> QED
    BY <1>1, <1>6, <2>1 DEF TypeOK, HistoryOK
<1>9. Settled' /\ Own'
  BY <1>7, <1>8, QuietRows, QuietOwn DEF Inv, Settled
<1> QED
  BY <1>2, <1>3, <1>4, <1>5, <1>9, Writes DEF Labels

LEMMA AttachRefusedKeeps ==
  ASSUME Inv, NEW r \in Requests, AttachRefused(r)
  PROVE  Inv'
<1>1. /\ at[r] = "location" /\ End(r) /\ cut' = cut \cup {req[r].store} /\ cuts' = cuts
      /\ UNCHANGED <<tables, outside, approved, rejected, forced>>
  BY DEF AttachRefused
<1>2. cuts' \in 0 .. MaxCuts
  BY <1>1 DEF Inv, TypeOK, HistoryOK
<1> QED
  BY <1>1, <1>2, CutKeeps

LEMMA AbortKeeps ==
  ASSUME Inv, NEW r \in Requests, Abort(r)
  PROVE  Inv'
<1>1. /\ at[r] # "idle" /\ End(r) /\ cuts < MaxCuts /\ cuts' = cuts + 1
      /\ cut' = IF at[r] \in {"account", "location", "notice"}
                THEN cut \cup {req[r].store} ELSE cut
      /\ UNCHANGED <<tables, outside, approved, rejected, forced>>
  BY DEF Abort
<1>2. cuts' \in 0 .. MaxCuts
  BY <1>1, BoundsAssumption DEF Inv, TypeOK, HistoryOK
<1> QED
  BY <1>1, <1>2, CutKeeps

(* An override takes the adopted row away, and only of a store it forced.   *)
LEMMA DetachKeeps ==
  ASSUME Inv, NEW r \in Requests, Detach(r)
  PROVE  Inv'
<1>1. PICK q, s : q = req[r] /\ s = q.store
  OBVIOUS
<1>2. /\ at[r] = "detach" /\ Go(r, "disown")
      /\ location' = [location EXCEPT ![s]["adopted"] = None]
      /\ newest' = [newest EXCEPT ![s] = IF location[s]["setup"] = None
                                         THEN None ELSE "setup"]
      /\ UNCHANGED <<access, account, verified, followUp, told, outside, req, history>>
  BY <1>1 DEF Detach
<1>3. /\ TypeOK /\ q \in Locals /\ s \in Stores
      /\ MoveFits("detach", q) /\ MoveKnows("detach", q)
  BY <1>1, <1>2, KnowsOwn, LocalsFields
<1>4. MovesTo(r, "disown", q) /\ s \in forced
  BY <1>1, <1>2, <1>3, GoMoves DEF MoveKnows
<1>5. /\ location' \in [Stores -> [RowKinds -> Listings \cup {None}]]
      /\ location'[s]["adopted"] = None /\ location'[s]["setup"] = location[s]["setup"]
      /\ \A u \in Stores \ {s} : location'[u] = location[u]
  BY <1>2, <1>3 DEF TypeOK, TablesOK, RowKinds
<1>6. /\ newest' \in [Stores -> RowKinds \cup {None}]
      /\ newest'[s] = IF location[s]["setup"] = None THEN None ELSE "setup"
      /\ \A u \in Stores \ {s} : newest'[u] = newest[u]
  BY <1>2, <1>3 DEF TypeOK, TablesOK, RowKinds
<1> USE DEF outside, history
<1>7. TablesOK' /\ HistoryOK'
  BY <1>2, <1>3, <1>5, <1>6 DEF TypeOK, TablesOK, HistoryOK
<1>8. OnlyGrows
  BY <1>2, <1>3, BoundsAssumption DEF OnlyGrows, MadeFor, TypeOK, TablesOK
<1>9. \A u \in Stores, k \in RowKinds : location'[u][k] \in {None, location[u][k]}
  BY <1>5 DEF RowKinds
<1>10. \A o \in Requests : LookKept(o)
  BY <1>2, <1>3, <1>9, FewerRows
<1>11. Knows("disown", q)' /\ Looked("disown", q)'
  BY <1>2, <1>3, LookedAnyway DEF Knows, MoveFits, MoveKnows, SetupKnows
<1>12. Settled'
  <2>1. \A u \in Stores : (Carrying(u) => Carrying(u)') /\ (Telling(u) => Telling(u)')
    BY <1>2, <1>3, <1>4, CarryingKept, TellingKept
  <2>2. RowsJoin'
    <3>1. ASSUME NEW u \in Stores
          PROVE  /\ Attached(u)' \subseteq account[u]
                 /\ newest'[u] # None => newest'[u] \in Attached(u)'
                 /\ location'[u]["adopted"] # None =>
                      <<u, location'[u]["adopted"]>> \in approved
      <4>1. CASE u = s
        BY <1>5, <1>6, <4>1 DEF Inv, Settled, RowsJoin, Attached, RowKinds
      <4>2. CASE u # s
        BY <1>5, <1>6, <4>2 DEF Inv, Settled, RowsJoin, Attached
      <4> QED
        BY <4>1, <4>2
    <3> QED
      BY <1>2, <3>1 DEF RowsJoin
  <2>3. GrantIsAttached'
    BY <1>2, <1>4, <1>5, <2>1 DEF Inv, Settled, GrantIsAttached
  <2> QED
    BY <1>2, <1>3, <2>1, <2>2, <2>3, QuietTold DEF Inv, Settled
<1>13. Own'
  <2>1. \A u \in Stores : location'[u]["setup"] = location[u]["setup"]
    BY <1>5
  <2>2. MadeOnce'
    BY <1>2 DEF Inv, Own, MadeOnce
  <2>3. RowsAreOwn'
    BY <1>2, <2>1 DEF Inv, Own, RowsAreOwn, MadeFor
  <2> QED
    BY <2>2, <2>3 DEF Own
<1> QED
  BY <1>3, <1>4, <1>7, <1>8, <1>10, <1>11, <1>12, <1>13, NamesAssumption, Writes DEF Labels

(* A look at a store or a listing that gets a row ends in a mark.           *)
LEMMA RowOvertaken ==
  ASSUME TypeOK, NEW r \in Requests, at[r] # "idle", NEW k \in RowKinds,
         NEW s \in Stores, NEW m \in Listings, req[r].store = s, req[r].listing = m,
         location'[s][k] = m,
         \A j \in RowKinds \ {k} : location'[s][j] = location[s][j],
         \A u \in Stores \ {s} : location'[u] = location[u],
         access' = access,
         NEW o \in Requests \ {r}, req'[o] = Overtake(Overtaken(r))[o]
  PROVE  LookKept(o)
<1> SUFFICES ASSUME NEW label \in Labels, NEW q \in Locals, at[o] = label, req'[o] = q,
                    Looked(label, q)
             PROVE  Looked(label, q)'
  BY DEF LookKept
<1>1. Overtaken(r) \in SUBSET {p \in Requests : at[p] \in PastStore}
  BY DEF Overtaken, OnStore, OnListing, PastStore
<1>2. q.store \in Stores
  BY LocalsFields
<1>3. CASE o \in Overtaken(r)
  <2>1. at[o] # "idle" /\ q = Mark(req[o])
    BY <1>1, <1>3, OvertakeMarks DEF PastStore, PastListing, PastReview
  <2>2. q.overtaken = TRUE
    BY <2>1, Running, MarkFields
  <2> QED
    BY <2>2 DEF Looked, AttachLooked, SetupLooked
<1>4. CASE o \notin Overtaken(r)
  <2>1. q = req[o]
    BY <1>1, <1>4, OvertakeMarks
  <2>2. label \in PastStore => q.store # s
    BY <1>4, <2>1 DEF Overtaken, OnStore
  <2>3. label \in PastListing => q.listing # m
    BY <1>4, <2>1 DEF Overtaken, OnListing
  <2>4. q.store # s => Attached(q.store)' = Attached(q.store)
    BY <1>2 DEF Attached
  <2>5. q.listing # m => Holders(q.listing)' \subseteq Holders(q.listing)
    BY DEF Holders
  <2>6. AttachLooked(label, q)'
    BY <2>2, <2>3, <2>4, <2>5 DEF Looked, AttachLooked, PastStore
  <2>7. SetupLooked(label, q)'
    BY <2>2, <2>4 DEF Looked, SetupLooked, PastStore
  <2> QED
    BY <2>6, <2>7 DEF Looked
<1> QED
  BY <1>3, <1>4

LEMMA RowMoves ==
  ASSUME TypeOK, NEW r \in Requests, NEW label, NEW q, at' = [at EXCEPT ![r] = label],
         \/ q = req[r] /\ req' = Overtake(Overtaken(r))
         \/ q = None /\ req' = [Overtake(Overtaken(r)) EXCEPT ![r] = None]
  PROVE  /\ MovesTo(r, label, q)
         /\ \A o \in Requests \ {r} : req'[o] = Overtake(Overtaken(r))[o]
<1>1. Overtaken(r) \in SUBSET {p \in Requests : at[p] \in PastStore} /\ r \notin Overtaken(r)
  BY DEF Overtaken, OnStore, OnListing, PastStore
<1>2. PICK f : f = Overtake(Overtaken(r))
  OBVIOUS
<1>3. DOMAIN f = Requests
  BY <1>2 DEF Overtake
<1>4. f[r] = req[r]
  BY <1>1, <1>2, OvertakeMarks
<1>5. /\ req' = [o \in Requests |-> req'[o]] /\ req'[r] = q
      /\ \A o \in Requests \ {r} : req'[o] = f[o]
  <2>1. CASE req' = f /\ q = req[r]
    BY <1>2, <1>4, <2>1 DEF Overtake
  <2>2. CASE req' = [f EXCEPT ![r] = None] /\ q = None
    BY <1>3, <2>2
  <2> QED
    BY <1>2, <2>1, <2>2
<1>6. /\ at' = [o \in Requests |-> at'[o]] /\ at'[r] = label
      /\ \A o \in Requests \ {r} : at'[o] = at[o]
  BY DEF TypeOK, RequestsOK
<1>7. \A o \in Requests \ {r} : Stays(o)
  BY <1>1, <1>2, <1>5, <1>6, OvertakeMarks DEF Stays
<1> QED
  BY <1>2, <1>5, <1>6, <1>7 DEF MovesTo, AreFunctions

LEMMA SetupLocationKeeps ==
  ASSUME Inv, NEW r \in Requests, SetupLocation(r)
  PROVE  Inv'
<1>1. PICK q, s, m : q = req[r] /\ s = q.store /\ m = q.listing
  OBVIOUS
<1>2. /\ at[r] = "setupLocation" /\ Go(r, "followUp")
      /\ location' = [location EXCEPT ![s]["setup"] = m]
      /\ newest' = [newest EXCEPT ![s] = "setup"]
      /\ req' = Overtake(Overtaken(r))
      /\ UNCHANGED <<access, account, verified, followUp, told, outside, history>>
  BY <1>1 DEF SetupLocation
<1>3. TypeOK /\ q \in Locals /\ s \in Stores /\ SetupKnows("setupLocation", q)
  BY <1>1, <1>2, KnowsOwn, LocalsFields
<1>4. /\ m \in Listings /\ m # None /\ m \in Foreign \cup New /\ "setup" \in account[s]
      /\ m \in New => MadeFor(s, m)
  BY <1>1, <1>3, NamesAssumption DEF SetupKnows, Listings
<1>5. /\ MovesTo(r, "followUp", q)
      /\ \A o \in Requests \ {r} : req'[o] = Overtake(Overtaken(r))[o]
  BY <1>1, <1>2, <1>3, RowMoves DEF Go
<1>6. /\ location' \in [Stores -> [RowKinds -> Listings \cup {None}]]
      /\ location'[s]["setup"] = m /\ location'[s]["adopted"] = location[s]["adopted"]
      /\ \A u \in Stores \ {s} : location'[u] = location[u]
  BY <1>2, <1>3, <1>4 DEF TypeOK, TablesOK, RowKinds
<1>7. /\ newest' \in [Stores -> RowKinds \cup {None}] /\ newest'[s] = "setup"
      /\ \A u \in Stores \ {s} : newest'[u] = newest[u]
  BY <1>2, <1>3 DEF TypeOK, TablesOK, RowKinds
<1> USE DEF outside, history
<1>8. TablesOK' /\ HistoryOK'
  BY <1>2, <1>3, <1>6, <1>7 DEF TypeOK, TablesOK, HistoryOK
<1>9. OnlyGrows
  BY <1>2, <1>3, BoundsAssumption DEF OnlyGrows, MadeFor, TypeOK, TablesOK
<1>10. \A o \in Requests \ {r} : LookKept(o)
  <2>1. "setup" \in RowKinds /\ RowKinds \ {"setup"} = {"adopted"}
    BY DEF RowKinds
  <2> QED
    BY <1>1, <1>2, <1>3, <1>4, <1>5, <1>6, <2>1, RowOvertaken
<1>11. Knows("followUp", q)' /\ Looked("followUp", q)'
  <2>1. SetupKnows("followUp", q)'
    BY <1>2, <1>3 DEF SetupKnows, MadeFor
  <2> QED
    BY <2>1, LookedAnyway DEF Knows, MoveFits, MoveKnows
<1>12. Settled'
  <2>1. \A u \in Stores : (Carrying(u) => Carrying(u)') /\ (Telling(u) => Telling(u)')
    BY <1>2, <1>3, <1>5, CarryingKept, TellingKept
  <2>2. RowsJoin'
    <3>1. ASSUME NEW u \in Stores
          PROVE  /\ Attached(u)' \subseteq account[u]
                 /\ newest'[u] # None => newest'[u] \in Attached(u)'
                 /\ location'[u]["adopted"] # None =>
                      <<u, location'[u]["adopted"]>> \in approved
      <4>1. CASE u = s
        BY <1>4, <1>6, <1>7, <4>1 DEF Inv, Settled, RowsJoin, Attached, RowKinds
      <4>2. CASE u # s
        BY <1>6, <1>7, <4>2 DEF Inv, Settled, RowsJoin, Attached
      <4> QED
        BY <4>1, <4>2
    <3> QED
      BY <1>2, <3>1 DEF RowsJoin
  <2>3. \A u \in Stores : location'[u]["adopted"] = location[u]["adopted"]
    BY <1>6
  <2>4. GrantIsAttached'
    BY <1>2, <2>1, <2>3 DEF Inv, Settled, GrantIsAttached
  <2> QED
    BY <1>2, <1>3, <2>1, <2>2, <2>4, QuietTold DEF Inv, Settled
<1>13. Own'
  <2>1. MadeOnce'
    BY <1>2 DEF Inv, Own, MadeOnce
  <2>2. \A u \in Stores : location'[u]["setup"] = location[u]["setup"]
                          \/ (u = s /\ location'[u]["setup"] = m)
    BY <1>6
  <2>3. RowsAreOwn'
    BY <1>2, <1>4, <2>2 DEF Inv, Own, RowsAreOwn, MadeFor
  <2> QED
    BY <2>1, <2>3 DEF Own
<1> QED
  BY <1>3, <1>5, <1>8, <1>9, <1>10, <1>11, <1>12, <1>13, NamesAssumption, Writes DEF Labels

LEMMA AttachLocationKeeps ==
  ASSUME Inv, NEW r \in Requests, AttachLocation(r)
  PROVE  Inv'
<1>1. PICK p, s, m : p = req[r] /\ s = p.store /\ m = p.listing
  OBVIOUS
<1>2. /\ at[r] = "location" /\ "adopted" \in account[s]
      /\ location' = [location EXCEPT ![s]["adopted"] = m]
      /\ newest' = [newest EXCEPT ![s] = "adopted"]
      /\ UNCHANGED <<access, account, verified, followUp, told, outside, history>>
  BY <1>1 DEF AttachLocation
<1> DEFINE Leads(label, q) ==
             /\ label \in {"notice", "idle"}
             /\ q = None <=> label = "idle"
             /\ at' = [at EXCEPT ![r] = label]
             /\ \/ q = req[r] /\ req' = Overtake(Overtaken(r))
                \/ q = None /\ req' = [Overtake(Overtaken(r)) EXCEPT ![r] = None]
<1>0. \E label, q : Leads(label, q)
  <2>1. CASE p.kind = "ATTACH_LOCATION"
    <3>1. /\ at' = [at EXCEPT ![r] = "notice"] /\ req' = Overtake(Overtaken(r))
      BY <1>1, <2>1 DEF AttachLocation, Go
    <3>2. req[r] # None
      BY <1>2 DEF Inv, TypeOK, RequestsOK
    <3>3. Leads("notice", req[r])
      BY <3>1, <3>2
    <3> HIDE DEF Leads
    <3> QED
      BY <3>3, Zenon
  <2>2. CASE p.kind # "ATTACH_LOCATION"
    <3>1. /\ at' = [at EXCEPT ![r] = "idle"]
          /\ req' = [Overtake(Overtaken(r)) EXCEPT ![r] = None]
      BY <1>1, <2>2 DEF AttachLocation, Go
    <3>2. Leads("idle", None)
      BY <3>1
    <3> HIDE DEF Leads
    <3> QED
      BY <3>2, Zenon
  <2> QED
    BY <2>1, <2>2
<1>3. PICK label, q : Leads(label, q)
  BY <1>0
<1>4. /\ TypeOK /\ p \in Locals /\ s \in Stores /\ <<s, m>> \in approved
  BY <1>1, <1>2, KnowsOwn, LocalsFields DEF MoveKnows
<1>5. m \in Listings /\ m # None
  BY <1>4, NamesAssumption DEF TypeOK, HistoryOK
<1>6. /\ MovesTo(r, label, q) /\ q \in Locals \cup {None}
      /\ \A o \in Requests \ {r} : req'[o] = Overtake(Overtaken(r))[o]
  BY <1>1, <1>3, <1>4, RowMoves
<1>7. /\ location' \in [Stores -> [RowKinds -> Listings \cup {None}]]
      /\ location'[s]["adopted"] = m /\ location'[s]["setup"] = location[s]["setup"]
      /\ \A u \in Stores \ {s} : location'[u] = location[u]
  BY <1>2, <1>4, <1>5 DEF TypeOK, TablesOK, RowKinds
<1>8. /\ newest' \in [Stores -> RowKinds \cup {None}] /\ newest'[s] = "adopted"
      /\ \A u \in Stores \ {s} : newest'[u] = newest[u]
  BY <1>2, <1>4 DEF TypeOK, TablesOK, RowKinds
<1> USE DEF outside, history
<1>9. TablesOK' /\ HistoryOK'
  BY <1>2, <1>4, <1>7, <1>8 DEF TypeOK, TablesOK, HistoryOK
<1>10. OnlyGrows
  BY <1>2, <1>4, BoundsAssumption DEF OnlyGrows, MadeFor, TypeOK, TablesOK
<1>11. \A o \in Requests \ {r} : LookKept(o)
  <2>1. "adopted" \in RowKinds /\ RowKinds \ {"adopted"} = {"setup"}
    BY DEF RowKinds
  <2> QED
    BY <1>1, <1>2, <1>4, <1>5, <1>6, <1>7, <2>1, RowOvertaken
<1>12. label # "idle" => Knows(label, q)' /\ Looked(label, q)'
  BY <1>3, LookedAnyway DEF Knows, MoveFits, MoveKnows, SetupKnows
<1>13. RowsJoin'
  <2>1. ASSUME NEW u \in Stores
        PROVE  /\ Attached(u)' \subseteq account[u]
               /\ newest'[u] # None => newest'[u] \in Attached(u)'
               /\ location'[u]["adopted"] # None =>
                    <<u, location'[u]["adopted"]>> \in approved
    <3>1. CASE u = s
      BY <1>2, <1>4, <1>5, <1>7, <1>8, <3>1 DEF Inv, Settled, RowsJoin, Attached, RowKinds
    <3>2. CASE u # s
      BY <1>7, <1>8, <3>2 DEF Inv, Settled, RowsJoin, Attached
    <3> QED
      BY <3>1, <3>2
  <2> QED
    BY <1>2, <2>1 DEF RowsJoin
<1>14. GrantIsAttached'
  <2> SUFFICES ASSUME NEW u \in Stores \ forced, NEW l \in Listings, <<u, l>> \in approved
               PROVE  /\ access[u].ref = l /\ access[u].state \in {"granted", "revoked"}
                      /\ u \in cut \/ Carrying(u)' \/ location'[u]["adopted"] = l
    BY <1>2 DEF GrantIsAttached
  <2>1. /\ access[u].ref = l /\ access[u].state \in {"granted", "revoked"}
        /\ u \in cut \/ Carrying(u) \/ location[u]["adopted"] = l
    BY DEF Inv, Settled, GrantIsAttached
  <2>2. CASE u = s
    <3>1. access[u].ref = m
      BY <1>4, <1>5, <2>2 DEF Inv, Settled, GrantIsAttached
    <3> QED
      BY <1>7, <2>1, <2>2, <3>1
  <2>3. CASE u # s
    <3>1. Carrying(u) => Carrying(u)'
      <4> SUFFICES ASSUME Carrying(u) PROVE Carrying(u)'
        OBVIOUS
      <4>1. PICK o \in Requests : at[o] \in {"account", "location"} /\ req[o].store = u
        BY DEF Carrying
      <4>2. o # r
        BY <1>1, <2>3, <4>1
      <4>3. at'[o] \in {"account", "location"} /\ req'[o].store = u
        BY <1>4, <1>6, <4>1, <4>2, StaysFields DEF MovesTo
      <4> QED
        BY <4>3 DEF Carrying
    <3> QED
      BY <1>7, <2>1, <2>3, <3>1
  <2> QED
    BY <2>2, <2>3
<1>15. Settled'
  <2>1. \A u \in Stores : Telling(u) => Telling(u)'
    BY <1>2, <1>4, <1>6, TellingKept
  <2> QED
    BY <1>2, <1>4, <1>13, <1>14, <2>1, QuietTold DEF Inv, Settled
<1>16. Own'
  <2>1. MadeOnce'
    BY <1>2 DEF Inv, Own, MadeOnce
  <2>2. \A u \in Stores : location'[u]["setup"] = location[u]["setup"]
    BY <1>7
  <2>3. RowsAreOwn'
    BY <1>2, <2>2 DEF Inv, Own, RowsAreOwn, MadeFor
  <2> QED
    BY <2>1, <2>3 DEF Own
<1> QED
  BY <1>3, <1>6, <1>9, <1>10, <1>11, <1>12, <1>15, <1>16, Writes DEF Labels

-----------------------------------------------------------------------------
(* The guarded UPDATE of an operator's request. *)

(* What an UPDATE that hits writes: the state is still the one the request  *)
(* read, so the move it computed is legal now.                              *)
LEMMA UpdateHit ==
  ASSUME Inv, NEW r \in Requests, Update(r), UpdateHits(r)
  PROVE  LET q == req[r]  s == q.store IN
         /\ q \in Locals /\ s \in Stores /\ q.kind \in AccessActions
         /\ q.seen \in AccessStates /\ q.goal \in AccessStates
         /\ q.goal \in Transition(access[s].state, q.kind) /\ access[s].state = q.seen
         /\ access' \in [Stores -> Rows \cup {NoRow}]
         /\ access'[s].state = q.goal
         /\ access'[s].ref = IF q.ref # None THEN q.ref ELSE access[s].ref
         /\ \A u \in Stores \ {s} : access'[u] = access[u]
<1>1. PICK q, s : q = req[r] /\ s = q.store
  OBVIOUS
<1>2. at[r] = "update"
  BY DEF Update
<1>3. TypeOK /\ q \in Locals /\ MoveFits("update", q)
  BY <1>1, <1>2, KnowsOwn
<1>4. s \in Stores /\ q.ref \in Listings \cup {None}
  BY <1>1, <1>3, LocalsFields
<1>5. q.kind \in AccessActions /\ q.seen \in AccessStates
      /\ q.goal \in Transition(q.seen, q.kind)
  BY <1>3 DEF MoveFits
<1>6. q.goal \in AccessStates
  <2>1. CASE q.kind = "OVERRIDE"
    BY <1>5, <2>1 DEF Transition
  <2>2. CASE q.kind # "OVERRIDE"
    BY <1>5, <2>2, TransitionFrom
  <2> QED
    BY <2>1, <2>2
<1>7. access[s].state = q.seen
  BY <1>1 DEF UpdateHits
<1>8. access[s] \in Rows
  BY <1>3, <1>4, <1>5, <1>7, NamesAssumption DEF TypeOK, TablesOK, NoRow
<1>9. PICK row : row = [state |-> q.goal,
                        ref |-> IF q.ref # None THEN q.ref ELSE access[s].ref]
  OBVIOUS
<1>10. row \in Rows
  BY <1>4, <1>6, <1>8, <1>9 DEF Rows
<1>11. access' = [access EXCEPT ![s] = row]
  BY <1>1, <1>9 DEF Update
<1>12. /\ access' \in [Stores -> Rows \cup {NoRow}] /\ access'[s] = row
       /\ \A u \in Stores \ {s} : access'[u] = access[u]
  BY <1>3, <1>4, <1>10, <1>11 DEF TypeOK, TablesOK
<1>13. access'[s].state = q.goal
       /\ access'[s].ref = IF q.ref # None THEN q.ref ELSE access[s].ref
  BY <1>9, <1>12
<1> QED
  BY <1>1, <1>3, <1>4, <1>5, <1>6, <1>7, <1>12, <1>13

(* Where the request goes, and which others it overtakes.                   *)
LEMMA UpdateMoves ==
  ASSUME Inv, NEW r \in Requests, Update(r), UpdateHits(r)
  PROVE  LET q == req[r]
             label == AfterUpdate(q.kind) IN
         /\ MovesTo(r, label, IF label = "idle" THEN None ELSE q)
         /\ \A o \in Requests : LookKept(o) \/ o = r
<1>1. PICK q, s, label : q = req[r] /\ s = q.store /\ label = AfterUpdate(q.kind)
  OBVIOUS
<1>2. /\ at[r] = "update" /\ location' = location
      /\ IF label = "idle" THEN End(r)
         ELSE /\ Go(r, label)
              /\ req' = IF q.goal = "adoption_review"
                        THEN Overtake(OnReview(s)) ELSE req
  BY <1>1 DEF Update
<1>3. /\ TypeOK /\ s \in Stores /\ q.kind \in AccessActions
      /\ q.goal \in Transition(q.seen, q.kind) /\ access'[s].state = q.goal
      /\ \A u \in Stores \ {s} : access'[u] = access[u]
  BY <1>1, UpdateHit DEF Inv
<1>4. CASE q.goal # "adoption_review"
  <2>1. MovesTo(r, label, IF label = "idle" THEN None ELSE q)
    BY <1>1, <1>2, <1>3, <1>4, EndMoves, GoMoves
  <2>2. \A o \in Requests : LookKept(o)
    BY <1>2, <1>3, <1>4, FewerRows
  <2> QED
    BY <1>1, <2>1, <2>2
<1>5. CASE q.goal = "adoption_review"
  <2>1. q.kind = "OVERRIDE"
    BY <1>3, <1>5, TransitionFrom
  <2>2. label = "detach"
    BY <1>1, <2>1 DEF AfterUpdate, Adoptions
  <2>3. Go(r, "detach") /\ req' = Overtake(OnReview(s))
    BY <1>2, <1>5, <2>2
  <2>4. r \notin OnReview(s)
    BY <1>2 DEF OnReview, PastReview
  <2>5. MovesTo(r, "detach", q)
    <3>1. at' = [o \in Requests |-> at'[o]] /\ at'[r] = "detach"
          /\ \A o \in Requests \ {r} : at'[o] = at[o]
      BY <1>3, <2>3 DEF Go, TypeOK, RequestsOK
    <3>2. req' = [o \in Requests |-> req'[o]]
      BY <2>3 DEF Overtake
    <3>3. req'[r] = q
      BY <1>1, <1>3, <2>3, <2>4, OnReviewIsPast, OvertakeMarks
    <3>4. ASSUME NEW o \in Requests \ {r} PROVE Stays(o)
      BY <1>3, <2>3, <3>1, OnReviewIsPast, OvertakeMarks DEF Stays
    <3> QED
      BY <3>1, <3>2, <3>3, <3>4, Zenon DEF MovesTo, AreFunctions
  <2>6. \A o \in Requests : LookKept(o)
    BY <1>2, <1>3, <2>3, ReviewOvertaken
  <2> QED
    BY <1>1, <2>2, <2>5, <2>6
<1> QED
  BY <1>4, <1>5

LEMMA UpdateHitKeeps ==
  ASSUME Inv, NEW r \in Requests, Update(r), UpdateHits(r)
  PROVE  Inv'
<1>1. PICK q, s, label, p :
        /\ q = req[r] /\ s = q.store /\ label = AfterUpdate(q.kind)
        /\ p = IF label = "idle" THEN None ELSE q
  OBVIOUS
<1>2. /\ at[r] = "update"
      /\ approved' = IF q.kind \in Adoptions
                     THEN approved \cup {<<s, q.listing>>} ELSE approved
      /\ rejected' = IF q.kind = "REJECT_ADOPTION" THEN rejected \cup {s} ELSE rejected
      /\ forced' = IF q.kind = "OVERRIDE" THEN forced \cup {s} ELSE forced
      /\ UNCHANGED <<location, newest, account, verified, followUp, told, outside,
                     cuts, cut>>
  BY <1>1 DEF Update
<1>3. /\ q \in Locals /\ s \in Stores /\ q.kind \in AccessActions
      /\ q.goal \in Transition(access[s].state, q.kind) /\ access[s].state = q.seen
      /\ access' \in [Stores -> Rows \cup {NoRow}] /\ access'[s].state = q.goal
      /\ access'[s].ref = IF q.ref # None THEN q.ref ELSE access[s].ref
      /\ \A u \in Stores \ {s} : access'[u] = access[u]
  BY <1>1, UpdateHit
<1>4. TypeOK /\ MoveFits("update", q) /\ MoveKnows("update", q) /\ AttachLooked("update", q)
  BY <1>1, <1>2, KnowsOwn
<1>5. /\ q.kind \in Adoptions => q.listing \in Listings /\ q.ref \in {None, q.listing}
      /\ q.kind = "ATTACH_LOCATION" => q.ref = q.listing
      /\ q.kind \notin Adoptions => q.ref = None
  BY <1>4 DEF MoveFits
<1>6. MovesTo(r, label, p) /\ \A o \in Requests \ {r} : LookKept(o)
  BY <1>1, UpdateMoves
<1>7. /\ label \in {"account", "detach", "notice", "idle"}
      /\ label = "account" <=> q.kind \in Adoptions
      /\ label = "detach" <=> q.kind = "OVERRIDE"
      /\ label = "notice" <=> q.kind = "REJECT_ADOPTION"
  BY <1>1 DEF AfterUpdate, Adoptions
<1>8. (p = None <=> label = "idle") /\ p \in Locals \cup {None}
      /\ (label # "idle" => p = q)
  BY <1>1, <1>3, NamesAssumption
<1> USE DEF outside
<1>9. TablesOK' /\ HistoryOK'
  BY <1>2, <1>3, <1>4, <1>5 DEF TypeOK, TablesOK, HistoryOK
<1>10. OnlyGrows
  <2>1. ASSUME NEW u \in Stores
        PROVE  \/ access'[u].ref = access[u].ref \/ access[u].ref = None
               \/ u \in forced' \/ \E l \in Listings : <<u, l>> \in approved'
    <3>1. CASE u # s
      BY <1>3, <3>1
    <3>2. CASE u = s /\ q.kind \in Adoptions
      BY <1>2, <1>5, <3>2
    <3>3. CASE u = s /\ q.kind \notin Adoptions
      BY <1>3, <1>5, <3>3
    <3> QED
      BY <3>1, <3>2, <3>3
  <2>2. approved \subseteq approved' /\ forced \subseteq forced'
    BY <1>2
  <2>3. \A u \in Stores : profile[u] <= profile'[u]
    BY <1>2, <1>4, BoundsAssumption DEF TypeOK, TablesOK
  <2> QED
    BY <1>2, <2>1, <2>2, <2>3 DEF OnlyGrows, MadeFor
<1>11. label # "idle" => Knows(label, p)' /\ Looked(label, p)'
  <2> SUFFICES ASSUME label # "idle" PROVE Knows(label, q)' /\ Looked(label, q)'
    BY <1>8
  <2>1. MoveFits(label, q)'
    BY <1>7 DEF MoveFits
  <2>2. label = "account" => <<q.store, q.listing>> \in approved'
    BY <1>1, <1>2, <1>7
  <2>3. label = "detach" => q.store \in forced'
    BY <1>1, <1>2, <1>7
  <2>4. MoveKnows(label, q)'
    BY <1>7, <2>2, <2>3 DEF MoveKnows
  <2>5. Knows(label, q)'
    BY <1>7, <2>1, <2>4 DEF Knows, SetupKnows
  <2>6. label = "account" => Looked(label, q)'
    BY <1>2, <1>4 DEF Looked, AttachLooked, SetupLooked, PastListing, PastReview,
                      Attached, Holders
  <2> QED
    BY <1>7, <2>5, <2>6, LookedAnyway
<1>12. \A u \in Stores : (Carrying(u) => Carrying(u)') /\ (Telling(u) => Telling(u)')
  BY <1>2, <1>4, <1>6, CarryingKept, TellingKept
<1>13. RowsJoin'
  <2>1. approved \subseteq approved'
    BY <1>2
  <2> QED
    BY <1>2, <2>1 DEF Inv, Settled, RowsJoin, Attached
<1>14. GrantIsAttached'
  <2> SUFFICES ASSUME NEW u \in Stores \ forced', NEW l \in Listings, <<u, l>> \in approved'
               PROVE  /\ access'[u].ref = l /\ access'[u].state \in {"granted", "revoked"}
                      /\ u \in cut \/ Carrying(u)' \/ location[u]["adopted"] = l
    BY <1>2 DEF GrantIsAttached
  <2>1. u \notin forced
    BY <1>2
  <2>2. CASE u # s
    <3>1. <<u, l>> \in approved
      BY <1>2, <2>2
    <3>2. /\ access[u].ref = l /\ access[u].state \in {"granted", "revoked"}
          /\ u \in cut \/ Carrying(u) \/ location[u]["adopted"] = l
      BY <2>1, <3>1 DEF Inv, Settled, GrantIsAttached
    <3> QED
      BY <1>3, <1>12, <2>2, <3>2
  <2>3. ASSUME u = s, q.kind \notin Adoptions
        PROVE  /\ access'[u].ref = l /\ access'[u].state \in {"granted", "revoked"}
               /\ u \in cut \/ Carrying(u)' \/ location[u]["adopted"] = l
    <3>1. <<u, l>> \in approved
      BY <1>2, <2>3
    <3>2. /\ access[u].ref = l /\ access[u].state \in {"granted", "revoked"}
          /\ u \in cut \/ Carrying(u) \/ location[u]["adopted"] = l
      BY <2>1, <3>1 DEF Inv, Settled, GrantIsAttached
    <3>3. q.kind # "OVERRIDE"
      BY <1>2, <2>3
    <3>4. q.seen \in NaturalMoves[q.kind].from /\ q.goal = NaturalMoves[q.kind].to
      BY <1>3, <3>3, TransitionFrom
    <3>5. q.goal = "revoked"
      BY <1>3, <2>3, <3>2, <3>3, <3>4 DEF NaturalMoves, AccessActions, ConfirmFrom, AttachFrom
    <3> QED
      BY <1>3, <1>5, <1>12, <2>3, <3>2, <3>5
  <2>4. ASSUME u = s, q.kind \in Adoptions
        PROVE  /\ access'[u].ref = l /\ access'[u].state \in {"granted", "revoked"}
               /\ u \in cut \/ Carrying(u)' \/ location[u]["adopted"] = l
    <3>1. q.kind \in AccessActions \ {"OVERRIDE"}
      BY <2>4 DEF Adoptions, AccessActions, NaturalMoves
    <3>2. q.seen \in NaturalMoves[q.kind].from /\ q.goal = NaturalMoves[q.kind].to
      BY <1>3, <3>1, TransitionFrom
    <3>3. q.seen \notin {"granted", "revoked"} /\ q.goal = "granted"
      BY <2>4, <3>2 DEF NaturalMoves, Adoptions, ConfirmFrom, AttachFrom
    <3>4. \A m \in Listings : <<s, m>> \notin approved
      BY <1>3, <2>1, <2>4, <3>3 DEF Inv, Settled, GrantIsAttached
    <3>5. l = q.listing
      BY <1>2, <2>4, <3>4
    <3>6. access'[s].ref = q.listing
      <4>1. CASE q.ref # None
        BY <1>3, <1>5, <2>4, <4>1
      <4>2. CASE q.ref = None
        <5>1. q.kind = "CONFIRM_ADOPTION"
          BY <1>5, <2>4, <4>2, NamesAssumption DEF Adoptions
        <5>2. access[s].ref = q.listing
          BY <1>1, <1>4, <2>1, <2>4, <3>4, <4>2, <5>1 DEF MoveKnows
        <5> QED
          BY <1>3, <4>2, <5>2
      <4> QED
        BY <4>1, <4>2
    <3>7. Carrying(s)'
      <4>1. at'[r] = "account" /\ req'[r].store = s
        BY <1>1, <1>6, <1>7, <1>8, <2>4 DEF MovesTo
      <4> QED
        BY <4>1 DEF Carrying
    <3> QED
      BY <1>3, <2>4, <3>3, <3>5, <3>6, <3>7
  <2> QED
    BY <2>2, <2>3, <2>4
<1>15. RejectionIsTold'
  <2> SUFFICES ASSUME NEW u \in rejected' \ cut, <<u, "rejected">> \notin told
               PROVE  Telling(u)'
    BY <1>2 DEF RejectionIsTold, Telling
  <2>1. CASE u \in rejected
    <3>1. Telling(u)
      BY <2>1 DEF Inv, Settled, RejectionIsTold, Telling
    <3> QED
      BY <1>4, <1>12, <2>1, <3>1 DEF TypeOK, HistoryOK
  <2>2. CASE u \notin rejected
    <3>1. u = s /\ q.kind = "REJECT_ADOPTION"
      BY <1>2, <2>2
    <3>2. at'[r] = "notice" /\ req'[r].store = u /\ req'[r].kind = "REJECT_ADOPTION"
      BY <1>1, <1>6, <1>7, <1>8, <3>1 DEF MovesTo
    <3> QED
      BY <3>2 DEF Telling
  <2> QED
    BY <2>1, <2>2
<1>16. Own'
  BY <1>2, QuietOwn DEF Inv
<1>17. label \in Labels
  BY <1>7 DEF Labels
<1>18. Settled'
  BY <1>13, <1>14, <1>15 DEF Settled
<1> QED
  BY <1>6, <1>8, <1>9, <1>10, <1>11, <1>16, <1>17, <1>18, Writes

LEMMA UpdateKeeps ==
  ASSUME Inv, NEW r \in Requests, Update(r)
  PROVE  Inv'
<1>1. CASE UpdateHits(r)
  BY <1>1, UpdateHitKeeps
<1>2. CASE ~UpdateHits(r)
  <2>1. End(r) /\ at[r] = "update" /\ UNCHANGED <<tables, outside, history>>
    BY <1>2 DEF Update, tables, history
  <2> QED
    BY <2>1, QuietEnd DEF Reads
<1> QED
  BY <1>1, <1>2

-----------------------------------------------------------------------------
(* The theorems. *)

LEMMA InitInv == Init => Inv
<1> SUFFICES ASSUME Init PROVE Inv
  OBVIOUS
<1> USE DEF Init
<1>1. TypeOK
  <2>1. 0 \in 0 .. MaxEdits /\ 0 \in 0 .. MaxCuts
    BY BoundsAssumption
  <2>2. TablesOK
    BY <2>1 DEF TablesOK, RowKinds
  <2>3. RequestsOK
    BY DEF RequestsOK, Labels
  <2>4. HistoryOK
    BY <2>1 DEF HistoryOK
  <2> QED
    BY <2>2, <2>3, <2>4 DEF TypeOK
<1>2. Known /\ AllLooked
  BY DEF Known, AllLooked
<1>3. Settled
  <2>1. RowsJoin
    BY DEF RowsJoin, Attached, RowKinds
  <2> QED
    BY <2>1 DEF Settled, GrantIsAttached, RejectionIsTold
<1>4. Own
  <2>1. RowsAreOwn
    BY NamesAssumption DEF RowsAreOwn, RowKinds, Listings
  <2> QED
    BY <2>1 DEF Own, MadeOnce
<1> QED
  BY <1>1, <1>2, <1>3, <1>4 DEF Inv

LEMMA RequestKeeps ==
  ASSUME Inv, NEW r \in Requests, Step(r)
  PROVE  Inv'
<1>1. CASE Adopt(r)
  BY <1>1, ReadEnsuredKeeps, CheckVacantKeeps, CheckUnsharedKeeps, UpdateKeeps,
     AttachAccountKeeps, AttachLocationKeeps, AttachRefusedKeeps, NoticeKeeps,
     DetachKeeps, DisownKeeps DEF Adopt
<1>2. CASE Setup(r)
  BY <1>2, CheckReviewKeeps, SearchKeeps, RequestRightsKeeps, CreateKeeps,
     SetupAccountKeeps, SetupLocationKeeps, ScheduleFollowUpKeeps, VerifyKeeps,
     RecordKeeps, TrackKeeps DEF Setup
<1>3. CASE Look(r) \/ Refresh(r) \/ ReadParent(r) \/ CreateLocalPost(r)
  BY <1>3, LookKeeps, RefreshKeeps, ReadParentKeeps, CreateLocalPostKeeps
<1> QED
  BY <1>1, <1>2, <1>3 DEF Step

LEMMA BeginKeeps ==
  ASSUME Inv, NEW r \in Requests, NEW s \in Stores, Begin(r, s)
  PROVE  Inv'
BY StartMoveKeeps, StartAttachKeeps, StartSetupKeeps, StartRefreshKeeps,
   StartPublishKeeps DEF Begin

LEMMA NextKeeps == Inv /\ [Next]_vars => Inv'
<1> SUFFICES ASSUME Inv, [Next]_vars PROVE Inv'
  OBVIOUS
<1>1. ASSUME NEW s \in Stores, Claim(s) \/ EditProfile(s) PROVE Inv'
  BY <1>1, ClaimKeeps, EditProfileKeeps
<1>2. ASSUME NEW r \in Requests, NEW s \in Stores, Begin(r, s) PROVE Inv'
  BY <1>2, BeginKeeps
<1>3. ASSUME NEW r \in Requests, Step(r) \/ Abort(r) PROVE Inv'
  BY <1>3, RequestKeeps, AbortKeeps
<1>4. ASSUME UNCHANGED vars PROVE Inv'
  <2> USE <1>4 DEF vars, tables, outside, history, Inv
  <2>1. TypeOK'
    BY DEF TypeOK, TablesOK, RequestsOK, HistoryOK
  <2>2. Known'
    <3> SUFFICES ASSUME NEW r \in Requests, at[r] # "idle" PROVE Knows(at[r], req[r])'
      BY DEF Known
    <3>1. Knows(at[r], req[r])
      BY DEF Known
    <3>2. MoveFits(at[r], req[r])'
      BY <3>1 DEF Knows, MoveFits
    <3>3. MoveKnows(at[r], req[r])'
      BY <3>1 DEF Knows, MoveKnows
    <3>4. SetupKnows(at[r], req[r])'
      BY <3>1 DEF Knows, SetupKnows, MadeFor
    <3> QED
      BY <3>1, <3>2, <3>3, <3>4 DEF Knows
  <2>3. AllLooked'
    BY DEF AllLooked, Looked, AttachLooked, SetupLooked, Attached, Holders
  <2>4. Settled'
    BY DEF Settled, RowsJoin, Attached, GrantIsAttached, RejectionIsTold, Carrying
  <2>5. Own'
    BY QuietOwn
  <2> QED
    BY <2>1, <2>2, <2>3, <2>4, <2>5
<1> QED
  BY <1>1, <1>2, <1>3, <1>4 DEF Next

LEMMA InvAlways == Spec => []Inv
BY InitInv, NextKeeps, PTL DEF Spec

(* Every table, request and history variable keeps its type.                *)
THEOREM TypeCorrect == Spec => []TypeOK
<1>1. Inv => TypeOK
  BY DEF Inv
<1> QED
  BY <1>1, InvAlways, PTL

(* Where the panel calls a store eligible, its adopted row is the only row  *)
(* the publishing path can find.                                            *)
LEMMA EligibleFromRows ==
  ASSUME TypeOK, RowsJoin
  PROVE  EligibleHasTarget
<1> SUFFICES ASSUME NEW s \in Stores, Eligible(s)
             PROVE  Parents(s) = {location[s][newest[s]]}
  BY DEF EligibleHasTarget
<1>1. newest[s] \in RowKinds /\ Status(s, newest[s]) = "VERIFIED"
  BY DEF Eligible, TypeOK, TablesOK
<1>2. newest[s] = "adopted"
  BY <1>1, VerifiedIsAdopted
<1>3. "adopted" \in Attached(s) /\ "adopted" \in account[s]
  BY <1>1, <1>2, NamesAssumption DEF RowsJoin
<1>4. \A k \in Attached(s) : Status(s, k) = "VERIFIED" <=> k = "adopted"
  BY <1>1, <1>2, VerifiedIsAdopted DEF Attached
<1> QED
  BY <1>2, <1>3, <1>4 DEF Parents

(* A listing is attached only where it was looked for, a confirmed listing  *)
(* stays the store's and gets attached, and an eligible store has the one   *)
(* target the panel shows: for any number of stores, listings and requests. *)
THEOREM AdoptionSettles == Spec => []AdoptionIsSettled
<1>1. Inv => AdoptionIsSettled
  <2> SUFFICES ASSUME Inv PROVE AdoptionIsSettled
    OBVIOUS
  <2>1. MovesAreKnown
    BY DEF Inv, Known, Knows, MovesAreKnown
  <2>2. NoBlindAttach
    BY DEF Inv, AllLooked, Looked, NoBlindAttach
  <2>3. EligibleHasTarget
    BY EligibleFromRows DEF Inv, Settled
  <2> QED
    BY <2>1, <2>2, <2>3 DEF Inv, Settled, AdoptionIsSettled
<1> QED
  BY <1>1, InvAlways, PTL

(* With one profile version a store has one request id, and Google one      *)
(* listing for it: the row and the verdict cannot be about different ones.  *)
LEMMA VerdictFromOwn ==
  ASSUME TypeOK, Own
  PROVE  VerdictIsAboutListing
<1> SUFFICES ASSUME NEW s \in Stores, verified[s] # None, profile[s] = 0
             PROVE  verified[s].of = verified[s].listing
  BY DEF VerdictIsAboutListing
<1>1. verified[s].of \in New /\ verified[s].listing \in New
  BY DEF TypeOK, TablesOK, Verifications
<1>2. made[verified[s].of] = <<s, 0>> /\ made[verified[s].listing] = <<s, 0>>
  <2>1. \A e \in 0 .. profile[s] : e = 0
    OBVIOUS
  <2> QED
    BY <2>1 DEF Own, RowsAreOwn, MadeFor
<1>3. <<s, 0>> # None
  BY BoundsAssumption, NamesAssumption
<1> QED
  BY <1>1, <1>2, <1>3 DEF Own, MadeOnce

(* Setup makes no second listing its guard could have seen, what is shown   *)
(* of a verification is about the listing shown, posts go only where an     *)
(* operator's verdict stands, and a rejection is told.                      *)
THEOREM SetupStaysSound == Spec => []SetupIsSound
<1>1. Inv => SetupIsSound
  <2> SUFFICES ASSUME Inv PROVE SetupIsSound
    OBVIOUS
  <2>1. SetupsAreKnown
    BY DEF Inv, Known, Knows, SetupsAreKnown
  <2>2. NoBlindSetup
    BY DEF Inv, AllLooked, Looked, NoBlindSetup
  <2>3. VerdictIsAboutListing
    BY VerdictFromOwn DEF Inv
  <2>4. PostsWhereApproved
    BY DEF Inv, Known, Knows, PostsWhereApproved
  <2> QED
    BY <2>1, <2>2, <2>3, <2>4 DEF Inv, Own, Settled, SetupIsSound
<1> QED
  BY <1>1, InvAlways, PTL

(* Who does not write gbp_access_requests.                                  *)
LEMMA AccessWriters ==
  ASSUME Next, access' # access
  PROVE  \/ \E s \in Stores : Claim(s)
         \/ \E r \in Requests, s \in Stores, l \in Hand : StartAttach(r, s, l)
         \/ \E r \in Requests : Track(r) \/ Update(r)
<1> USE DEF tables
<1>1. ASSUME NEW s \in Stores, EditProfile(s) PROVE FALSE
  BY <1>1 DEF EditProfile
<1>2. ASSUME NEW r \in Requests, NEW s \in Stores, Begin(r, s),
             \A l \in Hand : ~StartAttach(r, s, l)
      PROVE  FALSE
  BY <1>2 DEF Begin, StartMove, StartSetup, StartRefresh, StartPublish
<1>3. ASSUME NEW r \in Requests, Abort(r) PROVE FALSE
  BY <1>3 DEF Abort
<1>4. ASSUME NEW r \in Requests, Adopt(r), ~Update(r) PROVE FALSE
  BY <1>4 DEF Adopt, ReadEnsured, CheckVacant, CheckUnshared, AttachAccount,
              AttachLocation, AttachRefused, Notice, Detach, Disown
<1>5. ASSUME NEW r \in Requests, Setup(r), ~Track(r) PROVE FALSE
  BY <1>5 DEF Setup, CheckReview, Search, RequestRights, Create, SetupAccount,
              SetupLocation, ScheduleFollowUp, Verify, Record
<1>6. ASSUME NEW r \in Requests, Look(r) \/ Refresh(r) \/ ReadParent(r) \/ CreateLocalPost(r)
      PROVE  FALSE
  BY <1>6 DEF Look, Refresh, ReadParent, CreateLocalPost
<1> QED
  BY <1>1, <1>2, <1>3, <1>4, <1>5, <1>6 DEF Next, Step

(* However many operators have read the same state, the one that writes     *)
(* makes a move that is legal from the state the row has then.              *)
THEOREM LegalMovesOnly == Spec => OnlyLegalMoves
<1> DEFINE Legal(s) ==
      access'[s].state # access[s].state =>
        IF Tracked(s)
        THEN \E r \in Requests :
               /\ at[r] = "update" /\ req[r].store = s
               /\ access'[s].state \in Transition(access[s].state, req[r].kind)
        ELSE access'[s].state \in {"not_requested", "adoption_review"}
<1>1. ASSUME Inv, Next, NEW s \in Stores PROVE Legal(s)
  <2> SUFFICES ASSUME access'[s].state # access[s].state PROVE Legal(s)
    OBVIOUS
  <2>1. TypeOK /\ access \in [Stores -> Rows \cup {NoRow}]
    BY <1>1 DEF Inv, TypeOK, TablesOK
  <2>2. ASSUME NEW u \in Stores, Claim(u) PROVE Legal(s)
    <3>1. PICK l \in Hand \cup {None} :
            /\ ~Tracked(u)
            /\ access' = [access EXCEPT ![u] = [state |-> "adoption_review", ref |-> l]]
      BY <2>2 DEF Claim
    <3>2. u = s /\ access'[s].state = "adoption_review"
      BY <2>1, <3>1
    <3> QED
      BY <3>1, <3>2
  <2>3. ASSUME NEW r \in Requests, NEW u \in Stores, NEW l \in Hand, StartAttach(r, u, l)
        PROVE  Legal(s)
    <3>1. access' = IF Tracked(u) THEN access
                    ELSE [access EXCEPT ![u] = [state |-> "not_requested", ref |-> None]]
      BY <2>3 DEF StartAttach
    <3>2. u = s /\ ~Tracked(u) /\ access'[s].state = "not_requested"
      BY <2>1, <3>1
    <3> QED
      BY <3>2
  <2>4. ASSUME NEW r \in Requests, Track(r) PROVE Legal(s)
    <3>1. access' = IF Tracked(req[r].store) THEN access
                    ELSE [access EXCEPT ![req[r].store] =
                            [state |-> "not_requested", ref |-> req[r].listing]]
      BY <2>4 DEF Track
    <3>2. req[r].store = s /\ ~Tracked(s) /\ access'[s].state = "not_requested"
      BY <2>1, <3>1
    <3> QED
      BY <3>2
  <2>5. ASSUME NEW r \in Requests, Update(r) PROVE Legal(s)
    <3>1. UpdateHits(r) /\ at[r] = "update"
      BY <2>5 DEF Update
    <3>2. /\ access'[req[r].store].state \in
               Transition(access[req[r].store].state, req[r].kind)
          /\ access[req[r].store].state \in AccessStates
          /\ \A u \in Stores \ {req[r].store} : access'[u] = access[u]
      BY <1>1, <2>5, <3>1, UpdateHit
    <3>3. req[r].store = s
      BY <3>2
    <3>4. Tracked(s)
      BY <3>2, <3>3, NamesAssumption DEF Tracked, NoRow
    <3> QED
      BY <3>1, <3>2, <3>3, <3>4
  <2>6. access' # access
    OBVIOUS
  <2> QED
    BY <1>1, <2>2, <2>3, <2>4, <2>5, <2>6, AccessWriters
<1>2. ASSUME UNCHANGED vars, NEW s \in Stores PROVE Legal(s)
  BY <1>2 DEF vars, tables
<1>3. Inv /\ [Next]_vars => [\A s \in Stores : Legal(s)]_vars
  BY <1>1, <1>2
<1> QED
  BY <1>3, InvAlways, PTL DEF Spec, OnlyLegalMoves
===============================================================================
