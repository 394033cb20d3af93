------------------------------ MODULE GbpListing ------------------------------
(***************************************************************************)
(* A store and its Google listing: the access request operators move by     *)
(* hand, the adoption of a listing the organization already manages, the    *)
(* live setup that creates one, its verification, and what the publishing   *)
(* path reads of all this.                                                  *)
(*                                                                         *)
(* A request is one HTTP request of an operator or an owner.  Each of its   *)
(* statements is a step; between two of them any other request may run, and *)
(* the request may die.  No transaction spans two statements, and nothing   *)
(* in the schema keeps two stores from one listing.                         *)
(***************************************************************************)
EXTENDS GbpAccess, Integers, FiniteSets

CONSTANTS
  Stores,     \* stores whose owner has confirmed the profile
  Requests,   \* HTTP requests that may be running at once
  Hand,       \* listings built by hand in the organization's account
  Foreign,    \* listings somebody else owns: search offers to claim them
  New,        \* listings Google may create
  Verdicts,   \* what a read of Google's verification signals may yield
  None,
  Kinds,      \* the kinds of requests of the instance
  ForcedTo,   \* bound: the states an OVERRIDE is used to reach
  MaxEdits,   \* bound: times an owner changes the confirmed profile
  MaxCuts     \* bound: requests that die before they are through

Listings == Hand \cup Foreign \cup New
Unknown == "UNKNOWN"
RowKinds == {"adopted", "setup"}
Verifications == [listing : New, state : Verdicts, of : New]

(* transition/route.ts carries every action but ATTACH_LOCATION, which      *)
(* needs no request row and has a route of its own beside RUN_SETUP.        *)
Moves == AccessActions \ {"ATTACH_LOCATION"}
Adoptions == {"CONFIRM_ADOPTION", "ATTACH_LOCATION"}
AllKinds == AccessActions \cup {"CLAIM", "RUN_SETUP", "REFRESH", "PUBLISH"}

VARIABLES
  access,     \* gbp_access_requests: at most one row per store
  location,   \* gbp_locations: a store's adopted and its set-up row
  newest,     \* the one of the two that was written last
  account,    \* gbp_accounts: the kinds a store has a row of
  verified,   \* gbp_verification_state: at most one row per store
  followUp,   \* stores with a GBP_FOLLOW_UP job
  told,       \* the notices posted in a store's chat
  made,       \* Google: the request id each new listing was created for
  profile,    \* the version of a store's confirmed profile
  at, req,    \* the running requests: next statement and locals
  cuts,       \* requests that died
  approved, rejected, forced, cut   \* history

tables == <<access, location, newest, account, verified, followUp, told>>
outside == <<made, profile>>
history == <<cuts, approved, rejected, forced, cut>>
vars == <<tables, outside, at, req, history>>

Rows == [state : AccessStates, ref : Listings \cup {None}]
NoRow == [state |-> None, ref |-> None]

(* kind, store: what was asked, for whom.  seen: the state the request read *)
(* first; goal: the state it computed from it.  ref: what it writes into    *)
(* gbp_location_ref, listing: what it works on.  edit: the profile version  *)
(* behind its request id.  verdict: what Google answered.                   *)
(* overtaken (history): since the request looked, somebody wrote the row    *)
(* it looked for.                                                           *)
Locals ==
  [kind : AllKinds, store : Stores, seen : AccessStates \cup {None},
   goal : AccessStates \cup {None}, ref : Listings \cup {None},
   listing : Listings \cup {None}, edit : 0 .. MaxEdits,
   verdict : Verdicts, overtaken : BOOLEAN]

Blank(kind, s) ==
  [kind |-> kind, store |-> s, seen |-> None, goal |-> None, ref |-> None,
   listing |-> None, edit |-> 0, verdict |-> Unknown,
   overtaken |-> FALSE]

Labels ==
  {"idle", "ensured", "vacant", "unshared", "update", "account", "location",
   "notice", "detach", "disown", "review", "search", "rights", "create",
   "setupAccount", "setupLocation", "followUp", "verify", "record", "track",
   "look", "refresh", "parent", "post"}

ASSUME NamesAssumption ==
  /\ Hand \cap Foreign = {} /\ Hand \cap New = {} /\ Foreign \cap New = {}
  /\ None \notin Listings \cup Stores \cup Verdicts \cup RowKinds \cup AccessStates
  /\ None \notin Locals /\ None \notin Verifications
  /\ None \notin Stores \X (0 .. MaxEdits)
  /\ Unknown \in Verdicts
  /\ Kinds \subseteq AllKinds /\ ForcedTo \subseteq AccessStates
ASSUME BoundsAssumption == MaxEdits \in Nat /\ MaxCuts \in Nat

TablesOK ==
  /\ access \in [Stores -> Rows \cup {NoRow}]
  /\ location \in [Stores -> [RowKinds -> Listings \cup {None}]]
  /\ newest \in [Stores -> RowKinds \cup {None}]
  /\ account \in [Stores -> SUBSET RowKinds]
  /\ verified \in [Stores -> Verifications \cup {None}]
  /\ followUp \subseteq Stores
  /\ told \subseteq Stores \X {"attached", "rejected"}
  /\ made \in [New -> (Stores \X (0 .. MaxEdits)) \cup {None}]
  /\ profile \in [Stores -> 0 .. MaxEdits]
RequestsOK ==
  /\ at \in [Requests -> Labels]
  /\ req \in [Requests -> Locals \cup {None}]
  /\ \A r \in Requests : req[r] = None <=> at[r] = "idle"
HistoryOK ==
  /\ approved \subseteq Stores \X Listings
  /\ cuts \in 0 .. MaxCuts
  /\ rejected \subseteq Stores /\ forced \subseteq Stores /\ cut \subseteq Stores
TypeOK == TablesOK /\ RequestsOK /\ HistoryOK

Init ==
  /\ access = [s \in Stores |-> NoRow]
  /\ location = [s \in Stores |-> [k \in RowKinds |-> None]]
  /\ newest = [s \in Stores |-> None]
  /\ account = [s \in Stores |-> {}]
  /\ verified = [s \in Stores |-> None]
  /\ followUp = {} /\ told = {}
  /\ made = [l \in New |-> None]
  /\ profile = [s \in Stores |-> 0]
  /\ at = [r \in Requests |-> "idle"]
  /\ req = [r \in Requests |-> None]
  /\ cuts = 0 /\ approved = {} /\ rejected = {} /\ forced = {} /\ cut = {}

-----------------------------------------------------------------------------
(* What the statements read. *)

Tracked(s) == access[s] # NoRow

(* storeHasAttachedGbpLocation; readExistingGbpLocation yields one of them. *)
Attached(s) == {k \in RowKinds : location[s][k] # None}

(* findStoreAdoptedByGoogleLocation reads one of these stores.             *)
Holders(l) == {s \in Stores : \E k \in RowKinds : location[s][k] = l}

(* An adopted row is VERIFIED; a set-up row waits for the owner's claim or  *)
(* for a verification that nothing in the program ever writes back.         *)
AnyVerified(s, k) ==
  IF location[s][k] \in Foreign THEN "CLAIM_REQUIRED" ELSE "VERIFIED"
Status(s, k) ==
  CASE k = "adopted" -> "VERIFIED"
    [] location[s][k] \in Foreign -> "CLAIM_REQUIRED"
    [] OTHER -> "VERIFICATION_PENDING"

(* readGbpLocationStatus and canUseLiveGbpActions: the newest row decides.  *)
Eligible(s) == newest[s] # None /\ Status(s, newest[s]) = "VERIFIED"

(* readGbpPublishParent: the newest VERIFIED row that joins an account.     *)
Parents(s) ==
  {location[s][k] : k \in {j \in Attached(s) :
                             Status(s, j) = "VERIFIED" /\ j \in account[s]}}

(* listStoresPendingGbpSetup *)
Pending(s) == ~Tracked(s)

Go(r, label) == at' = [at EXCEPT ![r] = label]
Leave(r) == at' = [at EXCEPT ![r] = "idle"] /\ UNCHANGED req
End(r) == /\ at' = [at EXCEPT ![r] = "idle"]
          /\ req' = [req EXCEPT ![r] = None]
Start(r, label, locals) ==
  /\ at[r] = "idle" /\ locals.kind \in Kinds
  /\ at' = [at EXCEPT ![r] = label]
  /\ req' = [req EXCEPT ![r] = locals]

(* History: the requests that have looked whether a store has a listing,    *)
(* whether a listing has a store, and whether a store is in review; a write *)
(* of what they looked for overtakes them.                                  *)
PastReview == {"search", "rights", "create", "setupAccount", "setupLocation"}
PastListing == {"update", "account", "location"}
PastStore == {"unshared", "review"} \cup PastListing \cup PastReview

OnStore(s) == {o \in Requests : at[o] \in PastStore /\ req[o].store = s}
OnListing(l) == {o \in Requests : at[o] \in PastListing /\ req[o].listing = l}
OnReview(s) == {o \in Requests : at[o] \in PastReview /\ req[o].store = s}
Overtake(these) ==
  [o \in Requests |->
     IF o \in these THEN [req[o] EXCEPT !.overtaken = TRUE] ELSE req[o]]
Overtaken(r) == (OnStore(req[r].store) \cup OnListing(req[r].listing)) \ {r}

-----------------------------------------------------------------------------
(* The owner. *)

(* POST adoption: "this listing is already mine".  The matcher names one    *)
(* listing or none; a store that has a row keeps it as it is.               *)
Claim(s) ==
  /\ "CLAIM" \in Kinds /\ ~Tracked(s)
  /\ \E l \in Hand \cup {None} :
       access' = [access EXCEPT ![s] = [state |-> "adoption_review", ref |-> l]]
  /\ req' = Overtake(OnReview(s))
  /\ UNCHANGED <<location, newest, account, verified, followUp, told, outside,
                 at, history>>

(* The owner confirms a changed profile: setup's request id changes.        *)
EditProfile(s) ==
  /\ profile[s] < MaxEdits
  /\ profile' = [profile EXCEPT ![s] = @ + 1]
  /\ UNCHANGED <<tables, made, at, req, history>>

(* GET verification: the row, Google's signals, then an UPDATE by store id. *)
StartRefresh(r, s) ==
  /\ verified[s] # None
  /\ Start(r, "look", [Blank("REFRESH", s) EXCEPT !.listing = verified[s].listing])
  /\ UNCHANGED <<tables, outside, history>>

(* An unreadable answer leaves the row alone.                               *)
Look(r) ==
  /\ at[r] = "look"
  /\ \/ \E v \in Verdicts \ {Unknown} :
          /\ req' = [req EXCEPT ![r].verdict = v]
          /\ Go(r, "refresh")
     \/ End(r)
  /\ UNCHANGED <<tables, outside, history>>

Refresh(r) ==
  /\ at[r] = "refresh"
  /\ verified' = [verified EXCEPT ![req[r].store].state = req[r].verdict,
                                  ![req[r].store].of = req[r].listing]
  /\ End(r)
  /\ UNCHANGED <<access, location, newest, account, followUp, told, outside,
                 history>>

-----------------------------------------------------------------------------
(* The operators' transitions. *)

(* One read serves the guards and the guarded UPDATE.  A missing row is a   *)
(* 404, a refused transition a conflict, a claim without a listing a        *)
(* refusal: none writes.                                                    *)
StartMove(r, s, action, pick) ==
  LET ref == IF pick # None THEN pick ELSE access[s].ref IN
  /\ action \in Moves /\ Tracked(s)
  /\ pick # None => action = "CONFIRM_ADOPTION"
  /\ action = "CONFIRM_ADOPTION" => ref # None
  /\ \E next \in Transition(access[s].state, action) :
       /\ action = "OVERRIDE" => next \in ForcedTo
       /\ Start(r, IF action = "CONFIRM_ADOPTION" THEN "vacant" ELSE "update",
                [Blank(action, s) EXCEPT
                   !.seen = access[s].state, !.goal = next, !.ref = pick,
                   !.listing = IF action = "CONFIRM_ADOPTION" THEN ref ELSE None])
  /\ UNCHANGED <<tables, outside, history>>

(* POST setup/actions with ATTACH_LOCATION: the row is ensured first.       *)
StartAttach(r, s, l) ==
  /\ Start(r, "ensured", [Blank("ATTACH_LOCATION", s) EXCEPT
                            !.ref = l, !.listing = l, !.goal = "granted"])
  /\ access' = IF Tracked(s) THEN access
               ELSE [access EXCEPT ![s] = [state |-> "not_requested", ref |-> None]]
  /\ UNCHANGED <<location, newest, account, verified, followUp, told, outside,
                 history>>

ReadEnsured(r) ==
  /\ at[r] = "ensured"
  /\ req' = [req EXCEPT ![r].seen = access[req[r].store].state]
  /\ Go(r, "vacant")
  /\ UNCHANGED <<tables, outside, history>>

(* storeHasAttachedGbpLocation: a store that has a listing is refused.      *)
AnyStore(r) ==
  /\ at[r] = "vacant" /\ Go(r, "unshared")
  /\ UNCHANGED <<tables, outside, req, history>>
CheckVacant(r) ==
  /\ at[r] = "vacant"
  /\ IF Attached(req[r].store) = {} THEN Go(r, "unshared") /\ UNCHANGED req
     ELSE End(r)
  /\ UNCHANGED <<tables, outside, history>>

(* findStoreAdoptedByGoogleLocation: so is a listing another store has.     *)
(* ATTACH_LOCATION asks the state machine only now.                         *)
CheckUnshared(r) ==
  LET s == req[r].store
      conflicts == req[r].goal \notin Transition(req[r].seen, req[r].kind) IN
  /\ at[r] = "unshared"
  /\ \/ /\ Holders(req[r].listing) = {} \/ s \in Holders(req[r].listing)
        /\ ~conflicts
        /\ Go(r, "update") /\ UNCHANGED req
     \/ /\ conflicts \/ Holders(req[r].listing) \ {s} # {}
        /\ End(r)
  /\ UNCHANGED <<tables, outside, history>>

OnlyConfirmed(kind) ==
  CASE kind = "CONFIRM_ADOPTION" -> "account"
    [] kind = "OVERRIDE" -> "detach"
    [] kind \in {"REJECT_ADOPTION", "ATTACH_LOCATION"} -> "notice"
    [] OTHER -> "idle"
Untold(kind) ==
  CASE kind \in Adoptions -> "account"
    [] kind = "OVERRIDE" -> "detach"
    [] OTHER -> "idle"
AfterUpdate(kind) ==
  CASE kind \in Adoptions -> "account"
    [] kind = "OVERRIDE" -> "detach"
    [] kind = "REJECT_ADOPTION" -> "notice"
    [] OTHER -> "idle"

(* updateGbpAccessState: UPDATE ... WHERE state = the state that was read.  *)
(* A ref rides along only when the operator picked one.                     *)
Unguarded(r) == Tracked(req[r].store)
UpdateHits(r) == access[req[r].store].state = req[r].seen
Update(r) ==
  LET q == req[r] IN
  /\ at[r] = "update"
  /\ IF UpdateHits(r)
     THEN /\ access' = [access EXCEPT
                          ![q.store] = [state |-> q.goal,
                                        ref |-> IF q.ref # None THEN q.ref ELSE @.ref]]
          /\ approved' = IF q.kind \in Adoptions
                         THEN approved \cup {<<q.store, q.listing>>} ELSE approved
          /\ rejected' = IF q.kind = "REJECT_ADOPTION"
                         THEN rejected \cup {q.store} ELSE rejected
          /\ forced' = IF q.kind = "OVERRIDE" THEN forced \cup {q.store} ELSE forced
          /\ IF AfterUpdate(q.kind) = "idle" THEN End(r)
             ELSE /\ Go(r, AfterUpdate(q.kind))
                  /\ req' = IF q.goal = "adoption_review"
                            THEN Overtake(OnReview(q.store)) ELSE req
     ELSE End(r) /\ UNCHANGED <<access, approved, rejected, forced>>
  /\ UNCHANGED <<location, newest, account, verified, followUp, told, outside, cuts, cut>>

(* attachOrgLocationToStore: the account, unless there is one; then the     *)
(* location, which its foreign key refuses without the account.             *)
AttachAccount(r) ==
  /\ at[r] = "account"
  /\ account' = [account EXCEPT ![req[r].store] = @ \cup {"adopted"}]
  /\ Go(r, "location")
  /\ UNCHANGED <<access, location, newest, verified, followUp, told, outside,
                 req, history>>

AttachLocation(r) ==
  LET q == req[r] IN
  /\ at[r] = "location"
  /\ "adopted" \in account[q.store]
  /\ location' = [location EXCEPT ![q.store]["adopted"] = q.listing]
  /\ newest' = [newest EXCEPT ![q.store] = "adopted"]
  /\ IF q.kind = "ATTACH_LOCATION"
     THEN /\ Go(r, "notice")
          /\ req' = Overtake(Overtaken(r))
     ELSE /\ Go(r, "idle")
          /\ req' = [Overtake(Overtaken(r)) EXCEPT ![r] = None]
  /\ UNCHANGED <<access, account, verified, followUp, told, outside, history>>

AttachRefused(r) ==
  /\ at[r] = "location" /\ "adopted" \notin account[req[r].store]
  /\ cut' = cut \cup {req[r].store}
  /\ End(r)
  /\ UNCHANGED <<tables, outside, cuts, approved, rejected, forced>>

(* postCampaignAssistantNotice, after a rejection or an attached listing.   *)
Notice(r) ==
  /\ at[r] = "notice"
  /\ told' = told \cup
       {<<req[r].store,
          IF req[r].kind = "REJECT_ADOPTION" THEN "rejected" ELSE "attached">>}
  /\ End(r)
  /\ UNCHANGED <<access, location, newest, account, verified, followUp, outside,
                 history>>

(* detachOrgLocationFromStore, after every OVERRIDE: only the adopted rows, *)
(* the location before the account it refers to.                            *)
Detach(r) ==
  LET s == req[r].store IN
  /\ at[r] = "detach"
  /\ location' = [location EXCEPT ![s]["adopted"] = None]
  /\ newest' = [newest EXCEPT ![s] = IF location[s]["setup"] = None
                                     THEN None ELSE "setup"]
  /\ Go(r, "disown")
  /\ UNCHANGED <<access, account, verified, followUp, told, outside, req, history>>

DisownAnyway(r) ==
  /\ at[r] = "disown"
  /\ account' = [account EXCEPT ![req[r].store] = @ \ {"adopted"}]
  /\ End(r)
  /\ UNCHANGED <<access, location, newest, verified, followUp, told, outside,
                 history>>
Disown(r) ==
  LET s == req[r].store IN
  /\ at[r] = "disown"
  /\ account' = IF location[s]["adopted"] = None
                THEN [account EXCEPT ![s] = @ \ {"adopted"}] ELSE account
  /\ End(r)
  /\ UNCHANGED <<access, location, newest, verified, followUp, told, outside,
                 history>>

-----------------------------------------------------------------------------
(* RUN_SETUP: setupGoogleBusinessProfile on the owner's behalf. *)

(* readDuplicateGuardBlock reads the rows of gbp_locations first: a store   *)
(* that has one is only tracked, by that listing.                           *)
SetupOnlyNew(r, s) ==
  /\ Attached(s) = {} /\ Start(r, "review", Blank("RUN_SETUP", s))
  /\ UNCHANGED <<tables, outside, history>>
StartSetup(r, s) ==
  /\ IF Attached(s) = {} THEN Start(r, "review", Blank("RUN_SETUP", s))
     ELSE \E k \in Attached(s) :
            Start(r, "track", [Blank("RUN_SETUP", s) EXCEPT !.listing = location[s][k]])
  /\ UNCHANGED <<tables, outside, history>>

(* ... and then the access request: an open review holds setup off.         *)
PassReview(r) ==
  /\ at[r] = "review" /\ Go(r, "search")
  /\ UNCHANGED <<tables, outside, req, history>>
CheckReview(r) ==
  /\ at[r] = "review"
  /\ IF access[req[r].store].state = "adoption_review" THEN End(r)
     ELSE Go(r, "search") /\ UNCHANGED req
  /\ UNCHANGED <<tables, outside, history>>

(* The profile is read, geocoded and searched for.  A listing of somebody   *)
(* else's leads to a claim; no match, or a failed search, to a creation.    *)
Search(r) ==
  /\ at[r] = "search"
  /\ \/ \E l \in Foreign :
          /\ req' = [req EXCEPT ![r].listing = l,
                                ![r].edit = profile[req[r].store]]
          /\ Go(r, "rights")
     \/ /\ req' = [req EXCEPT ![r].edit = profile[req[r].store]]
        /\ Go(r, "create")
  /\ UNCHANGED <<tables, outside, history>>

RequestRights(r) ==
  /\ at[r] = "rights"
  /\ Go(r, "setupAccount")
  /\ UNCHANGED <<tables, outside, req, history>>

(* validateLocation, then createLocation.  Google answers a request id it   *)
(* knows with the listing it made for it, and makes a new one otherwise.    *)
RequestId(q) == <<q.store, q.edit>>
CreateAnew(r) ==
  LET fresh == {n \in New : made[n] = None} IN
  /\ at[r] = "create" /\ fresh # {}
  /\ LET l == CHOOSE n \in New : n \in fresh IN
       /\ made' = [made EXCEPT ![l] = RequestId(req[r])]
       /\ req' = [req EXCEPT ![r].listing = l]
  /\ Go(r, "setupAccount")
  /\ UNCHANGED <<tables, profile, history>>
Create(r) ==
  LET id == RequestId(req[r])
      known == {n \in New : made[n] = id}
      fresh == {n \in New : made[n] = None} IN
  /\ at[r] = "create" /\ known \cup fresh # {}
  /\ LET l == CHOOSE n \in New : n \in (IF known # {} THEN known ELSE fresh) IN
       /\ made' = [made EXCEPT ![l] = id]
       /\ req' = [req EXCEPT ![r].listing = l]
  /\ Go(r, "setupAccount")
  /\ UNCHANGED <<tables, profile, history>>

(* persistLiveSetupRecords or persistLiveClaimRequiredRecords: account,     *)
(* location and follow-up job, one upsert after the other.                  *)
SkipLocation(r) ==
  /\ at[r] = "setupAccount"
  /\ account' = [account EXCEPT ![req[r].store] = @ \cup {"setup"}]
  /\ Go(r, "followUp")
  /\ UNCHANGED <<access, location, newest, verified, followUp, told, outside,
                 req, history>>
SetupAccount(r) ==
  /\ at[r] = "setupAccount"
  /\ account' = [account EXCEPT ![req[r].store] = @ \cup {"setup"}]
  /\ Go(r, "setupLocation")
  /\ UNCHANGED <<access, location, newest, verified, followUp, told, outside,
                 req, history>>

SetupLocation(r) ==
  LET q == req[r] IN
  /\ at[r] = "setupLocation"
  /\ location' = [location EXCEPT ![q.store]["setup"] = q.listing]
  /\ newest' = [newest EXCEPT ![q.store] = "setup"]
  /\ req' = Overtake(Overtaken(r))
  /\ Go(r, "followUp")
  /\ UNCHANGED <<access, account, verified, followUp, told, outside, history>>

ScheduleFollowUp(r) ==
  /\ at[r] = "followUp"
  /\ followUp' = followUp \cup {req[r].store}
  /\ Go(r, IF req[r].listing \in New THEN "verify" ELSE "track")
  /\ UNCHANGED <<access, location, newest, account, verified, told, outside,
                 req, history>>

(* The verification attempt is a bonus: when it throws, setup goes on.      *)
(* Unlike a refresh it also records that nothing could be read.             *)
Verify(r) ==
  /\ at[r] = "verify"
  /\ \/ \E v \in Verdicts :
          /\ req' = [req EXCEPT ![r].verdict = v]
          /\ Go(r, "record")
     \/ Go(r, "track") /\ UNCHANGED req
  /\ UNCHANGED <<tables, outside, history>>

Record(r) ==
  LET q == req[r] IN
  /\ at[r] = "record"
  /\ verified' = [verified EXCEPT
                    ![q.store] = [listing |-> q.listing, state |-> q.verdict,
                                  of |-> q.listing]]
  /\ Go(r, "track")
  /\ UNCHANGED <<access, location, newest, account, followUp, told, outside,
                 req, history>>

(* ensureGbpAccessRequest: a row that exists stays as it is.                *)
Track(r) ==
  LET q == req[r] IN
  /\ at[r] = "track"
  /\ access' = IF Tracked(q.store) THEN access
               ELSE [access EXCEPT ![q.store] = [state |-> "not_requested",
                                                 ref |-> q.listing]]
  /\ End(r)
  /\ UNCHANGED <<location, newest, account, verified, followUp, told, outside,
                 history>>

-----------------------------------------------------------------------------
(* What a campaign's publish request does with the listing. *)

StartPublish(r, s) ==
  /\ Eligible(s)
  /\ Start(r, "parent", Blank("PUBLISH", s))
  /\ UNCHANGED <<tables, outside, history>>

(* Without a VERIFIED row the job fails.                                    *)
ReadParent(r) ==
  /\ at[r] = "parent"
  /\ IF Parents(req[r].store) = {} THEN End(r)
     ELSE \E l \in Parents(req[r].store) :
            /\ req' = [req EXCEPT ![r].listing = l]
            /\ Go(r, "post")
  /\ UNCHANGED <<tables, outside, history>>

CreateLocalPost(r) ==
  /\ at[r] = "post"
  /\ End(r)
  /\ UNCHANGED <<tables, outside, history>>

-----------------------------------------------------------------------------
(* A request dies, or a call to Google fails it.  History: a store whose    *)
(* verdict was recorded and not carried out.                                *)
Abort(r) ==
  /\ at[r] # "idle" /\ cuts < MaxCuts
  /\ cuts' = cuts + 1
  /\ cut' = IF at[r] \in {"account", "location", "notice"}
            THEN cut \cup {req[r].store} ELSE cut
  /\ End(r)
  /\ UNCHANGED <<tables, outside, approved, rejected, forced>>

Begin(r, s) ==
  \/ \E action \in Moves, pick \in Hand \cup {None} : StartMove(r, s, action, pick)
  \/ \E l \in Hand : StartAttach(r, s, l)
  \/ StartSetup(r, s)
  \/ StartRefresh(r, s)
  \/ StartPublish(r, s)

Adopt(r) == \/ ReadEnsured(r) \/ CheckVacant(r) \/ CheckUnshared(r) \/ Update(r)
            \/ AttachAccount(r) \/ AttachLocation(r) \/ AttachRefused(r)
            \/ Notice(r) \/ Detach(r) \/ Disown(r)
Setup(r) == \/ CheckReview(r) \/ Search(r) \/ RequestRights(r) \/ Create(r)
            \/ SetupAccount(r) \/ SetupLocation(r) \/ ScheduleFollowUp(r)
            \/ Verify(r) \/ Record(r) \/ Track(r)
Step(r) == \/ Adopt(r) \/ Setup(r) \/ Look(r) \/ Refresh(r)
           \/ ReadParent(r) \/ CreateLocalPost(r)

Next == \/ \E s \in Stores : Claim(s) \/ EditProfile(s)
        \/ \E r \in Requests :
             \/ \E s \in Stores : Begin(r, s)
             \/ Step(r) \/ Abort(r)

Spec == Init /\ [][Next]_vars

(* The server works off what it has begun, and an operator keeps running     *)
(* setup for a store the console lists.                                     *)
RunPending(s) == Pending(s) /\ \E r \in Requests : StartSetup(r, s)
Fairness ==
  /\ \A r \in Requests : WF_vars(Step(r))
  /\ \A s \in Stores : SF_vars(RunPending(s))

FairSpec == Spec /\ Fairness

-----------------------------------------------------------------------------
(* Properties *)

(* A request's state changes only by a move that is legal from the state it *)
(* has at that moment, made by a request that is at its guarded UPDATE; a   *)
(* row begins as not_requested or in review, and never goes away.  Two      *)
(* operators may have read the same state (updateGbpAccessState).           *)
OnlyLegalMoves ==
  [][\A s \in Stores : access'[s].state # access[s].state =>
       IF Tracked(s)
       THEN \E r \in Requests :
              /\ at[r] = "update" /\ req[r].store = s
              /\ access'[s].state \in Transition(access[s].state, req[r].kind)
       ELSE access'[s].state \in {"not_requested", "adoption_review"}]_vars

(* What a request of an operator has settled on: the conflict is found       *)
(* before the UPDATE, a claim never reaches it without a listing, and only  *)
(* an adoption's ref is written.                                            *)
MoveFits(label, q) ==
  /\ label \in {"ensured", "vacant", "unshared", "account", "location"} =>
       q.kind \in Adoptions
  /\ label = "ensured" => q.kind = "ATTACH_LOCATION"
  /\ label = "update" => q.kind \in AccessActions /\ q.seen \in AccessStates
  /\ label \in {"detach", "disown"} => q.kind = "OVERRIDE"
  /\ label \in {"ensured", "vacant", "unshared", "update"} =>
       /\ q.kind \in Adoptions =>
            q.listing \in Listings /\ q.ref \in {None, q.listing}
       /\ q.kind = "ATTACH_LOCATION" => q.ref = q.listing
       /\ q.kind \notin Adoptions => q.ref = None
  /\ label \in {"vacant", "unshared", "update"} =>
       \/ q.goal \in Transition(q.seen, q.kind)
       \/ label # "update" /\ q.kind = "ATTACH_LOCATION"

(* ... and what it goes on: the listing a claim was confirmed for is still   *)
(* the ref of the row unless one was approved meanwhile, an attach follows  *)
(* an approval, and only an override detaches.                              *)
MoveKnows(label, q) ==
  /\ /\ label \in {"vacant", "unshared", "update"} /\ q.kind = "CONFIRM_ADOPTION"
     /\ q.ref = None /\ q.store \notin forced
     => \/ access[q.store].ref = q.listing
        \/ \E l \in Listings : <<q.store, l>> \in approved
  /\ label \in {"account", "location"} => <<q.store, q.listing>> \in approved
  /\ label \in {"detach", "disown"} => q.store \in forced
MovesAreKnown ==
  \A r \in Requests :
    at[r] # "idle" => MoveFits(at[r], req[r]) /\ MoveKnows(at[r], req[r])

(* What a request found when it looked is still so when it attaches, unless *)
(* somebody wrote it since: a second listing of one store, or a second      *)
(* store on one listing, takes a write between a check and an attach        *)
(* (transition/route.ts, setup/actions/route.ts).                           *)
AttachLooked(label, q) ==
  q.kind \in Adoptions /\ ~q.overtaken =>
    /\ label \in {"unshared"} \cup PastListing => Attached(q.store) = {}
    /\ label \in PastListing => Holders(q.listing) = {}
NoBlindAttach ==
  \A r \in Requests : at[r] # "idle" => AttachLooked(at[r], req[r])

(* Setup never creates or claims a listing for a store that has one, or     *)
(* whose owner's claim is under review, unless that came up after its guard *)
(* had looked (readDuplicateGuardBlock).                                    *)
SetupLooked(label, q) ==
  ~q.overtaken =>
    /\ label \in {"review"} \cup PastReview => Attached(q.store) = {}
    /\ label \in PastReview => access[q.store].state # "adoption_review"
NoBlindSetup ==
  \A r \in Requests : at[r] # "idle" => SetupLooked(at[r], req[r])

(* What setup and a refresh work on was made by Google for their store, for *)
(* a profile it has had, and the location goes under an account.            *)
MadeFor(s, l) == \E e \in 0 .. profile[s] : made[l] = <<s, e>>
SetupKnows(label, q) ==
  /\ label = "rights" => q.listing \in Foreign
  /\ label \in {"setupAccount", "setupLocation", "followUp"} =>
       q.listing \in Foreign \cup New
  /\ label \in {"verify", "record", "look", "refresh"} => q.listing \in New
  /\ label \in {"rights", "create"} => q.edit <= profile[q.store]
  /\ label \in {"setupAccount", "setupLocation", "followUp", "verify", "record",
                "look", "refresh"} =>
       (q.listing \in New => MadeFor(q.store, q.listing))
  /\ label \in {"look", "refresh"} => verified[q.store] # None
  /\ label = "setupLocation" => "setup" \in account[q.store]
SetupsAreKnown ==
  \A r \in Requests : at[r] # "idle" => SetupKnows(at[r], req[r])

(* Google makes one listing for a request id, and what a store's rows call  *)
(* its new listing was made for it.                                         *)
MadeOnce == \A l, m \in New : made[l] = made[m] /\ made[l] # None => l = m
RowsAreOwn ==
  \A s \in Stores :
    /\ location[s]["setup"] \in New => MadeFor(s, location[s]["setup"])
    /\ verified[s] # None =>
         MadeFor(s, verified[s].listing) /\ MadeFor(s, verified[s].of)

(* The publishing path's join finds the account of every location, the      *)
(* newest row is one the store has, and an adopted row had its verdict.     *)
RowsJoin ==
  \A s \in Stores :
    /\ Attached(s) \subseteq account[s]
    /\ newest[s] # None => newest[s] \in Attached(s)
    /\ location[s]["adopted"] # None => <<s, location[s]["adopted"]>> \in approved

(* As long as nobody overrides, a confirmed listing stays the ref of a      *)
(* granted or revoked request, and nothing repoints it; it is or will be     *)
(* attached unless the request that carries the verdict out is cut short.   *)
Carrying(s) ==
  \E r \in Requests : /\ at[r] \in {"account", "location"}
                      /\ req[r].store = s
GrantIsAttached ==
  \A s \in Stores \ forced, l \in Listings :
    <<s, l>> \in approved =>
      /\ access[s].ref = l /\ access[s].state \in {"granted", "revoked"}
      /\ s \in cut \/ Carrying(s) \/ location[s]["adopted"] = l

(* A campaign is posted only to a listing an operator has approved for that *)
(* store: not to one that setup created or claimed, nor to the matcher's    *)
(* guess (readGbpPublishParent).                                            *)
PostsWhereApproved ==
  \A r \in Requests :
    at[r] = "post" => <<req[r].store, req[r].listing>> \in approved

(* Where the panel calls a store eligible, the publishing path has a target *)
(* at that moment, and it is the row the panel judged.                      *)
EligibleHasTarget ==
  \A s \in Stores :
    Eligible(s) => Parents(s) = {location[s][newest[s]]}

(* A store's owner is told of a rejected claim unless the request was cut   *)
(* short: the verdict is recorded before the notice is posted.              *)
RejectionIsTold ==
  \A s \in rejected \ cut :
    \/ <<s, "rejected">> \in told
    \/ \E r \in Requests : /\ at[r] = "notice" /\ req[r].store = s
                          /\ req[r].kind = "REJECT_ADOPTION"

(* As long as the owner has not changed the profile, the verdict on the     *)
(* card is about the listing on the card, although a refresh asks about the *)
(* listing it read and then updates by store: setups that run together or   *)
(* again are answered with the same listing (gbp-verification-store.ts).    *)
VerdictIsAboutListing ==
  \A s \in Stores :
    verified[s] # None /\ profile[s] = 0 => verified[s].of = verified[s].listing

(* A store waiting for setup is tracked in the end, whatever died on the    *)
(* way: a listing that was created and not recorded is found again by its   *)
(* request id, one that was recorded and not tracked by the guard.          *)
PendingIsTracked == \A s \in Stores : Pending(s) ~> Tracked(s)

(* A listing Google made for a store is not forgotten: setup tracks the     *)
(* store only after it has recorded a listing, so a run that died between   *)
(* the creation and the record is run again and answered with the same      *)
(* listing.  Excused: a profile confirmed anew, and a claim or an operator's *)
(* attachment that tracked the store meanwhile.                             *)
CreatedIsRecorded ==
  \A s \in Stores, l \in New :
    made[l] = <<s, profile[s]>> ~>
      \/ location[s]["setup"] # None
      \/ made[l] # <<s, profile[s]>>
      \/ Tracked(s) /\ access[s].ref \notin Foreign \cup New

(* Adopting: nothing is attached without having been looked at, what was     *)
(* confirmed is attached, and what is attached and eligible can be posted to. *)
AdoptionIsSettled ==
  /\ MovesAreKnown /\ RowsJoin
  /\ NoBlindAttach /\ GrantIsAttached /\ EligibleHasTarget

(* Setting up: no second listing, a verdict about the listing shown, posts    *)
(* only where an operator's verdict stands, and every refusal told.          *)
SetupIsSound ==
  /\ SetupsAreKnown /\ MadeOnce /\ RowsAreOwn
  /\ NoBlindSetup /\ VerdictIsAboutListing
  /\ PostsWhereApproved /\ RejectionIsTold

(* A setup ends with the store tracked and Google's listing recorded,       *)
(* however often it is interrupted and run again.                           *)
SetupCompletes == PendingIsTracked /\ CreatedIsRecorded
==============================================================================
