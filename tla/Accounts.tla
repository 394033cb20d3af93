------------------------------- MODULE Accounts -------------------------------
(***************************************************************************)
(* Owners' accounts: registration by e-mail, sign-in by password and by a   *)
(* provider's identity (OAuth), and the operators' deactivation and         *)
(* deletion.  An account is a user with a store.                            *)
(*                                                                         *)
(* A handler is one HTTP request, each of its statements a step.  Two pieces *)
(* are transactions under READ COMMITTED: the upsert of an identity and the *)
(* deletion of a user.  Their writes show when they commit; until then a    *)
(* unique index, a row or a foreign key makes others wait.                  *)
(***************************************************************************)
EXTENDS Integers, FiniteSets

CONSTANTS
  Handlers,      \* requests that may be running at once
  Users,         \* user ids, never given twice
  Emails,        \* addresses people own
  Subjects,      \* identities at the providers
  None,
  MaxRequests,   \* bound: requests that begin
  MaxCuts        \* bound: requests that die

(* normalizeEmail: a profile without a verified address gets one that is    *)
(* made from its subject, here the subject itself.                          *)
Addresses == Emails \cup Subjects

Accounts ==
  [email : Addresses, password : BOOLEAN, active : BOOLEAN, store : BOOLEAN]

ASSUME NamesAssumption ==
  /\ Emails \cap Subjects = {}
  /\ None \notin Users \cup Addresses \cup Accounts
ASSUME BoundsAssumption == MaxRequests \in Nat /\ MaxCuts \in Nat

VARIABLES
  account,    \* users, with what makes them an account
  identity,   \* auth_identities: the user of each subject
  sessions,   \* users with a row in user_sessions
  at, req,    \* the running requests: next statement and locals
  signed,     \* history: sessions given for a subject
  joined,     \* history: subjects whose request carried a user's session
  origin,     \* history: the subject that made the user, if one did
  erased,     \* history: users deleted
  begun, cuts \* bounds

tables == <<account, identity, sessions>>
history == <<signed, joined, origin, erased>>
vars == <<tables, at, req, history, begun, cuts>>

(* new: the user a transaction has inserted.  holds: it has written the     *)
(* subject's identity.  detached: the identities a deletion has removed.    *)
Locals ==
  [subject : Subjects \cup {None}, email : Addresses \cup {None},
   link : Users \cup {None}, user : Users \cup {None}, new : Users \cup {None},
   holds : BOOLEAN, detached : SUBSET Subjects]
Idle == [subject |-> None, email |-> None, link |-> None, user |-> None,
         new |-> None, holds |-> FALSE, detached |-> {}]

Labels == {"idle", "identity", "owner", "insert", "winner", "attach", "reread",
           "update", "store", "session", "revoke", "detach", "erase"}

TablesOK ==
  /\ account \in [Users -> Accounts \cup {None}]
  /\ identity \in [Subjects -> Users \cup {None}]
  /\ sessions \subseteq Users
RequestsOK ==
  /\ at \in [Handlers -> Labels] /\ req \in [Handlers -> Locals]
  /\ \A h \in Handlers : at[h] = "idle" => req[h] = Idle
HistoryOK ==
  /\ signed \subseteq Subjects \X Users /\ joined \subseteq Subjects \X Users
  /\ origin \in [Users -> Subjects \cup {None}]
  /\ erased \subseteq Users
  /\ begun \in 0 .. MaxRequests /\ cuts \in 0 .. MaxCuts

(* Type invariant. *)
TypeOK == TablesOK /\ RequestsOK /\ HistoryOK

Init ==
  /\ account = [u \in Users |-> None]
  /\ identity = [s \in Subjects |-> None]
  /\ sessions = {}
  /\ at = [h \in Handlers |-> "idle"] /\ req = [h \in Handlers |-> Idle]
  /\ signed = {} /\ joined = {} /\ origin = [u \in Users |-> None]
  /\ erased = {}
  /\ begun = 0 /\ cuts = 0

There(u) == u # None /\ account[u] # None
OwnerOf(e) == {u \in Users : There(u) /\ account[u].email = e}
Fresh == {u \in Users : account[u] = None /\ u \notin erased
                        /\ \A h \in Handlers : req[h].new # u}

Go(h, label) == at' = [at EXCEPT ![h] = label]
Leave(h) == Go(h, "idle") /\ UNCHANGED req
End(h) == Go(h, "idle") /\ req' = [req EXCEPT ![h] = Idle]
Begin(h, label, locals) ==
  /\ at[h] = "idle" /\ begun < MaxRequests
  /\ begun' = begun + 1
  /\ Go(h, label) /\ req' = [req EXCEPT ![h] = locals]
  /\ UNCHANGED cuts

(* What a statement waits for: another's uncommitted user of the address;   *)
(* another's uncommitted write to, or removal of, the subject's identity.   *)
EmailHeld(h, e) ==
  \E o \in Handlers \ {h} : req[o].new # None /\ req[o].email = e
SubjectHeld(h, s) ==
  \E o \in Handlers \ {h} : \/ req[o].holds /\ req[o].subject = s
                            \/ s \in req[o].detached
BeingErased(h, u) ==
  \E o \in Handlers \ {h} : at[o] = "erase" /\ req[o].user = u

-----------------------------------------------------------------------------
(* E-mail and password. *)

(* register: user, credential and store in one transaction, unless the      *)
(* address is taken.                                                        *)
Register(h) ==
  /\ \E e \in Emails :
       /\ ~EmailHeld(h, e) /\ OwnerOf(e) = {}
       /\ \E u \in Fresh :
            /\ Begin(h, "session", [Idle EXCEPT !.user = u])
            /\ account' = [account EXCEPT ![u] =
                 [email |-> e, password |-> TRUE, active |-> TRUE, store |-> TRUE]]
  /\ UNCHANGED <<identity, sessions, history>>

(* login: the credential is read, then the password is verified.            *)
Login(h) ==
  /\ \E u \in Users :
       /\ There(u) /\ account[u].password /\ account[u].store
       /\ Begin(h, "session", [Idle EXCEPT !.user = u])
  /\ UNCHANGED <<tables, history>>

(* createAuthenticatedSession: INSERT ... SELECT ... WHERE EXISTS an active *)
(* owner with a store; otherwise it throws.  (A row that slips past a        *)
(* deactivation under way is never read: readSessionFromCookieValues joins  *)
(* on the same condition.)                                                  *)
MaySignIn(u) == There(u) /\ account[u].active /\ account[u].store
CreateSession(h) ==
  LET u == req[h].user
      s == req[h].subject IN
  /\ at[h] = "session" /\ ~BeingErased(h, u)
  /\ IF MaySignIn(u)
     THEN /\ sessions' = sessions \cup {u}
          /\ signed' = IF s = None THEN signed ELSE signed \cup {<<s, u>>}
     ELSE UNCHANGED <<sessions, signed>>
  /\ End(h)
  /\ UNCHANGED <<account, identity, joined, origin, erased, begun, cuts>>

-----------------------------------------------------------------------------
(* A provider's callback: upsertOAuthIdentity. *)

(* The caller's own session is read before the transaction.                 *)
Usable(u) == u \in sessions /\ MaySignIn(u)
Callback(h) ==
  /\ \E s \in Subjects : \E e \in Emails \cup {s} :
     \E link \in {u \in Users : Usable(u)} \cup {None} :
       Begin(h, "identity", [Idle EXCEPT !.subject = s, !.email = e, !.link = link])
  /\ UNCHANGED <<tables, history>>

FindIdentity(h) ==
  LET u == identity[req[h].subject] IN
  /\ at[h] = "identity"
  /\ req' = [req EXCEPT ![h].user = u]
  /\ Go(h, IF u = None THEN "owner" ELSE "update")
  /\ UNCHANGED <<tables, history, begun, cuts>>

(* resolveEmailOwner: an address that is taken is linked only to the        *)
(* caller's own account (OAuthAccountLinkRequiredError).                    *)
AnyOwner(h, u) == TRUE
MayLink(h, u) == u = req[h].link
Resolve(h, u) ==
  IF MayLink(h, u)
  THEN /\ req' = [req EXCEPT ![h].user = u] /\ Go(h, "attach")
       /\ joined' = IF u = req[h].link THEN joined \cup {<<req[h].subject, u>>} ELSE joined
  ELSE End(h) /\ UNCHANGED joined

FindOwner(h) ==
  LET owner == OwnerOf(req[h].email) IN
  /\ at[h] = "owner"
  /\ \/ \E u \in owner : Resolve(h, u)
     \/ owner = {} /\ Go(h, "insert") /\ UNCHANGED <<req, joined>>
  /\ UNCHANGED <<tables, signed, origin, erased, begun, cuts>>

(* INSERT INTO users ... ON CONFLICT (email) DO NOTHING.                    *)
InsertUser(h) ==
  /\ at[h] = "insert" /\ ~EmailHeld(h, req[h].email)
  /\ \/ /\ OwnerOf(req[h].email) # {}
        /\ Go(h, "winner") /\ UNCHANGED <<req, origin>>
     \/ /\ OwnerOf(req[h].email) = {}
        /\ \E u \in Fresh :
             /\ req' = [req EXCEPT ![h].user = u, ![h].new = u]
             /\ origin' = [origin EXCEPT ![u] = req[h].subject]
        /\ Go(h, "attach")
  /\ UNCHANGED <<tables, signed, joined, erased, begun, cuts>>

(* Who won the address may be gone again: the request fails.                *)
FindWinner(h) ==
  LET owner == OwnerOf(req[h].email) IN
  /\ at[h] = "winner"
  /\ \/ \E u \in owner : Resolve(h, u)
     \/ owner = {} /\ End(h) /\ UNCHANGED joined
  /\ UNCHANGED <<tables, signed, origin, erased, begun, cuts>>

(* INSERT INTO auth_identities ... ON CONFLICT DO NOTHING; the foreign key  *)
(* refuses a user who is gone.                                              *)
Exists(h, u) == There(u) \/ u = req[h].new
AttachIdentity(h) ==
  LET s == req[h].subject IN
  /\ at[h] = "attach" /\ ~SubjectHeld(h, s)
  /\ IF identity[s] # None THEN Go(h, "reread") /\ UNCHANGED req
     ELSE IF Exists(h, req[h].user)
     THEN Go(h, "reread") /\ req' = [req EXCEPT ![h].holds = TRUE]
     ELSE End(h)
  /\ UNCHANGED <<tables, history, begun, cuts>>

(* The identity is read again; a candidate who lost is deleted.             *)
KeepLoser(h, winner) == req[h].new
DropLoser(h, winner) == IF req[h].new = winner THEN req[h].new ELSE None
Trusted(h) == req[h].user
Winner(h) == IF req[h].holds THEN req[h].user ELSE identity[req[h].subject]
Reread(h) ==
  /\ at[h] = "reread"
  /\ IF Winner(h) = None THEN End(h)
     ELSE /\ req' = [req EXCEPT ![h].user = Winner(h),
                                ![h].new = DropLoser(h, Winner(h))]
          /\ Go(h, "update")
  /\ UNCHANGED <<tables, history, begun, cuts>>

(* UPDATE auth_identities SET user_id = ... by subject.                     *)
UpdateIdentity(h) ==
  LET s == req[h].subject IN
  /\ at[h] = "update" /\ ~SubjectHeld(h, s)
  /\ IF req[h].holds \/ identity[s] \in {None, req[h].user} \/ Exists(h, req[h].user)
     THEN /\ req' = [req EXCEPT ![h].holds = @ \/ identity[s] # None]
          /\ Go(h, "store")
     ELSE End(h)
  /\ UNCHANGED <<tables, history, begun, cuts>>

(* findOrCreatePrimaryStore, refused for a user who is gone, and COMMIT.    *)
Written(h) ==
  [u \in Users |->
     IF u = req[h].new
     THEN [email |-> req[h].email, password |-> FALSE, active |-> TRUE,
           store |-> u = req[h].user]
     ELSE IF u = req[h].user THEN [account[u] EXCEPT !.store = TRUE] ELSE account[u]]
LeftOpen(h) == req
Committed(h) == [req EXCEPT ![h].new = None, ![h].holds = FALSE]
Commit(h) ==
  /\ at[h] = "store"
  /\ IF Exists(h, req[h].user)
     THEN /\ account' = Written(h)
          /\ identity' = IF req[h].holds
                         THEN [identity EXCEPT ![req[h].subject] = req[h].user]
                         ELSE identity
          /\ req' = Committed(h)
          /\ Go(h, "session")
     ELSE End(h) /\ UNCHANGED <<account, identity>>
  /\ UNCHANGED <<sessions, history, begun, cuts>>

-----------------------------------------------------------------------------
(* The operators' user directory. *)

(* deactivateUser: an UPDATE that hits only an active user, then a DELETE.  *)
Deactivate(h) ==
  /\ \E u \in Users :
       /\ There(u) /\ account[u].active
       /\ account' = [account EXCEPT ![u].active = FALSE]
       /\ Begin(h, "revoke", [Idle EXCEPT !.user = u])
  /\ UNCHANGED <<identity, sessions, history>>
Revoke(h) ==
  /\ at[h] = "revoke"
  /\ sessions' = sessions \ {req[h].user}
  /\ End(h)
  /\ UNCHANGED <<account, identity, history, begun, cuts>>

(* deleteUser: the row is read; a transaction deletes what belongs to the   *)
(* user's stores, the stores, the identities, ...                           *)
Delete(h) ==
  /\ \E u \in Users :
       /\ There(u)
       /\ Begin(h, "detach", [Idle EXCEPT !.user = u])
  /\ UNCHANGED <<tables, history>>
OwnIdentities(u) == {s \in Subjects : identity[s] = u}
Detach(h) ==
  LET u == req[h].user
      owned == OwnIdentities(u) IN
  /\ at[h] = "detach" /\ ~BeingErased(h, u)
  /\ \A s \in owned : ~SubjectHeld(h, s)
  /\ req' = [req EXCEPT ![h].detached = owned]
  /\ Go(h, "erase")
  /\ UNCHANGED <<tables, history, begun, cuts>>

(* ... and the user, whom no identity may refer to any more: one attached   *)
(* since makes the deletion fail as a whole.  Credential and sessions go    *)
(* with the user.                                                           *)
Referred(h) == OwnIdentities(req[h].user) \ req[h].detached # {}
Erase(h) ==
  LET u == req[h].user IN
  /\ at[h] = "erase"
  /\ \A o \in Handlers \ {h} : ~(req[o].holds /\ req[o].user = u)
  /\ IF Referred(h) THEN UNCHANGED <<tables, erased>>
     ELSE /\ account' = [account EXCEPT ![u] = None]
          /\ identity' = [s \in Subjects |->
                            IF s \in req[h].detached THEN None ELSE identity[s]]
          /\ sessions' = sessions \ {u}
          /\ erased' = erased \cup {u}
  /\ End(h)
  /\ UNCHANGED <<signed, joined, origin, begun, cuts>>

-----------------------------------------------------------------------------
(* A request dies; its transaction, if it has one, rolls back.              *)
Abort(h) ==
  /\ at[h] # "idle" /\ cuts < MaxCuts
  /\ cuts' = cuts + 1
  /\ End(h)
  /\ UNCHANGED <<tables, history, begun>>

Upsert(h) == \/ FindIdentity(h) \/ FindOwner(h) \/ InsertUser(h) \/ FindWinner(h)
             \/ AttachIdentity(h) \/ Reread(h) \/ UpdateIdentity(h) \/ Commit(h)
Directory(h) == Revoke(h) \/ Detach(h) \/ Erase(h)
Step(h) == Upsert(h) \/ CreateSession(h) \/ Directory(h)
Arrive(h) == Register(h) \/ Login(h) \/ Callback(h) \/ Deactivate(h) \/ Delete(h)

Next == \E h \in Handlers : Arrive(h) \/ Step(h) \/ Abort(h)

Spec == Init /\ [][Next]_vars

-----------------------------------------------------------------------------
(* Properties *)

(* No half account: whoever is in users has a store and a way to sign in,   *)
(* no two share an address, and nothing refers to a user who is not there,  *)
(* although two callbacks of one subject may each have made a user          *)
(* (oauth-identity.ts:205) and a deletion may cross a callback.             *)
AccountsAreWhole ==
  /\ \A u \in Users : There(u) =>
       /\ account[u].store
       /\ account[u].password \/ OwnIdentities(u) # {}
       /\ OwnerOf(account[u].email) = {u}
  /\ \A s \in Subjects : identity[s] # None => There(identity[s])
  /\ \A u \in sessions : There(u)

(* A subject comes back to the same account as long as that exists,         *)
(* whatever address its profile shows and whoever else is signing in.       *)
SameAccount ==
  \A o \in signed : There(o[2]) => identity[o[1]] = o[2]

(* An identity is at the account it made, or at one whose owner's session   *)
(* came with it: an address in common is not enough, not even when the      *)
(* other account appears between the look-up and the insert                 *)
(* (oauth-account-owner.ts:59-65).                                          *)
LinkedByOwner ==
  \A s \in Subjects : identity[s] # None =>
    \/ origin[identity[s]] = s
    \/ <<s, identity[s]>> \in joined

(* What a request still knows between its statements, although others run.  *)
(* Its locals: a user inserted is the candidate, and only a sign-in carries *)
(* one, the lock on an identity, or identities taken off.                   *)
SigningIn == {"identity", "owner", "insert", "winner", "attach", "reread",
              "update", "store"}
Carrying == {"attach", "reread", "update", "store"}
LocalsFit(label, r) ==
  /\ label \in SigningIn => r.subject \in Subjects /\ r.email \in Addresses
  /\ label \in Carrying \cup {"session", "revoke", "detach", "erase"} => r.user \in Users
  /\ r.new # None => label \in Carrying /\ r.new = r.user
  /\ r.holds => label \in {"reread", "update", "store"}
  /\ label \in {"update", "store"} /\ r.new # None => r.holds
  /\ r.detached # {} => label = "erase"

(* Nobody else has the address, the id or the identity it has written.      *)
NewIsOwn(h, r) ==
  r.new # None =>
    /\ account[r.new] = None /\ r.new \notin erased /\ OwnerOf(r.email) = {}
    /\ \A o \in Handlers \ {h} :
         req[o].new # None => req[o].new # r.new /\ req[o].email # r.email
IdentityIsOwn(h, label, r) ==
  /\ r.holds => ~SubjectHeld(h, r.subject)
  /\ \A s \in r.detached : ~SubjectHeld(h, s)
  /\ label = "erase" =>
       r.detached \subseteq OwnIdentities(r.user) /\ ~BeingErased(h, r.user)

(* Its user is there, will be, or has been deleted; and as long as it is    *)
(* there, the identity it signs in by is at it, by right.                   *)
UserIsKnown(label, r) ==
  /\ label \in Carrying \cup {"session", "detach", "erase"} =>
       There(r.user) \/ r.user = r.new \/ r.user \in erased
  /\ r.holds => There(r.user) \/ r.user = r.new
IdentityIsKnown(label, r) ==
  /\ label \in {"update", "store", "session"} /\ r.subject # None /\ ~r.holds /\ There(r.user) =>
       identity[r.subject] = r.user
  /\ r.holds => identity[r.subject] \in {None, r.user}
Entitled(label, r) ==
  r.holds \/ label = "attach" =>
    origin[r.user] = r.subject \/ <<r.subject, r.user>> \in joined

Knows(h, label, r) ==
  /\ LocalsFit(label, r) /\ NewIsOwn(h, r) /\ IdentityIsOwn(h, label, r)
  /\ UserIsKnown(label, r) /\ IdentityIsKnown(label, r) /\ Entitled(label, r)
RequestKnowledge == \A h \in Handlers : Knows(h, at[h], req[h])

(* An id is never given twice.                                              *)
IdsAreSpent ==
  /\ \A u \in erased : account[u] = None
  /\ \A o \in signed : There(o[2]) \/ o[2] \in erased

(* Whom a request waits for: who has inserted a user of its address, writes  *)
(* or removes an identity it needs, is deleting its user, or holds an        *)
(* identity for the user it would delete.                                   *)
WaitsFor(h, o) ==
  /\ o # h
  /\ \/ /\ at[h] = "insert"
        /\ req[o].new # None /\ req[o].email = req[h].email
     \/ /\ at[h] \in {"attach", "update"}
        /\ \/ req[o].holds /\ req[o].subject = req[h].subject
           \/ req[h].subject \in req[o].detached
     \/ /\ at[h] = "detach"
        /\ \E s \in OwnIdentities(req[h].user) :
             (req[o].holds /\ req[o].subject = s) \/ s \in req[o].detached
     \/ /\ at[h] \in {"session", "detach"}
        /\ at[o] = "erase" /\ req[o].user = req[h].user
     \/ /\ at[h] = "erase"
        /\ req[o].holds /\ req[o].user = req[h].user

(* Sign-ins and deletions never wait for each other in a circle: while a    *)
(* request is under way, one of them can take its next step; a request stands  *)
(* still for those it waits for and for nothing else.                       *)
NoCircularWait ==
  /\ (\E h \in Handlers : at[h] # "idle") => \E h \in Handlers : ENABLED Step(h)
  /\ \A h \in Handlers : at[h] # "idle" =>
       (ENABLED Step(h) <=> \A o \in Handlers : ~WaitsFor(h, o))

(* The same of the locks alone: among any requests, one waits for none of    *)
(* them.                                                                   *)
NoCircleOfWaits ==
  \A S \in (SUBSET Handlers) \ {{}} : \E h \in S : \A o \in S : ~WaitsFor(h, o)

(* Accounts are whole, an identity belongs to the account of its owner, and *)
(* what the requests read is still true when they use it.                   *)
AccountsAreSound ==
  /\ AccountsAreWhole /\ SameAccount /\ LinkedByOwner
  /\ RequestKnowledge /\ IdsAreSpent
==============================================================================
