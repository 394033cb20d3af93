---------------------------- MODULE AccountsProofs ----------------------------
(***************************************************************************)
(* Accounts stay whole, keep their identities and are linked by their       *)
(* owners alone, for every number of requests, users, addresses and         *)
(* identities.                                                             *)
(***************************************************************************)
EXTENDS Accounts, TLAPS

LEMMA InitTyped == Init => TypeOK
<1> SUFFICES ASSUME Init PROVE TypeOK
  OBVIOUS
<1>1. Idle \in Locals
  BY DEF Idle, Locals
<1>2. TablesOK
  BY DEF Init, TablesOK
<1>3. RequestsOK
  BY <1>1 DEF Init, RequestsOK, Labels
<1>4. HistoryOK
  BY BoundsAssumption DEF Init, HistoryOK
<1> QED
  BY <1>2, <1>3, <1>4 DEF TypeOK

(* One request moves, to a label and locals; the others keep theirs.        *)
MovesTo(h, label, locals) ==
  /\ at' = [at EXCEPT ![h] = label] /\ req' = [req EXCEPT ![h] = locals]
  /\ label \in Labels /\ locals \in Locals
  /\ label = "idle" => locals = Idle

LEMMA Moved ==
  ASSUME RequestsOK, NEW h \in Handlers, NEW label, NEW locals, MovesTo(h, label, locals)
  PROVE  /\ RequestsOK'
         /\ at'[h] = label /\ req'[h] = locals
         /\ \A o \in Handlers \ {h} : at'[o] = at[o] /\ req'[o] = req[o]
<1> DEFINE r == locals
<1>1. locals \in Locals /\ label \in Labels /\ (label = "idle" => r = Idle)
  BY DEF MovesTo
<1> HIDE DEF r
<1>2. QED
  BY <1>1 DEF RequestsOK, MovesTo, r

(* The locals of a request, changed as its statements change them.         *)
LEMMA LocalsTyped ==
  ASSUME RequestsOK, NEW h \in Handlers
  PROVE  /\ req[h] \in Locals /\ Idle \in Locals
         /\ \A u \in Users \cup {None} :
              /\ [Idle EXCEPT !.user = u] \in Locals
              /\ [req[h] EXCEPT !.user = u] \in Locals
              /\ \A v \in Users \cup {None} : [req[h] EXCEPT !.user = u, !.new = v] \in Locals
         /\ \A b \in BOOLEAN : [req[h] EXCEPT !.holds = b] \in Locals
         /\ [req[h] EXCEPT !.new = None, !.holds = FALSE] \in Locals
         /\ \A d \in SUBSET Subjects : [req[h] EXCEPT !.detached = d] \in Locals
         /\ [req EXCEPT ![h] = req[h]] = req
<1>1. req[h] \in Locals
  BY DEF RequestsOK
<1>2. Idle \in Locals
  BY DEF Idle, Locals
<1>3. [req EXCEPT ![h] = req[h]] = req
  BY DEF RequestsOK
<1> QED
  BY <1>1, <1>2, <1>3 DEF Locals, Idle

LEMMA HandlerTyped ==
  ASSUME TypeOK, RequestKnowledge, NEW h \in Handlers
  PROVE  /\ RequestsOK /\ LocalsFit(at[h], req[h])
         /\ req[h].subject \in Subjects \cup {None} /\ req[h].email \in Addresses \cup {None}
         /\ req[h].link \in Users \cup {None} /\ req[h].user \in Users \cup {None}
         /\ req[h].new \in Users \cup {None} /\ req[h].holds \in BOOLEAN
         /\ req[h].detached \in SUBSET Subjects
         /\ \A s \in Subjects : identity[s] \in Users \cup {None}
  BY DEF TypeOK, TablesOK, RequestsOK, RequestKnowledge, Knows, Locals

LEMMA RegisterMoves ==
  ASSUME TypeOK, RequestKnowledge, NEW h \in Handlers, Register(h)
  PROVE  \E u \in Fresh : MovesTo(h, "session", [Idle EXCEPT !.user = u])
  BY LocalsTyped, HandlerTyped
  DEF Register, LocalsFit, SigningIn, Carrying, Go, End, Begin, MovesTo, Labels, Fresh

LEMMA LoginMoves ==
  ASSUME TypeOK, RequestKnowledge, NEW h \in Handlers, Login(h)
  PROVE  \E u \in Users : There(u) /\ MovesTo(h, "session", [Idle EXCEPT !.user = u])
  BY LocalsTyped, HandlerTyped
  DEF Login, LocalsFit, SigningIn, Carrying, Go, End, Begin, MovesTo, Labels

LEMMA CallbackMoves ==
  ASSUME TypeOK, RequestKnowledge, NEW h \in Handlers, Callback(h)
  PROVE  \E s \in Subjects, e \in Addresses, l \in Users \cup {None} :
           MovesTo(h, "identity", [Idle EXCEPT !.subject = s, !.email = e, !.link = l])
<1>1. PICK s \in Subjects : \E e \in Emails \cup {s}, l \in Users \cup {None} :
        Begin(h, "identity", [Idle EXCEPT !.subject = s, !.email = e, !.link = l])
  BY DEF Callback
<1>5. PICK e \in Emails \cup {s}, l \in Users \cup {None} :
        Begin(h, "identity", [Idle EXCEPT !.subject = s, !.email = e, !.link = l])
  BY <1>1
<1>2. e \in Addresses
  BY DEF Addresses
<1>3. [Idle EXCEPT !.subject = s, !.email = e, !.link = l] \in Locals
  BY <1>2 DEF Idle, Locals
<1>4. MovesTo(h, "identity", [Idle EXCEPT !.subject = s, !.email = e, !.link = l])
  BY <1>5, <1>3 DEF Begin, Go, MovesTo, Labels
<1> QED
  BY <1>2, <1>4

LEMMA DeactivateMoves ==
  ASSUME TypeOK, RequestKnowledge, NEW h \in Handlers, Deactivate(h)
  PROVE  \E u \in Users : MovesTo(h, "revoke", [Idle EXCEPT !.user = u])
  BY LocalsTyped, HandlerTyped
  DEF Deactivate, LocalsFit, SigningIn, Carrying, Go, End, Begin, MovesTo, Labels

LEMMA DeleteMoves ==
  ASSUME TypeOK, RequestKnowledge, NEW h \in Handlers, Delete(h)
  PROVE  \E u \in Users : There(u) /\ MovesTo(h, "detach", [Idle EXCEPT !.user = u])
  BY LocalsTyped, HandlerTyped
  DEF Delete, LocalsFit, SigningIn, Carrying, Go, End, Begin, MovesTo, Labels

LEMMA FindIdentityMoves ==
  ASSUME TypeOK, RequestKnowledge, NEW h \in Handlers, FindIdentity(h)
  PROVE  MovesTo(h, IF identity[req[h].subject] = None THEN "owner" ELSE "update",
                 [req[h] EXCEPT !.user = identity[req[h].subject]])
  BY LocalsTyped, HandlerTyped
  DEF FindIdentity, LocalsFit, SigningIn, Carrying, Go, End, Begin, MovesTo, Labels

LEMMA FindOwnerMoves ==
  ASSUME TypeOK, RequestKnowledge, NEW h \in Handlers, FindOwner(h)
  PROVE  \/ MovesTo(h, "idle", Idle) /\ joined' = joined
         \/ MovesTo(h, "insert", req[h]) /\ joined' = joined
         \/ \E u \in OwnerOf(req[h].email) :
              /\ joined' = joined \cup {<<req[h].subject, u>>}
              /\ MovesTo(h, "attach", [req[h] EXCEPT !.user = u])
<1>1. ASSUME NEW u \in OwnerOf(req[h].email), Resolve(h, u)
      PROVE  \/ MovesTo(h, "idle", Idle) /\ joined' = joined
             \/ /\ joined' = joined \cup {<<req[h].subject, u>>}
                /\ MovesTo(h, "attach", [req[h] EXCEPT !.user = u])
  <2>1. u \in Users
    BY DEF OwnerOf
  <2> QED
    BY <1>1, <2>1, LocalsTyped, HandlerTyped DEF Resolve, MayLink, Go, End, MovesTo, Labels
<1> QED
  BY <1>1, LocalsTyped, HandlerTyped DEF FindOwner, Go, End, MovesTo, Labels

LEMMA FindWinnerMoves ==
  ASSUME TypeOK, RequestKnowledge, NEW h \in Handlers, FindWinner(h)
  PROVE  \/ MovesTo(h, "idle", Idle) /\ joined' = joined
         \/ \E u \in OwnerOf(req[h].email) :
              /\ joined' = joined \cup {<<req[h].subject, u>>}
              /\ MovesTo(h, "attach", [req[h] EXCEPT !.user = u])
<1>1. ASSUME NEW u \in OwnerOf(req[h].email), Resolve(h, u)
      PROVE  \/ MovesTo(h, "idle", Idle) /\ joined' = joined
             \/ /\ joined' = joined \cup {<<req[h].subject, u>>}
                /\ MovesTo(h, "attach", [req[h] EXCEPT !.user = u])
  <2>1. u \in Users
    BY DEF OwnerOf
  <2> QED
    BY <1>1, <2>1, LocalsTyped, HandlerTyped DEF Resolve, MayLink, Go, End, MovesTo, Labels
<1> QED
  BY <1>1, LocalsTyped, HandlerTyped DEF FindWinner, Go, End, MovesTo, Labels

LEMMA InsertUserMoves ==
  ASSUME TypeOK, RequestKnowledge, NEW h \in Handlers, InsertUser(h)
  PROVE  \/ MovesTo(h, "winner", req[h]) /\ origin' = origin
         \/ \E u \in Fresh : /\ MovesTo(h, "attach", [req[h] EXCEPT !.user = u, !.new = u])
                            /\ OwnerOf(req[h].email) = {} /\ ~EmailHeld(h, req[h].email)
                            /\ origin' = [origin EXCEPT ![u] = req[h].subject]
<1>1. CASE Go(h, "winner") /\ UNCHANGED <<req, origin>>
  BY <1>1, LocalsTyped, HandlerTyped DEF Go, MovesTo, Labels
<1>2. ASSUME NEW u \in Fresh, Go(h, "attach"),
             req' = [req EXCEPT ![h].user = u, ![h].new = u]
      PROVE  MovesTo(h, "attach", [req[h] EXCEPT !.user = u, !.new = u])
  <2>1. u \in Users
    BY DEF Fresh
  <2>2. [req[h] EXCEPT !.user = u, !.new = u] \in Locals
    BY <2>1, LocalsTyped, HandlerTyped
  <2>3. req' = [req EXCEPT ![h] = [req[h] EXCEPT !.user = u, !.new = u]]
    BY <1>2, HandlerTyped DEF RequestsOK, Locals
  <2> QED
    BY <1>2, <2>2, <2>3 DEF Go, MovesTo, Labels
<1> QED
  BY <1>1, <1>2 DEF InsertUser

LEMMA AttachIdentityMoves ==
  ASSUME TypeOK, RequestKnowledge, NEW h \in Handlers, AttachIdentity(h)
  PROVE  \/ MovesTo(h, "idle", Idle)
         \/ identity[req[h].subject] # None /\ MovesTo(h, "reread", req[h])
         \/ /\ identity[req[h].subject] = None /\ Exists(h, req[h].user)
            /\ MovesTo(h, "reread", [req[h] EXCEPT !.holds = TRUE])
  BY LocalsTyped, HandlerTyped
  DEF AttachIdentity, LocalsFit, SigningIn, Carrying, Go, End, Begin, MovesTo, Labels

LEMMA RereadMoves ==
  ASSUME TypeOK, RequestKnowledge, NEW h \in Handlers, Reread(h)
  PROVE  \/ MovesTo(h, "idle", Idle)
         \/ /\ Winner(h) # None
            /\ MovesTo(h, "update", [req[h] EXCEPT !.user = Winner(h),
                                                  !.new = DropLoser(h, Winner(h))])
<1>1. Winner(h) \in Users \cup {None} /\ DropLoser(h, Winner(h)) \in Users \cup {None}
  BY HandlerTyped DEF Winner, DropLoser, LocalsFit, SigningIn, Reread
<1> DEFINE u == Winner(h)
           n == DropLoser(h, Winner(h))
<1>2. u \in Users \cup {None} /\ n \in Users \cup {None}
  BY <1>1
<1>3. \/ End(h)
      \/ /\ u # None /\ Go(h, "update")
         /\ req' = [req EXCEPT ![h].user = u, ![h].new = n]
  BY DEF Reread
<1> HIDE DEF u, n
<1>4. [req[h] EXCEPT !.user = u, !.new = n] \in Locals
  BY <1>2, LocalsTyped, HandlerTyped
<1>5. CASE End(h)
  BY <1>5, LocalsTyped, HandlerTyped DEF End, Go, MovesTo, Labels
<1>6. CASE /\ u # None /\ Go(h, "update")
           /\ req' = [req EXCEPT ![h].user = u, ![h].new = n]
  <2>1. req' = [req EXCEPT ![h] = [req[h] EXCEPT !.user = u, !.new = n]]
    BY <1>6, HandlerTyped DEF RequestsOK, Locals
  <2> QED
    BY <1>4, <1>6, <2>1 DEF Go, MovesTo, Labels, u, n
<1> QED
  BY <1>3, <1>5, <1>6

LEMMA UpdateIdentityMoves ==
  ASSUME TypeOK, RequestKnowledge, NEW h \in Handlers, UpdateIdentity(h)
  PROVE  \/ MovesTo(h, "idle", Idle)
         \/ /\ \/ req[h].holds \/ Exists(h, req[h].user)
               \/ identity[req[h].subject] \in {None, req[h].user}
            /\ MovesTo(h, "store", [req[h] EXCEPT
                 !.holds = req[h].holds \/ identity[req[h].subject] # None])
  BY LocalsTyped, HandlerTyped
  DEF UpdateIdentity, LocalsFit, SigningIn, Carrying, Go, End, Begin, MovesTo, Labels

LEMMA CommitMoves ==
  ASSUME TypeOK, RequestKnowledge, NEW h \in Handlers, Commit(h)
  PROVE  \/ UNCHANGED <<account, identity>> /\ MovesTo(h, "idle", Idle)
         \/ /\ Exists(h, req[h].user) /\ account' = Written(h)
            /\ identity' = IF req[h].holds
                           THEN [identity EXCEPT ![req[h].subject] = req[h].user]
                           ELSE identity
            /\ MovesTo(h, "session", [req[h] EXCEPT !.new = None, !.holds = FALSE])
<1>1. CASE End(h) /\ UNCHANGED <<account, identity>>
  BY <1>1, LocalsTyped, HandlerTyped DEF End, Go, MovesTo, Labels
<1>2. CASE req' = Committed(h) /\ Go(h, "session")
  <2>1. [req[h] EXCEPT !.new = None, !.holds = FALSE] \in Locals
    BY LocalsTyped, HandlerTyped
  <2>2. req' = [req EXCEPT ![h] = [req[h] EXCEPT !.new = None, !.holds = FALSE]]
    BY <1>2, HandlerTyped DEF Committed, RequestsOK, Locals
  <2>3. MovesTo(h, "session", [req[h] EXCEPT !.new = None, !.holds = FALSE])
    BY <1>2, <2>1, <2>2 DEF Go, MovesTo, Labels
  <2> QED
    BY <1>1, <2>3 DEF Commit
<1> QED
  BY <1>1, <1>2 DEF Commit

LEMMA CreateSessionMoves ==
  ASSUME TypeOK, RequestKnowledge, NEW h \in Handlers, CreateSession(h)
  PROVE  MovesTo(h, "idle", Idle)
  BY LocalsTyped, HandlerTyped
  DEF CreateSession, LocalsFit, SigningIn, Carrying, Go, End, Begin, MovesTo, Labels

LEMMA RevokeMoves ==
  ASSUME TypeOK, RequestKnowledge, NEW h \in Handlers, Revoke(h)
  PROVE  MovesTo(h, "idle", Idle)
  BY LocalsTyped, HandlerTyped
  DEF Revoke, LocalsFit, SigningIn, Carrying, Go, End, Begin, MovesTo, Labels

LEMMA DetachMoves ==
  ASSUME TypeOK, RequestKnowledge, NEW h \in Handlers, Detach(h)
  PROVE  MovesTo(h, "erase", [req[h] EXCEPT !.detached = OwnIdentities(req[h].user)])
  BY LocalsTyped, HandlerTyped
  DEF Detach, LocalsFit, SigningIn, Carrying, Go, End, Begin, MovesTo, Labels, OwnIdentities

LEMMA EraseMoves ==
  ASSUME TypeOK, RequestKnowledge, NEW h \in Handlers, Erase(h)
  PROVE  MovesTo(h, "idle", Idle)
  BY LocalsTyped, HandlerTyped
  DEF Erase, LocalsFit, SigningIn, Carrying, Go, End, Begin, MovesTo, Labels

LEMMA AbortMoves ==
  ASSUME TypeOK, RequestKnowledge, NEW h \in Handlers, Abort(h)
  PROVE  MovesTo(h, "idle", Idle)
  BY LocalsTyped, HandlerTyped
  DEF Abort, LocalsFit, SigningIn, Carrying, Go, End, Begin, MovesTo, Labels

(* What a request is about to know, before a step that leaves the tables     *)
(* alone, is all that the step has to show.                                 *)
LEMMA Quiet ==
  ASSUME TypeOK, AccountsAreSound, NEW h \in Handlers, NEW label, NEW r,
         MovesTo(h, label, r),
         UNCHANGED <<account, identity, sessions, signed, erased>>,
         joined \subseteq joined',
         \A u \in Users : origin'[u] = origin[u] \/ u \in Fresh,
         LocalsFit(label, r), NewIsOwn(h, r), IdentityIsOwn(h, label, r),
         UserIsKnown(label, r), IdentityIsKnown(label, r),
         r.holds \/ label = "attach" =>
           origin'[r.user] = r.subject \/ <<r.subject, r.user>> \in joined'
  PROVE  AccountsAreSound'
<1>1. /\ at'[h] = label /\ req'[h] = r /\ r \in Locals
      /\ \A k \in Handlers \ {h} : at'[k] = at[k] /\ req'[k] = req[k]
  BY Moved DEF TypeOK, MovesTo
<1>2. \A k \in Handlers : Knows(k, at[k], req[k]) /\ req[k] \in Locals
  BY DEF AccountsAreSound, RequestKnowledge, TypeOK, RequestsOK
<1>3. /\ \A u : There(u)' <=> There(u)
      /\ \A e : OwnerOf(e)' = OwnerOf(e)
      /\ \A u : OwnIdentities(u)' = OwnIdentities(u)
  BY DEF There, OwnerOf, OwnIdentities
<1>4. AccountsAreWhole' /\ SameAccount' /\ IdsAreSpent'
  BY <1>3 DEF AccountsAreSound, AccountsAreWhole, SameAccount, IdsAreSpent
<1>5. LinkedByOwner'
  BY DEF AccountsAreSound, LinkedByOwner, AccountsAreWhole, Fresh, There, TypeOK, TablesOK
<1>6. ASSUME NEW k \in Handlers PROVE Knows(k, at[k], req[k])'
  <2>1. LocalsFit(at[k], req[k])'
    BY <1>1, <1>2 DEF Knows, LocalsFit
  <2>2. NewIsOwn(k, req[k])'
    BY <1>1, <1>2, <1>3 DEF Knows, NewIsOwn
  <2>3. IdentityIsOwn(k, at[k], req[k])'
    BY <1>1, <1>2, <1>3 DEF Knows, IdentityIsOwn, SubjectHeld, BeingErased
  <2>4. UserIsKnown(at[k], req[k])'
    BY <1>1, <1>2, <1>3 DEF Knows, UserIsKnown
  <2>5. IdentityIsKnown(at[k], req[k])'
    BY <1>1, <1>2, <1>3 DEF Knows, IdentityIsKnown
  <2>6. Entitled(at[k], req[k])'
    BY <1>1, <1>2, <1>3
    DEF Knows, Entitled, UserIsKnown, LocalsFit, Carrying, Fresh, There
  <2> QED
    BY <2>1, <2>2, <2>3, <2>4, <2>5, <2>6 DEF Knows
<1> QED
  BY <1>4, <1>5, <1>6 DEF AccountsAreSound, RequestKnowledge

(* A request that ends, or begins by reading, knows nothing to lose.         *)
LEMMA Quit ==
  ASSUME TypeOK, AccountsAreSound, NEW h \in Handlers, MovesTo(h, "idle", Idle),
         UNCHANGED <<account, identity, sessions, signed, joined, origin, erased>>
  PROVE  AccountsAreSound'
<1> DEFINE l == "idle"
<1>1. /\ LocalsFit(l, Idle) /\ NewIsOwn(h, Idle) /\ IdentityIsOwn(h, l, Idle)
      /\ UserIsKnown(l, Idle) /\ IdentityIsKnown(l, Idle)
      /\ ~Idle.holds
  BY DEF LocalsFit, NewIsOwn, IdentityIsOwn, UserIsKnown, IdentityIsKnown, SigningIn, Carrying, Idle
<1> QED
  BY <1>1, Quiet

LEMMA KnownBefore ==
  ASSUME TypeOK, AccountsAreSound, NEW h \in Handlers
  PROVE  /\ RequestKnowledge /\ Knows(h, at[h], req[h])
         /\ req[h] \in Locals /\ RequestsOK
         /\ \A s \in Subjects : identity[s] # None => identity[s] \in Users /\ There(identity[s])
  BY DEF AccountsAreSound, AccountsAreWhole, RequestKnowledge, TypeOK, RequestsOK, TablesOK

LEMMA LoginKeeps ==
  ASSUME TypeOK, AccountsAreSound, NEW h \in Handlers, Login(h)
  PROVE  AccountsAreSound'
<1>1. PICK u \in Users : There(u) /\ MovesTo(h, "session", [Idle EXCEPT !.user = u])
  BY LoginMoves, KnownBefore
<1> DEFINE r == [Idle EXCEPT !.user = u]
<1>2. /\ LocalsFit("session", r) /\ NewIsOwn(h, r) /\ IdentityIsOwn(h, "session", r)
      /\ UserIsKnown("session", r) /\ IdentityIsKnown("session", r) /\ ~r.holds
  BY <1>1 DEF LocalsFit, NewIsOwn, IdentityIsOwn, UserIsKnown, IdentityIsKnown, SigningIn, Carrying, Idle
<1>3. UNCHANGED <<account, identity, sessions, signed, joined, origin, erased>>
  BY DEF Login, tables, history
<1> HIDE DEF r
<1> QED
  BY <1>1, <1>2, <1>3, Quiet DEF r

LEMMA DeleteKeeps ==
  ASSUME TypeOK, AccountsAreSound, NEW h \in Handlers, Delete(h)
  PROVE  AccountsAreSound'
<1>1. PICK u \in Users : There(u) /\ MovesTo(h, "detach", [Idle EXCEPT !.user = u])
  BY DeleteMoves, KnownBefore
<1> DEFINE r == [Idle EXCEPT !.user = u]
<1>2. /\ LocalsFit("detach", r) /\ NewIsOwn(h, r) /\ IdentityIsOwn(h, "detach", r)
      /\ UserIsKnown("detach", r) /\ IdentityIsKnown("detach", r) /\ ~r.holds
  BY <1>1 DEF LocalsFit, NewIsOwn, IdentityIsOwn, UserIsKnown, IdentityIsKnown, SigningIn, Carrying, Idle
<1>3. UNCHANGED <<account, identity, sessions, signed, joined, origin, erased>>
  BY DEF Delete, tables, history
<1> HIDE DEF r
<1> QED
  BY <1>1, <1>2, <1>3, Quiet DEF r

LEMMA CallbackKeeps ==
  ASSUME TypeOK, AccountsAreSound, NEW h \in Handlers, Callback(h)
  PROVE  AccountsAreSound'
<1>1. PICK s \in Subjects, e \in Addresses, l \in Users \cup {None} :
        MovesTo(h, "identity", [Idle EXCEPT !.subject = s, !.email = e, !.link = l])
  BY CallbackMoves, KnownBefore
<1> DEFINE r == [Idle EXCEPT !.subject = s, !.email = e, !.link = l]
<1>2. /\ LocalsFit("identity", r) /\ NewIsOwn(h, r) /\ IdentityIsOwn(h, "identity", r)
      /\ UserIsKnown("identity", r) /\ IdentityIsKnown("identity", r) /\ ~r.holds
  BY <1>1 DEF LocalsFit, NewIsOwn, IdentityIsOwn, UserIsKnown, IdentityIsKnown, SigningIn, Carrying, Idle
<1>3. UNCHANGED <<account, identity, sessions, signed, joined, origin, erased>>
  BY DEF Callback, tables, history
<1> HIDE DEF r
<1> QED
  BY <1>1, <1>2, <1>3, Quiet DEF r

LEMMA FindIdentityKeeps ==
  ASSUME TypeOK, AccountsAreSound, NEW h \in Handlers, FindIdentity(h)
  PROVE  AccountsAreSound'
<1> DEFINE u == identity[req[h].subject]
           l == IF u = None THEN "owner" ELSE "update"
           r == [req[h] EXCEPT !.user = u]
<1>1. MovesTo(h, l, r)
  BY FindIdentityMoves, KnownBefore
<1>2. at[h] = "identity" /\ UNCHANGED <<account, identity, sessions, signed, joined, origin, erased>>
  BY DEF FindIdentity, tables, history
<1>3. /\ LocalsFit(l, r) /\ NewIsOwn(h, r) /\ IdentityIsOwn(h, l, r)
      /\ UserIsKnown(l, r) /\ IdentityIsKnown(l, r) /\ ~r.holds /\ l # "attach"
  BY <1>1, <1>2, KnownBefore, NamesAssumption
  DEF LocalsFit, NewIsOwn, IdentityIsOwn, UserIsKnown, IdentityIsKnown, SigningIn, Carrying, Knows, Locals
<1> HIDE DEF l, r
<1> QED
  BY <1>1, <1>2, <1>3, Quiet

(* An address that is taken leads on to its owner only.                      *)
LEMMA ResolvedKeeps ==
  ASSUME TypeOK, AccountsAreSound, NEW h \in Handlers, NEW u \in OwnerOf(req[h].email),
         at[h] \in {"owner", "winner"},
         MovesTo(h, "attach", [req[h] EXCEPT !.user = u]),
         joined' = joined \cup {<<req[h].subject, u>>},
         UNCHANGED <<account, identity, sessions, signed, origin, erased>>
  PROVE  AccountsAreSound'
<1> DEFINE r == [req[h] EXCEPT !.user = u]
<1>1. u \in Users /\ There(u)
  BY DEF OwnerOf
<1>2. /\ r.user = u /\ r.subject = req[h].subject /\ ~r.holds
      /\ LocalsFit("attach", r) /\ NewIsOwn(h, r) /\ IdentityIsOwn(h, "attach", r)
      /\ UserIsKnown("attach", r) /\ IdentityIsKnown("attach", r)
  BY <1>1, KnownBefore DEF LocalsFit, NewIsOwn, IdentityIsOwn, UserIsKnown, IdentityIsKnown, SigningIn, Carrying, Knows, Locals
<1>3. <<r.subject, r.user>> \in joined'
  BY <1>2
<1> HIDE DEF r
<1> QED
  BY <1>2, <1>3, Quiet DEF r

LEMMA WaitKeeps ==
  ASSUME TypeOK, AccountsAreSound, NEW h \in Handlers, NEW label,
         MovesTo(h, label, req[h]),
         \/ at[h] = "owner" /\ label = "insert"
         \/ at[h] = "insert" /\ label = "winner"
         \/ at[h] = "attach" /\ label = "reread",
         UNCHANGED <<account, identity, sessions, signed, joined, origin, erased>>
  PROVE  AccountsAreSound'
<1> DEFINE r == req[h]
<1>1. /\ LocalsFit(label, r) /\ NewIsOwn(h, r) /\ IdentityIsOwn(h, label, r)
      /\ UserIsKnown(label, r) /\ IdentityIsKnown(label, r) /\ label # "attach" /\ ~r.holds
  BY KnownBefore DEF LocalsFit, NewIsOwn, IdentityIsOwn, UserIsKnown, IdentityIsKnown, SigningIn, Carrying, Knows, Locals
<1> HIDE DEF r
<1> QED
  BY <1>1, Quiet DEF r

LEMMA FindOwnerKeeps ==
  ASSUME TypeOK, AccountsAreSound, NEW h \in Handlers, FindOwner(h) \/ FindWinner(h)
  PROVE  AccountsAreSound'
<1>1. /\ at[h] \in {"owner", "winner"}
      /\ UNCHANGED <<account, identity, sessions, signed, origin, erased>>
  BY DEF FindOwner, FindWinner, tables
<1>2. \/ MovesTo(h, "idle", Idle) /\ joined' = joined
      \/ at[h] = "owner" /\ MovesTo(h, "insert", req[h]) /\ joined' = joined
      \/ \E u \in OwnerOf(req[h].email) :
           /\ joined' = joined \cup {<<req[h].subject, u>>}
           /\ MovesTo(h, "attach", [req[h] EXCEPT !.user = u])
  BY FindOwnerMoves, FindWinnerMoves, KnownBefore DEF FindOwner
<1> QED
  BY <1>1, <1>2, Quit, WaitKeeps, ResolvedKeeps

LEMMA InsertUserKeeps ==
  ASSUME TypeOK, AccountsAreSound, NEW h \in Handlers, InsertUser(h)
  PROVE  AccountsAreSound'
<1>1. /\ at[h] = "insert"
      /\ UNCHANGED <<account, identity, sessions, signed, joined, erased>>
  BY DEF InsertUser, tables
<1>2. CASE MovesTo(h, "winner", req[h]) /\ origin' = origin
  BY <1>1, <1>2, WaitKeeps
<1>3. ASSUME NEW u \in Fresh,
             MovesTo(h, "attach", [req[h] EXCEPT !.user = u, !.new = u]),
             OwnerOf(req[h].email) = {}, ~EmailHeld(h, req[h].email),
             origin' = [origin EXCEPT ![u] = req[h].subject]
      PROVE  AccountsAreSound'
  <2> DEFINE r == [req[h] EXCEPT !.user = u, !.new = u]
  <2>1. /\ r.user = u /\ r.new = u /\ r.subject = req[h].subject /\ ~r.holds
        /\ r.email = req[h].email /\ r.detached = {} /\ r.subject \in Subjects
        /\ r.email \in Addresses
    BY <1>1, KnownBefore DEF Knows, LocalsFit, SigningIn, Carrying, Locals
  <2>2. u \in Users /\ account[u] = None /\ u \notin erased /\ \A k \in Handlers : req[k].new # u
    BY DEF Fresh
  <2> HIDE DEF r
  <2>3. /\ LocalsFit("attach", r) /\ IdentityIsOwn(h, "attach", r)
        /\ UserIsKnown("attach", r) /\ IdentityIsKnown("attach", r)
    BY <2>1, <2>2 DEF LocalsFit, NewIsOwn, IdentityIsOwn, UserIsKnown, IdentityIsKnown, SigningIn, Carrying
  <2>4. NewIsOwn(h, r)
    BY <1>3, <2>1, <2>2 DEF NewIsOwn, EmailHeld
  <2>5. /\ origin'[r.user] = r.subject
        /\ \A v \in Users : origin'[v] = origin[v] \/ v \in Fresh
    BY <1>3, <2>1, <2>2 DEF TypeOK, HistoryOK
  <2> QED
    BY <1>1, <1>3, <2>3, <2>4, <2>5, Quiet DEF r
<1> QED
  BY <1>2, <1>3, InsertUserMoves, KnownBefore

LEMMA AttachIdentityKeeps ==
  ASSUME TypeOK, AccountsAreSound, NEW h \in Handlers, AttachIdentity(h)
  PROVE  AccountsAreSound'
<1>1. /\ at[h] = "attach" /\ ~SubjectHeld(h, req[h].subject)
      /\ UNCHANGED <<account, identity, sessions, signed, joined, origin, erased>>
  BY DEF AttachIdentity, tables, history
<1>2. CASE MovesTo(h, "idle", Idle)
  BY <1>1, <1>2, Quit
<1>3. CASE MovesTo(h, "reread", req[h])
  BY <1>1, <1>3, WaitKeeps
<1>4. CASE /\ identity[req[h].subject] = None /\ Exists(h, req[h].user)
           /\ MovesTo(h, "reread", [req[h] EXCEPT !.holds = TRUE])
  <2> DEFINE r == [req[h] EXCEPT !.holds = TRUE]
  <2>1. /\ LocalsFit("reread", r) /\ NewIsOwn(h, r) /\ IdentityIsOwn(h, "reread", r)
        /\ UserIsKnown("reread", r) /\ IdentityIsKnown("reread", r)
        /\ Entitled("attach", r)
    BY <1>1, <1>4, KnownBefore DEF LocalsFit, NewIsOwn, IdentityIsOwn, UserIsKnown, IdentityIsKnown, Entitled, SigningIn, Carrying, Knows, Locals, Exists
  <2> HIDE DEF r
  <2> QED
    BY <1>1, <1>4, <2>1, Quiet DEF r, Entitled
<1> QED
  BY <1>2, <1>3, <1>4, AttachIdentityMoves, KnownBefore

LEMMA RereadKeeps ==
  ASSUME TypeOK, AccountsAreSound, NEW h \in Handlers, Reread(h)
  PROVE  AccountsAreSound'
<1>1. at[h] = "reread" /\ UNCHANGED <<account, identity, sessions, signed, joined, origin, erased>>
  BY DEF Reread, tables, history
<1>2. CASE MovesTo(h, "idle", Idle)
  BY <1>1, <1>2, Quit
<1>3. CASE /\ Winner(h) # None
           /\ MovesTo(h, "update", [req[h] EXCEPT !.user = Winner(h),
                                                 !.new = DropLoser(h, Winner(h))])
  <2> DEFINE u == Winner(h)
             n == DropLoser(h, u)
             r == [req[h] EXCEPT !.user = u, !.new = n]
  <2>1. u \in Users /\ IF req[h].holds THEN u = req[h].user ELSE u = identity[req[h].subject] /\ There(u)
    BY <1>1, <1>3, KnownBefore DEF Winner, Knows, LocalsFit, SigningIn, Carrying
  <2>2. IF req[h].holds THEN n = req[h].new ELSE n = None
    BY <1>1, <2>1, KnownBefore DEF DropLoser, Knows, LocalsFit, NewIsOwn, There
  <2>3. /\ r.user = u /\ r.new = n /\ r.subject = req[h].subject
        /\ r.holds = req[h].holds /\ r.email = req[h].email /\ r.detached = req[h].detached
    BY KnownBefore DEF Locals
  <2> HIDE DEF u, n, r
  <2>4. LocalsFit("update", r)
    BY <1>1, <2>1, <2>2, <2>3, KnownBefore DEF LocalsFit, SigningIn, Carrying, Knows
  <2>5. NewIsOwn(h, r)
    BY <2>2, <2>3, KnownBefore DEF NewIsOwn, Knows
  <2>6. IdentityIsOwn(h, "update", r)
    BY <1>1, <2>3, KnownBefore DEF IdentityIsOwn, Knows
  <2>7. UserIsKnown("update", r)
    BY <1>1, <2>1, <2>2, <2>3, KnownBefore DEF UserIsKnown, Carrying, Knows
  <2>8. IdentityIsKnown("update", r)
    BY <2>1, <2>3, KnownBefore DEF IdentityIsKnown, Knows
  <2>9. Entitled("update", r)
    BY <2>1, <2>3, KnownBefore DEF Entitled, Knows
  <2> QED
    BY <1>1, <1>3, <2>4, <2>5, <2>6, <2>7, <2>8, <2>9, Quiet DEF r, n, u, Entitled
<1> QED
  BY <1>2, <1>3, RereadMoves, KnownBefore

LEMMA UpdateIdentityKeeps ==
  ASSUME TypeOK, AccountsAreSound, NEW h \in Handlers, UpdateIdentity(h)
  PROVE  AccountsAreSound'
<1>1. /\ at[h] = "update" /\ ~SubjectHeld(h, req[h].subject)
      /\ UNCHANGED <<account, identity, sessions, signed, joined, origin, erased>>
  BY DEF UpdateIdentity, tables, history
<1>2. CASE MovesTo(h, "idle", Idle)
  BY <1>1, <1>2, Quit
<1>3. CASE /\ \/ req[h].holds \/ Exists(h, req[h].user)
              \/ identity[req[h].subject] \in {None, req[h].user}
           /\ MovesTo(h, "store", [req[h] EXCEPT
                !.holds = req[h].holds \/ identity[req[h].subject] # None])
  <2> DEFINE b == req[h].holds \/ identity[req[h].subject] # None
             r == [req[h] EXCEPT !.holds = b]
  <2>1. /\ r.user = req[h].user /\ r.new = req[h].new /\ r.subject = req[h].subject
        /\ r.holds = b /\ r.email = req[h].email /\ r.detached = req[h].detached
        /\ r.subject \in Subjects /\ r.user \in Users
    BY <1>1, KnownBefore DEF Locals, Knows, LocalsFit, SigningIn, Carrying
  <2>2. CASE req[h].holds \/ identity[req[h].subject] = req[h].user
    <3>1. b
      BY <2>1, <2>2, NamesAssumption
    <3>2. ~req[h].holds => There(req[h].user) /\ identity[req[h].subject] = req[h].user
      BY <2>1, <2>2, KnownBefore, NamesAssumption
    <3> HIDE DEF r
    <3>5. LocalsFit("store", r) /\ UserIsKnown("store", r)
      BY <1>1, <2>1, <3>1, <3>2, KnownBefore DEF LocalsFit, UserIsKnown, SigningIn, Carrying, Knows
    <3>6. NewIsOwn(h, r)
      BY <2>1, KnownBefore DEF NewIsOwn, Knows
    <3>7. IdentityIsOwn(h, "store", r)
      BY <1>1, <2>1, KnownBefore DEF IdentityIsOwn, Knows
    <3>3. IdentityIsKnown("store", r)
      BY <1>1, <2>1, <3>1, <3>2, KnownBefore DEF IdentityIsKnown, Knows
    <3>4. Entitled("store", r)
      BY <1>1, <2>1, <3>2, KnownBefore, NamesAssumption
      DEF Entitled, Knows, AccountsAreSound, LinkedByOwner
    <3> QED
      BY <1>1, <1>3, <3>3, <3>4, <3>5, <3>6, <3>7, Quiet DEF r, Entitled
  <2>3. CASE ~req[h].holds /\ identity[req[h].subject] # req[h].user
    <3>1. ~There(req[h].user) /\ req[h].new = None /\ ~Exists(h, req[h].user)
      BY <1>1, <2>1, <2>3, KnownBefore, NamesAssumption
      DEF Knows, IdentityIsKnown, LocalsFit, Exists, Addresses
    <3>2. ~b
      BY <1>3, <2>1, <2>3, <3>1
    <3> HIDE DEF r
    <3>3. /\ LocalsFit("store", r) /\ NewIsOwn(h, r) /\ IdentityIsOwn(h, "store", r)
          /\ UserIsKnown("store", r) /\ IdentityIsKnown("store", r) /\ ~r.holds
      BY <1>1, <2>1, <3>1, <3>2, KnownBefore DEF LocalsFit, NewIsOwn, IdentityIsOwn, UserIsKnown, IdentityIsKnown, SigningIn, Carrying, Knows
    <3> QED
      BY <1>1, <1>3, <3>3, Quiet DEF r
  <2> QED
    BY <2>2, <2>3
<1> QED
  BY <1>2, <1>3, UpdateIdentityMoves, KnownBefore

LEMMA DetachKeeps ==
  ASSUME TypeOK, AccountsAreSound, NEW h \in Handlers, Detach(h)
  PROVE  AccountsAreSound'
<1> DEFINE r == [req[h] EXCEPT !.detached = OwnIdentities(req[h].user)]
<1>1. /\ at[h] = "detach" /\ ~BeingErased(h, req[h].user)
      /\ \A s \in OwnIdentities(req[h].user) : ~SubjectHeld(h, s)
      /\ UNCHANGED <<account, identity, sessions, signed, joined, origin, erased>>
  BY DEF Detach, tables, history
<1>2. MovesTo(h, "erase", r)
  BY DetachMoves, KnownBefore
<1>3. /\ LocalsFit("erase", r) /\ NewIsOwn(h, r) /\ IdentityIsOwn(h, "erase", r)
      /\ UserIsKnown("erase", r) /\ IdentityIsKnown("erase", r) /\ ~r.holds
  BY <1>1, KnownBefore DEF LocalsFit, NewIsOwn, IdentityIsOwn, UserIsKnown, IdentityIsKnown, SigningIn, Carrying, Knows, Locals
<1> HIDE DEF r
<1> QED
  BY <1>1, <1>2, <1>3, Quiet

LEMMA AbortKeeps ==
  ASSUME TypeOK, AccountsAreSound, NEW h \in Handlers, Abort(h)
  PROVE  AccountsAreSound'
  BY AbortMoves, KnownBefore, Quit DEF Abort, tables, history

(* Everybody else's knowledge, and that of a request with locals of its own. *)
LEMMA KnowsAll ==
  ASSUME TypeOK, AccountsAreSound, NEW h \in Handlers,
         \A k \in Handlers : Knows(k, at[k], req[k])',
         AccountsAreWhole', SameAccount', LinkedByOwner', IdsAreSpent'
  PROVE  AccountsAreSound'
  BY DEF AccountsAreSound, RequestKnowledge

LEMMA MovedBefore ==
  ASSUME TypeOK, AccountsAreSound, NEW h \in Handlers, NEW label, NEW r, MovesTo(h, label, r)
  PROVE  /\ at'[h] = label /\ req'[h] = r /\ r \in Locals
         /\ \A k \in Handlers \ {h} : at'[k] = at[k] /\ req'[k] = req[k]
         /\ \A k \in Handlers : Knows(k, at[k], req[k]) /\ req[k] \in Locals
  BY Moved DEF AccountsAreSound, RequestKnowledge, TypeOK, RequestsOK, MovesTo

LEMMA RegisterKeeps ==
  ASSUME TypeOK, AccountsAreSound, NEW h \in Handlers, Register(h)
  PROVE  AccountsAreSound'
<1>1. PICK e \in Emails :
        /\ ~EmailHeld(h, e) /\ OwnerOf(e) = {}
        /\ \E u \in Fresh :
             /\ Begin(h, "session", [Idle EXCEPT !.user = u])
             /\ account' = [account EXCEPT ![u] =
                  [email |-> e, password |-> TRUE, active |-> TRUE, store |-> TRUE]]
  BY DEF Register
<1>2. PICK u \in Fresh :
        /\ Begin(h, "session", [Idle EXCEPT !.user = u])
        /\ account' = [account EXCEPT ![u] =
             [email |-> e, password |-> TRUE, active |-> TRUE, store |-> TRUE]]
  BY <1>1
<1> DEFINE r == [Idle EXCEPT !.user = u]
<1>3. UNCHANGED <<identity, sessions, signed, joined, origin, erased>>
  BY DEF Register, history
<1>4. u \in Users /\ account[u] = None /\ u \notin erased /\ u # None
      /\ \A k \in Handlers : req[k].new # u
  BY NamesAssumption DEF Fresh
<1>5. MovesTo(h, "session", r)
  BY <1>2, <1>4, KnownBefore, LocalsTyped DEF MovesTo, Begin, Go, Labels
<1>6. /\ at'[h] = "session" /\ req'[h] = r
      /\ \A k \in Handlers \ {h} : at'[k] = at[k] /\ req'[k] = req[k]
      /\ \A k \in Handlers : Knows(k, at[k], req[k]) /\ req[k] \in Locals
  BY <1>5, MovedBefore
<1>7. /\ account' \in [Users -> Accounts \cup {None}]
      /\ account'[u] = [email |-> e, password |-> TRUE, active |-> TRUE, store |-> TRUE]
      /\ account'[u] # None
      /\ \A v \in Users \ {u} : account'[v] = account[v]
  <2> DEFINE a == [email |-> e, password |-> TRUE, active |-> TRUE, store |-> TRUE]
  <2>1. a \in Accounts
    BY DEF Accounts, Addresses
  <2>2. a # None
    BY <2>1, NamesAssumption
  <2> HIDE DEF a
  <2> QED
    BY <1>2, <1>4, <2>1, <2>2 DEF TypeOK, TablesOK, a
<1>8. /\ \A v : There(v)' <=> There(v) \/ v = u
      /\ OwnerOf(e)' = {u}
      /\ \A x : x # e => OwnerOf(x)' = OwnerOf(x)
      /\ \A v : OwnIdentities(v)' = OwnIdentities(v)
  BY <1>1, <1>2, <1>3, <1>4, <1>7 DEF There, OwnerOf, OwnIdentities
<1>9. \A k \in Handlers : req[k].new # None => req[k].email # e
  BY <1>1, <1>2, KnownBefore DEF Begin, EmailHeld, Knows, LocalsFit, RequestKnowledge, Carrying
<1>10. ASSUME NEW k \in Handlers PROVE Knows(k, at[k], req[k])'
  <2> HIDE DEF r
  <2>1. CASE k = h
    <3>1. r = [Idle EXCEPT !.user = u]
      BY DEF r
    <3>2. /\ r.user = u /\ r.new = None /\ r.subject = None /\ r.holds = FALSE
          /\ r.detached = {}
      BY <3>1 DEF Idle
    <3> QED
      BY <1>4, <1>6, <1>8, <2>1, <3>2
      DEF Knows, LocalsFit, NewIsOwn, IdentityIsOwn, UserIsKnown, IdentityIsKnown, Entitled, SigningIn, Carrying
  <2>2. CASE k # h
    <3>1. LocalsFit(at[k], req[k])'
      BY <1>6, <2>2 DEF Knows, LocalsFit
    <3>2. NewIsOwn(k, req[k])'
      <4>1. ~r.holds /\ r.new = None
        BY DEF r, Idle
      <4>2. /\ NewIsOwn(k, req[k]) /\ req[k].new \in Users \cup {None}
            /\ req'[k] = req[k]
        BY <1>6, <2>2 DEF Knows, Locals
      <4>3. ASSUME req[k].new # None
            PROVE  /\ account'[req[k].new] = None /\ req[k].new \notin erased'
                   /\ OwnerOf(req[k].email)' = {}
        <5>1. OwnerOf(req[k].email) = {} /\ account[req[k].new] = None
              /\ req[k].new \notin erased
          BY <4>2, <4>3 DEF NewIsOwn
        <5>2. req[k].email # e /\ req[k].new # u
          BY <1>4, <1>9, <4>3
        <5> QED
          BY <1>3, <1>7, <1>8, <4>2, <4>3, <5>1, <5>2
      <4>4. ASSUME NEW o \in Handlers \ {k}, req[k].new # None, req'[o].new # None
            PROVE  req'[o].new # req[k].new /\ req'[o].email # req[k].email
        BY <1>6, <4>1, <4>2, <4>4 DEF NewIsOwn
      <4> QED
        BY <4>2, <4>3, <4>4 DEF NewIsOwn
    <3>3. IdentityIsOwn(k, at[k], req[k])'
      <4>1. ~r.holds /\ r.detached = {}
        BY DEF r, Idle
      <4> QED
        BY <1>6, <1>8, <2>2, <4>1 DEF Knows, IdentityIsOwn, SubjectHeld, BeingErased
    <3>4. UserIsKnown(at[k], req[k])'
      BY <1>3, <1>6, <1>8, <2>2 DEF Knows, UserIsKnown
    <3>5. IdentityIsKnown(at[k], req[k])'
      BY <1>3, <1>4, <1>6, <1>8, <2>2
      DEF Knows, IdentityIsKnown, UserIsKnown, LocalsFit, Carrying
    <3>6. Entitled(at[k], req[k])'
      BY <1>3, <1>6, <2>2 DEF Knows, Entitled
    <3> QED
      BY <3>1, <3>2, <3>3, <3>4, <3>5, <3>6 DEF Knows
  <2> QED
    BY <2>1, <2>2
<1>11. AccountsAreWhole'
  BY <1>1, <1>3, <1>4, <1>7, <1>8 DEF AccountsAreSound, AccountsAreWhole, OwnerOf, There
<1>12. SameAccount' /\ IdsAreSpent'
  BY <1>3, <1>4, <1>7, <1>8
  DEF AccountsAreSound, SameAccount, IdsAreSpent, TypeOK, HistoryOK
<1>13. LinkedByOwner'
  BY <1>3 DEF AccountsAreSound, LinkedByOwner
<1> QED
  BY <1>10, <1>11, <1>12, <1>13, KnowsAll

(* A step after which the request holds nothing, and everybody is where he   *)
(* was, leaves all knowledge as it is.                                      *)
LEMMA Bystanders ==
  ASSUME TypeOK, AccountsAreSound, NEW h \in Handlers, NEW label, NEW r,
         MovesTo(h, label, r), label \in {"idle", "revoke"},
         r.new = None, ~r.holds, r.detached = {}, label = "revoke" => r.user \in Users,
         UNCHANGED <<identity, joined, origin, erased>>,
         \A u \in Users \cup {None} : There(u)' <=> There(u), \A e : OwnerOf(e)' = OwnerOf(e),
         \A u \in Users : account[u] = None => account'[u] = None
  PROVE  \A k \in Handlers : Knows(k, at[k], req[k])'
<1>1. /\ at'[h] = label /\ req'[h] = r /\ r \in Locals
      /\ \A k \in Handlers \ {h} : at'[k] = at[k] /\ req'[k] = req[k]
      /\ \A k \in Handlers : Knows(k, at[k], req[k]) /\ req[k] \in Locals
  BY MovedBefore
<1>2. \A u : OwnIdentities(u)' = OwnIdentities(u)
  BY DEF OwnIdentities
<1>3. ASSUME NEW k \in Handlers PROVE Knows(k, at[k], req[k])'
  <2>1. LocalsFit(at[k], req[k])'
    BY <1>1 DEF Knows, LocalsFit, SigningIn, Carrying
  <2>2. NewIsOwn(k, req[k])'
    BY <1>1 DEF Knows, NewIsOwn, Locals
  <2>3. IdentityIsOwn(k, at[k], req[k])'
    BY <1>1, <1>2 DEF Knows, IdentityIsOwn, SubjectHeld, BeingErased
  <2>4. UserIsKnown(at[k], req[k])'
    BY <1>1 DEF Knows, UserIsKnown, Carrying, Locals
  <2>5. IdentityIsKnown(at[k], req[k])'
    BY <1>1 DEF Knows, IdentityIsKnown, Locals
  <2>6. Entitled(at[k], req[k])'
    BY <1>1 DEF Knows, Entitled
  <2> QED
    BY <2>1, <2>2, <2>3, <2>4, <2>5, <2>6 DEF Knows
<1> QED
  BY <1>3

LEMMA DeactivateKeeps ==
  ASSUME TypeOK, AccountsAreSound, NEW h \in Handlers, Deactivate(h)
  PROVE  AccountsAreSound'
<1>1. PICK u \in Users :
        /\ There(u)
        /\ account' = [account EXCEPT ![u].active = FALSE]
        /\ Begin(h, "revoke", [Idle EXCEPT !.user = u])
  BY DEF Deactivate
<1> DEFINE r == [Idle EXCEPT !.user = u]
           a == [account[u] EXCEPT !.active = FALSE]
<1>2. UNCHANGED <<identity, sessions, signed, joined, origin, erased>>
  BY DEF Deactivate, history
<1>3. MovesTo(h, "revoke", r)
  BY <1>1, KnownBefore, LocalsTyped DEF MovesTo, Begin, Go, Labels
<1>4. r.new = None /\ ~r.holds /\ r.detached = {} /\ r.user \in Users
  BY DEF Idle
<1>5. account[u] \in Accounts
  BY <1>1 DEF There, TypeOK, TablesOK
<1>6. /\ a \in Accounts /\ a.email = account[u].email
      /\ a.password = account[u].password /\ a.store = account[u].store
  BY <1>5 DEF Accounts
<1> HIDE DEF r, a
<1>7. account'[u] = a /\ a # None /\ \A v \in Users \ {u} : account'[v] = account[v]
  BY <1>1, <1>6, NamesAssumption DEF TypeOK, TablesOK, a
<1>13. \A v \in Users : /\ account'[v] = None <=> account[v] = None
                        /\ account'[v].email = account[v].email
  BY <1>1, <1>6, <1>7 DEF There
<1>14. \A v \in Users : There(v)' <=> There(v)
  BY <1>13 DEF There
<1>8. /\ \A v \in Users \cup {None} : There(v)' <=> There(v)
      /\ \A e : OwnerOf(e)' = OwnerOf(e)
      /\ \A v : OwnIdentities(v)' = OwnIdentities(v)
      /\ \A v \in Users : account[v] = None => account'[v] = None
  BY <1>2, <1>13, <1>14 DEF There, OwnerOf, OwnIdentities
<1>9. \A k \in Handlers : Knows(k, at[k], req[k])'
  BY <1>2, <1>3, <1>4, <1>8, Bystanders
<1>10. AccountsAreWhole'
  <2>1. ASSUME NEW v \in Users, There(v)'
        PROVE  /\ account'[v].store
               /\ account'[v].password \/ OwnIdentities(v)' # {}
               /\ account'[v].email = account[v].email
               /\ OwnerOf(account[v].email) = {v}
    <3>1. /\ account[v].store /\ (account[v].password \/ OwnIdentities(v) # {})
          /\ OwnerOf(account[v].email) = {v}
      BY <1>8, <2>1 DEF AccountsAreSound, AccountsAreWhole
    <3>2. /\ account'[v].store = account[v].store
          /\ account'[v].password = account[v].password
          /\ account'[v].email = account[v].email
      BY <1>6, <1>7
    <3>3. OwnIdentities(v)' = OwnIdentities(v)
      BY <1>8
    <3> QED
      BY <3>1, <3>2, <3>3
  <2>2. ASSUME NEW v \in Users, There(v)' PROVE (OwnerOf(account[v].email) = {v})'
    <3>1. PICK x : x = account[v].email
      OBVIOUS
    <3>2. account'[v].email = x /\ OwnerOf(x) = {v}
      BY <2>1, <2>2, <3>1
    <3>3. OwnerOf(x)' = {v}
      BY <1>8, <3>2
    <3> QED
      BY <3>2, <3>3
  <2>3. \A t \in Subjects : identity'[t] # None => There(identity[t])'
    BY <1>2, <1>8 DEF AccountsAreSound, AccountsAreWhole, TypeOK, TablesOK
  <2>4. \A v \in sessions : There(v)'
    BY <1>8 DEF AccountsAreSound, AccountsAreWhole, TypeOK, TablesOK
  <2> QED
    BY <1>2, <2>1, <2>2, <2>3, <2>4 DEF AccountsAreWhole
<1>11. SameAccount' /\ IdsAreSpent'
  BY <1>2, <1>8 DEF AccountsAreSound, SameAccount, IdsAreSpent, TypeOK, HistoryOK
<1>12. LinkedByOwner'
  BY <1>2 DEF AccountsAreSound, LinkedByOwner
<1> QED
  BY <1>9, <1>10, <1>11, <1>12, KnowsAll

LEMMA RevokeKeeps ==
  ASSUME TypeOK, AccountsAreSound, NEW h \in Handlers, Revoke(h)
  PROVE  AccountsAreSound'
<1>1. /\ sessions' = sessions \ {req[h].user}
      /\ UNCHANGED <<account, identity, signed, joined, origin, erased>>
  BY DEF Revoke, history
<1>2. MovesTo(h, "idle", Idle)
  BY RevokeMoves, KnownBefore
<1>3. /\ \A v : There(v)' <=> There(v)
      /\ \A e : OwnerOf(e)' = OwnerOf(e)
      /\ \A v : OwnIdentities(v)' = OwnIdentities(v)
  BY <1>1 DEF There, OwnerOf, OwnIdentities
<1>4. \A k \in Handlers : Knows(k, at[k], req[k])'
  BY <1>1, <1>2, <1>3, Bystanders DEF Idle
<1>5. AccountsAreWhole' /\ SameAccount' /\ LinkedByOwner' /\ IdsAreSpent'
  BY <1>1, <1>3
  DEF AccountsAreSound, AccountsAreWhole, SameAccount, LinkedByOwner, IdsAreSpent
<1> QED
  BY <1>4, <1>5, KnowsAll

LEMMA CreateSessionKeeps ==
  ASSUME TypeOK, AccountsAreSound, NEW h \in Handlers, CreateSession(h)
  PROVE  AccountsAreSound'
<1> DEFINE u == req[h].user
           s == req[h].subject
<1>1. /\ at[h] = "session"
      /\ UNCHANGED <<account, identity, joined, origin, erased>>
      /\ \/ /\ There(u) /\ sessions' = sessions \cup {u}
            /\ signed' = IF s = None THEN signed ELSE signed \cup {<<s, u>>}
         \/ UNCHANGED <<sessions, signed>>
  BY DEF CreateSession, MaySignIn
<1>2. MovesTo(h, "idle", Idle)
  BY CreateSessionMoves, KnownBefore
<1>3. /\ \A v : There(v)' <=> There(v)
      /\ \A e : OwnerOf(e)' = OwnerOf(e)
      /\ \A v : OwnIdentities(v)' = OwnIdentities(v)
  BY <1>1 DEF There, OwnerOf, OwnIdentities
<1>4. \A k \in Handlers : Knows(k, at[k], req[k])'
  BY <1>1, <1>2, <1>3, Bystanders DEF Idle
<1>5. s # None /\ There(u) => identity[s] = u
  BY <1>1, KnownBefore DEF Knows, IdentityIsKnown, LocalsFit
<1>6. AccountsAreWhole'
  BY <1>1, <1>3 DEF AccountsAreSound, AccountsAreWhole
<1>7. SameAccount' /\ IdsAreSpent'
  BY <1>1, <1>3, <1>5 DEF AccountsAreSound, SameAccount, IdsAreSpent
<1>8. LinkedByOwner'
  BY <1>1 DEF AccountsAreSound, LinkedByOwner
<1> QED
  BY <1>4, <1>6, <1>7, <1>8, KnowsAll

(* The transaction of a sign-in becomes visible.                            *)
LEMMA CommitKeeps ==
  ASSUME TypeOK, AccountsAreSound, NEW h \in Handlers, Commit(h)
  PROVE  AccountsAreSound'
<1> DEFINE r == [req[h] EXCEPT !.new = None, !.holds = FALSE]
<1>1. /\ at[h] = "store"
      /\ UNCHANGED <<sessions, signed, joined, origin, erased>>
  BY DEF Commit, history
<1>2. CASE UNCHANGED <<account, identity>> /\ MovesTo(h, "idle", Idle)
  BY <1>1, <1>2, Quit
<1>3. CASE /\ Exists(h, req[h].user) /\ account' = Written(h)
           /\ identity' = IF req[h].holds
                          THEN [identity EXCEPT ![req[h].subject] = req[h].user]
                          ELSE identity
           /\ MovesTo(h, "session", r)
  <2>0. PICK u, s, e, new, holds :
          /\ u = req[h].user /\ s = req[h].subject /\ e = req[h].email
          /\ new = req[h].new /\ holds = req[h].holds /\ holds \in BOOLEAN
    BY KnownBefore DEF Locals
  <2>1. /\ u \in Users /\ s \in Subjects /\ e \in Addresses /\ new \in {None, u}
        /\ new # None => holds
        /\ holds => identity[s] \in {None, u}
        /\ holds => origin[u] = s \/ <<s, u>> \in joined
        /\ new = None => There(u)
        /\ new # None => account[u] = None /\ u \notin erased /\ OwnerOf(e) = {}
        /\ ~holds => identity[s] = u
    BY <1>1, <1>3, <2>0, KnownBefore, NamesAssumption
    DEF Knows, LocalsFit, SigningIn, Carrying, Exists, NewIsOwn, IdentityIsKnown,
        Entitled, Addresses
  <2>2. u # None /\ u \notin erased
    BY <2>1, NamesAssumption DEF AccountsAreSound, IdsAreSpent, There
  <2>3. /\ r.user = u /\ r.subject = s /\ r.new = None /\ ~r.holds
        /\ r.detached = {}
    BY <1>1, <2>0, KnownBefore DEF Locals, Knows, LocalsFit
  <2>4. /\ at'[h] = "session" /\ req'[h] = r
        /\ \A k \in Handlers \ {h} : at'[k] = at[k] /\ req'[k] = req[k]
        /\ \A k \in Handlers : Knows(k, at[k], req[k]) /\ req[k] \in Locals
    BY <1>3, MovedBefore
  <2> DEFINE a == [email |-> e, password |-> FALSE, active |-> TRUE, store |-> TRUE]
             b == [account[u] EXCEPT !.store = TRUE]
  <2>5. /\ new # None => account'[u] = a
        /\ new = None => account'[u] = b
        /\ \A v \in Users \ {u} : account'[v] = account[v]
    <3>1. ASSUME NEW v \in Users
          PROVE  account'[v] =
                   IF v = new
                   THEN [email |-> e, password |-> FALSE, active |-> TRUE, store |-> v = u]
                   ELSE IF v = u THEN [account[v] EXCEPT !.store = TRUE] ELSE account[v]
      BY <1>3, <2>0 DEF Written
    <3>2. new # None => account'[u] = a
      <4>1. SUFFICES ASSUME new # None PROVE account'[u] = a
        OBVIOUS
      <4>2. new = u /\ (u = u) = TRUE
        BY <2>1, <4>1
      <4> QED
        BY <2>1, <3>1, <4>2
    <3>3. new = None => account'[u] = b
      BY <2>1, <2>2, <3>1
    <3>4. ASSUME NEW v \in Users \ {u} PROVE account'[v] = account[v]
      <4>1. v # u /\ v # new
        BY <2>1, NamesAssumption
      <4> QED
        BY <3>1, <4>1
    <3> QED
      BY <3>2, <3>3, <3>4
  <2>6. a \in Accounts /\ a.email = e /\ a.store
    BY <2>1 DEF Accounts
  <2>7. new = None => /\ b \in Accounts /\ b.email = account[u].email
                      /\ b.password = account[u].password /\ b.store
    BY <2>1 DEF There, TypeOK, TablesOK, Accounts
  <2>8. /\ \A v \in Users \ {u} : identity[s] # v \/ ~holds
        /\ \A t \in Subjects : identity'[t] = IF holds /\ t = s THEN u ELSE identity[t]
    BY <1>3, <2>0, <2>1, NamesAssumption DEF TypeOK, TablesOK
  <2> HIDE DEF r, a, b
  <2>9. /\ \A v \in Users \cup {None} : There(v)' <=> There(v) \/ v = u
        /\ \A v \in Users \ {u} : OwnIdentities(v)' = OwnIdentities(v)
        /\ OwnIdentities(u) \subseteq OwnIdentities(u)'
        /\ holds => s \in OwnIdentities(u)'
    <3>1. account'[u] # None
      BY <2>1, <2>5, <2>6, <2>7, NamesAssumption
    <3>2. \A v \in Users \cup {None} : There(v)' <=> There(v) \/ v = u
      BY <2>1, <2>2, <2>5, <3>1 DEF There
    <3>3. /\ \A v \in Users \ {u} : OwnIdentities(v)' = OwnIdentities(v)
          /\ OwnIdentities(u) \subseteq OwnIdentities(u)'
          /\ holds => s \in OwnIdentities(u)'
      BY <2>1, <2>8 DEF OwnIdentities
    <3> QED
      BY <3>2, <3>3
  <2>10. /\ new # None => /\ OwnerOf(e)' = {u}
                          /\ \A x : x # e => OwnerOf(x)' = OwnerOf(x)
         /\ new = None => \A x : OwnerOf(x)' = OwnerOf(x)
    <3>1. CASE new # None
      BY <2>1, <2>2, <2>5, <2>6, <2>9, <3>1 DEF OwnerOf, There
    <3>2. CASE new = None
      BY <2>1, <2>2, <2>5, <2>7, <2>9, <3>2 DEF OwnerOf, There
    <3> QED
      BY <3>1, <3>2
  <2>11. ASSUME NEW k \in Handlers, k # h PROVE Knows(k, at[k], req[k])'
    <3>1. /\ at'[k] = at[k] /\ req'[k] = req[k] /\ Knows(k, at[k], req[k])
          /\ req[k] \in Locals
      BY <2>4, <2>11
    <3>2. req[k].new # None => req[k].new # u /\ (new # None => req[k].email # e)
      BY <2>0, <2>1, <2>4, <2>11, <3>1 DEF Knows, NewIsOwn, There
    <3>3. LocalsFit(at[k], req[k])'
      BY <3>1 DEF Knows, LocalsFit
    <3>4. NewIsOwn(k, req[k])'
      <4>1. /\ NewIsOwn(k, req[k]) /\ req[k].new \in Users \cup {None}
        BY <3>1 DEF Knows, Locals
      <4>2. ASSUME req[k].new # None
            PROVE  /\ account'[req[k].new] = None /\ req[k].new \notin erased'
                   /\ OwnerOf(req[k].email)' = {}
        BY <1>1, <2>5, <2>10, <3>1, <3>2, <4>1, <4>2 DEF NewIsOwn
      <4>3. ASSUME NEW o \in Handlers \ {k}, req[k].new # None, req'[o].new # None
            PROVE  req'[o].new # req[k].new /\ req'[o].email # req[k].email
        BY <2>3, <2>4, <4>1, <4>3 DEF NewIsOwn
      <4> QED
        BY <3>1, <4>1, <4>2, <4>3 DEF NewIsOwn
    <3>5. IdentityIsOwn(k, at[k], req[k])'
      <4>1. IdentityIsOwn(k, at[k], req[k])
        BY <3>1 DEF Knows
      <4>2. \A t : SubjectHeld(k, t)' => SubjectHeld(k, t)
        BY <2>3, <2>4 DEF SubjectHeld
      <4>3. \A v : BeingErased(k, v)' => BeingErased(k, v)
        BY <2>4 DEF BeingErased
      <4>4. at[k] = "erase" => req[k].user \in Users
        BY <3>1 DEF Knows, LocalsFit
      <4>5. \A v \in Users : OwnIdentities(v) \subseteq OwnIdentities(v)'
        BY <2>9
      <4> QED
        BY <3>1, <4>1, <4>2, <4>3, <4>4, <4>5 DEF IdentityIsOwn
    <3>6. UserIsKnown(at[k], req[k])'
      BY <1>1, <2>9, <3>1 DEF Knows, UserIsKnown, Locals
    <3>7. IdentityIsKnown(at[k], req[k])'
      <4>1. IdentityIsKnown(at[k], req[k]) /\ UserIsKnown(at[k], req[k])
        BY <3>1 DEF Knows
      <4>2. req[k].holds => req[k].subject # s \/ ~holds
        BY <2>0, <2>4, <2>11, <3>1 DEF Knows, IdentityIsOwn, SubjectHeld
      <4>3. req[k].user = u /\ at[k] \in {"update", "store", "session"} => There(u)
        BY <2>1, <2>2, <3>1, <3>2, <4>1 DEF UserIsKnown, Carrying
      <4>4. ASSUME at[k] \in {"update", "store", "session"}, req[k].subject # None,
                   ~req[k].holds, There(req[k].user)'
            PROVE  identity'[req[k].subject] = req[k].user
        <5>1. There(req[k].user) /\ req[k].subject \in Subjects /\ req[k].user \in Users
          BY <2>9, <3>1, <4>3, <4>4 DEF Locals, There
        <5>2. identity[req[k].subject] = req[k].user
          BY <4>1, <4>4, <5>1 DEF IdentityIsKnown
        <5> QED
          BY <2>1, <2>8, <5>1, <5>2, NamesAssumption
      <4>5. ASSUME req[k].holds PROVE identity'[req[k].subject] \in {None, req[k].user}
        <5>1. req[k].subject \in Subjects
          BY <3>1, <4>5 DEF Knows, LocalsFit, SigningIn
        <5> QED
          BY <2>8, <4>1, <4>2, <4>5, <5>1 DEF IdentityIsKnown
      <4> QED
        BY <3>1, <4>4, <4>5 DEF IdentityIsKnown
    <3>8. Entitled(at[k], req[k])'
      BY <1>1, <3>1 DEF Knows, Entitled
    <3> QED
      BY <3>3, <3>4, <3>5, <3>6, <3>7, <3>8 DEF Knows
  <2>12. Knows(h, at[h], req[h])'
    <3>1. identity'[s] = u
      BY <2>1, <2>8
    <3> QED
      BY <2>1, <2>3, <2>4, <2>9, <3>1
      DEF Knows, LocalsFit, NewIsOwn, IdentityIsOwn, UserIsKnown, IdentityIsKnown,
          Entitled, SigningIn, Carrying
  <2>13. AccountsAreWhole'
    <3>1. ASSUME NEW v \in Users, There(v)'
          PROVE  /\ account'[v].store
                 /\ account'[v].password \/ OwnIdentities(v)' # {}
                 /\ \E x : account'[v].email = x /\ OwnerOf(x)' = {v}
      <4>1. CASE v # u
        <5>1. There(v) /\ account'[v] = account[v] /\ OwnIdentities(v)' = OwnIdentities(v)
          BY <2>5, <2>9, <3>1, <4>1
        <5>2. PICK x : x = account[v].email
          OBVIOUS
        <5>3. account[v].store /\ (account[v].password \/ OwnIdentities(v) # {}) /\ OwnerOf(x) = {v}
          BY <5>1, <5>2 DEF AccountsAreSound, AccountsAreWhole
        <5>4. new # None => x # e
          BY <2>1, <5>3
        <5>5. OwnerOf(x)' = {v}
          BY <2>1, <2>10, <5>3, <5>4
        <5> QED
          BY <5>1, <5>2, <5>3, <5>5
      <4>2. CASE v = u /\ new # None
        <5>1. account'[u] = a /\ OwnerOf(e)' = {u} /\ s \in OwnIdentities(u)'
          BY <2>1, <2>5, <2>9, <2>10, <4>2
        <5> QED
          BY <2>6, <4>2, <5>1
      <4>3. CASE v = u /\ new = None
        <5>1. There(u) /\ account'[u] = b /\ OwnIdentities(u) \subseteq OwnIdentities(u)'
          BY <2>1, <2>5, <2>9, <4>3
        <5>2. PICK x : x = account[u].email
          OBVIOUS
        <5>3. account[u].store /\ (account[u].password \/ OwnIdentities(u) # {}) /\ OwnerOf(x) = {u}
          BY <2>1, <5>1, <5>2 DEF AccountsAreSound, AccountsAreWhole
        <5>4. OwnerOf(x)' = {u}
          BY <2>10, <4>3, <5>3
        <5> QED
          BY <2>7, <4>3, <5>1, <5>2, <5>3, <5>4
      <4> QED
        BY <4>1, <4>2, <4>3
    <3>2. ASSUME NEW t \in Subjects, identity'[t] # None PROVE There(identity[t])'
      BY <2>1, <2>8, <2>9, <3>2 DEF AccountsAreSound, AccountsAreWhole, TypeOK, TablesOK
    <3>3. \A v \in sessions : v \in Users /\ There(v)
      BY DEF AccountsAreSound, AccountsAreWhole, TypeOK, TablesOK
    <3> QED
      BY <1>1, <2>9, <3>1, <3>2, <3>3 DEF AccountsAreWhole
  <2>14. SameAccount'
    <3>1. ASSUME NEW o \in signed, There(o[2])' PROVE identity'[o[1]] = o[2]
      <4>1. o[1] \in Subjects /\ o[2] \in Users
        BY DEF TypeOK, HistoryOK
      <4>2. There(o[2])
        BY <2>2, <2>9, <3>1, <4>1 DEF AccountsAreSound, IdsAreSpent
      <4> QED
        BY <2>1, <2>8, <4>1, <4>2, NamesAssumption DEF AccountsAreSound, SameAccount
    <3> QED
      BY <1>1, <3>1 DEF SameAccount
  <2>15. LinkedByOwner'
    BY <1>1, <2>1, <2>8 DEF AccountsAreSound, LinkedByOwner
  <2>16. IdsAreSpent'
    BY <1>1, <2>2, <2>5, <2>9 DEF AccountsAreSound, IdsAreSpent, TypeOK, HistoryOK
  <2> QED
    BY <2>11, <2>12, <2>13, <2>14, <2>15, <2>16, KnowsAll
<1> QED
  BY <1>2, <1>3, CommitMoves, KnownBefore

(* A user is deleted, with the identities nobody else has touched.          *)
LEMMA EraseKeeps ==
  ASSUME TypeOK, AccountsAreSound, NEW h \in Handlers, Erase(h)
  PROVE  AccountsAreSound'
<1>1. /\ at[h] = "erase" /\ UNCHANGED <<signed, joined, origin>>
      /\ \A o \in Handlers \ {h} : ~(req[o].holds /\ req[o].user = req[h].user)
  BY DEF Erase
<1>2. MovesTo(h, "idle", Idle)
  BY EraseMoves, KnownBefore
<1>3. CASE Referred(h)
  BY <1>1, <1>2, <1>3, Quit DEF Erase, tables
<1>4. CASE ~Referred(h)
  <2>1. PICK u, d : u = req[h].user /\ d = req[h].detached
    OBVIOUS
  <2>2. /\ account' = [account EXCEPT ![u] = None]
        /\ identity' = [t \in Subjects |-> IF t \in d THEN None ELSE identity[t]]
        /\ sessions' = sessions \ {u} /\ erased' = erased \cup {u}
    BY <1>4, <2>1 DEF Erase
  <2>3. u \in Users /\ d = OwnIdentities(u) /\ d \subseteq Subjects
    BY <1>1, <1>4, <2>1, KnownBefore
    DEF Referred, Knows, LocalsFit, IdentityIsOwn, Carrying, SigningIn, OwnIdentities
  <2>4. /\ at'[h] = "idle" /\ req'[h] = Idle
        /\ \A k \in Handlers \ {h} : at'[k] = at[k] /\ req'[k] = req[k]
        /\ \A k \in Handlers : Knows(k, at[k], req[k]) /\ req[k] \in Locals
    BY <1>2, MovedBefore
  <2>5. /\ account'[u] = None /\ \A v \in Users \ {u} : account'[v] = account[v]
        /\ \A t \in Subjects :
             identity'[t] = IF identity[t] = u THEN None ELSE identity[t]
    BY <2>2, <2>3 DEF OwnIdentities, TypeOK, TablesOK
  <2>6. /\ \A v \in Users \cup {None} : There(v)' <=> There(v) /\ v # u
        /\ \A e : OwnerOf(e)' = OwnerOf(e) \ {u}
        /\ \A v \in Users \ {u} : OwnIdentities(v)' = OwnIdentities(v)
    <3>1. \A v \in Users \cup {None} : There(v)' <=> There(v) /\ v # u
      BY <2>3, <2>5 DEF There
    <3>2. \A e : OwnerOf(e)' = OwnerOf(e) \ {u}
      BY <2>5, <3>1 DEF OwnerOf
    <3>3. ASSUME NEW v \in Users \ {u} PROVE OwnIdentities(v)' = OwnIdentities(v)
      BY <2>5, NamesAssumption DEF OwnIdentities
    <3> QED
      BY <3>1, <3>2, <3>3
  <2>7. There(u) \/ u \in erased
    <3>1. UserIsKnown("erase", req[h]) /\ req[h].new = None
      BY <1>1, <2>4 DEF Knows, LocalsFit, Carrying
    <3> QED
      BY <2>1, <2>3, <3>1, NamesAssumption DEF UserIsKnown
  <2>8. ~Idle.holds /\ Idle.new = None /\ Idle.detached = {}
    BY DEF Idle
  <2>9. ASSUME NEW k \in Handlers, k # h PROVE Knows(k, at[k], req[k])'
    <3>1. /\ at'[k] = at[k] /\ req'[k] = req[k] /\ Knows(k, at[k], req[k])
          /\ req[k] \in Locals
      BY <2>4, <2>9
    <3>2. req[k].new # None => req[k].new # u
      BY <2>7, <3>1 DEF Knows, NewIsOwn, There
    <3>3. LocalsFit(at[k], req[k])'
      BY <3>1 DEF Knows, LocalsFit
    <3>4. NewIsOwn(k, req[k])'
      <4>1. NewIsOwn(k, req[k]) /\ req[k].new \in Users \cup {None}
        BY <3>1 DEF Knows, Locals
      <4>2. ASSUME req[k].new # None
            PROVE  /\ account'[req[k].new] = None /\ req[k].new \notin erased'
                   /\ OwnerOf(req[k].email)' = {}
        <5>1. PICK n : n = req[k].new
          OBVIOUS
        <5>2. account[n] = None /\ n \notin erased /\ n \in Users \ {u}
          BY <3>2, <4>1, <4>2, <5>1 DEF NewIsOwn
        <5>3. account'[n] = None /\ n \notin erased'
          BY <2>2, <2>5, <5>2
        <5>4. OwnerOf(req[k].email) = {}
          BY <4>1, <4>2 DEF NewIsOwn
        <5> QED
          BY <2>6, <3>1, <5>1, <5>3, <5>4
      <4>3. ASSUME NEW o \in Handlers \ {k}, req[k].new # None, req'[o].new # None
            PROVE  req'[o].new # req[k].new /\ req'[o].email # req[k].email
        BY <2>4, <2>8, <4>1, <4>3 DEF NewIsOwn
      <4> QED
        BY <3>1, <4>1, <4>2, <4>3 DEF NewIsOwn
    <3>5. IdentityIsOwn(k, at[k], req[k])'
      <4>1. IdentityIsOwn(k, at[k], req[k])
        BY <3>1 DEF Knows
      <4>2. \A t : SubjectHeld(k, t)' => SubjectHeld(k, t)
        BY <2>4, <2>8 DEF SubjectHeld
      <4>3. \A v : BeingErased(k, v)' => BeingErased(k, v)
        BY <2>4 DEF BeingErased
      <4>4. at[k] = "erase" => req[k].user \in Users \ {u}
        BY <1>1, <2>1, <2>9, <3>1, <4>1 DEF Knows, LocalsFit, IdentityIsOwn, BeingErased
      <4> QED
        BY <2>6, <3>1, <4>1, <4>2, <4>3, <4>4 DEF IdentityIsOwn
    <3>6. UserIsKnown(at[k], req[k])'
      BY <1>1, <2>1, <2>2, <2>6, <2>9, <3>1 DEF Knows, UserIsKnown, Locals
    <3>7. IdentityIsKnown(at[k], req[k])'
      <4>1. IdentityIsKnown(at[k], req[k])
        BY <3>1 DEF Knows
      <4>2. ASSUME at[k] \in {"update", "store", "session"}, req[k].subject # None,
                   ~req[k].holds, There(req[k].user)'
            PROVE  identity'[req[k].subject] = req[k].user
        <5>1. /\ There(req[k].user) /\ req[k].user # u /\ req[k].subject \in Subjects
          BY <2>6, <3>1, <4>2 DEF Locals
        <5>2. identity[req[k].subject] = req[k].user
          BY <4>1, <4>2, <5>1 DEF IdentityIsKnown
        <5> QED
          BY <2>5, <5>1, <5>2
      <4>3. ASSUME req[k].holds PROVE identity'[req[k].subject] \in {None, req[k].user}
        <5>1. req[k].subject \in Subjects
          BY <3>1, <4>3 DEF Knows, LocalsFit, SigningIn
        <5> QED
          BY <2>5, <4>1, <4>3, <5>1 DEF IdentityIsKnown
      <4> QED
        BY <3>1, <4>2, <4>3 DEF IdentityIsKnown
    <3>8. Entitled(at[k], req[k])'
      BY <1>1, <3>1 DEF Knows, Entitled
    <3> QED
      BY <3>3, <3>4, <3>5, <3>6, <3>7, <3>8 DEF Knows
  <2>10. Knows(h, at[h], req[h])'
    BY <2>4, <2>8
    DEF Knows, LocalsFit, NewIsOwn, IdentityIsOwn, UserIsKnown, IdentityIsKnown,
        Entitled, SigningIn, Carrying
  <2>11. AccountsAreWhole'
    <3>1. ASSUME NEW v \in Users, There(v)'
          PROVE  /\ account'[v].store
                 /\ account'[v].password \/ OwnIdentities(v)' # {}
                 /\ \E x : account'[v].email = x /\ OwnerOf(x)' = {v}
      <4>1. /\ v # u /\ There(v) /\ account'[v] = account[v]
            /\ OwnIdentities(v)' = OwnIdentities(v)
        BY <2>5, <2>6, <3>1
      <4>2. PICK x : x = account[v].email
        OBVIOUS
      <4>3. /\ account[v].store /\ (account[v].password \/ OwnIdentities(v) # {})
            /\ OwnerOf(x) = {v}
        BY <4>1, <4>2 DEF AccountsAreSound, AccountsAreWhole
      <4>4. OwnerOf(x)' = {v}
        BY <2>6, <4>1, <4>3
      <4> QED
        BY <4>1, <4>2, <4>3, <4>4
    <3>2. ASSUME NEW t \in Subjects, identity'[t] # None PROVE There(identity[t])'
      BY <2>5, <2>6, <3>2, KnownBefore
    <3>3. \A v \in sessions : v \in Users /\ There(v)
      BY DEF AccountsAreSound, AccountsAreWhole, TypeOK, TablesOK
    <3> QED
      BY <2>2, <2>6, <3>1, <3>2, <3>3 DEF AccountsAreWhole
  <2>12. SameAccount' /\ IdsAreSpent'
    <3>1. \A o \in signed : o[1] \in Subjects /\ o[2] \in Users
      BY DEF TypeOK, HistoryOK
    <3>2. SameAccount'
      BY <1>1, <2>5, <2>6, <3>1 DEF AccountsAreSound, SameAccount
    <3>3. IdsAreSpent'
      BY <1>1, <2>2, <2>5, <2>6, <3>1 DEF AccountsAreSound, IdsAreSpent, TypeOK, HistoryOK
    <3> QED
      BY <3>2, <3>3
  <2>13. LinkedByOwner'
    BY <1>1, <2>5 DEF AccountsAreSound, LinkedByOwner
  <2> QED
    BY <2>9, <2>10, <2>11, <2>12, <2>13, KnowsAll
<1> QED
  BY <1>3, <1>4

-----------------------------------------------------------------------------
(* Types *)

(* The rows and the history keep their types, whichever request moves.      *)
LEMMA ArriveTyped ==
  ASSUME TypeOK, RequestKnowledge, NEW h \in Handlers, Arrive(h)
  PROVE  TablesOK' /\ HistoryOK' /\ RequestsOK'
<1>1. TablesOK /\ HistoryOK /\ RequestsOK
  BY DEF TypeOK
<1>2. begun < MaxRequests => begun + 1 \in 0 .. MaxRequests
  BY <1>1, BoundsAssumption DEF HistoryOK
<1>3. begun < MaxRequests /\ begun' = begun + 1 /\ cuts' = cuts
  BY DEF Arrive, Register, Login, Callback, Deactivate, Delete, Begin
<1>4. UNCHANGED history
  BY DEF Arrive, Register, Login, Callback, Deactivate, Delete
<1>5. HistoryOK'
  BY <1>1, <1>2, <1>3, <1>4 DEF HistoryOK, history
<1>6. RequestsOK'
  BY <1>1, Moved, RegisterMoves, LoginMoves, CallbackMoves, DeactivateMoves, DeleteMoves
  DEF Arrive
<1>7. CASE Register(h)
  <2>1. PICK e \in Emails : \E u \in Fresh :
          account' = [account EXCEPT ![u] =
            [email |-> e, password |-> TRUE, active |-> TRUE, store |-> TRUE]]
    BY <1>7 DEF Register
  <2>2. [email |-> e, password |-> TRUE, active |-> TRUE, store |-> TRUE] \in Accounts
    BY DEF Accounts, Addresses
  <2> QED
    BY <1>1, <1>5, <1>6, <1>7, <2>1, <2>2 DEF TablesOK, Register
<1>8. CASE Deactivate(h)
  <2>1. PICK u \in Users :
          There(u) /\ account' = [account EXCEPT ![u].active = FALSE]
    BY <1>8 DEF Deactivate
  <2>2. [account[u] EXCEPT !.active = FALSE] \in Accounts
    BY <1>1, <2>1 DEF TablesOK, There, Accounts
  <2> QED
    BY <1>1, <1>5, <1>6, <1>8, <2>1, <2>2 DEF TablesOK, Deactivate
<1>9. CASE Login(h) \/ Callback(h) \/ Delete(h)
  BY <1>1, <1>5, <1>6, <1>9 DEF TablesOK, tables, Login, Callback, Delete
<1> QED
  BY <1>7, <1>8, <1>9 DEF Arrive

LEMMA StepTyped ==
  ASSUME TypeOK, RequestKnowledge, NEW h \in Handlers, Step(h) \/ Abort(h)
  PROVE  TablesOK' /\ HistoryOK' /\ RequestsOK'
<1>1. TablesOK /\ HistoryOK /\ RequestsOK /\ LocalsFit(at[h], req[h])
  BY HandlerTyped DEF TypeOK
<1>2. RequestsOK'
  <2>1. CASE FindIdentity(h) \/ FindOwner(h)
    BY <1>1, <2>1, Moved, FindIdentityMoves, FindOwnerMoves
  <2>2. CASE InsertUser(h) \/ FindWinner(h)
    BY <1>1, <2>2, Moved, InsertUserMoves, FindWinnerMoves
  <2>3. CASE AttachIdentity(h) \/ Reread(h) \/ UpdateIdentity(h)
    BY <1>1, <2>3, Moved, AttachIdentityMoves, RereadMoves, UpdateIdentityMoves
  <2>4. CASE Commit(h) \/ CreateSession(h)
    BY <1>1, <2>4, Moved, CommitMoves, CreateSessionMoves
  <2>5. CASE Directory(h) \/ Abort(h)
    BY <1>1, <2>5, Moved, RevokeMoves, DetachMoves, EraseMoves, AbortMoves DEF Directory
  <2> QED
    BY <2>1, <2>2, <2>3, <2>4, <2>5 DEF Step, Upsert
<1>3. CASE FindIdentity(h) \/ AttachIdentity(h) \/ Reread(h) \/ UpdateIdentity(h) \/ Detach(h)
  BY <1>1, <1>2, <1>3
  DEF TablesOK, HistoryOK, tables, history, FindIdentity, AttachIdentity, Reread,
      UpdateIdentity, Detach
<1>4. CASE FindOwner(h) \/ FindWinner(h)
  <2>1. req[h].subject \in Subjects
    BY <1>1, <1>4 DEF FindOwner, FindWinner, LocalsFit, SigningIn
  <2>2. joined' = joined \/ \E u \in Users : joined' = joined \cup {<<req[h].subject, u>>}
    BY <1>4, FindOwnerMoves, FindWinnerMoves DEF OwnerOf
  <2>3. UNCHANGED <<tables, signed, origin, erased, begun, cuts>>
    BY <1>4 DEF FindOwner, FindWinner
  <2> QED
    BY <1>1, <1>2, <2>1, <2>2, <2>3 DEF TablesOK, HistoryOK, tables
<1>5. CASE InsertUser(h)
  <2>1. req[h].subject \in Subjects
    BY <1>1, <1>5 DEF InsertUser, LocalsFit, SigningIn
  <2>2. origin' = origin \/ \E u \in Users : origin' = [origin EXCEPT ![u] = req[h].subject]
    BY <1>5, InsertUserMoves DEF Fresh
  <2> QED
    BY <1>1, <1>2, <1>5, <2>1, <2>2 DEF TablesOK, HistoryOK, tables, InsertUser
<1>6. CASE Commit(h)
  <2>1. at[h] = "store" /\ UNCHANGED <<sessions, history, begun, cuts>>
    BY <1>6 DEF Commit
  <2>2. CASE UNCHANGED <<account, identity>>
    BY <1>1, <1>2, <2>1, <2>2 DEF TablesOK, HistoryOK, history
  <2>3. CASE /\ Exists(h, req[h].user) /\ account' = Written(h)
             /\ identity' = IF req[h].holds
                            THEN [identity EXCEPT ![req[h].subject] = req[h].user]
                            ELSE identity
    <3>1. PICK u, e : u = req[h].user /\ e = req[h].email
      OBVIOUS
    <3>2. u \in Users /\ e \in Addresses
      BY <1>1, <2>1, <3>1 DEF LocalsFit, SigningIn, Carrying
    <3>3. ASSUME NEW v \in Users PROVE Written(h)[v] \in Accounts \cup {None}
      <4>1. CASE v = req[h].new
        <5>1. [email |-> e, password |-> FALSE, active |-> TRUE, store |-> v = u] \in Accounts
          BY <3>2 DEF Accounts
        <5> QED
          BY <3>1, <4>1, <5>1 DEF Written
      <4>2. CASE v # req[h].new /\ v = u
        <5>1. account[u] \in Accounts
          BY <1>1, <2>3, <3>1, <3>2, <4>2 DEF Exists, There, TablesOK
        <5>2. [account[u] EXCEPT !.store = TRUE] \in Accounts
          BY <5>1 DEF Accounts
        <5> QED
          BY <3>1, <4>2, <5>2 DEF Written
      <4>3. CASE v # req[h].new /\ v # u
        BY <1>1, <3>1, <4>3 DEF Written, TablesOK
      <4> QED
        BY <4>1, <4>2, <4>3
    <3>4. account' \in [Users -> Accounts \cup {None}]
      <4>1. Written(h) = [v \in Users |-> Written(h)[v]]
        BY DEF Written
      <4> QED
        BY <2>3, <3>3, <4>1
    <3>5. identity' \in [Subjects -> Users \cup {None}]
      BY <1>1, <2>3, <3>1, <3>2 DEF TablesOK
    <3> QED
      BY <1>1, <1>2, <2>1, <3>4, <3>5 DEF TablesOK, HistoryOK, history
  <2> QED
    BY <1>6, <2>2, <2>3, CommitMoves
<1>7. CASE CreateSession(h)
  <2>1. PICK u, s : u = req[h].user /\ s = req[h].subject
    OBVIOUS
  <2>2. u \in Users /\ s \in Subjects \cup {None}
    BY <1>1, <1>7, <2>1, HandlerTyped DEF CreateSession, LocalsFit, Carrying
  <2>3. /\ sessions' \in {sessions, sessions \cup {u}}
        /\ \/ signed' = signed
           \/ s # None /\ signed' = signed \cup {<<s, u>>}
        /\ UNCHANGED <<account, identity, joined, origin, erased, begun, cuts>>
    BY <1>7, <2>1, Zenon DEF CreateSession
  <2> QED
    BY <1>1, <1>2, <2>2, <2>3 DEF TablesOK, HistoryOK
<1>8. CASE Revoke(h)
  BY <1>1, <1>2, <1>8 DEF TablesOK, HistoryOK, history, Revoke
<1>9. CASE Erase(h)
  <2>1. PICK u : u = req[h].user
    OBVIOUS
  <2>2. u \in Users
    BY <1>1, <1>9, <2>1 DEF Erase, LocalsFit
  <2>3. /\ account' \in {account, [account EXCEPT ![u] = None]}
        /\ identity' \in {identity, [s \in Subjects |->
                            IF s \in req[h].detached THEN None ELSE identity[s]]}
        /\ sessions' \in {sessions, sessions \ {u}}
        /\ erased' \in {erased, erased \cup {u}}
        /\ UNCHANGED <<signed, joined, origin, begun, cuts>>
    BY <1>9, <2>1 DEF Erase, tables
  <2>4. /\ account' \in [Users -> Accounts \cup {None}]
        /\ identity' \in [Subjects -> Users \cup {None}]
    BY <1>1, <2>3 DEF TablesOK
  <2> QED
    BY <1>1, <1>2, <2>2, <2>3, <2>4 DEF TablesOK, HistoryOK
<1>10. CASE Abort(h)
  BY <1>1, <1>2, <1>10, BoundsAssumption DEF TablesOK, HistoryOK, tables, history, Abort
<1> QED
  BY <1>3, <1>4, <1>5, <1>6, <1>7, <1>8, <1>9, <1>10 DEF Step, Upsert, Directory

-----------------------------------------------------------------------------
LEMMA InitSound == Init => AccountsAreSound
<1> SUFFICES ASSUME Init PROVE AccountsAreSound
  OBVIOUS
<1>1. \A u \in Users : ~There(u)
  BY DEF Init, There
<1>2. \A h \in Handlers : at[h] = "idle" /\ req[h] = Idle
  BY DEF Init
<1>3. /\ Idle.new = None /\ ~Idle.holds /\ Idle.detached = {}
  BY DEF Idle
<1>4. ASSUME NEW h \in Handlers PROVE Knows(h, at[h], req[h])
  BY <1>2, <1>3
  DEF Knows, LocalsFit, NewIsOwn, IdentityIsOwn, UserIsKnown, IdentityIsKnown,
      Entitled, SigningIn, Carrying
<1>5. AccountsAreWhole /\ SameAccount /\ LinkedByOwner /\ IdsAreSpent
  BY <1>1 DEF Init, AccountsAreWhole, SameAccount, LinkedByOwner, IdsAreSpent
<1> QED
  BY <1>4, <1>5 DEF AccountsAreSound, RequestKnowledge

LEMMA StutterKeeps ==
  ASSUME TypeOK, AccountsAreSound, UNCHANGED vars
  PROVE  TypeOK' /\ AccountsAreSound'
<1>1. TypeOK'
  BY DEF vars, tables, history, TypeOK, TablesOK, RequestsOK, HistoryOK
<1>2. /\ \A u : There(u)' <=> There(u)
      /\ \A e : OwnerOf(e)' = OwnerOf(e)
      /\ \A u : OwnIdentities(u)' = OwnIdentities(u)
  BY DEF vars, tables, There, OwnerOf, OwnIdentities
<1>3. ASSUME NEW h \in Handlers PROVE Knows(h, at[h], req[h])'
  <2>1. Knows(h, at[h], req[h])
    BY DEF AccountsAreSound, RequestKnowledge
  <2>2. LocalsFit(at[h], req[h])' /\ Entitled(at[h], req[h])'
    BY <2>1 DEF vars, history, Knows, LocalsFit, Entitled
  <2>3. NewIsOwn(h, req[h])'
    BY <1>2, <2>1 DEF vars, tables, history, Knows, NewIsOwn
  <2>4. IdentityIsOwn(h, at[h], req[h])'
    BY <1>2, <2>1 DEF vars, Knows, IdentityIsOwn, SubjectHeld, BeingErased
  <2>5. UserIsKnown(at[h], req[h])' /\ IdentityIsKnown(at[h], req[h])'
    BY <1>2, <2>1 DEF vars, tables, history, Knows, UserIsKnown, IdentityIsKnown
  <2> QED
    BY <2>2, <2>3, <2>4, <2>5 DEF Knows
<1>4. AccountsAreWhole' /\ SameAccount' /\ LinkedByOwner' /\ IdsAreSpent'
  BY <1>2 DEF vars, tables, history, AccountsAreSound, AccountsAreWhole, SameAccount,
              LinkedByOwner, IdsAreSpent
<1> QED
  BY <1>1, <1>3, <1>4 DEF AccountsAreSound, RequestKnowledge

LEMMA NextKeeps ==
  TypeOK /\ AccountsAreSound /\ [Next]_vars => TypeOK' /\ AccountsAreSound'
<1> SUFFICES ASSUME TypeOK, AccountsAreSound, [Next]_vars
             PROVE  TypeOK' /\ AccountsAreSound'
  OBVIOUS
<1>1. ASSUME NEW h \in Handlers, Arrive(h) PROVE TypeOK' /\ AccountsAreSound'
  <2>1. TypeOK'
    BY <1>1, ArriveTyped DEF TypeOK, AccountsAreSound
  <2>2. AccountsAreSound'
    BY <1>1, RegisterKeeps, LoginKeeps, CallbackKeeps, DeactivateKeeps, DeleteKeeps
    DEF Arrive
  <2> QED
    BY <2>1, <2>2
<1>2. ASSUME NEW h \in Handlers, Step(h) \/ Abort(h) PROVE TypeOK' /\ AccountsAreSound'
  <2>1. TypeOK'
    BY <1>2, StepTyped DEF TypeOK, AccountsAreSound
  <2>2. AccountsAreSound'
    BY <1>2, FindIdentityKeeps, FindOwnerKeeps, InsertUserKeeps, AttachIdentityKeeps,
       RereadKeeps, UpdateIdentityKeeps, CommitKeeps, CreateSessionKeeps, RevokeKeeps,
       DetachKeeps, EraseKeeps, AbortKeeps
    DEF Step, Upsert, Directory
  <2> QED
    BY <2>1, <2>2
<1>3. CASE UNCHANGED vars
  BY <1>3, StutterKeeps
<1> QED
  BY <1>1, <1>2, <1>3 DEF Next

-----------------------------------------------------------------------------
(* Who holds an identity waits for nobody; a deletion waits for holders alone;  *)
(* the others wait for holders and deletions, but for an insertion, which       *)
(* waits for those who have made theirs.                                      *)
LEMMA SoundMeansNoCircle ==
  ASSUME TypeOK, AccountsAreSound
  PROVE  NoCircleOfWaits
<1> SUFFICES ASSUME NEW S \in SUBSET Handlers, S # {}
             PROVE  \E h \in S : \A o \in S : ~WaitsFor(h, o)
  BY DEF NoCircleOfWaits
<1>1. ASSUME NEW h \in S
      PROVE  /\ LocalsFit(at[h], req[h]) /\ IdentityIsOwn(h, at[h], req[h])
             /\ req[h].holds \in BOOLEAN
  BY HandlerTyped DEF AccountsAreSound, RequestKnowledge, Knows
<1>2. CASE \E h \in S : req[h].holds
  <2>1. PICK h \in S : req[h].holds
    BY <1>2
  <2>2. at[h] \in {"reread", "update", "store"} /\ ~SubjectHeld(h, req[h].subject)
    BY <1>1, <2>1 DEF LocalsFit, IdentityIsOwn
  <2>3. \A o \in S : ~WaitsFor(h, o)
    BY <2>2 DEF WaitsFor, SubjectHeld
  <2> QED
    BY <2>3
<1>3. CASE (\A h \in S : ~req[h].holds) /\ \E h \in S : at[h] = "erase"
  BY <1>3 DEF WaitsFor
<1>4. CASE (\A h \in S : ~req[h].holds) /\ \A h \in S : at[h] # "erase"
  <2>1. \A o \in S : ~req[o].holds /\ req[o].detached = {} /\ at[o] # "erase"
    BY <1>1, <1>4 DEF LocalsFit
  <2>2. CASE \E h \in S : at[h] # "insert"
    BY <2>1, <2>2 DEF WaitsFor
  <2>3. CASE \A h \in S : at[h] = "insert"
    <3>1. \A o \in S : req[o].new = None
      BY <1>1, <2>3 DEF LocalsFit, Carrying
    <3> QED
      BY <2>3, <3>1 DEF WaitsFor
  <2> QED
    BY <2>2, <2>3
<1> QED
  BY <1>2, <1>3, <1>4

-----------------------------------------------------------------------------
(* Rows, requests and history are of their types in every state of every     *)
(* run.                                                                     *)
THEOREM TypeCorrect == Spec => []TypeOK
<1>1. Init => TypeOK /\ AccountsAreSound
  BY InitTyped, InitSound
<1> QED
  BY <1>1, NextKeeps, PTL DEF Spec

(* However registrations, sign-ins and deletions interleave and die: no half *)
(* account, no address or identity at two, a subject comes back to the same  *)
(* account, and reaches another's only by its owner's session.  Inductive    *)
(* with the types, because what each request has read is part of it.         *)
THEOREM AccountsStaySound == Spec => []AccountsAreSound
<1>1. Init => TypeOK /\ AccountsAreSound
  BY InitTyped, InitSound
<1> QED
  BY <1>1, NextKeeps, PTL DEF Spec

(* The transactions of sign-ins and deletions never wait for each other in a    *)
(* circle, however many are under way: among any of them, one waits for none    *)
(* of the others.                                                           *)
THEOREM NobodyWaitsInACircle == Spec => []NoCircleOfWaits
<1>1. Init => TypeOK /\ AccountsAreSound
  BY InitTyped, InitSound
<1> QED
  BY <1>1, NextKeeps, SoundMeansNoCircle, PTL DEF Spec
===============================================================================
