------------------------------ MODULE OwnerPosts ------------------------------
(***************************************************************************)
(* The owner's posts of one store: the posting conversation whose turns     *)
(* write drafts, and the publishing of a draft to a platform (posts/ and    *)
(* conversations/ of the owner app).                                        *)
(*                                                                         *)
(* A handler is one HTTP request.  Requests may be delivered twice, run     *)
(* side by side in several processes, and die between two statements.  A    *)
(* turn is stored by one transaction under READ COMMITTED; a publish is     *)
(* held together by a row under an idempotency key.                         *)
(***************************************************************************)
EXTENDS Integers, FiniteSets, FiniteSetsExt

CONSTANTS
  Handlers,      \* requests that may be running at once
  Sessions,      \* ids of posting conversations
  Events,        \* client event ids
  Drafts,        \* ids of drafts: hashes of what the owner asked for
  Platforms,
  ClientKeys,    \* idempotency keys a client may bring along
  FailureLimit,  \* failed attempts after which the owner posts by hand
  None,
  Budgets,       \* bound: pairs of turns and publish requests that may begin
  MaxCuts        \* bound: requests that die

Decisions == {"accepted", "skipped", "revision_requested", "question"}
Statuses == {"DRAFT", "PUBLISHED"}
SlotKeys == {"accepted_suggestion_id", "revised_intent"}
States == {"awaiting_suggestion_decision", "draft_ready", "question_answered"}
Targets == Drafts \X Platforms
DefaultKeys == Targets \X (1 .. FailureLimit)
Keys == DefaultKeys \cup ClientKeys

Responses == [decision : Decisions, draft : Drafts \cup {None}]
RowsOf ==
  [session : Sessions, seq : Nat \ {0}, role : {"owner", "assistant"},
   event : Events, decision : Decisions, sets : SUBSET SlotKeys]
Attempts ==
  [target : Targets, number : Nat \ {0}, status : {"REQUESTED", "SUCCEEDED", "FAILED"}]

ASSUME NamesAssumption ==
  /\ ClientKeys \cap DefaultKeys = {}
  /\ None \notin Sessions \cup Events \cup Drafts \cup Keys \cup Decisions
                 \cup States \cup SlotKeys \cup Targets \cup Responses \cup Attempts
                 \cup Statuses
ASSUME HandlersAssumption == IsFiniteSet(Handlers)
ASSUME BoundsAssumption ==
  /\ FailureLimit \in Nat \ {0} /\ MaxCuts \in Nat
  /\ Budgets \subseteq Nat \X Nat

VARIABLES
  state,      \* conversation_sessions: the state of each session there is
  rows,       \* conversation_messages, with the decision and slots of their turn
  events,     \* conversation_events: the stored response of session and event
  slots,      \* conversation_slot_values: the event that set the slot last
  draft,      \* post_drafts: the status of each draft there is
  attempt,    \* post_publish_attempts, by idempotency key
  posted,     \* the platforms: posts made of a draft
  at, job,    \* the running requests: next statement and locals
  told,       \* history: the responses sent for a session and an event
  lost,       \* history: posts the program never heard of
  custom,     \* history: targets published under a client's own key
  again,      \* history: drafts written anew
  cuts, dead, \* history: requests that died, keys they were holding
  budget      \* bound: turns and publish requests still to begin

conversation == <<state, rows, events, slots>>
publishing == <<attempt, posted>>
history == <<told, lost, custom, again, cuts, dead, budget>>
vars == <<conversation, draft, publishing, at, job, history>>

Idle == [session |-> None, event |-> None, decision |-> None, sets |-> {},
         draft |-> None, seq |-> 0, target |-> None, key |-> None, number |-> 0,
         inserted |-> FALSE]

Labels == {"idle", "replay", "classify", "draft", "sequence", "commit",
           "count", "reserve", "insert", "inspect", "call", "complete", "fail", "release"}

Jobs ==
  [session : Sessions \cup {None}, event : Events \cup {None},
   decision : Decisions \cup {None}, sets : SUBSET SlotKeys,
   draft : Drafts \cup {None}, seq : Nat, target : Targets \cup {None},
   key : Keys \cup {None}, number : Nat, inserted : BOOLEAN]

ConversationOK ==
  /\ state \in [Sessions -> States \cup {None}]
  /\ rows \subseteq RowsOf
  /\ events \in [Sessions \X Events -> Responses \cup {None}]
  /\ slots \in [Sessions \X SlotKeys -> Events \cup {None}]
  /\ told \subseteq Sessions \X Events \X Responses
PublishingOK ==
  /\ draft \in [Drafts -> Statuses \cup {None}] /\ again \subseteq Drafts
  /\ attempt \in [Keys -> Attempts \cup {None}]
  /\ posted \in [Targets -> Nat] /\ lost \in [Targets -> Nat]
  /\ custom \subseteq Targets /\ dead \subseteq Keys
JobsOK ==
  /\ at \in [Handlers -> Labels] /\ job \in [Handlers -> Jobs]
  /\ \A h \in Handlers : at[h] = "idle" <=> job[h] = Idle
BoundsOK == cuts \in 0 .. MaxCuts /\ budget \in Nat \X Nat

(* Type invariant. *)
TypeOK == ConversationOK /\ PublishingOK /\ JobsOK /\ BoundsOK

Init ==
  /\ state = [s \in Sessions |-> None]
  /\ rows = {}
  /\ events = [o \in Sessions \X Events |-> None]
  /\ slots = [o \in Sessions \X SlotKeys |-> None]
  /\ draft = [d \in Drafts |-> None]
  /\ attempt = [k \in Keys |-> None]
  /\ posted = [t \in Targets |-> 0] /\ lost = [t \in Targets |-> 0]
  /\ at = [h \in Handlers |-> "idle"]
  /\ job = [h \in Handlers |-> Idle]
  /\ told = {} /\ custom = {} /\ again = {} /\ cuts = 0 /\ dead = {}
  /\ budget \in Budgets

Go(h, label) == at' = [at EXCEPT ![h] = label]
Leave(h) == Go(h, "idle") /\ UNCHANGED job
End(h) == Go(h, "idle") /\ job' = [job EXCEPT ![h] = Idle]

-----------------------------------------------------------------------------
(* A turn of the posting conversation (processPostingDecision). *)

(* Without a session id a session is created, whatever the event.          *)
TurnBegin(h) ==
  /\ at[h] = "idle" /\ budget[1] > 0
  /\ budget' = <<budget[1] - 1, budget[2]>>
  /\ \E s \in Sessions, e \in Events :
       /\ state' = IF state[s] = None
                   THEN [state EXCEPT ![s] = "awaiting_suggestion_decision"] ELSE state
       /\ job' = [job EXCEPT ![h] = [Idle EXCEPT !.session = s, !.event = e]]
  /\ Go(h, "replay")
  /\ UNCHANGED <<rows, events, slots, draft, publishing,
                 told, lost, custom, again, cuts, dead>>

Stored(h) == events[job[h].session, job[h].event]
Reply(h, response) ==
  /\ told' = told \cup {<<job[h].session, job[h].event, response>>}
  /\ End(h)

ReadReplay(h) ==
  /\ at[h] = "replay"
  /\ IF Stored(h) # None THEN Reply(h, Stored(h))
     ELSE Go(h, "classify") /\ UNCHANGED <<job, told>>
  /\ UNCHANGED <<conversation, draft, publishing, lost, custom, again, cuts, dead, budget>>

(* Without credentials the turn ends and stores nothing.  A decision sets   *)
(* the slot it names, if it names one (slotsForDecision).                   *)
SlotChoices(decision) ==
  CASE decision = "accepted" -> {{}, {"accepted_suggestion_id"}}
    [] decision = "revision_requested" -> {{}, {"revised_intent"}}
    [] OTHER -> {{}}
Classify(h) ==
  /\ at[h] = "classify"
  /\ \/ \E d \in Decisions : \E sets \in SlotChoices(d) :
          /\ job' = [job EXCEPT ![h].decision = d, ![h].sets = sets]
          /\ Go(h, IF d = "question" THEN "sequence" ELSE "draft")
     \/ End(h)
  /\ UNCHANGED <<conversation, draft, publishing, history>>

(* createPostDraft and revisePostDraft: an upsert that resets the status.   *)
WriteDraft(h) ==
  /\ at[h] = "draft"
  /\ \E d \in Drafts :
       /\ draft' = [draft EXCEPT ![d] = "DRAFT"]
       /\ again' = IF draft[d] = None THEN again ELSE again \cup {d}
       /\ job' = [job EXCEPT ![h].draft = d]
  /\ Go(h, "sequence")
  /\ UNCHANGED <<conversation, publishing, told, lost, custom, cuts, dead, budget>>

(* recordTurnOnce claims the event and reads MAX(sequence) + 1 ...          *)
Last(s) == Max({0} \cup {m.seq : m \in {n \in rows : n.session = s}})
NextSequence(h) ==
  /\ at[h] = "sequence"
  /\ job' = [job EXCEPT ![h].seq = Last(job[h].session) + 1]
  /\ Go(h, "commit")
  /\ UNCHANGED <<conversation, draft, publishing, history>>

(* ... and commits, unless another request has the event (its response is   *)
(* replayed) or the sequence number: UNIQUE (session_id, sequence) then     *)
(* fails the request.                                                       *)
Unchecked(s, n) == FALSE
Taken(s, n) == \E m \in rows : m.session = s /\ m.seq = n

NextState(decision) ==
  IF decision = "question" THEN "question_answered" ELSE "draft_ready"

FirstSlots(j) ==
  [o \in Sessions \X SlotKeys |->
     IF o[1] = j.session /\ o[2] \in j.sets /\ slots[o] = None
     THEN j.event ELSE slots[o]]
SlotsAfter(j) ==
  [o \in Sessions \X SlotKeys |->
     IF o[1] = j.session /\ o[2] \in j.sets THEN j.event ELSE slots[o]]

Response(h) == [decision |-> job[h].decision, draft |-> job[h].draft]
Answer(h) == Reply(h, Response(h))
Replay(h) == Reply(h, Stored(h))

CommitTurn(h) ==
  LET j == job[h]
      Row(role, n) ==
        [session |-> j.session, seq |-> n, role |-> role, event |-> j.event,
         decision |-> j.decision, sets |-> j.sets] IN
  /\ events' = [events EXCEPT ![<<j.session, j.event>>] = Response(h)]
  /\ rows' = rows \cup {Row("owner", j.seq), Row("assistant", j.seq + 1)}
  /\ slots' = SlotsAfter(j)
  /\ state' = [state EXCEPT ![j.session] = NextState(j.decision)]
  /\ Answer(h)
RecordTurn(h) ==
  /\ at[h] = "commit"
  /\ \/ /\ Stored(h) # None
        /\ Replay(h)
        /\ UNCHANGED conversation
     \/ /\ Stored(h) = None /\ ~Taken(job[h].session, job[h].seq)
        /\ CommitTurn(h)
     \/ /\ Stored(h) = None /\ Taken(job[h].session, job[h].seq)
        /\ End(h)
        /\ UNCHANGED <<conversation, told>>
  /\ UNCHANGED <<draft, publishing, lost, custom, again, cuts, dead, budget>>

-----------------------------------------------------------------------------
(* Publishing a draft (publishPostDraft). *)

AttemptsOf(t) == {k \in Keys : attempt[k] # None /\ attempt[k].target = t}
WithStatus(t, s) == {k \in AttemptsOf(t) : attempt[k].status = s}

(* The location's eligibility and the draft are read; without either the    *)
(* request ends.                                                            *)
PublishBegin(h) ==
  /\ at[h] = "idle" /\ budget[2] > 0
  /\ budget' = <<budget[1], budget[2] - 1>>
  /\ \E t \in Targets, key \in ClientKeys \cup {None} :
       /\ draft[t[1]] # None
       /\ job' = [job EXCEPT ![h] = [Idle EXCEPT !.target = t, !.key = key]]
  /\ Go(h, "count")
  /\ UNCHANGED <<conversation, draft, publishing, told, lost, custom, again, cuts, dead>>

(* countFailedAttempts names the key of the next attempt, or refuses it.    *)
AllAttempts(t) == Cardinality(AttemptsOf(t))
Failures(t) == Cardinality(WithStatus(t, "FAILED"))
CountFailed(h) ==
  LET t == job[h].target
      failed == Failures(t) IN
  /\ at[h] = "count"
  /\ IF failed >= FailureLimit THEN End(h)
     ELSE /\ job' = [job EXCEPT ![h].key = IF @ = None THEN <<t, failed + 1>> ELSE @]
          /\ Go(h, "reserve")
  /\ UNCHANGED <<conversation, draft, publishing, history>>

(* INSERT ... SELECT MAX(attempt_number) + 1 reads its snapshot first: under*)
(* READ COMMITTED two requests may read one maximum, and no UNIQUE is on the*)
(* number ...                                                               *)
NextNumber(t) == Max({0} \cup {attempt[k].number : k \in AttemptsOf(t)}) + 1
ReadMax(h) ==
  /\ at[h] = "reserve"
  /\ job' = [job EXCEPT ![h].number = NextNumber(job[h].target)]
  /\ Go(h, "insert")
  /\ UNCHANGED <<conversation, draft, publishing, history>>

(* ... and inserts, ON CONFLICT (idempotency_key) DO NOTHING ...            *)
NewAttempt(j) == [target |-> j.target, number |-> j.number, status |-> "REQUESTED"]
Upserted(j) == [attempt EXCEPT ![j.key] = NewAttempt(j)]
Inserted(j) ==
  IF attempt[j.key] # None THEN attempt ELSE [attempt EXCEPT ![j.key] = NewAttempt(j)]
Reserve(h) ==
  LET j == job[h] IN
  /\ at[h] = "insert"
  /\ attempt' = Inserted(j)
  /\ job' = [job EXCEPT ![h].inserted = attempt[j.key] = None, ![h].number = 0]
  /\ custom' = IF j.key \in ClientKeys THEN custom \cup {j.target} ELSE custom
  /\ Go(h, "inspect")
  /\ UNCHANGED <<conversation, draft, posted, told, lost, again, cuts, dead, budget>>

(* ... and a SELECT by the key: only who inserted the row goes on.  A row   *)
(* that is gone, of another target, replayed or in progress ends the        *)
(* request.                                                                 *)
MatchesRow(h) ==
  LET row == attempt[job[h].key] IN
  /\ row # None /\ row.target = job[h].target /\ row.status # "SUCCEEDED"
MayCall(h) ==
  LET row == attempt[job[h].key] IN
  /\ row # None /\ job[h].inserted
  /\ row.target = job[h].target /\ row.status # "SUCCEEDED"
Inspect(h) ==
  /\ at[h] = "inspect"
  /\ IF MayCall(h) THEN Go(h, "call") /\ UNCHANGED job ELSE End(h)
  /\ UNCHANGED <<conversation, draft, publishing, history>>

(* publishBodyForDraft: not configured, answered, or thrown; what threw may *)
(* have been posted.                                                        *)
Call(h) ==
  LET t == job[h].target IN
  /\ at[h] = "call"
  /\ \/ Go(h, "release") /\ UNCHANGED <<posted, lost>>
     \/ Go(h, "fail") /\ UNCHANGED <<posted, lost>>
     \/ /\ posted' = [posted EXCEPT ![t] = @ + 1]
        /\ \/ Go(h, "complete") /\ UNCHANGED lost
           \/ Go(h, "fail") /\ lost' = [lost EXCEPT ![t] = @ + 1]
  /\ UNCHANGED <<conversation, draft, attempt, job, told, custom, again, cuts, dead, budget>>

(* The three ends of an attempt, each WHERE status = 'REQUESTED'.           *)
IsRequested(h) ==
  LET row == attempt[job[h].key] IN
  row # None /\ row.target = job[h].target /\ row.status = "REQUESTED"

CompleteAttempt(h) ==
  /\ at[h] = "complete"
  /\ attempt' = [attempt EXCEPT ![job[h].key].status = "SUCCEEDED"]
  /\ End(h)
  /\ UNCHANGED <<conversation, draft, posted, history>>
Complete(h) ==
  /\ at[h] = "complete"
  /\ attempt' = IF IsRequested(h)
                THEN [attempt EXCEPT ![job[h].key].status = "SUCCEEDED"] ELSE attempt
  /\ draft' = [draft EXCEPT ![job[h].target[1]] = "PUBLISHED"]
  /\ End(h)
  /\ UNCHANGED <<conversation, posted, history>>

Forget(h) ==
  /\ at[h] = "fail"
  /\ End(h)
  /\ UNCHANGED <<conversation, draft, publishing, history>>
Fail(h) ==
  /\ at[h] = "fail"
  /\ attempt' = IF IsRequested(h)
                THEN [attempt EXCEPT ![job[h].key].status = "FAILED"] ELSE attempt
  /\ End(h)
  /\ UNCHANGED <<conversation, draft, posted, history>>

Release(h) ==
  /\ at[h] = "release"
  /\ attempt' = IF IsRequested(h)
                THEN [attempt EXCEPT ![job[h].key] = None] ELSE attempt
  /\ End(h)
  /\ UNCHANGED <<conversation, draft, posted, history>>

-----------------------------------------------------------------------------
Holding == {"inspect", "call", "complete", "fail", "release"}
Holds(h, k) == at[h] \in Holding /\ job[h].inserted /\ job[h].key = k

Abort(h) ==
  /\ at[h] # "idle" /\ cuts < MaxCuts
  /\ cuts' = cuts + 1
  /\ dead' = dead \cup {k \in Keys : Holds(h, k)}
  /\ lost' = IF at[h] = "complete"
             THEN [lost EXCEPT ![job[h].target] = @ + 1] ELSE lost
  /\ End(h)
  /\ UNCHANGED <<conversation, draft, publishing, told, custom, again, budget>>

Turn(h) == \/ ReadReplay(h) \/ Classify(h) \/ WriteDraft(h)
           \/ NextSequence(h) \/ RecordTurn(h)
Publish(h) == \/ CountFailed(h) \/ ReadMax(h) \/ Reserve(h) \/ Inspect(h)
              \/ Call(h) \/ Complete(h) \/ Fail(h) \/ Release(h)
Step(h) == Turn(h) \/ Publish(h)

Next == \E h \in Handlers : TurnBegin(h) \/ PublishBegin(h) \/ Step(h) \/ Abort(h)

Spec == Init /\ [][Next]_vars

-----------------------------------------------------------------------------
(* Properties *)

(* A session's messages are whole turns: numbered without gap or repetition,*)
(* each owner's message followed by the assistant's answer to it, no event  *)
(* twice, although the number is read in one statement and used in another  *)
(* (recordTurnOnce).                                                        *)
TranscriptIsTurns ==
  \A s \in Sessions :
    LET mine == {m \in rows : m.session = s} IN
    /\ Cardinality(mine) = Last(s)
    /\ \A m, n \in mine :
         /\ m.seq = n.seq => m = n
         /\ m.role = "owner" <=> m.seq % 2 = 1
         /\ m.role = "owner" /\ n.seq = m.seq + 1 => n.event = m.event
         /\ m.role = n.role /\ m.event = n.event => m = n

(* Whoever sends an event of a session twice gets one answer, that of the   *)
(* turn that was stored, although each request asked the assistant itself   *)
(* (posting-conversation.ts: "Persist response and state transition         *)
(* together").                                                              *)
RepliesAgree ==
  \A o \in told : events[o[1], o[2]] = o[3]

(* What the session remembers is what its transcript says: the state is     *)
(* that of the last turn, each slot of the last turn that set it.           *)
SettersOf(s, k) ==
  {m \in rows : m.session = s /\ m.role = "owner" /\ k \in m.sets}
MemoryStandsOnTranscript ==
  \A s \in Sessions :
    /\ \A m \in rows : m.session = s /\ m.seq = Last(s) => state[s] = NextState(m.decision)
    /\ \A k \in SlotKeys :
         IF SettersOf(s, k) = {} THEN slots[s, k] = None
         ELSE \E m \in SettersOf(s, k) :
                /\ slots[s, k] = m.event
                /\ \A n \in SettersOf(s, k) : n.seq <= m.seq

(* As long as no client brings keys of its own, a draft is posted once for  *)
(* each platform, and once more for each answer that was lost; one attempt  *)
(* is in flight, failures stay within the limit, and no two attempts have   *)
(* one number.  The key is built from a count, and the number is a maximum, *)
(* that were read before the row is inserted.                               *)
OnePost ==
  \A t \in Targets \ custom :
    /\ posted[t] <= 1 + lost[t]
    /\ Cardinality(WithStatus(t, "REQUESTED")) <= 1
    /\ Cardinality(WithStatus(t, "FAILED")) <= FailureLimit
    /\ \A k, l \in AttemptsOf(t) : attempt[k].number = attempt[l].number => k = l

(* With any keys: every post is behind an attempt that says so, except those*)
(* whose answer was lost, and no attempt says so without one.               *)
Completing(t) == {h \in Handlers : at[h] = "complete" /\ job[h].target = t}
PostsAreRecorded ==
  \A t \in Targets :
    posted[t] = Cardinality(WithStatus(t, "SUCCEEDED")) + lost[t] + Cardinality(Completing(t))

(* A successful attempt is there to be replayed for ever: it is not failed, *)
(* released or renumbered by a request that knows its key.                  *)
SucceededIsFinal ==
  [][\A k \in Keys :
       attempt[k] # None /\ attempt[k].status = "SUCCEEDED" => attempt'[k] = attempt[k]]_vars

(* The dashboard counts a draft as published exactly when it was, unless a  *)
(* later request wrote the same draft anew (gbp-performance-repository.ts). *)
PublishedIsCounted ==
  \A d \in Drafts :
    LET done == \E p \in Platforms : WithStatus(<<d, p>>, "SUCCEEDED") # {} IN
    /\ draft[d] = "PUBLISHED" => done
    /\ done /\ d \notin again => draft[d] = "PUBLISHED"

(* Whatever is REQUESTED is being worked on: one living request holds the   *)
(* key and will complete, fail or release it, unless the process died with  *)
(* it; nobody else posts under the key.  No job of the program looks for    *)
(* REQUESTED rows, so a key that lost its request blocks its target.        *)
Holders(k) == {h \in Handlers : Holds(h, k)}
ReservedIsHeld ==
  \A k \in Keys :
    /\ Cardinality(Holders(k)) <= 1
    /\ Holders(k) # {} => attempt[k] # None /\ attempt[k].status = "REQUESTED"
    /\ attempt[k] # None /\ attempt[k].status = "REQUESTED" =>
         Holders(k) # {} \/ k \in dead

(* What these rest on.  Numbers run from 1 without a gap, and an event on   *)
(* the transcript has its answer.                                           *)
TurnsAreNumbered ==
  /\ IsFiniteSet(rows)
  /\ \A m \in rows : events[m.session, m.event] # None
  /\ \A s \in Sessions :
       /\ Last(s) \in Nat /\ Last(s) % 2 = 0
       /\ {m.seq : m \in {n \in rows : n.session = s}} = 1 .. Last(s)

(* An attempt is of its key's target, and the failures of a target are its  *)
(* first attempts: only the one after them may be under way or have         *)
(* succeeded.                                                             *)
FirstKeys(t, n) == {<<t, i>> : i \in 1 .. n}
AttemptsAreInOrder ==
  /\ \A k \in Keys : attempt[k] # None =>
       /\ k \in DefaultKeys => attempt[k].target = k[1]
       /\ k \in ClientKeys => attempt[k].target \in custom
       /\ draft[attempt[k].target[1]] # None
  /\ \A t \in Targets : IsFiniteSet(AttemptsOf(t))
  /\ \A t \in Targets \ custom :
       LET n == Cardinality(WithStatus(t, "FAILED")) IN
       /\ WithStatus(t, "FAILED") = FirstKeys(t, n)
       /\ AttemptsOf(t) \subseteq FirstKeys(t, n + 1)

(* Their numbers grow with their keys: a request that is about to insert    *)
(* read a maximum above those of all the keys before its own.               *)
NumbersGrow ==
  \A t \in Targets \ custom :
    /\ \A k, l \in AttemptsOf(t) : k[2] < l[2] => attempt[k].number < attempt[l].number
    /\ \A h \in Handlers :
         at[h] = "insert" /\ job[h].target = t /\ job[h].key \in DefaultKeys =>
           \A k \in AttemptsOf(t) : k[2] < job[h].key[2] => attempt[k].number < job[h].number

(* And what a request knows between its statements.  Its locals:            *)
TurnLabels == {"replay", "classify", "draft", "sequence", "commit"}
Reserving == {"reserve", "insert"}
PublishLabels == {"count"} \cup Reserving \cup Holding
JobFits(label, j) ==
  /\ label \in TurnLabels => j.session \in Sessions /\ j.event \in Events
  /\ label \in {"draft", "sequence", "commit"} => j.decision \in Decisions
  /\ label \in PublishLabels => j.target \in Targets
  /\ label = "count" => j.key \in ClientKeys \cup {None}
  /\ label \in Reserving \cup Holding => j.key \in Keys
  /\ label = "insert" => j.number > 0
  /\ j.inserted => label \in Holding
  /\ label \in {"call", "complete", "fail", "release"} => j.inserted

(* its sequence number was the next one, its key counted the failures there *)
(* were, and the row it inserted is still its own.                          *)
TurnKnows(label, j) ==
  label = "commit" => j.seq % 2 = 1 /\ j.seq \in 1 .. Last(j.session) + 1
PublishKnows(label, j) ==
  /\ label \in PublishLabels => draft[j.target[1]] # None
  /\ label \in Reserving \cup Holding /\ j.key \in DefaultKeys => j.key[1] = j.target
  /\ label \in Reserving /\ j.key \in DefaultKeys /\ j.target \notin custom =>
       j.key[2] <= Cardinality(WithStatus(j.target, "FAILED")) + 1
  /\ label \in Holding /\ j.key \in ClientKeys => j.target \in custom
  /\ j.inserted => /\ attempt[j.key] # None /\ attempt[j.key].target = j.target
                   /\ attempt[j.key].status = "REQUESTED"
JobsAreKnown ==
  \A h \in Handlers : /\ JobFits(at[h], job[h])
                     /\ TurnKnows(at[h], job[h]) /\ PublishKnows(at[h], job[h])

(* The conversation: whole turns, one answer for each event, and a memory   *)
(* that stands on the transcript.  Publishing: one post for each target,     *)
(* every post on record, what is on record counted, and what is in flight    *)
(* held by one living request; and what makes that so.                      *)
PostingIsSound ==
  /\ TranscriptIsTurns /\ RepliesAgree /\ MemoryStandsOnTranscript
  /\ OnePost /\ PostsAreRecorded /\ PublishedIsCounted /\ ReservedIsHeld
  /\ TurnsAreNumbered /\ AttemptsAreInOrder /\ NumbersGrow /\ JobsAreKnown
==============================================================================
