--------------------------- MODULE OwnerPostsProofs ---------------------------
(***************************************************************************)
(* The owner's posts, for every number of requests, sessions, events,       *)
(* drafts and keys: transcripts are whole turns and answered once, and a    *)
(* draft is posted once for each platform, whoever retries, races or dies.  *)
(***************************************************************************)
EXTENDS OwnerPosts, FiniteSetTheorems, WellFoundedInduction, TLAPS

(* The inductive invariant, in four parts that each step preserves: the      *)
(* types and the locals of the requests, the conversation, the posts, the   *)
(* numbers of the attempts.  OnePost is not part of it; it follows.         *)
Fitting == TypeOK /\ \A h \in Handlers : JobFits(at[h], job[h])
Turning ==
  /\ TranscriptIsTurns /\ RepliesAgree /\ MemoryStandsOnTranscript /\ TurnsAreNumbered
  /\ \A h \in Handlers : TurnKnows(at[h], job[h])
Posting ==
  /\ PostsAreRecorded /\ PublishedIsCounted /\ ReservedIsHeld /\ AttemptsAreInOrder
  /\ \A h \in Handlers : PublishKnows(at[h], job[h])
Inv == Fitting /\ Turning /\ Posting /\ NumbersGrow

(* What a step does to the requests: one of them gets a label and locals.   *)
MovesTo(h, label, j) ==
  /\ at' = [at EXCEPT ![h] = label]
  /\ job' = [job EXCEPT ![h] = j]

-----------------------------------------------------------------------------
(* Maxima and cardinalities. *)

(* A finite, nonempty set of numbers has a maximum, the one Max chooses: the *)
(* element with the smallest set of numbers above it.                       *)
LEMMA MaxIsMax ==
  ASSUME NEW S \in SUBSET Nat, IsFiniteSet(S), S # {}
  PROVE  Max(S) \in S /\ \A y \in S : Max(S) >= y
<1> DEFINE Above(x) == {y \in S : y > x}
           T == {Above(x) : x \in S}
<1>1. IsWellFoundedOn(StrictSubsetOrdering(S), FiniteSubsetsOf(S))
  BY FS_StrictSubsetOrderingWellFounded
<1>2. T \subseteq FiniteSubsetsOf(S) /\ T # {}
  <2>1. ASSUME NEW x \in S PROVE IsFiniteSet(Above(x))
    BY FS_Subset
  <2> QED
    BY <2>1 DEF FiniteSubsetsOf
<1>3. PICK U \in T : \A V \in T : ~(<<V, U>> \in StrictSubsetOrdering(S))
  <2> HIDE DEF T
  <2> QED
    BY <1>1, <1>2, WFMin
<1>4. PICK x \in S : U = Above(x)
  OBVIOUS
<1>5. ASSUME NEW y \in S, y > x PROVE FALSE
  <2>1. Above(y) \in T
    OBVIOUS
  <2>2. Above(y) \subseteq Above(x) /\ y \in Above(x) /\ y \notin Above(y)
    <3>1. x \in Nat /\ y \in Nat /\ \A z \in S : z \in Nat
      OBVIOUS
    <3>2. \A z \in S : z > y => z > x
      BY <1>5, <3>1
    <3>3. Above(y) \subseteq Above(x)
      BY <3>2
    <3>4. y \in Above(x)
      BY <1>5
    <3>5. y \notin Above(y)
      BY <3>1
    <3> QED
      BY <3>3, <3>4, <3>5
  <2>3. Above(y) # U
    BY <1>4, <2>2
  <2>4. Above(y) \in SUBSET S /\ U \in SUBSET S
    BY <1>4
  <2>5. <<Above(y), U>> \in StrictSubsetOrdering(S)
    BY <1>4, <2>2, <2>3, <2>4 DEF StrictSubsetOrdering
  <2> QED
    BY <1>3, <2>1, <2>5
<1>6. x \in S /\ \A y \in S : x >= y
  BY <1>5
<1> QED
  BY <1>6 DEF Max

LEMMA MaxOfInterval ==
  ASSUME NEW n \in Nat
  PROVE  Max({0} \cup 1 .. n) = n
<1> DEFINE S == {0} \cup 1 .. n
<1>1. n \in S /\ \A y \in S : n >= y
  OBVIOUS
<1>2. \A x \in S : (\A y \in S : x >= y) => x = n
  BY <1>1
<1> HIDE DEF S
<1>3. Max(S) = n
  BY <1>1, <1>2 DEF Max
<1> QED
  BY <1>3 DEF S

(* A set whose elements are all equal.                                      *)
LEMMA AtMostOne ==
  ASSUME NEW S, \A x, y \in S : x = y
  PROVE  IsFiniteSet(S) /\ Cardinality(S) \in {0, 1} /\ Cardinality(S) <= 1
<1>1. CASE S = {}
  BY <1>1, FS_EmptySet
<1>2. CASE S # {}
  <2>1. PICK x \in S : S = {x}
    BY <1>2
  <2>2. IsFiniteSet({x}) /\ Cardinality({x}) = 1
    BY FS_Singleton
  <2> QED
    BY <2>1, <2>2
<1> QED
  BY <1>1, <1>2

LEMMA AtMostOneConversely ==
  ASSUME NEW S, IsFiniteSet(S), Cardinality(S) <= 1
  PROVE  \A x, y \in S : x = y
<1>1. Cardinality(S) \in Nat
  BY FS_CardinalityType
<1>2. CASE Cardinality(S) = 0
  BY <1>2, FS_EmptySet
<1>3. CASE Cardinality(S) = 1
  <2>1. PICK x : S = {x}
    BY <1>3, FS_Singleton
  <2> QED
    BY <2>1, Zenon
<1> QED
  BY <1>1, <1>2, <1>3

(* The first n keys of a target are n keys.                                 *)
LEMMA FirstKeysCount ==
  ASSUME NEW t, NEW n \in Nat
  PROVE  IsFiniteSet(FirstKeys(t, n)) /\ Cardinality(FirstKeys(t, n)) = n
<1> DEFINE f == [i \in 1 .. n |-> <<t, i>>]
<1>1. f \in [1 .. n -> FirstKeys(t, n)]
  BY DEF FirstKeys
<1>2. \A i, j \in 1 .. n : f[i] = f[j] => i = j
  OBVIOUS
<1>3. \A k \in FirstKeys(t, n) : \E i \in 1 .. n : f[i] = k
  BY DEF FirstKeys
<1> HIDE DEF f
<1>4. f \in Bijection(1 .. n, FirstKeys(t, n))
  BY <1>1, <1>2, <1>3 DEF Bijection, Injection, Surjection, IsInjective
<1>5. ExistsBijection(1 .. n, FirstKeys(t, n))
  BY <1>4 DEF ExistsBijection
<1>6. IsFiniteSet(1 .. n) /\ Cardinality(1 .. n) = n
  BY FS_Interval
<1> QED
  BY <1>5, <1>6, FS_Bijection

-----------------------------------------------------------------------------
(* The requests. *)

LEMMA Moved ==
  ASSUME JobsOK, NEW h \in Handlers, NEW label, NEW j, MovesTo(h, label, j)
  PROVE  /\ at'[h] = label /\ job'[h] = j
         /\ \A g \in Handlers \ {h} : at'[g] = at[g] /\ job'[g] = job[g]
BY DEF JobsOK, MovesTo

LEMMA JobsMoved ==
  ASSUME Fitting, NEW h \in Handlers, NEW label \in Labels, NEW j \in Jobs,
         MovesTo(h, label, j), JobFits(label, j), label = "idle" => j = Idle
  PROVE  JobsOK' /\ \A g \in Handlers : JobFits(at[g], job[g])'
<1>1. JobsOK /\ \A g \in Handlers : JobFits(at[g], job[g])
  BY DEF Fitting, TypeOK
<1>2. /\ at'[h] = label /\ job'[h] = j
      /\ \A g \in Handlers \ {h} : at'[g] = at[g] /\ job'[g] = job[g]
  BY <1>1, Moved
<1>3. at' \in [Handlers -> Labels] /\ job' \in [Handlers -> Jobs]
  BY <1>1 DEF MovesTo, JobsOK
<1>4. label # "idle" => j # Idle
  <2>1. label # "idle" => label \in TurnLabels \/ label \in PublishLabels
    BY DEF Labels, TurnLabels, PublishLabels, Reserving, Holding
  <2>2. label \in TurnLabels => j.session # None
    BY NamesAssumption DEF JobFits
  <2>3. label \in PublishLabels => j.target # None
    BY NamesAssumption DEF JobFits
  <2>4. Idle.session = None /\ Idle.target = None
    BY DEF Idle
  <2> QED
    BY <2>1, <2>2, <2>3, <2>4
<1>5. \A g \in Handlers : at'[g] = "idle" <=> job'[g] = Idle
  BY <1>1, <1>2, <1>4 DEF JobsOK
<1>6. JobsOK'
  BY <1>3, <1>5 DEF JobsOK
<1>7. \A g \in Handlers : JobFits(at'[g], job'[g])
  BY <1>1, <1>2
<1> QED
  BY <1>6, <1>7 DEF JobFits

LEMMA IdleFits == Idle \in Jobs /\ JobFits("idle", Idle) /\ "idle" \in Labels
BY DEF Idle, Jobs, JobFits, Labels, TurnLabels, PublishLabels, Reserving, Holding

LEMMA EndMoves ==
  ASSUME NEW h, End(h)
  PROVE  MovesTo(h, "idle", Idle)
BY DEF End, Go, MovesTo

LEMMA StayMoves ==
  ASSUME JobsOK, NEW h \in Handlers, NEW label, Go(h, label), UNCHANGED job
  PROVE  MovesTo(h, label, job[h])
BY DEF JobsOK, Go, MovesTo

(* Numbers: of the next attempt of a target, and of a session's messages.   *)
LEMMA NumberIsNext ==
  ASSUME PublishingOK, NEW t \in Targets, IsFiniteSet(AttemptsOf(t))
  PROVE  /\ NextNumber(t) \in Nat \ {0}
         /\ \A k \in AttemptsOf(t) : attempt[k].number < NextNumber(t)
<1> DEFINE N == {attempt[k].number : k \in AttemptsOf(t)}
           f == [k \in AttemptsOf(t) |-> attempt[k].number]
<1>1. \A k \in AttemptsOf(t) : attempt[k].number \in Nat \ {0}
  BY DEF PublishingOK, AttemptsOf, Attempts
<1>2. N \in SUBSET Nat
  BY <1>1
<1>3. f \in Surjection(AttemptsOf(t), N)
  BY DEF Surjection
<1>4. IsFiniteSet(N)
  <2> HIDE DEF f, N
  <2> QED
    BY <1>3, FS_Surjection
<1>5. PICK S : S = {0} \cup N
  OBVIOUS
<1>6. IsFiniteSet(S) /\ S \in SUBSET Nat /\ S # {} /\ N \subseteq S
  <2> HIDE DEF N
  <2>1. IsFiniteSet(N \cup {0})
    BY <1>4, FS_AddElement
  <2>2. S = N \cup {0}
    BY <1>5
  <2> QED
    BY <1>2, <2>1, <2>2
<1>7. Max(S) \in Nat /\ \A y \in S : Max(S) >= y
  BY <1>6, MaxIsMax
<1>8. NextNumber(t) = Max(S) + 1
  BY <1>5 DEF NextNumber
<1>9. \A k \in AttemptsOf(t) : Max(S) >= attempt[k].number
  BY <1>6, <1>7
<1> QED
  BY <1>1, <1>7, <1>8, <1>9

-----------------------------------------------------------------------------
(* Types and locals. *)

LEMMA FittingInitially == Init => Fitting
<1> SUFFICES ASSUME Init PROVE Fitting
  OBVIOUS
<1>1. ConversationOK
  BY DEF Init, ConversationOK
<1>2. PublishingOK
  BY DEF Init, PublishingOK
<1>3. JobsOK
  BY IdleFits DEF Init, JobsOK
<1>4. BoundsOK
  BY BoundsAssumption DEF Init, BoundsOK
<1>5. \A h \in Handlers : JobFits(at[h], job[h])
  BY IdleFits DEF Init
<1> QED
  BY <1>1, <1>2, <1>3, <1>4, <1>5 DEF Fitting, TypeOK

(* The steps of a turn ...                                                  *)
LEMMA TurnBeginFits ==
  ASSUME Inv, NEW h \in Handlers, TurnBegin(h)
  PROVE  Fitting'
<1>1. Fitting /\ ConversationOK /\ PublishingOK /\ BoundsOK
  BY DEF Inv, Fitting, TypeOK
<1>2. PICK s \in Sessions, e \in Events :
        /\ state' = IF state[s] = None
                    THEN [state EXCEPT ![s] = "awaiting_suggestion_decision"] ELSE state
        /\ job' = [job EXCEPT ![h] = [Idle EXCEPT !.session = s, !.event = e]]
  BY DEF TurnBegin
<1> DEFINE j == [Idle EXCEPT !.session = s, !.event = e]
<1>3. MovesTo(h, "replay", j)
  BY <1>2 DEF TurnBegin, Go, MovesTo
<1>4. j \in Jobs /\ JobFits("replay", j) /\ "replay" \in Labels
  BY DEF Idle, Jobs, JobFits, Labels, TurnLabels, PublishLabels, Reserving, Holding
<1>5. JobsOK' /\ \A g \in Handlers : JobFits(at[g], job[g])'
  <2> HIDE DEF j
  <2> QED
    BY <1>1, <1>3, <1>4, JobsMoved
<1>6. ConversationOK'
  BY <1>1, <1>2 DEF TurnBegin, ConversationOK, States
<1>7. PublishingOK'
  BY <1>1 DEF TurnBegin, PublishingOK, publishing, AttemptsOf
<1>8. BoundsOK'
  BY <1>1 DEF TurnBegin, BoundsOK
<1> QED
  BY <1>5, <1>6, <1>7, <1>8 DEF Fitting, TypeOK

(* A stored response, where there is one.                                   *)
LEMMA StoredIsResponse ==
  ASSUME Fitting, NEW h \in Handlers, at[h] \in TurnLabels
  PROVE  /\ job[h].session \in Sessions /\ job[h].event \in Events
         /\ Stored(h) \in Responses \cup {None}
<1>1. job[h].session \in Sessions /\ job[h].event \in Events
  BY DEF Fitting, JobFits
<1> QED
  BY <1>1 DEF Fitting, TypeOK, ConversationOK, Stored

LEMMA ReadReplayFits ==
  ASSUME Inv, NEW h \in Handlers, ReadReplay(h)
  PROVE  Fitting'
<1>1. Fitting /\ ConversationOK /\ PublishingOK /\ BoundsOK /\ JobsOK
  BY DEF Inv, Fitting, TypeOK
<1>2. at[h] = "replay" /\ job[h] \in Jobs /\ JobFits("replay", job[h])
  BY <1>1 DEF ReadReplay, Fitting, JobsOK
<1>3. /\ job[h].session \in Sessions /\ job[h].event \in Events
      /\ Stored(h) \in Responses \cup {None}
  BY <1>1, <1>2, StoredIsResponse DEF TurnLabels
<1>4. CASE Stored(h) # None
  <2>1. MovesTo(h, "idle", Idle) /\ told' \subseteq Sessions \X Events \X Responses
    BY <1>1, <1>3, <1>4, EndMoves DEF ReadReplay, Reply, ConversationOK
  <2>2. JobsOK' /\ \A g \in Handlers : JobFits(at[g], job[g])'
    BY <1>1, <2>1, IdleFits, JobsMoved
  <2>3. ConversationOK'
    BY <1>1, <2>1 DEF ReadReplay, ConversationOK, conversation
  <2>4. PublishingOK' /\ BoundsOK'
    BY <1>1 DEF ReadReplay, PublishingOK, publishing, BoundsOK
  <2> QED
    BY <2>2, <2>3, <2>4 DEF Fitting, TypeOK
<1>5. CASE Stored(h) = None
  <2>1. MovesTo(h, "classify", job[h]) /\ told' = told
    BY <1>1, <1>5, StayMoves DEF ReadReplay
  <2>2. JobFits("classify", job[h]) /\ "classify" \in Labels
    BY <1>2 DEF JobFits, TurnLabels, PublishLabels, Reserving, Holding, Labels
  <2>3. JobsOK' /\ \A g \in Handlers : JobFits(at[g], job[g])'
    BY <1>1, <1>2, <2>1, <2>2, JobsMoved
  <2>4. ConversationOK'
    BY <1>1, <2>1 DEF ReadReplay, ConversationOK, conversation
  <2>5. PublishingOK' /\ BoundsOK'
    BY <1>1 DEF ReadReplay, PublishingOK, publishing, BoundsOK
  <2> QED
    BY <2>3, <2>4, <2>5 DEF Fitting, TypeOK
<1> QED
  BY <1>4, <1>5

(* A step that touches nothing but its request.                             *)
LEMMA QuietFits ==
  ASSUME Fitting, NEW h \in Handlers, NEW label \in Labels, NEW j \in Jobs,
         MovesTo(h, label, j), JobFits(label, j), label = "idle" => j = Idle,
         UNCHANGED <<conversation, draft, publishing, history>>
  PROVE  Fitting'
<1>1. JobsOK' /\ \A g \in Handlers : JobFits(at[g], job[g])'
  BY JobsMoved
<1>2. ConversationOK' /\ PublishingOK' /\ BoundsOK'
  BY DEF Fitting, TypeOK, ConversationOK, PublishingOK, BoundsOK,
         conversation, publishing, history
<1> QED
  BY <1>1, <1>2 DEF Fitting, TypeOK

LEMMA ClassifyFits ==
  ASSUME Inv, NEW h \in Handlers, Classify(h)
  PROVE  Fitting'
<1>1. Fitting /\ JobsOK /\ UNCHANGED <<conversation, draft, publishing, history>>
  BY DEF Inv, Fitting, TypeOK, Classify
<1>2. at[h] = "classify" /\ job[h] \in Jobs /\ JobFits("classify", job[h])
  BY <1>1 DEF Classify, Fitting, JobsOK
<1>3. CASE End(h)
  BY <1>1, <1>3, EndMoves, IdleFits, QuietFits
<1>4. CASE ~End(h)
  <2>1. PICK d \in Decisions : \E sets \in SlotChoices(d) :
          /\ job' = [job EXCEPT ![h].decision = d, ![h].sets = sets]
          /\ Go(h, IF d = "question" THEN "sequence" ELSE "draft")
    BY <1>4 DEF Classify
  <2>2. PICK sets \in SlotChoices(d) :
          /\ job' = [job EXCEPT ![h].decision = d, ![h].sets = sets]
          /\ Go(h, IF d = "question" THEN "sequence" ELSE "draft")
    BY <2>1
  <2> DEFINE j == [job[h] EXCEPT !.decision = d, !.sets = sets]
             label == IF d = "question" THEN "sequence" ELSE "draft"
  <2>3. job' = [job EXCEPT ![h] = j]
    BY <1>1, <2>2 DEF JobsOK
  <2>4. MovesTo(h, label, j)
    BY <2>2, <2>3 DEF Go, MovesTo
  <2>5. sets \in SUBSET SlotKeys
    BY <2>2 DEF SlotChoices, SlotKeys, Decisions
  <2>6. j \in Jobs
    BY <1>2, <2>5 DEF Jobs
  <2>7. JobFits(label, j) /\ label \in Labels /\ label # "idle"
    BY <1>2 DEF JobFits, TurnLabels, PublishLabels, Reserving, Holding, Labels, Jobs
  <2> HIDE DEF j, label
  <2> QED
    BY <1>1, <2>4, <2>6, <2>7, QuietFits
<1> QED
  BY <1>3, <1>4

LEMMA WriteDraftFits ==
  ASSUME Inv, NEW h \in Handlers, WriteDraft(h)
  PROVE  Fitting'
<1>1. Fitting /\ ConversationOK /\ PublishingOK /\ BoundsOK /\ JobsOK
  BY DEF Inv, Fitting, TypeOK
<1>2. at[h] = "draft" /\ job[h] \in Jobs /\ JobFits("draft", job[h])
  BY <1>1 DEF WriteDraft, Fitting, JobsOK
<1>3. PICK d \in Drafts :
        /\ draft' = [draft EXCEPT ![d] = "DRAFT"]
        /\ again' = IF draft[d] = None THEN again ELSE again \cup {d}
        /\ job' = [job EXCEPT ![h].draft = d]
  BY DEF WriteDraft
<1> DEFINE j == [job[h] EXCEPT !.draft = d]
<1>4. MovesTo(h, "sequence", j)
  BY <1>1, <1>3 DEF WriteDraft, Go, MovesTo, JobsOK
<1>5. j \in Jobs /\ JobFits("sequence", j) /\ "sequence" \in Labels
  BY <1>2 DEF Jobs, JobFits, Labels, TurnLabels, PublishLabels, Reserving, Holding
<1>6. JobsOK' /\ \A g \in Handlers : JobFits(at[g], job[g])'
  <2> HIDE DEF j
  <2> QED
    BY <1>1, <1>4, <1>5, JobsMoved
<1>7. ConversationOK' /\ BoundsOK'
  BY <1>1 DEF WriteDraft, conversation, ConversationOK, BoundsOK
<1>8. PublishingOK'
  BY <1>1, <1>3 DEF WriteDraft, PublishingOK, publishing, Statuses
<1> QED
  BY <1>6, <1>7, <1>8 DEF Fitting, TypeOK

LEMMA NextSequenceFits ==
  ASSUME Inv, NEW h \in Handlers, NextSequence(h)
  PROVE  Fitting'
<1>1. Fitting /\ JobsOK /\ UNCHANGED <<conversation, draft, publishing, history>>
  BY DEF Inv, Fitting, TypeOK, NextSequence
<1>2. at[h] = "sequence" /\ job[h] \in Jobs /\ JobFits("sequence", job[h])
  BY <1>1 DEF NextSequence, Fitting, JobsOK
<1>3. Last(job[h].session) \in Nat
  BY <1>2 DEF Inv, Turning, TurnsAreNumbered, JobFits, TurnLabels
<1>4. PICK n \in Nat : n = Last(job[h].session) + 1
  BY <1>3
<1> DEFINE j == [job[h] EXCEPT !.seq = n]
<1>5. MovesTo(h, "commit", j)
  BY <1>1, <1>4 DEF NextSequence, Go, MovesTo, JobsOK
<1>6. j \in Jobs /\ JobFits("commit", j) /\ "commit" \in Labels
  BY <1>2 DEF Jobs, JobFits, Labels, TurnLabels, PublishLabels, Reserving, Holding
<1> HIDE DEF j
<1> QED
  BY <1>1, <1>5, <1>6, QuietFits

(* What a commit writes, its rows named.                                    *)
OwnerRow(j) ==
  [session |-> j.session, seq |-> j.seq, role |-> "owner", event |-> j.event,
   decision |-> j.decision, sets |-> j.sets]
AssistantRow(j) ==
  [session |-> j.session, seq |-> j.seq + 1, role |-> "assistant", event |-> j.event,
   decision |-> j.decision, sets |-> j.sets]

LEMMA CommitWrites ==
  ASSUME Fitting, Turning, NEW h \in Handlers, at[h] = "commit", CommitTurn(h)
  PROVE  LET j == job[h] IN
         /\ j \in Jobs /\ j.session \in Sessions /\ j.event \in Events
         /\ j.seq \in Nat \ {0} /\ j.decision \in Decisions
         /\ Response(h) \in Responses /\ Response(h) # None
         /\ OwnerRow(j) \in RowsOf /\ AssistantRow(j) \in RowsOf
         /\ events' = [events EXCEPT ![<<j.session, j.event>>] = Response(h)]
         /\ rows' = rows \cup {OwnerRow(j), AssistantRow(j)}
         /\ slots' = SlotsAfter(j)
         /\ state' = [state EXCEPT ![j.session] = NextState(j.decision)]
         /\ told' = told \cup {<<j.session, j.event, Response(h)>>}
         /\ MovesTo(h, "idle", Idle)
<1> DEFINE j == job[h]
<1>1. j \in Jobs /\ JobFits("commit", j) /\ TurnKnows("commit", j)
  BY DEF Fitting, TypeOK, JobsOK, Turning
<1>2. j.session \in Sessions /\ j.event \in Events /\ j.decision \in Decisions
  BY <1>1 DEF JobFits, TurnLabels
<1>3. j.seq \in Nat \ {0}
  BY <1>1 DEF TurnKnows, Jobs
<1>4. Response(h) \in Responses
  BY <1>1, <1>2 DEF Response, Responses, Jobs
<1>5. Response(h) # None
  BY <1>4, NamesAssumption
<1>6. OwnerRow(j) \in RowsOf /\ AssistantRow(j) \in RowsOf
  <2>1. j.sets \in SUBSET SlotKeys /\ j.seq + 1 \in Nat \ {0}
    BY <1>1, <1>3 DEF Jobs
  <2> QED
    BY <1>2, <1>3, <2>1 DEF OwnerRow, AssistantRow, RowsOf
<1>7. rows' = rows \cup {OwnerRow(j), AssistantRow(j)}
  BY DEF CommitTurn, OwnerRow, AssistantRow
<1>8. MovesTo(h, "idle", Idle)
  BY EndMoves DEF CommitTurn, Answer, Reply
<1> QED
  BY <1>1, <1>2, <1>3, <1>4, <1>5, <1>6, <1>7, <1>8 DEF CommitTurn, Answer, Reply

LEMMA RecordTurnFits ==
  ASSUME Inv, NEW h \in Handlers, RecordTurn(h)
  PROVE  Fitting'
<1>1. Fitting /\ Turning /\ ConversationOK /\ PublishingOK /\ BoundsOK
  BY DEF Inv, Fitting, TypeOK
<1>2. PublishingOK' /\ BoundsOK'
  BY <1>1 DEF RecordTurn, PublishingOK, publishing, BoundsOK
<1>3. /\ job[h].session \in Sessions /\ job[h].event \in Events
      /\ Stored(h) \in Responses \cup {None}
  BY <1>1, StoredIsResponse DEF RecordTurn, TurnLabels
<1>4. CASE CommitTurn(h)
  <2> DEFINE j == job[h]
  <2>1. /\ j \in Jobs /\ j.session \in Sessions /\ j.event \in Events
        /\ j.decision \in Decisions /\ Response(h) \in Responses
        /\ OwnerRow(j) \in RowsOf /\ AssistantRow(j) \in RowsOf
        /\ events' = [events EXCEPT ![<<j.session, j.event>>] = Response(h)]
        /\ rows' = rows \cup {OwnerRow(j), AssistantRow(j)}
        /\ slots' = SlotsAfter(j)
        /\ state' = [state EXCEPT ![j.session] = NextState(j.decision)]
        /\ told' = told \cup {<<j.session, j.event, Response(h)>>}
        /\ MovesTo(h, "idle", Idle)
    BY <1>1, <1>4, CommitWrites DEF RecordTurn
  <2>2. JobsOK' /\ \A g \in Handlers : JobFits(at[g], job[g])'
    BY <1>1, <2>1, IdleFits, JobsMoved
  <2>3. slots' \in [Sessions \X SlotKeys -> Events \cup {None}]
    BY <1>1, <2>1 DEF ConversationOK, SlotsAfter
  <2>4. state' \in [Sessions -> States \cup {None}]
    BY <1>1, <2>1 DEF ConversationOK, NextState, States
  <2>5. events' \in [Sessions \X Events -> Responses \cup {None}]
    BY <1>1, <2>1 DEF ConversationOK
  <2>6. ConversationOK'
    BY <1>1, <2>1, <2>3, <2>4, <2>5 DEF ConversationOK
  <2> QED
    BY <1>2, <2>2, <2>6 DEF Fitting, TypeOK
<1>5. CASE ~CommitTurn(h)
  <2>1. UNCHANGED conversation /\ MovesTo(h, "idle", Idle)
    BY <1>5, EndMoves DEF RecordTurn, Replay, Reply
  <2>2. told' \subseteq Sessions \X Events \X Responses
    BY <1>1, <1>3, <1>5 DEF RecordTurn, Replay, Reply, ConversationOK
  <2>3. JobsOK' /\ \A g \in Handlers : JobFits(at[g], job[g])'
    BY <1>1, <2>1, IdleFits, JobsMoved
  <2>4. ConversationOK'
    BY <1>1, <2>1, <2>2 DEF ConversationOK, conversation
  <2> QED
    BY <1>2, <2>3, <2>4 DEF Fitting, TypeOK
<1> QED
  BY <1>4, <1>5

(* ... of a publish ...                                                     *)
LEMMA PublishBeginFits ==
  ASSUME Inv, NEW h \in Handlers, PublishBegin(h)
  PROVE  Fitting'
<1>1. Fitting /\ ConversationOK /\ PublishingOK /\ BoundsOK
  BY DEF Inv, Fitting, TypeOK
<1>2. PICK t \in Targets : \E key \in ClientKeys \cup {None} :
        job' = [job EXCEPT ![h] = [Idle EXCEPT !.target = t, !.key = key]]
  BY DEF PublishBegin
<1>3. PICK key \in ClientKeys \cup {None} :
        job' = [job EXCEPT ![h] = [Idle EXCEPT !.target = t, !.key = key]]
  BY <1>2
<1> DEFINE j == [Idle EXCEPT !.target = t, !.key = key]
<1>4. MovesTo(h, "count", j)
  BY <1>3 DEF PublishBegin, Go, MovesTo
<1>5. j \in Jobs /\ JobFits("count", j) /\ "count" \in Labels
  BY DEF Idle, Jobs, JobFits, Labels, TurnLabels, PublishLabels, Reserving, Holding, Keys
<1>6. JobsOK' /\ \A g \in Handlers : JobFits(at[g], job[g])'
  <2> HIDE DEF j
  <2> QED
    BY <1>1, <1>4, <1>5, JobsMoved
<1>7. ConversationOK' /\ PublishingOK' /\ BoundsOK'
  BY <1>1 DEF PublishBegin, ConversationOK, conversation, PublishingOK, publishing, BoundsOK
<1> QED
  BY <1>6, <1>7 DEF Fitting, TypeOK

LEMMA StatusesAreFinite ==
  ASSUME AttemptsAreInOrder, NEW t \in Targets, NEW s
  PROVE  /\ IsFiniteSet(AttemptsOf(t)) /\ IsFiniteSet(WithStatus(t, s))
         /\ Cardinality(WithStatus(t, s)) \in Nat
<1>1. IsFiniteSet(AttemptsOf(t))
  BY DEF AttemptsAreInOrder
<1>2. WithStatus(t, s) \in SUBSET AttemptsOf(t)
  BY DEF WithStatus
<1>3. IsFiniteSet(WithStatus(t, s))
  BY <1>1, <1>2, FS_Subset
<1> QED
  BY <1>1, <1>3, FS_CardinalityType

(* The key a request counts its way to.                                     *)
LEMMA CountedKey ==
  ASSUME Posting, NEW t \in Targets, ~(Failures(t) >= FailureLimit)
  PROVE  Failures(t) \in Nat /\ <<t, Failures(t) + 1>> \in DefaultKeys
<1>1. Failures(t) \in Nat
  BY StatusesAreFinite DEF Posting, Failures
<1>2. Failures(t) + 1 \in 1 .. FailureLimit
  BY <1>1, BoundsAssumption
<1> QED
  BY <1>1, <1>2 DEF DefaultKeys

LEMMA CountFailedFits ==
  ASSUME Inv, NEW h \in Handlers, CountFailed(h)
  PROVE  Fitting'
<1>1. Fitting /\ JobsOK /\ UNCHANGED <<conversation, draft, publishing, history>>
  BY DEF Inv, Fitting, TypeOK, CountFailed
<1>2. at[h] = "count" /\ job[h] \in Jobs /\ JobFits("count", job[h])
  BY <1>1 DEF CountFailed, Fitting, JobsOK
<1>3. job[h].target \in Targets /\ job[h].key \in ClientKeys \cup {None}
  BY <1>2 DEF JobFits, PublishLabels, Reserving
<1>4. CASE End(h)
  BY <1>1, <1>4, EndMoves, IdleFits, QuietFits
<1>5. CASE ~End(h)
  <2> DEFINE t == job[h].target
             key == IF job[h].key = None THEN <<t, Failures(t) + 1>> ELSE job[h].key
             j == [job[h] EXCEPT !.key = key]
  <2>1. ~(Failures(t) >= FailureLimit)
    BY <1>5 DEF CountFailed
  <2>2. key \in Keys
    BY <1>3, <2>1, CountedKey DEF Inv, Keys
  <2>3. job' = [job EXCEPT ![h] = j] /\ Go(h, "reserve")
    BY <1>1, <1>5 DEF CountFailed, JobsOK
  <2>4. MovesTo(h, "reserve", j)
    BY <2>3 DEF Go, MovesTo
  <2>5. j \in Jobs /\ JobFits("reserve", j) /\ "reserve" \in Labels
    <3> HIDE DEF key
    <3> QED
      BY <1>2, <2>2 DEF Jobs, JobFits, Labels, TurnLabels, PublishLabels, Reserving, Holding
  <2> HIDE DEF j
  <2> QED
    BY <1>1, <2>4, <2>5, QuietFits
<1> QED
  BY <1>4, <1>5

(* A request that publishes, and what it knows of its key.                  *)
LEMMA PublisherFits ==
  ASSUME Fitting, NEW h \in Handlers, at[h] \in Reserving \cup Holding
  PROVE  /\ job[h] \in Jobs /\ JobFits(at[h], job[h])
         /\ job[h].target \in Targets /\ job[h].key \in Keys
BY DEF Fitting, TypeOK, JobsOK, JobFits, PublishLabels, Reserving

LEMMA ReadMaxFits ==
  ASSUME Inv, NEW h \in Handlers, ReadMax(h)
  PROVE  Fitting'
<1>1. Fitting /\ JobsOK /\ PublishingOK /\ UNCHANGED <<conversation, draft, publishing, history>>
  BY DEF Inv, Fitting, TypeOK, ReadMax
<1>2. PICK t, n : t = job[h].target /\ n = NextNumber(t)
  OBVIOUS
<1>3. job[h] \in Jobs /\ JobFits("reserve", job[h]) /\ t \in Targets
  BY <1>1, <1>2, PublisherFits DEF ReadMax, Reserving
<1>4. n \in Nat \ {0}
  BY <1>1, <1>2, <1>3, NumberIsNext, StatusesAreFinite DEF Inv, Posting
<1>5. PICK j : j = [job[h] EXCEPT !.number = n]
  OBVIOUS
<1>6. MovesTo(h, "insert", j)
  BY <1>1, <1>2, <1>5 DEF ReadMax, Go, MovesTo, JobsOK
<1>7. j \in Jobs /\ JobFits("insert", j) /\ "insert" \in Labels /\ "insert" # "idle"
  BY <1>3, <1>4, <1>5 DEF Jobs, JobFits, Labels, TurnLabels, PublishLabels, Reserving, Holding
<1> QED
  BY <1>1, <1>6, <1>7, QuietFits

LEMMA ReserveFits ==
  ASSUME Inv, NEW h \in Handlers, Reserve(h)
  PROVE  Fitting'
<1>1. Fitting /\ ConversationOK /\ PublishingOK /\ BoundsOK /\ JobsOK
  BY DEF Inv, Fitting, TypeOK
<1>2. PICK i, j : i = job[h] /\ j = [i EXCEPT !.inserted = attempt[i.key] = None, !.number = 0]
  OBVIOUS
<1>3. i \in Jobs /\ JobFits("insert", i) /\ i.target \in Targets /\ i.key \in Keys
  BY <1>1, <1>2, PublisherFits DEF Reserve, Reserving
<1>4. NewAttempt(i) \in Attempts
  BY <1>3 DEF NewAttempt, Attempts, Jobs, JobFits
<1>5. attempt' \in [Keys -> Attempts \cup {None}]
  BY <1>1, <1>2, <1>3, <1>4 DEF Reserve, Inserted, PublishingOK
<1>6. custom' \subseteq Targets
  BY <1>1, <1>2, <1>3 DEF Reserve, PublishingOK
<1>7. PublishingOK'
  BY <1>1, <1>5, <1>6 DEF Reserve, PublishingOK
<1>8. ConversationOK' /\ BoundsOK'
  BY <1>1 DEF Reserve, ConversationOK, conversation, BoundsOK
<1>9. MovesTo(h, "inspect", j)
  BY <1>1, <1>2 DEF Reserve, Go, MovesTo, JobsOK
<1>10. j \in Jobs /\ JobFits("inspect", j) /\ "inspect" \in Labels
  BY <1>2, <1>3 DEF Jobs, JobFits, Labels, TurnLabels, PublishLabels, Reserving, Holding
<1>11. JobsOK' /\ \A g \in Handlers : JobFits(at[g], job[g])'
  BY <1>1, <1>9, <1>10, JobsMoved
<1> QED
  BY <1>7, <1>8, <1>11 DEF Fitting, TypeOK

LEMMA InspectFits ==
  ASSUME Inv, NEW h \in Handlers, Inspect(h)
  PROVE  Fitting'
<1>1. Fitting /\ JobsOK /\ UNCHANGED <<conversation, draft, publishing, history>>
  BY DEF Inv, Fitting, TypeOK, Inspect
<1>2. job[h] \in Jobs /\ JobFits("inspect", job[h])
  BY <1>1, PublisherFits DEF Inspect, Holding
<1>3. CASE End(h)
  BY <1>1, <1>3, EndMoves, IdleFits, QuietFits
<1>4. CASE ~End(h)
  <2>1. MovesTo(h, "call", job[h]) /\ job[h].inserted
    BY <1>1, <1>4, StayMoves DEF Inspect, MayCall
  <2>2. JobFits("call", job[h]) /\ "call" \in Labels
    BY <1>2, <2>1 DEF JobFits, Labels, TurnLabels, PublishLabels, Reserving, Holding
  <2> QED
    BY <1>1, <1>2, <2>1, <2>2, QuietFits
<1> QED
  BY <1>3, <1>4

LEMMA CallFits ==
  ASSUME Inv, NEW h \in Handlers, Call(h)
  PROVE  Fitting'
<1> DEFINE t == job[h].target
<1>1. Fitting /\ ConversationOK /\ PublishingOK /\ BoundsOK /\ JobsOK
  BY DEF Inv, Fitting, TypeOK
<1>2. at[h] = "call"
  BY DEF Call
<1>3. job[h] \in Jobs /\ JobFits("call", job[h]) /\ t \in Targets
  BY <1>1, <1>2, PublisherFits DEF Holding
<1>4. posted' \in [Targets -> Nat] /\ lost' \in [Targets -> Nat]
  BY <1>1, <1>3 DEF Call, PublishingOK
<1>5. PublishingOK'
  BY <1>1, <1>4 DEF Call, PublishingOK
<1>6. ConversationOK' /\ BoundsOK'
  BY <1>1 DEF Call, ConversationOK, conversation, BoundsOK
<1>7. PICK label \in {"release", "fail", "complete"} : Go(h, label)
  BY DEF Call
<1>8. MovesTo(h, label, job[h])
  BY <1>1, <1>7, StayMoves DEF Call
<1>9. JobFits(label, job[h]) /\ label \in Labels /\ label # "idle"
  BY <1>3, <1>7 DEF JobFits, Labels, TurnLabels, PublishLabels, Reserving, Holding
<1>10. JobsOK' /\ \A g \in Handlers : JobFits(at[g], job[g])'
  BY <1>1, <1>3, <1>8, <1>9, JobsMoved
<1> QED
  BY <1>5, <1>6, <1>10 DEF Fitting, TypeOK

(* A step that ends its request.                                            *)
LEMMA EndFits ==
  ASSUME Fitting, NEW h \in Handlers, End(h), ConversationOK', PublishingOK', BoundsOK'
  PROVE  Fitting'
<1>1. JobsOK' /\ \A g \in Handlers : JobFits(at[g], job[g])'
  BY EndMoves, IdleFits, JobsMoved
<1> QED
  BY <1>1 DEF Fitting, TypeOK

LEMMA CompleteFits ==
  ASSUME Inv, NEW h \in Handlers, Complete(h)
  PROVE  Fitting'
<1> DEFINE t == job[h].target
           key == job[h].key
<1>1. Fitting /\ ConversationOK /\ PublishingOK /\ BoundsOK
  BY DEF Inv, Fitting, TypeOK
<1>2. t \in Targets /\ key \in Keys
  BY <1>1, PublisherFits DEF Complete, Holding
<1>3. attempt' \in [Keys -> Attempts \cup {None}]
  BY <1>1, <1>2 DEF Complete, IsRequested, PublishingOK, Attempts
<1>4. t[1] \in Drafts
  BY <1>2 DEF Targets
<1>5. draft' \in [Drafts -> Statuses \cup {None}]
  BY <1>1, <1>4 DEF Complete, PublishingOK, Statuses
<1>6. PublishingOK' /\ ConversationOK' /\ BoundsOK'
  BY <1>1, <1>3, <1>5
  DEF Complete, PublishingOK, ConversationOK, conversation, BoundsOK, history
<1> QED
  BY <1>1, <1>6, EndFits DEF Complete

LEMMA FailFits ==
  ASSUME Inv, NEW h \in Handlers, Fail(h)
  PROVE  Fitting'
<1>1. Fitting /\ ConversationOK /\ PublishingOK /\ BoundsOK
  BY DEF Inv, Fitting, TypeOK
<1>2. job[h].key \in Keys
  BY <1>1, PublisherFits DEF Fail, Holding
<1>3. attempt' \in [Keys -> Attempts \cup {None}]
  BY <1>1, <1>2 DEF Fail, IsRequested, PublishingOK, Attempts
<1>4. PublishingOK' /\ ConversationOK' /\ BoundsOK'
  BY <1>1, <1>3 DEF Fail, PublishingOK, ConversationOK, conversation, BoundsOK, history
<1> QED
  BY <1>1, <1>4, EndFits DEF Fail

LEMMA ReleaseFits ==
  ASSUME Inv, NEW h \in Handlers, Release(h)
  PROVE  Fitting'
<1>1. Fitting /\ ConversationOK /\ PublishingOK /\ BoundsOK
  BY DEF Inv, Fitting, TypeOK
<1>2. job[h].key \in Keys
  BY <1>1, PublisherFits DEF Release, Holding
<1>3. attempt' \in [Keys -> Attempts \cup {None}]
  BY <1>1, <1>2 DEF Release, PublishingOK
<1>4. PublishingOK' /\ ConversationOK' /\ BoundsOK'
  BY <1>1, <1>3 DEF Release, PublishingOK, ConversationOK, conversation, BoundsOK, history
<1> QED
  BY <1>1, <1>4, EndFits DEF Release

(* ... and its death, anywhere.                                             *)
LEMMA AbortFits ==
  ASSUME Inv, NEW h \in Handlers, Abort(h)
  PROVE  Fitting'
<1>1. Fitting /\ ConversationOK /\ PublishingOK /\ BoundsOK
  BY DEF Inv, Fitting, TypeOK
<1>2. at[h] = "complete" => job[h].target \in Targets
  BY <1>1, PublisherFits DEF Holding
<1>3. lost' \in [Targets -> Nat]
  BY <1>1, <1>2 DEF Abort, PublishingOK
<1>4. dead' \subseteq Keys
  BY <1>1 DEF Abort, PublishingOK
<1>5. PublishingOK'
  BY <1>1, <1>3, <1>4 DEF Abort, PublishingOK, publishing
<1>6. ConversationOK'
  BY <1>1 DEF Abort, ConversationOK, conversation
<1>7. BoundsOK'
  BY <1>1, BoundsAssumption DEF Abort, BoundsOK
<1> QED
  BY <1>1, <1>5, <1>6, <1>7, EndFits DEF Abort

LEMMA FittingKept ==
  ASSUME Inv, [Next]_vars
  PROVE  Fitting'
<1>1. ASSUME NEW h \in Handlers, TurnBegin(h) \/ PublishBegin(h) \/ Step(h) \/ Abort(h)
      PROVE  Fitting'
  <2>1. CASE TurnBegin(h)
    BY <2>1, TurnBeginFits
  <2>2. CASE Turn(h)
    BY <2>2, ReadReplayFits, ClassifyFits, WriteDraftFits, NextSequenceFits,
       RecordTurnFits DEF Turn
  <2>3. CASE PublishBegin(h)
    BY <2>3, PublishBeginFits
  <2>4. CASE Publish(h)
    BY <2>4, CountFailedFits, ReadMaxFits, ReserveFits, InspectFits, CallFits, CompleteFits,
       FailFits, ReleaseFits DEF Publish
  <2>5. CASE Abort(h)
    BY <2>5, AbortFits
  <2> QED
    BY <1>1, <2>1, <2>2, <2>3, <2>4, <2>5 DEF Step
<1>2. CASE UNCHANGED vars
  <2>1. UNCHANGED <<state, rows, events, slots, draft, attempt, posted, at, job,
                    told, lost, custom, again, cuts, dead, budget>>
    BY <1>2 DEF vars, conversation, publishing, history
  <2>2. JobsOK' /\ ConversationOK' /\ PublishingOK' /\ BoundsOK'
    BY <2>1 DEF Inv, Fitting, TypeOK, JobsOK, ConversationOK, PublishingOK, BoundsOK
  <2> QED
    BY <2>1, <2>2 DEF Inv, Fitting, TypeOK
<1> QED
  BY <1>1, <1>2 DEF Next

-----------------------------------------------------------------------------
(* The conversation. *)

(* A session's messages have the numbers from 1 to the last.                *)
LEMMA Numbered ==
  ASSUME TurnsAreNumbered, NEW s \in Sessions
  PROVE  /\ Last(s) \in Nat /\ Last(s) % 2 = 0
         /\ \A m \in rows : m.session = s => m.seq \in 1 .. Last(s)
         /\ \A n \in 1 .. Last(s) : \E m \in rows : m.session = s /\ m.seq = n
<1>1. /\ Last(s) \in Nat /\ Last(s) % 2 = 0
      /\ {m.seq : m \in {n \in rows : n.session = s}} = 1 .. Last(s)
  BY DEF TurnsAreNumbered
<1>2. \A m \in rows : m.session = s =>
        m.seq \in {q.seq : q \in {n \in rows : n.session = s}}
  OBVIOUS
<1>3. \A n \in {q.seq : q \in {m \in rows : m.session = s}} :
        \E m \in rows : m.session = s /\ m.seq = n
  OBVIOUS
<1> QED
  BY <1>1, <1>2, <1>3

LEMMA TurningInitially == Init => Turning
<1> SUFFICES ASSUME Init PROVE Turning
  OBVIOUS
<1>1. rows = {} /\ told = {} /\ \A h \in Handlers : at[h] = "idle"
  BY DEF Init
<1>2. ASSUME NEW s \in Sessions
      PROVE  /\ {n \in rows : n.session = s} = {}
             /\ {m.seq : m \in {n \in rows : n.session = s}} = {}
             /\ Last(s) = 0
  <2>1. {n \in rows : n.session = s} = {}
        /\ {m.seq : m \in {n \in rows : n.session = s}} = {}
    BY <1>1
  <2>2. {m.seq : m \in {n \in rows : n.session = s}} = 1 .. 0
    BY <2>1
  <2>3. Last(s) = 0
    BY <2>2, MaxOfInterval DEF Last
  <2> QED
    BY <2>1, <2>3
<1>3. IsFiniteSet(rows) /\ Cardinality({}) = 0
  BY <1>1, FS_EmptySet
<1>4. TurnsAreNumbered
  BY <1>1, <1>2, <1>3 DEF TurnsAreNumbered
<1>5. TranscriptIsTurns
  BY <1>1, <1>2, <1>3 DEF TranscriptIsTurns
<1>6. MemoryStandsOnTranscript
  BY <1>1 DEF MemoryStandsOnTranscript, SettersOf, Init
<1>7. RepliesAgree
  BY <1>1 DEF RepliesAgree
<1> QED
  BY <1>1, <1>4, <1>5, <1>6, <1>7 DEF Turning, TurnKnows

(* A step that leaves the conversation alone.                               *)
LEMMA TurningFrame ==
  ASSUME Fitting, Turning, NEW h \in Handlers, NEW label, NEW j, MovesTo(h, label, j),
         TurnKnows(label, j), UNCHANGED <<conversation, told>>
  PROVE  Turning'
<1>1. UNCHANGED <<state, rows, events, slots, told>>
  BY DEF conversation
<1>2. /\ at'[h] = label /\ job'[h] = j
      /\ \A g \in Handlers \ {h} : at'[g] = at[g] /\ job'[g] = job[g]
  BY Moved DEF Fitting, TypeOK
<1>3. \A s : Last(s)' = Last(s)
  BY <1>1 DEF Last
<1>4. \A g \in Handlers : TurnKnows(at[g], job[g])'
  BY <1>1, <1>2 DEF Turning, TurnKnows, Last
<1>5. TranscriptIsTurns' /\ RepliesAgree' /\ MemoryStandsOnTranscript' /\ TurnsAreNumbered'
  BY <1>1 DEF Turning, TranscriptIsTurns, RepliesAgree, MemoryStandsOnTranscript,
              TurnsAreNumbered, Last, SettersOf
<1> QED
  BY <1>4, <1>5 DEF Turning

(* A step that tells what is stored.                                        *)
LEMMA ReplayKeeps ==
  ASSUME Fitting, Turning, NEW h \in Handlers, at[h] \in TurnLabels,
         Stored(h) # None, Reply(h, Stored(h)), UNCHANGED conversation
  PROVE  Turning'
<1>1. UNCHANGED <<state, rows, events, slots>>
  BY DEF conversation
<1>2. MovesTo(h, "idle", Idle)
  BY EndMoves DEF Reply
<1>3. /\ at'[h] = "idle"
      /\ \A g \in Handlers \ {h} : at'[g] = at[g] /\ job'[g] = job[g]
  BY <1>2, Moved DEF Fitting, TypeOK
<1>4. \A g \in Handlers : TurnKnows(at[g], job[g])'
  BY <1>1, <1>3 DEF Turning, TurnKnows, Last
<1>5. told' = told \cup {<<job[h].session, job[h].event, Stored(h)>>}
  BY DEF Reply
<1>6. RepliesAgree'
  <2>1. \A o \in told : events'[o[1], o[2]] = o[3]
    BY <1>1 DEF Turning, RepliesAgree
  <2>2. events'[job[h].session, job[h].event] = Stored(h)
    BY <1>1 DEF Stored
  <2>3. ASSUME NEW o \in told' PROVE events'[o[1], o[2]] = o[3]
    <3>1. CASE o \in told
      BY <2>1, <3>1
    <3>2. CASE o = <<job[h].session, job[h].event, Stored(h)>>
      <4>1. o[1] = job[h].session /\ o[2] = job[h].event /\ o[3] = Stored(h)
        BY <3>2
      <4> QED
        BY <2>2, <4>1
    <3> QED
      BY <1>5, <3>1, <3>2
  <2> QED
    BY <2>3 DEF RepliesAgree
<1>7. TranscriptIsTurns' /\ MemoryStandsOnTranscript' /\ TurnsAreNumbered'
  BY <1>1 DEF Turning, TranscriptIsTurns, MemoryStandsOnTranscript,
              TurnsAreNumbered, Last, SettersOf
<1> QED
  BY <1>4, <1>6, <1>7 DEF Turning

(* A session that begins has no messages yet.                               *)
LEMMA TurnBeginKeeps ==
  ASSUME Inv, NEW h \in Handlers, TurnBegin(h)
  PROVE  Turning'
<1>1. Fitting /\ Turning /\ UNCHANGED <<rows, events, slots, told>>
  BY DEF Inv, TurnBegin
<1>2. PICK s \in Sessions, e \in Events :
        /\ state' = IF state[s] = None
                    THEN [state EXCEPT ![s] = "awaiting_suggestion_decision"] ELSE state
        /\ job' = [job EXCEPT ![h] = [Idle EXCEPT !.session = s, !.event = e]]
  BY DEF TurnBegin
<1>3. MovesTo(h, "replay", [Idle EXCEPT !.session = s, !.event = e])
  BY <1>2 DEF TurnBegin, Go, MovesTo
<1>4. /\ at'[h] = "replay"
      /\ \A g \in Handlers \ {h} : at'[g] = at[g] /\ job'[g] = job[g]
  BY <1>1, <1>3, Moved DEF Fitting, TypeOK
<1>5. \A g \in Handlers : TurnKnows(at[g], job[g])'
  BY <1>1, <1>4 DEF Turning, TurnKnows, Last
<1>6. TranscriptIsTurns' /\ RepliesAgree' /\ TurnsAreNumbered'
  BY <1>1 DEF Turning, TranscriptIsTurns, RepliesAgree, TurnsAreNumbered, Last
<1>7. ASSUME NEW m \in rows, m.session = s
      PROVE  state[s] # None
  <2>1. Last(s) \in Nat /\ m.seq \in 1 .. Last(s)
    BY <1>1, <1>7, Numbered DEF Turning
  <2>2. PICK n \in rows : n.session = s /\ n.seq = Last(s)
    BY <1>1, <2>1, Numbered DEF Turning
  <2>3. state[s] = NextState(n.decision)
    BY <1>1, <2>2 DEF Turning, MemoryStandsOnTranscript
  <2>4. NextState(n.decision) \in States
    BY DEF NextState, States
  <2> QED
    BY <2>3, <2>4, NamesAssumption
<1>8. \A m \in rows : m.session \in Sessions => state'[m.session] = state[m.session]
  BY <1>1, <1>2, <1>7 DEF Fitting, TypeOK, ConversationOK
<1>9. \A t \in Sessions : Last(t)' = Last(t) /\ \A k \in SlotKeys : SettersOf(t, k)' = SettersOf(t, k)
  BY <1>1 DEF Last, SettersOf
<1>10. MemoryStandsOnTranscript'
  <2>1. \A t \in Sessions, m \in rows :
          m.session = t /\ m.seq = Last(t) => state'[t] = NextState(m.decision)
    BY <1>1, <1>8 DEF Turning, MemoryStandsOnTranscript
  <2>2. \A t \in Sessions : \A k \in SlotKeys :
          IF SettersOf(t, k) = {} THEN slots[t, k] = None
          ELSE \E m \in SettersOf(t, k) :
                 /\ slots[t, k] = m.event
                 /\ \A n \in SettersOf(t, k) : n.seq <= m.seq
    BY <1>1 DEF Turning, MemoryStandsOnTranscript
  <2>3. ASSUME NEW t \in Sessions
        PROVE  (\A m \in rows : m.session = t /\ m.seq = Last(t) => state[t] = NextState(m.decision))'
    BY <1>1, <1>9, <2>1
  <2>4. ASSUME NEW t \in Sessions, NEW k \in SlotKeys
        PROVE  (IF SettersOf(t, k) = {} THEN slots[t, k] = None
                ELSE \E m \in SettersOf(t, k) :
                       /\ slots[t, k] = m.event
                       /\ \A n \in SettersOf(t, k) : n.seq <= m.seq)'
    BY <1>1, <2>2 DEF SettersOf
  <2> QED
    BY <2>3, <2>4 DEF MemoryStandsOnTranscript
<1> QED
  BY <1>5, <1>6, <1>10 DEF Turning

(* A turn is stored behind the last one: its number is the next, although   *)
(* it was read earlier, because it is free.                                 *)
LEMMA CommitPlace ==
  ASSUME Fitting, Turning, NEW h \in Handlers, at[h] = "commit",
         Stored(h) = None, ~Taken(job[h].session, job[h].seq)
  PROVE  LET j == job[h] IN
         /\ j.session \in Sessions /\ j.event \in Events
         /\ Last(j.session) \in Nat /\ j.seq = Last(j.session) + 1
         /\ Last(j.session) % 2 = 0 /\ j.seq % 2 = 1 /\ (j.seq + 1) % 2 = 0
         /\ \A m \in rows : m.session = j.session =>
              m.seq \in 1 .. Last(j.session) /\ m.event # j.event
<1> DEFINE j == job[h]
           s == j.session
<1>1. s \in Sessions /\ j.event \in Events
  BY StoredIsResponse DEF TurnLabels
<1>2. /\ Last(s) \in Nat /\ Last(s) % 2 = 0
      /\ \A m \in rows : m.session = s => m.seq \in 1 .. Last(s)
      /\ \A n \in 1 .. Last(s) : \E m \in rows : m.session = s /\ m.seq = n
  BY <1>1, Numbered DEF Turning
<1>3. j.seq % 2 = 1 /\ j.seq \in 1 .. Last(s) + 1
  BY DEF Turning, TurnKnows
<1>4. j.seq \notin 1 .. Last(s)
  BY <1>2 DEF Taken
<1>5. j.seq = Last(s) + 1
  BY <1>2, <1>3, <1>4
<1>6. (j.seq + 1) % 2 = 0
  BY <1>2, <1>5
<1>7. \A m \in rows : m.session = s => m.event # j.event
  BY DEF Stored, Turning, TurnsAreNumbered
<1> QED
  BY <1>1, <1>2, <1>3, <1>5, <1>6, <1>7

LEMMA CommitNumbers ==
  ASSUME Fitting, Turning, NEW h \in Handlers, at[h] = "commit", CommitTurn(h),
         Stored(h) = None, ~Taken(job[h].session, job[h].seq),
         NEW s, s = job[h].session
  PROVE  /\ Last(s)' = Last(s) + 2
         /\ \A t \in Sessions \ {s} : Last(t)' = Last(t)
         /\ TurnsAreNumbered'
<1> DEFINE L == Last(s)
           A == OwnerRow(job[h])
           B == AssistantRow(job[h])
           Seqs(t) == {m.seq : m \in {n \in rows : n.session = t}}
           Seqs1(t) == {m.seq : m \in {n \in rows' : n.session = t}}
<1>1. /\ s \in Sessions /\ job[h].event \in Events /\ L \in Nat /\ job[h].seq = L + 1
      /\ L % 2 = 0 /\ job[h].seq % 2 = 1 /\ (job[h].seq + 1) % 2 = 0
  BY CommitPlace
<1>2. /\ events' = [events EXCEPT ![<<s, job[h].event>>] = Response(h)]
      /\ rows' = rows \cup {A, B} /\ Response(h) # None
  BY CommitWrites
<1>3. /\ A.session = s /\ A.seq = L + 1 /\ A.event = job[h].event
      /\ B.session = s /\ B.seq = L + 2 /\ B.event = job[h].event
  BY <1>1 DEF OwnerRow, AssistantRow
<1> HIDE DEF A, B
<1>4. Seqs(s) = 1 .. L
  BY <1>1 DEF Turning, TurnsAreNumbered
<1>5. Seqs1(s) = 1 .. L + 2
  <2>1. Seqs1(s) = Seqs(s) \cup {L + 1, L + 2}
    BY <1>2, <1>3
  <2> HIDE DEF Seqs, Seqs1
  <2> QED
    BY <1>1, <1>4, <2>1
<1>6. ASSUME NEW t \in Sessions \ {s} PROVE Seqs1(t) = Seqs(t)
  BY <1>2, <1>3
<1>7. Last(s)' = L + 2
  <2>1. Last(s)' = Max({0} \cup Seqs1(s))
    BY DEF Last
  <2> HIDE DEF Seqs1
  <2>2. L + 2 \in Nat
    BY <1>1
  <2> QED
    BY <1>5, <2>1, <2>2, MaxOfInterval
<1>8. ASSUME NEW t \in Sessions \ {s} PROVE Last(t)' = Last(t)
  <2>1. Last(t)' = Max({0} \cup Seqs1(t)) /\ Last(t) = Max({0} \cup Seqs(t))
    BY DEF Last
  <2> QED
    BY <1>6, <2>1
<1>9. IsFiniteSet(rows')
  <2>1. IsFiniteSet(rows)
    BY DEF Turning, TurnsAreNumbered
  <2>2. IsFiniteSet((rows \cup {A}) \cup {B})
    BY <2>1, FS_AddElement
  <2>3. rows' = (rows \cup {A}) \cup {B}
    BY <1>2
  <2> QED
    BY <2>2, <2>3
<1>10. \A m \in rows' : events'[m.session, m.event] # None
  <2>1. \A m \in rows : /\ m.session \in Sessions /\ m.event \in Events
                        /\ events[m.session, m.event] # None
    BY DEF Turning, TurnsAreNumbered, Fitting, TypeOK, ConversationOK, RowsOf
  <2>2. \A t \in Sessions, e \in Events :
          events[t, e] # None => events'[t, e] # None
    BY <1>2 DEF Fitting, TypeOK, ConversationOK
  <2>3. events'[s, job[h].event] # None
    BY <1>1, <1>2 DEF Fitting, TypeOK, ConversationOK
  <2> QED
    BY <1>2, <1>3, <2>1, <2>2, <2>3
<1>11. ASSUME NEW t \in Sessions
       PROVE  Last(t)' \in Nat /\ Last(t)' % 2 = 0 /\ Seqs1(t) = 1 .. Last(t)'
  <2>1. CASE t = s
    <3>1. L + 2 \in Nat /\ (L + 2) % 2 = 0
      BY <1>1
    <3>2. Last(t)' = L + 2
      BY <1>7, <2>1
    <3> HIDE DEF Seqs1, L
    <3> QED
      BY <1>5, <2>1, <3>1, <3>2
  <2>2. CASE t # s
    <3>1. Last(t) \in Nat /\ Last(t) % 2 = 0 /\ Seqs(t) = 1 .. Last(t)
      BY DEF Turning, TurnsAreNumbered
    <3> HIDE DEF Seqs, Seqs1
    <3> QED
      BY <1>6, <1>8, <2>2, <3>1
  <2> QED
    BY <2>1, <2>2
<1>12. TurnsAreNumbered'
  BY <1>9, <1>10, <1>11 DEF TurnsAreNumbered
<1> QED
  BY <1>7, <1>8, <1>12

(* What is on the transcript afterwards, session by session.                *)
LEMMA CommitRows ==
  ASSUME Fitting, Turning, NEW h \in Handlers, at[h] = "commit", CommitTurn(h),
         Stored(h) = None, ~Taken(job[h].session, job[h].seq),
         NEW s, s = job[h].session, NEW L, L = Last(s), NEW A, NEW B,
         A = OwnerRow(job[h]), B = AssistantRow(job[h])
  PROVE  /\ L \in Nat /\ L % 2 = 0 /\ (L + 1) % 2 = 1 /\ (L + 2) % 2 = 0
         /\ rows' = rows \cup {A, B}
         /\ A.session = s /\ A.seq = L + 1 /\ A.role = "owner" /\ A.event = job[h].event
         /\ A.decision = job[h].decision /\ A.sets = job[h].sets
         /\ B.session = s /\ B.seq = L + 2 /\ B.role = "assistant" /\ B.event = job[h].event
         /\ B.decision = job[h].decision
         /\ \A m \in rows : m.session = s => m.seq \in 1 .. L /\ m.event # job[h].event
<1>1. /\ L \in Nat /\ job[h].seq = L + 1 /\ L % 2 = 0
      /\ job[h].seq % 2 = 1 /\ (job[h].seq + 1) % 2 = 0
      /\ \A m \in rows : m.session = s => m.seq \in 1 .. L /\ m.event # job[h].event
  BY CommitPlace
<1>2. rows' = rows \cup {A, B}
  BY CommitWrites
<1>3. L + 2 = job[h].seq + 1
  BY <1>1
<1> QED
  BY <1>1, <1>2, <1>3 DEF OwnerRow, AssistantRow

LEMMA CommitTranscript ==
  ASSUME Fitting, Turning, NEW h \in Handlers, at[h] = "commit", CommitTurn(h),
         Stored(h) = None, ~Taken(job[h].session, job[h].seq)
  PROVE  TranscriptIsTurns'
<1>1. PICK s, L, A, B : /\ s = job[h].session /\ L = Last(s)
                        /\ A = OwnerRow(job[h]) /\ B = AssistantRow(job[h])
  OBVIOUS
<1>2. /\ L \in Nat /\ L % 2 = 0 /\ (L + 1) % 2 = 1 /\ (L + 2) % 2 = 0
      /\ rows' = rows \cup {A, B}
      /\ A.session = s /\ A.seq = L + 1 /\ A.role = "owner" /\ A.event = job[h].event
      /\ B.session = s /\ B.seq = L + 2 /\ B.role = "assistant" /\ B.event = job[h].event
      /\ \A m \in rows : m.session = s => m.seq \in 1 .. L /\ m.event # job[h].event
  BY <1>1, CommitRows
<1>3. Last(s)' = L + 2 /\ \A t \in Sessions \ {s} : Last(t)' = Last(t)
  BY <1>1, CommitNumbers
<1> DEFINE Mine(t) == {m \in rows : m.session = t}
           Mine1(t) == {m \in rows' : m.session = t}
           Orderly(m, n) ==
             /\ m.seq = n.seq => m = n
             /\ m.role = "owner" <=> m.seq % 2 = 1
             /\ m.role = "owner" /\ n.seq = m.seq + 1 => n.event = m.event
             /\ m.role = n.role /\ m.event = n.event => m = n
<1>4. ASSUME NEW t \in Sessions
      PROVE  Cardinality(Mine(t)) = Last(t) /\ \A m, n \in Mine(t) : Orderly(m, n)
  BY DEF Turning, TranscriptIsTurns
<1>5. Cardinality(Mine1(s)) = L + 2
  <2>1. Mine1(s) = (Mine(s) \cup {A}) \cup {B}
    BY <1>2
  <2>2. A \notin Mine(s) /\ B \notin Mine(s) \cup {A}
    BY <1>2
  <2>3. s \in Sessions
    BY <1>1, CommitPlace
  <2>4. Cardinality(Mine(s)) = L
    BY <1>1, <1>4, <2>3
  <2>5. IsFiniteSet(rows) /\ Mine(s) \in SUBSET rows
    BY DEF Turning, TurnsAreNumbered
  <2>6. IsFiniteSet(Mine(s))
    BY <2>5, FS_Subset
  <2> HIDE DEF Mine, Mine1
  <2>7. IsFiniteSet(Mine(s) \cup {A}) /\ Cardinality(Mine(s) \cup {A}) = L + 1
    BY <2>2, <2>4, <2>6, FS_AddElement
  <2>8. Cardinality((Mine(s) \cup {A}) \cup {B}) = (L + 1) + 1
    BY <2>2, <2>7, FS_AddElement
  <2> QED
    BY <1>2, <2>1, <2>8
<1>6. ASSUME NEW m \in Mine1(s), NEW n \in Mine1(s)
      PROVE  Orderly(m, n)
  <2>1. s \in Sessions
    BY <1>1, CommitPlace
  <2>2. /\ m \in Mine(s) \/ m = A \/ m = B
        /\ n \in Mine(s) \/ n = A \/ n = B
    BY <1>2
  <2>3. \A q \in Mine(s) : q.seq \in 1 .. L /\ q.event # job[h].event
                           /\ (q.role = "owner" <=> q.seq % 2 = 1)
    BY <1>2, <1>4, <2>1
  <2>4. CASE m \in Mine(s) /\ n \in Mine(s)
    BY <1>4, <2>1, <2>4
  <2>5. CASE m \in Mine(s) /\ n \notin Mine(s)
    <3>1. n.seq \in {L + 1, L + 2} /\ n.event = job[h].event
      BY <1>2, <2>2, <2>5
    <3>2. m.seq \in 1 .. L /\ m.event # n.event /\ (m.role = "owner" <=> m.seq % 2 = 1)
      BY <2>3, <2>5, <3>1
    <3>3. m.seq # n.seq
      BY <1>2, <3>1, <3>2
    <3>4. ~(m.role = "owner" /\ n.seq = m.seq + 1)
      BY <1>2, <3>1, <3>2
    <3> QED
      BY <3>2, <3>3, <3>4
  <2>6. CASE m \notin Mine(s) /\ n \in Mine(s)
    <3>1. /\ m.seq \in {L + 1, L + 2} /\ m.event = job[h].event
          /\ (m.role = "owner" <=> m.seq % 2 = 1)
      BY <1>2, <2>2, <2>6
    <3>2. n.seq \in 1 .. L /\ m.event # n.event
      BY <2>3, <2>6, <3>1
    <3>3. m.seq # n.seq /\ n.seq # m.seq + 1
      BY <1>2, <3>1, <3>2
    <3> QED
      BY <3>1, <3>2, <3>3
  <2>7. CASE m \notin Mine(s) /\ n \notin Mine(s)
    <3>1. (m = A \/ m = B) /\ (n = A \/ n = B)
      BY <2>2, <2>7
    <3> QED
      BY <1>2, <3>1
  <2> QED
    BY <2>4, <2>5, <2>6, <2>7
<1>7. ASSUME NEW t \in Sessions \ {s} PROVE Mine1(t) = Mine(t)
  BY <1>2
<1>8. ASSUME NEW t \in Sessions
      PROVE  Cardinality(Mine1(t)) = Last(t)' /\ \A m, n \in Mine1(t) : Orderly(m, n)
  <2>1. CASE t = s
    BY <1>3, <1>5, <1>6, <2>1
  <2>2. CASE t # s
    <3> HIDE DEF Mine, Mine1, Orderly
    <3> QED
      BY <1>3, <1>4, <1>7, <2>2
  <2> QED
    BY <2>1, <2>2
<1> QED
  BY <1>8 DEF TranscriptIsTurns

LEMMA CommitMemory ==
  ASSUME Fitting, Turning, NEW h \in Handlers, at[h] = "commit", CommitTurn(h),
         Stored(h) = None, ~Taken(job[h].session, job[h].seq)
  PROVE  MemoryStandsOnTranscript'
<1>1. PICK s, L, A, B : /\ s = job[h].session /\ L = Last(s)
                        /\ A = OwnerRow(job[h]) /\ B = AssistantRow(job[h])
  OBVIOUS
<1>2. /\ L \in Nat
      /\ rows' = rows \cup {A, B}
      /\ A.session = s /\ A.seq = L + 1 /\ A.role = "owner" /\ A.event = job[h].event
      /\ A.decision = job[h].decision /\ A.sets = job[h].sets
      /\ B.session = s /\ B.seq = L + 2 /\ B.role = "assistant"
      /\ B.decision = job[h].decision
      /\ \A m \in rows : m.session = s => m.seq \in 1 .. L
  BY <1>1, CommitRows
<1>3. Last(s)' = L + 2 /\ \A t \in Sessions \ {s} : Last(t)' = Last(t)
  BY <1>1, CommitNumbers
<1>4. /\ state' = [state EXCEPT ![s] = NextState(job[h].decision)]
      /\ slots' = SlotsAfter(job[h]) /\ s \in Sessions
  BY <1>1, CommitWrites
<1>5. ASSUME NEW t \in Sessions, NEW m \in rows', m.session = t, m.seq = Last(t)'
      PROVE  state'[t] = NextState(m.decision)
  <2>1. CASE t = s
    <3>1. m = B
      BY <1>2, <1>3, <1>5, <2>1
    <3> QED
      BY <1>2, <1>4, <2>1, <3>1 DEF Fitting, TypeOK, ConversationOK
  <2>2. CASE t # s
    <3>1. m \in rows /\ m.seq = Last(t)
      BY <1>2, <1>3, <1>5, <2>2
    <3>2. state[t] = NextState(m.decision)
      BY <1>5, <3>1 DEF Turning, MemoryStandsOnTranscript
    <3> QED
      BY <1>4, <2>2, <3>2 DEF Fitting, TypeOK, ConversationOK
  <2> QED
    BY <2>1, <2>2
<1> DEFINE Remembered(setters, value) ==
             IF setters = {} THEN value = None
             ELSE \E m \in setters : value = m.event /\ \A n \in setters : n.seq <= m.seq
<1>6. ASSUME NEW t \in Sessions, NEW k \in SlotKeys
      PROVE  Remembered(SettersOf(t, k), slots[t, k])
  BY DEF Turning, MemoryStandsOnTranscript
<1>7. ASSUME NEW t \in Sessions, NEW k \in SlotKeys
      PROVE  Remembered(SettersOf(t, k)', slots'[t, k])
  <2>1. CASE t = s /\ k \in job[h].sets
    <3>1. slots'[t, k] = A.event
      BY <1>1, <1>2, <1>4, <2>1 DEF SlotsAfter
    <3>2. A \in SettersOf(t, k)'
      BY <1>2, <2>1 DEF SettersOf
    <3>3. \A n \in SettersOf(t, k)' : n.seq <= A.seq
      BY <1>2, <2>1 DEF SettersOf
    <3> QED
      BY <3>1, <3>2, <3>3
  <2>2. CASE ~(t = s /\ k \in job[h].sets)
    <3>1. slots'[t, k] = slots[t, k]
      BY <1>1, <1>4, <2>2 DEF SlotsAfter
    <3>2. SettersOf(t, k)' = SettersOf(t, k)
      BY <1>2, <2>2 DEF SettersOf
    <3> HIDE DEF Remembered
    <3> QED
      BY <1>6, <3>1, <3>2
  <2> QED
    BY <2>1, <2>2
<1> QED
  BY <1>5, <1>7 DEF MemoryStandsOnTranscript

LEMMA CommitReplies ==
  ASSUME Fitting, Turning, NEW h \in Handlers, at[h] = "commit", CommitTurn(h),
         Stored(h) = None
  PROVE  RepliesAgree'
<1>1. PICK s, e, r : s = job[h].session /\ e = job[h].event /\ r = Response(h)
  OBVIOUS
<1>2. /\ s \in Sessions /\ e \in Events
      /\ events' = [events EXCEPT ![<<s, e>>] = r]
      /\ told' = told \cup {<<s, e, r>>}
  BY <1>1, CommitWrites
<1>3. events[s, e] = None
  BY <1>1 DEF Stored
<1>4. ASSUME NEW o \in told'
      PROVE  events'[o[1], o[2]] = o[3]
  <2>1. CASE o = <<s, e, r>>
    <3>1. o[1] = s /\ o[2] = e /\ o[3] = r
      BY <2>1
    <3> QED
      BY <1>2, <3>1 DEF Fitting, TypeOK, ConversationOK
  <2>2. CASE o \in told
    <3>1. events[o[1], o[2]] = o[3]
      BY <2>2 DEF Turning, RepliesAgree
    <3>2. o[1] \in Sessions /\ o[2] \in Events /\ o[3] \in Responses
      BY <2>2 DEF Fitting, TypeOK, ConversationOK
    <3>3. o[3] # None
      BY <3>2, NamesAssumption
    <3>4. ~(o[1] = s /\ o[2] = e)
      BY <1>3, <3>1, <3>3
    <3> QED
      BY <1>2, <3>1, <3>2, <3>4 DEF Fitting, TypeOK, ConversationOK
  <2> QED
    BY <1>2, <2>1, <2>2
<1> QED
  BY <1>4 DEF RepliesAgree

LEMMA RecordTurnKeeps ==
  ASSUME Inv, NEW h \in Handlers, RecordTurn(h)
  PROVE  Turning'
<1>1. Fitting /\ Turning /\ at[h] = "commit" /\ at[h] \in TurnLabels
  BY DEF Inv, RecordTurn, TurnLabels
<1>2. CASE Stored(h) # None /\ Replay(h) /\ UNCHANGED conversation
  BY <1>1, <1>2, ReplayKeeps DEF Replay
<1>3. CASE /\ Stored(h) = None /\ ~Taken(job[h].session, job[h].seq)
           /\ CommitTurn(h)
  <2>1. TranscriptIsTurns' /\ MemoryStandsOnTranscript' /\ RepliesAgree'
    BY <1>1, <1>3, CommitTranscript, CommitMemory, CommitReplies
  <2>2. PICK s : s = job[h].session
    OBVIOUS
  <2>3. Last(s)' = Last(s) + 2 /\ TurnsAreNumbered' /\ \A t \in Sessions \ {s} : Last(t)' = Last(t)
    BY <1>1, <1>3, <2>2, CommitNumbers
  <2>4. /\ at'[h] = "idle"
        /\ \A g \in Handlers \ {h} : at'[g] = at[g] /\ job'[g] = job[g]
    BY <1>1, <1>3, CommitWrites, Moved DEF Fitting, TypeOK
  <2>5. ASSUME NEW g \in Handlers
        PROVE  TurnKnows(at[g], job[g])'
    <3>1. CASE at'[g] # "commit"
      BY <3>1 DEF TurnKnows
    <3>2. CASE at'[g] = "commit"
      <4>1. PICK t : t = job[g].session
        OBVIOUS
      <4>2. at[g] = "commit" /\ job'[g] = job[g] /\ job'[g].session = t
        BY <2>4, <3>2, <4>1
      <4>3. t \in Sessions
        BY <1>1, <4>1, <4>2 DEF Fitting, JobFits, TurnLabels
      <4>4. job[g].seq % 2 = 1 /\ job[g].seq \in 1 .. Last(t) + 1
        BY <1>1, <4>1, <4>2 DEF Turning, TurnKnows
      <4>5. Last(t) \in Nat /\ (Last(t)' = Last(t) \/ Last(t)' = Last(t) + 2)
        BY <1>1, <2>3, <4>3, Numbered DEF Turning
      <4>6. job'[g].seq % 2 = 1 /\ job'[g].seq \in 1 .. Last(t)' + 1
        BY <4>2, <4>4, <4>5
      <4>7. Last(job[g].session)' = Last(t)'
        BY <4>2 DEF Last
      <4> QED
        BY <4>6, <4>7 DEF TurnKnows
    <3> QED
      BY <3>1, <3>2
  <2> QED
    BY <2>1, <2>3, <2>5 DEF Turning
<1>4. CASE End(h) /\ UNCHANGED <<conversation, told>>
  <2>1. MovesTo(h, "idle", Idle) /\ TurnKnows("idle", Idle)
    BY <1>4, EndMoves DEF TurnKnows
  <2> QED
    BY <1>1, <1>4, <2>1, TurningFrame
<1> QED
  BY <1>2, <1>3, <1>4 DEF RecordTurn

(* The other steps of a turn.                                               *)
LEMMA TurnKeeps ==
  ASSUME Inv, NEW h \in Handlers,
         ReadReplay(h) \/ Classify(h) \/ WriteDraft(h) \/ NextSequence(h)
  PROVE  Turning'
<1>1. Fitting /\ Turning /\ JobsOK
  BY DEF Inv, Fitting, TypeOK
<1>2. TurnKnows("idle", Idle) /\ (End(h) => MovesTo(h, "idle", Idle))
  BY EndMoves DEF TurnKnows
<1>3. CASE ReadReplay(h)
  <2>1. UNCHANGED conversation /\ at[h] \in TurnLabels
    BY <1>3 DEF ReadReplay, TurnLabels
  <2>2. CASE Stored(h) # None
    BY <1>1, <1>3, <2>1, <2>2, ReplayKeeps DEF ReadReplay
  <2>3. CASE Stored(h) = None
    <3>1. MovesTo(h, "classify", job[h]) /\ UNCHANGED told
      BY <1>1, <1>3, <2>3, StayMoves DEF ReadReplay
    <3>2. TurnKnows("classify", job[h])
      BY DEF TurnKnows
    <3> QED
      BY <1>1, <2>1, <3>1, <3>2, TurningFrame
  <2> QED
    BY <2>2, <2>3
<1>4. CASE Classify(h)
  <2>1. UNCHANGED <<conversation, told>>
    BY <1>4 DEF Classify, history
  <2>2. CASE End(h)
    BY <1>1, <1>2, <2>1, <2>2, TurningFrame
  <2>3. CASE ~End(h)
    <3>1. PICK label \in {"sequence", "draft"} : Go(h, label)
      BY <1>4, <2>3 DEF Classify
    <3>2. PICK d : \E sets : job' = [job EXCEPT ![h].decision = d, ![h].sets = sets]
      BY <1>4, <2>3 DEF Classify
    <3>3. PICK sets : job' = [job EXCEPT ![h].decision = d, ![h].sets = sets]
      BY <3>2
    <3>4. MovesTo(h, label, [job[h] EXCEPT !.decision = d, !.sets = sets])
      BY <1>1, <3>1, <3>3 DEF Go, MovesTo, JobsOK
    <3>5. TurnKnows(label, [job[h] EXCEPT !.decision = d, !.sets = sets])
      BY <3>1 DEF TurnKnows
    <3> QED
      BY <1>1, <2>1, <3>4, <3>5, TurningFrame
  <2> QED
    BY <2>2, <2>3
<1>5. CASE WriteDraft(h)
  <2>1. UNCHANGED <<conversation, told>> /\ Go(h, "sequence")
    BY <1>5 DEF WriteDraft
  <2>2. PICK d \in Drafts : job' = [job EXCEPT ![h].draft = d]
    BY <1>5 DEF WriteDraft
  <2>3. MovesTo(h, "sequence", [job[h] EXCEPT !.draft = d])
    BY <1>1, <2>1, <2>2 DEF Go, MovesTo, JobsOK
  <2>4. TurnKnows("sequence", [job[h] EXCEPT !.draft = d])
    BY DEF TurnKnows
  <2> QED
    BY <1>1, <2>1, <2>3, <2>4, TurningFrame
<1>6. CASE NextSequence(h)
  <2>1. UNCHANGED <<conversation, told>> /\ Go(h, "commit") /\ job[h] \in Jobs
    BY <1>1, <1>6 DEF NextSequence, history, JobsOK
  <2>2. job[h].session \in Sessions
    BY <1>1, <1>6, StoredIsResponse DEF NextSequence, TurnLabels
  <2>3. Last(job[h].session) \in Nat /\ Last(job[h].session) % 2 = 0
    BY <1>1, <2>2, Numbered DEF Turning
  <2>4. PICK n \in Nat : n = Last(job[h].session) + 1
    BY <2>3
  <2> DEFINE j == [job[h] EXCEPT !.seq = n]
  <2>5. MovesTo(h, "commit", j)
    BY <1>1, <1>6, <2>1, <2>4 DEF NextSequence, Go, MovesTo, JobsOK
  <2>6. TurnKnows("commit", j)
    <3>1. j.seq = n /\ j.session = job[h].session
      BY <2>1 DEF Jobs
    <3>2. n % 2 = 1 /\ n \in 1 .. Last(job[h].session) + 1
      BY <2>3, <2>4
    <3> HIDE DEF j
    <3> QED
      BY <3>1, <3>2 DEF TurnKnows
  <2> HIDE DEF j
  <2> QED
    BY <1>1, <2>1, <2>5, <2>6, TurningFrame
<1> QED
  BY <1>3, <1>4, <1>5, <1>6

(* A publish leaves the conversation alone, and so does the end of a request.*)
LEMMA PublishKeepsTurns ==
  ASSUME Inv, NEW h \in Handlers, PublishBegin(h) \/ Publish(h) \/ Abort(h)
  PROVE  Turning'
<1>1. Fitting /\ Turning /\ JobsOK
  BY DEF Inv, Fitting, TypeOK
<1>2. UNCHANGED <<conversation, told>>
  BY DEF PublishBegin, Publish, CountFailed, ReadMax, Reserve, Inspect, Call, Complete,
         Fail, Release, Abort, history
<1>3. CASE End(h)
  BY <1>1, <1>2, <1>3, EndMoves, TurningFrame DEF TurnKnows
<1>4. CASE ~End(h)
  <2>1. PICK label \in Labels \ {"commit"} : Go(h, label)
    BY <1>4 DEF PublishBegin, Publish, CountFailed, ReadMax, Reserve, Inspect, Call, Complete,
                Fail, Release, Abort, Labels
  <2>2. PICK j : job' = [job EXCEPT ![h] = j]
    BY <1>1, <1>4 DEF PublishBegin, Publish, CountFailed, ReadMax, Reserve, Inspect, Call,
                      Complete, Fail, Release, Abort, JobsOK
  <2>3. MovesTo(h, label, j) /\ TurnKnows(label, j)
    BY <2>1, <2>2 DEF Go, MovesTo, TurnKnows
  <2> QED
    BY <1>1, <1>2, <2>3, TurningFrame
<1> QED
  BY <1>3, <1>4

LEMMA TurningKept ==
  ASSUME Inv, [Next]_vars
  PROVE  Turning'
<1>1. ASSUME NEW h \in Handlers, TurnBegin(h) \/ PublishBegin(h) \/ Step(h) \/ Abort(h)
      PROVE  Turning'
  BY <1>1, TurnBeginKeeps, TurnKeeps, RecordTurnKeeps, PublishKeepsTurns DEF Step, Turn
<1>2. CASE UNCHANGED vars
  <2>1. UNCHANGED <<state, rows, events, slots, at, job, told>>
    BY <1>2 DEF vars, conversation, history
  <2>2. TranscriptIsTurns' /\ RepliesAgree' /\ MemoryStandsOnTranscript' /\ TurnsAreNumbered'
    BY <2>1 DEF Inv, Turning, TranscriptIsTurns, RepliesAgree, MemoryStandsOnTranscript,
                TurnsAreNumbered, Last, SettersOf
  <2>3. \A h \in Handlers : TurnKnows(at[h], job[h])'
    BY <2>1 DEF Inv, Turning, TurnKnows, Last
  <2> QED
    BY <2>2, <2>3 DEF Turning
<1> QED
  BY <1>1, <1>2 DEF Next

-----------------------------------------------------------------------------
(* The posts. *)

(* Who holds a key and who is about to complete, when one request moves.    *)
LEMMA HoldersMoved ==
  ASSUME JobsOK, NEW h \in Handlers, NEW label, NEW j, MovesTo(h, label, j)
  PROVE  /\ \A k : Holders(k)' = (Holders(k) \ {h}) \cup
                     (IF label \in Holding /\ j.inserted /\ j.key = k THEN {h} ELSE {})
         /\ \A t : Completing(t)' = (Completing(t) \ {h}) \cup
                     (IF label = "complete" /\ j.target = t THEN {h} ELSE {})
<1>1. /\ at'[h] = label /\ job'[h] = j
      /\ \A g \in Handlers \ {h} : at'[g] = at[g] /\ job'[g] = job[g]
  BY Moved
<1>2. ASSUME NEW k
      PROVE  Holders(k)' = (Holders(k) \ {h}) \cup
               (IF label \in Holding /\ j.inserted /\ j.key = k THEN {h} ELSE {})
  <2>1. \A g \in Handlers \ {h} : Holds(g, k)' <=> Holds(g, k)
    BY <1>1 DEF Holds
  <2>2. Holds(h, k)' <=> (label \in Holding /\ j.inserted /\ j.key = k)
    BY <1>1 DEF Holds
  <2> QED
    BY <2>1, <2>2 DEF Holders
<1>3. ASSUME NEW t
      PROVE  Completing(t)' = (Completing(t) \ {h}) \cup
               (IF label = "complete" /\ j.target = t THEN {h} ELSE {})
  BY <1>1 DEF Completing
<1> QED
  BY <1>2, <1>3

LEMMA HandlersAreFinite ==
  /\ \A k : IsFiniteSet(Holders(k)) /\ Cardinality(Holders(k)) \in Nat
  /\ \A t : IsFiniteSet(Completing(t)) /\ Cardinality(Completing(t)) \in Nat
<1>1. ASSUME NEW k
      PROVE  IsFiniteSet(Holders(k)) /\ Cardinality(Holders(k)) \in Nat
  <2>1. Holders(k) \in SUBSET Handlers
    BY DEF Holders
  <2> QED
    BY <2>1, HandlersAssumption, FS_Subset, FS_CardinalityType
<1>2. ASSUME NEW t
      PROVE  IsFiniteSet(Completing(t)) /\ Cardinality(Completing(t)) \in Nat
  <2>1. Completing(t) \in SUBSET Handlers
    BY DEF Completing
  <2> QED
    BY <2>1, HandlersAssumption, FS_Subset, FS_CardinalityType
<1> QED
  BY <1>1, <1>2

(* A request that holds a key holds it alone, and its row is as it left it. *)
LEMMA HeldAlone ==
  ASSUME Fitting, Posting, NEW h \in Handlers, at[h] \in Holding, job[h].inserted
  PROVE  /\ job[h].key \in Keys /\ job[h].target \in Targets
         /\ attempt[job[h].key] # None /\ attempt[job[h].key].target = job[h].target
         /\ attempt[job[h].key].status = "REQUESTED"
         /\ Holders(job[h].key) = {h}
         /\ \A g \in Handlers \ {h} : job[g].inserted => job[g].key # job[h].key
<1>1. job[h].key \in Keys /\ job[h].target \in Targets
  BY PublisherFits
<1>2. /\ attempt[job[h].key] # None /\ attempt[job[h].key].target = job[h].target
      /\ attempt[job[h].key].status = "REQUESTED"
  BY DEF Posting, PublishKnows
<1>3. PICK k \in Keys : k = job[h].key
  BY <1>1
<1>4. h \in Holders(k)
  BY <1>3 DEF Holders, Holds
<1>5. \A g, f \in Holders(k) : g = f
  <2>1. IsFiniteSet(Holders(k)) /\ Cardinality(Holders(k)) <= 1
    BY HandlersAreFinite DEF Posting, ReservedIsHeld
  <2> QED
    BY <2>1, AtMostOneConversely
<1>6. Holders(k) = {h}
  BY <1>4, <1>5
<1>7. ASSUME NEW g \in Handlers \ {h}, job[g].inserted, job[g].key = k
      PROVE  FALSE
  <2>1. at[g] \in Holding
    BY <1>7 DEF Fitting, JobFits
  <2>2. g \in Holders(k)
    BY <1>7, <2>1 DEF Holders, Holds
  <2> QED
    BY <1>6, <2>2
<1> QED
  BY <1>1, <1>2, <1>3, <1>6, <1>7

(* The rows of a target, when one row is written.                           *)
LEMMA RowWritten ==
  ASSUME NEW k \in Keys, NEW r, attempt'[k] = r,
         \A l \in Keys \ {k} : attempt'[l] = attempt[l]
  PROVE  /\ \A t : AttemptsOf(t)' = (AttemptsOf(t) \ {k}) \cup
                     (IF r # None /\ r.target = t THEN {k} ELSE {})
         /\ \A t, s : WithStatus(t, s)' = (WithStatus(t, s) \ {k}) \cup
                     (IF r # None /\ r.target = t /\ r.status = s THEN {k} ELSE {})
BY DEF AttemptsOf, WithStatus

(* What the other requests know survives: failures only grow, drafts stay,  *)
(* and their rows are not touched.                                          *)
LEMMA OthersKnow ==
  ASSUME Fitting, Posting, NEW h \in Handlers, NEW label, NEW j, MovesTo(h, label, j),
         PublishKnows(label, j)', custom \subseteq custom',
         \A d \in Drafts : draft[d] # None => draft'[d] # None,
         \A t \in Targets \ custom' :
           Cardinality(WithStatus(t, "FAILED"))' >= Cardinality(WithStatus(t, "FAILED")),
         \A t \in Targets : Cardinality(WithStatus(t, "FAILED"))' \in Nat,
         \A g \in Handlers \ {h} : job[g].inserted => attempt'[job[g].key] = attempt[job[g].key]
  PROVE  \A g \in Handlers : PublishKnows(at[g], job[g])'
<1>1. /\ at'[h] = label /\ job'[h] = j
      /\ \A g \in Handlers \ {h} : at'[g] = at[g] /\ job'[g] = job[g]
  BY Moved DEF Fitting, TypeOK
<1>2. PublishKnows(at[h], job[h])'
  BY <1>1 DEF PublishKnows, AttemptsOf, WithStatus
<1>3. ASSUME NEW g \in Handlers \ {h}
      PROVE  PublishKnows(at[g], job[g])'
  <2>1. PICK l, i : l = at[g] /\ i = job[g]
    OBVIOUS
  <2>2. at'[g] = l /\ job'[g] = i
    BY <1>1, <2>1
  <2>3. PublishKnows(l, i) /\ JobFits(l, i)
    BY <2>1 DEF Fitting, Posting
  <2>4. i.inserted => attempt'[i.key] = attempt[i.key]
    BY <2>1
  <2>5. l \in PublishLabels => i.target \in Targets /\ i.target[1] \in Drafts
    BY <2>3 DEF JobFits, Targets
  <2>6. l \in PublishLabels => draft'[i.target[1]] # None
    BY <2>3, <2>5 DEF PublishKnows
  <2>7. l \in Reserving /\ i.key \in DefaultKeys /\ i.target \notin custom' =>
          i.key[2] <= Cardinality(WithStatus(i.target, "FAILED"))' + 1
    <3>1. SUFFICES ASSUME l \in Reserving, i.key \in DefaultKeys, i.target \notin custom'
                   PROVE  i.key[2] <= Cardinality(WithStatus(i.target, "FAILED"))' + 1
      OBVIOUS
    <3>2. i.target \in Targets \ custom' /\ i.target \notin custom
      BY <2>5, <3>1 DEF PublishLabels, Reserving
    <3>3. i.key[2] <= Cardinality(WithStatus(i.target, "FAILED")) + 1 /\ i.key[2] \in Nat
      BY <2>3, <3>1, <3>2 DEF PublishKnows, DefaultKeys
    <3>4. Cardinality(WithStatus(i.target, "FAILED")) \in Nat
      BY <3>2, StatusesAreFinite DEF Posting
    <3>5. /\ Cardinality(WithStatus(i.target, "FAILED"))' >= Cardinality(WithStatus(i.target, "FAILED"))
          /\ Cardinality(WithStatus(i.target, "FAILED"))' \in Nat
      BY <3>2
    <3> QED
      BY <3>3, <3>4, <3>5
  <2>8. PublishKnows(l, i)'
    BY <2>3, <2>4, <2>6, <2>7 DEF PublishKnows
  <2> QED
    BY <2>2, <2>8 DEF PublishKnows, WithStatus, AttemptsOf
<1> QED
  BY <1>2, <1>3

(* A step that touches no post: the rows and what is held stay.             *)
LEMMA PostingFrame ==
  ASSUME Fitting, Posting, NEW h \in Handlers, NEW label, NEW j, MovesTo(h, label, j),
         PublishKnows(label, j)',
         UNCHANGED <<draft, attempt, posted, lost>>,
         custom \subseteq custom', again \subseteq again', dead \subseteq dead',
         \A k \in Keys : Holders(k)' = Holders(k),
         \A t \in Targets : Completing(t)' = Completing(t)
  PROVE  Posting'
<1>1. /\ \A t : AttemptsOf(t)' = AttemptsOf(t)
      /\ \A t, s : WithStatus(t, s)' = WithStatus(t, s)
  BY DEF AttemptsOf, WithStatus
<1>2. PostsAreRecorded'
  BY <1>1 DEF Posting, PostsAreRecorded
<1>3. PublishedIsCounted'
  BY <1>1 DEF Posting, PublishedIsCounted
<1>4. ReservedIsHeld'
  BY DEF Posting, ReservedIsHeld
<1>5. AttemptsAreInOrder'
  <2>1. \A k \in Keys : attempt'[k] # None =>
          /\ k \in DefaultKeys => attempt'[k].target = k[1]
          /\ k \in ClientKeys => attempt'[k].target \in custom'
          /\ draft'[attempt'[k].target[1]] # None
    BY DEF Posting, AttemptsAreInOrder
  <2>2. \A t \in Targets :
          IsFiniteSet(AttemptsOf(t)')
    BY <1>1 DEF Posting, AttemptsAreInOrder
  <2>3. \A t \in Targets \ custom' :
          LET n == Cardinality(WithStatus(t, "FAILED")') IN
          /\ WithStatus(t, "FAILED")' = FirstKeys(t, n)
          /\ AttemptsOf(t)' \subseteq FirstKeys(t, n + 1)
    BY <1>1 DEF Posting, AttemptsAreInOrder
  <2> QED
    BY <2>1, <2>2, <2>3 DEF AttemptsAreInOrder
<1>6. \A g \in Handlers : PublishKnows(at[g], job[g])'
  <2>1. \A t \in Targets :
          /\ Cardinality(WithStatus(t, "FAILED"))' = Cardinality(WithStatus(t, "FAILED"))
          /\ Cardinality(WithStatus(t, "FAILED")) \in Nat
    BY <1>1, StatusesAreFinite DEF Posting
  <2> QED
    BY <2>1, OthersKnow
<1> QED
  BY <1>2, <1>3, <1>4, <1>5, <1>6 DEF Posting

(* A step of a request that holds nothing.                                  *)
LEMMA NothingHeld ==
  ASSUME Fitting, NEW h \in Handlers, ~job[h].inserted
  PROVE  (\A k : h \notin Holders(k)) /\ (\A t : h \notin Completing(t))
BY DEF Fitting, JobFits, Holders, Holds, Completing

LEMMA PostingQuiet ==
  ASSUME Fitting, Posting, NEW h \in Handlers, NEW label, NEW j, MovesTo(h, label, j),
         PublishKnows(label, j)', ~job[h].inserted, ~j.inserted, label # "complete",
         UNCHANGED <<draft, attempt, posted, lost>>,
         custom \subseteq custom', again \subseteq again', dead \subseteq dead'
  PROVE  Posting'
<1>1. (\A k : h \notin Holders(k)) /\ (\A t : h \notin Completing(t))
  BY NothingHeld
<1>2. /\ \A k : Holders(k)' = Holders(k) \ {h}
      /\ \A t : Completing(t)' = Completing(t) \ {h}
  BY HoldersMoved DEF Fitting, TypeOK
<1>3. (\A k \in Keys : Holders(k)' = Holders(k)) /\ (\A t \in Targets : Completing(t)' = Completing(t))
  BY <1>1, <1>2
<1> QED
  BY <1>3, PostingFrame

LEMMA PostingInitially == Init => Posting
<1> SUFFICES ASSUME Init PROVE Posting
  OBVIOUS
<1>1. /\ attempt = [k \in Keys |-> None] /\ \A h \in Handlers : at[h] = "idle" /\ job[h] = Idle
      /\ draft = [d \in Drafts |-> None] /\ custom = {}
      /\ posted = [t \in Targets |-> 0] /\ lost = [t \in Targets |-> 0]
  BY DEF Init
<1>2. Cardinality({}) = 0 /\ IsFiniteSet({})
  BY FS_EmptySet
<1>3. \A t : AttemptsOf(t) = {} /\ \A s : WithStatus(t, s) = {}
  BY <1>1 DEF AttemptsOf, WithStatus
<1>4. (\A k : Holders(k) = {}) /\ (\A t : Completing(t) = {})
  BY <1>1 DEF Holders, Holds, Completing, Holding
<1>5. PostsAreRecorded
  BY <1>1, <1>2, <1>3, <1>4 DEF PostsAreRecorded
<1>6. PublishedIsCounted
  <2>1. \A d \in Drafts : draft[d] # "PUBLISHED"
    BY <1>1, NamesAssumption DEF Statuses
  <2> QED
    BY <1>3, <2>1 DEF PublishedIsCounted
<1>7. ReservedIsHeld
  BY <1>1, <1>2, <1>4 DEF ReservedIsHeld
<1>8. AttemptsAreInOrder
  <2>1. FirstKeys(1, 0) = {} /\ \A t : FirstKeys(t, 0) = {}
    BY DEF FirstKeys
  <2> QED
    BY <1>1, <1>2, <1>3, <2>1 DEF AttemptsAreInOrder
<1>9. \A h \in Handlers : PublishKnows(at[h], job[h])
  BY <1>1 DEF PublishKnows, PublishLabels, Reserving, Holding, Idle
<1> QED
  BY <1>5, <1>6, <1>7, <1>8, <1>9 DEF Posting

(* The steps of a turn hold nothing, and publish nothing.                   *)
LEMMA TurnMoves ==
  ASSUME Fitting, NEW h \in Handlers, TurnBegin(h) \/ Turn(h)
  PROVE  /\ ~job[h].inserted
         /\ \E label \in TurnLabels \cup {"idle"} : \E j : MovesTo(h, label, j) /\ ~j.inserted
<1>1. JobsOK /\ job[h] \in Jobs
  BY DEF Fitting, TypeOK, JobsOK
<1>2. ~job[h].inserted
  <2>1. at[h] \notin Holding
    BY DEF TurnBegin, Turn, ReadReplay, Classify, WriteDraft, NextSequence, RecordTurn, Holding
  <2> QED
    BY <2>1 DEF Fitting, JobFits
<1>3. End(h) => MovesTo(h, "idle", Idle) /\ ~Idle.inserted
  BY EndMoves DEF Idle
<1>4. CASE End(h)
  <2>1. "idle" \in TurnLabels \cup {"idle"} /\ MovesTo(h, "idle", Idle) /\ ~Idle.inserted
    BY <1>3, <1>4
  <2> QED
    BY <1>2, <2>1, Zenon
<1>5. CASE ~End(h)
  <2>1. PICK label \in TurnLabels : Go(h, label)
    BY <1>5 DEF TurnBegin, Turn, ReadReplay, Classify, WriteDraft, NextSequence, RecordTurn,
                CommitTurn, Answer, Replay, Reply, TurnLabels
  <2>2. PICK j : job' = [job EXCEPT ![h] = j] /\ ~j.inserted
    <3>1. CASE TurnBegin(h)
      <4>1. PICK s \in Sessions, e \in Events :
              job' = [job EXCEPT ![h] = [Idle EXCEPT !.session = s, !.event = e]]
        BY <3>1 DEF TurnBegin
      <4>2. ~[Idle EXCEPT !.session = s, !.event = e].inserted
        BY DEF Idle
      <4> QED
        BY <4>1, <4>2
    <3>2. CASE ReadReplay(h)
      BY <1>1, <1>2, <1>5, <3>2 DEF ReadReplay, Reply, JobsOK
    <3>3. CASE Classify(h)
      <4>1. PICK d : \E sets : job' = [job EXCEPT ![h].decision = d, ![h].sets = sets]
        BY <1>5, <3>3 DEF Classify
      <4>2. PICK sets : job' = [job EXCEPT ![h].decision = d, ![h].sets = sets]
        BY <4>1
      <4>3. job' = [job EXCEPT ![h] = [job[h] EXCEPT !.decision = d, !.sets = sets]]
        BY <1>1, <4>2 DEF JobsOK
      <4>4. ~[job[h] EXCEPT !.decision = d, !.sets = sets].inserted
        BY <1>1, <1>2 DEF Jobs
      <4> QED
        BY <4>3, <4>4
    <3>4. CASE WriteDraft(h)
      <4>1. PICK d \in Drafts : job' = [job EXCEPT ![h].draft = d]
        BY <3>4 DEF WriteDraft
      <4>2. job' = [job EXCEPT ![h] = [job[h] EXCEPT !.draft = d]]
        BY <1>1, <4>1 DEF JobsOK
      <4>3. ~[job[h] EXCEPT !.draft = d].inserted
        BY <1>1, <1>2 DEF Jobs
      <4> QED
        BY <4>2, <4>3
    <3>5. CASE NextSequence(h)
      <4>1. PICK n : job' = [job EXCEPT ![h].seq = n]
        BY <3>5 DEF NextSequence
      <4>2. job' = [job EXCEPT ![h] = [job[h] EXCEPT !.seq = n]]
        BY <1>1, <4>1 DEF JobsOK
      <4>3. ~[job[h] EXCEPT !.seq = n].inserted
        BY <1>1, <1>2 DEF Jobs
      <4> QED
        BY <4>2, <4>3
    <3>6. CASE RecordTurn(h)
      BY <1>5, <3>6 DEF RecordTurn, CommitTurn, Answer, Replay, Reply
    <3> QED
      BY <3>1, <3>2, <3>3, <3>4, <3>5, <3>6 DEF Turn
  <2> QED
    BY <1>2, <2>1, <2>2 DEF Go, MovesTo
<1> QED
  BY <1>2, <1>4, <1>5

LEMMA TurnKeepsPosts ==
  ASSUME Inv, NEW h \in Handlers, TurnBegin(h) \/ Turn(h), ~WriteDraft(h)
  PROVE  Posting'
<1>1. Fitting /\ Posting
  BY DEF Inv
<1>2. PICK label \in TurnLabels \cup {"idle"} : \E j : MovesTo(h, label, j) /\ ~j.inserted
  BY <1>1, TurnMoves
<1>3. PICK j : MovesTo(h, label, j) /\ ~j.inserted
  BY <1>2
<1>4. ~job[h].inserted
  BY <1>1, TurnMoves
<1>5. label # "complete" /\ PublishKnows(label, j)'
  BY <1>3 DEF TurnLabels, PublishLabels, Reserving, Holding, PublishKnows
<1>6. UNCHANGED <<draft, attempt, posted, lost, custom, again, dead>>
  BY DEF TurnBegin, Turn, ReadReplay, Classify, NextSequence, RecordTurn, publishing, history
<1> QED
  BY <1>1, <1>3, <1>4, <1>5, <1>6, PostingQuiet

(* A draft written: it has no attempts yet, or it is written anew.          *)
LEMMA WriteDraftKeepsPosts ==
  ASSUME Inv, NEW h \in Handlers, WriteDraft(h)
  PROVE  Posting'
<1>1. Fitting /\ Posting
  BY DEF Inv
<1>2. PICK label \in TurnLabels \cup {"idle"} : \E j : MovesTo(h, label, j) /\ ~j.inserted
  BY <1>1, TurnMoves DEF Turn
<1>3. PICK j : MovesTo(h, label, j) /\ ~j.inserted
  BY <1>2
<1>4. ~job[h].inserted
  BY <1>1, TurnMoves DEF Turn
<1>5. PICK d \in Drafts : /\ draft' = [draft EXCEPT ![d] = "DRAFT"]
                          /\ again' = IF draft[d] = None THEN again ELSE again \cup {d}
  BY DEF WriteDraft
<1>6. UNCHANGED <<attempt, posted, lost, custom, dead>>
  BY DEF WriteDraft, publishing
<1>7. /\ \A t : AttemptsOf(t)' = AttemptsOf(t)
      /\ \A t, s : WithStatus(t, s)' = WithStatus(t, s)
  BY <1>6 DEF AttemptsOf, WithStatus
<1>8. (\A k : h \notin Holders(k)) /\ (\A t : h \notin Completing(t))
  BY <1>1, <1>4, NothingHeld
<1>9. (\A k : Holders(k)' = Holders(k)) /\ (\A t : Completing(t)' = Completing(t))
  <2>1. label # "complete"
    BY DEF TurnLabels
  <2> QED
    BY <1>1, <1>3, <1>8, <2>1, HoldersMoved DEF Fitting, TypeOK
<1>10. \A e \in Drafts : draft[e] # None => draft'[e] # None
  BY <1>1, <1>5, NamesAssumption DEF Statuses, Fitting, TypeOK, PublishingOK
<1>11. PostsAreRecorded'
  BY <1>1, <1>6, <1>7, <1>9 DEF Posting, PostsAreRecorded
<1>12. ReservedIsHeld'
  BY <1>1, <1>6, <1>9 DEF Posting, ReservedIsHeld
<1>13. PublishedIsCounted'
  <2>1. ASSUME NEW e \in Drafts, NEW p \in Platforms, WithStatus(<<e, p>>, "SUCCEEDED") # {}
        PROVE  draft[e] # None
    <3>1. PICK k \in Keys : attempt[k] # None /\ attempt[k].target = <<e, p>>
      BY <2>1 DEF WithStatus, AttemptsOf
    <3>2. draft[attempt[k].target[1]] # None
      BY <1>1, <3>1 DEF Posting, AttemptsAreInOrder
    <3> QED
      BY <3>1, <3>2
  <2>2. ASSUME NEW e \in Drafts
        PROVE  LET done == \E p \in Platforms : WithStatus(<<e, p>>, "SUCCEEDED") # {} IN
               /\ draft'[e] = "PUBLISHED" => done
               /\ done /\ e \notin again' => draft'[e] = "PUBLISHED"
    <3>1. CASE e = d
      BY <1>1, <1>5, <2>1, <3>1 DEF Fitting, TypeOK, PublishingOK
    <3>2. CASE e # d
      BY <1>1, <1>5, <3>2 DEF Fitting, TypeOK, PublishingOK, Posting, PublishedIsCounted
    <3> QED
      BY <3>1, <3>2
  <2> QED
    BY <1>7, <2>2 DEF PublishedIsCounted
<1>14. AttemptsAreInOrder'
  <2>1. \A k \in Keys : attempt'[k] # None =>
          /\ k \in DefaultKeys => attempt'[k].target = k[1]
          /\ k \in ClientKeys => attempt'[k].target \in custom'
          /\ draft'[attempt'[k].target[1]] # None
    BY <1>1, <1>6, <1>10
    DEF Posting, AttemptsAreInOrder, Fitting, TypeOK, PublishingOK, Attempts, Targets
  <2> QED
    BY <1>1, <1>6, <1>7, <2>1 DEF Posting, AttemptsAreInOrder
<1>15. \A g \in Handlers : PublishKnows(at[g], job[g])'
  <2>1. PublishKnows(label, j)'
    BY <1>3 DEF TurnLabels, PublishLabels, Reserving, Holding, PublishKnows
  <2>2. \A t \in Targets :
          /\ Cardinality(WithStatus(t, "FAILED"))' = Cardinality(WithStatus(t, "FAILED"))
          /\ Cardinality(WithStatus(t, "FAILED")) \in Nat
    BY <1>1, <1>7, StatusesAreFinite DEF Posting
  <2> QED
    BY <1>1, <1>3, <1>6, <1>10, <2>1, <2>2, OthersKnow
<1> QED
  BY <1>11, <1>12, <1>13, <1>14, <1>15 DEF Posting

(* Before a key is reserved: the steps that only read.                      *)
LEMMA PublishBeginKeepsPosts ==
  ASSUME Inv, NEW h \in Handlers, PublishBegin(h)
  PROVE  Posting'
<1>1. Fitting /\ Posting
  BY DEF Inv
<1>2. PICK t \in Targets :
        /\ draft[t[1]] # None
        /\ \E key \in ClientKeys \cup {None} :
             job' = [job EXCEPT ![h] = [Idle EXCEPT !.target = t, !.key = key]]
  BY DEF PublishBegin
<1>3. PICK key \in ClientKeys \cup {None} :
        job' = [job EXCEPT ![h] = [Idle EXCEPT !.target = t, !.key = key]]
  BY <1>2
<1>4. PICK j : j = [Idle EXCEPT !.target = t, !.key = key]
  OBVIOUS
<1>5. j.target = t /\ ~j.inserted
  BY <1>4 DEF Idle
<1>6. MovesTo(h, "count", j)
  BY <1>3, <1>4 DEF PublishBegin, Go, MovesTo
<1>7. UNCHANGED <<draft, attempt, posted, lost, custom, again, dead>>
  BY DEF PublishBegin, publishing
<1>8. PublishKnows("count", j)'
  BY <1>2, <1>5, <1>7 DEF PublishKnows, PublishLabels, Reserving, Holding
<1>9. ~job[h].inserted
  BY <1>1 DEF PublishBegin, Fitting, JobFits, Holding
<1> QED
  BY <1>1, <1>5, <1>6, <1>7, <1>8, <1>9, PostingQuiet

LEMMA IdleKnows == PublishKnows("idle", Idle)' /\ ~Idle.inserted
BY DEF PublishKnows, PublishLabels, Reserving, Holding, Idle

LEMMA CountFailedKeepsPosts ==
  ASSUME Inv, NEW h \in Handlers, CountFailed(h)
  PROVE  Posting'
<1>1. Fitting /\ Posting /\ JobsOK
  BY DEF Inv, Fitting, TypeOK
<1>2. UNCHANGED <<draft, attempt, posted, lost, custom, again, dead>>
  BY DEF CountFailed, publishing, history
<1>3. at[h] = "count" /\ job[h] \in Jobs /\ JobFits("count", job[h]) /\ PublishKnows("count", job[h])
  BY <1>1 DEF CountFailed, Fitting, JobsOK, Posting
<1>4. ~job[h].inserted
  BY <1>3 DEF JobFits, Holding
<1>5. CASE End(h)
  BY <1>1, <1>2, <1>4, <1>5, EndMoves, IdleKnows, PostingQuiet
<1>6. CASE ~End(h)
  <2>1. PICK t : t = job[h].target
    OBVIOUS
  <2>2. t \in Targets /\ job[h].key \in ClientKeys \cup {None} /\ draft[t[1]] # None
    BY <1>3, <2>1 DEF JobFits, PublishKnows, PublishLabels, Reserving
  <2>3. PICK key : key = IF job[h].key = None THEN <<t, Failures(t) + 1>> ELSE job[h].key
    OBVIOUS
  <2>4. ~(Failures(t) >= FailureLimit)
    BY <1>6, <2>1 DEF CountFailed
  <2>5. /\ key \in DefaultKeys => key[1] = t /\ key[2] = Failures(t) + 1
        /\ Failures(t) \in Nat
    <3>1. key \in DefaultKeys => key = <<t, Failures(t) + 1>>
      BY <2>2, <2>3, NamesAssumption
    <3>2. Failures(t) \in Nat
      BY <1>1, <2>2, <2>4, CountedKey
    <3> QED
      BY <3>1, <3>2
  <2>6. PICK j : j = [job[h] EXCEPT !.key = key]
    OBVIOUS
  <2>7. j.key = key /\ j.target = t /\ ~j.inserted
    BY <1>3, <1>4, <2>1, <2>6 DEF Jobs
  <2>8. MovesTo(h, "reserve", j)
    BY <1>1, <1>6, <2>1, <2>3, <2>6 DEF CountFailed, Go, MovesTo, JobsOK
  <2>9. Cardinality(WithStatus(t, "FAILED"))' = Failures(t)
    BY <1>2 DEF Failures, WithStatus, AttemptsOf
  <2>10. PublishKnows("reserve", j)'
    BY <1>2, <2>2, <2>5, <2>7, <2>9 DEF PublishKnows, Holding
  <2> QED
    BY <1>1, <1>2, <1>4, <2>7, <2>8, <2>10, PostingQuiet
<1> QED
  BY <1>5, <1>6

(* A request that moves on with the key it holds.                           *)
LEMMA HoldingOn ==
  ASSUME Fitting, NEW h \in Handlers, at[h] \in Holding, NEW label \in Holding,
         MovesTo(h, label, job[h])
  PROVE  \A k : Holders(k)' = Holders(k)
<1>1. PICK j : j = job[h]
  OBVIOUS
<1>2. \A k : Holders(k)' = (Holders(k) \ {h}) \cup
               (IF label \in Holding /\ j.inserted /\ j.key = k THEN {h} ELSE {})
  BY <1>1, HoldersMoved DEF Fitting, TypeOK
<1>3. \A k : h \in Holders(k) <=> (j.inserted /\ j.key = k)
  BY <1>1 DEF Holders, Holds
<1> QED
  BY <1>2, <1>3

LEMMA InspectKeepsPosts ==
  ASSUME Inv, NEW h \in Handlers, Inspect(h)
  PROVE  Posting'
<1>1. Fitting /\ Posting /\ JobsOK /\ at[h] = "inspect"
  BY DEF Inv, Fitting, TypeOK, Inspect
<1>2. UNCHANGED <<draft, attempt, posted, lost, custom, again, dead>>
  BY DEF Inspect, publishing, history
<1>3. PICK j : j = job[h]
  OBVIOUS
<1>4. PublishKnows("inspect", j)
  BY <1>1, <1>3 DEF Posting
<1>5. CASE MayCall(h)
  <2>1. MovesTo(h, "call", j)
    BY <1>1, <1>3, <1>5, StayMoves DEF Inspect
  <2>2. PublishKnows("call", j)'
    BY <1>2, <1>4 DEF PublishKnows, PublishLabels, Reserving, Holding
  <2>3. \A k : Holders(k)' = Holders(k)
    BY <1>1, <1>3, <2>1, HoldingOn DEF Holding
  <2>4. \A t : Completing(t)' = Completing(t)
    <3>1. \A t : Completing(t)' = Completing(t) \ {h}
      BY <1>1, <2>1, HoldersMoved
    <3>2. \A t : h \notin Completing(t)
      BY <1>1 DEF Completing
    <3> QED
      BY <3>1, <3>2
  <2> QED
    BY <1>1, <1>2, <2>1, <2>2, <2>3, <2>4, PostingFrame
<1>6. CASE ~MayCall(h)
  <2>1. ~job[h].inserted
    BY <1>3, <1>4, <1>6 DEF PublishKnows, MayCall
  <2>2. MovesTo(h, "idle", Idle)
    BY <1>6, EndMoves DEF Inspect
  <2> QED
    BY <1>1, <1>2, <2>1, <2>2, IdleKnows, PostingQuiet
<1> QED
  BY <1>5, <1>6

(* The platform's answer: a post made is known to its request, or lost.     *)
LEMMA CallKeepsPosts ==
  ASSUME Inv, NEW h \in Handlers, Call(h)
  PROVE  Posting'
<1>1. Fitting /\ Posting /\ JobsOK /\ PublishingOK /\ at[h] = "call"
  BY DEF Inv, Fitting, TypeOK, Call
<1>2. UNCHANGED <<draft, attempt, custom, again, dead, job>>
  BY DEF Call
<1>3. PICK j, t : j = job[h] /\ t = job[h].target
  OBVIOUS
<1>4. t \in Targets /\ PublishKnows("call", j)
  BY <1>1, <1>3, PublisherFits DEF Posting, Holding
<1>5. PICK label \in {"release", "fail", "complete"} :
        /\ Go(h, label)
        /\ label = "complete" => posted' = [posted EXCEPT ![t] = @ + 1] /\ lost' = lost
        /\ label # "complete" =>
             \/ posted' = posted /\ lost' = lost
             \/ posted' = [posted EXCEPT ![t] = @ + 1] /\ lost' = [lost EXCEPT ![t] = @ + 1]
  BY <1>3 DEF Call
<1>6. MovesTo(h, label, j)
  BY <1>1, <1>2, <1>3, <1>5, StayMoves
<1>7. PublishKnows(label, j)'
  BY <1>2, <1>4, <1>5 DEF PublishKnows, PublishLabels, Reserving, Holding
<1>8. \A k : Holders(k)' = Holders(k)
  BY <1>1, <1>3, <1>5, <1>6, HoldingOn DEF Holding
<1>9. /\ \A s : h \notin Completing(s)
      /\ \A s : Completing(s)' = (Completing(s) \ {h}) \cup
                   (IF label = "complete" /\ j.target = s THEN {h} ELSE {})
  BY <1>1, <1>6, HoldersMoved DEF Completing
<1>10. /\ \A s : AttemptsOf(s)' = AttemptsOf(s)
       /\ \A s, v : WithStatus(s, v)' = WithStatus(s, v)
  BY <1>2 DEF AttemptsOf, WithStatus
<1>11. PostsAreRecorded'
  <2>1. ASSUME NEW s \in Targets
        PROVE  posted'[s] = Cardinality(WithStatus(s, "SUCCEEDED")') + lost'[s]
                            + Cardinality(Completing(s)')
    <3>1. /\ posted[s] = Cardinality(WithStatus(s, "SUCCEEDED")) + lost[s]
                         + Cardinality(Completing(s))
          /\ posted[s] \in Nat /\ lost[s] \in Nat
      BY <1>1 DEF Posting, PostsAreRecorded, PublishingOK
    <3>2. /\ Cardinality(WithStatus(s, "SUCCEEDED")) \in Nat
          /\ IsFiniteSet(Completing(s)) /\ Cardinality(Completing(s)) \in Nat
      BY <1>1, StatusesAreFinite, HandlersAreFinite DEF Posting
    <3>3. CASE label = "complete" /\ s = t
      <4>1. Completing(s)' = Completing(s) \cup {h} /\ h \notin Completing(s)
        BY <1>3, <1>9, <3>3
      <4>2. Cardinality(Completing(s)') = Cardinality(Completing(s)) + 1
        BY <3>2, <4>1, FS_AddElement
      <4>3. posted'[s] = posted[s] + 1 /\ lost'[s] = lost[s]
        BY <1>1, <1>5, <3>3 DEF PublishingOK
      <4> QED
        BY <1>10, <3>1, <3>2, <4>2, <4>3
    <3>4. CASE ~(label = "complete" /\ s = t)
      <4>1. Completing(s)' = Completing(s)
        BY <1>3, <1>9, <3>4
      <4>2. \/ posted'[s] = posted[s] /\ lost'[s] = lost[s]
            \/ posted'[s] = posted[s] + 1 /\ lost'[s] = lost[s] + 1
        BY <1>1, <1>5, <3>4 DEF PublishingOK
      <4> QED
        BY <1>10, <3>1, <3>2, <4>1, <4>2
    <3> QED
      BY <3>3, <3>4
  <2> QED
    BY <2>1 DEF PostsAreRecorded
<1>12. PublishedIsCounted'
  BY <1>1, <1>2, <1>10 DEF Posting, PublishedIsCounted
<1>13. ReservedIsHeld'
  BY <1>1, <1>2, <1>8 DEF Posting, ReservedIsHeld
<1>14. AttemptsAreInOrder'
  <2>1. \A k \in Keys : attempt'[k] # None =>
          /\ k \in DefaultKeys => attempt'[k].target = k[1]
          /\ k \in ClientKeys => attempt'[k].target \in custom'
          /\ draft'[attempt'[k].target[1]] # None
    BY <1>1, <1>2 DEF Posting, AttemptsAreInOrder
  <2> QED
    BY <1>1, <1>2, <1>10, <2>1 DEF Posting, AttemptsAreInOrder
<1>15. \A g \in Handlers : PublishKnows(at[g], job[g])'
  <2>1. \A s \in Targets :
          /\ Cardinality(WithStatus(s, "FAILED"))' = Cardinality(WithStatus(s, "FAILED"))
          /\ Cardinality(WithStatus(s, "FAILED")) \in Nat
    BY <1>1, <1>10, StatusesAreFinite DEF Posting
  <2> QED
    BY <1>1, <1>2, <1>6, <1>7, <2>1, OthersKnow
<1> QED
  BY <1>11, <1>12, <1>13, <1>14, <1>15 DEF Posting

(* The maximum read: nothing is written.                                    *)
LEMMA ReadMaxKeepsPosts ==
  ASSUME Inv, NEW h \in Handlers, ReadMax(h)
  PROVE  Posting'
<1>1. Fitting /\ Posting /\ JobsOK /\ at[h] = "reserve"
  BY DEF Inv, Fitting, TypeOK, ReadMax
<1>2. UNCHANGED <<draft, attempt, posted, lost, custom, again, dead>>
  BY DEF ReadMax, publishing, history
<1>3. PICK i, n : i = job[h] /\ n = NextNumber(i.target)
  OBVIOUS
<1>4. i \in Jobs /\ ~i.inserted /\ PublishKnows("reserve", i)
  BY <1>1, <1>3 DEF Fitting, Posting, JobsOK, JobFits, Holding
<1>5. PICK j : j = [i EXCEPT !.number = n]
  OBVIOUS
<1>6. j.target = i.target /\ j.key = i.key /\ ~j.inserted
  BY <1>4, <1>5 DEF Jobs
<1>7. MovesTo(h, "insert", j)
  BY <1>1, <1>3, <1>5 DEF ReadMax, Go, MovesTo, JobsOK
<1>8. WithStatus(i.target, "FAILED")' = WithStatus(i.target, "FAILED")
  BY <1>2 DEF WithStatus, AttemptsOf
<1>9. PublishKnows("insert", j)'
  BY <1>2, <1>4, <1>6, <1>8 DEF PublishKnows, PublishLabels, Reserving, Holding
<1> QED
  BY <1>1, <1>2, <1>3, <1>4, <1>6, <1>7, <1>9, PostingQuiet

(* A row inserted: it is the next one, or under a key of the client's.      *)
LEMMA ReserveKeepsPosts ==
  ASSUME Inv, NEW h \in Handlers, Reserve(h)
  PROVE  Posting'
<1>1. Fitting /\ Posting /\ JobsOK /\ PublishingOK /\ at[h] = "insert"
  BY DEF Inv, Fitting, TypeOK, Reserve
<1>2. UNCHANGED <<draft, posted, lost, again, dead>>
  BY DEF Reserve
<1>3. PICK t, key, i : t = job[h].target /\ key = job[h].key /\ i = job[h]
  OBVIOUS
<1>4. /\ i \in Jobs /\ t \in Targets /\ key \in Keys /\ ~i.inserted
      /\ PublishKnows("insert", i)
  <2>1. i \in Jobs /\ t \in Targets /\ key \in Keys
    BY <1>1, <1>3, PublisherFits DEF Reserving
  <2>2. ~i.inserted
    BY <1>1, <1>3 DEF Fitting, JobFits, Holding
  <2> QED
    BY <1>1, <1>3, <2>1, <2>2 DEF Posting
<1>5. PICK j : j = [i EXCEPT !.inserted = attempt[key] = None, !.number = 0]
  OBVIOUS
<1>6. j.target = t /\ j.key = key /\ (j.inserted <=> attempt[key] = None)
  BY <1>3, <1>4, <1>5 DEF Jobs
<1>7. MovesTo(h, "inspect", j)
  BY <1>1, <1>3, <1>5 DEF Reserve, Go, MovesTo, JobsOK
<1>8. custom' = IF key \in ClientKeys THEN custom \cup {t} ELSE custom
  BY <1>3 DEF Reserve
<1>9. CASE attempt[key] # None
  <2>1. attempt' = attempt
    BY <1>3, <1>9 DEF Reserve, Inserted
  <2>2. PublishKnows("inspect", j)'
    BY <1>2, <1>3, <1>4, <1>6, <1>8, <1>9 DEF PublishKnows, PublishLabels, Reserving, Holding
  <2>3. ~job[h].inserted
    BY <1>3, <1>4
  <2> QED
    BY <1>1, <1>2, <1>6, <1>7, <1>8, <1>9, <2>1, <2>2, <2>3, PostingQuiet
<1>10. CASE attempt[key] = None
  <2>1. PICK r : r = NewAttempt(i)
    OBVIOUS
  <2>2. /\ attempt' = [attempt EXCEPT ![key] = r] /\ r # None
        /\ r.target = t /\ r.status = "REQUESTED"
    <3>1. r \in Attempts
      BY <1>1, <1>3, <1>4, <2>1 DEF NewAttempt, Attempts, Jobs, Fitting, JobFits
    <3>2. r.target = t /\ r.status = "REQUESTED"
      BY <1>3, <2>1 DEF NewAttempt
    <3> QED
      BY <1>3, <1>10, <2>1, <3>1, <3>2, NamesAssumption DEF Reserve, Inserted
  <2>3. /\ attempt'[key] = r /\ \A l \in Keys \ {key} : attempt'[l] = attempt[l]
        /\ \A s : AttemptsOf(s)' = (AttemptsOf(s) \ {key}) \cup
                    (IF r # None /\ r.target = s THEN {key} ELSE {})
        /\ \A s, v : WithStatus(s, v)' = (WithStatus(s, v) \ {key}) \cup
                    (IF r # None /\ r.target = s /\ r.status = v THEN {key} ELSE {})
    <3>1. attempt'[key] = r /\ \A l \in Keys \ {key} : attempt'[l] = attempt[l]
      BY <1>1, <1>4, <2>2 DEF PublishingOK
    <3> QED
      BY <1>4, <3>1, RowWritten
  <2>4. \A s : key \notin AttemptsOf(s) /\ \A v : key \notin WithStatus(s, v)
    BY <1>10 DEF AttemptsOf, WithStatus
  <2>5. /\ \A s : WithStatus(s, "SUCCEEDED")' = WithStatus(s, "SUCCEEDED")
        /\ \A s : WithStatus(s, "FAILED")' = WithStatus(s, "FAILED")
        /\ AttemptsOf(t)' = AttemptsOf(t) \cup {key}
        /\ \A s : s # t => AttemptsOf(s)' = AttemptsOf(s)
    BY <2>2, <2>3, <2>4
  <2>6. /\ \A k : h \notin Holders(k)
        /\ \A s : h \notin Completing(s)
    BY <1>1, <1>3, <1>4, NothingHeld
  <2>7. /\ \A k : Holders(k)' = Holders(k) \cup (IF k = key THEN {h} ELSE {})
        /\ \A s : Completing(s)' = Completing(s)
    <3>1. PICK label : label = "inspect"
      OBVIOUS
    <3>2. /\ \A k : Holders(k)' = (Holders(k) \ {h}) \cup
                     (IF label \in Holding /\ j.inserted /\ j.key = k THEN {h} ELSE {})
          /\ \A s : Completing(s)' = (Completing(s) \ {h}) \cup
                     (IF label = "complete" /\ j.target = s THEN {h} ELSE {})
      BY <1>1, <1>7, <3>1, HoldersMoved
    <3>3. label \in Holding /\ label # "complete"
      BY <3>1 DEF Holding
    <3> QED
      BY <1>6, <1>10, <2>6, <3>2, <3>3
  <2>8. PostsAreRecorded'
    BY <1>1, <1>2, <2>5, <2>7 DEF Posting, PostsAreRecorded
  <2>9. PublishedIsCounted'
    BY <1>1, <1>2, <2>5 DEF Posting, PublishedIsCounted
  <2>10. ReservedIsHeld'
    <3>1. ASSUME NEW k \in Keys
          PROVE  /\ Cardinality(Holders(k)') <= 1
                 /\ Holders(k)' # {} => attempt'[k] # None /\ attempt'[k].status = "REQUESTED"
                 /\ attempt'[k] # None /\ attempt'[k].status = "REQUESTED" =>
                      Holders(k)' # {} \/ k \in dead'
      <4>1. CASE k = key
        <5>1. Holders(k) = {}
          BY <1>1, <1>10, <4>1 DEF Posting, ReservedIsHeld
        <5>2. Holders(k)' = {h}
          BY <2>7, <4>1, <5>1
        <5>3. Cardinality({h}) = 1
          BY FS_Singleton
        <5> QED
          BY <2>2, <2>3, <4>1, <5>2, <5>3
      <4>2. CASE k # key
        BY <1>1, <1>2, <2>3, <2>7, <4>2 DEF Posting, ReservedIsHeld
      <4> QED
        BY <4>1, <4>2
    <3> QED
      BY <3>1 DEF ReservedIsHeld
  <2>11. AttemptsAreInOrder'
    <3>1. ASSUME NEW k \in Keys, attempt'[k] # None
          PROVE  /\ k \in DefaultKeys => attempt'[k].target = k[1]
                 /\ k \in ClientKeys => attempt'[k].target \in custom'
                 /\ draft'[attempt'[k].target[1]] # None
      <4>1. CASE k = key
        <5>1. /\ key \in DefaultKeys => key[1] = t
              /\ draft[t[1]] # None
          BY <1>3, <1>4 DEF PublishKnows, PublishLabels, Reserving
        <5> QED
          BY <1>2, <1>8, <2>2, <2>3, <4>1, <5>1
      <4>2. CASE k # key
        BY <1>1, <1>2, <1>8, <2>3, <3>1, <4>2 DEF Posting, AttemptsAreInOrder
      <4> QED
        BY <4>1, <4>2
    <3>2. ASSUME NEW s \in Targets
          PROVE  IsFiniteSet(AttemptsOf(s)')
      <4>1. IsFiniteSet(AttemptsOf(s))
        BY <1>1 DEF Posting, AttemptsAreInOrder
      <4> QED
        BY <2>5, <4>1, FS_AddElement
    <3>3. ASSUME NEW s \in Targets \ custom'
          PROVE  LET n == Cardinality(WithStatus(s, "FAILED")') IN
                 /\ WithStatus(s, "FAILED")' = FirstKeys(s, n)
                 /\ AttemptsOf(s)' \subseteq FirstKeys(s, n + 1)
      <4>1. PICK n : n = Cardinality(WithStatus(s, "FAILED"))
        OBVIOUS
      <4>2. s \notin custom /\ n \in Nat
        BY <1>1, <1>8, <4>1, StatusesAreFinite DEF Posting
      <4>3. WithStatus(s, "FAILED") = FirstKeys(s, n) /\ AttemptsOf(s) \subseteq FirstKeys(s, n + 1)
        BY <1>1, <4>1, <4>2 DEF Posting, AttemptsAreInOrder
      <4>4. AttemptsOf(s)' \subseteq FirstKeys(s, n + 1)
        <5>1. CASE s = t
          <6>1. key \in DefaultKeys
            BY <1>4, <1>8, <5>1 DEF Keys
          <6>2. key[1] = t /\ key[2] <= n + 1
            BY <1>3, <1>4, <4>1, <4>2, <5>1, <6>1 DEF PublishKnows, Reserving
          <6>3. key = <<key[1], key[2]>> /\ key[2] \in 1 .. FailureLimit
            BY <6>1 DEF DefaultKeys
          <6>4. key[2] \in 1 .. n + 1
            BY <4>2, <6>2, <6>3, BoundsAssumption
          <6>5. key \in FirstKeys(s, n + 1)
            BY <5>1, <6>2, <6>3, <6>4 DEF FirstKeys
          <6> QED
            BY <2>5, <4>3, <5>1, <6>5
        <5>2. CASE s # t
          BY <2>5, <4>3, <5>2
        <5> QED
          BY <5>1, <5>2
      <4> QED
        BY <2>5, <4>1, <4>3, <4>4
    <3> QED
      BY <3>1, <3>2, <3>3 DEF AttemptsAreInOrder
  <2>12. \A g \in Handlers : PublishKnows(at[g], job[g])'
    <3>1. PublishKnows("inspect", j)'
      BY <1>2, <1>3, <1>4, <1>6, <1>8, <2>2, <2>3 DEF PublishKnows, PublishLabels, Reserving, Holding
    <3>2. \A s \in Targets :
            /\ Cardinality(WithStatus(s, "FAILED"))' = Cardinality(WithStatus(s, "FAILED"))
            /\ Cardinality(WithStatus(s, "FAILED")) \in Nat
      BY <1>1, <2>5, StatusesAreFinite DEF Posting
    <3>3. ASSUME NEW g \in Handlers \ {h}, job[g].inserted
          PROVE  attempt'[job[g].key] = attempt[job[g].key]
      <4>1. at[g] \in Holding
        BY <1>1, <3>3 DEF Fitting, JobFits
      <4>2. job[g].key \in Keys /\ attempt[job[g].key] # None
        BY <1>1, <3>3, <4>1, HeldAlone
      <4> QED
        BY <1>10, <2>3, <4>2
    <3> QED
      BY <1>1, <1>2, <1>7, <1>8, <3>1, <3>2, <3>3, OthersKnow
  <2> QED
    BY <2>8, <2>9, <2>10, <2>11, <2>12 DEF Posting
<1> QED
  BY <1>9, <1>10

(* The end of a request that holds a key.                                   *)
LEMMA LetsGo ==
  ASSUME Fitting, Posting, NEW h \in Handlers, at[h] \in Holding, job[h].inserted, End(h),
         NEW key, key = job[h].key
  PROVE  /\ MovesTo(h, "idle", Idle)
         /\ Holders(key)' = {} /\ \A k : k # key => Holders(k)' = Holders(k)
         /\ \A s : Completing(s)' = Completing(s) \ {h}
<1>1. MovesTo(h, "idle", Idle)
  BY EndMoves
<1>2. /\ \A k : Holders(k)' = Holders(k) \ {h}
      /\ \A s : Completing(s)' = Completing(s) \ {h}
  <2>1. PICK label : label = "idle"
    OBVIOUS
  <2>2. /\ \A k : Holders(k)' = (Holders(k) \ {h}) \cup
                   (IF label \in Holding /\ Idle.inserted /\ Idle.key = k THEN {h} ELSE {})
        /\ \A s : Completing(s)' = (Completing(s) \ {h}) \cup
                   (IF label = "complete" /\ Idle.target = s THEN {h} ELSE {})
    BY <1>1, <2>1, HoldersMoved DEF Fitting, TypeOK
  <2>3. label \notin Holding /\ label # "complete"
    BY <2>1 DEF Holding
  <2> QED
    BY <2>2, <2>3
<1>3. Holders(key) = {h}
  BY HeldAlone
<1>4. \A k : k # key => h \notin Holders(k)
  BY DEF Holders, Holds
<1> QED
  BY <1>1, <1>2, <1>3, <1>4

(* What is held once the row of an ended request says something else.       *)
LEMMA HeldAfterEnd ==
  ASSUME Posting, NEW key \in Keys, Holders(key)' = {},
         \A k : k # key => Holders(k)' = Holders(k),
         \A k \in Keys \ {key} : attempt'[k] = attempt[k],
         \/ attempt'[key] = None \/ attempt'[key].status # "REQUESTED" \/ key \in dead',
         dead \subseteq dead'
  PROVE  ReservedIsHeld'
<1>1. ASSUME NEW k \in Keys
      PROVE  /\ Cardinality(Holders(k)') <= 1
             /\ Holders(k)' # {} => attempt'[k] # None /\ attempt'[k].status = "REQUESTED"
             /\ attempt'[k] # None /\ attempt'[k].status = "REQUESTED" =>
                  Holders(k)' # {} \/ k \in dead'
  <2>1. CASE k = key
    BY <2>1, FS_EmptySet
  <2>2. CASE k # key
    BY <2>2 DEF Posting, ReservedIsHeld
  <2> QED
    BY <2>1, <2>2
<1> QED
  BY <1>1 DEF ReservedIsHeld

(* The rows whose status alone changes, or that go, keep their order.       *)
LEMMA OrderAfterEnd ==
  ASSUME Posting, NEW key \in Keys, \A k \in Keys \ {key} : attempt'[k] = attempt[k],
         attempt'[key] # None =>
           /\ attempt[key] # None /\ attempt'[key].target = attempt[key].target
           /\ attempt'[key].number = attempt[key].number,
         UNCHANGED custom, \A d \in Drafts : draft[d] # None => draft'[d] # None,
         PublishingOK
  PROVE  /\ \A t : AttemptsOf(t)' \subseteq AttemptsOf(t)
         /\ \A k \in Keys : attempt'[k] # None =>
              /\ k \in DefaultKeys => attempt'[k].target = k[1]
              /\ k \in ClientKeys => attempt'[k].target \in custom'
              /\ draft'[attempt'[k].target[1]] # None
         /\ \A t \in Targets :
              IsFiniteSet(AttemptsOf(t)')
<1>1. ASSUME NEW k \in Keys, attempt'[k] # None
      PROVE  /\ attempt[k] # None /\ attempt'[k].target = attempt[k].target
             /\ attempt'[k].number = attempt[k].number
  BY <1>1
<1>2. ASSUME NEW t PROVE AttemptsOf(t)' \subseteq AttemptsOf(t)
  BY <1>1 DEF AttemptsOf
<1>3. ASSUME NEW k \in Keys, attempt'[k] # None
      PROVE  /\ k \in DefaultKeys => attempt'[k].target = k[1]
             /\ k \in ClientKeys => attempt'[k].target \in custom'
             /\ draft'[attempt'[k].target[1]] # None
  <2>1. attempt[k].target \in Targets
    BY <1>1, <1>3 DEF PublishingOK, Attempts
  <2>2. attempt[k].target[1] \in Drafts
    BY <2>1 DEF Targets
  <2> QED
    BY <1>1, <1>3, <2>2 DEF Posting, AttemptsAreInOrder
<1>4. ASSUME NEW t \in Targets
      PROVE  IsFiniteSet(AttemptsOf(t)')
  <2>1. IsFiniteSet(AttemptsOf(t))
    BY DEF Posting, AttemptsAreInOrder
  <2> QED
    BY <1>2, <2>1, FS_Subset
<1> QED
  BY <1>2, <1>3, <1>4

(* Who ends with a row of its own, and the row changes its status.          *)
LEMMA StatusWritten ==
  ASSUME NEW key \in Keys, NEW t,
         attempt[key] # None, attempt[key].target = t, attempt[key].status = "REQUESTED",
         NEW v, v # "REQUESTED", NEW r, r # None,
         r.target = t, r.status = v, r.number = attempt[key].number,
         attempt'[key] = r, \A k \in Keys \ {key} : attempt'[k] = attempt[k]
  PROVE  /\ attempt'[key] # None /\ attempt'[key].target = t /\ attempt'[key].status = v
         /\ attempt'[key].number = attempt[key].number /\ attempt[key].target = t
         /\ \A k \in Keys \ {key} : attempt'[k] = attempt[k]
         /\ \A s : AttemptsOf(s)' = AttemptsOf(s)
         /\ key \in AttemptsOf(t) /\ key \notin WithStatus(t, v)
         /\ WithStatus(t, v)' = WithStatus(t, v) \cup {key}
         /\ \A s, u : u # "REQUESTED" /\ ~(s = t /\ u = v) => WithStatus(s, u)' = WithStatus(s, u)
<1>1. /\ \A s : AttemptsOf(s)' = (AttemptsOf(s) \ {key}) \cup
                  (IF r # None /\ r.target = s THEN {key} ELSE {})
      /\ \A s, u : WithStatus(s, u)' = (WithStatus(s, u) \ {key}) \cup
                  (IF r # None /\ r.target = s /\ r.status = u THEN {key} ELSE {})
  BY RowWritten
<1>2. /\ \A s : key \in AttemptsOf(s) <=> s = t
      /\ \A s, u : key \in WithStatus(s, u) <=> (s = t /\ u = "REQUESTED")
  BY DEF AttemptsOf, WithStatus
<1>3. \A s : AttemptsOf(s)' = AttemptsOf(s)
  BY <1>1, <1>2
<1>4. WithStatus(t, v)' = WithStatus(t, v) \cup {key}
  BY <1>1, <1>2
<1>5. ASSUME NEW s, NEW u, u # "REQUESTED", ~(s = t /\ u = v)
       PROVE  WithStatus(s, u)' = WithStatus(s, u)
  <2>1. key \notin WithStatus(s, u)
    BY <1>2, <1>5
  <2>2. ~(r.target = s /\ r.status = u)
    BY <1>5
  <2> QED
    BY <1>1, <2>1, <2>2
<1> QED
  BY <1>1, <1>2, <1>3, <1>4, <1>5

(* A post on record.                                                        *)
LEMMA CompleteKeepsPosts ==
  ASSUME Inv, NEW h \in Handlers, Complete(h)
  PROVE  Posting'
<1>1. Fitting /\ Posting /\ JobsOK /\ PublishingOK /\ at[h] = "complete" /\ at[h] \in Holding
  BY DEF Inv, Fitting, TypeOK, Complete, Holding
<1>2. UNCHANGED <<posted, lost, custom, again, dead>> /\ End(h)
  BY DEF Complete, history
<1>3. PICK t, key : t = job[h].target /\ key = job[h].key
  OBVIOUS
<1>4. job[h].inserted
  BY <1>1 DEF Fitting, JobFits
<1>5. /\ key \in Keys /\ t \in Targets /\ IsRequested(h)
      /\ \A g \in Handlers \ {h} : job[g].inserted => job[g].key # key
  BY <1>1, <1>3, <1>4, HeldAlone DEF IsRequested
<1>6. attempt' = [attempt EXCEPT ![key].status = "SUCCEEDED"]
  BY <1>3, <1>5 DEF Complete
<1>7. /\ attempt'[key] # None /\ attempt'[key].target = t /\ attempt'[key].status = "SUCCEEDED"
      /\ attempt'[key].number = attempt[key].number /\ attempt[key].target = t
      /\ \A k \in Keys \ {key} : attempt'[k] = attempt[k]
      /\ \A s : AttemptsOf(s)' = AttemptsOf(s)
      /\ key \in AttemptsOf(t) /\ key \notin WithStatus(t, "SUCCEEDED")
      /\ WithStatus(t, "SUCCEEDED")' = WithStatus(t, "SUCCEEDED") \cup {key}
      /\ \A s : WithStatus(s, "FAILED")' = WithStatus(s, "FAILED")
      /\ \A s : s # t => WithStatus(s, "SUCCEEDED")' = WithStatus(s, "SUCCEEDED")
  <2>1. "SUCCEEDED" \in {"SUCCEEDED", "FAILED"} /\ "SUCCEEDED" # "REQUESTED" /\ "FAILED" # "REQUESTED"
    OBVIOUS
  <2>2. PICK v : v = "SUCCEEDED"
    OBVIOUS
  <2>3. PICK r : /\ r # None
                 /\ r.target = t /\ r.status = v /\ r.number = attempt[key].number
                 /\ attempt'[key] = r /\ \A k \in Keys \ {key} : attempt'[k] = attempt[k]
    <3>1. attempt[key] \in Attempts /\ attempt[key].target = t
      BY <1>1, <1>3, <1>4, HeldAlone DEF PublishingOK
    <3>2. [attempt[key] EXCEPT !.status = "SUCCEEDED"] \in Attempts
      BY <3>1 DEF Attempts
    <3> QED
      BY <1>1, <1>5, <1>6, <2>2, <3>1, <3>2, NamesAssumption DEF Attempts, PublishingOK
  <2>4. /\ attempt'[key] # None /\ attempt'[key].target = t /\ attempt'[key].status = v
        /\ attempt'[key].number = attempt[key].number /\ attempt[key].target = t
        /\ \A k \in Keys \ {key} : attempt'[k] = attempt[k]
        /\ \A s : AttemptsOf(s)' = AttemptsOf(s)
        /\ key \in AttemptsOf(t) /\ key \notin WithStatus(t, v)
        /\ WithStatus(t, v)' = WithStatus(t, v) \cup {key}
        /\ \A s, u : u # "REQUESTED" /\ ~(s = t /\ u = v) => WithStatus(s, u)' = WithStatus(s, u)
    <3>1. /\ key \in Keys /\ v # "REQUESTED"
          /\ attempt[key] # None /\ attempt[key].target = t /\ attempt[key].status = "REQUESTED"
      BY <1>1, <1>3, <1>4, <2>1, <2>2, HeldAlone
    <3> QED
      BY <2>3, <3>1, StatusWritten
  <2> QED
    BY <2>1, <2>2, <2>4
<1>8. /\ MovesTo(h, "idle", Idle)
      /\ Holders(key)' = {} /\ \A k : k # key => Holders(k)' = Holders(k)
      /\ \A s : Completing(s)' = Completing(s) \ {h}
  BY <1>1, <1>2, <1>3, <1>4, LetsGo
<1>9. \A s : h \in Completing(s) <=> s = t
  BY <1>1, <1>3 DEF Completing
<1>10. PICK d \in Drafts, p \in Platforms : t = <<d, p>>
  BY <1>5 DEF Targets
<1>11. draft' = [draft EXCEPT ![d] = "PUBLISHED"]
  BY <1>3, <1>10 DEF Complete
<1>12. \A e \in Drafts : draft[e] # None => draft'[e] # None
  BY <1>1, <1>11, NamesAssumption DEF PublishingOK, Statuses
<1>13. PostsAreRecorded'
  <2>1. ASSUME NEW s \in Targets
        PROVE  posted'[s] = Cardinality(WithStatus(s, "SUCCEEDED")') + lost'[s]
                            + Cardinality(Completing(s)')
    <3>1. /\ posted[s] = Cardinality(WithStatus(s, "SUCCEEDED")) + lost[s]
                         + Cardinality(Completing(s))
          /\ posted[s] \in Nat /\ lost[s] \in Nat
      BY <1>1 DEF Posting, PostsAreRecorded, PublishingOK
    <3>2. /\ Cardinality(WithStatus(s, "SUCCEEDED")) \in Nat
          /\ IsFiniteSet(WithStatus(s, "SUCCEEDED"))
          /\ IsFiniteSet(Completing(s)) /\ Cardinality(Completing(s)) \in Nat
      BY <1>1, StatusesAreFinite, HandlersAreFinite DEF Posting
    <3>3. CASE s = t
      <4>1. Cardinality(WithStatus(s, "SUCCEEDED")') = Cardinality(WithStatus(s, "SUCCEEDED")) + 1
        BY <1>7, <3>2, <3>3, FS_AddElement
      <4>2. Cardinality(Completing(s)') = Cardinality(Completing(s)) - 1
        BY <1>8, <1>9, <3>2, <3>3, FS_RemoveElement
      <4> QED
        BY <1>2, <3>1, <3>2, <4>1, <4>2
    <3>4. CASE s # t
      <4>1. Completing(s)' = Completing(s) /\ WithStatus(s, "SUCCEEDED")' = WithStatus(s, "SUCCEEDED")
        BY <1>7, <1>8, <1>9, <3>4
      <4> QED
        BY <1>2, <3>1, <4>1
    <3> QED
      BY <3>3, <3>4
  <2> QED
    BY <2>1 DEF PostsAreRecorded
<1>14. PublishedIsCounted'
  <2>1. ASSUME NEW e \in Drafts
        PROVE  LET done == \E q \in Platforms : WithStatus(<<e, q>>, "SUCCEEDED")' # {} IN
               /\ draft'[e] = "PUBLISHED" => done
               /\ done /\ e \notin again' => draft'[e] = "PUBLISHED"
    <3>1. CASE e = d
      <4>1. draft'[e] = "PUBLISHED"
        BY <1>1, <1>11, <3>1 DEF PublishingOK
      <4>2. WithStatus(<<e, p>>, "SUCCEEDED")' # {}
        BY <1>7, <1>10, <3>1
      <4> QED
        BY <4>1, <4>2
    <3>2. CASE e # d
      <4>1. draft'[e] = draft[e]
        BY <1>1, <1>11, <3>2 DEF PublishingOK
      <4>2. \A q \in Platforms : WithStatus(<<e, q>>, "SUCCEEDED")' = WithStatus(<<e, q>>, "SUCCEEDED")
        BY <1>7, <1>10, <3>2
      <4> QED
        BY <1>1, <1>2, <4>1, <4>2 DEF Posting, PublishedIsCounted
    <3> QED
      BY <3>1, <3>2
  <2> QED
    BY <2>1 DEF PublishedIsCounted
<1>15. ReservedIsHeld'
  BY <1>1, <1>2, <1>5, <1>7, <1>8, HeldAfterEnd
<1>16. AttemptsAreInOrder'
  <2>1. attempt[key] # None
    BY <1>7 DEF AttemptsOf
  <2>2. /\ \A k \in Keys : attempt'[k] # None =>
             /\ k \in DefaultKeys => attempt'[k].target = k[1]
             /\ k \in ClientKeys => attempt'[k].target \in custom'
             /\ draft'[attempt'[k].target[1]] # None
        /\ \A s \in Targets :
             IsFiniteSet(AttemptsOf(s)')
    BY <1>1, <1>2, <1>5, <1>7, <1>12, <2>1, OrderAfterEnd
  <2> QED
    BY <1>1, <1>2, <1>7, <2>2 DEF Posting, AttemptsAreInOrder
<1>17. \A g \in Handlers : PublishKnows(at[g], job[g])'
  <2>1. \A s \in Targets :
          /\ Cardinality(WithStatus(s, "FAILED"))' = Cardinality(WithStatus(s, "FAILED"))
          /\ Cardinality(WithStatus(s, "FAILED")) \in Nat
    BY <1>1, <1>7, StatusesAreFinite DEF Posting
  <2>2. \A g \in Handlers \ {h} : job[g].inserted => attempt'[job[g].key] = attempt[job[g].key]
    <3>1. ASSUME NEW g \in Handlers \ {h}, job[g].inserted
          PROVE  job[g].key \in Keys \ {key}
      <4>1. at[g] \in Holding
        BY <1>1, <3>1 DEF Fitting, JobFits
      <4> QED
        BY <1>1, <1>5, <3>1, <4>1, PublisherFits
    <3> QED
      BY <1>7, <3>1
  <2> QED
    BY <1>1, <1>2, <1>8, <1>12, <2>1, <2>2, IdleKnows, OthersKnow
<1> QED
  BY <1>13, <1>14, <1>15, <1>16, <1>17 DEF Posting

(* A failure: it is the next of its target's.                               *)
LEMMA FailKeepsPosts ==
  ASSUME Inv, NEW h \in Handlers, Fail(h)
  PROVE  Posting'
<1>1. Fitting /\ Posting /\ JobsOK /\ PublishingOK /\ at[h] = "fail" /\ at[h] \in Holding
  BY DEF Inv, Fitting, TypeOK, Fail, Holding
<1>2. UNCHANGED <<draft, posted, lost, custom, again, dead>> /\ End(h)
  BY DEF Fail, history
<1>3. PICK t, key : t = job[h].target /\ key = job[h].key
  OBVIOUS
<1>4. job[h].inserted
  BY <1>1 DEF Fitting, JobFits
<1>5. /\ key \in Keys /\ t \in Targets /\ IsRequested(h)
      /\ \A g \in Handlers \ {h} : job[g].inserted => job[g].key # key
  BY <1>1, <1>3, <1>4, HeldAlone DEF IsRequested
<1>6. attempt' = [attempt EXCEPT ![key].status = "FAILED"]
  BY <1>3, <1>5 DEF Fail
<1>7. /\ attempt'[key] # None /\ attempt'[key].target = t /\ attempt'[key].status = "FAILED"
      /\ attempt'[key].number = attempt[key].number /\ attempt[key].target = t
      /\ \A k \in Keys \ {key} : attempt'[k] = attempt[k]
      /\ \A s : AttemptsOf(s)' = AttemptsOf(s)
      /\ key \in AttemptsOf(t) /\ key \notin WithStatus(t, "FAILED")
      /\ WithStatus(t, "FAILED")' = WithStatus(t, "FAILED") \cup {key}
      /\ \A s : WithStatus(s, "SUCCEEDED")' = WithStatus(s, "SUCCEEDED")
      /\ \A s : s # t => WithStatus(s, "FAILED")' = WithStatus(s, "FAILED")
  <2>1. "FAILED" # "SUCCEEDED" /\ "SUCCEEDED" # "REQUESTED" /\ "FAILED" # "REQUESTED"
    OBVIOUS
  <2>2. PICK v : v = "FAILED"
    OBVIOUS
  <2>3. PICK r : /\ r # None
                 /\ r.target = t /\ r.status = v /\ r.number = attempt[key].number
                 /\ attempt'[key] = r /\ \A k \in Keys \ {key} : attempt'[k] = attempt[k]
    <3>1. attempt[key] \in Attempts /\ attempt[key].target = t
      BY <1>1, <1>3, <1>4, HeldAlone DEF PublishingOK
    <3>2. [attempt[key] EXCEPT !.status = "FAILED"] \in Attempts
      BY <3>1 DEF Attempts
    <3> QED
      BY <1>1, <1>5, <1>6, <2>2, <3>1, <3>2, NamesAssumption DEF Attempts, PublishingOK
  <2>4. /\ attempt'[key] # None /\ attempt'[key].target = t /\ attempt'[key].status = v
        /\ attempt'[key].number = attempt[key].number /\ attempt[key].target = t
        /\ \A k \in Keys \ {key} : attempt'[k] = attempt[k]
        /\ \A s : AttemptsOf(s)' = AttemptsOf(s)
        /\ key \in AttemptsOf(t) /\ key \notin WithStatus(t, v)
        /\ WithStatus(t, v)' = WithStatus(t, v) \cup {key}
        /\ \A s, u : u # "REQUESTED" /\ ~(s = t /\ u = v) => WithStatus(s, u)' = WithStatus(s, u)
    <3>1. /\ key \in Keys /\ v # "REQUESTED"
          /\ attempt[key] # None /\ attempt[key].target = t /\ attempt[key].status = "REQUESTED"
      BY <1>1, <1>3, <1>4, <2>1, <2>2, HeldAlone
    <3> QED
      BY <2>3, <3>1, StatusWritten
  <2> QED
    BY <2>1, <2>2, <2>4
<1>8. /\ MovesTo(h, "idle", Idle)
      /\ Holders(key)' = {} /\ \A k : k # key => Holders(k)' = Holders(k)
      /\ \A s : Completing(s)' = Completing(s) \ {h}
  BY <1>1, <1>2, <1>3, <1>4, LetsGo
<1>9. \A s : Completing(s)' = Completing(s)
  BY <1>1, <1>8 DEF Completing
<1>10. PostsAreRecorded'
  BY <1>1, <1>2, <1>7, <1>9 DEF Posting, PostsAreRecorded
<1>11. PublishedIsCounted'
  BY <1>1, <1>2, <1>7 DEF Posting, PublishedIsCounted
<1>12. ReservedIsHeld'
  BY <1>1, <1>2, <1>5, <1>7, <1>8, HeldAfterEnd
<1>13. ASSUME NEW s \in Targets
       PROVE  /\ Cardinality(WithStatus(s, "FAILED")) \in Nat
              /\ Cardinality(WithStatus(s, "FAILED"))' =
                   Cardinality(WithStatus(s, "FAILED")) + (IF s = t THEN 1 ELSE 0)
  <2>1. /\ Cardinality(WithStatus(s, "FAILED")) \in Nat
        /\ IsFiniteSet(WithStatus(s, "FAILED"))
    BY <1>1, StatusesAreFinite DEF Posting
  <2>2. CASE s = t
    BY <1>7, <2>1, <2>2, FS_AddElement
  <2>3. CASE s # t
    BY <1>7, <2>1, <2>3
  <2> QED
    BY <2>1, <2>2, <2>3
<1>14. AttemptsAreInOrder'
  <2>1. attempt[key] # None
    BY <1>7 DEF AttemptsOf
  <2>2. /\ \A k \in Keys : attempt'[k] # None =>
             /\ k \in DefaultKeys => attempt'[k].target = k[1]
             /\ k \in ClientKeys => attempt'[k].target \in custom'
             /\ draft'[attempt'[k].target[1]] # None
        /\ \A s \in Targets :
             IsFiniteSet(AttemptsOf(s)')
    BY <1>1, <1>2, <1>5, <1>7, <2>1, OrderAfterEnd
  <2>3. ASSUME NEW s \in Targets \ custom'
        PROVE  LET n == Cardinality(WithStatus(s, "FAILED")') IN
               /\ WithStatus(s, "FAILED")' = FirstKeys(s, n)
               /\ AttemptsOf(s)' \subseteq FirstKeys(s, n + 1)
    <3>1. PICK n \in Nat : n = Cardinality(WithStatus(s, "FAILED"))
      BY <1>13
    <3>2. WithStatus(s, "FAILED") = FirstKeys(s, n) /\ AttemptsOf(s) \subseteq FirstKeys(s, n + 1)
      BY <1>1, <1>2, <3>1 DEF Posting, AttemptsAreInOrder
    <3>3. CASE s = t
      <4>1. key \in FirstKeys(s, n + 1) /\ key \notin FirstKeys(s, n)
        BY <1>7, <3>2, <3>3
      <4>2. PICK i \in 1 .. n + 1 : key = <<s, i>>
        BY <4>1 DEF FirstKeys
      <4>3. i = n + 1
        BY <4>1, <4>2 DEF FirstKeys
      <4>4. FirstKeys(s, n + 1) = FirstKeys(s, n) \cup {<<s, n + 1>>}
        BY DEF FirstKeys
      <4>5. FirstKeys(s, n + 1) \subseteq FirstKeys(s, (n + 1) + 1)
        BY DEF FirstKeys
      <4>6. WithStatus(s, "FAILED")' = FirstKeys(s, n + 1)
        BY <1>7, <3>2, <3>3, <4>2, <4>3, <4>4
      <4>7. Cardinality(WithStatus(s, "FAILED")') = n + 1
        BY <1>13, <3>1, <3>3
      <4> QED
        BY <1>7, <3>2, <4>5, <4>6, <4>7
    <3>4. CASE s # t
      BY <1>7, <3>1, <3>2, <3>4
    <3> QED
      BY <3>3, <3>4
  <2> QED
    BY <2>2, <2>3 DEF AttemptsAreInOrder
<1>15. \A g \in Handlers : PublishKnows(at[g], job[g])'
  <2>1. ASSUME NEW s \in Targets
        PROVE  /\ Cardinality(WithStatus(s, "FAILED"))' >= Cardinality(WithStatus(s, "FAILED"))
               /\ Cardinality(WithStatus(s, "FAILED"))' \in Nat
    BY <1>13
  <2>2. \A g \in Handlers \ {h} : job[g].inserted => attempt'[job[g].key] = attempt[job[g].key]
    <3>1. ASSUME NEW g \in Handlers \ {h}, job[g].inserted
          PROVE  job[g].key \in Keys \ {key}
      <4>1. at[g] \in Holding
        BY <1>1, <3>1 DEF Fitting, JobFits
      <4> QED
        BY <1>1, <1>5, <3>1, <4>1, PublisherFits
    <3> QED
      BY <1>7, <3>1
  <2> QED
    BY <1>1, <1>2, <1>8, <2>1, <2>2, IdleKnows, OthersKnow
<1> QED
  BY <1>10, <1>11, <1>12, <1>14, <1>15 DEF Posting

(* A row released: the attempt never was.                                   *)
LEMMA ReleaseKeepsPosts ==
  ASSUME Inv, NEW h \in Handlers, Release(h)
  PROVE  Posting'
<1>1. Fitting /\ Posting /\ JobsOK /\ PublishingOK /\ at[h] = "release" /\ at[h] \in Holding
  BY DEF Inv, Fitting, TypeOK, Release, Holding
<1>2. UNCHANGED <<draft, posted, lost, custom, again, dead>> /\ End(h)
  BY DEF Release, history
<1>3. PICK t, key : t = job[h].target /\ key = job[h].key
  OBVIOUS
<1>4. job[h].inserted
  BY <1>1 DEF Fitting, JobFits
<1>5. /\ key \in Keys /\ t \in Targets /\ IsRequested(h) /\ attempt[key].status = "REQUESTED"
      /\ \A g \in Handlers \ {h} : job[g].inserted => job[g].key # key
  BY <1>1, <1>3, <1>4, HeldAlone DEF IsRequested
<1>6. attempt' = [attempt EXCEPT ![key] = None]
  BY <1>3, <1>5 DEF Release
<1>7. attempt'[key] = None /\ \A k \in Keys \ {key} : attempt'[k] = attempt[k]
  BY <1>1, <1>5, <1>6 DEF PublishingOK
<1>8. /\ \A s : AttemptsOf(s)' \subseteq AttemptsOf(s)
      /\ \A s : WithStatus(s, "SUCCEEDED")' = WithStatus(s, "SUCCEEDED")
      /\ \A s : WithStatus(s, "FAILED")' = WithStatus(s, "FAILED")
  BY <1>5, <1>7 DEF AttemptsOf, WithStatus
<1>9. /\ MovesTo(h, "idle", Idle)
      /\ Holders(key)' = {} /\ \A k : k # key => Holders(k)' = Holders(k)
      /\ \A s : Completing(s)' = Completing(s) \ {h}
  BY <1>1, <1>2, <1>3, <1>4, LetsGo
<1>10. \A s : Completing(s)' = Completing(s)
  BY <1>1, <1>9 DEF Completing
<1>11. PostsAreRecorded'
  BY <1>1, <1>2, <1>8, <1>10 DEF Posting, PostsAreRecorded
<1>12. PublishedIsCounted'
  BY <1>1, <1>2, <1>8 DEF Posting, PublishedIsCounted
<1>13. ReservedIsHeld'
  BY <1>1, <1>2, <1>5, <1>7, <1>9, HeldAfterEnd
<1>14. AttemptsAreInOrder'
  <2>1. /\ \A k \in Keys : attempt'[k] # None =>
             /\ k \in DefaultKeys => attempt'[k].target = k[1]
             /\ k \in ClientKeys => attempt'[k].target \in custom'
             /\ draft'[attempt'[k].target[1]] # None
        /\ \A s \in Targets :
             IsFiniteSet(AttemptsOf(s)')
    BY <1>1, <1>2, <1>5, <1>7, OrderAfterEnd
  <2>2. ASSUME NEW s \in Targets \ custom'
        PROVE  LET n == Cardinality(WithStatus(s, "FAILED")') IN
               /\ WithStatus(s, "FAILED")' = FirstKeys(s, n)
               /\ AttemptsOf(s)' \subseteq FirstKeys(s, n + 1)
    BY <1>1, <1>2, <1>8 DEF Posting, AttemptsAreInOrder
  <2> QED
    BY <2>1, <2>2 DEF AttemptsAreInOrder
<1>15. \A g \in Handlers : PublishKnows(at[g], job[g])'
  <2>1. \A s \in Targets :
          /\ Cardinality(WithStatus(s, "FAILED"))' = Cardinality(WithStatus(s, "FAILED"))
          /\ Cardinality(WithStatus(s, "FAILED")) \in Nat
    BY <1>1, <1>8, StatusesAreFinite DEF Posting
  <2>2. \A g \in Handlers \ {h} : job[g].inserted => attempt'[job[g].key] = attempt[job[g].key]
    <3>1. ASSUME NEW g \in Handlers \ {h}, job[g].inserted
          PROVE  job[g].key \in Keys \ {key}
      <4>1. at[g] \in Holding
        BY <1>1, <3>1 DEF Fitting, JobFits
      <4> QED
        BY <1>1, <1>5, <3>1, <4>1, PublisherFits
    <3> QED
      BY <1>7, <3>1
  <2> QED
    BY <1>1, <1>2, <1>9, <2>1, <2>2, IdleKnows, OthersKnow
<1> QED
  BY <1>11, <1>12, <1>13, <1>14, <1>15 DEF Posting

(* A request that dies: what it held stays REQUESTED, what it posted is lost.*)
LEMMA AbortKeepsPosts ==
  ASSUME Inv, NEW h \in Handlers, Abort(h)
  PROVE  Posting'
<1>1. Fitting /\ Posting /\ PublishingOK /\ End(h)
  BY DEF Inv, Fitting, TypeOK, Abort
<1>2. UNCHANGED <<draft, attempt, posted, custom, again>> /\ dead \subseteq dead'
  BY DEF Abort, publishing
<1>3. CASE ~job[h].inserted
  <2>1. at[h] # "complete"
    BY <1>1, <1>3 DEF Fitting, JobFits
  <2>2. UNCHANGED lost /\ MovesTo(h, "idle", Idle)
    BY <1>1, <2>1, EndMoves DEF Abort
  <2> QED
    BY <1>1, <1>2, <1>3, <2>2, IdleKnows, PostingQuiet
<1>4. CASE job[h].inserted
  <2>1. at[h] \in Holding
    BY <1>1, <1>4 DEF Fitting, JobFits
  <2>2. PICK t, key : t = job[h].target /\ key = job[h].key
    OBVIOUS
  <2>3. /\ key \in Keys /\ t \in Targets
        /\ \A g \in Handlers \ {h} : job[g].inserted => job[g].key # key
    BY <1>1, <1>4, <2>1, <2>2, HeldAlone
  <2>4. /\ MovesTo(h, "idle", Idle)
        /\ Holders(key)' = {} /\ \A k : k # key => Holders(k)' = Holders(k)
        /\ \A s : Completing(s)' = Completing(s) \ {h}
    BY <1>1, <1>4, <2>1, <2>2, LetsGo
  <2>5. key \in dead'
    BY <1>4, <2>1, <2>2, <2>3 DEF Abort, Holds
  <2>6. /\ \A s : AttemptsOf(s)' = AttemptsOf(s)
        /\ \A s, v : WithStatus(s, v)' = WithStatus(s, v)
    BY <1>2 DEF AttemptsOf, WithStatus
  <2>7. PostsAreRecorded'
    <3>1. ASSUME NEW s \in Targets
          PROVE  posted'[s] = Cardinality(WithStatus(s, "SUCCEEDED")') + lost'[s]
                              + Cardinality(Completing(s)')
      <4>1. /\ posted[s] = Cardinality(WithStatus(s, "SUCCEEDED")) + lost[s]
                           + Cardinality(Completing(s))
            /\ posted[s] \in Nat /\ lost[s] \in Nat
        BY <1>1 DEF Posting, PostsAreRecorded, PublishingOK
      <4>2. /\ Cardinality(WithStatus(s, "SUCCEEDED")) \in Nat
            /\ IsFiniteSet(Completing(s)) /\ Cardinality(Completing(s)) \in Nat
        BY <1>1, StatusesAreFinite, HandlersAreFinite DEF Posting
      <4>3. CASE at[h] = "complete" /\ s = t
        <5>1. h \in Completing(s)
          BY <2>2, <4>3 DEF Completing
        <5>2. Cardinality(Completing(s)') = Cardinality(Completing(s)) - 1
          BY <2>4, <4>2, <5>1, FS_RemoveElement
        <5>3. lost'[s] = lost[s] + 1
          BY <1>1, <2>2, <4>3 DEF Abort, PublishingOK
        <5> QED
          BY <1>2, <2>6, <4>1, <4>2, <5>2, <5>3
      <4>4. CASE ~(at[h] = "complete" /\ s = t)
        <5>1. Completing(s)' = Completing(s)
          BY <2>2, <2>4, <4>4 DEF Completing
        <5>2. lost'[s] = lost[s]
          BY <1>1, <2>2, <4>4 DEF Abort, PublishingOK
        <5> QED
          BY <1>2, <2>6, <4>1, <5>1, <5>2
      <4> QED
        BY <4>3, <4>4
    <3> QED
      BY <3>1 DEF PostsAreRecorded
  <2>8. PublishedIsCounted'
    BY <1>1, <1>2, <2>6 DEF Posting, PublishedIsCounted
  <2>9. ReservedIsHeld'
    BY <1>1, <1>2, <2>3, <2>4, <2>5, HeldAfterEnd
  <2>10. AttemptsAreInOrder'
    <3>1. \A k \in Keys : attempt'[k] # None =>
            /\ k \in DefaultKeys => attempt'[k].target = k[1]
            /\ k \in ClientKeys => attempt'[k].target \in custom'
            /\ draft'[attempt'[k].target[1]] # None
      BY <1>1, <1>2 DEF Posting, AttemptsAreInOrder
    <3> QED
      BY <1>1, <1>2, <2>6, <3>1 DEF Posting, AttemptsAreInOrder
  <2>11. \A g \in Handlers : PublishKnows(at[g], job[g])'
    <3>1. \A s \in Targets :
            /\ Cardinality(WithStatus(s, "FAILED"))' = Cardinality(WithStatus(s, "FAILED"))
            /\ Cardinality(WithStatus(s, "FAILED")) \in Nat
      BY <1>1, <2>6, StatusesAreFinite DEF Posting
    <3> QED
      BY <1>1, <1>2, <2>4, <3>1, IdleKnows, OthersKnow
  <2> QED
    BY <2>7, <2>8, <2>9, <2>10, <2>11 DEF Posting
<1> QED
  BY <1>3, <1>4

LEMMA PostingKept ==
  ASSUME Inv, [Next]_vars
  PROVE  Posting'
<1>1. ASSUME NEW h \in Handlers, TurnBegin(h) \/ PublishBegin(h) \/ Step(h) \/ Abort(h)
      PROVE  Posting'
  <2>1. CASE TurnBegin(h) \/ Turn(h)
    BY <2>1, TurnKeepsPosts, WriteDraftKeepsPosts
  <2>2. CASE Publish(h)
    BY <2>2, CountFailedKeepsPosts, ReadMaxKeepsPosts, ReserveKeepsPosts,
       InspectKeepsPosts, CallKeepsPosts, CompleteKeepsPosts, FailKeepsPosts,
       ReleaseKeepsPosts DEF Publish
  <2> QED
    BY <1>1, <2>1, <2>2, PublishBeginKeepsPosts, AbortKeepsPosts DEF Step
<1>2. CASE UNCHANGED vars
  <2>1. UNCHANGED <<draft, attempt, posted, at, job, lost, custom, again, dead>>
    BY <1>2 DEF vars, publishing, history
  <2>2. /\ \A t : AttemptsOf(t)' = AttemptsOf(t)
        /\ \A s, v : WithStatus(s, v)' = WithStatus(s, v)
        /\ \A k : Holders(k)' = Holders(k)
        /\ \A t : Completing(t)' = Completing(t)
    BY <2>1 DEF AttemptsOf, WithStatus, Holders, Holds, Completing
  <2>3. PostsAreRecorded' /\ PublishedIsCounted' /\ ReservedIsHeld'
    BY <2>1, <2>2 DEF Inv, Posting, PostsAreRecorded, PublishedIsCounted, ReservedIsHeld
  <2>4. AttemptsAreInOrder'
    BY <2>1, <2>2 DEF Inv, Posting, AttemptsAreInOrder
  <2>5. \A h \in Handlers : PublishKnows(at[h], job[h])'
    BY <2>1, <2>2 DEF Inv, Posting, PublishKnows
  <2> QED
    BY <2>3, <2>4, <2>5 DEF Posting
<1> QED
  BY <1>1, <1>2 DEF Next

-----------------------------------------------------------------------------
(* The numbers of the attempts. *)

(* A step that inserts nothing and reads no maximum.                        *)
LEMMA NumbersFrame ==
  ASSUME NumbersGrow, custom \subseteq custom',
         \A k \in Keys : attempt'[k] # None =>
           /\ attempt[k] # None /\ attempt'[k].target = attempt[k].target
           /\ attempt'[k].number = attempt[k].number,
         \A h \in Handlers : at'[h] = "insert" => at[h] = "insert" /\ job'[h] = job[h]
  PROVE  NumbersGrow'
<1>1. \A t : \A k \in AttemptsOf(t)' : k \in AttemptsOf(t) /\ attempt'[k].number = attempt[k].number
  BY DEF AttemptsOf
<1>2. ASSUME NEW t \in Targets \ custom'
      PROVE  /\ \A k, l \in AttemptsOf(t)' : k[2] < l[2] => attempt'[k].number < attempt'[l].number
             /\ \A h \in Handlers :
                  at'[h] = "insert" /\ job'[h].target = t /\ job'[h].key \in DefaultKeys =>
                    \A k \in AttemptsOf(t)' :
                      k[2] < job'[h].key[2] => attempt'[k].number < job'[h].number
  <2>1. t \in Targets \ custom
    BY <1>2
  <2> QED
    BY <1>1, <2>1 DEF NumbersGrow
<1> QED
  BY <1>2 DEF NumbersGrow

(* Who reads the maximum reads one above every number of its target.        *)
LEMMA ReadMaxKeepsNumbers ==
  ASSUME Inv, NEW h \in Handlers, ReadMax(h)
  PROVE  NumbersGrow'
<1>1. Fitting /\ JobsOK /\ PublishingOK /\ Posting /\ NumbersGrow
  BY DEF Inv, Fitting, TypeOK
<1>2. UNCHANGED <<attempt, custom>>
  BY DEF ReadMax, publishing, history
<1>3. \A t : AttemptsOf(t)' = AttemptsOf(t)
  BY <1>2 DEF AttemptsOf
<1>4. PICK u : u = job[h].target
  OBVIOUS
<1>5. u \in Targets /\ job[h] \in Jobs
  BY <1>1, <1>4, PublisherFits DEF ReadMax, Reserving
<1>6. \A k \in AttemptsOf(u) : attempt[k].number < NextNumber(u)
  BY <1>1, <1>5, NumberIsNext, StatusesAreFinite DEF Posting
<1>7. /\ job'[h].target = u /\ job'[h].number = NextNumber(u)
      /\ \A g \in Handlers \ {h} : at'[g] = at[g] /\ job'[g] = job[g]
  BY <1>1, <1>4, <1>5 DEF ReadMax, Go, JobsOK, Jobs
<1>8. ASSUME NEW t \in Targets \ custom, NEW g \in Handlers,
             at'[g] = "insert", job'[g].target = t, job'[g].key \in DefaultKeys,
             NEW k \in AttemptsOf(t), k[2] < job'[g].key[2]
      PROVE  attempt[k].number < job'[g].number
  <2>1. CASE g = h
    BY <1>6, <1>7, <1>8, <2>1
  <2>2. CASE g # h
    BY <1>1, <1>7, <1>8, <2>2 DEF NumbersGrow
  <2> QED
    BY <2>1, <2>2
<1>9. \A t \in Targets \ custom :
        \A k, l \in AttemptsOf(t) : k[2] < l[2] => attempt[k].number < attempt[l].number
  BY <1>1 DEF NumbersGrow
<1> QED
  BY <1>2, <1>3, <1>8, <1>9 DEF NumbersGrow

(* A key that is free, and that a request counted its way to, comes after   *)
(* all the keys of its target that have a row, and no request that is about *)
(* to insert has a key behind it.                                           *)
LEMMA LastOfItsTarget ==
  ASSUME Fitting, Posting, NEW h \in Handlers, at[h] \in Reserving,
         job[h].key \in Keys, attempt[job[h].key] = None,
         job[h].target \notin custom, job[h].key \in DefaultKeys
  PROVE  /\ job[h].key[2] \in Nat
         /\ \A k \in AttemptsOf(job[h].target) : k[2] \in Nat /\ k[2] < job[h].key[2]
         /\ \A g \in Handlers :
              at[g] \in Reserving /\ job[g].target = job[h].target /\ job[g].key \in DefaultKeys =>
                job[g].key[2] \in Nat /\ job[g].key[2] <= job[h].key[2]
<1>1. PICK t, key : t = job[h].target /\ key = job[h].key
  OBVIOUS
<1>2. t \in Targets \ custom
  BY <1>1, PublisherFits
<1>3. PICK n \in Nat : n = Cardinality(WithStatus(t, "FAILED"))
  BY <1>2, StatusesAreFinite DEF Posting
<1>4. WithStatus(t, "FAILED") = FirstKeys(t, n) /\ AttemptsOf(t) \subseteq FirstKeys(t, n + 1)
  BY <1>2, <1>3 DEF Posting, AttemptsAreInOrder
<1>5. key[1] = t /\ key[2] <= n + 1
  BY <1>1, <1>2, <1>3 DEF Posting, PublishKnows
<1>6. key = <<key[1], key[2]>> /\ key[2] \in Nat \ {0}
  BY <1>1, BoundsAssumption DEF DefaultKeys
<1>7. key \notin FirstKeys(t, n)
  BY <1>1, <1>4 DEF WithStatus, AttemptsOf
<1>8. key[2] = n + 1
  BY <1>5, <1>6, <1>7 DEF FirstKeys
<1>9. ASSUME NEW k \in AttemptsOf(t)
      PROVE  k[2] \in Nat /\ k[2] < key[2]
  <2>1. PICK i \in 1 .. n + 1 : k = <<t, i>>
    BY <1>4 DEF FirstKeys
  <2>2. k # key
    BY <1>1 DEF AttemptsOf
  <2>3. i # n + 1
    BY <1>5, <1>6, <1>8, <2>1, <2>2
  <2> QED
    BY <1>8, <2>1, <2>3
<1>10. ASSUME NEW g \in Handlers, at[g] \in Reserving, job[g].target = t, job[g].key \in DefaultKeys
       PROVE  job[g].key[2] \in Nat /\ job[g].key[2] <= key[2]
  <2>1. job[g].key[2] \in Nat
    BY <1>10, BoundsAssumption DEF DefaultKeys
  <2>2. job[g].key[2] <= n + 1
    BY <1>2, <1>3, <1>10 DEF Posting, PublishKnows
  <2> QED
    BY <1>8, <2>1, <2>2
<1> QED
  BY <1>1, <1>6, <1>9, <1>10

(* The keys before the one a request counted its way to all failed, so no   *)
(* row can be inserted under them any more, and none is above its own: the  *)
(* number it read is still the greatest.                                    *)
LEMMA ReserveKeepsNumbers ==
  ASSUME Inv, NEW h \in Handlers, Reserve(h)
  PROVE  NumbersGrow'
<1>1. Fitting /\ JobsOK /\ PublishingOK /\ Posting /\ NumbersGrow /\ at[h] = "insert"
  BY DEF Inv, Fitting, TypeOK, Reserve
<1>2. PICK i, key, u : i = job[h] /\ key = i.key /\ u = i.target
  OBVIOUS
<1>3. /\ i \in Jobs /\ key \in Keys /\ u \in Targets
      /\ custom' = IF key \in ClientKeys THEN custom \cup {u} ELSE custom
  BY <1>1, <1>2, PublisherFits DEF Reserve, Reserving
<1>4. \A g \in Handlers : at'[g] = "insert" => g # h /\ at[g] = "insert" /\ job'[g] = job[g]
  BY <1>1 DEF Reserve, Go, JobsOK
<1>5. CASE attempt[key] # None
  <2>1. attempt' = attempt
    BY <1>2, <1>5 DEF Reserve, Inserted
  <2> QED
    BY <1>1, <1>3, <1>4, <2>1, NumbersFrame
<1>6. CASE attempt[key] = None
  <2>1. /\ attempt'[key] # None /\ attempt'[key].target = u /\ attempt'[key].number = i.number
        /\ \A k \in Keys \ {key} : attempt'[k] = attempt[k]
    <3>1. NewAttempt(i).target = u /\ NewAttempt(i).number = i.number
      BY <1>2 DEF NewAttempt
    <3>2. NewAttempt(i) \in Attempts
      BY <1>1, <1>2, <1>3 DEF NewAttempt, Attempts, Jobs, Fitting, JobFits
    <3>3. attempt' = [attempt EXCEPT ![key] = NewAttempt(i)]
      BY <1>2, <1>6 DEF Reserve, Inserted
    <3> QED
      BY <1>1, <1>3, <3>1, <3>2, <3>3, NamesAssumption DEF PublishingOK
  <2>2. /\ \A t : key \notin AttemptsOf(t)
        /\ \A t : \A k \in AttemptsOf(t)' \ {key} :
             k \in AttemptsOf(t) /\ attempt'[k].number = attempt[k].number
        /\ \A t : key \in AttemptsOf(t)' => t = u
    BY <1>6, <2>1 DEF AttemptsOf
  <2>3. ASSUME NEW t \in Targets \ custom'
        PROVE  \A k, l \in AttemptsOf(t)' : k[2] < l[2] => attempt'[k].number < attempt'[l].number
    <3>1. t \in Targets \ custom
      BY <1>3
    <3>2. \A k, l \in AttemptsOf(t) : k[2] < l[2] => attempt[k].number < attempt[l].number
      BY <1>1, <3>1 DEF NumbersGrow
    <3>3. CASE t # u
      BY <2>2, <3>2, <3>3
    <3>4. CASE t = u
      <4>1. key \in DefaultKeys
        BY <1>3, <2>3, <3>4 DEF Keys
      <4>2. /\ key[2] \in Nat
            /\ \A k \in AttemptsOf(t) : k[2] \in Nat /\ k[2] < key[2]
        BY <1>1, <1>2, <1>6, <3>1, <3>4, <4>1, LastOfItsTarget DEF Reserving, Keys
      <4>3. \A k \in AttemptsOf(t) : attempt[k].number < i.number
        BY <1>1, <1>2, <3>1, <3>4, <4>1, <4>2 DEF NumbersGrow
      <4> QED
        BY <2>1, <2>2, <3>2, <3>4, <4>2, <4>3
    <3> QED
      BY <3>3, <3>4
  <2>4. ASSUME NEW t \in Targets \ custom', NEW g \in Handlers,
               at'[g] = "insert", job'[g].target = t, job'[g].key \in DefaultKeys,
               NEW k \in AttemptsOf(t)', k[2] < job'[g].key[2]
        PROVE  attempt'[k].number < job'[g].number
    <3>1. t \in Targets \ custom /\ at[g] = "insert" /\ job'[g] = job[g]
      BY <1>3, <1>4, <2>4
    <3>2. CASE k # key
      BY <1>1, <2>2, <2>4, <3>1, <3>2 DEF NumbersGrow
    <3>3. CASE k = key
      <4>1. t = u /\ key \in DefaultKeys
        BY <1>3, <2>2, <2>4, <3>3 DEF Keys
      <4>2. job[g].key[2] <= key[2] /\ job[g].key[2] \in Nat /\ key[2] \in Nat
        BY <1>1, <1>2, <1>6, <2>4, <3>1, <4>1, LastOfItsTarget DEF Reserving, Keys
      <4> QED
        BY <2>4, <3>1, <3>3, <4>2
    <3> QED
      BY <3>2, <3>3
  <2> QED
    BY <2>3, <2>4 DEF NumbersGrow
<1> QED
  BY <1>5, <1>6

LEMMA NumbersKept ==
  ASSUME Inv, [Next]_vars
  PROVE  NumbersGrow'
<1>1. Fitting /\ JobsOK /\ PublishingOK /\ NumbersGrow
  BY DEF Inv, Fitting, TypeOK
<1>2. ASSUME NEW h \in Handlers, ReadMax(h) \/ Reserve(h)
      PROVE  NumbersGrow'
  BY <1>2, ReadMaxKeepsNumbers, ReserveKeepsNumbers
<1>3. ASSUME NEW h \in Handlers, TurnBegin(h) \/ PublishBegin(h) \/ Turn(h) \/ CountFailed(h)
                                  \/ Inspect(h) \/ Call(h) \/ Abort(h)
      PROVE  NumbersGrow'
  <2>1. UNCHANGED <<attempt, custom>>
    BY <1>3 DEF TurnBegin, PublishBegin, Turn, ReadReplay, Classify, WriteDraft, NextSequence,
                RecordTurn, CountFailed, Inspect, Call, Abort, publishing, history
  <2>2. \A g \in Handlers \ {h} : at'[g] = at[g] /\ job'[g] = job[g]
    <3>1. /\ \E label : at' = [at EXCEPT ![h] = label]
          /\ job' = job \/ \E j : job' = [job EXCEPT ![h] = j]
      <4>1. CASE TurnBegin(h) \/ Turn(h)
        BY <1>1, <4>1, TurnMoves DEF MovesTo
      <4>2. CASE ~(TurnBegin(h) \/ Turn(h))
        BY <1>1, <1>3, <4>2 DEF PublishBegin, CountFailed, Inspect, Call, Abort, End, Go, JobsOK
      <4> QED
        BY <4>1, <4>2
    <3> QED
      BY <1>1, <3>1 DEF JobsOK
  <2>3. at'[h] # "insert"
    <3>1. CASE TurnBegin(h) \/ Turn(h)
      BY <1>1, <3>1, TurnMoves DEF MovesTo, JobsOK, TurnLabels
    <3>2. CASE ~(TurnBegin(h) \/ Turn(h))
      BY <1>1, <1>3, <3>2 DEF PublishBegin, CountFailed, Inspect, Call, Abort, End, Go, JobsOK
    <3> QED
      BY <3>1, <3>2
  <2> QED
    BY <1>1, <2>1, <2>2, <2>3, NumbersFrame
<1>4. ASSUME NEW h \in Handlers, Complete(h) \/ Fail(h) \/ Release(h)
      PROVE  NumbersGrow'
  <2>1. UNCHANGED custom /\ End(h)
    BY <1>4 DEF Complete, Fail, Release, history
  <2>2. \A g \in Handlers : at'[g] = "insert" => at[g] = "insert" /\ job'[g] = job[g]
    BY <1>1, <2>1 DEF End, Go, JobsOK
  <2>3. PICK key \in Keys : key = job[h].key
    BY <1>1, <1>4, PublisherFits DEF Complete, Fail, Release, Holding
  <2>4. \A k \in Keys : attempt'[k] # None =>
          /\ attempt[k] # None /\ attempt'[k].target = attempt[k].target
          /\ attempt'[k].number = attempt[k].number
    <3>1. CASE UNCHANGED attempt
      BY <3>1
    <3>2. CASE ~UNCHANGED attempt
      <4>1. attempt[key] \in Attempts
        BY <1>1, <1>4, <2>3, <3>2 DEF Complete, Fail, Release, IsRequested, PublishingOK
      <4>2. CASE Complete(h)
        <5>1. attempt' = [attempt EXCEPT ![key] = [attempt[key] EXCEPT !.status = "SUCCEEDED"]]
          BY <1>1, <2>3, <3>2, <4>2 DEF Complete, PublishingOK
        <5> QED
          BY <1>1, <4>1, <5>1, NamesAssumption DEF PublishingOK, Attempts
      <4>3. CASE Fail(h)
        <5>1. attempt' = [attempt EXCEPT ![key] = [attempt[key] EXCEPT !.status = "FAILED"]]
          BY <1>1, <2>3, <3>2, <4>3 DEF Fail, PublishingOK
        <5> QED
          BY <1>1, <4>1, <5>1, NamesAssumption DEF PublishingOK, Attempts
      <4>4. CASE Release(h)
        BY <1>1, <2>3, <3>2, <4>4 DEF Release, PublishingOK
      <4> QED
        BY <1>4, <4>2, <4>3, <4>4
    <3> QED
      BY <3>1, <3>2
  <2> QED
    BY <1>1, <2>1, <2>2, <2>4, NumbersFrame
<1>5. CASE UNCHANGED vars
  <2>1. UNCHANGED <<attempt, custom, at, job>>
    BY <1>5 DEF vars, publishing, history
  <2> QED
    BY <1>1, <2>1, NumbersFrame
<1> QED
  BY <1>2, <1>3, <1>4, <1>5 DEF Next, Step, Publish

-----------------------------------------------------------------------------
(* What follows. *)

(* Without a client's own keys a target's attempts are its failures and at  *)
(* most one more, so at most one post is not accounted for as lost.         *)
LEMMA OnePostFollows ==
  ASSUME Inv
  PROVE  OnePost
<1> USE DEF Inv
<1>1. Fitting /\ Posting /\ PublishingOK /\ NumbersGrow
  BY DEF Fitting, TypeOK
<1>2. ASSUME NEW t \in Targets \ custom
      PROVE  /\ posted[t] <= 1 + lost[t]
             /\ Cardinality(WithStatus(t, "REQUESTED")) <= 1
             /\ Cardinality(WithStatus(t, "FAILED")) <= FailureLimit
             /\ \A k, l \in AttemptsOf(t) : attempt[k].number = attempt[l].number => k = l
  <2>1. PICK n \in Nat : n = Cardinality(WithStatus(t, "FAILED"))
    BY <1>1, StatusesAreFinite DEF Posting
  <2>2. WithStatus(t, "FAILED") = FirstKeys(t, n) /\ AttemptsOf(t) \subseteq FirstKeys(t, n + 1)
    BY <1>1, <2>1 DEF Posting, AttemptsAreInOrder
  <2>3. ASSUME NEW k \in AttemptsOf(t), attempt[k].status # "FAILED"
        PROVE  k = <<t, n + 1>>
    <3>1. k \in FirstKeys(t, n + 1) /\ k \notin FirstKeys(t, n)
      BY <2>2, <2>3 DEF WithStatus
    <3>2. PICK i \in 1 .. n + 1 : k = <<t, i>>
      BY <3>1 DEF FirstKeys
    <3>3. i \notin 1 .. n
      BY <3>1, <3>2 DEF FirstKeys
    <3> QED
      BY <3>2, <3>3
  <2>4. Cardinality(WithStatus(t, "REQUESTED")) <= 1
    <3>1. \A k, l \in WithStatus(t, "REQUESTED") : k = l
      BY <2>3 DEF WithStatus
    <3> QED
      BY <3>1, AtMostOne
  <2>5. Cardinality(WithStatus(t, "FAILED")) <= FailureLimit
    <3>1. CASE n = 0
      BY <2>1, <3>1, BoundsAssumption
    <3>2. CASE n # 0
      <4>1. <<t, n>> \in WithStatus(t, "FAILED")
        BY <2>2, <3>2 DEF FirstKeys
      <4>2. <<t, n>> \in Keys /\ attempt[<<t, n>>] # None /\ attempt[<<t, n>>].target = t
        BY <4>1 DEF WithStatus, AttemptsOf
      <4>3. <<t, n>> \notin ClientKeys
        BY <1>1, <4>2 DEF Posting, AttemptsAreInOrder
      <4>4. n \in 1 .. FailureLimit
        BY <4>2, <4>3 DEF Keys, DefaultKeys
      <4> QED
        BY <2>1, <4>4, BoundsAssumption
    <3> QED
      BY <3>1, <3>2
  <2>6. ASSUME NEW h \in Completing(t)
        PROVE  /\ h \in Holders(<<t, n + 1>>) /\ attempt[<<t, n + 1>>].status = "REQUESTED"
    <3>1. h \in Handlers /\ at[h] = "complete" /\ job[h].target = t
      BY DEF Completing
    <3>2. job[h].inserted /\ at[h] \in Holding
      BY <1>1, <3>1 DEF Fitting, JobFits, Holding
    <3>3. /\ job[h].key \in Keys /\ attempt[job[h].key] # None
          /\ attempt[job[h].key].target = t /\ attempt[job[h].key].status = "REQUESTED"
      BY <1>1, <3>1, <3>2, HeldAlone
    <3>4. job[h].key = <<t, n + 1>>
      BY <2>3, <3>3 DEF AttemptsOf
    <3> QED
      BY <3>1, <3>2, <3>3, <3>4 DEF Holders, Holds
  <2>7. Cardinality(Completing(t)) \in {0, 1}
    <3>1. ASSUME NEW g \in Completing(t), NEW h \in Completing(t) PROVE g = h
      <4>1. <<t, n + 1>> \in Keys
        <5>1. job[g].key \in Keys /\ at[g] = "complete" /\ g \in Handlers
          BY <1>1, PublisherFits DEF Completing, Holding
        <5> QED
          BY <2>6, <5>1 DEF Holders, Holds
      <4>2. IsFiniteSet(Holders(<<t, n + 1>>)) /\ Cardinality(Holders(<<t, n + 1>>)) <= 1
        BY <1>1, <4>1, HandlersAreFinite DEF Posting, ReservedIsHeld
      <4> QED
        BY <2>6, <4>2, AtMostOneConversely
    <3> QED
      BY <3>1, AtMostOne
  <2>8. Cardinality(WithStatus(t, "SUCCEEDED")) \in {0, 1}
    <3>1. \A k, l \in WithStatus(t, "SUCCEEDED") : k = l
      BY <2>3 DEF WithStatus
    <3> QED
      BY <3>1, AtMostOne
  <2>9. Completing(t) # {} => WithStatus(t, "SUCCEEDED") = {}
    <3>1. SUFFICES ASSUME NEW h \in Completing(t), NEW k \in WithStatus(t, "SUCCEEDED")
                   PROVE  FALSE
      OBVIOUS
    <3>2. k = <<t, n + 1>> /\ attempt[k].status = "SUCCEEDED"
      BY <2>3 DEF WithStatus
    <3> QED
      BY <2>6, <3>2
  <2>10. posted[t] <= 1 + lost[t]
    <3>1. /\ posted[t] = Cardinality(WithStatus(t, "SUCCEEDED")) + lost[t]
                         + Cardinality(Completing(t))
          /\ posted[t] \in Nat /\ lost[t] \in Nat
      BY <1>1 DEF Posting, PostsAreRecorded, PublishingOK
    <3>2. CASE Completing(t) = {}
      BY <2>8, <3>1, <3>2, FS_EmptySet
    <3>3. CASE Completing(t) # {}
      BY <2>7, <2>9, <3>1, <3>3, FS_EmptySet
    <3> QED
      BY <3>2, <3>3
  <2>11. ASSUME NEW k \in AttemptsOf(t), NEW l \in AttemptsOf(t),
                attempt[k].number = attempt[l].number
         PROVE  k = l
    <3>1. PICK i \in 1 .. n + 1, m \in 1 .. n + 1 : k = <<t, i>> /\ l = <<t, m>>
      BY <2>2 DEF FirstKeys
    <3>2. /\ i < m => attempt[k].number < attempt[l].number
          /\ m < i => attempt[l].number < attempt[k].number
      BY <1>1, <1>2, <3>1 DEF NumbersGrow
    <3>3. attempt[k].number \in Nat /\ attempt[l].number \in Nat
      BY <1>1 DEF PublishingOK, Attempts, AttemptsOf
    <3>4. i = m
      BY <2>11, <3>2, <3>3
    <3> QED
      BY <3>1, <3>4
  <2> QED
    BY <2>4, <2>5, <2>10, <2>11
<1> QED
  BY <1>2 DEF OnePost

LEMMA InvInitially == Init => Inv
<1>1. Init => NumbersGrow
  BY DEF Init, NumbersGrow, AttemptsOf
<1> QED
  BY <1>1, FittingInitially, TurningInitially, PostingInitially DEF Inv

LEMMA InvKept == Inv /\ [Next]_vars => Inv'
BY FittingKept, TurningKept, PostingKept, NumbersKept DEF Inv

(* Every variable keeps its type, and a request is idle exactly when it has *)
(* no locals.                                                               *)
THEOREM TypeCorrect == Spec => []TypeOK
<1>1. Inv => TypeOK
  BY DEF Inv, Fitting
<1> QED
  BY <1>1, InvInitially, InvKept, PTL DEF Spec

(* A session's transcript is whole turns, answered once, and its memory     *)
(* stands on it; a draft is posted once for each platform and once more for *)
(* each answer that was lost, every post is on record, what is on record is *)
(* counted, and what is in flight is held by one living request: whatever   *)
(* number of requests race, repeat and die (posting-conversation.ts and     *)
(* publish-post-draft.ts).                                                  *)
THEOREM PostingStaysSound == Spec => []PostingIsSound
<1>1. Inv => PostingIsSound
  BY OnePostFollows DEF Inv, Fitting, Turning, Posting, JobsAreKnown, PostingIsSound
<1> QED
  BY <1>1, InvInitially, InvKept, PTL DEF Spec

(* No request fails, releases, renumbers or overwrites an attempt that      *)
(* succeeded (ON CONFLICT DO NOTHING, and WHERE status = 'REQUESTED').      *)
LEMMA SucceededStays ==
  ASSUME Inv, [Next]_vars, NEW k \in Keys, attempt[k] # None, attempt[k].status = "SUCCEEDED"
  PROVE  attempt'[k] = attempt[k]
<1>1. Fitting /\ PublishingOK
  BY DEF Inv, Fitting, TypeOK
<1>2. CASE UNCHANGED attempt
  BY <1>2
<1>3. ASSUME NEW h \in Handlers, Reserve(h)
      PROVE  attempt'[k] = attempt[k]
  BY <1>1, <1>3 DEF Reserve, Inserted, PublishingOK
<1>4. ASSUME NEW h \in Handlers, Complete(h) \/ Fail(h) \/ Release(h), ~UNCHANGED attempt
      PROVE  attempt'[k] = attempt[k]
  <2>1. PICK key \in Keys : key = job[h].key
    BY <1>1, <1>4, PublisherFits DEF Complete, Fail, Release, Holding
  <2>2. attempt[key].status = "REQUESTED"
    BY <1>4, <2>1 DEF Complete, Fail, Release, IsRequested
  <2>3. k # key
    BY <2>2
  <2>4. CASE Release(h)
    BY <1>1, <1>4, <2>1, <2>3, <2>4 DEF Release, PublishingOK
  <2>5. CASE Complete(h)
    BY <1>1, <1>4, <2>1, <2>3, <2>5 DEF Complete, PublishingOK
  <2>6. CASE Fail(h)
    BY <1>1, <1>4, <2>1, <2>3, <2>6 DEF Fail, PublishingOK
  <2> QED
    BY <1>4, <2>4, <2>5, <2>6
<1>5. ASSUME ~UNCHANGED attempt
      PROVE  \E h \in Handlers : Reserve(h) \/ Complete(h) \/ Fail(h) \/ Release(h)
  BY <1>5 DEF Next, vars, publishing, TurnBegin, PublishBegin, Step, Turn, Publish, ReadReplay,
              Classify, WriteDraft, NextSequence, RecordTurn, CountFailed, ReadMax, Inspect, Call,
              Abort
<1> QED
  BY <1>2, <1>3, <1>4, <1>5

THEOREM SucceededIsFinalEver == Spec => SucceededIsFinal
<1>1. Inv /\ [Next]_vars =>
        [\A k \in Keys : attempt[k] # None /\ attempt[k].status = "SUCCEEDED" =>
           attempt'[k] = attempt[k]]_vars
  BY SucceededStays
<1> QED
  BY <1>1, InvInitially, InvKept, PTL DEF Spec, SucceededIsFinal

===============================================================================
