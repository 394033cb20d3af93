----------------------------- MODULE CsChatProofs -----------------------------
(***************************************************************************)
(* The safety properties of CsChat for every number of requests, polls,     *)
(* page sizes, ticks and crashes.                                          *)
(***************************************************************************)
EXTENDS CsInvariant, CsRefinement, FiniteSetTheorems, TLAPS

(* The threads' messages are messages, and no two threads write the same.   *)
LEMMA Authors ==
  /\ \A w \in Writers : MessageOf(w) \in Messages \ AiSays
  /\ \A p \in Posts : /\ <<"ai", p>> \in AiSays
                      /\ <<"owner", p>> \in Messages \ AiSays
                      /\ MessageOf(p) = <<"owner", p>>
  /\ \A o \in Operators : <<"admin", o>> \in Messages \ AiSays
  /\ AiSays \subseteq Messages
  BY DEF MessageOf, Messages, Writers, OwnerSays, AiSays, AdminSays

(* A row is written with the conversation and the stamp of its thread.      *)
LEMMA RowsTyped ==
  ASSUME TypeOK, ChatKnowledge, Next
  PROVE  RowsOK'
<1> USE DEF ChatKnowledge, End, GoTo, RowsOK, TypeOK, conversations, history,
            locals, messages, screens, threads
<1>1. ASSUME NEW w \in Writers, OpenInsert(w) PROVE RowsOK'
  BY <1>1 DEF OpenInsert, Convs
<1>2. ASSUME NEW w \in Writers, Append(w) PROVE RowsOK'
  BY <1>2, Authors
  DEF Append, Ended, NoteIfBehind, Rows, Threads, ThreadsKnow, ThreadsOK,
      Write
<1>3. ASSUME NEW p \in Posts, SendAnswer(p) PROVE RowsOK'
  BY <1>3, Authors
  DEF SendAnswer, Ended, NoteIfBehind, Rows, Threads, ThreadsKnow, ThreadsOK,
      Write, Writers
<1>4. ASSUME NEW p \in Posts, DiscardPendingDrafts(p) PROVE RowsOK'
  BY <1>4 DEF DiscardPendingDrafts
<1>5. ASSUME NEW p \in Posts, WriteDraft(p) PROVE RowsOK'
  BY <1>5, Authors
  DEF WriteDraft, Ended, NoteIfBehind, Rows, Threads, ThreadsKnow, ThreadsOK,
      Write, Writers
<1>6. ASSUME NEW p \in Posts, ClearFlag(p) PROVE RowsOK'
  BY <1>6 DEF ClearFlag
<1>7. ASSUME NEW p \in Posts, RaiseFlag(p) PROVE RowsOK'
  BY <1>7 DEF RaiseFlag, Flag
<1>8. ASSUME NEW o \in Operators, ReplyWrite(o) PROVE RowsOK'
  BY <1>8, Authors
  DEF ReplyWrite, Ended, NoteIfBehind, Rows, Threads, ThreadsKnow, ThreadsOK,
      Write
<1>9. ASSUME NEW o \in Operators, SendDraft(o) PROVE RowsOK'
  BY <1>9, Authors
  DEF SendDraft, Ended, NoteIfBehind, PromotedAt, Rows, Threads, ThreadsKnow,
      ThreadsOK, Write
<1>10. ASSUME NEW o \in Operators, DiscardDraft(o) PROVE RowsOK'
  BY <1>10 DEF DiscardDraft
<1>11. ASSUME NEW o \in Operators, MarkAdminRead(o) PROVE RowsOK'
  BY <1>11 DEF MarkAdminRead, MarkOwnerMessages, Messages
<1>12. ASSUME NEW c \in Convs, Resolve(c) PROVE RowsOK'
  BY <1>12 DEF Resolve
<1>13. ASSUME NEW c \in Convs, NEW m \in Switches, SetMode(c, m) PROVE RowsOK'
  BY <1>13, NamesAssumption DEF SetMode
<1>14. ASSUME NEW s \in Polls, PollMark(s) PROVE RowsOK'
  BY <1>14 DEF PollMark, MarkOwnerMessages, Messages
<1>15. ASSUME NEW w \in Writers,
            OpenRead(w) \/ OpenRefused(w)
      PROVE  RowsOK'
  BY <1>15 DEF OpenRead, OpenRefused, Stamp
<1>16. ASSUME NEW p \in Posts,
            Respond(p) \/ ComposeRead(p)
      PROVE  RowsOK'
  BY <1>16 DEF ComposeRead, Respond, Stamp
<1>17. ASSUME NEW o \in Operators,
            ReplyRead(o) \/ PickDraft(o) \/ DraftRead(o) \/ DraftGone(o)
      PROVE  RowsOK'
  BY <1>17 DEF DraftGone, DraftRead, PickDraft, ReplyRead, Stamp
<1>18. ASSUME NEW c \in Convs,
            Select(c)
      PROVE  RowsOK'
  BY <1>18 DEF Select
<1>19. ASSUME NEW s \in Polls,
            PollAsk(s) \/ PollList(s) \/ PollDeliver(s) \/ PollLost(s)
      PROVE  RowsOK'
  BY <1>19 DEF PollAsk, PollDeliver, PollList, PollLost
<1>20. ASSUME NEW t \in Threads,
            Crash(t)
      PROVE  RowsOK'
  BY <1>20 DEF Crash
<1>21. CASE Tick
  BY <1>21 DEF Tick
<1> QED
  BY <1>1, <1>2, <1>3, <1>4, <1>5, <1>6, <1>7, <1>8, <1>9, <1>10,
     <1>11,
     <1>12, <1>13, <1>14, <1>15, <1>16, <1>17, <1>18, <1>19, <1>20, <1>21
  DEF ComposeStep, Next, OperatorStep, PollStep, WriterStep

(* An invocation that ends forgets its locals.                             *)
LEMMA EndTyped ==
  ASSUME ThreadsOK, NEW t \in Threads, NEW label \in Ended, End(t, label)
  PROVE  ThreadsOK'
<1>1. label \in Labels
  BY DEF Labels
<1>2. 0 \in Stamps
  BY BoundsAssumption DEF Stamps
<1>3. pc' \in [Threads -> Labels]
  BY <1>1 DEF End, GoTo, ThreadsOK
<1>4. now' \in [Threads -> Stamps]
  BY <1>2 DEF End, ThreadsOK
<1>5. heard' \in [Threads -> Modes \cup {None}]
  BY DEF End, ThreadsOK
<1>6. stance' \in [Threads -> Modes \cup {None}]
  BY DEF End, ThreadsOK
<1>7. target' \in [Threads -> Messages \cup {None}]
  BY DEF End, ThreadsOK
<1>8. chat' \in [Threads -> Convs \cup {None}]
  BY DEF End, ThreadsOK
<1> QED
  BY <1>3, <1>4, <1>5, <1>6, <1>7, <1>8 DEF ThreadsOK

(* A thread's locals are stamps, conversations, modes and rows.             *)
LEMMA ThreadsTyped ==
  ASSUME TypeOK, ChatKnowledge, Next
  PROVE  ThreadsOK'
<1> USE EndTyped
        DEF End, Ended, GoTo, Labels, Threads, ThreadsOK, TypeOK, Writers,
            conversations, history, locals, messages, screens, threads
<1>1. ASSUME NEW w \in Writers, OpenRead(w) PROVE ThreadsOK'
  BY <1>1 DEF OpenRead, HistoryOK, OpenConvs, RowsOK, Stamp, Stamps
<1>2. ASSUME NEW w \in Writers, OpenInsert(w) PROVE ThreadsOK'
  BY <1>2 DEF OpenInsert, Convs, Modes
<1>3. ASSUME NEW w \in Writers, OpenRefused(w) PROVE ThreadsOK'
  BY <1>3 DEF OpenRefused
<1>4. ASSUME NEW w \in Writers, Append(w) PROVE ThreadsOK'
  <2>1. CASE End(w, "done")
    BY <2>1, EndTyped DEF Ended, Threads, TypeOK
  <2>2. CASE GoTo(w, "respond") /\ UNCHANGED locals
    BY <2>2 DEF GoTo, Labels, Threads, ThreadsOK, TypeOK, locals
  <2> QED
    BY <1>4, <2>1, <2>2 DEF Append
<1>5. ASSUME NEW p \in Posts, Respond(p) PROVE ThreadsOK'
  <2>1. CASE End(p, "done")
    BY <2>1, EndTyped DEF Ended, Threads, TypeOK, Writers
  <2>2. CASE GoTo(p, "compose") /\ UNCHANGED locals
    BY <2>2 DEF GoTo, Labels, Threads, ThreadsOK, TypeOK, Writers, locals
  <2> QED
    BY <1>5, <2>1, <2>2 DEF Respond
<1>6. ASSUME NEW p \in Posts, ComposeRead(p) PROVE ThreadsOK'
  <2>1. CASE End(p, "done")
    BY <2>1, EndTyped DEF Ended, Threads, TypeOK, Writers
  <2>2. CASE ~End(p, "done")
    <3>1. p \in Threads /\ chat[p] \in Convs
      BY <1>6
      DEF ComposeRead, ChatKnowledge, Ended, Threads, ThreadsKnow, Writers
    <3>2. clock \in Stamps /\ mode[chat[p]] \in Modes
      BY <3>1 DEF HistoryOK, RowsOK, Stamps, TypeOK
    <3> QED
      BY <1>6, <2>2, <3>1, <3>2
      DEF ComposeRead, GoTo, Labels, Stamp, ThreadsOK, TypeOK
  <2> QED
    BY <2>1, <2>2
<1>7. ASSUME NEW p \in Posts, SendAnswer(p) PROVE ThreadsOK'
  BY <1>7 DEF SendAnswer, NoteIfBehind, Write
<1>8. ASSUME NEW p \in Posts, DiscardPendingDrafts(p) PROVE ThreadsOK'
  BY <1>8 DEF DiscardPendingDrafts
<1>9. ASSUME NEW p \in Posts, WriteDraft(p) PROVE ThreadsOK'
  BY <1>9 DEF WriteDraft, NoteIfBehind, Write
<1>10. ASSUME NEW p \in Posts, ClearFlag(p) PROVE ThreadsOK'
  BY <1>10 DEF ClearFlag
<1>11. ASSUME NEW p \in Posts, RaiseFlag(p) PROVE ThreadsOK'
  BY <1>11 DEF RaiseFlag, Flag
<1>12. ASSUME NEW o \in Operators, ReplyRead(o) PROVE ThreadsOK'
  <2>1. PICK c \in Convs : chat' = [chat EXCEPT ![o] = c]
    BY <1>12 DEF OpenConvs, ReplyRead
  <2>2. clock \in Stamps
    BY DEF HistoryOK, Stamps
  <2> QED
    BY <1>12, <2>1, <2>2 DEF ReplyRead, Stamp
<1>13. ASSUME NEW o \in Operators, ReplyWrite(o) PROVE ThreadsOK'
  BY <1>13 DEF ReplyWrite, NoteIfBehind, Write
<1>14. ASSUME NEW o \in Operators, PickDraft(o) PROVE ThreadsOK'
  <2>1. PICK c \in Convs : \E m \in Last(Drafts(c)) :
          /\ chat' = [chat EXCEPT ![o] = c]
          /\ target' = [target EXCEPT ![o] = m]
    BY <1>14 DEF PickDraft
  <2>2. PICK m \in Last(Drafts(c)) : target' = [target EXCEPT ![o] = m]
    BY <2>1
  <2>3. m \in Messages
    BY DEF Drafts, Last
  <2>4. chat' \in [Threads -> Convs \cup {None}]
    BY <1>14, <2>1 DEF Threads
  <2>5. target' \in [Threads -> Messages \cup {None}]
    BY <1>14, <2>2, <2>3 DEF Threads
  <2>6. pc' \in [Threads -> Labels]
    BY <1>14 DEF PickDraft
  <2> QED
    BY <1>14, <2>4, <2>5, <2>6 DEF PickDraft
<1>24. ASSUME NEW o \in Operators, DraftRead(o) PROVE ThreadsOK'
  <2>1. clock \in Stamps
    BY DEF HistoryOK, Stamps
  <2> QED
    BY <1>24, <2>1 DEF DraftRead, Stamp
<1>15. ASSUME NEW o \in Operators, SendDraft(o) PROVE ThreadsOK'
  BY <1>15 DEF SendDraft, NoteIfBehind, Write
<1>16. ASSUME NEW o \in Operators, DiscardDraft(o) PROVE ThreadsOK'
  BY <1>16 DEF DiscardDraft
<1>17. ASSUME NEW o \in Operators, DraftGone(o) PROVE ThreadsOK'
  BY <1>17 DEF DraftGone
<1>18. ASSUME NEW o \in Operators, MarkAdminRead(o) PROVE ThreadsOK'
  BY <1>18 DEF MarkAdminRead, MarkOwnerMessages
<1>19. ASSUME NEW t \in Threads, Crash(t) PROVE ThreadsOK'
  BY <1>19 DEF Crash
<1>20. ASSUME NEW c \in Convs,
            Resolve(c) \/ Select(c)
      PROVE  ThreadsOK'
  BY <1>20 DEF Resolve, Select
<1>21. ASSUME NEW c \in Convs, NEW m \in Switches,
            SetMode(c, m)
      PROVE  ThreadsOK'
  BY <1>21 DEF SetMode
<1>22. ASSUME NEW s \in Polls,
            PollAsk(s) \/ PollList(s) \/ PollMark(s) \/ PollDeliver(s)
            \/ PollLost(s)
      PROVE  ThreadsOK'
  BY <1>22
  DEF PollAsk, PollDeliver, PollList, PollLost, PollMark, MarkOwnerMessages
<1>23. CASE Tick
  BY <1>23 DEF Tick
<1> QED
  BY <1>1, <1>2, <1>3, <1>4, <1>5, <1>6, <1>7, <1>8, <1>9, <1>10,
     <1>11,
     <1>12, <1>13, <1>14, <1>24, <1>15, <1>16, <1>17, <1>18, <1>19, <1>20,
     <1>21,
     <1>22, <1>23
  DEF ComposeStep, Next, OperatorStep, PollStep, WriterStep

(* Every row has a place in the order, and so has the empty cursor.         *)
LEMMA Places ==
  ASSUME RowsOK
  PROVE  /\ Start \in Positions
         /\ \A m \in Messages : Exists(m) => Position(m) \in Positions
         /\ NoPoll \in PollStates
<1>1. Start \in Positions
  BY BoundsAssumption DEF Positions, Stamps, Start
<1>2. \A m \in Messages : Exists(m) => Position(m) \in Positions
  BY DEF Exists, Position, Positions, Rows, RowsOK
<1> QED
  BY <1>1, <1>2 DEF NoPoll, PollStates

(* A page is a part of the readable rows, and its last row is one of them.  *)
LEMMA PagesAreWaiting ==
  ASSUME NEW c, NEW after
  PROVE  /\ FirstPage(Waiting(c, after)) \subseteq Waiting(c, after)
         /\ \A m \in Waiting(c, after) : m \in Messages /\ IsSent(m)
         /\ \A S : Last(S) \subseteq S
  BY DEF FirstPage, Last, Listed, Waiting

(* A screen shows messages, and its cursor is a place in their order.       *)
LEMMA ScreensTyped ==
  ASSUME TypeOK, ChatKnowledge, Next
  PROVE  ScreensOK'
<1> USE DEF End, GoTo, ScreensOK, Stamp, TypeOK, conversations, history,
            locals, messages, screens, threads
<1>1. ASSUME NEW p \in Posts, Respond(p) PROVE ScreensOK'
  <2>1. <<"owner", p>> \in Messages /\ "widget" \in Readers
    BY Authors DEF Readers
  <2>2. screen' \in [Readers -> SUBSET Messages]
    BY <1>1, <2>1 DEF Respond, ScreensOK, TypeOK
  <2> QED
    BY <1>1, <2>2 DEF Respond, ScreensOK, TypeOK
<1>2. ASSUME NEW c \in Convs, Select(c) PROVE ScreensOK'
  <2>1. \A s \in Polls : /\ poll[s] \in PollStates
                         /\ [poll[s] EXCEPT !.stale = TRUE] \in PollStates
    BY DEF PollStates, ScreensOK, TypeOK
  <2>2. poll' \in [Polls -> PollStates]
    BY <1>2, <2>1 DEF Select
  <2> QED
    BY <1>2, <2>2, Places DEF Readers, ScreensOK, Select, TypeOK
<1>3. ASSUME NEW s \in Polls, PollAsk(s) PROVE ScreensOK'
  <2>1. PICK c \in (IF s \in OwnerPolls THEN OpenConvs ELSE {selected} \ {None}) :
          poll' = [poll EXCEPT ![s] =
                     [NoPoll EXCEPT !.pc = "asked", !.conv = c,
                                    !.after = cursor[Reader(s)]]]
    BY <1>3 DEF PollAsk
  <2>2. c \in Convs \cup {None} /\ Reader(s) \in Readers
    BY <2>1 DEF OpenConvs, Reader, Readers, ScreensOK, TypeOK
  <2>3. cursor[Reader(s)] \in Positions
    BY <2>2 DEF ScreensOK, TypeOK
  <2>4. [NoPoll EXCEPT !.pc = "asked", !.conv = c, !.after = cursor[Reader(s)]]
          \in PollStates
    BY <2>2, <2>3, Places DEF NoPoll, PollStates, TypeOK
  <2> QED
    BY <1>3, <2>1, <2>4 DEF PollAsk, ScreensOK, TypeOK
<1>4. ASSUME NEW s \in Polls, PollList(s) PROVE ScreensOK'
  <2> DEFINE page == FirstPage(Waiting(poll[s].conv, poll[s].after))
             tops == IF page = {} THEN {Start}
                     ELSE {Position(m) : m \in Last(page)}
  <2>1. PICK top \in tops :
          poll' = [poll EXCEPT ![s].pc = IF s \in OwnerPolls THEN "answered"
                                                             ELSE "listed",
                               ![s].page = page, ![s].top = top]
    BY <1>4 DEF PollList
  <2>2. page \in SUBSET Messages /\ \A m \in Last(page) : Exists(m) /\ m \in Messages
    BY PagesAreWaiting DEF IsSent
  <2>3. top \in Positions
    BY <2>1, <2>2, Places DEF TypeOK
  <2>4. poll' \in [Polls -> PollStates]
    <3> HIDE DEF page, tops
    <3> DEFINE label == IF s \in OwnerPolls THEN "answered" ELSE "listed"
               next == [poll[s] EXCEPT !.pc = label, !.page = page, !.top = top]
    <3>1. poll \in [Polls -> PollStates]
      BY DEF ScreensOK, TypeOK
    <3>2. next \in PollStates
      BY <3>1, <2>2, <2>3 DEF PollStates
    <3>3. poll' = [poll EXCEPT ![s] = next]
      BY <2>1
    <3> HIDE DEF next
    <3> QED
      BY <3>1, <3>2, <3>3
  <2> QED
    BY <1>4, <2>4 DEF PollList, ScreensOK, TypeOK
<1>5. ASSUME NEW s \in Polls, PollMark(s) PROVE ScreensOK'
  <2>1. poll' \in [Polls -> PollStates]
    BY <1>5 DEF PollMark, PollStates, ScreensOK, TypeOK
  <2> QED
    BY <1>5, <2>1 DEF PollMark, ScreensOK, TypeOK
<1>6. ASSUME NEW s \in Polls, PollDeliver(s) PROVE ScreensOK'
  <2>1. Reader(s) \in Readers /\ poll[s] \in PollStates
    BY DEF Reader, Readers, ScreensOK, TypeOK
  <2>2. poll' \in [Polls -> PollStates]
    BY <1>6, Places DEF PollDeliver, ScreensOK, TypeOK
  <2>3. screen' \in [Readers -> SUBSET Messages]
    BY <1>6, <2>1 DEF PollDeliver, PollStates, ScreensOK, TypeOK
  <2>4. cursor' \in [Readers -> Positions]
    BY <1>6, <2>1 DEF PollDeliver, PollStates, ScreensOK, TypeOK
  <2> QED
    BY <1>6, <2>2, <2>3, <2>4 DEF PollDeliver, ScreensOK, TypeOK
<1>7. ASSUME NEW s \in Polls, PollLost(s) PROVE ScreensOK'
  <2> QED
    BY <1>7, Places DEF PollLost, ScreensOK, TypeOK
<1>8. ASSUME NEW w \in Writers,
            OpenRead(w) \/ OpenInsert(w) \/ OpenRefused(w)
            \/ Append(w)
      PROVE  ScreensOK'
  BY <1>8 DEF Append, OpenInsert, OpenRead, OpenRefused
<1>9. ASSUME NEW p \in Posts,
            ComposeRead(p) \/ SendAnswer(p) \/ DiscardPendingDrafts(p)
            \/ WriteDraft(p) \/ ClearFlag(p) \/ RaiseFlag(p)
      PROVE  ScreensOK'
  BY <1>9
  DEF ClearFlag, ComposeRead, DiscardPendingDrafts, RaiseFlag, SendAnswer,
      WriteDraft, Flag
<1>10. ASSUME NEW o \in Operators,
            ReplyRead(o) \/ ReplyWrite(o) \/ PickDraft(o) \/ DraftRead(o)
            \/ SendDraft(o) \/ DiscardDraft(o) \/ DraftGone(o)
            \/ MarkAdminRead(o)
      PROVE  ScreensOK'
  BY <1>10
  DEF DiscardDraft, DraftGone, DraftRead, MarkAdminRead, PickDraft, ReplyRead,
      ReplyWrite, SendDraft, MarkOwnerMessages
<1>11. ASSUME NEW c \in Convs,
            Resolve(c)
      PROVE  ScreensOK'
  BY <1>11 DEF Resolve
<1>12. ASSUME NEW c \in Convs, NEW m \in Switches,
            SetMode(c, m)
      PROVE  ScreensOK'
  BY <1>12 DEF SetMode
<1>13. ASSUME NEW t \in Threads,
            Crash(t)
      PROVE  ScreensOK'
  BY <1>13 DEF Crash
<1>14. CASE Tick
  BY <1>14 DEF Tick
<1> QED
  BY <1>1, <1>2, <1>3, <1>4, <1>5, <1>6, <1>7, <1>8, <1>9, <1>10,
     <1>11,
     <1>12, <1>13, <1>14
  DEF ComposeStep, Next, OperatorStep, PollStep, WriterStep

(* The clock and the crash count stay in their bounds.                      *)
LEMMA HistoryTyped ==
  ASSUME TypeOK, ChatKnowledge, Next
  PROVE  HistoryOK'
<1> USE DEF End, GoTo, HistoryOK, Stamp, TypeOK, history, screens
<1>1. ASSUME NEW w \in Writers, Append(w) PROVE HistoryOK'
  <2>1. MessageOf(w) \in Messages
    BY Authors
  <2>2. behind' \in [Readers -> SUBSET Messages]
    BY <1>1, <2>1 DEF Append, HistoryOK, NoteIfBehind, TypeOK, Write
  <2> QED
    BY <1>1, <2>2 DEF Append, HistoryOK, TypeOK, screens
<1>2. ASSUME NEW p \in Posts, SendAnswer(p) PROVE HistoryOK'
  <2>1. <<"ai", p>> \in Messages
    BY Authors
  <2>2. behind' \in [Readers -> SUBSET Messages]
    BY <1>2, <2>1 DEF SendAnswer, HistoryOK, NoteIfBehind, TypeOK, Write
  <2> QED
    BY <1>2, <2>2 DEF SendAnswer, HistoryOK, TypeOK, screens
<1>3. ASSUME NEW p \in Posts, WriteDraft(p) PROVE HistoryOK'
  <2>1. <<"ai", p>> \in Messages
    BY Authors
  <2>2. behind' \in [Readers -> SUBSET Messages]
    BY <1>3, <2>1 DEF WriteDraft, HistoryOK, NoteIfBehind, TypeOK, Write
  <2> QED
    BY <1>3, <2>2 DEF WriteDraft, HistoryOK, TypeOK, screens
<1>4. ASSUME NEW o \in Operators, ReplyWrite(o) PROVE HistoryOK'
  <2>1. <<"admin", o>> \in Messages
    BY Authors
  <2>2. behind' \in [Readers -> SUBSET Messages]
    BY <1>4, <2>1 DEF ReplyWrite, HistoryOK, NoteIfBehind, TypeOK, Write
  <2> QED
    BY <1>4, <2>2 DEF ReplyWrite, HistoryOK, TypeOK, screens
<1>5. ASSUME NEW o \in Operators, SendDraft(o) PROVE HistoryOK'
  <2>1. target[o] \in Messages
    BY <1>5, Authors DEF SendDraft, ChatKnowledge, ThreadsKnow
  <2>2. behind' \in [Readers -> SUBSET Messages]
    BY <1>5, <2>1 DEF SendDraft, HistoryOK, NoteIfBehind, TypeOK, Write
  <2> QED
    BY <1>5, <2>1, <2>2 DEF SendDraft, HistoryOK, TypeOK, screens
<1>6. ASSUME NEW c \in Convs, NEW m \in Switches, SetMode(c, m)
      PROVE  HistoryOK'
  BY <1>6 DEF SetMode
<1>7. ASSUME NEW s \in Polls, PollDeliver(s) PROVE HistoryOK'
  <2>1. poll[s].page \in SUBSET Messages
    BY DEF PollStates, ScreensOK, TypeOK
  <2> QED
    BY <1>7, <2>1 DEF PollDeliver, HistoryOK, TypeOK, history
<1>8. ASSUME NEW t \in Threads, Crash(t) PROVE HistoryOK'
  BY <1>8, BoundsAssumption DEF Crash
<1>9. CASE Tick
  BY <1>9, BoundsAssumption DEF Tick
<1>10. ASSUME NEW w \in Writers,
            OpenRead(w) \/ OpenInsert(w) \/ OpenRefused(w)
      PROVE  HistoryOK'
  BY <1>10 DEF OpenInsert, OpenRead, OpenRefused
<1>11. ASSUME NEW p \in Posts,
            Respond(p) \/ ComposeRead(p) \/ DiscardPendingDrafts(p)
            \/ ClearFlag(p) \/ RaiseFlag(p)
      PROVE  HistoryOK'
  BY <1>11
  DEF ClearFlag, ComposeRead, DiscardPendingDrafts, RaiseFlag, Respond, Flag
<1>12. ASSUME NEW o \in Operators,
            ReplyRead(o) \/ PickDraft(o) \/ DraftRead(o) \/ DiscardDraft(o)
            \/ DraftGone(o) \/ MarkAdminRead(o)
      PROVE  HistoryOK'
  BY <1>12
  DEF DiscardDraft, DraftGone, DraftRead, MarkAdminRead, PickDraft, ReplyRead,
      MarkOwnerMessages
<1>13. ASSUME NEW c \in Convs,
            Resolve(c) \/ Select(c)
      PROVE  HistoryOK'
  BY <1>13 DEF Resolve, Select
<1>14. ASSUME NEW s \in Polls,
            PollAsk(s) \/ PollList(s) \/ PollMark(s) \/ PollLost(s)
      PROVE  HistoryOK'
  BY <1>14 DEF PollAsk, PollList, PollLost, PollMark, MarkOwnerMessages
<1> QED
  BY <1>1, <1>2, <1>3, <1>4, <1>5, <1>6, <1>7, <1>8, <1>9, <1>10,
     <1>11,
     <1>12, <1>13, <1>14
  DEF ComposeStep, Next, OperatorStep, PollStep, WriterStep

(* A conversation is read before anything is written into it.               *)
LEMMA ThreadsKnowKept ==
  ASSUME TypeOK, ChatKnowledge, Next
  PROVE  ThreadsKnow'
<1> USE NamesAssumption
        DEF ChatKnowledge, End, Ended, GoTo, Threads, ThreadsKnow, ThreadsOK,
            TypeOK, Writers, locals, threads
<1>1. ASSUME NEW w \in Writers, OpenRead(w) PROVE ThreadsKnow'
  BY <1>1 DEF OpenRead, OpenConvs, Stamp
<1>2. ASSUME NEW w \in Writers, OpenInsert(w) PROVE ThreadsKnow'
  BY <1>2 DEF OpenInsert, Convs
<1>3. ASSUME NEW w \in Writers, OpenRefused(w) PROVE ThreadsKnow'
  BY <1>3 DEF OpenRefused
<1>4. ASSUME NEW w \in Writers, Append(w) PROVE ThreadsKnow'
  BY <1>4 DEF Append, NoteIfBehind, Write
<1>5. ASSUME NEW p \in Posts, Respond(p) PROVE ThreadsKnow'
  BY <1>5 DEF Respond
<1>6. ASSUME NEW p \in Posts, ComposeRead(p) PROVE ThreadsKnow'
  BY <1>6 DEF ComposeRead, Stamp
<1>7. ASSUME NEW p \in Posts, SendAnswer(p) PROVE ThreadsKnow'
  BY <1>7 DEF SendAnswer, NoteIfBehind, Write
<1>8. ASSUME NEW p \in Posts, DiscardPendingDrafts(p) PROVE ThreadsKnow'
  BY <1>8 DEF DiscardPendingDrafts
<1>9. ASSUME NEW p \in Posts, WriteDraft(p) PROVE ThreadsKnow'
  BY <1>9 DEF WriteDraft, NoteIfBehind, Write
<1>10. ASSUME NEW p \in Posts, ClearFlag(p) PROVE ThreadsKnow'
  BY <1>10 DEF ClearFlag
<1>11. ASSUME NEW p \in Posts, RaiseFlag(p) PROVE ThreadsKnow'
  BY <1>11 DEF RaiseFlag, Flag
<1>12. ASSUME NEW o \in Operators, ReplyRead(o) PROVE ThreadsKnow'
  BY <1>12 DEF ReplyRead, OpenConvs, Stamp
<1>13. ASSUME NEW o \in Operators, ReplyWrite(o) PROVE ThreadsKnow'
  BY <1>13 DEF ReplyWrite, NoteIfBehind, Write
<1>14. ASSUME NEW o \in Operators, PickDraft(o) PROVE ThreadsKnow'
  <2>1. PICK c \in Convs : \E m \in Last(Drafts(c)) :
          /\ chat' = [chat EXCEPT ![o] = c]
          /\ target' = [target EXCEPT ![o] = m]
    BY <1>14 DEF PickDraft
  <2>2. PICK m \in Last(Drafts(c)) : target' = [target EXCEPT ![o] = m]
    BY <2>1
  <2>3. m \in AiSays
    BY PagesAreWaiting DEF ChatKnowledge, Drafts, RowsAreThere
  <2> QED
    BY <1>14, <2>1, <2>2, <2>3, NamesAssumption
    DEF PickDraft, ChatKnowledge, Ended, GoTo, Threads, ThreadsKnow, ThreadsOK,
        TypeOK
<1>24. ASSUME NEW o \in Operators, DraftRead(o) PROVE ThreadsKnow'
  BY <1>24 DEF DraftRead, Stamp
<1>15. ASSUME NEW o \in Operators, SendDraft(o) PROVE ThreadsKnow'
  BY <1>15 DEF SendDraft, NoteIfBehind, Write
<1>16. ASSUME NEW o \in Operators, DiscardDraft(o) PROVE ThreadsKnow'
  BY <1>16 DEF DiscardDraft
<1>17. ASSUME NEW o \in Operators, DraftGone(o) PROVE ThreadsKnow'
  BY <1>17 DEF DraftGone
<1>18. ASSUME NEW o \in Operators, MarkAdminRead(o) PROVE ThreadsKnow'
  BY <1>18 DEF MarkAdminRead, MarkOwnerMessages
<1>19. ASSUME NEW t \in Threads, Crash(t) PROVE ThreadsKnow'
  BY <1>19 DEF Crash
<1>20. ASSUME NEW c \in Convs,
            Resolve(c) \/ Select(c)
      PROVE  ThreadsKnow'
  BY <1>20 DEF Resolve, Select
<1>21. ASSUME NEW c \in Convs, NEW m \in Switches,
            SetMode(c, m)
      PROVE  ThreadsKnow'
  BY <1>21 DEF SetMode
<1>22. ASSUME NEW s \in Polls,
            PollAsk(s) \/ PollList(s) \/ PollMark(s) \/ PollDeliver(s)
            \/ PollLost(s)
      PROVE  ThreadsKnow'
  BY <1>22
  DEF PollAsk, PollDeliver, PollList, PollLost, PollMark, MarkOwnerMessages
<1>23. CASE Tick
  BY <1>23 DEF Tick
<1> QED
  BY <1>1, <1>2, <1>3, <1>4, <1>5, <1>6, <1>7, <1>8, <1>9, <1>10,
     <1>11,
     <1>12, <1>13, <1>14, <1>24, <1>15, <1>16, <1>17, <1>18, <1>19, <1>20,
     <1>21,
     <1>22, <1>23
  DEF ComposeStep, Next, OperatorStep, PollStep, WriterStep

(* No two threads write the same message.                                  *)
LEMMA OneAuthor ==
  /\ \A w, v \in Writers : MessageOf(w) = MessageOf(v) => w = v
  /\ \A p \in Posts, w \in Writers : <<"ai", p>> # MessageOf(w)
  /\ \A o \in Operators, w \in Writers : <<"admin", o>> # MessageOf(w)
  /\ \A p, q \in Posts : <<"ai", p>> = <<"ai", q>> => p = q
  /\ \A o, n \in Operators : <<"admin", o>> = <<"admin", n>> => o = n
  /\ \A p \in Posts, o \in Operators : <<"ai", p>> # <<"admin", o>>
  BY NamesAssumption DEF MessageOf, Writers

(* A thread that has not inserted its row finds it free.                    *)
LEMMA RowsAreFreshKept ==
  ASSUME TypeOK, ChatKnowledge, Next
  PROVE  RowsAreFresh'
<1> USE Authors, NamesAssumption
        DEF ChatKnowledge, End, Ended, GoTo, RowsAreFresh, RowsOK, Threads,
            ThreadsOK, TypeOK, Writers, locals, messages, threads
<1>1. ASSUME NEW w \in Writers, OpenRead(w) PROVE RowsAreFresh'
  BY <1>1 DEF OpenRead, Stamp
<1>2. ASSUME NEW w \in Writers, OpenInsert(w) PROVE RowsAreFresh'
  BY <1>2 DEF OpenInsert
<1>3. ASSUME NEW w \in Writers, OpenRefused(w) PROVE RowsAreFresh'
  BY <1>3 DEF OpenRefused
<1>4. ASSUME NEW w \in Writers, Append(w) PROVE RowsAreFresh'
  <2>1. MessageOf(w) \in Messages
    BY <1>4, Authors DEF Writers
  <2>2. \A n \in Messages : n # MessageOf(w) => row'[n] = row[n]
    BY <1>4, <2>1 DEF Append, RowsOK, TypeOK, Write
  <2>3. \A t \in Threads : t # w => pc'[t] = pc[t]
    BY <1>4 DEF Append, End, GoTo, ThreadsOK, TypeOK
  <2>4. pc'[w] \in {"respond", "done"}
    BY <1>4 DEF Append, End, Ended, GoTo, Threads, ThreadsOK, TypeOK, Writers
  <2>5. (\A u \in Writers :
         pc[u] \in {"idle", "insert", "append"} => row[MessageOf(u)] = None)'
    BY <1>4, <2>1, <2>2, <2>3, <2>4, Authors, OneAuthor, NamesAssumption
    DEF Append, ChatKnowledge, RowsAreFresh, Threads, Writers
  <2>6. ASSUME NEW q \in Posts,
               pc'[q] \in {"idle", "insert", "append", "respond", "compose",
                           "ask", "draft"}
        PROVE  row'[<<"ai", q>>] = None
    <3>1. row'[<<"ai", q>>] = row[<<"ai", q>>]
      BY <2>2, Authors, OneAuthor
    <3>2. CASE q = w
      BY <1>4, <3>1, <3>2 DEF Append, ChatKnowledge, RowsAreFresh
    <3>3. CASE q # w
      BY <2>3, <2>6, <3>1, <3>3
      DEF ChatKnowledge, RowsAreFresh, Threads, Writers
    <3> QED
      BY <3>2, <3>3
  <2>7. (\A n \in Operators :
         pc[n] \in {"idle", "reply"} => row[<<"admin", n>>] = None)'
    BY <1>4, <2>1, <2>2, <2>3, <2>4, Authors, OneAuthor, NamesAssumption
    DEF Append, ChatKnowledge, RowsAreFresh, Threads, Writers
  <2> QED
    BY <2>5, <2>6, <2>7 DEF RowsAreFresh
<1>5. ASSUME NEW p \in Posts, Respond(p) PROVE RowsAreFresh'
  BY <1>5 DEF Respond
<1>6. ASSUME NEW p \in Posts, ComposeRead(p) PROVE RowsAreFresh'
  BY <1>6 DEF ComposeRead, Stamp
<1>7. ASSUME NEW p \in Posts, SendAnswer(p) PROVE RowsAreFresh'
  <2>1. <<"ai", p>> \in Messages
    BY <1>7, Authors DEF Writers
  <2>2. \A n \in Messages : n # <<"ai", p>> => row'[n] = row[n]
    BY <1>7, <2>1 DEF SendAnswer, RowsOK, TypeOK, Write
  <2>3. \A t \in Threads : t # p => pc'[t] = pc[t]
    BY <1>7 DEF SendAnswer, End, GoTo, ThreadsOK, TypeOK
  <2>4. pc'[p] \in {"clear", "flag"}
    BY <1>7
    DEF SendAnswer, End, Ended, GoTo, Threads, ThreadsOK, TypeOK, Writers
  <2>5. (\A u \in Writers :
         pc[u] \in {"idle", "insert", "append"} => row[MessageOf(u)] = None)'
    BY <1>7, <2>1, <2>2, <2>3, <2>4, Authors, OneAuthor, NamesAssumption
    DEF SendAnswer, ChatKnowledge, RowsAreFresh, Threads, Writers
  <2>6. ASSUME NEW q \in Posts,
               pc'[q] \in {"idle", "insert", "append", "respond", "compose",
                           "ask", "draft"}
        PROVE  row'[<<"ai", q>>] = None
    <3>1. q # p /\ pc'[q] = pc[q]
      BY <1>7, <2>3, <2>4, <2>6, NamesAssumption DEF Threads, Writers
    <3>2. row[<<"ai", q>>] = None
      BY <2>6, <3>1 DEF ChatKnowledge, RowsAreFresh
    <3> QED
      BY <2>2, <3>1, <3>2, Authors, OneAuthor
  <2>7. (\A n \in Operators :
         pc[n] \in {"idle", "reply"} => row[<<"admin", n>>] = None)'
    BY <1>7, <2>1, <2>2, <2>3, <2>4, Authors, OneAuthor, NamesAssumption
    DEF SendAnswer, ChatKnowledge, RowsAreFresh, Threads, Writers
  <2> QED
    BY <2>5, <2>6, <2>7 DEF RowsAreFresh
<1>8. ASSUME NEW p \in Posts, DiscardPendingDrafts(p) PROVE RowsAreFresh'
  BY <1>8 DEF DiscardPendingDrafts
<1>9. ASSUME NEW p \in Posts, WriteDraft(p) PROVE RowsAreFresh'
  <2>1. <<"ai", p>> \in Messages
    BY <1>9, Authors DEF Writers
  <2>2. \A n \in Messages : n # <<"ai", p>> => row'[n] = row[n]
    BY <1>9, <2>1 DEF WriteDraft, RowsOK, TypeOK, Write
  <2>3. \A t \in Threads : t # p => pc'[t] = pc[t]
    BY <1>9 DEF WriteDraft, End, GoTo, ThreadsOK, TypeOK
  <2>4. pc'[p] \in {"clear"}
    BY <1>9
    DEF WriteDraft, End, Ended, GoTo, Threads, ThreadsOK, TypeOK, Writers
  <2>5. (\A u \in Writers :
         pc[u] \in {"idle", "insert", "append"} => row[MessageOf(u)] = None)'
    BY <1>9, <2>1, <2>2, <2>3, <2>4, Authors, OneAuthor, NamesAssumption
    DEF WriteDraft, ChatKnowledge, RowsAreFresh, Threads, Writers
  <2>6. ASSUME NEW q \in Posts,
               pc'[q] \in {"idle", "insert", "append", "respond", "compose",
                           "ask", "draft"}
        PROVE  row'[<<"ai", q>>] = None
    <3>1. q # p /\ pc'[q] = pc[q]
      BY <1>9, <2>3, <2>4, <2>6, NamesAssumption DEF Threads, Writers
    <3>2. row[<<"ai", q>>] = None
      BY <2>6, <3>1 DEF ChatKnowledge, RowsAreFresh
    <3> QED
      BY <2>2, <3>1, <3>2, Authors, OneAuthor
  <2>7. (\A n \in Operators :
         pc[n] \in {"idle", "reply"} => row[<<"admin", n>>] = None)'
    BY <1>9, <2>1, <2>2, <2>3, <2>4, Authors, OneAuthor, NamesAssumption
    DEF WriteDraft, ChatKnowledge, RowsAreFresh, Threads, Writers
  <2> QED
    BY <2>5, <2>6, <2>7 DEF RowsAreFresh
<1>10. ASSUME NEW p \in Posts, ClearFlag(p) PROVE RowsAreFresh'
  BY <1>10 DEF ClearFlag
<1>11. ASSUME NEW p \in Posts, RaiseFlag(p) PROVE RowsAreFresh'
  BY <1>11 DEF RaiseFlag, Flag
<1>12. ASSUME NEW o \in Operators, ReplyRead(o) PROVE RowsAreFresh'
  BY <1>12 DEF ReplyRead, Stamp
<1>13. ASSUME NEW o \in Operators, ReplyWrite(o) PROVE RowsAreFresh'
  <2>1. <<"admin", o>> \in Messages
    BY <1>13, Authors DEF Writers
  <2>2. \A n \in Messages : n # <<"admin", o>> => row'[n] = row[n]
    BY <1>13, <2>1 DEF ReplyWrite, RowsOK, TypeOK, Write
  <2>3. \A t \in Threads : t # o => pc'[t] = pc[t]
    BY <1>13 DEF ReplyWrite, End, GoTo, ThreadsOK, TypeOK
  <2>4. pc'[o] \in {"mark"}
    BY <1>13
    DEF ReplyWrite, End, Ended, GoTo, Threads, ThreadsOK, TypeOK, Writers
  <2>5. (\A u \in Writers :
         pc[u] \in {"idle", "insert", "append"} => row[MessageOf(u)] = None)'
    BY <1>13, <2>1, <2>2, <2>3, <2>4, Authors, OneAuthor, NamesAssumption
    DEF ReplyWrite, ChatKnowledge, RowsAreFresh, Threads, Writers
  <2>6. ASSUME NEW q \in Posts,
               pc'[q] \in {"idle", "insert", "append", "respond", "compose",
                           "ask", "draft"}
        PROVE  row'[<<"ai", q>>] = None
    <3>1. q # o /\ pc'[q] = pc[q]
      BY <1>13, <2>3, <2>4, <2>6, NamesAssumption DEF Threads, Writers
    <3>2. row[<<"ai", q>>] = None
      BY <2>6, <3>1 DEF ChatKnowledge, RowsAreFresh
    <3> QED
      BY <2>2, <3>1, <3>2, Authors, OneAuthor
  <2>7. (\A n \in Operators :
         pc[n] \in {"idle", "reply"} => row[<<"admin", n>>] = None)'
    BY <1>13, <2>1, <2>2, <2>3, <2>4, Authors, OneAuthor, NamesAssumption
    DEF ReplyWrite, ChatKnowledge, RowsAreFresh, Threads, Writers
  <2> QED
    BY <2>5, <2>6, <2>7 DEF RowsAreFresh
<1>14. ASSUME NEW o \in Operators, PickDraft(o) PROVE RowsAreFresh'
  BY <1>14 DEF PickDraft, Stamp
<1>24. ASSUME NEW o \in Operators, DraftRead(o) PROVE RowsAreFresh'
  BY <1>24 DEF DraftRead, Stamp
<1>15. ASSUME NEW o \in Operators, SendDraft(o) PROVE RowsAreFresh'
  <2>1. target[o] \in Messages
    BY <1>15, Authors DEF SendDraft, ChatKnowledge, ThreadsKnow
  <2>2. \A n \in Messages : n # target[o] => row'[n] = row[n]
    BY <1>15, <2>1 DEF SendDraft, RowsOK, TypeOK, Write
  <2>3. \A t \in Threads : t # o => pc'[t] = pc[t]
    BY <1>15 DEF SendDraft, End, GoTo, ThreadsOK, TypeOK
  <2>4. pc'[o] \in {"mark"}
    BY <1>15
    DEF SendDraft, End, Ended, GoTo, Threads, ThreadsOK, TypeOK, Writers
  <2>5. (\A u \in Writers :
         pc[u] \in {"idle", "insert", "append"} => row[MessageOf(u)] = None)'
    BY <1>15, <2>1, <2>2, <2>3, <2>4, Authors, OneAuthor, NamesAssumption
    DEF SendDraft, ChatKnowledge, RowsAreFresh, Threads, ThreadsKnow, Writers
  <2>6. ASSUME NEW q \in Posts,
               pc'[q] \in {"idle", "insert", "append", "respond", "compose",
                           "ask", "draft"}
        PROVE  row'[<<"ai", q>>] = None
    <3>1. q # o /\ pc'[q] = pc[q]
      BY <1>15, <2>3, <2>4, <2>6, NamesAssumption DEF Threads, Writers
    <3>2. row[<<"ai", q>>] = None
      BY <2>6, <3>1 DEF ChatKnowledge, RowsAreFresh
    <3>3. <<"ai", q>> # target[o]
      BY <1>15, <3>2 DEF SendDraft, Exists, IsDraft, Pending
    <3> QED
      BY <2>2, <3>2, <3>3, Authors
  <2>7. (\A n \in Operators :
         pc[n] \in {"idle", "reply"} => row[<<"admin", n>>] = None)'
    BY <1>15, <2>1, <2>2, <2>3, <2>4, Authors, OneAuthor, NamesAssumption
    DEF SendDraft, ChatKnowledge, RowsAreFresh, Threads, ThreadsKnow, Writers
  <2> QED
    BY <2>5, <2>6, <2>7 DEF RowsAreFresh
<1>16. ASSUME NEW o \in Operators, DiscardDraft(o) PROVE RowsAreFresh'
  BY <1>16 DEF DiscardDraft
<1>17. ASSUME NEW o \in Operators, DraftGone(o) PROVE RowsAreFresh'
  BY <1>17 DEF DraftGone
<1>18. ASSUME NEW o \in Operators, MarkAdminRead(o) PROVE RowsAreFresh'
  BY <1>18 DEF MarkAdminRead, MarkOwnerMessages
<1>19. ASSUME NEW t \in Threads, Crash(t) PROVE RowsAreFresh'
  BY <1>19 DEF Crash
<1>20. ASSUME NEW c \in Convs,
            Resolve(c) \/ Select(c)
      PROVE  RowsAreFresh'
  BY <1>20 DEF Resolve, Select
<1>21. ASSUME NEW c \in Convs, NEW m \in Switches,
            SetMode(c, m)
      PROVE  RowsAreFresh'
  BY <1>21 DEF SetMode
<1>22. ASSUME NEW s \in Polls,
            PollAsk(s) \/ PollList(s) \/ PollMark(s) \/ PollDeliver(s)
            \/ PollLost(s)
      PROVE  RowsAreFresh'
  BY <1>22
  DEF PollAsk, PollDeliver, PollList, PollLost, PollMark, MarkOwnerMessages
<1>23. CASE Tick
  BY <1>23 DEF Tick
<1> QED
  BY <1>1, <1>2, <1>3, <1>4, <1>5, <1>6, <1>7, <1>8, <1>9, <1>10,
     <1>11,
     <1>12, <1>13, <1>14, <1>24, <1>15, <1>16, <1>17, <1>18, <1>19, <1>20,
     <1>21,
     <1>22, <1>23
  DEF ComposeStep, Next, OperatorStep, PollStep, WriterStep

(* A sent row stays as it is.                                              *)
SentKept == \A m \in Messages : IsSent(m) => row'[m] = row[m]

(* A step leaves every sent row as it is.                                  *)
LEMMA SentIsKept ==
  ASSUME TypeOK, ChatKnowledge, Next
  PROVE  SentKept
<1> USE DEF End, GoTo, SentKept, Stamp, messages
<1>1. ASSUME NEW w \in Writers, Append(w) PROVE SentKept
  <2>1. row[MessageOf(w)] = None
    BY <1>1, Authors DEF Append, ChatKnowledge, RowsAreFresh
  <2> QED
    BY <1>1, <2>1 DEF Append, Exists, IsSent, RowsOK, SentKept, TypeOK, Write
<1>2. ASSUME NEW p \in Posts, SendAnswer(p) PROVE SentKept
  <2>1. row[<<"ai", p>>] = None
    BY <1>2, Authors DEF SendAnswer, ChatKnowledge, RowsAreFresh
  <2> QED
    BY <1>2, <2>1
    DEF SendAnswer, Exists, IsSent, RowsOK, SentKept, TypeOK, Write
<1>3. ASSUME NEW p \in Posts, DiscardPendingDrafts(p) PROVE SentKept
  BY <1>3 DEF DiscardPendingDrafts, Drafts, IsDraft, IsSent, RowsOK, TypeOK
<1>4. ASSUME NEW p \in Posts, WriteDraft(p) PROVE SentKept
  <2>1. row[<<"ai", p>>] = None
    BY <1>4, Authors DEF WriteDraft, ChatKnowledge, RowsAreFresh
  <2> QED
    BY <1>4, <2>1
    DEF WriteDraft, Exists, IsSent, RowsOK, SentKept, TypeOK, Write
<1>5. ASSUME NEW o \in Operators, ReplyWrite(o) PROVE SentKept
  <2>1. row[<<"admin", o>>] = None
    BY <1>5, Authors DEF ReplyWrite, ChatKnowledge, RowsAreFresh
  <2> QED
    BY <1>5, <2>1
    DEF ReplyWrite, Exists, IsSent, RowsOK, SentKept, TypeOK, Write
<1>6. ASSUME NEW o \in Operators, SendDraft(o) PROVE SentKept
  <2>1. IsDraft(target[o])
    BY <1>6 DEF SendDraft, Pending
  <2> QED
    BY <1>6, <2>1 DEF SendDraft, IsDraft, IsSent, RowsOK, SentKept, TypeOK,
                      Write
<1>7. ASSUME NEW o \in Operators, DiscardDraft(o) PROVE SentKept
  BY <1>7 DEF DiscardDraft, IsDraft, IsSent, Pending, RowsOK, TypeOK
<1>8. ASSUME NEW w \in Writers,
            OpenRead(w) \/ OpenInsert(w) \/ OpenRefused(w)
      PROVE  SentKept
  BY <1>8 DEF OpenInsert, OpenRead, OpenRefused
<1>9. ASSUME NEW p \in Posts,
            Respond(p) \/ ComposeRead(p) \/ ClearFlag(p)
            \/ RaiseFlag(p)
      PROVE  SentKept
  BY <1>9 DEF ClearFlag, ComposeRead, RaiseFlag, Respond, Flag
<1>10. ASSUME NEW o \in Operators,
            ReplyRead(o) \/ PickDraft(o) \/ DraftRead(o) \/ DraftGone(o)
            \/ MarkAdminRead(o)
      PROVE  SentKept
  BY <1>10
  DEF DraftGone, DraftRead, MarkAdminRead, PickDraft, ReplyRead,
      MarkOwnerMessages
<1>11. ASSUME NEW c \in Convs,
            Resolve(c) \/ Select(c)
      PROVE  SentKept
  BY <1>11 DEF Resolve, Select
<1>12. ASSUME NEW c \in Convs, NEW m \in Switches,
            SetMode(c, m)
      PROVE  SentKept
  BY <1>12 DEF SetMode
<1>13. ASSUME NEW s \in Polls,
            PollAsk(s) \/ PollList(s) \/ PollMark(s) \/ PollDeliver(s)
            \/ PollLost(s)
      PROVE  SentKept
  BY <1>13
  DEF PollAsk, PollDeliver, PollList, PollLost, PollMark, MarkOwnerMessages
<1>14. ASSUME NEW t \in Threads,
            Crash(t)
      PROVE  SentKept
  BY <1>14 DEF Crash
<1>15. CASE Tick
  BY <1>15 DEF Tick
<1> QED
  BY <1>1, <1>2, <1>3, <1>4, <1>5, <1>6, <1>7, <1>8, <1>9, <1>10,
     <1>11,
     <1>12, <1>13, <1>14, <1>15
  DEF ComposeStep, Next, OperatorStep, PollStep, WriterStep

(* Only the assistant drafts.                                              *)
LEMMA DraftsAreAnswers ==
  ASSUME TypeOK, ChatKnowledge, Next
  PROVE  \A m \in Messages : IsDraft(m)' => m \in AiSays
<1> USE Authors
        DEF ChatKnowledge, End, Exists, GoTo, IsDraft, NoteIfBehind,
            RowsAreThere, RowsOK, ThreadsKnow, TypeOK, Write, messages
<1>1. ASSUME NEW w \in Writers, Append(w)
      PROVE  \A m \in Messages : IsDraft(m)' => m \in AiSays
  BY <1>1 DEF Append
<1>2. ASSUME NEW p \in Posts, SendAnswer(p)
      PROVE  \A m \in Messages : IsDraft(m)' => m \in AiSays
  BY <1>2 DEF SendAnswer
<1>3. ASSUME NEW p \in Posts, DiscardPendingDrafts(p)
      PROVE  \A m \in Messages : IsDraft(m)' => m \in AiSays
  BY <1>3 DEF DiscardPendingDrafts
<1>4. ASSUME NEW p \in Posts, WriteDraft(p)
      PROVE  \A m \in Messages : IsDraft(m)' => m \in AiSays
  BY <1>4 DEF WriteDraft
<1>5. ASSUME NEW o \in Operators, ReplyWrite(o)
      PROVE  \A m \in Messages : IsDraft(m)' => m \in AiSays
  BY <1>5 DEF ReplyWrite
<1>6. ASSUME NEW o \in Operators, SendDraft(o)
      PROVE  \A m \in Messages : IsDraft(m)' => m \in AiSays
  BY <1>6 DEF SendDraft
<1>7. ASSUME NEW o \in Operators, DiscardDraft(o)
      PROVE  \A m \in Messages : IsDraft(m)' => m \in AiSays
  BY <1>7 DEF DiscardDraft
<1>8. ASSUME NEW w \in Writers,
            OpenRead(w) \/ OpenInsert(w) \/ OpenRefused(w)
      PROVE  \A m \in Messages : IsDraft(m)' => m \in AiSays
  BY <1>8 DEF OpenInsert, OpenRead, OpenRefused, Stamp
<1>9. ASSUME NEW p \in Posts,
            Respond(p) \/ ComposeRead(p) \/ ClearFlag(p)
            \/ RaiseFlag(p)
      PROVE  \A m \in Messages : IsDraft(m)' => m \in AiSays
  BY <1>9 DEF ClearFlag, ComposeRead, RaiseFlag, Respond, Flag, Stamp
<1>10. ASSUME NEW o \in Operators,
            ReplyRead(o) \/ PickDraft(o) \/ DraftRead(o) \/ DraftGone(o)
            \/ MarkAdminRead(o)
      PROVE  \A m \in Messages : IsDraft(m)' => m \in AiSays
  BY <1>10
  DEF DraftGone, DraftRead, MarkAdminRead, PickDraft, ReplyRead,
      MarkOwnerMessages,
      Stamp
<1>11. ASSUME NEW c \in Convs,
            Resolve(c) \/ Select(c)
      PROVE  \A m \in Messages : IsDraft(m)' => m \in AiSays
  BY <1>11 DEF Resolve, Select
<1>12. ASSUME NEW c \in Convs, NEW d \in Switches,
            SetMode(c, d)
      PROVE  \A m \in Messages : IsDraft(m)' => m \in AiSays
  BY <1>12 DEF SetMode
<1>13. ASSUME NEW s \in Polls,
            PollAsk(s) \/ PollList(s) \/ PollMark(s) \/ PollDeliver(s)
            \/ PollLost(s)
      PROVE  \A m \in Messages : IsDraft(m)' => m \in AiSays
  BY <1>13
  DEF PollAsk, PollDeliver, PollList, PollLost, PollMark, MarkOwnerMessages
<1>14. ASSUME NEW t \in Threads,
            Crash(t)
      PROVE  \A m \in Messages : IsDraft(m)' => m \in AiSays
  BY <1>14 DEF Crash
<1>15. CASE Tick
  BY <1>15 DEF Tick
<1> QED
  BY <1>1, <1>2, <1>3, <1>4, <1>5, <1>6, <1>7, <1>8, <1>9, <1>10,
     <1>11,
     <1>12, <1>13, <1>14, <1>15
  DEF ComposeStep, Next, OperatorStep, PollStep, WriterStep

(* The response follows the row.                                           *)
LEMMA RespondAfterAppend ==
  ASSUME TypeOK, Next
  PROVE  \A q \in Posts :
           pc'[q] = "respond" => pc[q] = "respond" \/ Append(q)
<1> USE NamesAssumption
        DEF End, Ended, GoTo, Threads, ThreadsOK, TypeOK, Writers, locals,
            threads
<1>1. ASSUME NEW w \in Writers, OpenRead(w) PROVE \A q \in Posts :
           pc'[q] = "respond" => pc[q] = "respond" \/ Append(q)
  BY <1>1 DEF OpenRead, Stamp
<1>2. ASSUME NEW w \in Writers, OpenInsert(w) PROVE \A q \in Posts :
           pc'[q] = "respond" => pc[q] = "respond" \/ Append(q)
  BY <1>2 DEF OpenInsert
<1>3. ASSUME NEW w \in Writers, OpenRefused(w) PROVE \A q \in Posts :
           pc'[q] = "respond" => pc[q] = "respond" \/ Append(q)
  BY <1>3 DEF OpenRefused
<1>4. ASSUME NEW w \in Writers, Append(w) PROVE \A q \in Posts :
           pc'[q] = "respond" => pc[q] = "respond" \/ Append(q)
  BY <1>4 DEF Append, NoteIfBehind, Write
<1>5. ASSUME NEW p \in Posts, Respond(p) PROVE \A q \in Posts :
           pc'[q] = "respond" => pc[q] = "respond" \/ Append(q)
  BY <1>5 DEF Respond
<1>6. ASSUME NEW p \in Posts, ComposeRead(p) PROVE \A q \in Posts :
           pc'[q] = "respond" => pc[q] = "respond" \/ Append(q)
  BY <1>6 DEF ComposeRead, Stamp
<1>7. ASSUME NEW p \in Posts, SendAnswer(p) PROVE \A q \in Posts :
           pc'[q] = "respond" => pc[q] = "respond" \/ Append(q)
  BY <1>7 DEF SendAnswer, NoteIfBehind, Write
<1>8. ASSUME NEW p \in Posts, DiscardPendingDrafts(p) PROVE \A q \in Posts :
           pc'[q] = "respond" => pc[q] = "respond" \/ Append(q)
  BY <1>8 DEF DiscardPendingDrafts
<1>9. ASSUME NEW p \in Posts, WriteDraft(p) PROVE \A q \in Posts :
           pc'[q] = "respond" => pc[q] = "respond" \/ Append(q)
  BY <1>9 DEF WriteDraft, NoteIfBehind, Write
<1>10. ASSUME NEW p \in Posts, ClearFlag(p) PROVE \A q \in Posts :
           pc'[q] = "respond" => pc[q] = "respond" \/ Append(q)
  BY <1>10 DEF ClearFlag
<1>11. ASSUME NEW p \in Posts, RaiseFlag(p) PROVE \A q \in Posts :
           pc'[q] = "respond" => pc[q] = "respond" \/ Append(q)
  BY <1>11 DEF RaiseFlag, Flag
<1>12. ASSUME NEW o \in Operators, ReplyRead(o) PROVE \A q \in Posts :
           pc'[q] = "respond" => pc[q] = "respond" \/ Append(q)
  BY <1>12 DEF ReplyRead, Stamp
<1>13. ASSUME NEW o \in Operators, ReplyWrite(o) PROVE \A q \in Posts :
           pc'[q] = "respond" => pc[q] = "respond" \/ Append(q)
  BY <1>13 DEF ReplyWrite, NoteIfBehind, Write
<1>14. ASSUME NEW o \in Operators, PickDraft(o) PROVE \A q \in Posts :
           pc'[q] = "respond" => pc[q] = "respond" \/ Append(q)
  BY <1>14 DEF PickDraft, Stamp
<1>24. ASSUME NEW o \in Operators, DraftRead(o) PROVE \A q \in Posts :
           pc'[q] = "respond" => pc[q] = "respond" \/ Append(q)
  BY <1>24 DEF DraftRead, Stamp
<1>15. ASSUME NEW o \in Operators, SendDraft(o) PROVE \A q \in Posts :
           pc'[q] = "respond" => pc[q] = "respond" \/ Append(q)
  BY <1>15 DEF SendDraft, NoteIfBehind, Write
<1>16. ASSUME NEW o \in Operators, DiscardDraft(o) PROVE \A q \in Posts :
           pc'[q] = "respond" => pc[q] = "respond" \/ Append(q)
  BY <1>16 DEF DiscardDraft
<1>17. ASSUME NEW o \in Operators, DraftGone(o) PROVE \A q \in Posts :
           pc'[q] = "respond" => pc[q] = "respond" \/ Append(q)
  BY <1>17 DEF DraftGone
<1>18. ASSUME NEW o \in Operators, MarkAdminRead(o) PROVE \A q \in Posts :
           pc'[q] = "respond" => pc[q] = "respond" \/ Append(q)
  BY <1>18 DEF MarkAdminRead, MarkOwnerMessages
<1>19. ASSUME NEW t \in Threads, Crash(t) PROVE \A q \in Posts :
           pc'[q] = "respond" => pc[q] = "respond" \/ Append(q)
  BY <1>19 DEF Crash
<1>20. ASSUME NEW c \in Convs,
            Resolve(c) \/ Select(c)
      PROVE  \A q \in Posts :
           pc'[q] = "respond" => pc[q] = "respond" \/ Append(q)
  BY <1>20 DEF Resolve, Select
<1>21. ASSUME NEW c \in Convs, NEW m \in Switches,
            SetMode(c, m)
      PROVE  \A q \in Posts :
           pc'[q] = "respond" => pc[q] = "respond" \/ Append(q)
  BY <1>21 DEF SetMode
<1>22. ASSUME NEW s \in Polls,
            PollAsk(s) \/ PollList(s) \/ PollMark(s) \/ PollDeliver(s)
            \/ PollLost(s)
      PROVE  \A q \in Posts :
           pc'[q] = "respond" => pc[q] = "respond" \/ Append(q)
  BY <1>22
  DEF PollAsk, PollDeliver, PollList, PollLost, PollMark, MarkOwnerMessages
<1>23. CASE Tick
  BY <1>23 DEF Tick
<1> QED
  BY <1>1, <1>2, <1>3, <1>4, <1>5, <1>6, <1>7, <1>8, <1>9, <1>10,
     <1>11,
     <1>12, <1>13, <1>14, <1>24, <1>15, <1>16, <1>17, <1>18, <1>19, <1>20,
     <1>21,
     <1>22, <1>23
  DEF ComposeStep, Next, OperatorStep, PollStep, WriterStep

(* The response reports a row that is there.                               *)
LEMMA RespondsToSent ==
  ASSUME TypeOK, ChatKnowledge, Next, NEW p \in Posts, pc'[p] = "respond"
  PROVE  IsSent(<<"owner", p>>)'
<1>1. CASE pc[p] = "respond"
  <2>1. IsSent(<<"owner", p>>)
    BY <1>1 DEF ChatKnowledge, RowsAreThere
  <2> QED
    BY <2>1, SentIsKept, Authors DEF Exists, IsSent, SentKept
<1>2. CASE pc[p] # "respond"
  <2>1. Append(p)
    BY <1>2, RespondAfterAppend
  <2> DEFINE new == [conv |-> chat[p], status |-> "sent", at |-> now[p]]
  <2>2. row'[<<"owner", p>>] = new
    BY <2>1, Authors DEF Append, RowsOK, TypeOK, Write, Writers
  <2>3. new \in Rows
    BY <2>1
    DEF Append, ChatKnowledge, Ended, Rows, Threads, ThreadsKnow, ThreadsOK,
        TypeOK, Writers
  <2>4. new # None
    BY <2>3, NamesAssumption
  <2> QED
    BY <2>2, <2>4 DEF Exists, IsSent
<1> QED
  BY <1>1, <1>2

(* Who composes in ai mode has found the conversation in it.               *)
LEMMA TrustIsRecordedKept ==
  ASSUME TypeOK, ChatKnowledge, Next
  PROVE  TrustIsRecorded'
<1> USE NamesAssumption
        DEF ChatKnowledge, End, Ended, GoTo, HistoryOK, RowsOK, Threads,
            ThreadsOK, TrustIsRecorded, TypeOK, Writers, conversations,
            history, locals, threads
<1>1. ASSUME NEW w \in Writers, OpenRead(w) PROVE TrustIsRecorded'
  BY <1>1 DEF OpenRead, Stamp
<1>2. ASSUME NEW w \in Writers, OpenInsert(w) PROVE TrustIsRecorded'
  BY <1>2 DEF OpenInsert, Convs
<1>3. ASSUME NEW w \in Writers, OpenRefused(w) PROVE TrustIsRecorded'
  BY <1>3 DEF OpenRefused
<1>4. ASSUME NEW w \in Writers, Append(w) PROVE TrustIsRecorded'
  BY <1>4 DEF Append, NoteIfBehind, Write
<1>5. ASSUME NEW p \in Posts, Respond(p) PROVE TrustIsRecorded'
  BY <1>5 DEF Respond
<1>6. ASSUME NEW p \in Posts, ComposeRead(p) PROVE TrustIsRecorded'
  BY <1>6 DEF ComposeRead, Stamp, ThreadsKnow
<1>7. ASSUME NEW p \in Posts, SendAnswer(p) PROVE TrustIsRecorded'
  BY <1>7 DEF SendAnswer, NoteIfBehind, Write
<1>8. ASSUME NEW p \in Posts, DiscardPendingDrafts(p) PROVE TrustIsRecorded'
  BY <1>8 DEF DiscardPendingDrafts
<1>9. ASSUME NEW p \in Posts, WriteDraft(p) PROVE TrustIsRecorded'
  BY <1>9 DEF WriteDraft, NoteIfBehind, Write
<1>10. ASSUME NEW p \in Posts, ClearFlag(p) PROVE TrustIsRecorded'
  BY <1>10 DEF ClearFlag
<1>11. ASSUME NEW p \in Posts, RaiseFlag(p) PROVE TrustIsRecorded'
  BY <1>11 DEF RaiseFlag, Flag
<1>12. ASSUME NEW o \in Operators, ReplyRead(o) PROVE TrustIsRecorded'
  BY <1>12 DEF ReplyRead, Stamp
<1>13. ASSUME NEW o \in Operators, ReplyWrite(o) PROVE TrustIsRecorded'
  BY <1>13 DEF ReplyWrite, NoteIfBehind, Write
<1>14. ASSUME NEW o \in Operators, PickDraft(o) PROVE TrustIsRecorded'
  BY <1>14 DEF PickDraft, Stamp
<1>24. ASSUME NEW o \in Operators, DraftRead(o) PROVE TrustIsRecorded'
  BY <1>24 DEF DraftRead, Stamp
<1>15. ASSUME NEW o \in Operators, SendDraft(o) PROVE TrustIsRecorded'
  BY <1>15 DEF SendDraft, NoteIfBehind, Write
<1>16. ASSUME NEW o \in Operators, DiscardDraft(o) PROVE TrustIsRecorded'
  BY <1>16 DEF DiscardDraft
<1>17. ASSUME NEW o \in Operators, DraftGone(o) PROVE TrustIsRecorded'
  BY <1>17 DEF DraftGone
<1>18. ASSUME NEW o \in Operators, MarkAdminRead(o) PROVE TrustIsRecorded'
  BY <1>18 DEF MarkAdminRead, MarkOwnerMessages
<1>19. ASSUME NEW c \in Convs, NEW m \in Switches, SetMode(c, m)
       PROVE  TrustIsRecorded'
  BY <1>19 DEF SetMode
<1>20. ASSUME NEW t \in Threads, Crash(t) PROVE TrustIsRecorded'
  BY <1>20 DEF Crash
<1>21. ASSUME NEW c \in Convs,
            Resolve(c) \/ Select(c)
      PROVE  TrustIsRecorded'
  BY <1>21 DEF Resolve, Select
<1>22. ASSUME NEW s \in Polls,
            PollAsk(s) \/ PollList(s) \/ PollMark(s) \/ PollDeliver(s)
            \/ PollLost(s)
      PROVE  TrustIsRecorded'
  BY <1>22
  DEF PollAsk, PollDeliver, PollList, PollLost, PollMark, MarkOwnerMessages
<1>23. CASE Tick
  BY <1>23 DEF Tick
<1> QED
  BY <1>1, <1>2, <1>3, <1>4, <1>5, <1>6, <1>7, <1>8, <1>9, <1>10,
     <1>11,
     <1>12, <1>13, <1>14, <1>24, <1>15, <1>16, <1>17, <1>18, <1>19, <1>20,
     <1>21,
     <1>22, <1>23
  DEF ComposeStep, Next, OperatorStep, PollStep, WriterStep

(* The strengthening holds at the start, and every step keeps it.           *)
LEMMA Starts ==
  ASSUME Init
  PROVE  TypeOK /\ ChatKnowledge
<1>1. RowsOK
  BY DEF Init, RowsOK
<1>2. ThreadsOK
  BY BoundsAssumption DEF Init, Labels, Stamps, ThreadsOK
<1>3. ScreensOK
  BY <1>1, Places DEF Init, ScreensOK
<1>4. HistoryOK
  BY BoundsAssumption DEF Convs, HistoryOK, Init
<1>5. ThreadsKnow
  BY DEF Ended, Init, Threads, ThreadsKnow
<1>6. RowsAreFresh
  BY Authors DEF Init, RowsAreFresh, Writers
<1>7. RowsAreThere
  BY DEF Exists, Init, IsDraft, RowsAreThere, Threads, Writers
<1>8. TrustIsRecorded
  BY DEF Convs, Init, Threads, TrustIsRecorded, Writers
<1> QED
  BY <1>1, <1>2, <1>3, <1>4, <1>5, <1>6, <1>7, <1>8 DEF ChatKnowledge, TypeOK

LEMMA Continues ==
  ASSUME TypeOK, ChatKnowledge, [Next]_vars
  PROVE  TypeOK' /\ ChatKnowledge'
<1>1. CASE Next
  <2>1. TypeOK'
    BY <1>1, HistoryTyped, RowsTyped, ScreensTyped, ThreadsTyped DEF TypeOK
  <2>2. RowsAreThere'
    BY <1>1, DraftsAreAnswers, RespondsToSent DEF RowsAreThere
  <2> QED
    BY <1>1, <2>1, <2>2, RowsAreFreshKept, ThreadsKnowKept,
       TrustIsRecordedKept
    DEF ChatKnowledge
<1>2. CASE UNCHANGED vars
  BY <1>2
  DEF ChatKnowledge, Exists, HistoryOK, IsDraft, IsSent, RowsAreFresh,
      RowsAreThere, RowsOK, ScreensOK, ThreadsKnow, ThreadsOK,
      TrustIsRecorded, TypeOK, conversations, history, locals, messages,
      screens, threads, vars
<1> QED
  BY <1>1, <1>2

(* Every reachable state is of its type, and the chat's threads know what    *)
(* they act on (the schema of 0007 to 0009, the handlers' early returns).   *)
THEOREM TypeCorrect == Spec => [](TypeOK /\ ChatKnowledge)
<1>1. Init => TypeOK /\ ChatKnowledge
  BY Starts
<1>2. TypeOK /\ ChatKnowledge /\ [Next]_vars => (TypeOK /\ ChatKnowledge)'
  BY Continues
<1> QED
  BY <1>1, <1>2, PTL DEF Spec

(* A row is opened where none is open.                                      *)
LEMMA OneOpenKept ==
  ASSUME TypeOK, ChatKnowledge, OneOpenConversation, Next
  PROVE  OneOpenConversation'
<1> USE DEF End, GoTo, OneOpenConversation, OpenConvs, Stamp, TypeOK,
            conversations
<1>1. ASSUME NEW w \in Writers, OpenInsert(w) PROVE OneOpenConversation'
  BY <1>1 DEF OpenInsert, Convs, IndexAdmits, RowsOK
<1>2. ASSUME NEW c \in Convs, Resolve(c) PROVE OneOpenConversation'
  BY <1>2 DEF Resolve, IndexAdmits, RowsOK
<1>3. ASSUME NEW w \in Writers,
            OpenRead(w) \/ OpenRefused(w) \/ Append(w)
      PROVE  OneOpenConversation'
  BY <1>3 DEF Append, OpenRead, OpenRefused
<1>4. ASSUME NEW p \in Posts,
            Respond(p) \/ ComposeRead(p) \/ SendAnswer(p)
            \/ DiscardPendingDrafts(p) \/ WriteDraft(p)
            \/ ClearFlag(p) \/ RaiseFlag(p)
      PROVE  OneOpenConversation'
  BY <1>4
  DEF ClearFlag, ComposeRead, DiscardPendingDrafts, RaiseFlag, Respond,
      SendAnswer, WriteDraft, Flag
<1>5. ASSUME NEW o \in Operators,
            ReplyRead(o) \/ ReplyWrite(o) \/ PickDraft(o) \/ DraftRead(o)
            \/ SendDraft(o) \/ DiscardDraft(o) \/ DraftGone(o)
            \/ MarkAdminRead(o)
      PROVE  OneOpenConversation'
  BY <1>5
  DEF DiscardDraft, DraftGone, DraftRead, MarkAdminRead, PickDraft, ReplyRead,
      ReplyWrite, SendDraft, MarkOwnerMessages
<1>6. ASSUME NEW c \in Convs, NEW m \in Switches,
            SetMode(c, m)
      PROVE  OneOpenConversation'
  BY <1>6 DEF SetMode
<1>7. ASSUME NEW c \in Convs,
            Select(c)
      PROVE  OneOpenConversation'
  BY <1>7 DEF Select
<1>8. ASSUME NEW s \in Polls,
            PollAsk(s) \/ PollList(s) \/ PollMark(s) \/ PollDeliver(s)
            \/ PollLost(s)
      PROVE  OneOpenConversation'
  BY <1>8
  DEF PollAsk, PollDeliver, PollList, PollLost, PollMark, MarkOwnerMessages
<1>9. ASSUME NEW t \in Threads,
            Crash(t)
      PROVE  OneOpenConversation'
  BY <1>9 DEF Crash
<1>10. CASE Tick
  BY <1>10 DEF Tick
<1> QED
  BY <1>1, <1>2, <1>3, <1>4, <1>5, <1>6, <1>7, <1>8, <1>9, <1>10
  DEF ComposeStep, Next, OperatorStep, PollStep, WriterStep

(* For any number of first messages, notices and resolutions, a store has    *)
(* at most one open conversation (findOrCreateOpenConversation's index).     *)
THEOREM OneOpen == Spec => []OneOpenConversation
<1>1. Init => OneOpenConversation
  BY NamesAssumption DEF Convs, Init, OneOpenConversation, OpenConvs
<1>2. TypeOK /\ ChatKnowledge /\ OneOpenConversation /\ [Next]_vars
      => OneOpenConversation'
  <2>1. CASE Next
    BY <2>1, OneOpenKept
  <2>2. CASE UNCHANGED vars
    BY <2>2 DEF OneOpenConversation, OpenConvs, conversations, vars
  <2> QED
    BY <2>1, <2>2
<1> QED
  BY <1>1, <1>2, TypeCorrect, PTL DEF Spec

(* An answer is sent where the assistant is trusted, or by an operator.      *)
LEMMA NothingUnapprovedEverKept ==
  ASSUME TypeOK, ChatKnowledge, NothingUnapproved, Next
  PROVE  NothingUnapproved'
<1> USE DEF End, Exists, GoTo, IsSent, NothingUnapproved, Stamp, TypeOK,
            history, messages
<1>1. ASSUME NEW w \in Writers, Append(w) PROVE NothingUnapproved'
  <2>1. \A n \in AiSays : IsSent(n) => row'[n] = row[n]
    BY <1>1, SentIsKept, Authors DEF SentKept
  <2>2. ASSUME NEW n \in AiSays, IsSent(n)', ~IsSent(n)
        PROVE  n \in approved' \/ row'[n].conv \in trusted'
    BY <1>1, <2>2, Authors
    DEF Append, Exists, IsSent, RowsOK, TypeOK, Write
  <2> QED
    BY <1>1, <2>1, <2>2
    DEF Append, IsSent, NothingUnapproved, history
<1>2. ASSUME NEW p \in Posts, SendAnswer(p) PROVE NothingUnapproved'
  <2>1. \A n \in AiSays : IsSent(n) => row'[n] = row[n]
    BY <1>2, SentIsKept, Authors DEF SentKept
  <2>2. ASSUME NEW n \in AiSays, IsSent(n)', ~IsSent(n)
        PROVE  n \in approved' \/ row'[n].conv \in trusted'
    <3>1. n = <<"ai", p>>
      BY <1>2, <2>2, Authors
      DEF SendAnswer, Exists, IsSent, RowsOK, TypeOK, Write
    <3>2. chat[p] \in trusted
      BY <1>2 DEF SendAnswer, Autonomous, ChatKnowledge, TrustIsRecorded
    <3> QED
      BY <1>2, <3>1, <3>2, Authors DEF SendAnswer, RowsOK, TypeOK, Write
  <2> QED
    BY <1>2, <2>1, <2>2
    DEF SendAnswer, IsSent, NothingUnapproved, history
<1>3. ASSUME NEW p \in Posts, DiscardPendingDrafts(p) PROVE NothingUnapproved'
  BY <1>3, Authors DEF DiscardPendingDrafts
<1>4. ASSUME NEW p \in Posts, WriteDraft(p) PROVE NothingUnapproved'
  <2>1. \A n \in AiSays : IsSent(n) => row'[n] = row[n]
    BY <1>4, SentIsKept, Authors DEF SentKept
  <2>2. ASSUME NEW n \in AiSays, IsSent(n)', ~IsSent(n)
        PROVE  n \in approved' \/ row'[n].conv \in trusted'
    BY <1>4, <2>2, Authors
    DEF WriteDraft, Exists, IsSent, RowsOK, TypeOK, Write
  <2> QED
    BY <1>4, <2>1, <2>2
    DEF WriteDraft, IsSent, NothingUnapproved, history
<1>5. ASSUME NEW o \in Operators, ReplyWrite(o) PROVE NothingUnapproved'
  <2>1. \A n \in AiSays : IsSent(n) => row'[n] = row[n]
    BY <1>5, SentIsKept, Authors DEF SentKept
  <2>2. ASSUME NEW n \in AiSays, IsSent(n)', ~IsSent(n)
        PROVE  n \in approved' \/ row'[n].conv \in trusted'
    BY <1>5, <2>2, Authors
    DEF ReplyWrite, Exists, IsSent, RowsOK, TypeOK, Write
  <2> QED
    BY <1>5, <2>1, <2>2
    DEF ReplyWrite, IsSent, NothingUnapproved, history
<1>6. ASSUME NEW o \in Operators, SendDraft(o) PROVE NothingUnapproved'
  <2>1. \A n \in AiSays : IsSent(n) => row'[n] = row[n]
    BY <1>6, SentIsKept, Authors DEF SentKept
  <2>2. ASSUME NEW n \in AiSays, IsSent(n)', ~IsSent(n)
        PROVE  n \in approved' \/ row'[n].conv \in trusted'
    BY <1>6, <2>2, Authors
    DEF SendDraft, Exists, IsSent, RowsOK, TypeOK, Write
  <2> QED
    BY <1>6, <2>1, <2>2
    DEF SendDraft, IsSent, NothingUnapproved, history
<1>7. ASSUME NEW o \in Operators, DiscardDraft(o) PROVE NothingUnapproved'
  BY <1>7 DEF DiscardDraft, RowsOK
<1>8. ASSUME NEW c \in Convs, NEW m \in Switches, SetMode(c, m)
      PROVE  NothingUnapproved'
  BY <1>8 DEF SetMode
<1>9. ASSUME NEW w \in Writers,
            OpenRead(w) \/ OpenInsert(w) \/ OpenRefused(w)
      PROVE  NothingUnapproved'
  BY <1>9 DEF OpenInsert, OpenRead, OpenRefused
<1>10. ASSUME NEW p \in Posts,
            Respond(p) \/ ComposeRead(p) \/ ClearFlag(p)
            \/ RaiseFlag(p)
      PROVE  NothingUnapproved'
  BY <1>10 DEF ClearFlag, ComposeRead, RaiseFlag, Respond, Flag
<1>11. ASSUME NEW o \in Operators,
            ReplyRead(o) \/ PickDraft(o) \/ DraftRead(o) \/ DraftGone(o)
            \/ MarkAdminRead(o)
      PROVE  NothingUnapproved'
  BY <1>11
  DEF DraftGone, DraftRead, MarkAdminRead, PickDraft, ReplyRead,
      MarkOwnerMessages
<1>12. ASSUME NEW c \in Convs,
            Resolve(c) \/ Select(c)
      PROVE  NothingUnapproved'
  BY <1>12 DEF Resolve, Select
<1>13. ASSUME NEW s \in Polls,
            PollAsk(s) \/ PollList(s) \/ PollMark(s) \/ PollDeliver(s)
            \/ PollLost(s)
      PROVE  NothingUnapproved'
  BY <1>13
  DEF PollAsk, PollDeliver, PollList, PollLost, PollMark, MarkOwnerMessages
<1>14. ASSUME NEW t \in Threads,
            Crash(t)
      PROVE  NothingUnapproved'
  BY <1>14 DEF Crash
<1>15. CASE Tick
  BY <1>15 DEF Tick
<1> QED
  BY <1>1, <1>2, <1>3, <1>4, <1>5, <1>6, <1>7, <1>8, <1>9, <1>10,
     <1>11,
     <1>12, <1>13, <1>14, <1>15
  DEF ComposeStep, Next, OperatorStep, PollStep, WriterStep

(* For every interleaving of compositions, mode changes and draft actions,   *)
(* nothing of the assistant's reaches the owner unapproved and untrusted.   *)
THEOREM NothingUnapprovedEver == Spec => []NothingUnapproved
<1>1. Init => NothingUnapproved
  BY DEF AiSays, Exists, Init, IsSent, Messages, NothingUnapproved
<1>2. TypeOK /\ ChatKnowledge /\ NothingUnapproved /\ [Next]_vars
      => NothingUnapproved'
  <2>1. CASE Next
    BY <2>1, NothingUnapprovedEverKept
  <2>2. CASE UNCHANGED vars
    BY <2>2 DEF Exists, IsSent, NothingUnapproved, history, messages, vars
  <2> QED
    BY <2>1, <2>2
<1> QED
  BY <1>1, <1>2, TypeCorrect, PTL DEF Spec

(* A step puts on a screen what is sent.                                    *)
LEMMA NoDraftOnScreenEverKept ==
  ASSUME TypeOK, ChatKnowledge, NoDraftOnScreen, Next
  PROVE  NoDraftOnScreen'
<1> USE SentIsKept
        DEF End, Exists, GoTo, IsSent, NoDraftOnScreen, NoteIfBehind,
            SentKept, TypeOK, Write, messages, screens
<1>1. ASSUME NEW w \in Writers, Append(w) PROVE NoDraftOnScreen'
  BY <1>1 DEF Append
<1>2. ASSUME NEW p \in Posts, Respond(p) PROVE NoDraftOnScreen'
  <2>1. IsSent(<<"owner", p>>)
    BY <1>2 DEF Respond, ChatKnowledge, RowsAreThere
  <2>2. \A r \in Readers : screen'[r] \subseteq screen[r] \cup {<<"owner", p>>}
    BY <1>2 DEF Respond, ScreensOK, TypeOK
  <2>3. poll' = poll /\ row' = row
    BY <1>2 DEF Respond, messages
  <2> QED
    BY <2>1, <2>2, <2>3 DEF Exists, IsSent, NoDraftOnScreen
<1>3. ASSUME NEW p \in Posts, SendAnswer(p) PROVE NoDraftOnScreen'
  BY <1>3 DEF SendAnswer
<1>4. ASSUME NEW p \in Posts, DiscardPendingDrafts(p) PROVE NoDraftOnScreen'
  BY <1>4 DEF DiscardPendingDrafts
<1>5. ASSUME NEW p \in Posts, WriteDraft(p) PROVE NoDraftOnScreen'
  BY <1>5 DEF WriteDraft
<1>6. ASSUME NEW o \in Operators, ReplyWrite(o) PROVE NoDraftOnScreen'
  BY <1>6 DEF ReplyWrite
<1>7. ASSUME NEW o \in Operators, SendDraft(o) PROVE NoDraftOnScreen'
  BY <1>7 DEF SendDraft
<1>8. ASSUME NEW o \in Operators, DiscardDraft(o) PROVE NoDraftOnScreen'
  BY <1>8 DEF DiscardDraft
<1>9. ASSUME NEW c \in Convs, Select(c) PROVE NoDraftOnScreen'
  <2>1. \A q \in Polls : poll'[q].page \in {poll[q].page, {}}
    BY <1>9 DEF Select, NoPoll, PollStates, ScreensOK, TypeOK
  <2>2. \A r \in Readers : screen'[r] \subseteq screen[r]
    BY <1>9 DEF Select, ScreensOK, TypeOK
  <2>3. row' = row
    BY <1>9 DEF Select, messages
  <2> QED
    BY <2>1, <2>2, <2>3 DEF Exists, IsSent, NoDraftOnScreen
<1>10. ASSUME NEW s \in Polls, PollAsk(s) PROVE NoDraftOnScreen'
  <2>1. \A q \in Polls : poll'[q].page \in {poll[q].page, {}}
    <3>1. PICK c \in (IF s \in OwnerPolls THEN OpenConvs ELSE {selected} \ {None}) :
            poll' = [poll EXCEPT ![s] =
                       [NoPoll EXCEPT !.pc = "asked", !.conv = c,
                                      !.after = cursor[Reader(s)]]]
      BY <1>10 DEF PollAsk
    <3>2. [NoPoll EXCEPT !.pc = "asked", !.conv = c,
                         !.after = cursor[Reader(s)]].page = {}
      BY DEF NoPoll
    <3> QED
      BY <3>1, <3>2 DEF ScreensOK, TypeOK
  <2>2. screen' = screen /\ row' = row
    BY <1>10 DEF PollAsk, messages
  <2> QED
    BY <2>1, <2>2 DEF Exists, IsSent, NoDraftOnScreen
<1>11. ASSUME NEW s \in Polls, PollList(s) PROVE NoDraftOnScreen'
  <2> DEFINE page == FirstPage(Waiting(poll[s].conv, poll[s].after))
  <2>1. \A q \in Polls : poll'[q].page \in {poll[q].page, page}
    <3> HIDE DEF page
    <3> QED
      BY <1>11 DEF PollList, PollStates, ScreensOK, TypeOK, page
  <2>2. \A m \in page : IsSent(m)
    BY PagesAreWaiting
  <2>3. screen' = screen /\ row' = row
    BY <1>11 DEF PollList, messages
  <2> HIDE DEF page
  <2> QED
    BY <2>1, <2>2, <2>3 DEF Exists, IsSent, NoDraftOnScreen
<1>12. ASSUME NEW s \in Polls, PollMark(s) PROVE NoDraftOnScreen'
  <2>1. \A q \in Polls : poll'[q].page \in {poll[q].page, {}}
    BY <1>12 DEF PollMark, NoPoll, PollStates, ScreensOK, TypeOK
  <2>2. \A r \in Readers : screen'[r] \subseteq screen[r]
    BY <1>12 DEF PollMark, ScreensOK, TypeOK
  <2>3. row' = row
    BY <1>12 DEF PollMark, messages
  <2> QED
    BY <2>1, <2>2, <2>3 DEF Exists, IsSent, NoDraftOnScreen
<1>13. ASSUME NEW s \in Polls, PollDeliver(s) PROVE NoDraftOnScreen'
  <2>1. \A r \in Readers : screen'[r] \subseteq screen[r] \cup poll[s].page
    BY <1>13 DEF PollDeliver, ScreensOK, TypeOK
  <2>2. \A q \in Polls : poll'[q].page \in {poll[q].page, {}}
    BY <1>13 DEF NoPoll, PollDeliver, ScreensOK, TypeOK
  <2>3. row' = row
    BY <1>13 DEF PollDeliver, messages
  <2> QED
    BY <2>1, <2>2, <2>3 DEF Exists, IsSent, NoDraftOnScreen
<1>14. ASSUME NEW s \in Polls, PollLost(s) PROVE NoDraftOnScreen'
  <2>1. \A q \in Polls : poll'[q].page \in {poll[q].page, {}}
    BY <1>14 DEF PollLost, NoPoll, PollStates, ScreensOK, TypeOK
  <2>2. \A r \in Readers : screen'[r] \subseteq screen[r]
    BY <1>14 DEF PollLost, ScreensOK, TypeOK
  <2>3. row' = row
    BY <1>14 DEF PollLost, messages
  <2> QED
    BY <2>1, <2>2, <2>3 DEF Exists, IsSent, NoDraftOnScreen
<1>15. ASSUME NEW w \in Writers,
            OpenRead(w) \/ OpenInsert(w) \/ OpenRefused(w)
      PROVE  NoDraftOnScreen'
  BY <1>15 DEF OpenInsert, OpenRead, OpenRefused, Stamp
<1>16. ASSUME NEW p \in Posts,
            ComposeRead(p) \/ ClearFlag(p) \/ RaiseFlag(p)
      PROVE  NoDraftOnScreen'
  BY <1>16 DEF ClearFlag, ComposeRead, RaiseFlag, Flag, Stamp
<1>17. ASSUME NEW o \in Operators,
            ReplyRead(o) \/ PickDraft(o) \/ DraftRead(o) \/ DraftGone(o)
            \/ MarkAdminRead(o)
      PROVE  NoDraftOnScreen'
  BY <1>17
  DEF DraftGone, DraftRead, MarkAdminRead, PickDraft, ReplyRead,
      MarkOwnerMessages,
      Stamp
<1>18. ASSUME NEW c \in Convs,
            Resolve(c)
      PROVE  NoDraftOnScreen'
  BY <1>18 DEF Resolve
<1>19. ASSUME NEW c \in Convs, NEW m \in Switches,
            SetMode(c, m)
      PROVE  NoDraftOnScreen'
  BY <1>19 DEF SetMode
<1>20. ASSUME NEW t \in Threads,
            Crash(t)
      PROVE  NoDraftOnScreen'
  BY <1>20 DEF Crash
<1>21. CASE Tick
  BY <1>21 DEF Tick
<1> QED
  BY <1>1, <1>2, <1>3, <1>4, <1>5, <1>6, <1>7, <1>8, <1>9, <1>10,
     <1>11,
     <1>12, <1>13, <1>14, <1>15, <1>16, <1>17, <1>18, <1>19, <1>20, <1>21
  DEF ComposeStep, Next, OperatorStep, PollStep, WriterStep

(* No screen ever shows a draft, a discarded answer or a row of the past,     *)
(* whatever the polls lose or overtake (readMessagePage's status filter).   *)
THEOREM NoDraftOnScreenEver == Spec => []NoDraftOnScreen
<1>1. Init => NoDraftOnScreen
  BY DEF Init, NoDraftOnScreen, NoPoll
<1>2. TypeOK /\ ChatKnowledge /\ NoDraftOnScreen /\ [Next]_vars
      => NoDraftOnScreen'
  <2>1. CASE Next
    BY <2>1, NoDraftOnScreenEverKept
  <2>2. CASE UNCHANGED vars
    BY <2>2 DEF Exists, IsSent, NoDraftOnScreen, messages, screens, vars
  <2> QED
    BY <2>1, <2>2
<1> QED
  BY <1>1, <1>2, TypeCorrect, PTL DEF Spec

(* A flag goes down only where a composition has answered.                  *)
LEMMA FailureShowsEverKept ==
  ASSUME TypeOK, ChatKnowledge, FailureShows, Next
  PROVE  FailureShows'
<1> USE DEF ChatKnowledge, End, Ended, FailureShows, GoTo, RowsOK, Threads,
            ThreadsKnow, ThreadsOK, TypeOK, Writers, conversations, locals,
            threads
<1>1. ASSUME NEW w \in Writers, OpenRead(w) PROVE FailureShows'
  BY <1>1 DEF OpenRead, Stamp
<1>2. ASSUME NEW w \in Writers, OpenInsert(w) PROVE FailureShows'
  BY <1>2 DEF OpenInsert
<1>3. ASSUME NEW w \in Writers, OpenRefused(w) PROVE FailureShows'
  BY <1>3 DEF OpenRefused
<1>4. ASSUME NEW w \in Writers, Append(w) PROVE FailureShows'
  BY <1>4 DEF Append, NoteIfBehind, Write
<1>5. ASSUME NEW p \in Posts, Respond(p) PROVE FailureShows'
  BY <1>5 DEF Respond
<1>6. ASSUME NEW p \in Posts, ComposeRead(p) PROVE FailureShows'
  BY <1>6 DEF ComposeRead, Stamp
<1>7. ASSUME NEW p \in Posts, SendAnswer(p) PROVE FailureShows'
  BY <1>7 DEF SendAnswer, NoteIfBehind, Write
<1>8. ASSUME NEW p \in Posts, DiscardPendingDrafts(p) PROVE FailureShows'
  BY <1>8 DEF DiscardPendingDrafts
<1>9. ASSUME NEW p \in Posts, WriteDraft(p) PROVE FailureShows'
  BY <1>9 DEF WriteDraft, NoteIfBehind, Write
<1>10. ASSUME NEW p \in Posts, ClearFlag(p) PROVE FailureShows'
  BY <1>10 DEF ClearFlag
<1>11. ASSUME NEW p \in Posts, RaiseFlag(p) PROVE FailureShows'
  BY <1>11 DEF RaiseFlag, Flag
<1>12. ASSUME NEW o \in Operators, ReplyRead(o) PROVE FailureShows'
  BY <1>12 DEF ReplyRead, Stamp
<1>13. ASSUME NEW o \in Operators, ReplyWrite(o) PROVE FailureShows'
  BY <1>13 DEF ReplyWrite, NoteIfBehind, Write
<1>14. ASSUME NEW o \in Operators, PickDraft(o) PROVE FailureShows'
  BY <1>14 DEF PickDraft, Stamp
<1>24. ASSUME NEW o \in Operators, DraftRead(o) PROVE FailureShows'
  BY <1>24 DEF DraftRead, Stamp
<1>15. ASSUME NEW o \in Operators, SendDraft(o) PROVE FailureShows'
  BY <1>15 DEF SendDraft, NoteIfBehind, Write
<1>16. ASSUME NEW o \in Operators, DiscardDraft(o) PROVE FailureShows'
  BY <1>16 DEF DiscardDraft
<1>17. ASSUME NEW o \in Operators, DraftGone(o) PROVE FailureShows'
  BY <1>17 DEF DraftGone
<1>18. ASSUME NEW o \in Operators, MarkAdminRead(o) PROVE FailureShows'
  BY <1>18 DEF MarkAdminRead, MarkOwnerMessages
<1>19. ASSUME NEW t \in Threads, Crash(t) PROVE FailureShows'
  BY <1>19 DEF Crash
<1>20. ASSUME NEW c \in Convs,
            Resolve(c) \/ Select(c)
      PROVE  FailureShows'
  BY <1>20 DEF Resolve, Select
<1>21. ASSUME NEW c \in Convs, NEW m \in Switches,
            SetMode(c, m)
      PROVE  FailureShows'
  BY <1>21 DEF SetMode
<1>22. ASSUME NEW s \in Polls,
            PollAsk(s) \/ PollList(s) \/ PollMark(s) \/ PollDeliver(s)
            \/ PollLost(s)
      PROVE  FailureShows'
  BY <1>22
  DEF PollAsk, PollDeliver, PollList, PollLost, PollMark, MarkOwnerMessages
<1>23. CASE Tick
  BY <1>23 DEF Tick
<1> QED
  BY <1>1, <1>2, <1>3, <1>4, <1>5, <1>6, <1>7, <1>8, <1>9, <1>10,
     <1>11,
     <1>12, <1>13, <1>14, <1>24, <1>15, <1>16, <1>17, <1>18, <1>19, <1>20,
     <1>21,
     <1>22, <1>23
  DEF ComposeStep, Next, OperatorStep, PollStep, WriterStep

(* A failed composition stays visible in the inbox until an answer, for any  *)
(* number of compositions that run side by side.                            *)
THEOREM FailureShowsEver == Spec => []FailureShows
<1>1. Init => FailureShows
  BY DEF Ended, FailureShows, Init, Threads, Writers
<1>2. TypeOK /\ ChatKnowledge /\ FailureShows /\ [Next]_vars => FailureShows'
  <2>1. CASE Next
    BY <2>1, FailureShowsEverKept
  <2>2. CASE UNCHANGED vars
    BY <2>2 DEF FailureShows, conversations, locals, threads, vars
  <2> QED
    BY <2>1, <2>2
<1> QED
  BY <1>1, <1>2, TypeCorrect, PTL DEF Spec

(* A sent message is never changed, moved or deleted, by whatever send,       *)
(* discard or newer draft races it.                                         *)
THEOREM SentIsFinalEver == Spec => SentIsFinal
<1>1. TypeOK /\ ChatKnowledge /\ [Next]_vars
      => [\A m \in Messages : IsSent(m) => row'[m] = row[m]]_vars
  BY SentIsKept DEF SentKept
<1> QED
  BY <1>1, TypeCorrect, PTL DEF SentIsFinal, Spec

-------------------------------------------------------------------------------
(* The refinement: CsChat implements CsPromise.                             *)

LEMMA SameSayings == Promise!Sayings = Messages
  BY DEF Promise!Sayings, Messages

(* The status of a line is the status of its row.                           *)
LEMMA Lines ==
  ASSUME RowsOK
  PROVE  /\ \A m \in Messages : Line(m) = None <=> row[m] = None
         /\ Promise!Said = {m \in Messages : IsSent(m)}
         /\ Promise!Proposed = {m \in Messages : IsDraft(m)}
<1>1. \A m \in Messages : row[m] \in Rows \cup {None}
  BY DEF RowsOK
<1>2. \A m \in Messages : row[m] \in Rows =>
        [conv |-> row[m].conv, status |-> row[m].status] # None
  BY LineAssumption DEF Rows
<1>3. \A m \in Messages :
        /\ Line(m) = None <=> row[m] = None
        /\ row[m] # None => Line(m).status = row[m].status
  BY <1>1, <1>2 DEF Line
<1> QED
  BY <1>3, SameSayings
  DEF Exists, IsDraft, IsSent, Promise!Proposed, Promise!Said

(* A written row is a line put into the transcript, a discarded draft one    *)
(* taken out.                                                              *)
LEMMA WriteIsPut ==
  ASSUME RowsOK, NEW m \in Messages, NEW c \in Convs,
         NEW status \in {"draft", "sent"}, NEW at \in Stamps,
         row' = [row EXCEPT ![m] = [conv |-> c, status |-> status, at |-> at]]
  PROVE  Promise!Put(m, c, status)
<1> DEFINE new == [conv |-> c, status |-> status, at |-> at]
<1>1. new # None
  BY NamesAssumption DEF Rows
<1>2. row' = [n \in Messages |-> IF n = m THEN new ELSE row[n]]
  BY DEF RowsOK
<1>3. \A n \in Messages :
        Line(n)' = IF n = m THEN [conv |-> c, status |-> status] ELSE Line(n)
  BY <1>1, <1>2 DEF Line
<1> QED
  BY <1>3 DEF Promise!Put

LEMMA DiscardIsWithdrawal ==
  ASSUME RowsOK, NEW S, \A m \in S : m \in Messages /\ IsDraft(m),
         row' = [m \in Messages |-> IF m \in S THEN None ELSE row[m]],
         UNCHANGED <<trusted, screen>>
  PROVE  Promise!Withdraw(S)
<1>1. S \subseteq Promise!Proposed
  BY Lines
<1>2. \A m \in Messages : Line(m)' = IF m \in S THEN None ELSE Line(m)
  BY DEF Line
<1> QED
  BY <1>1, <1>2, SameSayings DEF Promise!Withdraw

LEMMA Stutter ==
  ASSUME UNCHANGED <<row, trusted>>, screen'["widget"] = screen["widget"]
  PROVE  UNCHANGED Promise!vars
  BY DEF Line, Promise!vars

(* The owner's screen gains rows that are sent.                            *)
LEMMA ScreenIsShow ==
  ASSUME RowsOK, UNCHANGED <<row, trusted>>, NEW S,
         \A m \in S : m \in Messages /\ IsSent(m),
         \A m \in screen["widget"] : m \in Messages /\ IsSent(m),
         screen'["widget"] = screen["widget"] \cup S
  PROVE  Promise!Show
  BY Lines DEF Line, Promise!Show

LEMMA ShownIsSent ==
  ASSUME ScreensOK, NoDraftOnScreen
  PROVE  /\ \A m \in screen["widget"] : m \in Messages /\ IsSent(m)
         /\ \A s \in Polls : \A m \in poll[s].page : m \in Messages /\ IsSent(m)
  BY DEF NoDraftOnScreen, PollStates, Readers, ScreensOK

(* Every step of the chat is a step of the promise, or none.                *)
LEMMA StepKeepsPromise ==
  ASSUME RowsOK, ThreadsOK, ScreensOK, ChatKnowledge, NoDraftOnScreen, Next
  PROVE  [Promise!Next]_(Promise!vars)
<1> USE Stutter
        DEF End, GoTo, Stamp, history, messages, screens
<1>1. ASSUME NEW w \in Writers, Append(w) PROVE [Promise!Next]_(Promise!vars)
  <2>1. MessageOf(w) \in Messages \ AiSays /\ row[MessageOf(w)] = None
    BY <1>1, Authors DEF Append, ChatKnowledge, RowsAreFresh
  <2>2. chat[w] \in Convs /\ now[w] \in Stamps
    BY <1>1
    DEF Append, ChatKnowledge, Ended, Threads, ThreadsKnow, ThreadsOK, Writers
  <2>3. Promise!Put(MessageOf(w), chat[w], "sent")
    BY <1>1, <2>1, <2>2, WriteIsPut DEF Append, Write
  <2>4. Line(MessageOf(w)) = None
    BY <2>1, Lines
  <2>5. Promise!Say(MessageOf(w), chat[w])
    BY <1>1, <2>1, <2>3, <2>4 DEF Append, Promise!Say, screens
  <2> QED
    BY <2>1, <2>2, <2>5, SameSayings DEF Promise!Next
<1>2. ASSUME NEW p \in Posts, Respond(p) PROVE [Promise!Next]_(Promise!vars)
  <2>1. <<"owner", p>> \in Messages /\ IsSent(<<"owner", p>>)
    BY <1>2, Authors DEF ChatKnowledge, Respond, RowsAreThere
  <2>2. UNCHANGED <<row, trusted>>
    BY <1>2 DEF Respond, history, messages
  <2>3. CASE screen' = [screen EXCEPT !["widget"] = @ \cup {<<"owner", p>>}]
    <3>1. screen'["widget"] = screen["widget"] \cup {<<"owner", p>>}
      BY <2>3 DEF Readers, ScreensOK
    <3>2. Promise!Show
      BY <2>1, <2>2, <3>1, ScreenIsShow, ShownIsSent
    <3> QED
      BY <3>2 DEF Promise!Next
  <2>4. CASE screen' = screen
    BY <2>2, <2>4, Stutter
  <2> QED
    BY <1>2, <2>3, <2>4 DEF Respond
<1>3. ASSUME NEW p \in Posts, SendAnswer(p) PROVE [Promise!Next]_(Promise!vars)
  <2> DEFINE m == <<"ai", p>>
  <2>1. m \in Messages /\ row[m] = None
    BY <1>3, Authors DEF SendAnswer, ChatKnowledge, RowsAreFresh
  <2>2. chat[p] \in Convs /\ now[p] \in Stamps
    BY <1>3
    DEF SendAnswer, ChatKnowledge, Ended, Threads, ThreadsKnow, ThreadsOK,
        Writers
  <2>3. chat[p] \in trusted
    BY <1>3 DEF Autonomous, ChatKnowledge, SendAnswer, TrustIsRecorded
  <2>4. Promise!Put(m, chat[p], "sent") /\ Line(m) = None
    BY <1>3, <2>1, <2>2, Lines, WriteIsPut DEF SendAnswer, Write
  <2>5. Promise!Say(m, chat[p])
    BY <1>3, <2>1, <2>3, <2>4 DEF SendAnswer, Promise!Say, screens
  <2> QED
    BY <2>1, <2>2, <2>5, SameSayings DEF Promise!Next
<1>4. ASSUME NEW p \in Posts, DiscardPendingDrafts(p)
      PROVE  [Promise!Next]_(Promise!vars)
  <2> DEFINE S == Drafts(chat[p])
  <2>1. \A m \in S : m \in Messages /\ m \in AiSays /\ IsDraft(m)
    BY <1>4, Authors DEF Drafts, ChatKnowledge, RowsAreThere, ThreadsKnow
  <2>2. row' = [m \in Messages |-> IF m \in S THEN None ELSE row[m]]
    BY <1>4 DEF DiscardPendingDrafts, RowsOK
  <2>3. Promise!Withdraw(S)
    <3> HIDE DEF S
    <3> QED
      BY <1>4, <2>1, <2>2, DiscardIsWithdrawal
      DEF DiscardPendingDrafts, history, screens
  <2> QED
    BY <2>1, <2>3 DEF Promise!Next
<1>5. ASSUME NEW p \in Posts, WriteDraft(p) PROVE [Promise!Next]_(Promise!vars)
  <2> DEFINE m == <<"ai", p>>
  <2>1. m \in AiSays /\ m \in Messages /\ row[m] = None
    BY <1>5, Authors DEF WriteDraft, ChatKnowledge, RowsAreFresh
  <2>2. chat[p] \in Convs /\ now[p] \in Stamps
    BY <1>5
    DEF WriteDraft, ChatKnowledge, Ended, Threads, ThreadsKnow, ThreadsOK,
        Writers
  <2>3. Promise!Put(m, chat[p], "draft") /\ Line(m) = None
    BY <1>5, <2>1, <2>2, Lines, WriteIsPut DEF WriteDraft, Write
  <2>4. Promise!Propose(m, chat[p])
    BY <1>5, <2>1, <2>3 DEF WriteDraft, Promise!Propose, screens
  <2> QED
    BY <2>1, <2>2, <2>4 DEF Promise!Next
<1>6. ASSUME NEW o \in Operators, ReplyWrite(o)
      PROVE  [Promise!Next]_(Promise!vars)
  <2>1. <<"admin", o>> \in Messages \ AiSays /\ row[<<"admin", o>>] = None
    BY <1>6, Authors DEF ReplyWrite, ChatKnowledge, RowsAreFresh
  <2>2. chat[o] \in Convs /\ now[o] \in Stamps
    BY <1>6
    DEF ReplyWrite, ChatKnowledge, Ended, Threads, ThreadsKnow, ThreadsOK,
        Writers
  <2>3. Promise!Put(<<"admin", o>>, chat[o], "sent")
    BY <1>6, <2>1, <2>2, WriteIsPut DEF ReplyWrite, Write
  <2>4. Line(<<"admin", o>>) = None
    BY <2>1, Lines
  <2>5. Promise!Say(<<"admin", o>>, chat[o])
    BY <1>6, <2>1, <2>3, <2>4 DEF ReplyWrite, Promise!Say, screens
  <2> QED
    BY <2>1, <2>2, <2>5, SameSayings DEF Promise!Next
<1>7. ASSUME NEW o \in Operators, SendDraft(o)
      PROVE  [Promise!Next]_(Promise!vars)
  <2>1. PICK m \in AiSays : m = target[o]
    BY <1>7 DEF ChatKnowledge, SendDraft, ThreadsKnow
  <2>2. m \in Messages /\ IsDraft(m) /\ row[m].conv = chat[o]
    BY <1>7, <2>1, Authors DEF In, Pending, SendDraft
  <2>3. chat[o] \in Convs /\ now[o] \in Stamps
    BY <1>7
    DEF ChatKnowledge, Ended, SendDraft, Threads, ThreadsKnow, ThreadsOK
  <2>4. Promise!Put(m, chat[o], "sent")
    BY <1>7, <2>1, <2>2, <2>3, WriteIsPut DEF PromotedAt, SendDraft, Write
  <2>5. m \in Promise!Proposed /\ Line(m).conv = chat[o]
    BY <2>2, Lines DEF Exists, IsDraft, Line
  <2>6. Promise!Approve(m)
    BY <1>7, <2>2, <2>4, <2>5 DEF Promise!Approve, SendDraft, screens
  <2> QED
    BY <2>1, <2>6 DEF Promise!Next
<1>8. ASSUME NEW o \in Operators, DiscardDraft(o)
      PROVE  [Promise!Next]_(Promise!vars)
  <2> DEFINE S == {target[o]}
  <2>1. \A m \in S : m \in Messages /\ m \in AiSays /\ IsDraft(m)
    BY <1>8, Authors
    DEF DiscardDraft, Pending, ChatKnowledge, RowsAreThere, ThreadsKnow
  <2>2. row' = [m \in Messages |-> IF m \in S THEN None ELSE row[m]]
    BY <1>8 DEF DiscardDraft, RowsOK
  <2>3. Promise!Withdraw(S)
    <3> HIDE DEF S
    <3> QED
      BY <1>8, <2>1, <2>2, DiscardIsWithdrawal
      DEF DiscardDraft, history, screens
  <2> QED
    BY <2>1, <2>3 DEF Promise!Next
<1>9. ASSUME NEW c \in Convs, NEW m \in Switches, SetMode(c, m)
      PROVE  [Promise!Next]_(Promise!vars)
  <2>1. row' = row /\ screen' = screen
    BY <1>9 DEF SetMode, messages, screens
  <2>2. CASE m = "ai"
    <3>1. Promise!Trust(c)
      BY <1>9, <2>1, <2>2 DEF Line, Promise!Trust, SetMode
    <3> QED
      BY <3>1 DEF Promise!Next
  <2>3. CASE m # "ai"
    BY <1>9, <2>1, <2>3, Stutter DEF SetMode
  <2> QED
    BY <2>2, <2>3
<1>10. ASSUME NEW c \in Convs, Select(c) PROVE [Promise!Next]_(Promise!vars)
  <2>1. screen'["widget"] = screen["widget"]
    BY <1>10 DEF Readers, ScreensOK, Select
  <2> QED
    BY <1>10, <2>1, Stutter DEF Select, history, messages
<1>11. ASSUME NEW s \in Polls, PollDeliver(s)
       PROVE  [Promise!Next]_(Promise!vars)
  <2>1. UNCHANGED <<row, trusted>>
    BY <1>11 DEF PollDeliver, history, messages
  <2>2. CASE Reader(s) = "widget"
    <3>1. screen'["widget"] = screen["widget"] \cup poll[s].page
      BY <1>11, <2>2 DEF PollDeliver, Readers, ScreensOK
    <3>2. Promise!Show
      BY <2>1, <3>1, ScreenIsShow, ShownIsSent
    <3> QED
      BY <3>2 DEF Promise!Next
  <2>3. CASE Reader(s) # "widget"
    BY <1>11, <2>1, <2>3, Stutter DEF PollDeliver, Readers, ScreensOK
  <2> QED
    BY <2>2, <2>3
<1>12. ASSUME NEW w \in Writers,
            OpenRead(w) \/ OpenInsert(w) \/ OpenRefused(w)
      PROVE  [Promise!Next]_(Promise!vars)
  BY <1>12 DEF OpenInsert, OpenRead, OpenRefused
<1>13. ASSUME NEW p \in Posts,
            ComposeRead(p) \/ ClearFlag(p) \/ RaiseFlag(p)
      PROVE  [Promise!Next]_(Promise!vars)
  BY <1>13 DEF ClearFlag, ComposeRead, RaiseFlag, Flag
<1>14. ASSUME NEW o \in Operators,
            ReplyRead(o) \/ PickDraft(o) \/ DraftRead(o) \/ DraftGone(o)
            \/ MarkAdminRead(o)
      PROVE  [Promise!Next]_(Promise!vars)
  BY <1>14
  DEF DraftGone, DraftRead, MarkAdminRead, PickDraft, ReplyRead,
      MarkOwnerMessages
<1>15. ASSUME NEW c \in Convs,
            Resolve(c)
      PROVE  [Promise!Next]_(Promise!vars)
  BY <1>15 DEF Resolve
<1>16. ASSUME NEW s \in Polls,
            PollAsk(s) \/ PollList(s) \/ PollMark(s) \/ PollLost(s)
      PROVE  [Promise!Next]_(Promise!vars)
  BY <1>16 DEF PollAsk, PollList, PollLost, PollMark, MarkOwnerMessages
<1>17. ASSUME NEW t \in Threads,
            Crash(t)
      PROVE  [Promise!Next]_(Promise!vars)
  BY <1>17 DEF Crash
<1>18. CASE Tick
  BY <1>18 DEF Tick
<1> QED
  BY <1>1, <1>2, <1>3, <1>4, <1>5, <1>6, <1>7, <1>8, <1>9, <1>10,
     <1>11,
     <1>12, <1>13, <1>14, <1>15, <1>16, <1>17, <1>18
  DEF ComposeStep, Next, OperatorStep, PollStep, WriterStep

(* For every number of requests, polls and crashes, the transcript the owner  *)
(* sees only grows, and shows nothing of the assistant's that was neither     *)
(* approved nor trusted.                                                    *)
THEOREM Refines == Spec => TranscriptKept
<1>1. Init => Promise!Init
  <2> SUFFICES ASSUME Init PROVE Promise!Init
    OBVIOUS
  <2>1. \A m \in Messages : Line(m) = None
    BY DEF Init, Line
  <2>2. trusted \in SUBSET Convs /\ screen["widget"] = {}
    BY DEF Convs, Init, Readers
  <2> QED
    BY <2>1, <2>2, SameSayings DEF Promise!Init
<1>2. TypeOK /\ ChatKnowledge /\ NoDraftOnScreen /\ [Next]_vars
      => [Promise!Next]_(Promise!vars)
  <2>1. ASSUME TypeOK, ChatKnowledge, NoDraftOnScreen, Next
        PROVE  [Promise!Next]_(Promise!vars)
    BY <2>1, StepKeepsPromise DEF TypeOK
  <2>2. ASSUME UNCHANGED vars PROVE UNCHANGED Promise!vars
    BY <2>2, Stutter DEF history, messages, screens, vars
  <2> QED
    BY <2>1, <2>2
<1> QED
  BY <1>1, <1>2, TypeCorrect, NoDraftOnScreenEver, PTL
  DEF Promise!Spec, Spec, TranscriptKept
-------------------------------------------------------------------------------
(* The two screens' polls: no cursor passes a prompt row.                    *)

(* Positions are totally ordered, and equal ones are one message's.         *)
LEMMA Ordered ==
  ASSUME RowsOK
  PROVE  /\ \A m, n \in Messages :
              Exists(m) /\ Exists(n) /\ m # n
              => \/ Beyond(Position(m), Position(n))
                 \/ Beyond(Position(n), Position(m))
         /\ \A p, q, r \in Positions :
              Beyond(p, q) /\ Beyond(q, r) => Beyond(p, r)
<1>1. \A m \in Messages : Exists(m) =>
        row[m].at \in Int /\ IdRank[m] \in Int
  BY IdAssumption DEF Exists, RowsOK, Rows, Stamps
<1>2. \A p \in Positions : p[1] \in Int /\ p[2] \in Int
  BY IdAssumption DEF Positions, Stamps
<1>3. \A m, n \in Messages :
        Exists(m) /\ Exists(n) /\ m # n
        => \/ Beyond(Position(m), Position(n))
           \/ Beyond(Position(n), Position(m))
  BY <1>1, IdAssumption DEF Beyond, Position
<1>4. \A p, q, r \in Positions :
        Beyond(p, q) /\ Beyond(q, r) => Beyond(p, r)
  BY <1>2 DEF Beyond
<1> QED
  BY <1>3, <1>4

(* A row newly sent comes after every position its readers hold, or is noted *)
(* as behind.                                                              *)
NewRowsAreNoted ==
  \A m \in Messages : IsSent(m)' /\ ~IsSent(m) =>
    \A r \in Readers :
      \/ m \in behind'[r]
      \/ \A p \in HandedOut(r) : Beyond(Position(m)', p)

(* A conversation is never removed, nor a resolved one opened again.        *)
ConversationsOnlyAge ==
  \A c \in Convs : /\ convStatus[c] # "none" => convStatus'[c] # "none"
                   /\ convStatus[c] = "resolved" => convStatus'[c] = "resolved"

BehindGrows == \A r \in Readers : behind[r] \subseteq behind'[r]

(* What a page leaves out comes after all it holds.                        *)
LEMMA PageIsClosed ==
  ASSUME RowsOK, NEW S \in SUBSET {n \in Messages : Exists(n)},
         NEW l \in FirstPage(S), NEW m \in S, m \notin FirstPage(S)
  PROVE  Beyond(Position(m), Position(l))
<1> DEFINE Before(k) == {n \in S : Beyond(Position(k), Position(n))}
<1>1. IsFiniteSet(S) /\ IsFiniteSet(Before(l)) /\ IsFiniteSet(Before(m))
  BY PageAssumption, FS_Subset
<1>2. l \in S /\ Cardinality(Before(l)) < PageSize
      /\ ~(Cardinality(Before(m)) < PageSize)
  BY DEF FirstPage
<1>3. ASSUME Beyond(Position(l), Position(m)) PROVE FALSE
  <2>1. \A k \in S : Position(k) \in Positions
    BY Places
  <2>2. Before(m) \subseteq Before(l)
    BY <1>2, <1>3, <2>1, Ordered
  <2>3. Cardinality(Before(m)) <= Cardinality(Before(l))
    BY <1>1, <2>2, FS_Subset
  <2>4. Cardinality(Before(m)) \in Nat /\ Cardinality(Before(l)) \in Nat
    BY <1>1, FS_CardinalityType
  <2> HIDE DEF Before
  <2> QED
    BY <1>2, <2>3, <2>4, PageAssumption
<1> QED
  BY <1>2, <1>3, Ordered

(* A row that is prompt comes after every position its readers hold.        *)
LEMMA PromptIsBeyond ==
  ASSUME HistoryOK, ScreensOK, NEW m \in Messages, NEW at \in Stamps,
         NoteIfBehind(m, at), NEW r \in Readers
  PROVE  \/ m \in behind'[r]
         \/ \A p \in HandedOut(r) : Beyond(<<at, IdRank[m]>>, p)
<1>1. CASE Prompt(r, at)
  <2>1. \A p \in HandedOut(r) : p[1] < at
    BY <1>1 DEF Prompt
  <2>2. \A p \in HandedOut(r) : p \in Positions
    BY DEF HandedOut, PollStates, ScreensOK
  <2>3. \A p \in HandedOut(r) : p[1] \in Int
    BY <2>2 DEF Positions, Stamps
  <2> QED
    BY <2>1, <2>3 DEF Beyond, Stamps
<1>2. CASE ~Prompt(r, at)
  BY <1>2 DEF HistoryOK, NoteIfBehind
<1> QED
  BY <1>1, <1>2

(* A row is sent behind a reader's positions, or noted as such.              *)
LEMMA NewlySent ==
  ASSUME RowsOK, ThreadsOK, ScreensOK, HistoryOK, ChatKnowledge, Next
  PROVE  NewRowsAreNoted
<1> USE DEF End, Exists, GoTo, IsSent, NewRowsAreNoted, RowsOK, Stamp,
            messages
<1>1. ASSUME NEW w \in Writers, Append(w) PROVE NewRowsAreNoted
  <2>1. MessageOf(w) \in Messages /\ now[w] \in Stamps
    BY <1>1, Authors
    DEF Append, ChatKnowledge, Ended, Threads, ThreadsKnow, ThreadsOK, Writers
  <2>2. row' = [row EXCEPT ![MessageOf(w)] = [conv |-> chat[w], status |-> "sent",
                                     at |-> now[w]]]
    BY <1>1 DEF Append, Write
  <2>3. NoteIfBehind(MessageOf(w), now[w])
    BY <1>1 DEF Append, Write
  <2>4. Position(MessageOf(w))' = <<now[w], IdRank[MessageOf(w)]>>
    BY <2>1, <2>2 DEF Position, RowsOK
  <2>5. \A n \in Messages : n # MessageOf(w) => row'[n] = row[n]
    BY <2>1, <2>2 DEF RowsOK
  <2> QED
    BY <2>1, <2>3, <2>4, <2>5, PromptIsBeyond
    DEF Exists, IsSent, NewRowsAreNoted
<1>2. ASSUME NEW p \in Posts, SendAnswer(p) PROVE NewRowsAreNoted
  <2>1. <<"ai", p>> \in Messages /\ now[p] \in Stamps
    BY <1>2, Authors
    DEF SendAnswer, ChatKnowledge, Ended, Threads, ThreadsKnow, ThreadsOK,
        Writers
  <2>2. row' = [row EXCEPT ![<<"ai", p>>] = [conv |-> chat[p], status |-> "sent",
                                     at |-> now[p]]]
    BY <1>2 DEF SendAnswer, Write
  <2>3. NoteIfBehind(<<"ai", p>>, now[p])
    BY <1>2 DEF SendAnswer, Write
  <2>4. Position(<<"ai", p>>)' = <<now[p], IdRank[<<"ai", p>>]>>
    BY <2>1, <2>2 DEF Position, RowsOK
  <2>5. \A n \in Messages : n # <<"ai", p>> => row'[n] = row[n]
    BY <2>1, <2>2 DEF RowsOK
  <2> QED
    BY <2>1, <2>3, <2>4, <2>5, PromptIsBeyond
    DEF Exists, IsSent, NewRowsAreNoted
<1>3. ASSUME NEW p \in Posts, DiscardPendingDrafts(p) PROVE NewRowsAreNoted
  BY <1>3 DEF DiscardPendingDrafts
<1>4. ASSUME NEW p \in Posts, WriteDraft(p) PROVE NewRowsAreNoted
  BY <1>4 DEF WriteDraft, NoteIfBehind, Write
<1>5. ASSUME NEW o \in Operators, ReplyWrite(o) PROVE NewRowsAreNoted
  <2>1. <<"admin", o>> \in Messages /\ now[o] \in Stamps
    BY <1>5, Authors
    DEF ReplyWrite, ChatKnowledge, Ended, Threads, ThreadsKnow, ThreadsOK,
        Writers
  <2>2. row' = [row EXCEPT ![<<"admin", o>>] = [conv |-> chat[o], status |-> "sent",
                                     at |-> now[o]]]
    BY <1>5 DEF ReplyWrite, Write
  <2>3. NoteIfBehind(<<"admin", o>>, now[o])
    BY <1>5 DEF ReplyWrite, Write
  <2>4. Position(<<"admin", o>>)' = <<now[o], IdRank[<<"admin", o>>]>>
    BY <2>1, <2>2 DEF Position, RowsOK
  <2>5. \A n \in Messages : n # <<"admin", o>> => row'[n] = row[n]
    BY <2>1, <2>2 DEF RowsOK
  <2> QED
    BY <2>1, <2>3, <2>4, <2>5, PromptIsBeyond
    DEF Exists, IsSent, NewRowsAreNoted
<1>6. ASSUME NEW o \in Operators, SendDraft(o) PROVE NewRowsAreNoted
  <2>0. PICK m \in Messages : m = target[o]
    BY <1>6, Authors DEF ChatKnowledge, SendDraft, ThreadsKnow
  <2>1. now[o] \in Stamps
    BY <1>6, <2>0, Authors
    DEF SendDraft, ChatKnowledge, Ended, Threads, ThreadsKnow, ThreadsOK,
        Writers
  <2>2. row' = [row EXCEPT ![m] = [conv |-> chat[o], status |-> "sent",
                                     at |-> now[o]]]
    BY <1>6, <2>0 DEF PromotedAt, SendDraft, Write
  <2>3. NoteIfBehind(m, now[o])
    BY <1>6, <2>0 DEF SendDraft, Write
  <2>4. Position(m)' = <<now[o], IdRank[m]>>
    BY <2>1, <2>2 DEF Position, RowsOK
  <2>5. \A n \in Messages : n # m => row'[n] = row[n]
    BY <2>1, <2>2 DEF RowsOK
  <2> QED
    BY <2>1, <2>3, <2>4, <2>5, PromptIsBeyond
    DEF Exists, IsSent, NewRowsAreNoted
<1>7. ASSUME NEW o \in Operators, DiscardDraft(o) PROVE NewRowsAreNoted
  BY <1>7 DEF DiscardDraft
<1>8. ASSUME NEW w \in Writers,
            OpenRead(w) \/ OpenInsert(w) \/ OpenRefused(w)
      PROVE  NewRowsAreNoted
  BY <1>8 DEF OpenInsert, OpenRead, OpenRefused
<1>9. ASSUME NEW p \in Posts,
            Respond(p) \/ ComposeRead(p) \/ ClearFlag(p)
            \/ RaiseFlag(p)
      PROVE  NewRowsAreNoted
  BY <1>9 DEF ClearFlag, ComposeRead, RaiseFlag, Respond, Flag
<1>10. ASSUME NEW o \in Operators,
            ReplyRead(o) \/ PickDraft(o) \/ DraftRead(o) \/ DraftGone(o)
            \/ MarkAdminRead(o)
      PROVE  NewRowsAreNoted
  BY <1>10
  DEF DraftGone, DraftRead, MarkAdminRead, PickDraft, ReplyRead,
      MarkOwnerMessages
<1>11. ASSUME NEW c \in Convs,
            Resolve(c) \/ Select(c)
      PROVE  NewRowsAreNoted
  BY <1>11 DEF Resolve, Select
<1>12. ASSUME NEW c \in Convs, NEW m \in Switches,
            SetMode(c, m)
      PROVE  NewRowsAreNoted
  BY <1>12 DEF SetMode
<1>13. ASSUME NEW s \in Polls,
            PollAsk(s) \/ PollList(s) \/ PollMark(s) \/ PollDeliver(s)
            \/ PollLost(s)
      PROVE  NewRowsAreNoted
  BY <1>13
  DEF PollAsk, PollDeliver, PollList, PollLost, PollMark, MarkOwnerMessages
<1>14. ASSUME NEW t \in Threads,
            Crash(t)
      PROVE  NewRowsAreNoted
  BY <1>14 DEF Crash
<1>15. CASE Tick
  BY <1>15 DEF Tick
<1> QED
  BY <1>1, <1>2, <1>3, <1>4, <1>5, <1>6, <1>7, <1>8, <1>9, <1>10,
     <1>11,
     <1>12, <1>13, <1>14, <1>15
  DEF ComposeStep, Next, OperatorStep, PollStep, WriterStep

(* A conversation is never removed, nor a resolved one opened again.        *)
LEMMA ConversationsStay ==
  ASSUME RowsOK, ConversationsExist, Next
  PROVE  ConversationsOnlyAge
<1> USE DEF ConversationsOnlyAge, End, GoTo, Stamp, conversations
<1>1. ASSUME NEW w \in Writers, OpenInsert(w) PROVE ConversationsOnlyAge
  BY <1>1 DEF OpenInsert, ConversationsExist, NamesAreFresh, RowsOK
<1>2. ASSUME NEW c \in Convs, Resolve(c) PROVE ConversationsOnlyAge
  BY <1>2 DEF Resolve, ConversationsExist, NamesAreFresh, RowsOK
<1>3. ASSUME NEW w \in Writers,
            OpenRead(w) \/ OpenRefused(w) \/ Append(w)
      PROVE  ConversationsOnlyAge
  BY <1>3 DEF Append, OpenRead, OpenRefused
<1>4. ASSUME NEW p \in Posts,
            Respond(p) \/ ComposeRead(p) \/ SendAnswer(p)
            \/ DiscardPendingDrafts(p) \/ WriteDraft(p)
            \/ ClearFlag(p) \/ RaiseFlag(p)
      PROVE  ConversationsOnlyAge
  BY <1>4
  DEF ClearFlag, ComposeRead, DiscardPendingDrafts, RaiseFlag, Respond,
      SendAnswer, WriteDraft, Flag
<1>5. ASSUME NEW o \in Operators,
            ReplyRead(o) \/ ReplyWrite(o) \/ PickDraft(o) \/ DraftRead(o)
            \/ SendDraft(o) \/ DiscardDraft(o) \/ DraftGone(o)
            \/ MarkAdminRead(o)
      PROVE  ConversationsOnlyAge
  BY <1>5
  DEF DiscardDraft, DraftGone, DraftRead, MarkAdminRead, PickDraft, ReplyRead,
      ReplyWrite, SendDraft, MarkOwnerMessages
<1>6. ASSUME NEW c \in Convs, NEW m \in Switches,
            SetMode(c, m)
      PROVE  ConversationsOnlyAge
  BY <1>6 DEF SetMode
<1>7. ASSUME NEW c \in Convs,
            Select(c)
      PROVE  ConversationsOnlyAge
  BY <1>7 DEF Select
<1>8. ASSUME NEW s \in Polls,
            PollAsk(s) \/ PollList(s) \/ PollMark(s) \/ PollDeliver(s)
            \/ PollLost(s)
      PROVE  ConversationsOnlyAge
  BY <1>8
  DEF PollAsk, PollDeliver, PollList, PollLost, PollMark, MarkOwnerMessages
<1>9. ASSUME NEW t \in Threads,
            Crash(t)
      PROVE  ConversationsOnlyAge
  BY <1>9 DEF Crash
<1>10. CASE Tick
  BY <1>10 DEF Tick
<1> QED
  BY <1>1, <1>2, <1>3, <1>4, <1>5, <1>6, <1>7, <1>8, <1>9, <1>10
  DEF ComposeStep, Next, OperatorStep, PollStep, WriterStep

(* A thread's conversation exists, and goes on to.                           *)
LEMMA ThreadsNameKept ==
  ASSUME RowsOK, ThreadsOK, ConversationsExist, ConversationsOnlyAge, Next
  PROVE  ThreadsName'
<1> USE NamesAssumption
        DEF ConversationsExist, ConversationsOnlyAge, Convs, End, GoTo,
            RowsOK, Stamp, ThreadsName, ThreadsOK, locals, threads
<1>1. ASSUME NEW w \in Writers, OpenRead(w) PROVE ThreadsName'
  BY <1>1 DEF OpenRead, OpenConvs
<1>2. ASSUME NEW w \in Writers, OpenInsert(w) PROVE ThreadsName'
  BY <1>2 DEF OpenInsert
<1>3. ASSUME NEW o \in Operators, ReplyRead(o) PROVE ThreadsName'
  BY <1>3 DEF ReplyRead, OpenConvs
<1>4. ASSUME NEW o \in Operators, PickDraft(o) PROVE ThreadsName'
  <2>1. PICK c \in Convs : \E m \in Last(Drafts(c)) :
          chat' = [chat EXCEPT ![o] = c]
    BY <1>4 DEF PickDraft
  <2>2. convStatus[c] # "none"
    BY <2>1, PagesAreWaiting DEF Drafts, In, IsDraft, RowsName
  <2> QED
    BY <1>4, <2>1, <2>2 DEF PickDraft
<1>24. ASSUME NEW o \in Operators, DraftRead(o) PROVE ThreadsName'
  BY <1>24 DEF DraftRead, Stamp
<1>5. ASSUME NEW w \in Writers,
            OpenRefused(w) \/ Append(w)
      PROVE  ThreadsName'
  BY <1>5 DEF Append, OpenRefused
<1>6. ASSUME NEW p \in Posts,
            Respond(p) \/ ComposeRead(p) \/ SendAnswer(p)
            \/ DiscardPendingDrafts(p) \/ WriteDraft(p)
            \/ ClearFlag(p) \/ RaiseFlag(p)
      PROVE  ThreadsName'
  BY <1>6
  DEF ClearFlag, ComposeRead, DiscardPendingDrafts, RaiseFlag, Respond,
      SendAnswer, WriteDraft, Flag
<1>7. ASSUME NEW o \in Operators,
            ReplyWrite(o) \/ SendDraft(o) \/ DiscardDraft(o)
            \/ DraftGone(o) \/ MarkAdminRead(o)
      PROVE  ThreadsName'
  BY <1>7
  DEF DiscardDraft, DraftGone, MarkAdminRead, ReplyWrite, SendDraft,
      MarkOwnerMessages
<1>8. ASSUME NEW c \in Convs,
            Resolve(c) \/ Select(c)
      PROVE  ThreadsName'
  BY <1>8 DEF Resolve, Select
<1>9. ASSUME NEW c \in Convs, NEW m \in Switches,
            SetMode(c, m)
      PROVE  ThreadsName'
  BY <1>9 DEF SetMode
<1>10. ASSUME NEW s \in Polls,
            PollAsk(s) \/ PollList(s) \/ PollMark(s) \/ PollDeliver(s)
            \/ PollLost(s)
      PROVE  ThreadsName'
  BY <1>10
  DEF PollAsk, PollDeliver, PollList, PollLost, PollMark, MarkOwnerMessages
<1>11. ASSUME NEW t \in Threads,
            Crash(t)
      PROVE  ThreadsName'
  BY <1>11 DEF Crash
<1>12. CASE Tick
  BY <1>12 DEF Tick
<1> QED
  BY <1>1, <1>2, <1>3, <1>4, <1>24, <1>5, <1>6, <1>7, <1>8, <1>9, <1>10,
     <1>11,
     <1>12
  DEF ComposeStep, Next, OperatorStep, PollStep, WriterStep

(* A row is in a conversation its thread has found.                         *)
LEMMA RowsNameKept ==
  ASSUME RowsOK, ThreadsOK, ChatKnowledge, ConversationsExist,
         ConversationsOnlyAge, Next
  PROVE  RowsName'
<1> USE DEF ConversationsExist, ConversationsOnlyAge, End, Exists, GoTo,
            Rows, RowsName, RowsOK, Stamp, messages
<1>1. ASSUME NEW w \in Writers, Append(w) PROVE RowsName'
  <2>1. chat[w] \in Convs /\ convStatus[chat[w]] # "none"
    BY <1>1, NamesAssumption
    DEF Append, ChatKnowledge, Ended, Threads, ThreadsKnow, ThreadsName,
        ThreadsOK, Writers
  <2>2. \A n \in Messages : row'[n] = row[n] \/ row'[n].conv = chat[w]
    BY <1>1 DEF Append, RowsOK, Write
  <2> QED
    BY <2>1, <2>2
<1>2. ASSUME NEW p \in Posts, SendAnswer(p) PROVE RowsName'
  <2>1. chat[p] \in Convs /\ convStatus[chat[p]] # "none"
    BY <1>2, NamesAssumption
    DEF SendAnswer, ChatKnowledge, Ended, Threads, ThreadsKnow, ThreadsName,
        ThreadsOK, Writers
  <2>2. \A n \in Messages : row'[n] = row[n] \/ row'[n].conv = chat[p]
    BY <1>2 DEF SendAnswer, RowsOK, Write
  <2> QED
    BY <2>1, <2>2
<1>3. ASSUME NEW p \in Posts, DiscardPendingDrafts(p) PROVE RowsName'
  BY <1>3 DEF DiscardPendingDrafts
<1>4. ASSUME NEW p \in Posts, WriteDraft(p) PROVE RowsName'
  <2>1. chat[p] \in Convs /\ convStatus[chat[p]] # "none"
    BY <1>4, NamesAssumption
    DEF WriteDraft, ChatKnowledge, Ended, Threads, ThreadsKnow, ThreadsName,
        ThreadsOK, Writers
  <2>2. \A n \in Messages : row'[n] = row[n] \/ row'[n].conv = chat[p]
    BY <1>4 DEF WriteDraft, RowsOK, Write
  <2> QED
    BY <2>1, <2>2
<1>5. ASSUME NEW o \in Operators, ReplyWrite(o) PROVE RowsName'
  <2>1. chat[o] \in Convs /\ convStatus[chat[o]] # "none"
    BY <1>5, NamesAssumption
    DEF ReplyWrite, ChatKnowledge, Ended, Threads, ThreadsKnow, ThreadsName,
        ThreadsOK, Writers
  <2>2. \A n \in Messages : row'[n] = row[n] \/ row'[n].conv = chat[o]
    BY <1>5 DEF ReplyWrite, RowsOK, Write
  <2> QED
    BY <2>1, <2>2
<1>6. ASSUME NEW o \in Operators, SendDraft(o) PROVE RowsName'
  <2>1. chat[o] \in Convs /\ convStatus[chat[o]] # "none"
    BY <1>6, NamesAssumption
    DEF SendDraft, ChatKnowledge, Ended, Threads, ThreadsKnow, ThreadsName,
        ThreadsOK, Writers
  <2>2. \A n \in Messages : row'[n] = row[n] \/ row'[n].conv = chat[o]
    BY <1>6 DEF SendDraft, RowsOK, Write
  <2> QED
    BY <2>1, <2>2
<1>7. ASSUME NEW o \in Operators, DiscardDraft(o) PROVE RowsName'
  BY <1>7 DEF DiscardDraft
<1>8. ASSUME NEW w \in Writers,
            OpenRead(w) \/ OpenInsert(w) \/ OpenRefused(w)
      PROVE  RowsName'
  BY <1>8 DEF OpenInsert, OpenRead, OpenRefused
<1>9. ASSUME NEW p \in Posts,
            Respond(p) \/ ComposeRead(p) \/ ClearFlag(p)
            \/ RaiseFlag(p)
      PROVE  RowsName'
  BY <1>9 DEF ClearFlag, ComposeRead, RaiseFlag, Respond, Flag
<1>10. ASSUME NEW o \in Operators,
            ReplyRead(o) \/ PickDraft(o) \/ DraftRead(o) \/ DraftGone(o)
            \/ MarkAdminRead(o)
      PROVE  RowsName'
  BY <1>10
  DEF DraftGone, DraftRead, MarkAdminRead, PickDraft, ReplyRead,
      MarkOwnerMessages
<1>11. ASSUME NEW c \in Convs,
            Resolve(c) \/ Select(c)
      PROVE  RowsName'
  BY <1>11 DEF Resolve, Select
<1>12. ASSUME NEW c \in Convs, NEW m \in Switches,
            SetMode(c, m)
      PROVE  RowsName'
  BY <1>12 DEF SetMode
<1>13. ASSUME NEW s \in Polls,
            PollAsk(s) \/ PollList(s) \/ PollMark(s) \/ PollDeliver(s)
            \/ PollLost(s)
      PROVE  RowsName'
  BY <1>13
  DEF PollAsk, PollDeliver, PollList, PollLost, PollMark, MarkOwnerMessages
<1>14. ASSUME NEW t \in Threads,
            Crash(t)
      PROVE  RowsName'
  BY <1>14 DEF Crash
<1>15. CASE Tick
  BY <1>15 DEF Tick
<1> QED
  BY <1>1, <1>2, <1>3, <1>4, <1>5, <1>6, <1>7, <1>8, <1>9, <1>10,
     <1>11,
     <1>12, <1>13, <1>14, <1>15
  DEF ComposeStep, Next, OperatorStep, PollStep, WriterStep

(* A poll asks for a conversation there is.                                  *)
LEMMA PollsNameKept ==
  ASSUME RowsOK, ScreensOK, ConversationsExist, ConversationsOnlyAge, Next
  PROVE  PollsName'
<1> USE DEF ConversationsExist, ConversationsOnlyAge, End, GoTo, PollsName,
            ScreensOK, Stamp, screens
<1>1. ASSUME NEW c \in Convs, Select(c) PROVE PollsName'
  <2>1. \A q \in Polls :
          /\ poll'[q].conv = poll[q].conv /\ poll'[q].pc = poll[q].pc
          /\ q \in ConsolePolls /\ poll[q].pc # "idle" => poll'[q].stale
    BY <1>1 DEF PollStates, ScreensOK, Select
  <2>2. convStatus' = convStatus /\ convStatus[selected'] # "none"
    BY <1>1 DEF Select, conversations
  <2> QED
    BY <2>1, <2>2
<1>2. ASSUME NEW s \in Polls, PollAsk(s) PROVE PollsName'
  <2>1. PICK c \in (IF s \in OwnerPolls THEN OpenConvs ELSE {selected} \ {None}) :
          poll' = [poll EXCEPT ![s] =
                     [NoPoll EXCEPT !.pc = "asked", !.conv = c,
                                    !.after = cursor[Reader(s)]]]
    BY <1>2 DEF PollAsk
  <2> DEFINE new == [NoPoll EXCEPT !.pc = "asked", !.conv = c,
                                   !.after = cursor[Reader(s)]]
  <2>2. c \in Convs /\ convStatus[c] # "none" /\ new.conv = c
    BY <2>1 DEF NoPoll, OpenConvs, ScreensOK
  <2>3. s \in ConsolePolls => c = selected
    BY <2>1, NamesAssumption
  <2>4. \A q \in Polls : poll'[q] = IF q = s THEN new ELSE poll[q]
    BY <2>1 DEF ScreensOK
  <2>5. convStatus' = convStatus /\ selected' = selected
    BY <1>2 DEF PollAsk, conversations
  <2> HIDE DEF new
  <2> QED
    BY <2>2, <2>3, <2>4, <2>5
<1>3. ASSUME NEW s \in Polls, PollList(s) PROVE PollsName'
  <2>1. \A q \in Polls : \/ poll'[q].pc = "idle"
                         \/ /\ poll[q].pc # "idle"
                            /\ poll'[q].conv = poll[q].conv
                            /\ poll'[q].stale = poll[q].stale
    BY <1>3 DEF PollList, NoPoll, PollStates, ScreensOK
  <2>2. convStatus' = convStatus /\ selected' = selected
    BY <1>3 DEF PollList, conversations
  <2> QED
    BY <2>1, <2>2
<1>4. ASSUME NEW s \in Polls, PollMark(s) PROVE PollsName'
  <2>1. \A q \in Polls : \/ poll'[q].pc = "idle"
                         \/ /\ poll[q].pc # "idle"
                            /\ poll'[q].conv = poll[q].conv
                            /\ poll'[q].stale = poll[q].stale
    BY <1>4 DEF PollMark, NoPoll, PollStates, ScreensOK
  <2>2. convStatus' = convStatus /\ selected' = selected
    BY <1>4 DEF PollMark, conversations
  <2> QED
    BY <2>1, <2>2
<1>5. ASSUME NEW s \in Polls, PollDeliver(s) PROVE PollsName'
  <2>1. \A q \in Polls : \/ poll'[q].pc = "idle"
                         \/ /\ poll[q].pc # "idle"
                            /\ poll'[q].conv = poll[q].conv
                            /\ poll'[q].stale = poll[q].stale
    BY <1>5 DEF PollDeliver, NoPoll, PollStates, ScreensOK
  <2>2. convStatus' = convStatus /\ selected' = selected
    BY <1>5 DEF PollDeliver, conversations
  <2> QED
    BY <2>1, <2>2
<1>6. ASSUME NEW s \in Polls, PollLost(s) PROVE PollsName'
  <2>1. \A q \in Polls : \/ poll'[q].pc = "idle"
                         \/ /\ poll[q].pc # "idle"
                            /\ poll'[q].conv = poll[q].conv
                            /\ poll'[q].stale = poll[q].stale
    BY <1>6 DEF PollLost, NoPoll, PollStates, ScreensOK
  <2>2. convStatus' = convStatus /\ selected' = selected
    BY <1>6 DEF PollLost, conversations
  <2> QED
    BY <2>1, <2>2
<1>7. ASSUME NEW w \in Writers,
            OpenRead(w) \/ OpenInsert(w) \/ OpenRefused(w)
            \/ Append(w)
      PROVE  PollsName'
  BY <1>7 DEF Append, OpenInsert, OpenRead, OpenRefused
<1>8. ASSUME NEW p \in Posts,
            Respond(p) \/ ComposeRead(p) \/ SendAnswer(p)
            \/ DiscardPendingDrafts(p) \/ WriteDraft(p)
            \/ ClearFlag(p) \/ RaiseFlag(p)
      PROVE  PollsName'
  BY <1>8
  DEF ClearFlag, ComposeRead, DiscardPendingDrafts, RaiseFlag, Respond,
      SendAnswer, WriteDraft, Flag
<1>9. ASSUME NEW o \in Operators,
            ReplyRead(o) \/ ReplyWrite(o) \/ PickDraft(o) \/ DraftRead(o)
            \/ SendDraft(o) \/ DiscardDraft(o) \/ DraftGone(o)
            \/ MarkAdminRead(o)
      PROVE  PollsName'
  BY <1>9
  DEF DiscardDraft, DraftGone, DraftRead, MarkAdminRead, PickDraft, ReplyRead,
      ReplyWrite, SendDraft, MarkOwnerMessages
<1>10. ASSUME NEW c \in Convs,
            Resolve(c)
      PROVE  PollsName'
  BY <1>10 DEF Resolve
<1>11. ASSUME NEW c \in Convs, NEW m \in Switches,
            SetMode(c, m)
      PROVE  PollsName'
  BY <1>11 DEF SetMode
<1>12. ASSUME NEW t \in Threads,
            Crash(t)
      PROVE  PollsName'
  BY <1>12 DEF Crash
<1>13. CASE Tick
  BY <1>13 DEF Tick
<1> QED
  BY <1>1, <1>2, <1>3, <1>4, <1>5, <1>6, <1>7, <1>8, <1>9, <1>10,
     <1>11,
     <1>12, <1>13
  DEF ComposeStep, Next, OperatorStep, PollStep, WriterStep

(* A conversation is inserted once.                                         *)
LEMMA NamesAreFreshKept ==
  ASSUME RowsOK, ThreadsOK, ConversationsExist, Next
  PROVE  NamesAreFresh'
<1> USE NamesAssumption
        DEF ConversationsExist, End, Ended, GoTo, NamesAreFresh, RowsOK,
            Threads, ThreadsOK, Writers, conversations, locals, threads
<1>1. ASSUME NEW w \in Writers, OpenRead(w) PROVE NamesAreFresh'
  BY <1>1 DEF OpenRead, Stamp
<1>2. ASSUME NEW w \in Writers, OpenInsert(w) PROVE NamesAreFresh'
  BY <1>2 DEF OpenInsert
<1>3. ASSUME NEW w \in Writers, OpenRefused(w) PROVE NamesAreFresh'
  BY <1>3 DEF OpenRefused
<1>4. ASSUME NEW w \in Writers, Append(w) PROVE NamesAreFresh'
  BY <1>4 DEF Append, NoteIfBehind, Write
<1>5. ASSUME NEW p \in Posts, Respond(p) PROVE NamesAreFresh'
  BY <1>5 DEF Respond
<1>6. ASSUME NEW p \in Posts, ComposeRead(p) PROVE NamesAreFresh'
  BY <1>6 DEF ComposeRead, Stamp
<1>7. ASSUME NEW p \in Posts, SendAnswer(p) PROVE NamesAreFresh'
  BY <1>7 DEF SendAnswer, NoteIfBehind, Write
<1>8. ASSUME NEW p \in Posts, DiscardPendingDrafts(p) PROVE NamesAreFresh'
  BY <1>8 DEF DiscardPendingDrafts
<1>9. ASSUME NEW p \in Posts, WriteDraft(p) PROVE NamesAreFresh'
  BY <1>9 DEF WriteDraft, NoteIfBehind, Write
<1>10. ASSUME NEW p \in Posts, ClearFlag(p) PROVE NamesAreFresh'
  BY <1>10 DEF ClearFlag
<1>11. ASSUME NEW p \in Posts, RaiseFlag(p) PROVE NamesAreFresh'
  BY <1>11 DEF RaiseFlag, Flag
<1>12. ASSUME NEW o \in Operators, ReplyRead(o) PROVE NamesAreFresh'
  BY <1>12 DEF ReplyRead, Stamp
<1>13. ASSUME NEW o \in Operators, ReplyWrite(o) PROVE NamesAreFresh'
  BY <1>13 DEF ReplyWrite, NoteIfBehind, Write
<1>14. ASSUME NEW o \in Operators, PickDraft(o) PROVE NamesAreFresh'
  BY <1>14 DEF PickDraft, Stamp
<1>25. ASSUME NEW o \in Operators, DraftRead(o) PROVE NamesAreFresh'
  BY <1>25 DEF DraftRead, Stamp
<1>15. ASSUME NEW o \in Operators, SendDraft(o) PROVE NamesAreFresh'
  BY <1>15 DEF SendDraft, NoteIfBehind, Write
<1>16. ASSUME NEW o \in Operators, DiscardDraft(o) PROVE NamesAreFresh'
  BY <1>16 DEF DiscardDraft
<1>17. ASSUME NEW o \in Operators, DraftGone(o) PROVE NamesAreFresh'
  BY <1>17 DEF DraftGone
<1>18. ASSUME NEW o \in Operators, MarkAdminRead(o) PROVE NamesAreFresh'
  BY <1>18 DEF MarkAdminRead, MarkOwnerMessages
<1>19. ASSUME NEW c \in Convs, Resolve(c) PROVE NamesAreFresh'
  BY <1>19 DEF Resolve
<1>20. ASSUME NEW t \in Threads, Crash(t) PROVE NamesAreFresh'
  BY <1>20 DEF Crash
<1>21. ASSUME NEW c \in Convs, NEW m \in Switches,
            SetMode(c, m)
      PROVE  NamesAreFresh'
  BY <1>21 DEF SetMode
<1>22. ASSUME NEW c \in Convs,
            Select(c)
      PROVE  NamesAreFresh'
  BY <1>22 DEF Select
<1>23. ASSUME NEW s \in Polls,
            PollAsk(s) \/ PollList(s) \/ PollMark(s) \/ PollDeliver(s)
            \/ PollLost(s)
      PROVE  NamesAreFresh'
  BY <1>23
  DEF PollAsk, PollDeliver, PollList, PollLost, PollMark, MarkOwnerMessages
<1>24. CASE Tick
  BY <1>24 DEF Tick
<1> QED
  BY <1>1, <1>2, <1>3, <1>4, <1>5, <1>6, <1>7, <1>8, <1>9, <1>10,
     <1>11,
     <1>12, <1>13, <1>14, <1>25, <1>15, <1>16, <1>17, <1>18, <1>19, <1>20,
     <1>21,
     <1>22, <1>23, <1>24
  DEF ComposeStep, Next, OperatorStep, PollStep, WriterStep

(* What is noted as behind stays noted.                                     *)
LEMMA NotesStay ==
  ASSUME HistoryOK, Next
  PROVE  BehindGrows
<1> USE DEF BehindGrows, End, GoTo, HistoryOK, NoteIfBehind, Write, history
<1>1. ASSUME NEW w \in Writers, Append(w) PROVE BehindGrows
  BY <1>1 DEF Append
<1>2. ASSUME NEW p \in Posts, SendAnswer(p) PROVE BehindGrows
  BY <1>2 DEF SendAnswer
<1>3. ASSUME NEW p \in Posts, WriteDraft(p) PROVE BehindGrows
  BY <1>3 DEF WriteDraft
<1>4. ASSUME NEW o \in Operators, ReplyWrite(o) PROVE BehindGrows
  BY <1>4 DEF ReplyWrite
<1>5. ASSUME NEW o \in Operators, SendDraft(o) PROVE BehindGrows
  BY <1>5 DEF SendDraft
<1>6. ASSUME NEW w \in Writers,
            OpenRead(w) \/ OpenInsert(w) \/ OpenRefused(w)
      PROVE  BehindGrows
  BY <1>6 DEF OpenInsert, OpenRead, OpenRefused, Stamp
<1>7. ASSUME NEW p \in Posts,
            Respond(p) \/ ComposeRead(p) \/ DiscardPendingDrafts(p)
            \/ ClearFlag(p) \/ RaiseFlag(p)
      PROVE  BehindGrows
  BY <1>7
  DEF ClearFlag, ComposeRead, DiscardPendingDrafts, RaiseFlag, Respond, Flag,
      Stamp
<1>8. ASSUME NEW o \in Operators,
            ReplyRead(o) \/ PickDraft(o) \/ DraftRead(o) \/ DiscardDraft(o)
            \/ DraftGone(o) \/ MarkAdminRead(o)
      PROVE  BehindGrows
  BY <1>8
  DEF DiscardDraft, DraftGone, DraftRead, MarkAdminRead, PickDraft, ReplyRead,
      MarkOwnerMessages, Stamp
<1>9. ASSUME NEW c \in Convs,
            Resolve(c) \/ Select(c)
      PROVE  BehindGrows
  BY <1>9 DEF Resolve, Select
<1>10. ASSUME NEW c \in Convs, NEW m \in Switches,
            SetMode(c, m)
      PROVE  BehindGrows
  BY <1>10 DEF SetMode
<1>11. ASSUME NEW s \in Polls,
            PollAsk(s) \/ PollList(s) \/ PollMark(s) \/ PollDeliver(s)
            \/ PollLost(s)
      PROVE  BehindGrows
  BY <1>11
  DEF PollAsk, PollDeliver, PollList, PollLost, PollMark, MarkOwnerMessages
<1>12. ASSUME NEW t \in Threads,
            Crash(t)
      PROVE  BehindGrows
  BY <1>12 DEF Crash
<1>13. CASE Tick
  BY <1>13 DEF Tick
<1> QED
  BY <1>1, <1>2, <1>3, <1>4, <1>5, <1>6, <1>7, <1>8, <1>9, <1>10,
     <1>11,
     <1>12, <1>13
  DEF ComposeStep, Next, OperatorStep, PollStep, WriterStep

LEMMA NoneWasResolved ==
  ASSUME ConversationsOnlyAge, NoneResolved'
  PROVE  NoneResolved
  BY DEF ConversationsOnlyAge, NoneResolved

(* What a reader had up to a position it holds, it has after the step, and   *)
(* with it every new row.                                                  *)
LEMMA StillHas ==
  ASSUME SentKept, NewRowsAreNoted, BehindGrows,
         NEW r \in Readers, NEW m \in Messages, NEW p \in HandedOut(r),
         screen[r] \subseteq screen'[r],
         IsSent(m)', IsSent(m) => HasUpTo(r, m, p)
  PROVE  m \in screen'[r] \cup behind'[r] \/ Beyond(Position(m)', p)
<1>1. CASE IsSent(m)
  BY <1>1 DEF BehindGrows, HasUpTo, Position, SentKept
<1>2. CASE ~IsSent(m)
  BY <1>2 DEF NewRowsAreNoted
<1> QED
  BY <1>1, <1>2

(* Every step but a poll's and a selection leaves the readers' positions.   *)
LEMMA PositionsStay ==
  ASSUME RowsOK, ScreensOK, ConversationsExist, PollsComplete, NothingSkipped,
         ConversationsOnlyAge, SentKept, NewRowsAreNoted, BehindGrows,
         UNCHANGED <<cursor, poll, selected>>,
         \A r \in Readers : screen[r] \subseteq screen'[r]
  PROVE  PollsComplete' /\ NothingSkipped'
<1>1. ASSUME NoneResolved', NEW s \in Polls, NEW m \in Messages,
             poll[s].pc # "idle", ~poll[s].stale,
             IsSent(m)', row'[m].conv = poll[s].conv
      PROVE  /\ HasUpTo(Reader(s), m, poll[s].after)'
             /\ poll[s].page # {} =>
                  m \in poll[s].page \/ HasUpTo(Reader(s), m, poll[s].top)'
  <2>1. Reader(s) \in Readers
    BY DEF Reader, Readers
  <2>2. PICK a \in HandedOut(Reader(s)) : a = poll[s].after
    BY DEF HandedOut
  <2>3. PICK p \in HandedOut(Reader(s)) : p = poll[s].top
    BY DEF HandedOut
  <2>4. IsSent(m) =>
          /\ HasUpTo(Reader(s), m, a)
          /\ poll[s].page # {} => m \in poll[s].page \/ HasUpTo(Reader(s), m, p)
    BY <1>1, <2>2, <2>3, NoneWasResolved DEF PollsComplete, SentKept
  <2>5. m \in screen'[Reader(s)] \cup behind'[Reader(s)]
        \/ Beyond(Position(m)', a)
    BY <1>1, <2>1, <2>4, StillHas
  <2>6. poll[s].page # {} =>
          \/ m \in poll[s].page
          \/ m \in screen'[Reader(s)] \cup behind'[Reader(s)]
          \/ Beyond(Position(m)', p)
    BY <1>1, <2>1, <2>4, StillHas
  <2> QED
    BY <2>2, <2>3, <2>5, <2>6 DEF HasUpTo, Reader
<1>2. ASSUME NoneResolved', NEW r \in Readers, NEW m \in Messages,
             IsSent(m)', row'[m].conv \in Watched(r)'
      PROVE  HasUpTo(r, m, cursor[r])'
  <2>1. IsSent(m) => row[m].conv \in Watched(r)
    <3> SUFFICES ASSUME IsSent(m) PROVE row[m].conv \in Watched(r)
      OBVIOUS
    <3>1. row'[m] = row[m] /\ row[m].conv \in Convs
      BY DEF Exists, IsSent, Rows, RowsOK, SentKept
    <3>2. convStatus[row[m].conv] = "open"
      BY <1>2, <3>1, NoneWasResolved
      DEF ConversationsExist, IsSent, NoneResolved, RowsName, RowsOK
    <3> QED
      BY <1>2, <3>1, <3>2 DEF OpenConvs, Watched
  <2>2. PICK p \in HandedOut(r) : p = cursor[r]
    BY DEF HandedOut
  <2>3. IsSent(m) => HasUpTo(r, m, p)
    BY <1>2, <2>1, <2>2, NoneWasResolved DEF NothingSkipped
  <2>4. m \in screen'[r] \cup behind'[r] \/ Beyond(Position(m)', p)
    BY <1>2, <2>3, StillHas
  <2> QED
    BY <2>2, <2>4 DEF HasUpTo
<1> QED
  BY <1>1, <1>2 DEF NothingSkipped, PollsComplete, Reader

(* A poll's step leaves rows, conversations and notes alone.                *)
RowsStay == UNCHANGED <<convStatus, row, behind>>

(* No step moves a position past a prompt row.                              *)
LEMMA CursorsKept ==
  ASSUME RowsOK, ScreensOK, ConversationsExist, PollsComplete, NothingSkipped,
         OneOpenConversation, ConversationsOnlyAge, SentKept, NewRowsAreNoted,
         BehindGrows, Next
  PROVE  PollsComplete' /\ NothingSkipped'
<1> USE PositionsStay
        DEF End, GoTo, Stamp, screens
<1>1. ASSUME NEW p \in Posts, Respond(p)
      PROVE  PollsComplete' /\ NothingSkipped'
  <2>1. \A r \in Readers : screen[r] \subseteq screen'[r]
    BY <1>1 DEF Respond, ScreensOK
  <2> QED
    BY <1>1, <2>1, PositionsStay DEF Respond
<1>2. ASSUME NEW c \in Convs, Select(c) PROVE PollsComplete' /\ NothingSkipped'
  <2>1. RowsStay
    BY <1>2 DEF RowsStay, Select, conversations, history, messages
  <2>2. \A q \in Polls :
          \/ q \in ConsolePolls /\ (poll'[q].stale \/ poll'[q].pc = "idle")
          \/ q \in OwnerPolls /\ poll'[q] = poll[q]
    BY <1>2, NamesAssumption DEF Polls, PollStates, ScreensOK, Select
  <2>3. /\ screen'["widget"] = screen["widget"]
        /\ cursor'["widget"] = cursor["widget"]
        /\ cursor'["console"] = Start
    BY <1>2 DEF Readers, ScreensOK, Select
  <2>4. PollsComplete'
    BY <2>1, <2>2, <2>3
    DEF Exists, HasUpTo, IsSent, NoneResolved, PollsComplete, Position, Reader,
        RowsStay
  <2>5. \A m \in Messages : IsSent(m) => Beyond(Position(m), Start)
    BY IdAssumption
    DEF Beyond, Exists, IsSent, Position, Rows, RowsOK, Stamps, Start
  <2>6. NothingSkipped'
    BY <2>1, <2>3, <2>5
    DEF Exists, HasUpTo, IsSent, NoneResolved, NothingSkipped, OpenConvs,
        Position, Readers, RowsStay, Watched
  <2> QED
    BY <2>4, <2>6
<1>3. ASSUME NEW s \in Polls, PollAsk(s)
      PROVE  PollsComplete' /\ NothingSkipped'
  <2>1. RowsStay /\ screen' = screen /\ cursor' = cursor /\ selected' = selected
    BY <1>3 DEF PollAsk, RowsStay, conversations, history, messages
  <2>2. PICK c \in (IF s \in OwnerPolls THEN OpenConvs ELSE {selected} \ {None}) :
          poll' = [poll EXCEPT ![s] =
                     [NoPoll EXCEPT !.pc = "asked", !.conv = c,
                                    !.after = cursor[Reader(s)]]]
    BY <1>3 DEF PollAsk
  <2> DEFINE new == [NoPoll EXCEPT !.pc = "asked", !.conv = c,
                                   !.after = cursor[Reader(s)]]
  <2>3. new.conv = c /\ new.after = cursor[Reader(s)] /\ new.page = {}
    BY DEF NoPoll
  <2>4. \A q \in Polls : poll'[q] = IF q = s THEN new ELSE poll[q]
    BY <2>2 DEF ScreensOK
  <2>5. c \in Watched(Reader(s)) /\ Reader(s) \in Readers
    BY <2>2 DEF Reader, Readers, Watched
  <2> HIDE DEF new
  <2>6. ASSUME NoneResolved', NEW q \in Polls, NEW m \in Messages,
               poll'[q].pc # "idle", ~poll'[q].stale,
               IsSent(m)', row'[m].conv = poll'[q].conv
        PROVE  /\ HasUpTo(Reader(q), m, poll[q].after)'
               /\ poll'[q].page # {} =>
                    m \in poll'[q].page \/ HasUpTo(Reader(q), m, poll[q].top)'
    <3>1. NoneResolved /\ IsSent(m) /\ row[m].conv = poll'[q].conv
      BY <2>1, <2>6 DEF Exists, IsSent, NoneResolved, RowsStay
    <3>2. CASE q = s
      <4>1. HasUpTo(Reader(s), m, cursor[Reader(s)])
        BY <2>3, <2>4, <2>5, <3>1, <3>2 DEF NothingSkipped
      <4> QED
        BY <2>1, <2>3, <2>4, <3>2, <4>1
        DEF HasUpTo, Position, Reader, RowsStay
    <3>3. CASE q # s
      BY <2>1, <2>4, <2>6, <3>1, <3>3
      DEF HasUpTo, PollsComplete, Position, Reader, RowsStay
    <3> QED
      BY <3>2, <3>3
  <2>7. PollsComplete'
    BY <2>6 DEF PollsComplete, Reader
  <2>8. NothingSkipped'
    BY <2>1
    DEF Exists, HasUpTo, IsSent, NoneResolved, NothingSkipped, OpenConvs,
        Position, RowsStay, Watched
  <2> QED
    BY <2>7, <2>8
<1>4. ASSUME NEW s \in Polls, PollList(s)
      PROVE  PollsComplete' /\ NothingSkipped'
  <2>1. RowsStay /\ screen' = screen /\ cursor' = cursor /\ selected' = selected
    BY <1>4 DEF PollList, RowsStay, conversations, history, messages
  <2> DEFINE S == Waiting(poll[s].conv, poll[s].after)
             page == FirstPage(S)
             tops == IF page = {} THEN {Start}
                     ELSE {Position(m) : m \in Last(page)}
             label == IF s \in OwnerPolls THEN "answered" ELSE "listed"
  <2>2. PICK top \in tops :
          poll' = [poll EXCEPT ![s].pc = label, ![s].page = page, ![s].top = top]
    BY <1>4 DEF PollList
  <2>3. S \in SUBSET {n \in Messages : Exists(n)}
    BY PagesAreWaiting DEF IsSent, Waiting
  <2>4. ASSUME NEW m \in S, m \notin page, page # {}
        PROVE  Beyond(Position(m), top)
    <3>1. PICK l \in Last(page) : top = Position(l)
      BY <2>2, <2>4
    <3>2. l \in page
      BY PagesAreWaiting
    <3> HIDE DEF S
    <3> QED
      BY <2>3, <2>4, <3>1, <3>2, PageIsClosed
  <2>5. poll[s].pc = "asked" /\ poll[s] \in PollStates
    BY <1>4 DEF PollList, ScreensOK
  <2>6. \A q \in Polls :
          /\ poll'[q].conv = poll[q].conv /\ poll'[q].stale = poll[q].stale
          /\ poll'[q].after = poll[q].after
          /\ poll'[q].pc # "idle" => poll[q].pc # "idle"
          /\ q # s => poll'[q] = poll[q]
          /\ q = s => poll'[q].page = page /\ poll'[q].top = top
    <3> HIDE DEF page, tops, label
    <3> QED
      BY <2>2, <2>5 DEF PollStates, ScreensOK
  <2>7. ASSUME NoneResolved', NEW q \in Polls, NEW m \in Messages,
               poll'[q].pc # "idle", ~poll'[q].stale,
               IsSent(m)', row'[m].conv = poll'[q].conv
        PROVE  /\ HasUpTo(Reader(q), m, poll[q].after)'
               /\ poll'[q].page # {} =>
                    m \in poll'[q].page \/ HasUpTo(Reader(q), m, poll[q].top)'
    <3>1. NoneResolved /\ IsSent(m) /\ row[m].conv = poll[q].conv
      BY <2>1, <2>6, <2>7 DEF Exists, IsSent, NoneResolved, RowsStay
    <3>2. HasUpTo(Reader(q), m, poll[q].after)
      BY <2>6, <2>7, <3>1 DEF PollsComplete
    <3>3. CASE q = s /\ page # {}
      <4>1. Beyond(Position(m), poll[s].after) => m \in S
        BY <3>1, <3>3 DEF In, IsSent, Listed, PastCursor, Waiting
      <4>2. m \in page \/ HasUpTo(Reader(s), m, top)
        BY <2>4, <3>2, <3>3, <4>1 DEF HasUpTo
      <4> HIDE DEF page
      <4> QED
        BY <2>1, <2>6, <3>2, <3>3, <4>2
        DEF HasUpTo, Position, Reader, RowsStay
    <3>4. CASE q # s \/ page = {}
      <4> HIDE DEF page
      <4> QED
        BY <2>1, <2>6, <2>7, <3>1, <3>2, <3>4
        DEF HasUpTo, PollsComplete, Position, Reader, RowsStay
    <3> QED
      BY <3>3, <3>4
  <2>9. PollsComplete'
    BY <2>7 DEF PollsComplete, Reader
  <2>8. NothingSkipped'
    BY <2>1
    DEF Exists, HasUpTo, IsSent, NoneResolved, NothingSkipped, OpenConvs,
        Position, RowsStay, Watched
  <2> QED
    BY <2>8, <2>9
<1>5. ASSUME NEW s \in Polls, PollMark(s)
      PROVE  PollsComplete' /\ NothingSkipped'
  <2>1. RowsStay /\ screen' = screen /\ cursor' = cursor /\ selected' = selected
    BY <1>5 DEF PollMark, RowsStay, conversations, history, messages
  <2>2. \A q \in Polls :
          \/ poll'[q].pc = "idle"
          \/ /\ poll[q].pc # "idle"
             /\ poll'[q].conv = poll[q].conv /\ poll'[q].stale = poll[q].stale
             /\ poll'[q].after = poll[q].after /\ poll'[q].top = poll[q].top
             /\ poll'[q].page = poll[q].page
    BY <1>5 DEF PollMark, NoPoll, PollStates, ScreensOK
  <2>3. PollsComplete'
    BY <2>1, <2>2
    DEF Exists, HasUpTo, IsSent, NoneResolved, PollsComplete, Position, Reader,
        RowsStay
  <2>8. NothingSkipped'
    BY <2>1
    DEF Exists, HasUpTo, IsSent, NoneResolved, NothingSkipped, OpenConvs,
        Position, RowsStay, Watched
  <2> QED
    BY <2>3, <2>8
<1>6. ASSUME NEW s \in Polls, PollDeliver(s)
      PROVE  PollsComplete' /\ NothingSkipped'
  <2> DEFINE r == Reader(s)
  <2>1. RowsStay /\ selected' = selected
    BY <1>6 DEF PollDeliver, RowsStay, conversations, history, messages
  <2>2. r \in Readers /\ poll[s] \in PollStates /\ poll[s].pc = "answered"
        /\ ~poll[s].stale
    BY <1>6 DEF PollDeliver, Reader, Readers, ScreensOK
  <2>3. /\ \A v \in Readers : screen[v] \subseteq screen'[v]
        /\ poll[s].page \subseteq screen'[r]
        /\ \A v \in Readers : v # r => cursor'[v] = cursor[v]
        /\ cursor'[r] = IF poll[s].page = {} THEN cursor[r] ELSE poll[s].top
    BY <1>6, <2>2 DEF PollDeliver, ScreensOK
  <2>4. \A q \in Polls : poll'[q].pc = "idle" \/ poll'[q] = poll[q]
    BY <1>6 DEF NoPoll, PollDeliver, ScreensOK
  <2> HIDE DEF r
  <2>5. PollsComplete'
    <3> SUFFICES ASSUME NoneResolved', NEW q \in Polls, NEW m \in Messages,
                        poll'[q].pc # "idle", ~poll'[q].stale,
                        IsSent(m)', row'[m].conv = poll'[q].conv
                 PROVE  /\ HasUpTo(Reader(q), m, poll[q].after)'
                        /\ poll'[q].page # {} =>
                             \/ m \in poll'[q].page
                             \/ HasUpTo(Reader(q), m, poll[q].top)'
      BY DEF PollsComplete, Reader
    <3>1. NoneResolved /\ IsSent(m) /\ poll'[q] = poll[q] /\ Reader(q) \in Readers
      BY <2>1, <2>4 DEF Exists, IsSent, NoneResolved, Reader, Readers, RowsStay
    <3>2. /\ HasUpTo(Reader(q), m, poll[q].after)
          /\ poll[q].page # {} =>
               m \in poll[q].page \/ HasUpTo(Reader(q), m, poll[q].top)
      BY <2>1, <3>1 DEF PollsComplete, RowsStay
    <3> QED
      BY <2>1, <2>3, <3>1, <3>2 DEF HasUpTo, Position, Reader, RowsStay
  <2>6. ASSUME NoneResolved', NEW v \in Readers, NEW m \in Messages,
               IsSent(m)', row'[m].conv \in Watched(v)'
        PROVE  HasUpTo(v, m, cursor[v])'
    <3>1. /\ NoneResolved /\ IsSent(m) /\ row[m].conv \in Watched(v)
          /\ row[m].conv \in Convs
      BY <2>1, <2>6
      DEF Exists, IsSent, NoneResolved, OpenConvs, Rows, RowsOK, RowsStay,
          Watched
    <3>2. HasUpTo(v, m, cursor[v])
      BY <3>1 DEF NothingSkipped
    <3>3. CASE v = r /\ poll[s].page # {}
      <4>1. row[m].conv = poll[s].conv
        <5>1. poll[s].conv \in Convs /\ convStatus[poll[s].conv] = "open"
          BY <2>2, <3>1
          DEF ConversationsExist, NoneResolved, PollsName, RowsOK
        <5>2. CASE s \in OwnerPolls
          BY <3>1, <3>3, <5>1, <5>2
          DEF OneOpenConversation, OpenConvs, Reader, Watched, r
        <5>3. CASE s \notin OwnerPolls
          BY <2>2, <3>1, <3>3, <5>3
          DEF ConversationsExist, Polls, PollsName, Reader, Watched, r
        <5> QED
          BY <5>2, <5>3
      <4>2. m \in poll[s].page \/ HasUpTo(r, m, poll[s].top)
        BY <2>2, <3>1, <3>3, <4>1 DEF PollsComplete, r
      <4> QED
        BY <2>1, <2>2, <2>3, <3>3, <4>2 DEF HasUpTo, Position, RowsStay
    <3>4. CASE v # r \/ poll[s].page = {}
      BY <2>1, <2>3, <3>2, <3>4 DEF HasUpTo, Position, RowsStay
    <3> QED
      BY <3>3, <3>4
  <2>7. NothingSkipped'
    BY <2>6 DEF NothingSkipped
  <2> QED
    BY <2>5, <2>7
<1>7. ASSUME NEW s \in Polls, PollLost(s)
      PROVE  PollsComplete' /\ NothingSkipped'
  <2>1. RowsStay /\ screen' = screen /\ cursor' = cursor /\ selected' = selected
    BY <1>7 DEF PollLost, RowsStay, conversations, history, messages
  <2>2. \A q \in Polls :
          \/ poll'[q].pc = "idle"
          \/ /\ poll[q].pc # "idle"
             /\ poll'[q].conv = poll[q].conv /\ poll'[q].stale = poll[q].stale
             /\ poll'[q].after = poll[q].after /\ poll'[q].top = poll[q].top
             /\ poll'[q].page = poll[q].page
    BY <1>7 DEF PollLost, NoPoll, PollStates, ScreensOK
  <2>3. PollsComplete'
    BY <2>1, <2>2
    DEF Exists, HasUpTo, IsSent, NoneResolved, PollsComplete, Position, Reader,
        RowsStay
  <2>8. NothingSkipped'
    BY <2>1
    DEF Exists, HasUpTo, IsSent, NoneResolved, NothingSkipped, OpenConvs,
        Position, RowsStay, Watched
  <2> QED
    BY <2>3, <2>8
<1>8. ASSUME NEW w \in Writers,
            OpenRead(w) \/ OpenInsert(w) \/ OpenRefused(w)
            \/ Append(w)
      PROVE  PollsComplete' /\ NothingSkipped'
  BY <1>8 DEF Append, OpenInsert, OpenRead, OpenRefused
<1>9. ASSUME NEW p \in Posts,
            ComposeRead(p) \/ SendAnswer(p) \/ DiscardPendingDrafts(p)
            \/ WriteDraft(p) \/ ClearFlag(p) \/ RaiseFlag(p)
      PROVE  PollsComplete' /\ NothingSkipped'
  BY <1>9
  DEF ClearFlag, ComposeRead, DiscardPendingDrafts, RaiseFlag, SendAnswer,
      WriteDraft, Flag
<1>10. ASSUME NEW o \in Operators,
            ReplyRead(o) \/ ReplyWrite(o) \/ PickDraft(o) \/ DraftRead(o)
            \/ SendDraft(o) \/ DiscardDraft(o) \/ DraftGone(o)
            \/ MarkAdminRead(o)
      PROVE  PollsComplete' /\ NothingSkipped'
  BY <1>10
  DEF DiscardDraft, DraftGone, DraftRead, MarkAdminRead, PickDraft, ReplyRead,
      ReplyWrite, SendDraft, MarkOwnerMessages
<1>11. ASSUME NEW c \in Convs,
            Resolve(c)
      PROVE  PollsComplete' /\ NothingSkipped'
  BY <1>11 DEF Resolve
<1>12. ASSUME NEW c \in Convs, NEW m \in Switches,
            SetMode(c, m)
      PROVE  PollsComplete' /\ NothingSkipped'
  BY <1>12 DEF SetMode
<1>13. ASSUME NEW t \in Threads,
            Crash(t)
      PROVE  PollsComplete' /\ NothingSkipped'
  BY <1>13 DEF Crash
<1>14. CASE Tick
  BY <1>14 DEF Tick
<1> QED
  BY <1>1, <1>2, <1>3, <1>4, <1>5, <1>6, <1>7, <1>8, <1>9, <1>10,
     <1>11,
     <1>12, <1>13, <1>14
  DEF ComposeStep, Next, OperatorStep, PollStep, WriterStep

(* What is inductive about the cursors holds at the start and is kept.      *)
LEMMA CursorsStart ==
  ASSUME Init
  PROVE  CursorKnowledge /\ NothingSkipped
<1>1. \A m \in Messages : ~Exists(m)
  BY DEF Exists, Init
<1>2. \A t \in Threads : chat[t] = None
  BY DEF Init
<1>3. selected = None /\ \A s \in Polls : poll[s].pc = "idle"
  BY DEF Init, NoPoll
<1>4. \A w \in Writers : convStatus[w] = "none"
  BY NamesAssumption DEF Convs, Init
<1> QED
  BY <1>1, <1>2, <1>3, <1>4
  DEF ConversationsExist, CursorKnowledge, IsSent, NamesAreFresh,
      NothingSkipped, PollsComplete, PollsName, RowsName, ThreadsName

LEMMA CursorsContinue ==
  ASSUME TypeOK, ChatKnowledge, OneOpenConversation, CursorKnowledge,
         NothingSkipped, [Next]_vars
  PROVE  CursorKnowledge' /\ NothingSkipped'
<1>1. CASE Next
  <2>1. ConversationsOnlyAge
    BY <1>1, ConversationsStay DEF CursorKnowledge, TypeOK
  <2>2. SentKept /\ NewRowsAreNoted /\ BehindGrows
    BY <1>1, NewlySent, NotesStay, SentIsKept DEF TypeOK
  <2>3. PollsComplete' /\ NothingSkipped'
    BY <1>1, <2>1, <2>2, CursorsKept DEF CursorKnowledge, TypeOK
  <2>4. ThreadsName' /\ RowsName' /\ PollsName' /\ NamesAreFresh'
    BY <1>1, <2>1, NamesAreFreshKept, PollsNameKept, RowsNameKept,
       ThreadsNameKept
    DEF CursorKnowledge, TypeOK
  <2> QED
    BY <2>3, <2>4 DEF ConversationsExist, CursorKnowledge
<1>2. CASE UNCHANGED vars
  BY <1>2
  DEF ConversationsExist, CursorKnowledge, Exists, HasUpTo, IsSent,
      NamesAreFresh, NoneResolved, NothingSkipped, OpenConvs, PollsComplete,
      PollsName, Position, RowsName, ThreadsName, Watched, conversations,
      history, locals, messages, screens, threads, vars
<1> QED
  BY <1>1, <1>2

(* For every number of polls in flight, every page size and every order of    *)
(* stamps and ids: while its first conversation is open, no reader's cursor   *)
(* passes a row that was not behind a position it held when it appeared.     *)
THEOREM CursorsAreSafeEver == Spec => []CursorsAreSafe
<1>1. Init => CursorsAreSafe
  BY CursorsStart DEF CursorsAreSafe
<1>2. TypeOK /\ ChatKnowledge /\ OneOpenConversation
      /\ CursorsAreSafe /\ [Next]_vars
      => CursorsAreSafe'
  BY CursorsContinue DEF CursorsAreSafe
<1> QED
  BY <1>1, <1>2, OneOpen, TypeCorrect, PTL DEF Spec
===============================================================================
