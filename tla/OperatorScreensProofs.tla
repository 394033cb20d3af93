------------------------- MODULE OperatorScreensProofs -------------------------
(***************************************************************************)
(* The operator's three screens keep their word for any number of             *)
(* conversations, campaigns and stores, of requests in flight and overlapping  *)
(* polls, of clicks, changes by others and lost answers.                     *)
(***************************************************************************)
EXTENDS OperatorScreens, FiniteSetTheorems, TLAPS

Inv == TypeOK /\ ScreenIsCoherent

(* Fields of the values the screen starts from.                             *)
LEMMA Starting ==
  /\ Unsent \in Polls /\ Unsent.stage = "idle" /\ Unsent.draft = None
  /\ Quiet \in Acts /\ Quiet.stage = "idle" /\ Quiet.kind = None /\ Quiet.draft = None
  /\ Quiet.kind # "mode"
  /\ NoText \in Texts
  BY ConsoleAssumption DEF Unsent, Polls, Quiet, Acts, NoText, Texts, Kinds

(* A poll in flight is one whose stage is not idle, and superseding it      *)
(* changes nothing else.                                                    *)
LEMMA Flying ==
  ASSUME Inv, NEW s \in Slots
  PROVE  /\ poll[s] \in Polls
         /\ poll[s] # Unsent <=> poll[s].stage # "idle"
  BY Starting DEF Inv, TypeOK, ScreenIsCoherent, PollsAreCurrent

Aged(p) == [p EXCEPT !.superseded = TRUE]
LEMMA Ageing ==
  ASSUME NEW p \in Polls
  PROVE  /\ Aged(p) \in Polls /\ Aged(p).superseded
         /\ Aged(p).stage = p.stage /\ Aged(p).conv = p.conv /\ Aged(p).head = p.head
         /\ Aged(p).draft = p.draft /\ Aged(p).cursor = p.cursor
  BY DEF Polls, Aged

(* The steps at which no poll is issued or answered: it stays, grows old or  *)
(* leaves.                                                                 *)
Stays(s) == poll'[s] = poll[s]
Ages(s) == poll[s] # Unsent /\ poll'[s] = Aged(poll[s])
Ends(s) == poll'[s] = Unsent
OnlyOlder ==
  poll' \in [Slots -> Polls] /\ \A s \in Slots : Stays(s) \/ Ages(s) \/ Ends(s)

LEMMA ClaimAges ==
  ASSUME Inv, ClaimAndCommit
  PROVE  /\ OnlyOlder
         /\ \A s \in Slots : poll'[s] = Unsent \/ Ages(s)
         /\ \A s \in Slots : poll'[s] # Unsent <=> poll[s] # Unsent
         /\ \A s \in Slots : poll'[s] # Unsent => poll'[s].superseded
<1>1. ASSUME NEW s \in Slots
      PROVE  /\ poll'[s] \in Polls
             /\ poll'[s] = Unsent \/ Ages(s)
             /\ poll'[s] # Unsent <=> poll[s] # Unsent
             /\ poll'[s] # Unsent => poll'[s].superseded
  <2>1. poll'[s] = IF poll[s] = Unsent THEN Unsent ELSE Aged(poll[s])
    BY DEF ClaimAndCommit, Aged
  <2>2. poll[s] # Unsent => Aged(poll[s]) # Unsent
    BY Flying, Ageing, Starting
  <2> QED
    BY <2>1, <2>2, Flying, Ageing, Starting DEF Ages
<1>2. DOMAIN poll' = Slots /\ poll' = [s \in Slots |-> poll'[s]]
  BY DEF ClaimAndCommit
<1> QED
  BY <1>1, <1>2 DEF OnlyOlder, Ends

LEMMA LeavesEnds ==
  ASSUME Inv, NEW s \in Slots, NEW commits, Leaves(s, commits)
  PROVE  /\ OnlyOlder /\ poll'[s] = Unsent
         /\ \A q \in Slots \ {s} : poll'[q] # Unsent <=> poll[q] # Unsent
         /\ \A q \in Slots \ {s} : Stays(q) \/ Ages(q)
<1>1. ASSUME NEW q \in Slots
      PROVE  /\ poll'[q] \in Polls /\ (q = s => poll'[q] = Unsent)
             /\ q # s => /\ Stays(q) \/ Ages(q)
                         /\ poll'[q] # Unsent <=> poll[q] # Unsent
  <2>1. poll'[q] = IF q = s THEN Unsent
                   ELSE IF commits /\ q \in older[s] THEN Aged(poll[q]) ELSE poll[q]
    BY DEF Leaves, Aged
  <2>2. q \in older[s] => poll[q] # Unsent
    BY DEF Inv, TypeOK
  <2>3. poll[q] # Unsent => Aged(poll[q]) # Unsent
    BY Flying, Ageing, Starting
  <2> QED
    BY <2>1, <2>2, <2>3, Flying, Ageing, Starting DEF Ages, Stays
<1>2. DOMAIN poll' = Slots /\ poll' = [q \in Slots |-> poll'[q]]
  BY DEF Leaves
<1> QED
  BY <1>1, <1>2 DEF OnlyOlder, Ends

(* What a state says, part by part.                                         *)
LEMMA Parts ==
  ASSUME Inv
  PROVE  /\ server \in [Convs -> Conversations] /\ screen \in Panels /\ act \in Acts
         /\ poll \in [Slots -> Polls] /\ older \in [Slots -> SUBSET Slots]
         /\ used \subseteq Drafts /\ gone \subseteq used /\ acted \in Nat
         /\ None \notin Drafts /\ None \notin Convs /\ None \notin Kinds
         /\ screen.pending \in Drafts \cup {None} /\ screen.selected \in Convs \cup {None}
         /\ screen.cursor \in Nat /\ screen.shown \subseteq Nat
         /\ act.conv \in Convs \cup {None} /\ act.draft \in Drafts \cup {None}
  BY ConsoleAssumption DEF Inv, TypeOK, Panels, Acts

(* Mentions that are copied, or dropped, leave every draft at its home.      *)
LEMMA HomesKept ==
  ASSUME Inv, used \subseteq used', screen'.draftId = screen'.pending,
         \A c \in Convs : server'[c].draft = None \/ <<c, server'[c].draft>> \in Mentions,
         \A s \in Slots : poll'[s].draft = None
                          \/ <<poll'[s].conv, poll'[s].draft>> \in Mentions,
         screen'.pending = None \/ <<screen'.selected, screen'.pending>> \in Mentions,
         act'.draft = None \/ <<act'.conv, act'.draft>> \in Mentions
  PROVE  DraftsHaveOneHome'
<1>1. ASSUME NEW m \in Mentions' PROVE m[2] = None \/ m \in Mentions
  BY DEF Mentions
<1>2. /\ \A m \in Mentions : m[2] \in used \cup {None}
      /\ \A m, n \in Mentions : m[2] # None /\ m[2] = n[2] => m[1] = n[1]
  BY DEF Inv, ScreenIsCoherent, DraftsHaveOneHome
<1> HIDE DEF Inv
<1>3. \A m \in Mentions' : m[2] \in used' \cup {None}
  BY <1>1, <1>2
<1>4. \A m, n \in Mentions' : m[2] # None /\ m[2] = n[2] => m[1] = n[1]
  BY <1>1, <1>2
<1> QED
  BY <1>3, <1>4 DEF DraftsHaveOneHome

LEMMA OlderMentions ==
  ASSUME Inv, OnlyOlder
  PROVE  \A s \in Slots : \/ poll'[s].draft = None
                          \/ <<poll'[s].conv, poll'[s].draft>> \in Mentions
  BY Flying, Ageing, Starting DEF OnlyOlder, Stays, Ages, Ends, Mentions

(* A poll that is not superseded stays current while the selection, the own *)
(* changes and the drafts that are gone do.                                 *)
LEMMA PollsKept ==
  ASSUME Inv, OnlyOlder,
         \A s \in Slots : Stays(s) /\ poll[s] # Unsent /\ ~poll[s].superseded =>
           /\ screen'.selected = screen.selected
           /\ poll[s].cursor <= Cardinality(screen'.shown)
           /\ acted' = acted
           /\ poll[s].stage = "read" => poll[s].draft \notin gone'
  PROVE  PollsAreCurrent'
<1> SUFFICES ASSUME NEW s \in Slots, poll'[s] # Unsent
             PROVE  /\ poll'[s].stage # "idle" /\ poll'[s].conv # None
                    /\ poll'[s].stage = "read" =>
                         poll'[s].head # None /\ poll'[s].head.conv = poll'[s].conv
                    /\ ~poll'[s].superseded =>
                         /\ poll'[s].conv = screen'.selected
                         /\ poll'[s].cursor <= Cardinality(screen'.shown)
                         /\ poll'[s].stage = "read" =>
                              /\ poll'[s].head.version >= acted'
                              /\ poll'[s].draft \notin gone'
  BY DEF PollsAreCurrent
<1>1. poll[s] # Unsent =>
    /\ poll[s].stage # "idle" /\ poll[s].conv # None
    /\ poll[s].stage = "read" => poll[s].head # None /\ poll[s].head.conv = poll[s].conv
    /\ ~poll[s].superseded =>
         /\ poll[s].conv = screen.selected
         /\ poll[s].stage = "read" => poll[s].head.version >= acted
  BY DEF Inv, ScreenIsCoherent, PollsAreCurrent
<1>2. CASE Stays(s)
  BY <1>1, <1>2 DEF Stays
<1>3. CASE Ages(s)
  BY <1>1, <1>3, Flying, Ageing DEF Ages
<1> QED
  BY <1>2, <1>3 DEF OnlyOlder, Ends

(* The answer under way stays current, or is over; the conversations only    *)
(* get new versions, and drafts nobody has used.                            *)
LEMMA AnswersKept ==
  ASSUME Inv, act' \in {act, Quiet}, used \subseteq used', UNCHANGED gone,
         acted' # 0 => acted' = acted /\ screen'.selected = screen.selected,
         \A c \in Convs :
           /\ server[c].version <= server'[c].version /\ server'[c].version \in Nat
           /\ server'[c].draft \in {None, server[c].draft} \cup (Drafts \ used)
  PROVE  AnswersAreCurrent'
<1> USE Parts
<1>1. AnswersAreCurrent /\ None \notin used /\ None \notin gone
  BY DEF Inv, ScreenIsCoherent
<1>2. \A c \in Convs : server[c].version \in Nat
  BY DEF Conversations
<1>3. acted' # 0 => screen'.selected # None /\ acted' <= server'[screen'.selected].version
  BY <1>1, <1>2 DEF AnswersAreCurrent
<1>4. \A c \in Convs : server'[c].draft \notin gone'
  BY <1>1 DEF AnswersAreCurrent
<1>5. CASE act' = Quiet
  BY <1>3, <1>4, <1>5, Starting DEF AnswersAreCurrent, Kinds
<1>6. CASE act' = act
  <2>1. act.stage \in {"sent", "ok", "refused"} => act.conv \in Convs
    BY <1>1 DEF AnswersAreCurrent
  <2>2. act.head # None => act.head.version \in Nat
    BY DEF Acts, Heads
  <2> QED
    BY <1>1, <1>2, <1>3, <1>4, <1>6, <2>1, <2>2 DEF AnswersAreCurrent
<1> QED
  BY <1>5, <1>6

(* A screen nobody touches keeps its coherence.                             *)
LEMMA ScreenKept ==
  ASSUME Inv, UNCHANGED <<screen, acted, gone>>
  PROVE  /\ HeaderIsSelected' /\ TextIsOfDraft' /\ TranscriptIsPrefix'
         /\ OwnChangeSticks' /\ GoneStaysGone'
  BY DEF Inv, ScreenIsCoherent, HeaderIsSelected, TextIsOfDraft, TranscriptIsPrefix,
         OwnChangeSticks, GoneStaysGone

LEMMA PollsUntouched ==
  ASSUME Inv, UNCHANGED poll
  PROVE  OnlyOlder /\ \A s \in Slots : Stays(s)
  BY Parts DEF OnlyOlder, Stays

LEMMA Mentioned ==
  /\ \A c \in Convs : <<c, server[c].draft>> \in Mentions
  /\ \A s \in Slots : <<poll[s].conv, poll[s].draft>> \in Mentions
  /\ <<screen.selected, screen.pending>> \in Mentions
  /\ <<act.conv, act.draft>> \in Mentions
  BY DEF Mentions

(* What the screen's polls need of a step that leaves screen and polls.      *)
LEMMA ScreenAndPollsKept ==
  ASSUME Inv, UNCHANGED <<screen, acted, gone, poll>>
  PROVE  PollsAreCurrent'
  BY PollsUntouched DEF Inv, ScreenIsCoherent, PollsAreCurrent

LEMMA Spends ==
  ASSUME Inv, NEW what \in {"changes", "clicks", "cuts", "ticks"}, Spend(what)
  PROVE  budget' \in [changes : Nat, clicks : Nat, cuts : Nat, ticks : Nat]
  BY DEF Inv, TypeOK, Spend

LEMMA ChangeKeeps ==
  ASSUME Inv, NEW c \in Convs, NEW new, Change(c, new), new \in Conversations,
         server[c].version <= new.version,
         \/ used' = used /\ new.draft \in {None, server[c].draft}
         \/ /\ new.draft \in Drafts \ used /\ used' = used \cup {new.draft}
  PROVE  Inv'
<1> USE Parts
<1>1. server' = [server EXCEPT ![c] = new] /\ server' \in [Convs -> Conversations]
  BY DEF Change
<1>2. UNCHANGED <<screen, poll, older, act, acted, gone>>
  BY DEF Change
<1>3. used \subseteq used' /\ used' \subseteq Drafts
  OBVIOUS
<1>4. TypeOK'
  BY <1>1, <1>2, <1>3, Spends DEF Inv, TypeOK, Change
<1>5. AnswersAreCurrent'
  <2>1. \A d \in Convs : /\ server[d].version \in Nat /\ server'[d].version \in Nat
                         /\ server[d].version <= server'[d].version
    BY <1>1 DEF Conversations
  <2>2. \A d \in Convs : server'[d].draft \in {None, server[d].draft} \cup (Drafts \ used)
    BY <1>1
  <2> QED
    BY <1>2, <1>3, <2>1, <2>2, AnswersKept
<1>6. DraftsHaveOneHome'
  <2>1. CASE used' = used /\ new.draft \in {None, server[c].draft}
    <3>1. \A d \in Convs : server'[d].draft = None \/ <<d, server'[d].draft>> \in Mentions
      BY <1>1, <2>1, Mentioned
    <3> QED
      BY <1>2, <1>3, <3>1, Mentioned, HomesKept
      DEF Inv, ScreenIsCoherent, DraftsHaveOneHome
  <2>2. CASE new.draft \in Drafts \ used /\ used' = used \cup {new.draft}
    <3> DEFINE d == new.draft
    <3>1. Mentions' \subseteq Mentions \cup {<<c, d>>}
      BY <1>1, <1>2 DEF Mentions
    <3>2. \A m \in Mentions : m[2] # d
      BY <2>2 DEF Inv, ScreenIsCoherent, DraftsHaveOneHome
    <3>3. /\ \A m \in Mentions : m[2] \in used \cup {None}
          /\ \A m, n \in Mentions : m[2] # None /\ m[2] = n[2] => m[1] = n[1]
          /\ screen.draftId = screen.pending
      BY DEF Inv, ScreenIsCoherent, DraftsHaveOneHome
    <3> HIDE DEF d
    <3>4. \A m \in Mentions' : m[2] \in used' \cup {None}
      BY <2>2, <3>1, <3>3 DEF d
    <3>5. \A m, n \in Mentions' : m[2] # None /\ m[2] = n[2] => m[1] = n[1]
      BY <3>1, <3>2, <3>3
    <3> QED
      BY <1>2, <3>3, <3>4, <3>5 DEF DraftsHaveOneHome
  <2> QED
    BY <2>1, <2>2
<1> QED
  BY <1>2, <1>4, <1>5, <1>6, ScreenKept, ScreenAndPollsKept DEF Inv, ScreenIsCoherent

(* A conversation with a new message, draft, mode or version.               *)
LEMMA Longer ==
  ASSUME NEW r \in Conversations, NEW n \in Nat
  PROVE  /\ [r EXCEPT !.length = @ + n] \in Conversations
         /\ [r EXCEPT !.length = @ + n].version = r.version
         /\ [r EXCEPT !.length = @ + n].draft = r.draft
  BY DEF Conversations
LEMMA Drafted ==
  ASSUME NEW r \in Conversations, NEW d \in Drafts \cup {None}
  PROVE  /\ [r EXCEPT !.draft = d] \in Conversations
         /\ [r EXCEPT !.draft = d].version = r.version
         /\ [r EXCEPT !.draft = d].draft = d
  BY DEF Conversations
LEMMA Versioned ==
  ASSUME NEW r \in Conversations
  PROVE  /\ [r EXCEPT !.version = @ + 1] \in Conversations
         /\ [r EXCEPT !.version = @ + 1].version = r.version + 1 /\ r.version \in Nat
         /\ [r EXCEPT !.version = @ + 1].draft = r.draft
  BY DEF Conversations
LEMMA Moded ==
  ASSUME NEW r \in Conversations, NEW m \in Modes
  PROVE  /\ [r EXCEPT !.mode = m] \in Conversations
         /\ [r EXCEPT !.mode = m].version = r.version
         /\ [r EXCEPT !.mode = m].draft = r.draft
  BY DEF Conversations
LEMMA ResolvedRow ==
  ASSUME NEW r \in Conversations
  PROVE  /\ [r EXCEPT !.status = "resolved"] \in Conversations
         /\ [r EXCEPT !.status = "resolved"].version = r.version
         /\ [r EXCEPT !.status = "resolved"].draft = r.draft
  BY DEF Conversations

LEMMA OthersKeep ==
  ASSUME Inv, NEW c \in Convs, Others(c)
  PROVE  Inv'
<1>1. server[c] \in Conversations
  BY Parts
<1>2. CASE MessageArrives(c)
  <2>1. [server[c] EXCEPT !.length = @ + 1] \in Conversations
    BY <1>1 DEF Conversations
  <2> QED
    BY <1>1, <1>2, <2>1, ChangeKeeps DEF MessageArrives, Conversations
<1>3. CASE DraftComposed(c)
  <2>1. PICK d \in Drafts \ used :
          used' = used \cup {d} /\ Change(c, [server[c] EXCEPT !.draft = d])
    BY <1>3 DEF DraftComposed
  <2>2. [server[c] EXCEPT !.draft = d] \in Conversations
    BY <1>1 DEF Conversations
  <2>3. [server[c] EXCEPT !.draft = d].draft = d
        /\ server[c].version <= [server[c] EXCEPT !.draft = d].version
    BY <1>1 DEF Conversations
  <2> QED
    BY <2>1, <2>2, <2>3, ChangeKeeps
<1>4. CASE DraftSettled(c)
  <2>1. PICK n \in {0, 1} :
          Change(c, [server[c] EXCEPT !.draft = None, !.length = @ + n])
    BY <1>4 DEF DraftSettled
  <2> DEFINE emptied == [server[c] EXCEPT !.draft = None]
             new == [emptied EXCEPT !.length = @ + n]
  <2>2. emptied \in Conversations /\ emptied.draft = None /\ emptied.version = server[c].version
    BY <1>1, Drafted
  <2> HIDE DEF emptied
  <2>6. n \in Nat
    OBVIOUS
  <2>3. new \in Conversations /\ new.draft = None /\ new.version = server[c].version
    BY <2>2, <2>6, Longer
  <2>4. Change(c, new) /\ used' = used
    BY <1>4, <2>1 DEF DraftSettled, emptied
  <2>5. server[c].version <= server[c].version
    BY <1>1 DEF Conversations
  <2> HIDE DEF new
  <2> QED
    BY <2>3, <2>4, <2>5, ChangeKeeps
<1>5. CASE ModeFlipped(c)
  <2>1. PICK m \in Modes \ {server[c].mode} :
          Change(c, [server[c] EXCEPT !.mode = m, !.version = @ + 1])
    BY <1>5 DEF ModeFlipped
  <2> DEFINE flipped == [server[c] EXCEPT !.mode = m]
             new == [flipped EXCEPT !.version = @ + 1]
  <2>2. /\ flipped \in Conversations /\ flipped.draft = server[c].draft
        /\ flipped.version = server[c].version
    BY <1>1, Moded
  <2> HIDE DEF flipped
  <2>3. /\ new \in Conversations /\ new.draft = server[c].draft
        /\ server[c].version <= new.version
    BY <2>2, Versioned
  <2>4. Change(c, new) /\ used' = used
    BY <1>5, <2>1 DEF ModeFlipped, flipped
  <2> HIDE DEF new
  <2> QED
    BY <2>3, <2>4, ChangeKeeps
<1> QED
  BY <1>2, <1>3, <1>4, <1>5 DEF Others

LEMMA EditKeeps ==
  ASSUME Inv, Edit
  PROVE  Inv'
<1> USE Parts
<1>1. /\ screen' = [screen EXCEPT !.text.edited = TRUE]
      /\ UNCHANGED <<server, used, poll, older, act, acted, gone, budget>>
  BY DEF Edit
<1>2. /\ screen' \in Panels /\ screen'.text.of = screen.text.of
      /\ screen'.selected = screen.selected /\ screen'.head = screen.head
      /\ screen'.shown = screen.shown /\ screen'.cursor = screen.cursor
      /\ screen'.confirmed = screen.confirmed
      /\ screen'.pending = screen.pending /\ screen'.draftId = screen.draftId
  BY <1>1 DEF Panels, Texts
<1>3. TypeOK'
  BY <1>1, <1>2 DEF Inv, TypeOK
<1>4. PollsAreCurrent'
  BY <1>1, <1>2 DEF Inv, ScreenIsCoherent, PollsAreCurrent
<1>5. AnswersAreCurrent'
  BY <1>1, <1>2 DEF Inv, ScreenIsCoherent, AnswersAreCurrent
<1>6. DraftsHaveOneHome'
  BY <1>1, <1>2 DEF Inv, ScreenIsCoherent, DraftsHaveOneHome, Mentions
<1> QED
  BY <1>1, <1>2, <1>3, <1>4, <1>5, <1>6
  DEF Inv, ScreenIsCoherent, HeaderIsSelected, TextIsOfDraft, TranscriptIsPrefix,
      OwnChangeSticks, GoneStaysGone

(* The operator's request is over, answered or not: nothing mentions more.   *)
LEMMA OverKeeps ==
  ASSUME Inv, act.stage \in {"sent", "ok", "refused"}, act' = Quiet,
         UNCHANGED <<server, used, screen, poll, older, acted, gone>>,
         budget' \in [changes : Nat, clicks : Nat, cuts : Nat, ticks : Nat]
  PROVE  Inv'
<1> USE Parts
<1>1. TypeOK'
  BY Starting DEF Inv, TypeOK
<1>2. AnswersAreCurrent'
  <2>1. \A c \in Convs : server[c].version \in Nat
    BY DEF Conversations
  <2>2. \A c \in Convs :
          /\ server[c].version <= server'[c].version /\ server'[c].version \in Nat
          /\ server'[c].draft \in {None, server[c].draft} \cup (Drafts \ used)
    BY <2>1
  <2> QED
    BY <2>2, AnswersKept
<1>3. DraftsHaveOneHome'
  BY Starting, Mentioned, HomesKept DEF Inv, ScreenIsCoherent, DraftsHaveOneHome
<1> QED
  BY <1>1, <1>2, <1>3, ScreenKept, ScreenAndPollsKept DEF Inv, ScreenIsCoherent

LEMMA RefusalKeeps ==
  ASSUME Inv, RefusalAnswered
  PROVE  Inv'
  BY OverKeeps DEF RefusalAnswered, Inv, TypeOK

LEMMA ActFailsKeeps ==
  ASSUME Inv, ActFails
  PROVE  Inv'
<1>1. budget' \in [changes : Nat, clicks : Nat, cuts : Nat, ticks : Nat]
  BY Spends DEF ActFails
<1> QED
  BY <1>1, OverKeeps DEF ActFails

LEMMA AskKeeps ==
  ASSUME Inv, NEW kind \in Kinds, Ask(kind)
  PROVE  Inv'
<1> USE Parts
<1>1. PICK m \in IF kind = "mode" THEN Modes ELSE {None} :
        /\ Offered(kind, m)
        /\ act' = [kind |-> kind, stage |-> "sent", conv |-> screen.selected, mode |-> m,
                   draft |-> IF kind \in {"send", "discard"} THEN screen.pending ELSE None,
                   head |-> None]
  BY DEF Ask
<1>2. UNCHANGED <<server, used, screen, poll, older, acted, gone>>
  BY DEF Ask
<1>3. act' \in Acts /\ act'.stage = "sent" /\ act'.kind = kind /\ act'.head = None
      /\ act'.conv = screen.selected
  BY <1>1 DEF Acts
<1>4. act.stage = "idle" /\ screen.selected # None
  BY <1>1, Starting DEF Offered
<1>5. act'.draft = IF kind \in {"send", "discard"} THEN screen.pending ELSE None
  BY <1>1
<1>6. budget' \in [changes : Nat, clicks : Nat, cuts : Nat, ticks : Nat]
  BY Spends DEF Ask, Click
<1>7. TypeOK'
  <2>1. act'.kind = "mode" => act'.mode \in Modes
    BY <1>1
  <2> QED
    BY <1>2, <1>3, <1>4, <1>6, <2>1 DEF Inv, TypeOK
<1>8. AnswersAreCurrent'
  <2>1. kind \in {"send", "discard"} => screen.pending \in used
    BY <1>1, Mentioned DEF Offered, Inv, ScreenIsCoherent, DraftsHaveOneHome
  <2> QED
    BY <1>2, <1>3, <1>4, <1>5, <2>1 DEF Inv, ScreenIsCoherent, AnswersAreCurrent
<1>9. DraftsHaveOneHome'
  <2>1. act'.draft = None \/ <<act'.conv, act'.draft>> \in Mentions
    BY <1>3, <1>5, Mentioned
  <2> QED
    BY <1>2, <2>1, Mentioned, HomesKept DEF Inv, ScreenIsCoherent, DraftsHaveOneHome
<1> QED
  BY <1>2, <1>7, <1>8, <1>9, ScreenKept, ScreenAndPollsKept DEF Inv, ScreenIsCoherent

(* The lost poll only makes room.                                           *)
LEMMA LeavesTyped ==
  ASSUME Inv, NEW s \in Slots, poll[s] # Unsent, NEW commits, Leaves(s, commits),
         act' = IF s = Own THEN Quiet ELSE act
  PROVE  /\ poll' \in [Slots -> Polls] /\ older' \in [Slots -> SUBSET Slots]
         /\ \A q \in Slots : older'[q] # {} => poll'[q] # Unsent
         /\ \A q, o \in Slots : o \in older'[q] => poll'[o] # Unsent
         /\ act' \in Acts /\ (act'.stage = "polling" <=> poll'[Own] # Unsent)
<1> USE Parts
<1>1. \A q \in Slots : older'[q] = IF q = s THEN {} ELSE older[q] \ {s}
  BY DEF Leaves, Forgotten
<1>2. older' \in [Slots -> SUBSET Slots]
  BY DEF Leaves, Forgotten
<1>3. /\ poll' \in [Slots -> Polls] /\ poll'[s] = Unsent
      /\ \A q \in Slots \ {s} : poll'[q] # Unsent <=> poll[q] # Unsent
  BY LeavesEnds DEF OnlyOlder
<1>4. Own \in Slots
  BY DEF Slots
<1>5. /\ \A q \in Slots : older[q] # {} => poll[q] # Unsent
      /\ \A q, o \in Slots : o \in older[q] => poll[o] # Unsent
      /\ act.stage = "polling" <=> poll[Own] # Unsent
  BY DEF Inv, TypeOK
<1> QED
  BY <1>1, <1>2, <1>3, <1>4, <1>5, Starting

LEMMA FailsKeeps ==
  ASSUME Inv, NEW s \in Slots, Fails(s)
  PROVE  Inv'
<1> USE Parts
<1>1. /\ poll[s] # Unsent /\ Leaves(s, FALSE)
      /\ act' = IF s = Own THEN Quiet ELSE act
      /\ UNCHANGED <<server, used, screen, acted, gone>>
  BY DEF Fails
<1>2. budget' \in [changes : Nat, clicks : Nat, cuts : Nat, ticks : Nat]
  BY Spends DEF Fails
<1>3. TypeOK'
  BY <1>1, <1>2, LeavesTyped, Starting DEF Inv, TypeOK
<1>4. PollsAreCurrent'
  <2>1. OnlyOlder
    BY <1>1, LeavesEnds
  <2>2. \A q \in Slots : poll[q] # Unsent /\ ~poll[q].superseded =>
          /\ poll[q].cursor <= Cardinality(screen.shown)
          /\ poll[q].stage = "read" => poll[q].draft \notin gone
    BY DEF Inv, ScreenIsCoherent, PollsAreCurrent
  <2> QED
    BY <1>1, <2>1, <2>2, PollsKept
<1>5. AnswersAreCurrent'
  <2>1. \A c \in Convs : server[c].version \in Nat
    BY DEF Conversations
  <2>2. \A c \in Convs :
          /\ server[c].version <= server'[c].version /\ server'[c].version \in Nat
          /\ server'[c].draft \in {None, server[c].draft} \cup (Drafts \ used)
    BY <1>1, <2>1
  <2> QED
    BY <1>1, <2>2, AnswersKept
<1>6. DraftsHaveOneHome'
  BY <1>1, LeavesEnds, OlderMentions, Starting, Mentioned, HomesKept
  DEF Inv, ScreenIsCoherent, DraftsHaveOneHome
<1> QED
  BY <1>1, <1>3, <1>4, <1>5, <1>6, ScreenKept DEF Inv, ScreenIsCoherent

(* A new poll is the latest in flight.                                      *)
LEMMA NewPoll ==
  ASSUME Inv, screen.selected # None
  PROVE  \A s \in Slots :
           /\ Issued(s) \in Polls /\ Issued(s).stage = "sent" /\ ~Issued(s).superseded
           /\ Issued(s).conv = screen.selected /\ Issued(s).cursor = screen.cursor
           /\ Issued(s).draft = None /\ Issued(s) # Unsent
  BY Parts, Starting DEF Issued, Unsent, Polls

LEMMA CursorIsShown ==
  ASSUME Inv
  PROVE  /\ Cardinality(screen.shown) \in Nat
         /\ screen.cursor <= Cardinality(screen.shown)
         /\ screen.shown = 1 .. Cardinality(screen.shown)
<1>1. IsFiniteSet(screen.shown)
  BY DEF Inv, ScreenIsCoherent, TranscriptIsPrefix
<1>2. Cardinality(screen.shown) \in Nat
  BY <1>1, FS_CardinalityType
<1> QED
  BY <1>2 DEF Inv, ScreenIsCoherent, TranscriptIsPrefix

LEMMA TickKeeps ==
  ASSUME Inv, NEW s \in Ticks, Tick(s)
  PROVE  Inv'
<1> USE Parts
<1>1. /\ poll[s] = Unsent /\ screen.selected # None
      /\ poll' = [poll EXCEPT ![s] = Issued(s)]
      /\ older' = [older EXCEPT ![s] = InFlight]
      /\ UNCHANGED <<server, used, screen, act, acted, gone, budget>>
  BY DEF Tick, IssuedLast
<1>2. s \in Slots /\ Own \in Slots /\ s # Own
  BY ConsoleAssumption DEF Slots
<1>3. TypeOK'
  <2>1. poll' \in [Slots -> Polls] /\ poll'[s] # Unsent
        /\ \A q \in Slots \ {s} : poll'[q] = poll[q]
    BY <1>1, <1>2, NewPoll
  <2>2. older' \in [Slots -> SUBSET Slots] /\ older'[s] = InFlight
        /\ \A q \in Slots \ {s} : older'[q] = older[q]
    BY <1>1, <1>2 DEF InFlight
  <2>3. /\ \A q \in Slots : older[q] # {} => poll[q] # Unsent
        /\ \A q, o \in Slots : o \in older[q] => poll[o] # Unsent
        /\ act.stage = "polling" <=> poll[Own] # Unsent
    BY DEF Inv, TypeOK
  <2>4. \A q \in Slots : older'[q] # {} => poll'[q] # Unsent
    BY <2>1, <2>2, <2>3
  <2>5. \A q, o \in Slots : o \in older'[q] => poll'[o] # Unsent
    BY <2>1, <2>2, <2>3 DEF InFlight
  <2>6. act'.stage = "polling" <=> poll'[Own] # Unsent
    BY <1>1, <1>2, <2>1, <2>3
  <2> QED
    BY <1>1, <2>1, <2>2, <2>4, <2>5, <2>6 DEF Inv, TypeOK
<1>4. PollsAreCurrent'
  BY <1>1, <1>2, NewPoll, CursorIsShown DEF Inv, ScreenIsCoherent, PollsAreCurrent
<1>5. AnswersAreCurrent'
  BY <1>1 DEF Inv, ScreenIsCoherent, AnswersAreCurrent
<1>6. DraftsHaveOneHome'
  <2>1. \A q \in Slots : \/ poll'[q].draft = None
                         \/ <<poll'[q].conv, poll'[q].draft>> \in Mentions
    BY <1>1, <1>2, NewPoll, Mentioned
  <2> QED
    BY <1>1, <2>1, Mentioned, HomesKept DEF Inv, ScreenIsCoherent, DraftsHaveOneHome
<1> QED
  BY <1>1, <1>3, <1>4, <1>5, <1>6, ScreenKept DEF Inv, ScreenIsCoherent

LEMMA AnswerKeeps ==
  ASSUME Inv, NEW s \in Slots, Answer(s)
  PROVE  Inv'
<1> USE Parts
<1> DEFINE p == poll[s]
           entry == server[p.conv]
           upto == IF entry.length < p.cursor + PageSize THEN entry.length ELSE p.cursor + PageSize
           head == HeadOf(p.conv, entry)
<1>1. /\ p.stage = "sent"
      /\ poll' = [poll EXCEPT ![s].stage = "read", ![s].head = head,
                              ![s].draft = entry.draft, ![s].upto = upto]
      /\ UNCHANGED <<server, used, screen, older, act, acted, gone, budget>>
  BY DEF Answer
<1>2. p \in Polls /\ p # Unsent
  BY <1>1, Starting
<1>3. /\ p.conv \in Convs /\ entry \in Conversations
      /\ ~p.superseded => p.conv = screen.selected /\ p.cursor <= Cardinality(screen.shown)
  BY <1>2 DEF Inv, ScreenIsCoherent, PollsAreCurrent, Polls
<1>4. /\ head \in Heads /\ head # None /\ head.conv = p.conv
      /\ head.version = entry.version /\ entry.version \in Nat
  BY <1>3, ConsoleAssumption DEF HeadOf, Heads, Conversations
<1>5. upto \in Nat
  BY <1>2, <1>3, ConsoleAssumption DEF Polls, Conversations
<1>6. entry.draft \in Drafts \cup {None}
  BY <1>3 DEF Conversations
<1>7. /\ poll'[s].stage = "read" /\ poll'[s].conv = p.conv /\ poll'[s].cursor = p.cursor
      /\ poll'[s].superseded = p.superseded /\ poll'[s].head = head
      /\ poll'[s].upto = upto /\ poll'[s].draft = entry.draft
      /\ \A q \in Slots \ {s} : poll'[q] = poll[q]
  <2> HIDE DEF head, upto, entry
  <2> QED
    BY <1>1, <1>2 DEF Polls
<1>8. poll' \in [Slots -> Polls] /\ poll'[s] # Unsent
  <2> HIDE DEF head, upto, entry
  <2>1. poll'[s] = [stage |-> "read", conv |-> p.conv, cursor |-> p.cursor,
                    superseded |-> p.superseded, head |-> head, upto |-> upto,
                    draft |-> entry.draft]
    BY <1>1, <1>2 DEF Polls
  <2>2. /\ p.conv \in Convs \cup {None} /\ p.cursor \in Nat /\ p.superseded \in BOOLEAN
    BY <1>2 DEF Polls
  <2>3. poll'[s] \in Polls
    BY <1>4, <1>5, <1>6, <2>1, <2>2 DEF Polls
  <2>4. poll'[s] # Unsent
    BY <1>7, Starting
  <2> QED
    BY <1>1, <2>3, <2>4
<1> HIDE DEF p, entry, upto, head
<1>9. TypeOK'
  <2>1. \A q \in Slots : poll'[q] # Unsent <=> poll[q] # Unsent
    BY <1>2, <1>7, <1>8 DEF p
  <2>2. Own \in Slots
    BY DEF Slots
  <2> QED
    BY <1>1, <1>8, <2>1, <2>2 DEF Inv, TypeOK
<1>10. PollsAreCurrent'
  <2>1. ~p.superseded => head.version >= acted /\ entry.draft \notin gone
    BY <1>3, <1>4 DEF Inv, ScreenIsCoherent, AnswersAreCurrent, entry
  <2> QED
    BY <1>1, <1>3, <1>4, <1>7, <2>1 DEF Inv, ScreenIsCoherent, PollsAreCurrent
<1>11. AnswersAreCurrent'
  BY <1>1 DEF Inv, ScreenIsCoherent, AnswersAreCurrent
<1>12. DraftsHaveOneHome'
  <2>1. \A q \in Slots : \/ poll'[q].draft = None
                         \/ <<poll'[q].conv, poll'[q].draft>> \in Mentions
    BY <1>3, <1>7, Mentioned DEF entry
  <2> QED
    BY <1>1, <2>1, Mentioned, HomesKept DEF Inv, ScreenIsCoherent, DraftsHaveOneHome
<1> QED
  BY <1>1, <1>9, <1>10, <1>11, <1>12, ScreenKept DEF Inv, ScreenIsCoherent

(* What a blank panel, or one just selected, satisfies by itself.            *)
LEMMA FreshPanel ==
  ASSUME NEW p, p.shown = {}, p.cursor = 0
  PROVE  IsFiniteSet(p.shown) /\ p.shown = 1 .. Cardinality(p.shown) /\ p.cursor \in {0} \cup p.shown
  BY FS_EmptySet, SMT

LEMMA SelectKeeps ==
  ASSUME Inv, NEW c \in Convs, Select(c)
  PROVE  Inv'
<1> USE Parts
<1>1. PICK m \in Modes : screen' = Selected(c, m)
  BY DEF Select
<1>2. ClaimAndCommit /\ acted' = 0 /\ UNCHANGED <<server, used, older, act, gone>>
  BY DEF Select
<1>3. budget' \in [changes : Nat, clicks : Nat, cuts : Nat, ticks : Nat]
  BY Spends DEF Select, Click
<1>4. server[c] \in Conversations
  OBVIOUS
<1>5. /\ screen'.selected = c /\ screen'.shown = {} /\ screen'.cursor = 0
      /\ screen'.pending = None /\ screen'.draftId = None /\ screen'.text = NoText
      /\ ~screen'.confirmed
      /\ screen'.head = [conv |-> c, mode |-> m, status |-> server[c].status, version |-> 0]
  BY <1>1 DEF Selected, Blank
<1>6. screen'.head \in Heads /\ screen'.head # None
  BY <1>4, <1>5, ConsoleAssumption DEF Heads, Conversations
<1>7. screen' \in Panels
  <2>1. screen' = [selected |-> c, head |-> screen'.head, confirmed |-> FALSE, shown |-> {},
                   cursor |-> 0, pending |-> None, draftId |-> None, text |-> NoText]
    BY <1>1, <1>5 DEF Selected, Blank
  <2>2. /\ c \in Convs \cup {None} /\ screen'.head \in Heads \cup {None}
        /\ FALSE \in BOOLEAN /\ {} \in SUBSET Nat /\ 0 \in Nat
        /\ None \in Drafts \cup {None} /\ NoText \in Texts
    BY <1>6, Starting
  <2>3. ASSUME NEW h \in Heads \cup {None}, NEW t \in Texts, NEW e \in SUBSET Nat
        PROVE  [selected |-> c, head |-> h, confirmed |-> FALSE, shown |-> e,
                cursor |-> 0, pending |-> None, draftId |-> None, text |-> t] \in Panels
    BY DEF Panels
  <2> QED
    BY <2>1, <2>2, <2>3
<1>8. TypeOK'
  BY <1>2, <1>3, <1>7, ClaimAges DEF Inv, TypeOK, OnlyOlder, Slots
<1>9. HeaderIsSelected' /\ TextIsOfDraft' /\ OwnChangeSticks' /\ GoneStaysGone'
  BY <1>2, <1>5, <1>6
  DEF HeaderIsSelected, TextIsOfDraft, OwnChangeSticks, GoneStaysGone, NoText
<1>10. TranscriptIsPrefix'
  BY <1>5, FreshPanel DEF TranscriptIsPrefix
<1>11. PollsAreCurrent'
  BY <1>2, ClaimAges, PollsKept DEF Ages, Stays
<1>12. AnswersAreCurrent'
  <2>1. \A d \in Convs : server[d].version \in Nat
    BY DEF Conversations
  <2>2. \A d \in Convs :
          /\ server[d].version <= server'[d].version /\ server'[d].version \in Nat
          /\ server'[d].draft \in {None, server[d].draft} \cup (Drafts \ used)
    BY <1>2, <2>1
  <2> QED
    BY <1>2, <2>2, AnswersKept
<1>13. DraftsHaveOneHome'
  BY <1>2, <1>5, ClaimAges, OlderMentions, Mentioned, HomesKept
<1> QED
  BY <1>8, <1>9, <1>10, <1>11, <1>12, <1>13 DEF Inv, ScreenIsCoherent

(* The transcript after a page from somewhere behind its end.               *)
LEMMA PageContinues ==
  ASSUME Inv, NEW c \in Nat, c <= Cardinality(screen.shown), NEW u \in Nat,
         NEW pages, pages = screen.shown \cup (c + 1 .. u)
  PROVE  /\ pages \in SUBSET Nat
         /\ IsFiniteSet(pages) /\ pages = 1 .. Cardinality(pages)
         /\ Cardinality(screen.shown) <= Cardinality(pages)
<1> DEFINE n == Cardinality(screen.shown)
           m == IF u > n THEN u ELSE n
<1>1. n \in Nat /\ screen.shown = 1 .. n /\ c <= n
  BY CursorIsShown
<1> HIDE DEF n
<1>2. m \in Nat /\ n <= m
  BY <1>1
<1>3. pages = 1 .. m
  BY <1>1
<1> HIDE DEF m
<1>4. IsFiniteSet(1 .. m) /\ Cardinality(1 .. m) = IF 1 > m THEN 0 ELSE m - 1 + 1
  <2>1. 1 \in Int /\ m \in Int
    BY <1>2
  <2> QED
    BY <2>1, FS_Interval
<1>5. Cardinality(pages) = m /\ IsFiniteSet(pages)
  <2>1. Cardinality(1 .. m) = m
    BY <1>2, <1>4
  <2> QED
    BY <1>3, <1>4, <2>1, Zenon
<1>6. pages \in SUBSET Nat
  BY <1>2, <1>3
<1>7. pages = 1 .. Cardinality(pages)
  BY <1>3, <1>5
<1>8. n <= Cardinality(pages)
  BY <1>2, <1>5
<1> QED
  BY <1>5, <1>6, <1>7, <1>8 DEF n

LEMMA ArriveKeeps ==
  ASSUME Inv, NEW s \in Slots, Arrive(s)
  PROVE  Inv'
<1> USE Parts
<1> DEFINE p == poll[s]
           applied == screen.selected = p.conv /\ Commits(s)
<1>1. /\ p.stage = "read" /\ Leaves(s, applied)
      /\ screen' = IF applied THEN Rendered(p) ELSE screen
      /\ act' = IF s = Own THEN Quiet ELSE act
      /\ UNCHANGED <<server, used, acted, gone, budget>>
  BY DEF Arrive
<1>2. p \in Polls /\ p # Unsent
  BY <1>1, Starting
<1>3. /\ p.conv \in Convs /\ p.head \in Heads /\ p.head # None /\ p.head.conv = p.conv
      /\ ~p.superseded => /\ p.conv = screen.selected
                          /\ p.cursor <= Cardinality(screen.shown)
                          /\ p.head.version >= acted /\ p.draft \notin gone
  BY <1>1, <1>2 DEF Inv, ScreenIsCoherent, PollsAreCurrent, Polls
<1>4. p.cursor \in Nat /\ p.upto \in Nat /\ p.draft \in Drafts \cup {None}
  BY <1>2 DEF Polls
<1>5. OnlyOlder
  BY <1>1, LeavesEnds
<1>6. /\ poll' \in [Slots -> Polls] /\ older' \in [Slots -> SUBSET Slots]
      /\ \A q \in Slots : older'[q] # {} => poll'[q] # Unsent
      /\ \A q, o \in Slots : o \in older'[q] => poll'[o] # Unsent
      /\ act' \in Acts /\ (act'.stage = "polling" <=> poll'[Own] # Unsent)
  BY <1>1, <1>2, LeavesTyped
<1>7. act' \in {act, Quiet}
  BY <1>1
<1>8. \A c \in Convs :
        /\ server[c].version <= server'[c].version /\ server'[c].version \in Nat
        /\ server'[c].draft \in {None, server[c].draft} \cup (Drafts \ used)
  <2>1. \A c \in Convs : server[c].version \in Nat
    BY DEF Conversations
  <2> QED
    BY <1>1, <2>1
<1>9. \A q \in Slots : poll[q] # Unsent /\ ~poll[q].superseded =>
        /\ poll[q].cursor <= Cardinality(screen.shown)
        /\ poll[q].stage = "read" => poll[q].draft \notin gone
  BY DEF Inv, ScreenIsCoherent, PollsAreCurrent
<1>10. act'.draft = None \/ <<act'.conv, act'.draft>> \in Mentions
  BY <1>7, Starting, Mentioned
<1>11. CASE ~applied
  <2>1. screen' = screen
    BY <1>1, <1>11
  <2>2. TypeOK'
    BY <1>1, <1>6, <1>7, <2>1, Starting DEF Inv, TypeOK
  <2>3. PollsAreCurrent'
    BY <1>1, <1>5, <1>9, <2>1, PollsKept
  <2>4. AnswersAreCurrent'
    BY <1>1, <1>7, <1>8, <2>1, AnswersKept
  <2>5. DraftsHaveOneHome'
    BY <1>1, <1>5, <1>10, <2>1, OlderMentions, Mentioned, HomesKept
    DEF Inv, ScreenIsCoherent, DraftsHaveOneHome
  <2> QED
    BY <1>1, <2>1, <2>2, <2>3, <2>4, <2>5, ScreenKept DEF Inv, ScreenIsCoherent
<1>12. CASE applied
  <2>1. screen' = Rendered(p) /\ ~p.superseded
    BY <1>1, <1>12 DEF Commits
  <2>2. /\ screen'.selected = screen.selected /\ screen'.head = p.head /\ screen'.confirmed
        /\ screen'.text = Seeded(p.draft) /\ screen'.draftId = p.draft
        /\ screen'.pending = p.draft
        /\ screen'.cursor = IF p.upto > p.cursor THEN p.upto ELSE screen.cursor
        /\ screen'.shown = screen.shown \cup (p.cursor + 1 .. p.upto)
    BY <2>1 DEF Rendered, Panels
  <2>3. /\ screen'.shown \in SUBSET Nat
        /\ IsFiniteSet(screen'.shown) /\ screen'.shown = 1 .. Cardinality(screen'.shown)
        /\ Cardinality(screen.shown) <= Cardinality(screen'.shown)
    BY <1>3, <1>4, <2>1, <2>2, PageContinues
  <2>4. screen'.cursor \in {0} \cup screen'.shown /\ screen'.cursor \in Nat
    <3>1. screen.cursor \in {0} \cup screen.shown
      BY DEF Inv, ScreenIsCoherent, TranscriptIsPrefix
    <3> QED
      BY <1>4, <2>2, <3>1
  <2>5. screen'.text \in Texts /\ screen'.text.of = p.draft
    <3>1. screen.text \in Texts /\ screen.text.of = screen.draftId
      BY DEF Panels, Inv, ScreenIsCoherent, TextIsOfDraft, DraftsHaveOneHome
    <3> QED
      BY <1>4, <2>2, <3>1 DEF Seeded, Texts
  <2>6. screen' \in Panels
    <3>1. screen' = [selected |-> screen'.selected, head |-> screen'.head,
                     confirmed |-> screen'.confirmed, shown |-> screen'.shown,
                     cursor |-> screen'.cursor, pending |-> screen'.pending,
                     draftId |-> screen'.draftId, text |-> screen'.text]
      BY <2>1 DEF Rendered, Panels
    <3>2. screen'.confirmed \in BOOLEAN
      BY <2>1 DEF Rendered, Panels
    <3> QED
      BY <1>3, <1>4, <2>2, <2>3, <2>4, <2>5, <3>1, <3>2 DEF Panels
  <2>7. TypeOK'
    BY <1>1, <1>6, <1>7, <2>6, Starting DEF Inv, TypeOK
  <2>8. HeaderIsSelected'
    BY <1>3, <1>12, <2>2 DEF HeaderIsSelected
  <2>9. TextIsOfDraft' /\ TranscriptIsPrefix'
    BY <2>2, <2>3, <2>4, <2>5 DEF TextIsOfDraft, TranscriptIsPrefix
  <2>10. OwnChangeSticks' /\ GoneStaysGone'
    BY <1>1, <1>3, <2>1, <2>2 DEF OwnChangeSticks, GoneStaysGone
  <2>11. PollsAreCurrent'
    <3>1. \A q \in Slots : poll[q] # Unsent /\ ~poll[q].superseded =>
            poll[q].cursor <= Cardinality(screen'.shown)
      <4>1. Cardinality(screen.shown) \in Nat /\ Cardinality(screen'.shown) \in Int
        <5>1. Cardinality(screen'.shown) \in Nat
          BY <2>3, FS_CardinalityType
        <5> QED
          BY <5>1, CursorIsShown
      <4>2. \A q \in Slots : poll[q].cursor \in Nat
        BY DEF Polls
      <4> QED
        BY <1>9, <2>3, <4>1, <4>2
    <3> QED
      BY <1>1, <1>5, <1>9, <2>2, <3>1, PollsKept
  <2>12. AnswersAreCurrent'
    BY <1>1, <1>7, <1>8, <2>2, AnswersKept
  <2>13. DraftsHaveOneHome'
    <3>1. <<screen'.selected, screen'.pending>> \in Mentions
      BY <1>12, <2>2, Mentioned
    <3> QED
      BY <1>1, <1>5, <1>10, <2>2, <3>1, OlderMentions, Mentioned, HomesKept
  <2> QED
    BY <2>7, <2>8, <2>9, <2>10, <2>11, <2>12, <2>13 DEF Inv, ScreenIsCoherent
<1> QED
  BY <1>11, <1>12
(* What the route makes of the conversation it is asked about.              *)
LEMMA DoneRow ==
  ASSUME NEW r \in Conversations, act.kind \in Kinds,
         act.kind = "mode" => act.mode \in Modes
  PROVE  /\ Done(r) \in Conversations
         /\ r.version <= Done(r).version /\ r.version \in Nat
         /\ Done(r).draft \in {None, r.draft}
         /\ act.kind \in {"send", "discard"} => Done(r).draft = None
<1>0. r.version \in Nat /\ 1 \in Nat
  BY DEF Conversations
<1>1. CASE act.kind = "reply"
  <2>1. Done(r) = [r EXCEPT !.length = @ + 1]
    BY <1>1 DEF Done
  <2> QED
    BY <1>0, <1>1, <2>1, Longer
<1>2. CASE act.kind = "mode"
  <2> DEFINE flipped == [r EXCEPT !.mode = act.mode]
  <2>1. Done(r) = [flipped EXCEPT !.version = @ + 1]
    BY <1>2 DEF Done
  <2>2. flipped \in Conversations /\ flipped.version = r.version /\ flipped.draft = r.draft
    BY <1>2, Moded
  <2> HIDE DEF flipped
  <2> QED
    BY <1>0, <1>2, <2>1, <2>2, Versioned
<1>3. CASE act.kind = "assign"
  <2>1. Done(r) = [r EXCEPT !.version = @ + 1]
    BY <1>3 DEF Done
  <2> QED
    BY <1>0, <1>3, <2>1, Versioned
<1>4. CASE act.kind = "resolve"
  <2> DEFINE resolved == [r EXCEPT !.status = "resolved"]
  <2>1. Done(r) = [resolved EXCEPT !.version = @ + 1]
    BY <1>4 DEF Done
  <2>2. resolved \in Conversations /\ resolved.version = r.version /\ resolved.draft = r.draft
    BY ResolvedRow
  <2> HIDE DEF resolved
  <2> QED
    BY <1>0, <1>4, <2>1, <2>2, Versioned
<1>5. CASE act.kind = "send"
  <2> DEFINE emptied == [r EXCEPT !.draft = None]
  <2>1. Done(r) = [emptied EXCEPT !.length = @ + 1]
    BY <1>5 DEF Done
  <2>2. emptied \in Conversations /\ emptied.version = r.version /\ emptied.draft = None
    BY Drafted
  <2> HIDE DEF emptied
  <2> QED
    BY <1>0, <1>5, <2>1, <2>2, Longer
<1>6. CASE act.kind = "discard"
  <2>1. Done(r) = [r EXCEPT !.draft = None]
    BY <1>6 DEF Done
  <2> QED
    BY <1>0, <1>6, <2>1, Drafted
<1> QED
  BY <1>1, <1>2, <1>3, <1>4, <1>5, <1>6 DEF Kinds

LEMMA ServeKeeps ==
  ASSUME Inv, Serve
  PROVE  Inv'
<1> USE Parts
<1>1. act.stage = "sent" /\ UNCHANGED <<used, screen, poll, older, acted, gone, budget>>
  BY DEF Serve
<1>2. /\ act.conv \in Convs /\ act.kind \in Kinds
      /\ act.kind \in {"send", "discard"} => act.draft \in used
      /\ act.kind = "mode" => act.mode \in Modes
  BY <1>1 DEF Inv, TypeOK, ScreenIsCoherent, AnswersAreCurrent
<1>3. act.kind \in Kinds \cup {None} /\ act.mode \in Modes \cup {None} /\ act.head \in Heads \cup {None}
  BY DEF Acts
<1>4. AnswersAreCurrent /\ None \notin used /\ None \notin gone
  BY DEF Inv, ScreenIsCoherent
<1>5. CASE Refused
  <2>1. act' = [act EXCEPT !.stage = "refused"] /\ server' = server
    BY <1>5 DEF Serve
  <2>2. /\ act' \in Acts /\ act'.stage = "refused" /\ act'.kind = act.kind
        /\ act'.conv = act.conv /\ act'.draft = act.draft /\ act'.mode = act.mode
    BY <2>1 DEF Acts
  <2>3. TypeOK'
    BY <1>1, <2>1, <2>2 DEF Inv, TypeOK
  <2>4. AnswersAreCurrent'
    BY <1>1, <1>2, <1>4, <2>1, <2>2 DEF AnswersAreCurrent
  <2>5. DraftsHaveOneHome'
    BY <1>1, <2>1, <2>2, Mentioned, HomesKept
    DEF Inv, ScreenIsCoherent, DraftsHaveOneHome
  <2> QED
    BY <1>1, <2>3, <2>4, <2>5, ScreenKept, ScreenAndPollsKept DEF Inv, ScreenIsCoherent
<1>6. CASE ~Refused
  <2> DEFINE old == server[act.conv]
             entry == Done(old)
             head == HeadOf(act.conv, entry)
  <2>1. /\ server' = [server EXCEPT ![act.conv] = entry]
        /\ act' = [act EXCEPT !.stage = "ok", !.head = head]
    BY <1>6 DEF Serve
  <2>2. old \in Conversations
    BY <1>2
  <2>3. /\ entry \in Conversations /\ old.version <= entry.version /\ old.version \in Nat
        /\ entry.draft \in {None, old.draft}
        /\ act.kind \in {"send", "discard"} => entry.draft = None
    BY <1>2, <2>2, DoneRow
  <2>4. act.kind \in {"send", "discard"} => old.draft = act.draft
    BY <1>6 DEF Refused
  <2> HIDE DEF entry, old
  <2>5. /\ head \in Heads /\ head # None /\ head.conv = act.conv
        /\ head.version = entry.version /\ entry.version \in Nat
    BY <1>2, <2>3, ConsoleAssumption DEF HeadOf, Heads, Conversations
  <2> HIDE DEF head
  <2>6. /\ act'.stage = "ok" /\ act'.kind = act.kind /\ act'.conv = act.conv
        /\ act'.mode = act.mode /\ act'.draft = act.draft /\ act'.head = head
    BY <2>1 DEF Acts
  <2>7. act' \in Acts
    <3>1. act' = [kind |-> act.kind, stage |-> "ok", conv |-> act.conv, mode |-> act.mode,
                  draft |-> act.draft, head |-> head]
      BY <2>1 DEF Acts
    <3> QED
      BY <1>3, <2>5, <3>1 DEF Acts
  <2>8. /\ server' \in [Convs -> Conversations] /\ server'[act.conv] = entry
        /\ \A c \in Convs \ {act.conv} : server'[c] = server[c]
    BY <1>2, <2>1, <2>3
  <2>9. \A c \in Convs : /\ server[c].version <= server'[c].version
                         /\ server[c].version \in Nat /\ server'[c].version \in Nat
                         /\ server'[c].draft \in {None, server[c].draft}
    <3>1. \A c \in Convs : server[c].version \in Nat
      BY DEF Conversations
    <3> QED
      BY <2>3, <2>5, <2>8, <3>1 DEF old
  <2>10. TypeOK'
    BY <1>1, <2>6, <2>7, <2>8 DEF Inv, TypeOK
  <2>11. act.kind \in {"send", "discard"} => \A c \in Convs : server'[c].draft # act.draft
    <3>1. /\ \A c \in Convs : <<c, server[c].draft>> \in Mentions
          /\ \A m, n \in Mentions : m[2] # None /\ m[2] = n[2] => m[1] = n[1]
      BY Mentioned DEF Inv, ScreenIsCoherent, DraftsHaveOneHome
    <3>2. \A c, d \in Convs :
            server[c].draft # None /\ server[c].draft = server[d].draft => c = d
      BY <3>1
    <3> QED
      BY <1>2, <1>4, <2>3, <2>4, <2>8, <3>2 DEF old
  <2>12. AnswersAreCurrent'
    <3>1. acted' # 0 => screen'.selected # None /\ acted' <= server'[screen'.selected].version
      BY <1>1, <1>4, <2>9 DEF AnswersAreCurrent
    <3>2. \A c \in Convs : server'[c].draft \notin gone'
      BY <1>1, <1>4, <2>9 DEF AnswersAreCurrent
    <3>3. act'.head.version <= server'[act'.conv].version
      BY <2>5, <2>6, <2>8
    <3> QED
      BY <1>1, <1>2, <2>5, <2>6, <2>11, <3>1, <3>2, <3>3 DEF AnswersAreCurrent
  <2>13. DraftsHaveOneHome'
    <3>1. \A c \in Convs : server'[c].draft = None \/ <<c, server'[c].draft>> \in Mentions
      BY <2>9, Mentioned
    <3> QED
      BY <1>1, <2>6, <3>1, Mentioned, HomesKept
      DEF Inv, ScreenIsCoherent, DraftsHaveOneHome
  <2> QED
    BY <1>1, <2>10, <2>12, <2>13, ScreenKept, ScreenAndPollsKept
    DEF Inv, ScreenIsCoherent
<1> QED
  BY <1>5, <1>6

LEMMA HeadAnsweredKeeps ==
  ASSUME Inv, HeadAnswered
  PROVE  Inv'
<1> USE Parts
<1>1. /\ act.stage = "ok" /\ act.kind \in {"mode", "assign", "resolve"} /\ act' = Quiet
      /\ UNCHANGED <<server, used, older, gone, budget>>
  BY DEF HeadAnswered
<1>2. budget' \in [changes : Nat, clicks : Nat, cuts : Nat, ticks : Nat]
  BY <1>1 DEF Inv, TypeOK
<1>3. CASE ~ShowsHead
  BY <1>1, <1>2, <1>3, OverKeeps DEF HeadAnswered
<1>4. CASE ShowsHead
  <2>1. ClaimAndCommit /\ screen.selected = act.conv
    BY <1>4 DEF HeadAnswered, ShowsHead, Here
  <2>2. /\ act.conv \in Convs /\ act.head \in Heads /\ act.head # None
        /\ act.head.conv = act.conv /\ act.head.version \in Nat
        /\ act.head.version <= server[act.conv].version
    BY <1>1 DEF Inv, ScreenIsCoherent, AnswersAreCurrent, Acts, Heads
  <2>3. \/ screen' = Blank /\ acted' = 0
        \/ screen' = Shown /\ acted' = act.head.version
    BY <1>4 DEF HeadAnswered, Closed
  <2>4. screen' \in Panels
    <3>1. Blank \in Panels
      <4>1. ASSUME NEW t \in Texts, NEW e \in SUBSET Nat
            PROVE  [selected |-> None, head |-> None, confirmed |-> FALSE, shown |-> e,
                    cursor |-> 0, pending |-> None, draftId |-> None, text |-> t] \in Panels
        BY DEF Panels
      <4>2. {} \in SUBSET Nat
        OBVIOUS
      <4> QED
        BY <4>1, <4>2, Starting DEF Blank
    <3>2. Shown \in Panels
      <4> DEFINE confirmed == [screen EXCEPT !.confirmed = TRUE]
      <4>1. confirmed \in Panels
        BY DEF Panels
      <4>2. Shown = [confirmed EXCEPT !.head = act.head]
        BY DEF Shown, Panels
      <4> HIDE DEF confirmed
      <4> QED
        BY <2>2, <4>1, <4>2 DEF Panels
    <3> QED
      BY <2>3, <3>1, <3>2
  <2>5. TypeOK'
    <3>1. acted' \in Nat /\ Own \in Slots
      BY <2>2, <2>3 DEF Slots
    <3>2. act'.stage = "idle" /\ act' \in Acts /\ act'.kind \notin Kinds
      BY <1>1, Starting
    <3> QED
      BY <1>1, <1>2, <2>1, <2>4, <3>1, <3>2, ClaimAges DEF Inv, TypeOK, OnlyOlder, Kinds
  <2>6. PollsAreCurrent'
    BY <2>1, ClaimAges, PollsKept DEF Ages, Stays
  <2>7. AnswersAreCurrent'
    <3>1. acted' # 0 => screen'.selected = act.conv /\ acted' = act.head.version
      BY <2>1, <2>3 DEF Shown, Panels
    <3>2. \A c \in Convs : server'[c].draft \notin gone'
      BY <1>1 DEF Inv, ScreenIsCoherent, AnswersAreCurrent
    <3> QED
      BY <1>1, <2>2, <3>1, <3>2, Starting DEF AnswersAreCurrent, Kinds
  <2>8. CASE screen' = Blank
    <3>1. /\ screen'.selected = None /\ screen'.head = None /\ ~screen'.confirmed
          /\ screen'.shown = {} /\ screen'.cursor = 0 /\ screen'.pending = None
          /\ screen'.draftId = None /\ screen'.text.of = None
      BY <2>8 DEF Blank, NoText
    <3>2. TranscriptIsPrefix'
      BY <3>1, FreshPanel DEF TranscriptIsPrefix
    <3>3. HeaderIsSelected' /\ TextIsOfDraft' /\ OwnChangeSticks' /\ GoneStaysGone'
      BY <1>1, <3>1 DEF HeaderIsSelected, TextIsOfDraft, OwnChangeSticks, GoneStaysGone
    <3>4. DraftsHaveOneHome'
      BY <1>1, <2>1, <3>1, ClaimAges, OlderMentions, Starting, Mentioned, HomesKept
    <3> QED
      BY <2>5, <2>6, <2>7, <3>2, <3>3, <3>4 DEF Inv, ScreenIsCoherent
  <2>9. CASE screen' = Shown /\ acted' = act.head.version
    <3>1. /\ screen'.selected = screen.selected /\ screen'.head = act.head
          /\ screen'.shown = screen.shown /\ screen'.cursor = screen.cursor
          /\ screen'.pending = screen.pending /\ screen'.draftId = screen.draftId
          /\ screen'.text = screen.text
      BY <2>9 DEF Shown, Panels
    <3>2. TranscriptIsPrefix' /\ TextIsOfDraft' /\ GoneStaysGone'
      BY <1>1, <3>1
      DEF Inv, ScreenIsCoherent, TranscriptIsPrefix, TextIsOfDraft, GoneStaysGone
    <3>3. HeaderIsSelected' /\ OwnChangeSticks'
      BY <2>1, <2>2, <2>9, <3>1 DEF HeaderIsSelected, OwnChangeSticks
    <3>4. DraftsHaveOneHome'
      <4>1. \A s \in Slots : \/ poll'[s].draft = None
                             \/ <<poll'[s].conv, poll'[s].draft>> \in Mentions
        BY <2>1, ClaimAges, OlderMentions
      <4>2. screen'.draftId = screen'.pending
        BY <3>1 DEF Inv, ScreenIsCoherent, DraftsHaveOneHome
      <4> QED
        BY <1>1, <3>1, <4>1, <4>2, Starting, Mentioned, HomesKept
    <3> QED
      BY <2>5, <2>6, <2>7, <3>2, <3>3, <3>4 DEF Inv, ScreenIsCoherent
  <2> QED
    BY <2>3, <2>8, <2>9
<1> QED
  BY <1>3, <1>4
(* The poll an action waits for goes out, whatever becomes of the others.    *)
LEMMA OwnIssued ==
  ASSUME Inv, poll[Own] = Unsent, IssuedLast(Own), poll' \in [Slots -> Polls],
         poll'[Own] # Unsent,
         \A q \in Slots \ {Own} : poll'[q] # Unsent <=> poll[q] # Unsent
  PROVE  /\ older' \in [Slots -> SUBSET Slots]
         /\ \A q \in Slots : older'[q] # {} => poll'[q] # Unsent
         /\ \A q, o \in Slots : o \in older'[q] => poll'[o] # Unsent
<1> USE Parts
<1>1. Own \in Slots
  BY DEF Slots
<1>2. /\ older' \in [Slots -> SUBSET Slots] /\ older'[Own] = InFlight
      /\ \A q \in Slots \ {Own} : older'[q] = older[q]
  BY <1>1 DEF IssuedLast, InFlight
<1>3. /\ \A q \in Slots : older[q] # {} => poll[q] # Unsent
      /\ \A q, o \in Slots : o \in older[q] => poll[o] # Unsent
  BY DEF Inv, TypeOK
<1>4. \A q \in Slots : older'[q] # {} => poll'[q] # Unsent
  BY <1>1, <1>2, <1>3
<1>5. \A q, o \in Slots : o \in older'[q] => poll'[o] # Unsent
  BY <1>1, <1>2, <1>3 DEF InFlight
<1> QED
  BY <1>2, <1>4, <1>5

(* The operator's request has become the poll it waits for.                 *)
Awaiting == [Quiet EXCEPT !.stage = "polling"]
LEMMA AwaitingIs ==
  /\ Awaiting \in Acts /\ Awaiting.stage = "polling" /\ Awaiting.kind = None
  /\ Awaiting.draft = None /\ None \notin Kinds
  BY ConsoleAssumption DEF Awaiting, Quiet, Acts

LEMMA ReplyAnsweredKeeps ==
  ASSUME Inv, ReplyAnswered
  PROVE  Inv'
<1> USE Parts
<1>1. act.stage = "ok" /\ UNCHANGED <<server, used, screen, acted, gone, budget>>
  BY DEF ReplyAnswered
<1>2. CASE screen.selected = None
  <2>1. act' = Quiet /\ UNCHANGED <<poll, older>>
    BY <1>2 DEF ReplyAnswered
  <2>2. budget' \in [changes : Nat, clicks : Nat, cuts : Nat, ticks : Nat]
    BY <1>1 DEF Inv, TypeOK
  <2> QED
    BY <1>1, <2>1, <2>2, OverKeeps
<1>3. CASE screen.selected # None
  <2>1. /\ act' = Awaiting /\ poll' = [poll EXCEPT ![Own] = Issued(Own)] /\ IssuedLast(Own)
    BY <1>3 DEF ReplyAnswered, Awaiting
  <2>2. Own \in Slots /\ poll[Own] = Unsent
    BY <1>1 DEF Slots, Inv, TypeOK
  <2>3. /\ poll' \in [Slots -> Polls] /\ poll'[Own] = Issued(Own) /\ poll'[Own] # Unsent
        /\ \A q \in Slots \ {Own} : poll'[q] = poll[q]
    BY <1>3, <2>1, <2>2, NewPoll
  <2>4. TypeOK'
    BY <1>1, <2>1, <2>2, <2>3, OwnIssued, AwaitingIs DEF Inv, TypeOK, Kinds
  <2>5. PollsAreCurrent'
    BY <1>1, <1>3, <2>2, <2>3, NewPoll, CursorIsShown
    DEF Inv, ScreenIsCoherent, PollsAreCurrent
  <2>6. AnswersAreCurrent'
    BY <1>1, <2>1, AwaitingIs DEF Inv, ScreenIsCoherent, AnswersAreCurrent, Kinds
  <2>7. DraftsHaveOneHome'
    <3>1. \A q \in Slots : \/ poll'[q].draft = None
                           \/ <<poll'[q].conv, poll'[q].draft>> \in Mentions
      BY <1>3, <2>2, <2>3, NewPoll, Mentioned
    <3> QED
      BY <1>1, <2>1, <3>1, AwaitingIs, Mentioned, HomesKept
      DEF Inv, ScreenIsCoherent, DraftsHaveOneHome
  <2> QED
    BY <1>1, <2>4, <2>5, <2>6, <2>7, ScreenKept DEF Inv, ScreenIsCoherent
<1> QED
  BY <1>2, <1>3

LEMMA DraftAnsweredKeeps ==
  ASSUME Inv, DraftAnswered
  PROVE  Inv'
<1> USE Parts
<1>1. /\ act.stage = "ok" /\ act.kind \in {"send", "discard"}
      /\ gone' = gone \cup {act.draft}
      /\ UNCHANGED <<server, used, acted, budget>>
  BY DEF DraftAnswered
<1>2. /\ act.draft \in used /\ act.conv \in Convs /\ None \notin used
      /\ \A c \in Convs : server[c].draft # act.draft
      /\ \A c \in Convs : server[c].draft \notin gone
      /\ acted # 0 => screen.selected # None /\ acted <= server[screen.selected].version
  BY <1>1 DEF Inv, ScreenIsCoherent, AnswersAreCurrent
<1>3. gone' \subseteq used /\ None \notin gone'
  BY <1>1, <1>2
<1>4. \A c \in Convs : server'[c].draft \notin gone'
  BY <1>1, <1>2
<1>5. CASE ~Here
  <2>1. act' = Quiet /\ UNCHANGED <<poll, older, screen>> /\ screen.selected # act.conv
    BY <1>5 DEF DraftAnswered, Here
  <2>2. \A m \in Mentions : m[2] = act.draft => m[1] = act.conv
    BY <1>2, Mentioned DEF Inv, ScreenIsCoherent, DraftsHaveOneHome
  <2>3. screen.pending # act.draft
    BY <2>1, <2>2, Mentioned
  <2>4. \A s \in Slots : poll[s].conv = screen.selected => poll[s].draft # act.draft
    BY <2>1, <2>2, Mentioned
  <2>5. TypeOK'
    BY <1>1, <1>3, <2>1, Starting DEF Inv, TypeOK
  <2>6. HeaderIsSelected' /\ TextIsOfDraft' /\ TranscriptIsPrefix' /\ OwnChangeSticks'
    BY <1>1, <2>1 DEF Inv, ScreenIsCoherent, HeaderIsSelected, TextIsOfDraft,
                      TranscriptIsPrefix, OwnChangeSticks
  <2>7. GoneStaysGone'
    BY <1>1, <2>1, <2>3 DEF Inv, ScreenIsCoherent, GoneStaysGone
  <2>8. PollsAreCurrent'
    BY <1>1, <2>1, <2>4 DEF Inv, ScreenIsCoherent, PollsAreCurrent
  <2>9. AnswersAreCurrent'
    BY <1>1, <1>2, <1>4, <2>1, Starting DEF AnswersAreCurrent, Kinds
  <2>10. DraftsHaveOneHome'
    BY <1>1, <2>1, Starting, Mentioned, HomesKept
    DEF Inv, ScreenIsCoherent, DraftsHaveOneHome
  <2> QED
    BY <2>5, <2>6, <2>7, <2>8, <2>9, <2>10 DEF Inv, ScreenIsCoherent
<1>6. CASE Here
  <2>1. screen' = Emptied /\ screen.selected \in Convs
    BY <1>2, <1>6 DEF DraftAnswered, Here
  <2>2. /\ screen'.selected = screen.selected /\ screen'.head = screen.head
        /\ screen'.confirmed = screen.confirmed /\ screen'.shown = screen.shown
        /\ screen'.cursor = screen.cursor /\ screen'.pending = None
        /\ screen'.draftId = None /\ screen'.text = NoText
    BY <2>1 DEF Emptied, Panels
  <2>3. screen' \in Panels
    <3> DEFINE unpended == [screen EXCEPT !.pending = None]
               unnamed == [unpended EXCEPT !.draftId = None]
    <3>1. unpended \in Panels
      BY DEF Panels
    <3>2. Emptied = [unnamed EXCEPT !.text = NoText]
      BY DEF Emptied, Panels
    <3> HIDE DEF unpended
    <3>3. unnamed \in Panels
      BY <3>1 DEF Panels
    <3> HIDE DEF unnamed
    <3> QED
      BY <2>1, <3>2, <3>3, Starting DEF Panels
  <2>4. HeaderIsSelected' /\ TranscriptIsPrefix' /\ OwnChangeSticks'
    BY <1>1, <2>2
    DEF Inv, ScreenIsCoherent, HeaderIsSelected, TranscriptIsPrefix, OwnChangeSticks
  <2>5. TextIsOfDraft' /\ GoneStaysGone'
    BY <1>3, <2>2 DEF TextIsOfDraft, GoneStaysGone, NoText
  <2>6. acted' # 0 => screen'.selected # None /\ acted' <= server'[screen'.selected].version
    BY <1>1, <1>2, <2>2
  <2>7. poll[Own] = Unsent /\ Own \in Slots
    BY <1>1 DEF Slots, Inv, TypeOK
  <2>8. CASE act.kind = "discard"
    <3>1. ClaimAndCommit /\ act' = Quiet /\ UNCHANGED older
      BY <1>6, <2>8 DEF DraftAnswered
    <3>2. TypeOK'
      BY <1>1, <1>3, <2>3, <2>7, <3>1, Starting, ClaimAges DEF Inv, TypeOK, OnlyOlder
    <3>3. PollsAreCurrent'
      BY <3>1, ClaimAges, PollsKept DEF Ages, Stays
    <3>4. AnswersAreCurrent'
      BY <1>4, <2>6, <3>1, Starting DEF AnswersAreCurrent, Kinds
    <3>5. DraftsHaveOneHome'
      BY <1>1, <2>2, <3>1, ClaimAges, OlderMentions, Starting, Mentioned, HomesKept
    <3> QED
      BY <2>4, <2>5, <3>2, <3>3, <3>4, <3>5 DEF Inv, ScreenIsCoherent
  <2>9. CASE act.kind = "send"
    <3>1. /\ act' = Awaiting /\ IssuedLast(Own)
          /\ poll' = [s \in Slots |-> IF s = Own THEN Issued(Own)
                                      ELSE IF poll[s] = Unsent THEN Unsent
                                      ELSE [poll[s] EXCEPT !.superseded = TRUE]]
      BY <1>6, <2>9 DEF DraftAnswered, Awaiting
    <3>2. ASSUME NEW s \in Slots, s # Own
          PROVE  /\ poll'[s] \in Polls
                 /\ poll'[s] # Unsent <=> poll[s] # Unsent
                 /\ poll'[s] = Unsent \/ (poll[s] # Unsent /\ poll'[s] = Aged(poll[s]))
      <4>1. poll'[s] = IF poll[s] = Unsent THEN Unsent ELSE Aged(poll[s])
        BY <3>1, <3>2 DEF Aged
      <4>2. poll[s] # Unsent => Aged(poll[s]) # Unsent
        BY Flying, Ageing, Starting
      <4> QED
        BY <4>1, <4>2, Ageing, Starting
    <3>3. /\ poll'[Own] = Issued(Own) /\ Issued(Own) \in Polls /\ Issued(Own) # Unsent
          /\ Issued(Own).stage = "sent" /\ Issued(Own).conv = screen.selected
          /\ Issued(Own).cursor = screen.cursor /\ Issued(Own).draft = None
      BY <2>1, <2>7, <3>1, NewPoll
    <3>4. poll' \in [Slots -> Polls]
      <4>1. \A s \in Slots : poll'[s] \in Polls
        BY <3>2, <3>3
      <4>2. poll' = [s \in Slots |-> poll'[s]]
        BY <3>1
      <4> QED
        BY <4>1, <4>2
    <3>5. TypeOK'
      BY <1>1, <1>3, <2>3, <2>7, <3>1, <3>2, <3>3, <3>4, OwnIssued, AwaitingIs
      DEF Inv, TypeOK, Kinds
    <3>6. PollsAreCurrent'
      <4> SUFFICES ASSUME NEW s \in Slots, poll'[s] # Unsent
                   PROVE  /\ poll'[s].stage # "idle" /\ poll'[s].conv # None
                          /\ poll'[s].stage = "read" =>
                               poll'[s].head # None /\ poll'[s].head.conv = poll'[s].conv
                          /\ ~poll'[s].superseded =>
                               /\ poll'[s].conv = screen'.selected
                               /\ poll'[s].cursor <= Cardinality(screen'.shown)
                               /\ poll'[s].stage = "read" =>
                                    /\ poll'[s].head.version >= acted'
                                    /\ poll'[s].draft \notin gone'
        BY DEF PollsAreCurrent
      <4>1. CASE s = Own
        BY <2>1, <2>2, <3>3, <4>1, CursorIsShown
      <4>2. CASE s # Own
        <5>1. /\ poll[s].stage # "idle" /\ poll[s].conv # None
              /\ poll[s].stage = "read" =>
                   poll[s].head # None /\ poll[s].head.conv = poll[s].conv
          BY <3>2, <4>2 DEF Inv, ScreenIsCoherent, PollsAreCurrent
        <5> QED
          BY <3>2, <4>2, <5>1, Ageing
      <4> QED
        BY <4>1, <4>2
    <3>7. AnswersAreCurrent'
      BY <1>4, <2>6, <3>1, AwaitingIs DEF AnswersAreCurrent, Kinds
    <3>8. DraftsHaveOneHome'
      <4>1. \A s \in Slots : \/ poll'[s].draft = None
                             \/ <<poll'[s].conv, poll'[s].draft>> \in Mentions
        BY <3>2, <3>3, Ageing, Starting, Mentioned
      <4> QED
        BY <1>1, <2>2, <3>1, <4>1, AwaitingIs, Mentioned, HomesKept
    <3> QED
      BY <2>4, <2>5, <3>5, <3>6, <3>7, <3>8 DEF Inv, ScreenIsCoherent
  <2> QED
    BY <1>1, <2>8, <2>9
<1> QED
  BY <1>5, <1>6

-----------------------------------------------------------------------------
LEMMA InitInv ==
  ASSUME Init
  PROVE  Inv
<1>1. /\ \A s \in Slots : poll[s] = Unsent /\ older[s] = {}
      /\ \A c \in Convs : server[c].draft = None
      /\ act = Quiet /\ acted = 0 /\ used = {} /\ gone = {} /\ screen = Blank
  BY DEF Init
<1>2. /\ screen.selected = None /\ screen.head = None /\ ~screen.confirmed
      /\ screen.shown = {} /\ screen.cursor = 0 /\ screen.pending = None
      /\ screen.draftId = None /\ screen.text = NoText
  BY <1>1 DEF Blank
<1>3. Blank \in Panels
  <2>1. ASSUME NEW t \in Texts, NEW e \in SUBSET Nat
        PROVE  [selected |-> None, head |-> None, confirmed |-> FALSE, shown |-> e,
                cursor |-> 0, pending |-> None, draftId |-> None, text |-> t] \in Panels
    BY DEF Panels
  <2>2. {} \in SUBSET Nat
    OBVIOUS
  <2> QED
    BY <2>1, <2>2, Starting DEF Blank
<1>4. TypeOK
  <2>1. server \in [Convs -> Conversations]
    BY DEF Init, Conversations, Modes
  <2>2. poll \in [Slots -> Polls] /\ older \in [Slots -> SUBSET Slots]
    BY Starting DEF Init
  <2>3. budget \in [changes : Nat, clicks : Nat, cuts : Nat, ticks : Nat]
    BY ConsoleAssumption DEF Init
  <2>4. Own \in Slots
    BY DEF Slots
  <2> QED
    BY <1>1, <1>3, <2>1, <2>2, <2>3, <2>4, Starting DEF TypeOK
<1>5. TranscriptIsPrefix
  BY <1>2, FreshPanel DEF TranscriptIsPrefix
<1>6. HeaderIsSelected /\ TextIsOfDraft /\ OwnChangeSticks /\ GoneStaysGone
  BY <1>1, <1>2
  DEF HeaderIsSelected, TextIsOfDraft, OwnChangeSticks, GoneStaysGone, NoText
<1>7. PollsAreCurrent /\ AnswersAreCurrent
  BY <1>1, Starting, AwaitingIs DEF PollsAreCurrent, AnswersAreCurrent, Kinds
<1>8. DraftsHaveOneHome
  <2>1. \A m \in Mentions : m[2] = None
    BY <1>1, <1>2, Starting DEF Mentions
  <2> QED
    BY <1>2, <2>1 DEF DraftsHaveOneHome
<1> QED
  BY <1>4, <1>5, <1>6, <1>7, <1>8 DEF Inv, ScreenIsCoherent

LEMMA StutterKeeps ==
  ASSUME Inv, UNCHANGED vars
  PROVE  Inv'
<1>1. UNCHANGED <<server, used, screen, poll, older, act, acted, gone, budget>>
  BY DEF vars
<1>2. TypeOK'
  BY <1>1 DEF Inv, TypeOK
<1>3. AnswersAreCurrent' /\ DraftsHaveOneHome'
  BY <1>1 DEF Inv, ScreenIsCoherent, AnswersAreCurrent, DraftsHaveOneHome, Mentions
<1> QED
  BY <1>1, <1>2, <1>3, ScreenKept, ScreenAndPollsKept DEF Inv, ScreenIsCoherent

LEMMA NextKeeps ==
  ASSUME Inv, [Next]_vars
  PROVE  Inv'
<1>1. ASSUME NEW c \in Convs, Others(c) \/ Select(c) PROVE Inv'
  BY <1>1, OthersKeep, SelectKeeps
<1>2. ASSUME NEW s \in Slots, Polling(s) \/ Fails(s) PROVE Inv'
  BY <1>2, AnswerKeeps, ArriveKeeps, FailsKeeps DEF Polling
<1>3. ASSUME NEW s \in Ticks, Tick(s) PROVE Inv'
  BY <1>3, TickKeeps
<1>4. ASSUME NEW k \in Kinds, Ask(k) PROVE Inv'
  BY <1>4, AskKeeps
<1>5. ASSUME Edit \/ Acting \/ ActFails PROVE Inv'
  BY <1>5, EditKeeps, ServeKeeps, HeadAnsweredKeeps, DraftAnsweredKeeps,
     ReplyAnsweredKeeps, RefusalKeeps, ActFailsKeeps DEF Acting
<1> QED
  BY <1>1, <1>2, <1>3, <1>4, <1>5, StutterKeeps DEF Next

(* Conversations, panel, polls and request are always of their kind: an      *)
(* answered poll has a header and a draft, a poll's elders are in flight,    *)
(* and the operator waits for a poll exactly while it is out                *)
(* (inbox-console.tsx:130-205).                                             *)
THEOREM TypeCorrect == Spec => []TypeOK
<1>1. Init => Inv
  BY InitInv
<1>2. Inv /\ [Next]_vars => Inv'
  BY NextKeeps
<1>3. Inv => TypeOK
  BY DEF Inv
<1> QED
  BY <1>1, <1>2, <1>3, PTL DEF Spec

(* However many conversations, drafts and polls, and in whatever order they *)
(* arrive: header, editor and transcript are of the selected conversation,  *)
(* the transcript has no gap, and no late answer undoes an own change or    *)
(* brings back a draft that was sent or discarded                           *)
(* (inbox-console.tsx:130-205, 328-352).                                    *)
THEOREM ScreenStaysCoherent == Spec => []ScreenIsCoherent
<1>1. Init => Inv
  BY InitInv
<1>2. Inv /\ [Next]_vars => Inv'
  BY NextKeeps
<1>3. Inv => ScreenIsCoherent
  BY DEF Inv
<1> QED
  BY <1>1, <1>2, <1>3, PTL DEF Spec
-----------------------------------------------------------------------------
(* The queue.                                                             *)

(* The editors hold what was written for the request shown.                 *)
EditorsAreHome ==
  /\ detail = None => copyInput = None /\ ctaInput.url = None
  /\ detail # None => copyInput \in {detail.id, None} /\ ctaInput.url \in {detail.id, None}

(* A call carries, and is answered with, what was written for its request.   *)
OwnTexts(copy, cta, r) == copy \in {r, None} /\ cta.url \in {r, None}
Fit(c) ==
  /\ c.heard => c.kind # "none"
  /\ c.kind # "none" => c.id \in Requests /\ OwnTexts(c.copy, c.cta, c.id)
  /\ c.answer # None => c.answer.id = c.id /\ OwnTexts(c.answer.copy, c.answer.cta, c.id)

(* The last card clicked is shown, or still loading.                        *)
LastIsComing ==
  wanted # None /\ ~disturbed =>
    /\ selectedId = wanted
    /\ \/ detail # None /\ detail.id = wanted
       \/ \E s \in Flights : Queue!Opening(s) /\ calls[s].id = wanted

(* Without a card loading beside it, an action is alone, and is waited for.  *)
ActionIsAlone ==
  ~jumped => \A s \in Flights : Queue!Acting(s) =>
               busy /\ \A t \in Flights : calls[t].heard => t = s

Calls == \A s \in Flights : Fit(calls[s])
QueueInv ==
  /\ Queue!TypeOK /\ Queue!TextsStayHome /\ Queue!ChannelsWereOffered /\ Queue!BusyEnds
  /\ EditorsAreHome /\ Calls /\ LastIsComing /\ ActionIsAlone

LEMMA QueueParts ==
  ASSUME QueueInv
  PROVE  /\ row \in [Requests -> Queue!Rows] /\ detail \in Queue!Views \cup {None}
         /\ selectedId \in Queue!Texts /\ copyInput \in Queue!Texts
         /\ ctaInput \in Queue!Buttons
         /\ publishChannels \subseteq Channels /\ busy \in BOOLEAN
         /\ calls \in [Flights -> Queue!CallsOf] /\ wanted \in Queue!Texts
         /\ disturbed \in BOOLEAN /\ jumped \in BOOLEAN
         /\ clicks \in 0 .. MaxClicks /\ typed \in 0 .. MaxEdits
  BY DEF QueueInv, Queue!TypeOK

(* Calls: a new one, one that was answered, one nobody waits for any more.   *)
LEMMA NoCallFits ==
  /\ Queue!NoCall \in Queue!CallsOf /\ Queue!NoCall.kind = "none" /\ ~Queue!NoCall.heard
  /\ Fit(Queue!NoCall)
  BY DEF Queue!NoCall, Queue!CallsOf, Queue!NoButton, Queue!Texts, Queue!Buttons, Fit

LEMMA CallFits ==
  ASSUME NEW k \in Queue!Actions \cup {"open", "upload"}, NEW r \in Requests
  PROVE  /\ Queue!Call(k, r) \in Queue!CallsOf /\ Fit(Queue!Call(k, r))
         /\ Queue!Call(k, r).kind = k /\ Queue!Call(k, r).id = r /\ Queue!Call(k, r).heard
         /\ Queue!Call(k, r).answer = None
         /\ Queue!Call(k, r).copy = None /\ Queue!Call(k, r).cta = Queue!NoButton
<1> DEFINE a == [Queue!NoCall EXCEPT !.kind = k]
           b == [a EXCEPT !.id = r]
<1>1. /\ Queue!NoCall \in Queue!CallsOf /\ Queue!NoCall.answer = None
      /\ Queue!NoCall.copy = None
      /\ Queue!NoCall.cta = Queue!NoButton
  BY NoCallFits DEF Queue!NoCall
<1>2. Queue!Call(k, r) = [b EXCEPT !.heard = TRUE]
  BY <1>1 DEF Queue!Call, Queue!CallsOf
<1>3. /\ a \in Queue!CallsOf /\ a.kind = k /\ a.answer = None /\ a.copy = None
      /\ a.cta = Queue!NoButton
  BY <1>1 DEF Queue!CallsOf
<1> HIDE DEF a
<1>4. /\ b \in Queue!CallsOf /\ b.kind = k /\ b.id = r /\ b.answer = None /\ b.copy = None
      /\ b.cta = Queue!NoButton
  BY <1>3 DEF Queue!CallsOf, Queue!Texts
<1> HIDE DEF b
<1>5. /\ Queue!Call(k, r) \in Queue!CallsOf /\ Queue!Call(k, r).kind = k
      /\ Queue!Call(k, r).id = r
      /\ Queue!Call(k, r).heard /\ Queue!Call(k, r).answer = None
      /\ Queue!Call(k, r).copy = None
      /\ Queue!Call(k, r).cta = Queue!NoButton
  BY <1>2, <1>4 DEF Queue!CallsOf
<1>6. Queue!NoButton.url = None /\ k # "none"
  BY DEF Queue!NoButton, Queue!Actions
<1> QED
  BY <1>5, <1>6 DEF Fit, OwnTexts

LEMMA LeftFits ==
  ASSUME NEW c \in Queue!CallsOf, Fit(c), NEW n \in 0 .. 2
  PROVE  /\ [c EXCEPT !.left = n] \in Queue!CallsOf /\ Fit([c EXCEPT !.left = n])
         /\ [c EXCEPT !.left = n].kind = c.kind /\ [c EXCEPT !.left = n].id = c.id
         /\ [c EXCEPT !.left = n].heard = c.heard
<1>1. [c EXCEPT !.left = n] \in Queue!CallsOf
  BY DEF Queue!CallsOf
<1>2. /\ [c EXCEPT !.left = n].kind = c.kind /\ [c EXCEPT !.left = n].id = c.id
      /\ [c EXCEPT !.left = n].heard = c.heard /\ [c EXCEPT !.left = n].copy = c.copy
      /\ [c EXCEPT !.left = n].cta = c.cta /\ [c EXCEPT !.left = n].answer = c.answer
  BY DEF Queue!CallsOf
<1> QED
  BY <1>1, <1>2 DEF Fit

Told(c, v) == [c EXCEPT !.stage = "answered", !.answer = v]
LEMMA ToldFits ==
  ASSUME NEW c \in Queue!CallsOf, Fit(c), NEW v \in Queue!Views \cup {None},
         v # None => v.id = c.id /\ OwnTexts(v.copy, v.cta, c.id)
  PROVE  /\ Told(c, v) \in Queue!CallsOf /\ Fit(Told(c, v))
         /\ Told(c, v).kind = c.kind /\ Told(c, v).id = c.id /\ Told(c, v).heard = c.heard
<1>1. [c EXCEPT !.stage = "answered"] \in Queue!CallsOf
  BY DEF Queue!CallsOf
<1>2. Told(c, v) = [[c EXCEPT !.stage = "answered"] EXCEPT !.answer = v]
  BY DEF Told, Queue!CallsOf
<1>3. Told(c, v) \in Queue!CallsOf
  BY <1>1, <1>2 DEF Queue!CallsOf
<1>4. /\ Told(c, v).kind = c.kind /\ Told(c, v).id = c.id /\ Told(c, v).heard = c.heard
      /\ Told(c, v).copy = c.copy /\ Told(c, v).cta = c.cta /\ Told(c, v).answer = v
  BY DEF Told, Queue!CallsOf
<1> QED
  BY <1>3, <1>4 DEF Fit

Unheard(c) == [c EXCEPT !.heard = FALSE]
LEMMA UnheardFits ==
  ASSUME NEW c \in Queue!CallsOf, Fit(c)
  PROVE  Unheard(c) \in Queue!CallsOf /\ Fit(Unheard(c)) /\ ~Unheard(c).heard
<1>1. Unheard(c) \in Queue!CallsOf
  BY DEF Queue!CallsOf, Unheard
<1>2. /\ Unheard(c).kind = c.kind /\ Unheard(c).id = c.id /\ Unheard(c).heard = FALSE
      /\ Unheard(c).copy = c.copy /\ Unheard(c).cta = c.cta
      /\ Unheard(c).answer = c.answer
  BY DEF Queue!CallsOf, Unheard
<1> QED
  BY <1>1, <1>2 DEF Fit

(* What an action sends is what was written for the request shown.          *)
LEMMA PayloadFits ==
  ASSUME QueueInv, detail # None, NEW k \in Queue!Actions
  PROVE  /\ Queue!Payload(k, Queue!Call(k, detail.id)) \in Queue!CallsOf
         /\ Fit(Queue!Payload(k, Queue!Call(k, detail.id)))
         /\ Queue!Payload(k, Queue!Call(k, detail.id)).kind = k
         /\ Queue!Payload(k, Queue!Call(k, detail.id)).heard
<1> DEFINE c == Queue!Call(k, detail.id)
           p == Queue!Payload(k, c)
<1>1. detail.id \in Requests
  BY QueueParts DEF Queue!Views
<1>2. /\ c \in Queue!CallsOf /\ Fit(c) /\ c.kind = k /\ c.id = detail.id /\ c.heard
      /\ c.answer = None /\ c.copy = None /\ c.cta = Queue!NoButton
  BY <1>1, CallFits
<1>3. /\ copyInput \in Queue!Texts /\ copyInput \in {detail.id, None}
      /\ ctaInput \in Queue!Buttons /\ ctaInput.url \in {detail.id, None}
      /\ publishChannels \in SUBSET Channels
  BY QueueParts DEF QueueInv, EditorsAreHome
<1> HIDE DEF c
<1>4. k # "none"
  BY DEF Queue!Actions
<1>5. CASE k = "copy"
  <2>1. p = [c EXCEPT !.copy = copyInput]
    BY <1>5 DEF Queue!Payload
  <2> HIDE DEF p
  <2>2. p \in Queue!CallsOf
    BY <1>2, <1>3, <2>1 DEF Queue!CallsOf
  <2>3. /\ p.kind = k /\ p.id = detail.id /\ p.heard /\ p.answer = None
        /\ p.copy = copyInput /\ p.cta = Queue!NoButton
    BY <1>2, <2>1 DEF Queue!CallsOf
  <2> QED
    BY <1>1, <1>3, <1>4, <2>2, <2>3 DEF Fit, OwnTexts, Queue!NoButton, p, c
<1>6. CASE k = "cta"
  <2> DEFINE url == IF ctaInput.kind = "link" THEN ctaInput.url ELSE None
             button == [Queue!NoButton EXCEPT !.kind = ctaInput.kind, !.url = url]
  <2>1. p = [c EXCEPT !.cta = button]
    <3>1. p = [c EXCEPT !.cta.kind = ctaInput.kind, !.cta.url = url]
      BY <1>6 DEF Queue!Payload
    <3> HIDE DEF url
    <3> QED
      BY <1>2, <3>1 DEF Queue!CallsOf
  <2> HIDE DEF p
  <2>2. Queue!NoButton \in Queue!Buttons
    BY DEF Queue!NoButton, Queue!Buttons, Queue!Texts
  <2>3. url \in Queue!Texts /\ url \in {detail.id, None} /\ ctaInput.kind \in {"none", "CALL", "link"}
    BY <1>3 DEF Queue!Buttons, Queue!Texts
  <2> HIDE DEF url
  <2>4. button \in Queue!Buttons /\ button.url \in {detail.id, None}
    <3> DEFINE kinded == [Queue!NoButton EXCEPT !.kind = ctaInput.kind]
    <3>1. kinded \in Queue!Buttons
      BY <2>2, <2>3 DEF Queue!Buttons
    <3>2. button = [kinded EXCEPT !.url = url]
      BY <2>2 DEF Queue!Buttons
    <3> HIDE DEF kinded, button
    <3> QED
      BY <2>3, <3>1, <3>2 DEF Queue!Buttons
  <2> HIDE DEF button
  <2>5. p \in Queue!CallsOf
    BY <1>2, <2>1, <2>4 DEF Queue!CallsOf
  <2>6. /\ p.kind = k /\ p.id = detail.id /\ p.heard /\ p.answer = None
        /\ p.copy = None /\ p.cta = button
    BY <1>2, <2>1 DEF Queue!CallsOf
  <2> QED
    BY <1>1, <1>4, <2>4, <2>5, <2>6 DEF Fit, OwnTexts, p, c
<1>7. CASE k = "publish"
  <2>1. p = [c EXCEPT !.channels = publishChannels]
    BY <1>7 DEF Queue!Payload
  <2> HIDE DEF p
  <2>2. p \in Queue!CallsOf
    BY <1>2, <1>3, <2>1 DEF Queue!CallsOf
  <2>3. /\ p.kind = k /\ p.id = detail.id /\ p.heard /\ p.answer = None
        /\ p.copy = None /\ p.cta = Queue!NoButton
    BY <1>2, <2>1 DEF Queue!CallsOf
  <2> QED
    BY <1>1, <1>4, <2>2, <2>3 DEF Fit, OwnTexts, Queue!NoButton, p, c
<1>8. CASE k \notin {"copy", "cta", "publish"}
  <2>1. p = c
    BY <1>8 DEF Queue!Payload
  <2> QED
    BY <1>2, <2>1 DEF c
<1> QED
  BY <1>5, <1>6, <1>7, <1>8

-----------------------------------------------------------------------------
(* Steps at which nobody starts waiting or stops.                           *)
Alike(s) ==
  /\ calls'[s].heard = calls[s].heard
  /\ calls[s].heard => calls'[s].kind = calls[s].kind /\ calls'[s].id = calls[s].id

LEMMA AlikeKeeps ==
  ASSUME QueueInv, \A s \in Flights : Alike(s),
         UNCHANGED <<detail, selectedId, busy, wanted, disturbed, jumped>>
  PROVE  Queue!BusyEnds' /\ LastIsComing' /\ ActionIsAlone'
<1>1. \A s \in Flights : (Queue!Opening(s) => Queue!Opening(s)') /\ (Queue!Acting(s)' => Queue!Acting(s))
  BY DEF Alike, Queue!Opening, Queue!Acting
<1>2. Queue!BusyEnds'
  BY DEF Alike, QueueInv, Queue!BusyEnds
<1>3. LastIsComing'
  BY <1>1 DEF Alike, QueueInv, LastIsComing, Queue!Opening
<1>4. ActionIsAlone'
  BY <1>1 DEF Alike, QueueInv, ActionIsAlone
<1> QED
  BY <1>2, <1>3, <1>4

LEMMA EditingKeeps ==
  ASSUME QueueInv, Queue!QueueAssumption, Queue!Editing, copyInput' \in Queue!Texts,
         ctaInput' \in Queue!Buttons,
         publishChannels' \subseteq Channels, publishChannels' \subseteq detail.ready,
         copyInput' \in {detail.id, None}, ctaInput'.url \in {detail.id, None}
  PROVE  QueueInv'
<1>1. /\ detail # None /\ typed < MaxEdits /\ typed' = typed + 1
      /\ UNCHANGED <<row, detail, selectedId, busy, calls, wanted, disturbed, jumped, clicks>>
  BY DEF Queue!Editing, Queue!history
<1>2. Queue!TypeOK'
  BY <1>1 DEF QueueInv, Queue!TypeOK, Queue!QueueAssumption
<1>3. Queue!TextsStayHome' /\ Queue!ChannelsWereOffered' /\ EditorsAreHome' /\ Calls'
  BY <1>1
  DEF QueueInv, Queue!TextsStayHome, Queue!ChannelsWereOffered, EditorsAreHome, Calls
<1>4. Queue!BusyEnds' /\ LastIsComing' /\ ActionIsAlone'
  BY <1>1, AlikeKeeps DEF Alike
<1> QED
  BY <1>2, <1>3, <1>4 DEF QueueInv

LEMMA EditsKeep ==
  ASSUME QueueInv, Queue!QueueAssumption,
         Queue!EditCopy \/ Queue!EditButton \/ Queue!ToggleChannel
  PROVE  QueueInv'
<1> USE QueueParts
<1>1. Queue!Editing /\ detail # None
  BY DEF Queue!EditCopy, Queue!EditButton, Queue!ToggleChannel, Queue!Editing
<1>2. /\ detail.id \in Requests /\ detail.ready \subseteq Channels
      /\ copyInput \in {detail.id, None} /\ ctaInput.url \in {detail.id, None}
      /\ publishChannels \subseteq detail.ready
  BY <1>1 DEF Queue!Views, QueueInv, EditorsAreHome, Queue!ChannelsWereOffered
<1>3. CASE Queue!EditCopy
  <2>1. copyInput' \in {detail.id, None} /\ UNCHANGED <<ctaInput, publishChannels>>
    BY <1>2, <1>3 DEF Queue!EditCopy, Queue!Typed
  <2> QED
    BY <1>1, <1>2, <2>1, EditingKeeps DEF Queue!Texts
<1>4. CASE Queue!EditButton
  <2>1. UNCHANGED <<copyInput, publishChannels>>
    BY <1>4 DEF Queue!EditButton
  <2>2. \/ \E k \in {"none", "CALL", "link"} : ctaInput' = [ctaInput EXCEPT !.kind = k]
        \/ ctaInput' = [ctaInput EXCEPT !.url = Queue!Typed(ctaInput.url)]
    BY <1>4 DEF Queue!EditButton
  <2>3. Queue!Typed(ctaInput.url) \in {detail.id, None} /\ Queue!Typed(ctaInput.url) \in Queue!Texts
    BY <1>2 DEF Queue!Typed, Queue!Texts
  <2>4. ctaInput' \in Queue!Buttons /\ ctaInput'.url \in {detail.id, None}
    BY <1>2, <2>2, <2>3 DEF Queue!Buttons
  <2> QED
    BY <1>1, <1>2, <2>1, <2>4, EditingKeeps
<1>5. CASE Queue!ToggleChannel
  <2>1. /\ UNCHANGED <<copyInput, ctaInput>>
        /\ \E c \in detail.ready :
             publishChannels' = IF c \in publishChannels THEN publishChannels \ {c}
                                ELSE publishChannels \cup {c}
    BY <1>5 DEF Queue!ToggleChannel
  <2> QED
    BY <1>1, <1>2, <2>1, EditingKeeps
<1> QED
  BY <1>3, <1>4, <1>5

LEMMA DecideKeeps ==
  ASSUME QueueInv, NEW r \in Requests, Queue!Decide(r)
  PROVE  QueueInv'
<1> USE QueueParts
<1>1. UNCHANGED <<detail, selectedId, copyInput, ctaInput, publishChannels, busy, calls,
                  wanted, disturbed, jumped, clicks, typed>>
  BY DEF Queue!Decide, Queue!editor, Queue!history
<1>2. PICK p \in {"claimable", "publishable", "settled"} :
        row' = [row EXCEPT ![r].phase = p,
                           ![r].ready = IF p = "publishable" THEN Channels ELSE {}]
  BY DEF Queue!Decide
<1> DEFINE moved == [row[r] EXCEPT !.phase = p]
           n == [moved EXCEPT !.ready = IF p = "publishable" THEN Channels ELSE {}]
<1>3. moved \in Queue!Rows /\ moved.copy = row[r].copy /\ moved.cta = row[r].cta
  BY DEF Queue!Rows, Queue!Phases
<1>4. row' = [row EXCEPT ![r] = n]
  BY <1>2
<1> HIDE DEF moved
<1>5. n \in Queue!Rows /\ n.copy = row[r].copy /\ n.cta = row[r].cta
  BY <1>3 DEF Queue!Rows
<1> HIDE DEF n
<1>6. Queue!TypeOK'
  BY <1>1, <1>4, <1>5 DEF QueueInv, Queue!TypeOK
<1>7. Queue!TextsStayHome'
  BY <1>4, <1>5 DEF QueueInv, Queue!TextsStayHome
<1>8. Queue!ChannelsWereOffered' /\ EditorsAreHome' /\ Calls'
  BY <1>1 DEF QueueInv, Queue!ChannelsWereOffered, EditorsAreHome, Calls
<1>9. Queue!BusyEnds' /\ LastIsComing' /\ ActionIsAlone'
  BY <1>1, AlikeKeeps DEF Alike
<1> QED
  BY <1>6, <1>7, <1>8, <1>9 DEF QueueInv
(* The routes: what they write for a request was written for it.            *)
LEMMA ReplyFits ==
  ASSUME QueueInv, NEW s \in Flights, NEW v \in Queue!Views \cup {None}, Queue!Reply(s, v),
         v # None => v.id = calls[s].id /\ OwnTexts(v.copy, v.cta, calls[s].id)
  PROVE  calls' \in [Flights -> Queue!CallsOf] /\ Calls' /\ \A t \in Flights : Alike(t)
<1> USE QueueParts
<1>1. calls[s] \in Queue!CallsOf /\ Fit(calls[s])
  BY DEF QueueInv, Calls
<1>2. calls' = [calls EXCEPT ![s] = IF calls[s].heard THEN Told(calls[s], v) ELSE Queue!NoCall]
  BY DEF Queue!Reply, Told
<1>3. calls[s].heard => Told(calls[s], v) \in Queue!CallsOf /\ Fit(Told(calls[s], v))
  BY <1>1, ToldFits
<1>4. calls' \in [Flights -> Queue!CallsOf]
  BY <1>2, <1>3, NoCallFits
<1>5. Calls'
  BY <1>2, <1>3, NoCallFits DEF QueueInv, Calls
<1>6. \A t \in Flights : Alike(t)
  <2>1. calls[s].heard \in BOOLEAN /\ Queue!NoCall.heard = FALSE
    BY <1>1 DEF Queue!CallsOf, Queue!NoCall
  <2>2. Alike(s)
    BY <1>1, <1>2, <2>1, ToldFits DEF Alike
  <2>3. \A t \in Flights \ {s} : Alike(t)
    BY <1>2 DEF Alike
  <2> QED
    BY <2>2, <2>3
<1> QED
  BY <1>4, <1>5, <1>6

LEMMA OutcomeFits ==
  ASSUME QueueInv, NEW s \in Flights, calls[s].kind # "none",
         NEW n \in Queue!Outcomes(calls[s])
  PROVE  n \in Queue!Rows /\ OwnTexts(n.copy, n.cta, calls[s].id) /\ calls[s].id \in Requests
<1> USE QueueParts
<1> DEFINE c == calls[s]
           r == row[c.id]
<1>1. /\ c \in Queue!CallsOf /\ c.id \in Requests /\ OwnTexts(c.copy, c.cta, c.id)
  BY DEF QueueInv, Calls, Fit
<1>2. r \in Queue!Rows /\ OwnTexts(r.copy, r.cta, c.id)
  BY <1>1 DEF QueueInv, Queue!TextsStayHome, OwnTexts
<1>3. c.copy \in Queue!Texts /\ c.cta \in Queue!Buttons /\ c.channels \subseteq Channels
  BY <1>1 DEF Queue!CallsOf
<1> HIDE DEF c, r
<1>4. \/ n = r \/ n = [r EXCEPT !.phase = "production"] \/ n = [r EXCEPT !.phase = "review"]
      \/ n = [r EXCEPT !.copy = c.copy] \/ n = [r EXCEPT !.cta = c.cta]
      \/ \E f \in SUBSET c.channels : n = [r EXCEPT !.ready = (r.ready \ c.channels) \cup f]
  BY DEF Queue!Outcomes, c, r
<1>5. n \in Queue!Rows /\ OwnTexts(n.copy, n.cta, c.id)
  <2>1. CASE n = r
    BY <1>2, <2>1
  <2>2. CASE n = [r EXCEPT !.phase = "production"] \/ n = [r EXCEPT !.phase = "review"]
    BY <1>2, <2>2 DEF Queue!Rows, Queue!Phases, OwnTexts
  <2>3. CASE n = [r EXCEPT !.copy = c.copy]
    BY <1>1, <1>2, <1>3, <2>3 DEF Queue!Rows, OwnTexts
  <2>4. CASE n = [r EXCEPT !.cta = c.cta]
    BY <1>1, <1>2, <1>3, <2>4 DEF Queue!Rows, OwnTexts
  <2>5. ASSUME NEW f \in SUBSET c.channels,
               n = [r EXCEPT !.ready = (r.ready \ c.channels) \cup f]
        PROVE  n \in Queue!Rows /\ OwnTexts(n.copy, n.cta, c.id)
    <3>1. (r.ready \ c.channels) \cup f \subseteq Channels
      BY <1>2, <1>3 DEF Queue!Rows
    <3> QED
      BY <1>2, <2>5, <3>1 DEF Queue!Rows, OwnTexts
  <2> QED
    BY <1>4, <2>1, <2>2, <2>3, <2>4, <2>5
<1> QED
  BY <1>1, <1>5 DEF c

LEMMA QueueServeKeeps ==
  ASSUME QueueInv, NEW s \in Flights, Queue!Serve(s)
  PROVE  QueueInv'
<1> USE QueueParts
<1>1. /\ calls[s].kind # "none"
      /\ UNCHANGED <<detail, selectedId, copyInput, ctaInput, publishChannels, busy,
                     wanted, disturbed, jumped, clicks, typed>>
  BY DEF Queue!Serve, Queue!editor, Queue!history
<1>2. PICK n \in Queue!Outcomes(calls[s]) :
        /\ row' = [row EXCEPT ![calls[s].id] = n]
        /\ Queue!Reply(s, [id |-> calls[s].id, phase |-> n.phase, copy |-> n.copy,
                     cta |-> n.cta, ready |-> n.ready])
  BY DEF Queue!Serve
<1>3. n \in Queue!Rows /\ OwnTexts(n.copy, n.cta, calls[s].id) /\ calls[s].id \in Requests
  BY <1>1, OutcomeFits
<1> DEFINE v == [id |-> calls[s].id, phase |-> n.phase, copy |-> n.copy,
                 cta |-> n.cta, ready |-> n.ready]
<1>4. v \in Queue!Views /\ v.id = calls[s].id /\ OwnTexts(v.copy, v.cta, calls[s].id)
  BY <1>3 DEF Queue!Rows, Queue!Views
<1> HIDE DEF v
<1>5. calls' \in [Flights -> Queue!CallsOf] /\ Calls' /\ \A t \in Flights : Alike(t)
  BY <1>2, <1>4, ReplyFits DEF v
<1>6. Queue!TypeOK'
  BY <1>1, <1>2, <1>3, <1>5 DEF QueueInv, Queue!TypeOK
<1>7. Queue!TextsStayHome'
  BY <1>2, <1>3 DEF QueueInv, Queue!TextsStayHome, OwnTexts
<1>8. Queue!ChannelsWereOffered' /\ EditorsAreHome'
  BY <1>1 DEF QueueInv, Queue!ChannelsWereOffered, EditorsAreHome
<1>9. Queue!BusyEnds' /\ LastIsComing' /\ ActionIsAlone'
  BY <1>1, <1>5, AlikeKeeps
<1> QED
  BY <1>5, <1>6, <1>7, <1>8, <1>9 DEF QueueInv

LEMMA RefuseKeeps ==
  ASSUME QueueInv, NEW s \in Flights, Queue!Refuse(s)
  PROVE  QueueInv'
<1> USE QueueParts
<1>1. /\ Queue!Reply(s, None)
      /\ UNCHANGED <<row, detail, selectedId, copyInput, ctaInput, publishChannels, busy,
                     wanted, disturbed, jumped, clicks, typed>>
  BY DEF Queue!Refuse, Queue!editor, Queue!history
<1>2. calls' \in [Flights -> Queue!CallsOf] /\ Calls' /\ \A t \in Flights : Alike(t)
  BY <1>1, ReplyFits
<1>3. Queue!TypeOK'
  BY <1>1, <1>2 DEF QueueInv, Queue!TypeOK
<1>4. Queue!TextsStayHome' /\ Queue!ChannelsWereOffered' /\ EditorsAreHome'
  BY <1>1 DEF QueueInv, Queue!TextsStayHome, Queue!ChannelsWereOffered, EditorsAreHome
<1>5. Queue!BusyEnds' /\ LastIsComing' /\ ActionIsAlone'
  BY <1>1, <1>2, AlikeKeeps
<1> QED
  BY <1>2, <1>3, <1>4, <1>5 DEF QueueInv

-----------------------------------------------------------------------------
(* A new call: a card is opened, or an action or an upload starts.           *)
LEMMA SendFits ==
  ASSUME QueueInv, Queue!QueueAssumption, NEW s \in Flights, NEW c \in Queue!CallsOf, Fit(c),
         c.heard, Queue!Send(s, c),
         UNCHANGED <<row, detail, copyInput, ctaInput, publishChannels, typed>>
  PROVE  /\ calls' \in [Flights -> Queue!CallsOf] /\ Calls' /\ clicks' \in 0 .. MaxClicks
         /\ calls'[s] = c /\ ~calls[s].heard
         /\ \A t \in Flights \ {s} : calls'[t] = calls[t]
         /\ Queue!BusyEnds'
         /\ Queue!TextsStayHome' /\ Queue!ChannelsWereOffered' /\ EditorsAreHome'
<1> USE QueueParts
<1>1. /\ calls[s] = Queue!NoCall /\ calls' = [calls EXCEPT ![s] = c]
      /\ clicks + typed < MaxClicks /\ clicks' = clicks + 1
  BY DEF Queue!Send, Queue!Free
<1>2. clicks' \in 0 .. MaxClicks
  BY <1>1 DEF Queue!QueueAssumption
<1>3. Queue!TextsStayHome' /\ Queue!ChannelsWereOffered' /\ EditorsAreHome'
  BY DEF QueueInv, Queue!TextsStayHome, Queue!ChannelsWereOffered, EditorsAreHome
<1>4. calls' \in [Flights -> Queue!CallsOf] /\ calls'[s] = c /\ \A t \in Flights \ {s} : calls'[t] = calls[t]
  BY <1>1
<1>5. Calls' /\ Queue!BusyEnds'
  BY <1>4 DEF QueueInv, Calls, Queue!BusyEnds
<1> QED
  BY <1>1, <1>2, <1>3, <1>4, <1>5, NoCallFits

LEMMA OpenKeeps ==
  ASSUME QueueInv, Queue!QueueAssumption, NEW s \in Flights, NEW r \in Requests,
         Queue!OpenRequest(s, r)
  PROVE  QueueInv'
<1> USE QueueParts
<1> DEFINE c == Queue!Call("open", r)
<1>1. /\ Queue!Send(s, c) /\ selectedId' = r /\ busy' = TRUE /\ wanted' = r
      /\ disturbed' = FALSE
      /\ jumped' = (jumped \/ \E t \in Flights : Queue!Acting(t))
      /\ UNCHANGED <<row, detail, copyInput, ctaInput, publishChannels, typed>>
  BY DEF Queue!OpenRequest, Queue!editor
<1>2. c \in Queue!CallsOf /\ Fit(c) /\ c.heard /\ c.kind = "open" /\ c.id = r
  BY CallFits
<1> HIDE DEF c
<1>3. /\ calls' \in [Flights -> Queue!CallsOf] /\ Calls' /\ clicks' \in 0 .. MaxClicks
      /\ calls'[s] = c /\ ~calls[s].heard
      /\ \A t \in Flights \ {s} : calls'[t] = calls[t]
      /\ Queue!BusyEnds'
      /\ Queue!TextsStayHome' /\ Queue!ChannelsWereOffered' /\ EditorsAreHome'
  BY <1>1, <1>2, SendFits
<1>4. Queue!TypeOK'
  BY <1>1, <1>3 DEF QueueInv, Queue!TypeOK, Queue!Texts
<1>5. LastIsComing'
  BY <1>1, <1>2, <1>3 DEF LastIsComing, Queue!Opening
<1>6. ActionIsAlone'
  BY <1>1, <1>2, <1>3 DEF ActionIsAlone, Queue!Acting, Queue!Actions
<1> QED
  BY <1>3, <1>4, <1>5, <1>6 DEF QueueInv

LEMMA StartKeeps ==
  ASSUME QueueInv, Queue!QueueAssumption, NEW s \in Flights, NEW c \in Queue!CallsOf, Fit(c),
         c.heard,
         ~busy, Queue!Start(s, c)
  PROVE  QueueInv'
<1> USE QueueParts
<1>1. /\ Queue!Send(s, c) /\ busy' = TRUE
      /\ jumped' = (jumped \/ \E t \in Flights : Queue!Opening(t))
      /\ UNCHANGED <<row, detail, selectedId, copyInput, ctaInput, publishChannels,
                     wanted, disturbed, typed>>
  BY DEF Queue!Start, Queue!editor
<1>2. /\ calls' \in [Flights -> Queue!CallsOf] /\ Calls' /\ clicks' \in 0 .. MaxClicks
      /\ calls'[s] = c /\ ~calls[s].heard
      /\ \A t \in Flights \ {s} : calls'[t] = calls[t]
      /\ Queue!BusyEnds'
      /\ Queue!TextsStayHome' /\ Queue!ChannelsWereOffered' /\ EditorsAreHome'
  BY <1>1, SendFits
<1>3. Queue!TypeOK'
  BY <1>1, <1>2 DEF QueueInv, Queue!TypeOK
<1>4. LastIsComing'
  BY <1>1, <1>2 DEF QueueInv, LastIsComing, Queue!Opening
<1>5. ActionIsAlone'
  <2>1. \A t \in Flights : calls[t].heard => Queue!Acting(t) \/ Queue!Opening(t)
    BY DEF QueueInv, Calls, Fit, Queue!Acting, Queue!Opening, Queue!CallsOf
  <2>2. ~jumped' => \A t \in Flights : ~calls[t].heard
    BY <1>1, <2>1 DEF QueueInv, ActionIsAlone
  <2> QED
    BY <1>1, <1>2, <2>2 DEF ActionIsAlone, Queue!Acting
<1> QED
  BY <1>2, <1>3, <1>4, <1>5 DEF QueueInv

LEMMA StartsKeep ==
  ASSUME QueueInv, Queue!QueueAssumption, NEW s \in Flights,
         Queue!HandleFiles(s) \/ \E k \in Queue!Actions : Queue!RunAction(s, k)
  PROVE  QueueInv'
<1>1. detail # None /\ ~busy /\ detail.id \in Requests
  BY QueueParts DEF Queue!HandleFiles, Queue!RunAction, Queue!Idle, Queue!Views
<1>2. ASSUME NEW k \in Queue!Actions, Queue!RunAction(s, k) PROVE QueueInv'
  BY <1>1, <1>2, PayloadFits, StartKeeps DEF Queue!RunAction
<1>3. CASE Queue!HandleFiles(s)
  <2>1. PICK n \in 1 .. 2 : Queue!Start(s, [Queue!Call("upload", detail.id) EXCEPT !.left = n])
    BY <1>3 DEF Queue!HandleFiles
  <2>2. n \in 0 .. 2
    OBVIOUS
  <2>3. Queue!Call("upload", detail.id) \in Queue!CallsOf /\ Fit(Queue!Call("upload", detail.id))
        /\ Queue!Call("upload", detail.id).heard
    BY <1>1, CallFits
  <2> QED
    BY <1>1, <2>1, <2>2, <2>3, LeftFits, StartKeeps
<1> QED
  BY <1>2, <1>3
-----------------------------------------------------------------------------
(* The answers on the page.                                                *)
LEMMA ApplyFits ==
  ASSUME QueueInv, NEW v \in Queue!Views \cup {None},
         v # None => OwnTexts(v.copy, v.cta, v.id),
         Queue!ApplyResult(v)
  PROVE  /\ detail' \in Queue!Views \cup {None} /\ selectedId' \in Queue!Texts
         /\ copyInput' \in Queue!Texts
         /\ ctaInput' \in Queue!Buttons /\ publishChannels' \subseteq Channels
         /\ EditorsAreHome' /\ Queue!ChannelsWereOffered'
<1> USE QueueParts
<1>1. CASE v = None
  BY <1>1 DEF Queue!ApplyResult, Queue!editor, QueueInv, EditorsAreHome,
              Queue!ChannelsWereOffered
<1>2. CASE v # None
  <2>1. /\ detail' = v /\ selectedId' = v.id /\ copyInput' = v.copy /\ ctaInput' = v.cta
        /\ publishChannels' = v.ready
    BY <1>2 DEF Queue!ApplyResult, Queue!SeedCopy, Queue!SeedButton,
                Queue!DefaultPublishChannels
  <2>2. /\ v.id \in Queue!Texts /\ v.copy \in Queue!Texts /\ v.cta \in Queue!Buttons
        /\ v.ready \subseteq Channels
    BY <1>2 DEF Queue!Views, Queue!Texts
  <2> QED
    BY <1>2, <2>1, <2>2 DEF EditorsAreHome, Queue!ChannelsWereOffered, OwnTexts
<1> QED
  BY <1>1, <1>2

(* A call that is over, or that nobody hears of any more.                   *)
LEMMA OverFits ==
  ASSUME QueueInv, NEW s \in Flights, calls[s].heard, UNCHANGED jumped,
         \/ Queue!Forget(s) \/ calls' = [calls EXCEPT ![s].heard = FALSE]
  PROVE  /\ calls' \in [Flights -> Queue!CallsOf] /\ Calls' /\ ~calls'[s].heard
         /\ \A t \in Flights \ {s} : calls'[t] = calls[t]
         /\ ActionIsAlone'
<1> USE QueueParts
<1>1. calls[s] \in Queue!CallsOf /\ Fit(calls[s])
  BY DEF QueueInv, Calls
<1>2. calls' = [calls EXCEPT ![s] = Queue!NoCall] \/ calls' = [calls EXCEPT ![s] = Unheard(calls[s])]
  BY DEF Queue!Forget, Unheard
<1>3. /\ calls' \in [Flights -> Queue!CallsOf] /\ ~calls'[s].heard
      /\ \A t \in Flights \ {s} : calls'[t] = calls[t]
      /\ Fit(calls'[s])
  BY <1>1, <1>2, UnheardFits, NoCallFits
<1>4. Calls'
  BY <1>3 DEF QueueInv, Calls
<1>5. ActionIsAlone'
  BY <1>3 DEF QueueInv, ActionIsAlone, Queue!Acting
<1> QED
  BY <1>3, <1>4, <1>5

LEMMA AnswerFits ==
  ASSUME QueueInv, NEW s \in Flights, calls[s].heard
  PROVE  LET v == calls[s].answer IN
         /\ v \in Queue!Views \cup {None}
         /\ v # None => v.id = calls[s].id /\ OwnTexts(v.copy, v.cta, v.id)
  BY QueueParts DEF QueueInv, Calls, Fit, Queue!CallsOf

LEMMA ShowRequestKeeps ==
  ASSUME QueueInv, NEW s \in Flights, Queue!ShowRequest(s)
  PROVE  QueueInv'
<1> USE QueueParts
<1>1. /\ calls[s].heard /\ calls[s].kind = "open" /\ Queue!Forget(s) /\ busy' = FALSE
      /\ IF selectedId = calls[s].id THEN Queue!ApplyResult(calls[s].answer)
         ELSE UNCHANGED <<detail, selectedId, copyInput, ctaInput, publishChannels>>
      /\ wanted' = IF calls[s].answer = None /\ wanted = calls[s].id THEN None ELSE wanted
      /\ UNCHANGED <<row, disturbed, jumped, clicks, typed>>
  BY DEF Queue!ShowRequest, Queue!Answered, Queue!StillSelected, Queue!editor
<1>2. /\ calls[s].answer \in Queue!Views \cup {None}
      /\ calls[s].answer # None => /\ calls[s].answer.id = calls[s].id
                                   /\ OwnTexts(calls[s].answer.copy, calls[s].answer.cta,
                                               calls[s].answer.id)
  BY <1>1, AnswerFits
<1>3. /\ calls' \in [Flights -> Queue!CallsOf] /\ Calls' /\ ActionIsAlone'
      /\ \A t \in Flights \ {s} : calls'[t] = calls[t]
  BY <1>1, OverFits
<1>4. /\ detail' \in Queue!Views \cup {None} /\ selectedId' \in Queue!Texts
      /\ copyInput' \in Queue!Texts
      /\ ctaInput' \in Queue!Buttons /\ publishChannels' \subseteq Channels
      /\ EditorsAreHome' /\ Queue!ChannelsWereOffered'
  <2>1. CASE selectedId = calls[s].id
    BY <1>1, <1>2, <2>1, ApplyFits
  <2>2. CASE selectedId # calls[s].id
    BY <1>1, <2>2 DEF QueueInv, EditorsAreHome, Queue!ChannelsWereOffered
  <2> QED
    BY <2>1, <2>2
<1>5. Queue!TypeOK'
  <2>1. wanted' \in Queue!Texts
    BY <1>1 DEF Queue!Texts
  <2> QED
    BY <1>1, <1>3, <1>4, <2>1 DEF QueueInv, Queue!TypeOK
<1>6. Queue!TextsStayHome' /\ Queue!BusyEnds'
  BY <1>1 DEF QueueInv, Queue!TextsStayHome, Queue!BusyEnds
<1>7. LastIsComing'
  <2> SUFFICES ASSUME wanted' # None, ~disturbed'
               PROVE  /\ selectedId' = wanted'
                      /\ \/ detail' # None /\ detail'.id = wanted'
                         \/ \E t \in Flights : Queue!Opening(t)' /\ calls'[t].id = wanted'
    BY DEF LastIsComing
  <2>1. wanted' = wanted /\ wanted # None /\ ~disturbed
    BY <1>1
  <2>2. /\ selectedId = wanted
        /\ \/ detail # None /\ detail.id = wanted
           \/ \E t \in Flights : Queue!Opening(t) /\ calls[t].id = wanted
    BY <2>1 DEF QueueInv, LastIsComing
  <2>3. CASE calls[s].id = wanted
    <3>1. calls[s].answer # None
      BY <1>1, <2>1, <2>3
    <3>2. detail' = calls[s].answer /\ selectedId' = calls[s].answer.id
      BY <1>1, <2>2, <2>3, <3>1 DEF Queue!ApplyResult
    <3> QED
      BY <1>2, <2>1, <2>3, <3>1, <3>2
  <2>4. CASE calls[s].id # wanted
    <3>1. UNCHANGED <<detail, selectedId>>
      BY <1>1, <2>2, <2>4
    <3> QED
      BY <1>3, <2>1, <2>2, <2>4, <3>1 DEF Queue!Opening
  <2> QED
    BY <2>3, <2>4
<1> QED
  BY <1>3, <1>4, <1>5, <1>6, <1>7 DEF QueueInv

LEMMA ShowResultKeeps ==
  ASSUME QueueInv, NEW s \in Flights, Queue!ShowResult(s)
  PROVE  QueueInv'
<1> USE QueueParts
<1>1. /\ calls[s].heard /\ calls[s].kind \in Queue!Actions \cup {"upload"}
      /\ Queue!ApplyResult(calls[s].answer) /\ disturbed' = TRUE
      /\ UNCHANGED <<row, wanted, jumped, clicks, typed>>
  BY DEF Queue!ShowResult, Queue!Answered
<1>2. /\ calls[s].answer \in Queue!Views \cup {None}
      /\ calls[s].answer # None => OwnTexts(calls[s].answer.copy, calls[s].answer.cta,
                                            calls[s].answer.id)
  BY <1>1, AnswerFits
<1>3. /\ detail' \in Queue!Views \cup {None} /\ selectedId' \in Queue!Texts
      /\ copyInput' \in Queue!Texts
      /\ ctaInput' \in Queue!Buttons /\ publishChannels' \subseteq Channels
      /\ EditorsAreHome' /\ Queue!ChannelsWereOffered'
  BY <1>1, <1>2, ApplyFits
<1>4. Queue!TextsStayHome' /\ LastIsComing'
  BY <1>1 DEF QueueInv, Queue!TextsStayHome, LastIsComing
<1>5. CASE Queue!Forget(s) /\ busy' = FALSE
  <2>1. calls' \in [Flights -> Queue!CallsOf] /\ Calls' /\ ActionIsAlone'
    BY <1>1, <1>5, OverFits
  <2>2. Queue!TypeOK' /\ Queue!BusyEnds'
    BY <1>1, <1>3, <1>5, <2>1 DEF QueueInv, Queue!TypeOK, Queue!BusyEnds
  <2> QED
    BY <1>3, <1>4, <2>1, <2>2 DEF QueueInv
<1>6. CASE ~(Queue!Forget(s) /\ busy' = FALSE)
  <2> DEFINE c == [Queue!Call("upload", calls[s].id) EXCEPT !.left = 1]
  <2>1. calls' = [calls EXCEPT ![s] = c] /\ busy' = busy
    BY <1>6 DEF Queue!ShowResult
  <2>2. calls[s].id \in Requests
    BY <1>1 DEF QueueInv, Calls, Fit
  <2>3. c \in Queue!CallsOf /\ Fit(c) /\ c.kind = "upload" /\ c.heard
    <3>1. Queue!Call("upload", calls[s].id) \in Queue!CallsOf /\ Fit(Queue!Call("upload", calls[s].id))
          /\ Queue!Call("upload", calls[s].id).kind = "upload"
          /\ Queue!Call("upload", calls[s].id).heard
      BY <2>2, CallFits
    <3>2. 1 \in 0 .. 2
      OBVIOUS
    <3> QED
      BY <3>1, <3>2, LeftFits
  <2> HIDE DEF c
  <2>4. /\ calls' \in [Flights -> Queue!CallsOf] /\ calls'[s] = c
        /\ \A t \in Flights \ {s} : calls'[t] = calls[t]
    BY <2>1, <2>3
  <2>5. Calls'
    BY <2>3, <2>4 DEF QueueInv, Calls
  <2>6. Queue!TypeOK' /\ Queue!BusyEnds'
    BY <1>1, <1>3, <2>1, <2>3, <2>4 DEF QueueInv, Queue!TypeOK, Queue!BusyEnds
  <2>7. ActionIsAlone'
    BY <1>1, <2>1, <2>4 DEF QueueInv, ActionIsAlone, Queue!Acting
  <2> QED
    BY <1>3, <1>4, <2>5, <2>6, <2>7 DEF QueueInv
<1> QED
  BY <1>5, <1>6

LEMMA ThrowKeeps ==
  ASSUME QueueInv, NEW s \in Flights, Queue!Throw(s)
  PROVE  QueueInv'
<1> USE QueueParts
<1>1. /\ calls[s].heard /\ busy' = FALSE
      /\ Queue!Forget(s) \/ calls' = [calls EXCEPT ![s].heard = FALSE]
      /\ wanted' = IF calls[s].kind = "open" /\ wanted = calls[s].id THEN None ELSE wanted
      /\ UNCHANGED <<row, detail, selectedId, copyInput, ctaInput, publishChannels,
                     disturbed, jumped, clicks, typed>>
  BY DEF Queue!Throw, Queue!Ready, Queue!editor
<1>2. /\ calls' \in [Flights -> Queue!CallsOf] /\ Calls' /\ ActionIsAlone'
      /\ \A t \in Flights \ {s} : calls'[t] = calls[t]
  BY <1>1, OverFits
<1>3. Queue!TypeOK'
  BY <1>1, <1>2 DEF QueueInv, Queue!TypeOK, Queue!Texts
<1>4. Queue!TextsStayHome' /\ Queue!ChannelsWereOffered' /\ EditorsAreHome' /\ Queue!BusyEnds'
  BY <1>1 DEF QueueInv, Queue!TextsStayHome, Queue!ChannelsWereOffered, EditorsAreHome,
              Queue!BusyEnds
<1>5. LastIsComing'
  BY <1>1, <1>2 DEF QueueInv, LastIsComing, Queue!Opening
<1> QED
  BY <1>2, <1>3, <1>4, <1>5 DEF QueueInv

-----------------------------------------------------------------------------
LEMMA QueueInit ==
  ASSUME Queue!QueueAssumption, Queue!Init
  PROVE  QueueInv
<1>1. /\ row \in [Requests -> Queue!Rows] /\ detail = None /\ selectedId = None
      /\ copyInput = None /\ ctaInput = Queue!NoButton /\ publishChannels = {}
      /\ busy = FALSE /\ calls = [s \in Flights |-> Queue!NoCall]
      /\ wanted = None /\ disturbed = FALSE /\ jumped = FALSE
      /\ clicks = 0 /\ typed = 0
  BY DEF Queue!Init
<1>2. Queue!NoButton \in Queue!Buttons /\ Queue!NoButton.url = None
  BY DEF Queue!NoButton, Queue!Buttons, Queue!Texts
<1>3. Queue!TypeOK
  <2>1. calls \in [Flights -> Queue!CallsOf]
    BY <1>1, NoCallFits
  <2>2. clicks \in 0 .. MaxClicks /\ typed \in 0 .. MaxEdits
    BY <1>1 DEF Queue!QueueAssumption
  <2> QED
    BY <1>1, <1>2, <2>1, <2>2 DEF Queue!TypeOK, Queue!Texts
<1>4. Queue!TextsStayHome
  <2>1. \A r \in Requests :
          /\ row[r].copy \in {r, None}
          /\ row[r].cta = Queue!NoButton \/ row[r].cta = [kind |-> "link", url |-> r]
             \/ row[r].cta = [kind |-> "CALL", url |-> None]
    BY DEF Queue!Init, Queue!Fresh, Queue!Worked, Queue!Approved
  <2>2. ASSUME NEW r \in Requests PROVE row[r].cta.url \in {r, None}
    <3>1. CASE row[r].cta = Queue!NoButton
      BY <1>2, <3>1
    <3>2. CASE row[r].cta = [kind |-> "link", url |-> r]
      BY <3>2
    <3>3. CASE row[r].cta = [kind |-> "CALL", url |-> None]
      BY <3>3
    <3> QED
      BY <2>1, <3>1, <3>2, <3>3
  <2> QED
    BY <2>1, <2>2 DEF Queue!TextsStayHome
<1>5. Queue!ChannelsWereOffered /\ Queue!BusyEnds /\ EditorsAreHome /\ Calls /\ LastIsComing
  BY <1>1, <1>2, NoCallFits
  DEF Queue!ChannelsWereOffered, Queue!BusyEnds, EditorsAreHome, Calls, LastIsComing
<1>6. ActionIsAlone
  BY <1>1, NoCallFits DEF ActionIsAlone, Queue!Acting
<1> QED
  BY <1>3, <1>4, <1>5, <1>6 DEF QueueInv

LEMMA QueueStutterKeeps ==
  ASSUME QueueInv, UNCHANGED Queue!queueVars
  PROVE  QueueInv'
<1>1. UNCHANGED <<row, detail, selectedId, copyInput, ctaInput, publishChannels, busy,
                  calls, wanted, disturbed, jumped, clicks, typed>>
  BY DEF Queue!queueVars, Queue!editor, Queue!history
<1>2. Queue!TypeOK' /\ Queue!TextsStayHome' /\ Queue!ChannelsWereOffered' /\ EditorsAreHome' /\ Calls'
  BY <1>1 DEF QueueInv, Queue!TypeOK, Queue!TextsStayHome, Queue!ChannelsWereOffered,
              EditorsAreHome, Calls
<1> QED
  BY <1>1, <1>2, AlikeKeeps DEF QueueInv, Alike

LEMMA QueueNextKeeps ==
  ASSUME Queue!QueueAssumption, QueueInv, [Queue!Next]_Queue!queueVars
  PROVE  QueueInv'
<1>1. ASSUME Queue!EditCopy \/ Queue!EditButton \/ Queue!ToggleChannel PROVE QueueInv'
  BY <1>1, EditsKeep
<1>2. ASSUME NEW r \in Requests, Queue!Decide(r) PROVE QueueInv'
  BY <1>2, DecideKeeps
<1>3. ASSUME NEW s \in Flights, NEW r \in Requests, Queue!OpenRequest(s, r) PROVE QueueInv'
  BY <1>3, OpenKeeps
<1>4. ASSUME NEW s \in Flights,
             Queue!HandleFiles(s) \/ \E k \in Queue!Actions : Queue!RunAction(s, k)
      PROVE  QueueInv'
  BY <1>4, StartsKeep
<1>5. ASSUME NEW s \in Flights, Queue!ShowRequest(s) \/ Queue!ShowResult(s) \/ Queue!Throw(s)
      PROVE  QueueInv'
  BY <1>5, ShowRequestKeeps, ShowResultKeeps, ThrowKeeps
<1>6. ASSUME NEW s \in Flights, Queue!Serve(s) \/ Queue!Refuse(s) PROVE QueueInv'
  BY <1>6, QueueServeKeeps, RefuseKeeps
<1> QED
  BY <1>1, <1>2, <1>3, <1>4, <1>5, <1>6, QueueStutterKeeps DEF Queue!Next

(* What the queue promises follows from its invariant.                      *)
LEMMA InvIsSound ==
  ASSUME QueueInv
  PROVE  Queue!TypeOK /\ Queue!QueueIsSound
<1>1. Queue!OneActionAtATime
  BY DEF Queue!OneActionAtATime, QueueInv, ActionIsAlone, Queue!Acting
<1>2. Queue!LastClickWins
  BY DEF QueueInv, LastIsComing, Queue!LastClickWins, Queue!Opening
<1> QED
  BY <1>1, <1>2 DEF QueueInv, Queue!QueueIsSound

(* Board, editors and calls are always of their kind, at most two files of   *)
(* an upload are left, and a call that was answered has a view or an error   *)
(* (queue-console.tsx:190-296).                                             *)
THEOREM QueueTypeCorrect ==
  ASSUME Queue!QueueAssumption
  PROVE  Queue!Spec => []Queue!TypeOK
<1>1. Queue!Init => QueueInv
  BY QueueInit
<1>2. QueueInv /\ [Queue!Next]_Queue!queueVars => QueueInv'
  BY QueueNextKeeps
<1>3. QueueInv => Queue!TypeOK
  BY InvIsSound
<1> QED
  BY <1>1, <1>2, <1>3, PTL DEF Queue!Spec

(* However the answers of opens, actions and uploads cross: what is saved    *)
(* for a request was written for it, only channels the panel offered can be *)
(* published, the card clicked last is shown, one action runs at a time     *)
(* unless a card was loading beside it, and the controls come back           *)
(* (queue-console.tsx:209-296).                                             *)
THEOREM QueueAloneIsSound ==
  ASSUME Queue!QueueAssumption
  PROVE  Queue!Spec => []Queue!QueueIsSound
<1>1. Queue!Init => QueueInv
  BY QueueInit
<1>2. QueueInv /\ [Queue!Next]_Queue!queueVars => QueueInv'
  BY QueueNextKeeps
<1>3. QueueInv => Queue!QueueIsSound
  BY InvIsSound
<1> QED
  BY <1>1, <1>2, <1>3, PTL DEF Queue!Spec
-----------------------------------------------------------------------------
(* The list of stores.                                                      *)

(* What went wrong so far decides what the screen can be held to.            *)
Whole(t) == "failed" \notin t
Clean(t) == t \cap {"failed", "crossed", "thrown"} = {}
Calm(t) == t \subseteq {"overlap", "error"}

(* Requests are dated by the change that made them, and a dated one exists.  *)
Dated(req, clk) ==
  \A s \in Shops : req[s].at <= clk /\ (req[s].at > 0 => req[s].state # "none")

(* The answer to a move is about its store, no newer than the store's        *)
(* request; a list that is no failure holds all that was there when it was   *)
(* read.                                                                    *)
Fits(o, req, clk, t) ==
  /\ o.asOf <= clk
  /\ o.move = "none" => o = Stores!NoOrder
  /\ o.move \notin {"none", "load"} => o.shop \in Shops
  /\ o.move \in Stores!ByCard => req[o.shop].state # "none"
  /\ o.stage \in {"loading", "loaded"} => o.move = "load"
  /\ o.move = "load" => o.stage \in {"sent", "loading", "loaded"}
  /\ o.stage \in {"pend", "pended"} => o.move \in Stores!Refetching
  /\ o.stage \in {"ok", "refused"} =>
       /\ DOMAIN o.rows = {o.shop}
       /\ o.rows[o.shop].at <= req[o.shop].at /\ o.rows[o.shop].at <= o.asOf
       /\ o.move \in Stores!ByCard => o.rows[o.shop].state # "none"
  /\ o.stage \in {"listed", "loading", "loaded"} =>
       \A s \in DOMAIN o.rows : o.rows[s].state # "none" /\ req[s].state # "none"
  /\ o.stage = "listed" /\ Whole(t) =>
       \A s \in Shops : req[s].state # "none" /\ req[s].at <= o.asOf =>
                          s \in DOMAIN o.rows /\ o.rows[s] = req[s]
  /\ o.stage = "pended" /\ Whole(t) =>
       \A s \in Shops : s \in o.waiting \/ req[s].state # "none"

(* A list holds what any answer read before it has brought.                 *)
Agrees(o, p) ==
  p.stage = "listed" =>
    /\ o.stage \in {"ok", "refused"} /\ 0 < o.rows[o.shop].at /\ o.rows[o.shop].at <= p.asOf
         => o.shop \in DOMAIN p.rows /\ o.rows[o.shop].at <= p.rows[o.shop].at
    /\ o.stage = "listed" /\ o.asOf <= p.asOf => DOMAIN o.rows \subseteq DOMAIN p.rows
    /\ o.stage = "pended" /\ o.asOf <= p.asOf =>
         \A s \in Shops : s \in o.waiting \/ s \in DOMAIN p.rows

(* A list that is not outdated holds what the page shows, and what was told.  *)
OnPage(p, t) ==
  p.stage = "listed" =>
    /\ \A s \in Shops : 0 < told[s] /\ told[s] <= p.asOf =>
          s \in DOMAIN p.rows /\ told[s] <= p.rows[s].at
    /\ newest <= p.asOf => DOMAIN cards \subseteq DOMAIN p.rows
    /\ newest <= p.asOf /\ Calm(t) => \A s \in Shops : s \in setups \/ s \in DOMAIN p.rows

(* What was told of a store is shown, or a list that brings it is under way.  *)
RowsShown(s) == s \in DOMAIN cards /\ told[s] <= cards[s].at /\ told[s] <= newest
Brings(o, s) ==
  \/ o.stage = "list"
  \/ o.stage = "listed" /\ told[s] <= o.asOf
  \/ o.move \in Stores!Refetching /\ o.stage \in {"pend", "pended"}

OrdersFit == \A l \in Lines : Fits(orders[l], request, clock, trouble)
OrdersAgree == Whole(trouble) => \A k, l \in Lines : Agrees(orders[k], orders[l])
ListsFitPage == Clean(trouble) => \A l \in Lines : OnPage(orders[l], trouble)
CardsAreTracked == \A s \in DOMAIN cards : Stores!Tracked(s)
TalkIsTrue == \A s \in Shops : told[s] <= request[s].at
MovesHaveCards ==
  Clean(trouble) => \A l \in Lines : orders[l].move \in Stores!ByCard => orders[l].shop \in DOMAIN cards
ToldIsShown ==
  Clean(trouble) => \A s \in Shops :
    0 < told[s] => RowsShown(s) \/ \E l \in Lines : Brings(orders[l], s)

(* Until the page is loaded nothing else happens on it.                     *)
Loading == \E l \in Lines : orders[l].move = "load"
LoadIsFirst ==
  \A l \in Lines : orders[l].move = "load" =>
    /\ \A k \in Lines \ {l} : orders[k] = Stores!NoOrder
    /\ DOMAIN cards = {} /\ setups = {} /\ \A s \in Shops : told[s] = 0

(* A store that waits no more has its card, or the list with it is read.     *)
NothingFalls ==
  Calm(trouble) /\ ~Loading =>
    /\ \A s \in Shops : s \in setups \/ Stores!Tracked(s)
    /\ \/ \A s \in Shops : s \in setups \/ s \in DOMAIN cards
       \/ \E l \in Lines : orders[l].stage \in {"list", "listed"}

(* A lock has its request, and without an overlap the card's lock is that of  *)
(* the only move under way.                                                 *)
LocksAreHeld ==
  "thrown" \notin trouble =>
    /\ pendingId # None =>
         \E l \in Lines : orders[l].move \in Stores!ByCard /\ orders[l].shop = pendingId
    /\ runningId # None =>
         \E l \in Lines : orders[l].move \in Stores!Refetching /\ orders[l].shop = runningId
OneMove ==
  "overlap" \notin trouble =>
    \A l \in Lines : orders[l].move \in Stores!ByCard =>
      pendingId = orders[l].shop /\ \A k \in Lines : orders[k].move \in Stores!ByCard => k = l

StoresInv ==
  /\ Stores!TypeOK /\ Dated(request, clock) /\ OrdersFit /\ OrdersAgree /\ ListsFitPage
  /\ CardsAreTracked /\ TalkIsTrue /\ MovesHaveCards /\ ToldIsShown /\ LoadIsFirst
  /\ NothingFalls /\ LocksAreHeld /\ OneMove

(* What a step may do to the requests, and to one line of the page.          *)
Grows ==
  /\ request' \in [Shops -> Stores!RequestRows] /\ clock' \in Nat /\ clock <= clock'
  /\ \A s \in Shops :
       \/ request'[s] = request[s]
       \/ /\ clock < request'[s].at /\ request'[s].at <= clock'
          /\ request'[s].state # "none"
Only(l) ==
  /\ orders' = [k \in Lines |-> orders'[k]]
  /\ \A k \in Lines \ {l} : orders'[k] = orders[k]

LEMMA StoresParts ==
  ASSUME StoresInv
  PROVE  /\ request \in [Shops -> Stores!RequestRows] /\ clock \in Nat
         /\ Stores!IsReading(cards) /\ setups \subseteq Shops
         /\ \A s \in DOMAIN cards : cards[s].state \in Stores!AccessStates
         /\ pendingId \in Shops \cup {None} /\ runningId \in Shops \cup {None}
         /\ orders = [l \in Lines |-> orders[l]] /\ \A l \in Lines : Stores!IsOrder(orders[l])
         /\ told \in [Shops -> Nat] /\ newest \in 0 .. clock
         /\ trouble \subseteq {"overlap", "failed", "crossed", "missed", "error", "thrown"}
         /\ effort \in [presses : Nat, moves : Nat, cuts : Nat]
  BY DEF StoresInv, Stores!TypeOK

(* An order, by its fields.                                                 *)
Made(m, s, st, n, f, w) ==
  [move |-> m, shop |-> s, stage |-> st, asOf |-> n, rows |-> f, waiting |-> w]

LEMMA OrderParts ==
  ASSUME NEW o, Stores!IsOrder(o)
  PROVE  /\ o.move \in Stores!Moves \cup {"none"} /\ o.shop \in Shops \cup {None}
         /\ o.stage \in Stores!Stages /\ o.asOf \in Nat /\ o.waiting \subseteq Shops
         /\ Stores!IsReading(o.rows)
         /\ o = Made(o.move, o.shop, o.stage, o.asOf, o.rows, o.waiting)
  BY DEF Stores!IsOrder, Stores!IsReading, Made

LEMMA OrderMade ==
  ASSUME NEW m \in Stores!Moves \cup {"none"}, NEW s \in Shops \cup {None},
         NEW st \in Stores!Stages,
         NEW n \in Nat, NEW f, Stores!IsReading(f), NEW w \in SUBSET Shops
  PROVE  Stores!IsOrder(Made(m, s, st, n, f, w))
  BY DEF Stores!IsOrder, Stores!IsReading, Made

LEMMA MadeParts ==
  ASSUME NEW m, NEW s, NEW st, NEW n, NEW f, NEW w
  PROVE  /\ Made(m, s, st, n, f, w).move = m /\ Made(m, s, st, n, f, w).shop = s
         /\ Made(m, s, st, n, f, w).stage = st /\ Made(m, s, st, n, f, w).asOf = n
         /\ Made(m, s, st, n, f, w).rows = f /\ Made(m, s, st, n, f, w).waiting = w
  BY DEF Made

LEMMA NoRowsReads == Stores!IsReading(Stores!NoRows) /\ DOMAIN Stores!NoRows = {}
  BY DEF Stores!IsReading, Stores!NoRows

LEMMA NoOrderIs ==
  /\ Stores!IsOrder(Stores!NoOrder) /\ Stores!NoOrder.move = "none"
  /\ Stores!NoOrder.stage = "sent"
  /\ Stores!NoOrder.shop = None /\ Stores!NoOrder.asOf = 0
<1>1. "sent" \in Stores!Stages /\ 0 \in Nat
  BY DEF Stores!Stages
<1> QED
  BY <1>1, NoRowsReads, OrderMade DEF Stores!NoOrder, Made

LEMMA OrderKinds ==
  /\ Stores!Moves \subseteq Stores!ByCard \cup Stores!Refetching \cup {"load"}
  /\ Stores!ByCard \subseteq Stores!Moves /\ Stores!Refetching \subseteq Stores!Moves
  /\ "load" \in Stores!Moves
  /\ Stores!ByCard \cap Stores!Refetching = {}
  /\ "load" \notin Stores!ByCard \cup Stores!Refetching
  /\ "none" \notin Stores!Moves
  /\ Stores!ByCard \ {"note"} \subseteq Stores!AccessActions
  BY DEF Stores!Moves, Stores!ByCard, Stores!Refetching, Stores!AccessActions,
         Stores!NaturalMoves

LEMMA OrderIs ==
  ASSUME NEW m \in Stores!Moves, NEW s \in Shops \cup {None}
  PROVE  /\ Stores!IsOrder(Stores!Order(m, s)) /\ Stores!Order(m, s).move = m
         /\ Stores!Order(m, s).shop = s
         /\ Stores!Order(m, s).stage = "sent" /\ Stores!Order(m, s).asOf = 0
<1> DEFINE a == [Stores!NoOrder EXCEPT !.move = m]
<1>5. Stores!NoOrder = Made("none", None, "sent", 0, Stores!NoRows, {})
  BY DEF Stores!NoOrder, Made
<1>3. a = Made(m, None, "sent", 0, Stores!NoRows, {})
  BY <1>5 DEF Made
<1>4. Stores!Order(m, s) = [a EXCEPT !.shop = s]
  BY DEF Stores!Order
<1> HIDE DEF a
<1>1. Stores!Order(m, s) = Made(m, s, "sent", 0, Stores!NoRows, {})
  BY <1>3, <1>4 DEF Made
<1>2. "sent" \in Stores!Stages /\ 0 \in Nat
  BY DEF Stores!Stages
<1> QED
  BY <1>1, <1>2, NoRowsReads, OrderMade, MadeParts

(* A line that goes on: what its answer is, and what it waits for next.      *)
LEMMA Restaged ==
  ASSUME StoresInv, NEW l \in Lines, NEW st \in Stores!Stages, NEW f, Stores!IsReading(f),
         NEW w \in SUBSET Shops, clock' \in Nat, Stores!Stage(l, st, f, w)
  PROVE  /\ Only(l) /\ Stores!IsOrder(orders'[l])
         /\ orders'[l].move = orders[l].move /\ orders'[l].shop = orders[l].shop
         /\ orders'[l].stage = st /\ orders'[l].rows = f
         /\ orders'[l].waiting = w /\ orders'[l].asOf = clock'
<1>1. Stores!IsOrder(orders[l]) /\ orders = [k \in Lines |-> orders[k]]
  BY StoresParts
<1>2. Only(l)
  BY <1>1 DEF Stores!Stage, Only
<1> DEFINE m == orders[l].move
           s == orders[l].shop
           n == orders[l].asOf
           a == [orders EXCEPT ![l].stage = st]
           b == [a EXCEPT ![l].rows = f]
           c == [b EXCEPT ![l].waiting = w]
<1>3. orders[l] = Made(m, s, orders[l].stage, n, orders[l].rows, orders[l].waiting)
  BY <1>1, OrderParts
<1>4. orders' = [c EXCEPT ![l].asOf = clock']
  BY DEF Stores!Stage
<1>5. a[l] = [orders[l] EXCEPT !.stage = st] /\ DOMAIN a = Lines
  BY <1>1
<1>6. b[l] = [a[l] EXCEPT !.rows = f] /\ DOMAIN b = Lines
  BY <1>5
<1>7. c[l] = [b[l] EXCEPT !.waiting = w] /\ DOMAIN c = Lines
  BY <1>6
<1>9. orders'[l] = [c[l] EXCEPT !.asOf = clock']
  BY <1>4, <1>7
<1> HIDE DEF a, b, c, m, s, n
<1>10. a[l] = Made(m, s, st, n, orders[l].rows, orders[l].waiting)
  BY <1>3, <1>5 DEF Made
<1>11. b[l] = Made(m, s, st, n, f, orders[l].waiting)
  BY <1>6, <1>10 DEF Made
<1>12. c[l] = Made(m, s, st, n, f, w)
  BY <1>7, <1>11 DEF Made
<1>8. orders'[l] = Made(m, s, st, clock', f, w)
  BY <1>9, <1>12 DEF Made
<1>13. m \in Stores!Moves \cup {"none"} /\ s \in Shops \cup {None}
  BY <1>1, OrderParts DEF m, s
<1>14. Stores!IsOrder(orders'[l])
  BY <1>8, <1>13, OrderMade
<1>15. /\ orders'[l].move = m /\ orders'[l].shop = s /\ orders'[l].stage = st
       /\ orders'[l].rows = f /\ orders'[l].waiting = w /\ orders'[l].asOf = clock'
  BY <1>8, MadeParts
<1> QED
  BY <1>2, <1>14, <1>15 DEF m, s

LEMMA Awaited ==
  ASSUME StoresInv, NEW l \in Lines, NEW st \in Stores!Stages, Stores!Await(l, st)
  PROVE  /\ Only(l) /\ Stores!IsOrder(orders'[l])
         /\ orders'[l].move = orders[l].move /\ orders'[l].shop = orders[l].shop
         /\ orders'[l].stage = st /\ orders'[l].asOf = orders[l].asOf
<1>1. Stores!IsOrder(orders[l]) /\ orders = [k \in Lines |-> orders[k]]
  BY StoresParts
<1>2. Only(l)
  BY <1>1 DEF Stores!Await, Only
<1> DEFINE m == orders[l].move
           s == orders[l].shop
           n == orders[l].asOf
           a == [orders EXCEPT ![l].stage = st]
           b == [a EXCEPT ![l].rows = Stores!NoRows]
<1>3. orders[l] = Made(m, s, orders[l].stage, n, orders[l].rows, orders[l].waiting)
  BY <1>1, OrderParts
<1>4. orders' = [b EXCEPT ![l].waiting = {}]
  BY DEF Stores!Await
<1>5. a[l] = [orders[l] EXCEPT !.stage = st] /\ DOMAIN a = Lines
  BY <1>1
<1>6. b[l] = [a[l] EXCEPT !.rows = Stores!NoRows] /\ DOMAIN b = Lines
  BY <1>5
<1>8. orders'[l] = [b[l] EXCEPT !.waiting = {}]
  BY <1>4, <1>6
<1> HIDE DEF a, b, m, s, n
<1>9. a[l] = Made(m, s, st, n, orders[l].rows, orders[l].waiting)
  BY <1>3, <1>5 DEF Made
<1>10. b[l] = Made(m, s, st, n, Stores!NoRows, orders[l].waiting)
  BY <1>6, <1>9 DEF Made
<1>7. orders'[l] = Made(m, s, st, n, Stores!NoRows, {})
  BY <1>8, <1>10 DEF Made
<1> USE DEF m, s, n
<1>11. /\ m \in Stores!Moves \cup {"none"} /\ s \in Shops \cup {None} /\ n \in Nat
       /\ {} \in SUBSET Shops /\ Stores!IsReading(Stores!NoRows)
  BY <1>1, OrderParts, NoRowsReads
<1>12. Stores!IsOrder(Made(m, s, st, n, Stores!NoRows, {}))
  BY <1>11, OrderMade
<1> QED
  BY <1>2, <1>7, <1>12, MadeParts

LEMMA Ended ==
  ASSUME StoresInv, NEW l \in Lines, Stores!End(l)
  PROVE  Only(l) /\ orders'[l] = Stores!NoOrder
  BY StoresParts DEF Stores!End, Only

(* What the page is held to, and what the answers under way hold, goes on     *)
(* while the requests only grow.                                            *)
LEMMA FitsKept ==
  ASSUME StoresInv, Grows, NEW l \in Lines, NEW t, trouble \subseteq t
  PROVE  Fits(orders[l], request', clock', t)
<1> DEFINE o == orders[l]
<1>1. Fits(o, request, clock, trouble) /\ Stores!IsOrder(o)
  BY StoresParts DEF StoresInv, OrdersFit
<1>2. o.asOf \in Nat /\ Stores!IsReading(o.rows) /\ clock \in Nat /\ clock' \in Nat
  BY <1>1, OrderParts, StoresParts DEF Grows
<1>3. \A s \in Shops : request[s].at <= clock /\ request[s].at \in Nat /\ request'[s].at \in Nat
  BY StoresParts DEF StoresInv, Dated, Stores!RequestRows, Grows
<1>4. Whole(t) => Whole(trouble)
  BY DEF Whole
<1> HIDE DEF o
<1>5. o.move \notin {"none", "load"} => o.shop \in Shops
  BY <1>1 DEF Fits
<1>6. \A s \in DOMAIN o.rows : s \in Shops /\ o.rows[s].at \in Nat
  BY <1>2 DEF Stores!IsReading, Stores!RequestRows
<1>7. o.asOf <= clock'
  BY <1>1, <1>2 DEF Fits, Grows
<1>8. o.stage \in {"ok", "refused"} => o.rows[o.shop].at <= request'[o.shop].at
  BY <1>1, <1>2, <1>3, <1>6 DEF Fits, Grows
<1>9. o.move \in Stores!ByCard => request'[o.shop].state # "none"
  BY <1>1, <1>5, OrderKinds DEF Fits, Grows
<1>10. o.stage \in {"listed", "loading", "loaded"} =>
         \A s \in DOMAIN o.rows : request'[s].state # "none"
  BY <1>1, <1>6 DEF Fits, Grows
<1>11. o.stage = "listed" /\ Whole(t) =>
         \A s \in Shops : request'[s].state # "none" /\ request'[s].at <= o.asOf =>
                            s \in DOMAIN o.rows /\ o.rows[s] = request'[s]
  BY <1>1, <1>2, <1>3, <1>4 DEF Fits, Grows
<1>12. o.stage = "pended" /\ Whole(t) =>
         \A s \in Shops : s \in o.waiting \/ request'[s].state # "none"
  BY <1>1, <1>4 DEF Fits, Grows
<1>13. Fits(o, request', clock', t)
  BY <1>1, <1>7, <1>8, <1>9, <1>10, <1>11, <1>12 DEF Fits
<1> QED
  BY <1>13 DEF o

LEMMA LinesKept ==
  ASSUME StoresInv, Grows, NEW l \in Lines, Only(l), Stores!IsOrder(orders'[l]),
         trouble \subseteq trouble',
         Fits(orders'[l], request', clock', trouble'),
         Whole(trouble') => \A k \in Lines : /\ Agrees(orders'[l], orders'[k])
                                           /\ Agrees(orders'[k], orders'[l])
  PROVE  /\ orders' = [k \in Lines |-> orders'[k]] /\ \A k \in Lines : Stores!IsOrder(orders'[k])
         /\ Dated(request', clock') /\ OrdersFit' /\ OrdersAgree'
<1>1. \A k \in Lines \ {l} : orders'[k] = orders[k]
  BY DEF Only
<1>2. \A k \in Lines : Stores!IsOrder(orders'[k])
  BY <1>1, StoresParts
<1>3. Dated(request', clock')
  BY StoresParts DEF Grows, StoresInv, Dated, Stores!RequestRows
<1>4. \A k \in Lines : Fits(orders'[k], request', clock', trouble')
  BY <1>1, FitsKept
<1>5. Whole(trouble') => Whole(trouble)
  BY DEF Whole
<1>6. Whole(trouble') => \A j, k \in Lines : Agrees(orders'[j], orders'[k])
  BY <1>1, <1>5 DEF StoresInv, OrdersAgree
<1> QED
  BY <1>2, <1>3, <1>4, <1>6 DEF OrdersFit, OrdersAgree, Only

(* A line that waits for an answer holds nothing.                           *)
NoTrouble(o) == o.stage \in {"sent", "pend", "list"}
LEMMA QuietAgrees ==
  ASSUME NEW o, NEW p, NoTrouble(o)
  PROVE  Agrees(o, p) /\ Agrees(p, o)
  BY DEF NoTrouble, Agrees

-------------------------------------------------------------------------------
(* The routes and the others: the page stays as it is, one line may go on.   *)
LEMMA ServerStep ==
  ASSUME StoresInv, Grows, NEW l \in Lines, Only(l), Stores!IsOrder(orders'[l]),
         UNCHANGED <<cards, setups, pendingId, runningId, told, newest>>,
         trouble \subseteq trouble', trouble' \subseteq trouble \cup {"error", "failed"},
         effort' \in [presses : Nat, moves : Nat, cuts : Nat],
         orders'[l].move = orders[l].move, orders'[l].shop = orders[l].shop,
         orders[l].stage \in {"list", "listed"} => orders'[l].stage \in {"list", "listed"},
         Fits(orders'[l], request', clock', trouble'),
         Whole(trouble') => \A k \in Lines : /\ Agrees(orders'[l], orders'[k])
                                           /\ Agrees(orders'[k], orders'[l]),
         Clean(trouble') => OnPage(orders'[l], trouble'),
         Clean(trouble') =>
           \A s \in Shops : 0 < told[s] /\ Brings(orders[l], s) => Brings(orders'[l], s)
  PROVE  StoresInv'
<1>1. \A k \in Lines \ {l} : orders'[k] = orders[k]
  BY DEF Only
<1>2. /\ orders' = [k \in Lines |-> orders'[k]] /\ \A k \in Lines : Stores!IsOrder(orders'[k])
      /\ Dated(request', clock') /\ OrdersFit' /\ OrdersAgree'
  BY LinesKept
<1>3. /\ Clean(trouble') => Clean(trouble) /\ Whole(trouble')
      /\ Calm(trouble') => Calm(trouble) /\ Clean(trouble')
      /\ "thrown" \in trouble => "thrown" \in trouble'
      /\ "overlap" \in trouble => "overlap" \in trouble'
  BY DEF Clean, Calm, Whole
<1>4. \A k \in Lines : orders'[k].move = orders[k].move /\ orders'[k].shop = orders[k].shop
  BY <1>1
<1>5. /\ cards' = cards /\ setups' = setups /\ pendingId' = pendingId
      /\ runningId' = runningId /\ told' = told /\ newest' = newest
  OBVIOUS
<1>6. \A s \in Shops : /\ Stores!Tracked(s) => request'[s].state # "none"
                       /\ request[s].at <= request'[s].at
  BY StoresParts DEF Stores!Tracked, StoresInv, Dated, Grows, Stores!RequestRows
<1>7. Stores!TypeOK'
  BY <1>2, <1>5, StoresParts DEF Stores!TypeOK, Grows, Stores!IsReading
<1>8. ListsFitPage'
  <2>1. Clean(trouble') => \A k \in Lines : OnPage(orders'[k], trouble')
    BY <1>1, <1>3 DEF StoresInv, ListsFitPage, OnPage
  <2> QED
    BY <1>5, <2>1 DEF ListsFitPage, OnPage
<1>9. CardsAreTracked'
  BY <1>5, <1>6, StoresParts
  DEF StoresInv, CardsAreTracked, Stores!Tracked, Stores!IsReading
<1>10. TalkIsTrue'
  <2>1. \A s \in Shops : /\ told[s] \in Nat /\ request[s].at \in Nat
                         /\ request'[s].at \in Nat /\ told[s] <= request[s].at
    BY StoresParts DEF StoresInv, TalkIsTrue, Grows, Stores!RequestRows
  <2> QED
    BY <1>5, <1>6, <2>1 DEF TalkIsTrue
<1>11. MovesHaveCards'
  BY <1>3, <1>4, <1>5 DEF StoresInv, MovesHaveCards
<1>12. ToldIsShown'
  <2>1. Clean(trouble') => \A s \in Shops : 0 < told[s] =>
          RowsShown(s) \/ \E k \in Lines : Brings(orders'[k], s)
    BY <1>1, <1>3 DEF StoresInv, ToldIsShown
  <2>2. \A s \in Shops : RowsShown(s) <=> RowsShown(s)'
    BY <1>5 DEF RowsShown
  <2>3. Clean(trouble') => \A s \in Shops : 0 < told'[s] =>
          RowsShown(s)' \/ \E k \in Lines : Brings(orders'[k], s)
    BY <1>5, <2>1, <2>2
  <2> QED
    BY <1>5, <2>3 DEF ToldIsShown, Brings
<1>13. LoadIsFirst'
  <2>1. \A k \in Lines : orders[k].move = "load" => \A j \in Lines \ {k} : orders'[j] = Stores!NoOrder
    <3> SUFFICES ASSUME NEW k \in Lines, orders[k].move = "load", NEW j \in Lines \ {k}
                 PROVE  orders'[j] = Stores!NoOrder
      OBVIOUS
    <3>1. orders[j] = Stores!NoOrder
      BY DEF StoresInv, LoadIsFirst
    <3>2. CASE j # l
      BY <1>1, <3>1, <3>2
    <3>3. CASE j = l
      BY <3>1, <3>3, NoOrderIs DEF Fits
    <3> QED
      BY <3>2, <3>3
  <2> QED
    BY <1>4, <1>5, <2>1 DEF StoresInv, LoadIsFirst
<1>14. NothingFalls'
  <2>1. Loading' <=> Loading
    BY <1>4 DEF Loading
  <2>2. Calm(trouble') /\ ~Loading =>
          \/ \A s \in Shops : s \in setups \/ s \in DOMAIN cards
          \/ \E k \in Lines : orders'[k].stage \in {"list", "listed"}
    BY <1>1, <1>3 DEF StoresInv, NothingFalls
  <2>3. Calm(trouble') /\ ~Loading => \A s \in Shops : s \in setups \/ Stores!Tracked(s)'
    BY <1>3, <1>6 DEF StoresInv, NothingFalls, Stores!Tracked
  <2> QED
    BY <1>5, <2>1, <2>2, <2>3 DEF NothingFalls
<1>15. LocksAreHeld'
  BY <1>3, <1>4, <1>5 DEF StoresInv, LocksAreHeld
<1>16. OneMove'
  BY <1>3, <1>4, <1>5 DEF StoresInv, OneMove
<1>17. Dated(request, clock)'
  BY <1>2 DEF Dated
<1> QED
  BY <1>2, <1>7, <1>8, <1>9, <1>10, <1>11, <1>12, <1>13, <1>14, <1>15, <1>16, <1>17
  DEF StoresInv

LEMMA TransitionRange ==
  ASSUME NEW st, NEW a \in Stores!AccessActions, NEW n \in Stores!Transition(st, a)
  PROVE  n \in Stores!AccessStates
  BY DEF Stores!Transition, Stores!AccessActions, Stores!NaturalMoves,
         Stores!AccessStates, Stores!AttachFrom, Stores!ConfirmFrom

LEMMA StatesExist == "none" \notin Stores!AccessStates /\ "not_requested" \in Stores!AccessStates
                     /\ "granted" \in Stores!AccessStates
                     /\ "adoption_review" \in Stores!AccessStates
  BY DEF Stores!AccessStates

LEMMA Changed ==
  ASSUME StoresInv, NEW s \in Shops, NEW st \in Stores!AccessStates, NEW b \in BOOLEAN,
         Stores!Change(s, st, b)
  PROVE  Grows
<1> DEFINE r == [state |-> st, listing |-> b, at |-> clock + 1]
<1>1. /\ clock \in Nat /\ request \in [Shops -> Stores!RequestRows] /\ clock' = clock + 1
      /\ request' = [request EXCEPT ![s] = r]
  BY StoresParts DEF Stores!Change
<1>2. r \in Stores!RequestRows /\ r.at = clock + 1 /\ r.state # "none"
  BY <1>1, StatesExist DEF Stores!RequestRows
<1> HIDE DEF r
<1>3. request' \in [Shops -> Stores!RequestRows] /\ request'[s] = r
      /\ \A q \in Shops \ {s} : request'[q] = request[q]
  BY <1>1, <1>2
<1> QED
  BY <1>1, <1>2, <1>3 DEF Grows

LEMMA Still == ASSUME StoresInv, UNCHANGED <<request, clock>> PROVE Grows
  BY StoresParts DEF Grows

LEMMA ListingsIs ==
  ASSUME StoresInv, NEW s \in Shops, NEW m PROVE Stores!Listings(s, m) \in BOOLEAN
  BY StoresParts DEF Stores!Listings, Stores!RequestRows

LEMMA EffectGrows ==
  ASSUME StoresInv, NEW l \in Lines, orders[l].move \notin {"none", "load"},
         Stores!Effect(orders[l])
  PROVE  Grows
<1> DEFINE o == orders[l]
           s == o.shop
<1>1. s \in Shops /\ (o.move \in Stores!ByCard => request[s].state # "none")
  BY DEF StoresInv, OrdersFit, Fits
<1>2. request[s].state \in Stores!AccessStates \cup {"none"} /\ request[s].listing \in BOOLEAN
  BY <1>1, StoresParts DEF Stores!RequestRows
<1>3. CASE o.move \in Stores!ByCard \ {"note"} /\
           \E n \in Stores!Transition(request[s].state, o.move) : Stores!Change(s, n, Stores!Listings(s, o.move))
  BY <1>1, <1>3, OrderKinds, TransitionRange, ListingsIs, Changed
<1>4. CASE o.move = "note" /\ Stores!Change(s, request[s].state, request[s].listing)
  <2>1. request[s].state \in Stores!AccessStates
    BY <1>1, <1>2, <1>4 DEF Stores!ByCard
  <2> QED
    BY <1>1, <1>2, <1>4, <2>1, Changed
<1>5. CASE UNCHANGED <<request, clock>>
  BY <1>5, Still
<1>6. CASE Stores!Change(s, "not_requested", TRUE)
  BY <1>1, <1>6, StatesExist, Changed
<1>7. CASE Stores!Change(s, "granted", TRUE)
  BY <1>1, <1>7, StatesExist, Changed
<1> QED
  BY <1>3, <1>4, <1>5, <1>6, <1>7 DEF Stores!Effect

LEMMA EffortSpent ==
  ASSUME StoresInv
  PROVE  /\ effort' = effort => effort' \in [presses : Nat, moves : Nat, cuts : Nat]
         /\ effort.presses > 0 /\ effort' = [effort EXCEPT !.presses = @ - 1]
              => effort' \in [presses : Nat, moves : Nat, cuts : Nat]
         /\ effort.moves > 0 /\ effort' = [effort EXCEPT !.moves = @ - 1]
              => effort' \in [presses : Nat, moves : Nat, cuts : Nat]
         /\ effort.cuts > 0 /\ effort' = [effort EXCEPT !.cuts = @ - 1]
              => effort' \in [presses : Nat, moves : Nat, cuts : Nat]
  BY StoresParts

LEMMA OtherMovesSafe ==
  ASSUME Stores!StoresAssumption, StoresInv, NEW s \in Shops, Stores!OtherMoves(s)
  PROVE  StoresInv'
<1>1. /\ UNCHANGED <<cards, setups, pendingId, runningId, told, newest>>
      /\ orders' = orders /\ trouble' = trouble
  BY DEF Stores!OtherMoves, Stores!lists, Stores!locks, Stores!past
<1>2. effort' \in [presses : Nat, moves : Nat, cuts : Nat]
  BY EffortSpent DEF Stores!OtherMoves
<1>3. Grows
  <2>1. CASE \E n \in {"not_requested", "adoption_review"}, b \in BOOLEAN : Stores!Change(s, n, b)
    BY <2>1, StatesExist, Changed
  <2>2. CASE \E a \in {"CONFIRM_ADOPTION", "GRANT", "BLOCK"} :
               \E n \in Stores!Transition(request[s].state, a) : Stores!Change(s, n, Stores!Listings(s, a))
    <3>1. {"CONFIRM_ADOPTION", "GRANT", "BLOCK"} \subseteq Stores!AccessActions
      BY DEF Stores!AccessActions, Stores!NaturalMoves
    <3> QED
      BY <2>2, <3>1, TransitionRange, ListingsIs, Changed
  <2> QED
    BY <2>1, <2>2 DEF Stores!OtherMoves
<1>4. 1 \in Lines
  BY DEF Stores!StoresAssumption
<1>5. Only(1) /\ orders'[1] = orders[1] /\ Stores!IsOrder(orders'[1])
  BY <1>1, <1>4, StoresParts DEF Only
<1>6. Fits(orders'[1], request', clock', trouble')
  BY <1>1, <1>3, <1>4, FitsKept
<1>7. /\ Whole(trouble') => \A k \in Lines : /\ Agrees(orders'[1], orders'[k])
                                           /\ Agrees(orders'[k], orders'[1])
      /\ Clean(trouble') => OnPage(orders'[1], trouble')
  BY <1>1, <1>4 DEF StoresInv, OrdersAgree, ListsFitPage
<1> QED
  BY <1>1, <1>2, <1>3, <1>4, <1>5, <1>6, <1>7, ServerStep

LEMMA DatedAfter ==
  ASSUME StoresInv, Grows
  PROVE  \A s \in Shops :
           /\ request'[s].at \in Nat /\ request'[s].at <= clock'
           /\ request'[s].at > 0 => request'[s].state # "none"
           /\ request[s].state # "none" => request'[s].state # "none"
  BY StoresParts DEF Grows, StoresInv, Dated, Stores!RequestRows

(* An answer holds the request as the move has left it.                      *)
LEMMA AnswerSafe ==
  ASSUME StoresInv, NEW l \in Lines, Stores!Sent(l), Grows, NEW st \in {"ok", "refused"},
         Stores!Stage(l, st, [s \in {orders[l].shop} |-> request'[s]], {}),
         UNCHANGED <<cards, setups, pendingId, runningId, told, newest>>,
         trouble' \in {trouble, trouble \cup {"error"}},
         effort' \in [presses : Nat, moves : Nat, cuts : Nat]
  PROVE  StoresInv'
<1> DEFINE s == orders[l].shop
           f == [q \in {s} |-> request'[q]]
           o == orders'[l]
<1>1. /\ s \in Shops /\ orders[l].move \in Stores!Moves /\ orders[l].move # "load"
      /\ orders[l].stage = "sent"
      /\ orders[l].move \in Stores!ByCard => request[s].state # "none"
  BY StoresParts, OrderParts DEF StoresInv, OrdersFit, Fits, Stores!Sent
<1>2. Stores!IsReading(f) /\ DOMAIN f = {s} /\ f[s] = request'[s]
  BY <1>1 DEF Stores!IsReading, Grows
<1>3. st \in Stores!Stages /\ clock' \in Nat /\ {} \in SUBSET Shops
  BY DEF Stores!Stages, Grows
<1> HIDE DEF f
<1>4. /\ Only(l) /\ Stores!IsOrder(o) /\ o.move = orders[l].move /\ o.shop = s
      /\ o.stage = st /\ o.rows = f /\ o.asOf = clock'
  BY <1>2, <1>3, Restaged DEF f
<1>5. /\ trouble \subseteq trouble' /\ trouble' \subseteq trouble \cup {"error", "failed"}
      /\ Whole(trouble') => Whole(trouble)
  BY DEF Whole
<1>6. /\ request'[s].at \in Nat /\ request'[s].at <= clock'
      /\ orders[l].move \in Stores!ByCard => request'[s].state # "none"
  BY <1>1, DatedAfter
<1>7. Fits(o, request', clock', trouble')
  BY <1>1, <1>2, <1>3, <1>4, <1>6, OrderKinds DEF Fits
<1>8. Whole(trouble') => \A k \in Lines : Agrees(o, orders'[k]) /\ Agrees(orders'[k], o)
  <2> SUFFICES ASSUME Whole(trouble'), NEW k \in Lines
               PROVE  Agrees(o, orders'[k]) /\ Agrees(orders'[k], o)
    OBVIOUS
  <2>1. Agrees(orders'[k], o)
    BY <1>4 DEF Agrees
  <2>2. ASSUME orders'[k].stage = "listed"
        PROVE  Agrees(o, orders'[k])
    <3>1. k # l /\ orders'[k] = orders[k]
      BY <1>4, <2>2 DEF Only
    <3>2. /\ orders[k].asOf <= clock /\ orders[k].asOf \in Nat
          /\ \A q \in Shops : request[q].state # "none" /\ request[q].at <= orders[k].asOf =>
                 q \in DOMAIN orders[k].rows /\ orders[k].rows[q] = request[q]
      BY <1>5, <2>2, <3>1, StoresParts, OrderParts DEF StoresInv, OrdersFit, Fits
    <3>3. ASSUME 0 < request'[s].at, request'[s].at <= orders[k].asOf
          PROVE  s \in DOMAIN orders[k].rows /\ orders[k].rows[s] = request'[s]
      <4>1. request'[s] = request[s]
        BY <1>1, <1>6, <3>2, <3>3, StoresParts DEF Grows
      <4>2. request[s].state # "none"
        BY <1>1, <3>3, <4>1, DatedAfter
      <4> QED
        BY <1>1, <3>2, <3>3, <4>1, <4>2
    <3> QED
      BY <1>2, <1>4, <1>6, <3>1, <3>3 DEF Agrees
  <2>3. CASE orders'[k].stage # "listed"
    BY <2>1, <2>3 DEF Agrees
  <2> QED
    BY <2>1, <2>2, <2>3
<1>9. OnPage(o, trouble') /\ \A q \in Shops : ~Brings(orders[l], q)
  BY <1>1, <1>4 DEF OnPage, Brings
<1> QED
  BY <1>1, <1>4, <1>5, <1>7, <1>8, <1>9, ServerStep

LEMMA ServeSafe ==
  ASSUME StoresInv, NEW l \in Lines, Stores!Serve(l)
  PROVE  StoresInv'
<1>1. Grows
  BY EffectGrows DEF Stores!Serve, Stores!Sent
<1>2. UNCHANGED <<cards, setups, pendingId, runningId, told, newest, trouble, effort>>
  BY DEF Stores!Serve, Stores!lists, Stores!locks, Stores!past
<1>3. effort' \in [presses : Nat, moves : Nat, cuts : Nat]
  BY <1>2, StoresParts
<1> QED
  BY <1>1, <1>2, <1>3, AnswerSafe DEF Stores!Serve

LEMMA RefuseSafe ==
  ASSUME StoresInv, NEW l \in Lines, Stores!Refuse(l)
  PROVE  StoresInv'
<1>1. UNCHANGED <<cards, setups, pendingId, runningId, told, newest>>
  BY DEF Stores!Refuse, Stores!lists, Stores!locks
<1>2. orders[l].move \notin {"none", "load"} /\ orders[l].shop \in Shops
  BY DEF Stores!Refuse, Stores!Sent, StoresInv, OrdersFit, Fits
<1>3. /\ Grows /\ trouble' \in {trouble, trouble \cup {"error"}}
      /\ effort' \in [presses : Nat, moves : Nat, cuts : Nat]
  <2>1. CASE UNCHANGED <<request, clock, trouble, effort>>
    BY <2>1, Still, StoresParts
  <2>2. CASE Stores!Effect(orders[l]) /\ Stores!Cut("error")
    BY <1>2, <2>2, EffectGrows, EffortSpent DEF Stores!Cut
  <2>3. CASE /\ Stores!Change(orders[l].shop, "not_requested", FALSE)
             /\ UNCHANGED <<trouble, effort>>
    BY <1>2, <2>3, StatesExist, Changed, StoresParts
  <2> QED
    BY <2>1, <2>2, <2>3 DEF Stores!Refuse
<1> QED
  BY <1>1, <1>3, AnswerSafe DEF Stores!Refuse

(* A list that is read holds all that is there, or none and a failure.       *)
LEMMA ReadListSafe ==
  ASSUME StoresInv, NEW l \in Lines, Stores!ReadList(l)
  PROVE  StoresInv'
<1> DEFINE o == orders'[l]
           p == orders[l]
<1>1. /\ UNCHANGED <<cards, setups, pendingId, runningId, told, newest>>
      /\ request' = request /\ clock' = clock /\ clock \in Nat /\ clock' \in Nat
  BY StoresParts DEF Stores!ReadList, Stores!lists, Stores!locks
<1>2. Grows
  BY <1>1, Still
<1>3. Stores!IsReading(Stores!ListedRows) /\ DOMAIN Stores!ListedRows = Stores!Listed /\ Stores!Listed \subseteq Shops
      /\ \A s \in Stores!Listed : Stores!ListedRows[s] = request[s]
  <2>1. Stores!Listed \subseteq Shops /\ \A s \in Stores!Listed : request[s] \in Stores!RequestRows
    BY StoresParts DEF Stores!Listed
  <2>2. Stores!ListedRows \in [Stores!Listed -> Stores!RequestRows]
    BY <2>1 DEF Stores!ListedRows
  <2> QED
    BY <2>1, <2>2 DEF Stores!ListedRows, Stores!IsReading
<1>4. Stores!Waiting \subseteq Shops /\ \A s \in Shops : s \in Stores!Waiting \/ s \in Stores!Listed
  BY DEF Stores!Waiting, Stores!Listed
<1>5. \A s \in Shops : s \in Stores!Listed <=> request[s].state # "none"
  BY DEF Stores!Listed, Stores!Tracked
<1>6. Fits(p, request, clock, trouble) /\ Stores!IsOrder(p) /\ Stores!IsReading(p.rows)
  BY StoresParts, OrderParts DEF StoresInv, OrdersFit
<1>7. \A s \in Shops : /\ request[s].at \in Nat /\ request[s].at <= clock
                       /\ request[s].at > 0 => s \in Stores!Listed
                       /\ told[s] \in Nat /\ told[s] <= request[s].at /\ told[s] <= clock
  <2>1. \A s \in Shops : /\ request[s].at \in Nat /\ request[s].at <= clock
                         /\ request[s].at > 0 => s \in Stores!Listed
                         /\ told[s] \in Nat /\ told[s] <= request[s].at
    BY <1>5, StoresParts DEF StoresInv, Dated, TalkIsTrue, Stores!RequestRows
  <2> QED
    BY <1>1, <2>1
<1> HIDE DEF p
<1>8. Whole(trouble') => Whole(trouble)
  BY DEF Stores!ReadList, Stores!Cut, Whole
<1>9. \A k \in Lines :
        /\ orders[k].asOf \in Nat /\ orders[k].asOf <= clock
        /\ orders[k].stage \in {"ok", "refused"} =>
             /\ orders[k].shop \in Shops
             /\ orders[k].rows[orders[k].shop].at <= request[orders[k].shop].at
        /\ orders[k].stage = "listed" => DOMAIN orders[k].rows \subseteq Stores!Listed
        /\ orders[k].stage = "pended" /\ Whole(trouble) =>
             \A s \in Shops : s \in orders[k].waiting \/ s \in Stores!Listed
        /\ orders[k].stage = "listed" /\ Whole(trouble) /\ clock <= orders[k].asOf =>
             DOMAIN orders[k].rows = Stores!Listed
  <2> SUFFICES ASSUME NEW k \in Lines
               PROVE  /\ orders[k].asOf \in Nat /\ orders[k].asOf <= clock
                      /\ orders[k].stage \in {"ok", "refused"} =>
                           /\ orders[k].shop \in Shops
                           /\ orders[k].rows[orders[k].shop].at <= request[orders[k].shop].at
                      /\ orders[k].stage = "listed" => DOMAIN orders[k].rows \subseteq Stores!Listed
                      /\ orders[k].stage = "pended" /\ Whole(trouble) =>
                           \A s \in Shops : s \in orders[k].waiting \/ s \in Stores!Listed
                      /\ orders[k].stage = "listed" /\ Whole(trouble) /\ clock <= orders[k].asOf =>
                           DOMAIN orders[k].rows = Stores!Listed
    OBVIOUS
  <2>1. Fits(orders[k], request, clock, trouble) /\ Stores!IsOrder(orders[k])
    BY StoresParts DEF StoresInv, OrdersFit
  <2>2. orders[k].asOf \in Nat /\ Stores!IsReading(orders[k].rows)
    BY <2>1, OrderParts
  <2>3. \A s \in DOMAIN orders[k].rows : s \in Shops
    BY <2>2 DEF Stores!IsReading
  <2>4. orders[k].stage = "listed" => DOMAIN orders[k].rows \subseteq Stores!Listed
    BY <1>5, <2>1, <2>3 DEF Fits
  <2>5. orders[k].stage = "listed" /\ Whole(trouble) /\ clock <= orders[k].asOf =>
          Stores!Listed \subseteq DOMAIN orders[k].rows
    <3> SUFFICES ASSUME orders[k].stage = "listed", Whole(trouble), clock <= orders[k].asOf,
                        NEW s \in Stores!Listed
                 PROVE  s \in DOMAIN orders[k].rows
      OBVIOUS
    <3>1. s \in Shops /\ request[s].state # "none" /\ request[s].at <= orders[k].asOf
      BY <1>1, <1>3, <1>5, <1>7, <2>2
    <3> QED
      BY <2>1, <3>1 DEF Fits
  <2>6. orders[k].stage \in {"ok", "refused"} => orders[k].shop \in Shops
    BY <2>1, NoOrderIs DEF Fits
  <2> QED
    BY <1>5, <2>1, <2>2, <2>4, <2>5, <2>6 DEF Fits
<1>10. \A s \in DOMAIN cards : s \in Stores!Listed
  BY StoresParts DEF StoresInv, CardsAreTracked, Stores!Listed, Stores!IsReading
<1>11. Calm(trouble) /\ ~Loading => \A s \in Shops : s \in setups \/ s \in Stores!Listed
  BY DEF StoresInv, NothingFalls, Stores!Listed
<1>12. ASSUME p.stage = "list", Stores!Stage(l, "listed", Stores!ListedRows, {}),
              UNCHANGED <<trouble, effort>>
       PROVE  StoresInv'
  <2>1. /\ Only(l) /\ Stores!IsOrder(o) /\ o.move = p.move /\ o.shop = p.shop
        /\ o.stage = "listed" /\ o.rows = Stores!ListedRows /\ o.asOf = clock
    BY <1>1, <1>3, <1>12, Restaged DEF Stores!Stages, p
  <2>2. Fits(o, request, clock, trouble)
    BY <1>1, <1>3, <1>5, <1>6, <1>12, <2>1, NoOrderIs DEF Fits
  <2>3. Whole(trouble) => \A k \in Lines : Agrees(o, orders'[k]) /\ Agrees(orders'[k], o)
    <3> SUFFICES ASSUME Whole(trouble), NEW k \in Lines
                 PROVE  Agrees(o, orders'[k]) /\ Agrees(orders'[k], o)
      OBVIOUS
    <3>1. CASE k = l
      BY <2>1, <3>1 DEF Agrees
    <3>2. CASE k # l
      <4>1. orders'[k] = orders[k]
        BY <2>1, <3>2 DEF Only
      <4>2. Agrees(o, orders[k])
        BY <1>1, <1>3, <1>9, <2>1 DEF Agrees
      <4>3. Agrees(orders[k], o)
        <5>1. ASSUME orders[k].stage \in {"ok", "refused"},
                     0 < orders[k].rows[orders[k].shop].at
              PROVE  /\ orders[k].shop \in Stores!Listed
                     /\ orders[k].rows[orders[k].shop].at <= Stores!ListedRows[orders[k].shop].at
          <6>1. /\ orders[k].shop \in Shops
                /\ orders[k].rows[orders[k].shop].at <= request[orders[k].shop].at
            BY <1>9, <5>1
          <6>2. orders[k].rows[orders[k].shop].at \in Nat
            <7>1. Stores!IsReading(orders[k].rows) /\ DOMAIN orders[k].rows = {orders[k].shop}
              BY <5>1, StoresParts, OrderParts DEF StoresInv, OrdersFit, Fits
            <7> QED
              BY <7>1 DEF Stores!IsReading, Stores!RequestRows
          <6> QED
            <7>1. request[orders[k].shop].at > 0
              BY <1>7, <5>1, <6>1, <6>2
            <7>2. orders[k].shop \in Stores!Listed
              BY <1>7, <6>1, <7>1
            <7> QED
              BY <1>3, <6>1, <7>2
        <5> QED
          BY <1>3, <1>9, <2>1, <5>1 DEF Agrees
      <4> QED
        BY <4>1, <4>2, <4>3
    <3> QED
      BY <3>1, <3>2
  <2>4. ~Loading
    BY <1>12, NoOrderIs DEF Loading, StoresInv, LoadIsFirst, OrdersFit, Fits, p
  <2>5. OnPage(o, trouble)
    <3>1. \A s \in Shops : 0 < told[s] => s \in Stores!Listed /\ told[s] <= Stores!ListedRows[s].at
      <4>1. \A s \in Shops : 0 < told[s] => request[s].at > 0
        BY <1>7
      <4> QED
        BY <1>3, <1>7, <4>1
    <3> QED
      BY <1>3, <1>10, <1>11, <2>1, <2>4, <3>1 DEF OnPage
  <2>6. \A s \in Shops : Brings(o, s)
    BY <1>7, <2>1 DEF Brings
  <2> QED
    BY <1>1, <1>2, <1>12, <2>1, <2>2, <2>3, <2>5, <2>6, StoresParts, ServerStep DEF p
<1>13. ASSUME p.stage = "list", Stores!Stage(l, "listed", Stores!NoRows, {}),
              Stores!Cut("failed")
       PROVE  StoresInv'
  <2>1. /\ Only(l) /\ Stores!IsOrder(o) /\ o.move = p.move /\ o.shop = p.shop
        /\ o.stage = "listed" /\ o.rows = Stores!NoRows /\ o.asOf = clock
    BY <1>1, <1>13, NoRowsReads, Restaged DEF Stores!Stages, p
  <2>2. /\ trouble' = trouble \cup {"failed"} /\ ~Whole(trouble') /\ ~Clean(trouble')
        /\ effort' \in [presses : Nat, moves : Nat, cuts : Nat]
    BY <1>13, EffortSpent DEF Stores!Cut, Whole, Clean
  <2>3. Fits(o, request, clock, trouble')
    BY <1>1, <1>6, <1>13, <2>1, <2>2, NoRowsReads, NoOrderIs DEF Fits
  <2> QED
    BY <1>1, <1>2, <1>13, <2>1, <2>2, <2>3, ServerStep DEF p
<1>14. ASSUME p.stage = "pend", Stores!Stage(l, "pended", Stores!NoRows, Stores!Waiting),
              UNCHANGED <<trouble, effort>>
       PROVE  StoresInv'
  <2>1. /\ Only(l) /\ Stores!IsOrder(o) /\ o.move = p.move /\ o.shop = p.shop
        /\ o.stage = "pended" /\ o.rows = Stores!NoRows /\ o.asOf = clock
        /\ o.waiting = Stores!Waiting
    BY <1>1, <1>4, <1>14, NoRowsReads, Restaged DEF Stores!Stages, p
  <2>2. Fits(o, request, clock, trouble)
    BY <1>1, <1>4, <1>5, <1>6, <1>14, <2>1, OrderKinds, NoOrderIs DEF Fits
  <2>3. Whole(trouble) => \A k \in Lines : Agrees(o, orders'[k]) /\ Agrees(orders'[k], o)
    BY <1>1, <1>4, <1>9, <2>1 DEF Agrees, Only
  <2>4. OnPage(o, trouble) /\ \A s \in Shops : Brings(p, s) => Brings(o, s)
    BY <1>14, <2>1 DEF OnPage, Brings
  <2> QED
    BY <1>1, <1>2, <1>14, <2>1, <2>2, <2>3, <2>4, StoresParts, ServerStep DEF p
<1>15. ASSUME p.stage = "pend", Stores!Stage(l, "pended", Stores!NoRows, {}),
              Stores!Cut("failed")
       PROVE  StoresInv'
  <2>1. /\ Only(l) /\ Stores!IsOrder(o) /\ o.move = p.move /\ o.shop = p.shop
        /\ o.stage = "pended" /\ o.asOf = clock
    BY <1>1, <1>15, NoRowsReads, Restaged DEF Stores!Stages, p
  <2>2. /\ trouble' = trouble \cup {"failed"} /\ ~Whole(trouble') /\ ~Clean(trouble')
        /\ effort' \in [presses : Nat, moves : Nat, cuts : Nat]
    BY <1>15, EffortSpent DEF Stores!Cut, Whole, Clean
  <2>3. Fits(o, request, clock, trouble')
    BY <1>1, <1>6, <1>15, <2>1, <2>2, OrderKinds, NoOrderIs DEF Fits
  <2> QED
    BY <1>1, <1>2, <1>15, <2>1, <2>2, <2>3, ServerStep DEF p
<1>16. ASSUME p.move = "load", NEW st \in {"loading", "loaded"}, NEW f,
              NEW w \in SUBSET Shops,
              Stores!Stage(l, st, f, w), UNCHANGED <<trouble, effort>>, Stores!IsReading(f),
              \A s \in DOMAIN f : f[s].state # "none" /\ s \in Stores!Listed
       PROVE  StoresInv'
  <2>1. /\ Only(l) /\ Stores!IsOrder(o) /\ o.move = p.move /\ o.shop = p.shop
        /\ o.stage = st /\ o.rows = f /\ o.asOf = clock
    BY <1>1, <1>16, Restaged DEF Stores!Stages, p
  <2>2. Fits(o, request, clock, trouble)
    BY <1>1, <1>3, <1>5, <1>6, <1>16, <2>1, OrderKinds DEF Fits
  <2>3. \A k \in Lines : Agrees(o, orders'[k]) /\ Agrees(orders'[k], o)
    <3>1. \A k \in Lines \ {l} : orders'[k] = Stores!NoOrder
      BY <1>16, <2>1 DEF StoresInv, LoadIsFirst, Only, p
    <3> QED
      BY <2>1, <3>1, NoOrderIs DEF Agrees
  <2>4. p.stage \in {"sent", "loading", "loaded"}
    BY <1>6, <1>16 DEF Fits
  <2>5. OnPage(o, trouble) /\ \A s \in Shops : ~Brings(p, s)
    BY <1>16, <2>1, <2>4, OrderKinds DEF OnPage, Brings
  <2> QED
    BY <1>1, <1>2, <1>16, <2>1, <2>2, <2>3, <2>4, <2>5, StoresParts, ServerStep DEF p
<1>17. CASE p.move = "load" /\ Stores!Stage(l, "loading", Stores!ListedRows, {}) /\ UNCHANGED <<trouble, effort>>
  BY <1>3, <1>5, <1>16, <1>17
<1>18. CASE p.stage = "loading" /\ Stores!Stage(l, "loaded", p.rows, Stores!Waiting)
            /\ UNCHANGED <<trouble, effort>>
  <2>1. p.move = "load" /\ \A s \in DOMAIN p.rows : p.rows[s].state # "none" /\ s \in Stores!Listed
    BY <1>5, <1>6, <1>18 DEF Fits, Stores!IsReading
  <2> QED
    BY <1>4, <1>6, <1>16, <1>18, <2>1
<1>19. ASSUME p.stage = "list", NEW f \in {Stores!ListedRows, Stores!NoRows},
              Stores!Stage(l, "listed", f, {}),
              IF f = Stores!ListedRows THEN UNCHANGED <<trouble, effort>> ELSE Stores!Cut("failed")
       PROVE  StoresInv'
  BY <1>12, <1>13, <1>19
<1>20. ASSUME p.stage = "pend", NEW w \in {Stores!Waiting, {}},
              Stores!Stage(l, "pended", Stores!NoRows, w),
              IF w = Stores!Waiting THEN UNCHANGED <<trouble, effort>> ELSE Stores!Cut("failed")
       PROVE  StoresInv'
  BY <1>14, <1>15, <1>20
<1> QED
  BY <1>17, <1>18, <1>19, <1>20 DEF Stores!ReadList, p

-------------------------------------------------------------------------------
(* The page: the requests stay as they are.                                 *)
LEMMA Weaker ==
  ASSUME trouble \subseteq trouble'
  PROVE  /\ Clean(trouble') => Clean(trouble) /\ Whole(trouble) /\ Whole(trouble')
         /\ Calm(trouble') => Calm(trouble) /\ Clean(trouble')
         /\ "thrown" \notin trouble' => "thrown" \notin trouble
         /\ "overlap" \notin trouble' => "overlap" \notin trouble
  BY DEF Clean, Calm, Whole

LEMMA QuietLine ==
  ASSUME StoresInv, NEW l \in Lines, Only(l), Stores!IsOrder(orders'[l]),
         UNCHANGED <<request, clock>>,
         trouble \subseteq trouble', orders'[l].stage \in {"sent", "pend", "list"},
         Fits(orders'[l], request, clock, trouble')
  PROVE  /\ orders' = [k \in Lines |-> orders'[k]] /\ \A k \in Lines : Stores!IsOrder(orders'[k])
         /\ Dated(request, clock)' /\ OrdersFit' /\ OrdersAgree'
<1>1. \A k \in Lines : Agrees(orders'[l], orders'[k]) /\ Agrees(orders'[k], orders'[l])
  BY QuietAgrees DEF NoTrouble
<1>2. Grows
  BY Still
<1>3. Fits(orders'[l], request', clock', trouble')
  OBVIOUS
<1>4. /\ orders' = [k \in Lines |-> orders'[k]] /\ \A k \in Lines : Stores!IsOrder(orders'[k])
      /\ Dated(request', clock') /\ OrdersFit' /\ OrdersAgree'
  BY <1>1, <1>2, <1>3, LinesKept
<1> QED
  BY <1>4 DEF Dated

LEMMA NoOrderFits ==
  ASSUME StoresInv, NEW t PROVE Fits(Stores!NoOrder, request, clock, t)
  BY NoOrderIs, OrderKinds, StoresParts DEF Fits

LEMMA OfferedByCard ==
  ASSUME NEW card, card.state \in Stores!AccessStates
  PROVE  Stores!Offered(card) \subseteq Stores!ByCard
<1>1. Stores!NaturalActions(card.state) \subseteq Stores!ByCard
  BY DEF Stores!NaturalActions, Stores!ByCard, Stores!AccessActions,
         Stores!NaturalMoves, Stores!AccessStates
<1>2. {"OVERRIDE", "note", "BLOCK", "REJECT_ADOPTION"} \subseteq Stores!ByCard
  BY DEF Stores!ByCard, Stores!AccessActions, Stores!NaturalMoves
<1> QED
  BY <1>1, <1>2 DEF Stores!Offered

(* A button is pressed: its request is sent.                                 *)
LEMMA PressStep ==
  ASSUME StoresInv, NEW l \in Lines, NEW s \in Shops,
         NEW m \in Stores!ByCard \cup Stores!Refetching,
         Stores!Press(l, Stores!Order(m, s)), m \in Stores!ByCard => s \in DOMAIN cards,
         s \in DOMAIN cards \/ s \in setups,
         trouble \subseteq trouble', trouble' \subseteq trouble \cup {"overlap"},
         pendingId' \in Shops \cup {None}, runningId' \in Shops \cup {None},
         LocksAreHeld', OneMove'
  PROVE  StoresInv'
<1>1. /\ orders[l] = Stores!NoOrder /\ request' = request /\ clock' = clock /\ cards' = cards
      /\ setups' = setups /\ told' = told /\ newest' = newest
      /\ effort' \in [presses : Nat, moves : Nat, cuts : Nat]
  BY EffortSpent DEF Stores!Press, Stores!Free, Stores!lists
<1>2. m \in Stores!Moves /\ m # "none" /\ m # "load"
  BY OrderKinds
<1>3. Only(l) /\ orders'[l] = Stores!Order(m, s)
  BY StoresParts DEF Stores!Press, Only
<1>4. /\ Stores!IsOrder(orders'[l]) /\ orders'[l].move = m /\ orders'[l].shop = s
      /\ orders'[l].stage = "sent" /\ orders'[l].asOf = 0
  BY <1>2, <1>3, OrderIs
<1>5. \A k \in Lines \ {l} : orders'[k] = orders[k]
  BY <1>3 DEF Only
<1>6. Fits(orders'[l], request, clock, trouble')
  BY <1>2, <1>4, StoresParts DEF Fits, StoresInv, CardsAreTracked, Stores!Tracked
<1>7. /\ orders' = [k \in Lines |-> orders'[k]] /\ \A k \in Lines : Stores!IsOrder(orders'[k])
      /\ Dated(request, clock)' /\ OrdersFit' /\ OrdersAgree'
  BY <1>1, <1>3, <1>4, <1>6, QuietLine
<1>8. \A k \in Lines : orders'[k].move # "load" /\ orders[k].move # "load"
  BY <1>2, <1>4, <1>5, <1>1, NoOrderIs DEF StoresInv, LoadIsFirst
<1>9. Stores!TypeOK'
  BY <1>1, <1>7, StoresParts DEF Stores!TypeOK, Stores!IsReading
<1>10. ListsFitPage'
  <2>1. Clean(trouble') => \A k \in Lines : OnPage(orders'[k], trouble')
    BY <1>4, <1>5, Weaker DEF StoresInv, ListsFitPage, OnPage
  <2> QED
    BY <1>1, <2>1 DEF ListsFitPage, OnPage
<1>11. CardsAreTracked' /\ TalkIsTrue'
  BY <1>1 DEF StoresInv, CardsAreTracked, TalkIsTrue, Stores!Tracked
<1>12. MovesHaveCards'
  BY <1>1, <1>4, <1>5, Weaker DEF StoresInv, MovesHaveCards
<1>13. ToldIsShown'
  <2>1. \A q \in Shops : ~Brings(orders[l], q)
    BY <1>1, NoOrderIs, OrderKinds DEF Brings
  <2>2. Clean(trouble') => \A q \in Shops : 0 < told[q] =>
          RowsShown(q) \/ \E k \in Lines : Brings(orders'[k], q)
    BY <1>5, <2>1, Weaker DEF StoresInv, ToldIsShown
  <2>3. \A q \in Shops : RowsShown(q) <=> RowsShown(q)'
    BY <1>1 DEF RowsShown
  <2>4. Clean(trouble') => \A q \in Shops : 0 < told'[q] =>
          RowsShown(q)' \/ \E k \in Lines : Brings(orders'[k], q)
    BY <1>1, <2>2, <2>3
  <2> QED
    BY <1>1, <2>4 DEF ToldIsShown, Brings
<1>14. LoadIsFirst'
  BY <1>8 DEF LoadIsFirst
<1>15. NothingFalls'
  <2>1. Calm(trouble') =>
          /\ \A q \in Shops : q \in setups \/ Stores!Tracked(q)
          /\ \/ \A q \in Shops : q \in setups \/ q \in DOMAIN cards
             \/ \E k \in Lines : orders'[k].stage \in {"list", "listed"}
    BY <1>1, <1>5, <1>8, Weaker, NoOrderIs DEF StoresInv, NothingFalls, Loading
  <2>2. \A q \in Shops : Stores!Tracked(q) <=> Stores!Tracked(q)'
    BY <1>1 DEF Stores!Tracked
  <2> QED
    BY <1>1, <2>1, <2>2 DEF NothingFalls
<1> QED
  BY <1>7, <1>9, <1>10, <1>11, <1>12, <1>13, <1>14, <1>15 DEF StoresInv

LEMMA RunSafe ==
  ASSUME StoresInv, NEW l \in Lines, NEW s \in Shops, NEW m \in Stores!Moves,
         Stores!Run(l, s, m)
  PROVE  StoresInv'
<1>1. s \in DOMAIN cards /\ pendingId # s /\ pendingId' = s /\ runningId' = runningId
  BY DEF Stores!Run, Stores!Busy
<1>2. m \in Stores!ByCard
  BY <1>1, StoresParts, OfferedByCard DEF Stores!Run
<1>3. /\ orders[l] = Stores!NoOrder /\ \A k \in Lines \ {l} : orders'[k] = orders[k]
      /\ orders'[l].move = m /\ orders'[l].shop = s
  BY StoresParts, OrderIs DEF Stores!Run, Stores!Press, Stores!Free
<1>4. trouble \subseteq trouble' /\ trouble' \subseteq trouble \cup {"overlap"}
  BY DEF Stores!Run
<1>5. LocksAreHeld'
  BY <1>1, <1>2, <1>3, <1>4, Weaker, NoOrderIs, OrderKinds DEF StoresInv, LocksAreHeld
<1>6. OneMove'
  <2>1. "overlap" \notin trouble' => \A k \in Lines : orders[k].move \notin Stores!ByCard
    <3> SUFFICES ASSUME "overlap" \notin trouble', NEW k \in Lines,
                        orders[k].move \in Stores!ByCard
                 PROVE  FALSE
      OBVIOUS
    <3>1. "overlap" \notin trouble /\ orders[k].shop = pendingId
      BY <1>4 DEF StoresInv, OneMove
    <3>2. orders[k].shop \in Shops \ {s}
      BY <1>1, <3>1, OrderKinds DEF StoresInv, OrdersFit, Fits
    <3>3. Stores!InFlight(orders[k].shop, Stores!ByCard) # {}
      BY DEF Stores!InFlight
    <3> QED
      BY <3>2, <3>3 DEF Stores!Run
  <2> QED
    BY <1>1, <1>3, <2>1 DEF OneMove
<1>7. Stores!Press(l, Stores!Order(m, s)) /\ pendingId' \in Shops \cup {None}
      /\ runningId' \in Shops \cup {None}
  BY <1>1, StoresParts DEF Stores!Run
<1> QED
  BY <1>1, <1>2, <1>4, <1>5, <1>6, <1>7, PressStep

LEMMA RunSetupSafe ==
  ASSUME StoresInv, NEW l \in Lines, NEW s \in Shops, NEW m \in Stores!Moves,
         Stores!RunSetup(l, s, m)
  PROVE  StoresInv'
<1>1. /\ m \in Stores!Refetching /\ m \notin Stores!ByCard
      /\ Stores!Press(l, Stores!Order(m, s)) /\ runningId' = s
      /\ pendingId' = pendingId /\ trouble' = trouble
      /\ s \in DOMAIN cards \/ s \in setups
  BY OrderKinds DEF Stores!RunSetup
<1>2. /\ orders[l] = Stores!NoOrder /\ \A k \in Lines \ {l} : orders'[k] = orders[k]
      /\ orders'[l].move = m /\ orders'[l].shop = s
  BY <1>1, StoresParts, OrderIs DEF Stores!Press, Stores!Free
<1>3. LocksAreHeld'
  BY <1>1, <1>2, NoOrderIs, OrderKinds DEF StoresInv, LocksAreHeld
<1>4. OneMove'
  BY <1>1, <1>2 DEF StoresInv, OneMove
<1>5. pendingId' \in Shops \cup {None} /\ runningId' \in Shops \cup {None}
  BY <1>1, StoresParts
<1> QED
  BY <1>1, <1>3, <1>4, <1>5, PressStep

(* An answer reaches the page: its line, and the page after its load.        *)
LEMMA Answered ==
  ASSUME StoresInv, NEW l \in Lines, orders[l].move \notin {"none", "load"}
  PROVE  /\ orders[l].move \in Stores!ByCard \cup Stores!Refetching
         /\ orders[l].shop \in Shops
         /\ Stores!IsOrder(orders[l]) /\ Stores!IsReading(orders[l].rows)
         /\ orders[l].asOf \in Nat
         /\ Fits(orders[l], request, clock, trouble)
         /\ \A k \in Lines : orders[k].move # "load"
<1>1. Stores!IsOrder(orders[l]) /\ Fits(orders[l], request, clock, trouble)
  BY StoresParts DEF StoresInv, OrdersFit
<1>2. \A k \in Lines : orders[k].move # "load"
  BY NoOrderIs DEF StoresInv, LoadIsFirst
<1>3. /\ orders[l].move \in Stores!ByCard \cup Stores!Refetching
      /\ Stores!IsReading(orders[l].rows) /\ orders[l].asOf \in Nat
  BY <1>1, OrderParts, OrderKinds
<1>4. orders[l].shop \in Shops
  BY <1>1 DEF Fits
<1> QED
  BY <1>1, <1>2, <1>3, <1>4

LEMMA ShownLater ==
  ASSUME StoresInv, NEW l \in Lines, Stores!Shows(l), clock' = clock
  PROVE  /\ newest' \in 0 .. clock' /\ newest <= newest' /\ orders[l].asOf <= newest'
         /\ trouble \subseteq trouble'
         /\ trouble' \subseteq {"overlap", "failed", "crossed", "missed", "error", "thrown"}
         /\ Clean(trouble') => newest <= orders[l].asOf /\ newest' = orders[l].asOf
<1>1. orders[l].asOf \in Nat /\ orders[l].asOf <= clock /\ clock \in Nat /\ newest \in 0 .. clock
  BY StoresParts, OrderParts DEF StoresInv, OrdersFit, Fits
<1>2. newest' \in 0 .. clock' /\ newest <= newest' /\ orders[l].asOf <= newest'
  BY <1>1 DEF Stores!Shows
<1>3. /\ trouble \subseteq trouble'
      /\ trouble' \subseteq {"overlap", "failed", "crossed", "missed", "error", "thrown"}
  BY StoresParts DEF Stores!Shows
<1>4. Clean(trouble') => ~(orders[l].asOf < newest)
  BY DEF Stores!Shows, Clean
<1> QED
  BY <1>1, <1>2, <1>3, <1>4 DEF Stores!Shows

(* The line that ends, or waits for the next answer, beside the others.      *)
LEMMA PageStep ==
  ASSUME StoresInv, NEW l \in Lines, orders[l].move \notin {"none", "load"},
         Only(l), UNCHANGED <<request, clock>>,
         \/ orders'[l] = Stores!NoOrder
         \/ /\ Stores!IsOrder(orders'[l]) /\ orders'[l].stage \in {"pend", "list"}
            /\ orders'[l].move = orders[l].move /\ orders'[l].shop = orders[l].shop
            /\ orders'[l].asOf = orders[l].asOf
            /\ orders'[l].stage = "pend" => orders[l].move \in Stores!Refetching,
         Stores!IsReading(cards'), setups' \subseteq Shops,
         \A s \in DOMAIN cards' : cards'[s].state \in Stores!AccessStates,
         pendingId' \in {pendingId, None}, runningId' \in {runningId, None},
         told' \in [Shops -> Nat], newest' \in 0 .. clock, trouble \subseteq trouble',
         trouble' \subseteq {"overlap", "failed", "crossed", "missed", "error", "thrown"},
         effort' \in [presses : Nat, moves : Nat, cuts : Nat],
         Clean(trouble') => \A k \in Lines : k # l /\ orders[k].stage = "listed" =>
           /\ \A s \in Shops : 0 < told'[s] /\ told'[s] <= orders[k].asOf =>
                s \in DOMAIN orders[k].rows /\ told'[s] <= orders[k].rows[s].at
           /\ newest' <= orders[k].asOf => DOMAIN cards' \subseteq DOMAIN orders[k].rows
           /\ newest' <= orders[k].asOf /\ Calm(trouble') =>
                \A s \in Shops : s \in setups' \/ s \in DOMAIN orders[k].rows,
         CardsAreTracked', TalkIsTrue', MovesHaveCards', ToldIsShown', NothingFalls',
         LocksAreHeld', OneMove'
  PROVE  StoresInv'
<1>1. Fits(orders[l], request, clock, trouble) /\ \A k \in Lines : orders[k].move # "load"
  BY Answered
<1>2. Stores!IsOrder(orders'[l]) /\ orders'[l].stage \in {"sent", "pend", "list"}
  BY NoOrderIs
<1>3. Fits(orders'[l], request, clock, trouble')
  <2>1. CASE orders'[l] = Stores!NoOrder
    BY <2>1, NoOrderFits
  <2>2. CASE orders'[l] # Stores!NoOrder
    BY <1>1, <2>2 DEF Fits
  <2> QED
    BY <2>1, <2>2
<1>4. /\ orders' = [k \in Lines |-> orders'[k]] /\ \A k \in Lines : Stores!IsOrder(orders'[k])
      /\ Dated(request, clock)' /\ OrdersFit' /\ OrdersAgree'
  BY <1>2, <1>3, QuietLine
<1>5. Stores!TypeOK'
  BY <1>4, StoresParts DEF Stores!TypeOK, Stores!IsReading
<1>6. LoadIsFirst'
  BY <1>1, NoOrderIs DEF LoadIsFirst, Only
<1>7. ListsFitPage'
  <2>1. \A k \in Lines : orders'[k].stage = "listed" => k # l /\ orders'[k] = orders[k]
    BY <1>2 DEF Only
  <2> QED
    BY <2>1 DEF ListsFitPage, OnPage
<1> QED
  BY <1>4, <1>5, <1>6, <1>7 DEF StoresInv

(* What the page is held to stays with the locks of the lines that go on.     *)
LEMMA LocksOfAll ==
  ASSUME StoresInv, NEW l \in Lines, Only(l), trouble \subseteq trouble',
         orders'[l].move = orders[l].move, orders'[l].shop = orders[l].shop,
         UNCHANGED <<pendingId, runningId>>
  PROVE  LocksAreHeld' /\ OneMove'
<1>1. \A k \in Lines : orders'[k].move = orders[k].move /\ orders'[k].shop = orders[k].shop
  BY DEF Only
<1> QED
  BY <1>1, Weaker DEF StoresInv, LocksAreHeld, OneMove

LEMMA LocksOfOthers ==
  ASSUME StoresInv, NEW l \in Lines, Only(l), trouble \subseteq trouble',
         orders'[l] = Stores!NoOrder,
         \/ "thrown" \in trouble' /\ UNCHANGED <<pendingId, runningId>>
         \/ orders[l].move \in Stores!ByCard /\ pendingId' = None /\ runningId' = runningId
         \/ orders[l].move \in Stores!Refetching /\ runningId' = None /\ pendingId' = pendingId
  PROVE  LocksAreHeld' /\ OneMove'
<1>1. \A k \in Lines \ {l} : orders'[k] = orders[k]
  BY DEF Only
<1>2. orders'[l].move \notin Stores!ByCard \cup Stores!Refetching
  BY NoOrderIs, OrderKinds
<1>3. LocksAreHeld'
  BY <1>1, <1>2, Weaker, OrderKinds DEF StoresInv, LocksAreHeld
<1>4. OneMove'
  <2>1. "overlap" \notin trouble' => \A j, k \in Lines :
          orders[j].move \in Stores!ByCard /\ orders[k].move \in Stores!ByCard =>
            k = j /\ pendingId = orders[j].shop
    BY Weaker DEF StoresInv, OneMove
  <2>2. orders[l].move \in Stores!ByCard \/ pendingId' = pendingId
    OBVIOUS
  <2> QED
    BY <1>1, <1>2, <2>1, <2>2 DEF OneMove
<1> QED
  BY <1>3, <1>4

LEMMA Covered ==
  ASSUME StoresInv, NEW l \in Lines, Only(l), UNCHANGED <<request, cards, setups>>,
         trouble \subseteq trouble', \A k \in Lines : orders[k].move # "load",
         orders[l].stage \in {"list", "listed"} => ~Calm(trouble') \/ orders'[l].stage = "list"
  PROVE  NothingFalls'
<1>1. \A k \in Lines \ {l} : orders'[k] = orders[k]
  BY DEF Only
<1>2. Calm(trouble') =>
        /\ \A s \in Shops : s \in setups \/ Stores!Tracked(s)
        /\ \/ \A s \in Shops : s \in setups \/ s \in DOMAIN cards
           \/ \E k \in Lines : orders'[k].stage \in {"list", "listed"}
  BY <1>1, Weaker DEF StoresInv, NothingFalls, Loading
<1>3. \A s \in Shops : Stores!Tracked(s) <=> Stores!Tracked(s)'
  BY DEF Stores!Tracked
<1> QED
  BY <1>2, <1>3 DEF NothingFalls

(* The answer to a move or a setup: what it tells of its store.              *)
LEMMA ToldNow ==
  ASSUME StoresInv, NEW l \in Lines, orders[l].move \notin {"none", "load"},
         orders[l].stage \in {"ok", "refused"}, Stores!Tells(l), UNCHANGED <<request, clock>>
  PROVE  /\ told' \in [Shops -> Nat] /\ TalkIsTrue'
         /\ told'[orders[l].shop] = orders[l].rows[orders[l].shop].at
         /\ told'[orders[l].shop] <= orders[l].asOf
         /\ \A s \in Shops : s # orders[l].shop => told'[s] = told[s]
         /\ Clean(trouble) => \A k \in Lines : orders[k].stage = "listed" =>
              \A s \in Shops : 0 < told'[s] /\ told'[s] <= orders[k].asOf =>
                s \in DOMAIN orders[k].rows /\ told'[s] <= orders[k].rows[s].at
<1> DEFINE q == orders[l].shop
           n == orders[l].rows[q].at
<1>1. /\ q \in Shops /\ Stores!IsReading(orders[l].rows) /\ DOMAIN orders[l].rows = {q}
      /\ n <= request[q].at /\ n <= orders[l].asOf
  BY Answered DEF Fits
<1>2. n \in Nat
  BY <1>1 DEF Stores!IsReading, Stores!RequestRows
<1>3. told' = [told EXCEPT ![q] = n]
  BY DEF Stores!Tells
<1> HIDE DEF n
<1>4. /\ told' \in [Shops -> Nat] /\ told'[q] = n
      /\ \A s \in Shops : s # q => told'[s] = told[s]
  BY <1>1, <1>2, <1>3, StoresParts
<1>5. TalkIsTrue'
  BY <1>1, <1>4 DEF StoresInv, TalkIsTrue
<1>6. Clean(trouble) => \A k \in Lines : orders[k].stage = "listed" =>
        \A s \in Shops : 0 < told'[s] /\ told'[s] <= orders[k].asOf =>
          s \in DOMAIN orders[k].rows /\ told'[s] <= orders[k].rows[s].at
  <2> SUFFICES ASSUME Clean(trouble), NEW k \in Lines, orders[k].stage = "listed",
                      NEW s \in Shops, 0 < told'[s], told'[s] <= orders[k].asOf
               PROVE  s \in DOMAIN orders[k].rows /\ told'[s] <= orders[k].rows[s].at
    OBVIOUS
  <2>1. OnPage(orders[k], trouble) /\ Agrees(orders[l], orders[k])
    BY DEF StoresInv, ListsFitPage, OrdersAgree, Clean, Whole
  <2>2. CASE s = q
    BY <1>4, <2>1, <2>2 DEF Agrees, n
  <2>3. CASE s # q
    BY <1>4, <2>1, <2>3 DEF OnPage
  <2> QED
    BY <2>2, <2>3
<1> QED
  BY <1>1, <1>4, <1>5, <1>6 DEF n

LEMMA ShowMoveSafe ==
  ASSUME StoresInv, NEW l \in Lines, Stores!ShowMove(l)
  PROVE  StoresInv'
<1> DEFINE q == orders[l].shop
<1>1. /\ orders[l].move \in Stores!ByCard /\ orders[l].stage \in {"ok", "refused"}
      /\ Stores!Tells(l)
      /\ orders[l].move \notin {"none", "load"}
      /\ request' = request /\ clock' = clock /\ setups' = setups
      /\ runningId' = runningId /\ effort' = effort
  BY OrderKinds DEF Stores!ShowMove
<1>2. /\ q \in Shops /\ Stores!IsReading(orders[l].rows) /\ orders[l].asOf \in Nat
      /\ Fits(orders[l], request, clock, trouble) /\ \A k \in Lines : orders[k].move # "load"
  BY <1>1, Answered
<1>3. /\ told' \in [Shops -> Nat] /\ TalkIsTrue'
      /\ told'[q] = orders[l].rows[q].at /\ told'[q] <= orders[l].asOf
      /\ \A s \in Shops : s # q => told'[s] = told[s]
      /\ Clean(trouble) => \A k \in Lines : orders[k].stage = "listed" =>
           \A s \in Shops : 0 < told'[s] /\ told'[s] <= orders[k].asOf =>
             s \in DOMAIN orders[k].rows /\ told'[s] <= orders[k].rows[s].at
  BY <1>1, ToldNow
<1>4. Clean(trouble) => \A k \in Lines : orders[k].stage = "listed" => OnPage(orders[k], trouble)
  BY DEF StoresInv, ListsFitPage
<1>5. Clean(trouble) => q \in DOMAIN cards
  BY <1>1 DEF StoresInv, MovesHaveCards
<1>6. Clean(trouble) => \A s \in Shops : 0 < told[s] =>
        RowsShown(s) \/ \E k \in Lines \ {l} : Brings(orders[k], s)
  BY <1>1 DEF StoresInv, ToldIsShown, Brings
<1>7. ASSUME orders[l].stage = "ok", cards' = Stores!Upserted(orders[l]), Stores!End(l),
             Stores!Unlock, Stores!Shows(l)
      PROVE  StoresInv'
  <2>1. Only(l) /\ orders'[l] = Stores!NoOrder
    BY <1>7, Ended
  <2>2. /\ newest' \in 0 .. clock /\ newest <= newest' /\ orders[l].asOf <= newest'
        /\ trouble \subseteq trouble'
        /\ trouble' \subseteq {"overlap", "failed", "crossed", "missed", "error", "thrown"}
    BY <1>1, <1>7, ShownLater
  <2>3. /\ DOMAIN cards' = DOMAIN cards
        /\ \A s \in DOMAIN cards : cards'[s] = IF s = q THEN orders[l].rows[s] ELSE cards[s]
        /\ cards' = [s \in DOMAIN cards |-> cards'[s]]
    BY <1>7 DEF Stores!Upserted
  <2>4. orders[l].rows[q] \in Stores!RequestRows /\ orders[l].rows[q].state \in Stores!AccessStates
    <3>1. DOMAIN orders[l].rows = {q} /\ orders[l].rows[q].state # "none"
      BY <1>1, <1>2 DEF Fits
    <3> QED
      BY <1>2, <3>1 DEF Stores!IsReading, Stores!RequestRows
  <2>5. Stores!IsReading(cards') /\ \A s \in DOMAIN cards' : cards'[s].state \in Stores!AccessStates
    BY <2>3, <2>4, StoresParts DEF Stores!IsReading
  <2>6. /\ newest' \in Nat /\ newest \in Nat
        /\ \A k \in Lines : orders[k].asOf \in Nat
        /\ \A s \in Shops : told[s] \in Nat
    BY <2>2, StoresParts, OrderParts
  <2>7. Clean(trouble') => \A k \in Lines : k # l /\ orders[k].stage = "listed" =>
          /\ \A s \in Shops : 0 < told'[s] /\ told'[s] <= orders[k].asOf =>
               s \in DOMAIN orders[k].rows /\ told'[s] <= orders[k].rows[s].at
          /\ newest' <= orders[k].asOf => DOMAIN cards' \subseteq DOMAIN orders[k].rows
          /\ newest' <= orders[k].asOf /\ Calm(trouble') =>
               \A s \in Shops : s \in setups' \/ s \in DOMAIN orders[k].rows
    BY <1>1, <1>3, <1>4, <2>2, <2>3, <2>6, Weaker DEF OnPage
  <2>8. CardsAreTracked'
    BY <1>1, <2>3 DEF StoresInv, CardsAreTracked, Stores!Tracked
  <2>9. MovesHaveCards'
    BY <2>1, <2>2, <2>3, Weaker, NoOrderIs, OrderKinds
    DEF StoresInv, MovesHaveCards, Only
  <2>10. ToldIsShown'
    <3> SUFFICES ASSUME Clean(trouble'), NEW s \in Shops, 0 < told'[s]
                 PROVE  /\ RowsShown(s)' \/ \E k \in Lines : Brings(orders[k], s)' /\ k # l
      BY <2>1 DEF ToldIsShown, Only, Brings
    <3>1. CASE s = q
      BY <1>2, <1>3, <1>5, <2>2, <2>3, <2>6, <3>1, Weaker DEF RowsShown
    <3>2. CASE s # q
      <4>1. told'[s] = told[s]
        BY <1>3, <3>2
      <4>2. CASE RowsShown(s)
        BY <2>2, <2>3, <2>6, <3>2, <4>1, <4>2 DEF RowsShown
      <4>3. CASE \E k \in Lines \ {l} : Brings(orders[k], s)
        BY <2>1, <4>1, <4>3 DEF Brings, Only
      <4> QED
        BY <1>6, <2>2, <4>1, <4>2, <4>3, Weaker
    <3> QED
      BY <3>1, <3>2
  <2>11. NothingFalls'
    <3>1. Calm(trouble') =>
            /\ \A s \in Shops : s \in setups \/ Stores!Tracked(s)
            /\ \/ \A s \in Shops : s \in setups \/ s \in DOMAIN cards
               \/ \E k \in Lines : orders'[k].stage \in {"list", "listed"}
      BY <1>1, <1>2, <2>1, <2>2, Weaker DEF StoresInv, NothingFalls, Loading, Only
    <3> QED
      BY <1>1, <2>3, <3>1 DEF NothingFalls, Stores!Tracked
  <2>12. LocksAreHeld' /\ OneMove' /\ pendingId' = None
    BY <1>1, <1>7, <2>1, <2>2, LocksOfOthers DEF Stores!Unlock
  <2>13. setups' \subseteq Shops /\ effort' \in [presses : Nat, moves : Nat, cuts : Nat]
    BY <1>1, StoresParts
  <2> QED
    BY <1>1, <1>3, <2>1, <2>2, <2>5, <2>7, <2>8, <2>9, <2>10, <2>11, <2>12, <2>13,
       PageStep
<1>8. ASSUME Stores!Resync(l), UNCHANGED <<cards, newest, trouble>>, orders[l].stage # "ok"
      PROVE  StoresInv'
  <2>1. /\ Only(l) /\ Stores!IsOrder(orders'[l]) /\ orders'[l].stage = "list"
        /\ orders'[l].move = orders[l].move /\ orders'[l].shop = orders[l].shop
        /\ orders'[l].asOf = orders[l].asOf /\ pendingId' = pendingId
    BY <1>8, Awaited DEF Stores!Resync, Stores!Stages
  <2>2. /\ cards' = cards /\ newest' = newest /\ trouble' = trouble
    BY <1>8
  <2>3. Clean(trouble') => \A k \in Lines : k # l /\ orders[k].stage = "listed" =>
          /\ \A s \in Shops : 0 < told'[s] /\ told'[s] <= orders[k].asOf =>
               s \in DOMAIN orders[k].rows /\ told'[s] <= orders[k].rows[s].at
          /\ newest' <= orders[k].asOf => DOMAIN cards' \subseteq DOMAIN orders[k].rows
          /\ newest' <= orders[k].asOf /\ Calm(trouble') =>
               \A s \in Shops : s \in setups' \/ s \in DOMAIN orders[k].rows
    BY <1>1, <1>3, <1>4, <2>2 DEF OnPage
  <2>4. CardsAreTracked'
    BY <1>1, <2>2 DEF StoresInv, CardsAreTracked, Stores!Tracked
  <2>5. MovesHaveCards'
    BY <2>1, <2>2 DEF StoresInv, MovesHaveCards, Only
  <2>6. ToldIsShown'
    BY <2>1 DEF ToldIsShown, Brings
  <2>7. NothingFalls'
    BY <1>1, <1>2, <2>1, <2>2, Covered
  <2>8. LocksAreHeld' /\ OneMove'
    BY <1>1, <2>1, <2>2, LocksOfAll
  <2> QED
    BY <1>1, <1>3, <2>1, <2>2, <2>3, <2>4, <2>5, <2>6, <2>7, <2>8, StoresParts, PageStep
<1> QED
  BY <1>7, <1>8 DEF Stores!ShowMove

LEMMA ShowSetupSafe ==
  ASSUME StoresInv, NEW l \in Lines, Stores!ShowSetup(l)
  PROVE  StoresInv'
<1>1. /\ orders[l].move \in Stores!Refetching /\ orders[l].stage \in {"ok", "refused"}
      /\ Stores!Tells(l)
      /\ orders[l].move \notin {"none", "load"} /\ orders[l].move \notin Stores!ByCard
      /\ UNCHANGED <<request, clock, cards, setups, pendingId, runningId, newest, trouble, effort>>
      /\ Stores!Await(l, "pend")
  BY OrderKinds DEF Stores!ShowSetup, Stores!NextList, Stores!lists, Stores!locks
<1>2. \A k \in Lines : orders[k].move # "load"
  BY <1>1, Answered
<1>3. /\ Only(l) /\ Stores!IsOrder(orders'[l]) /\ orders'[l].stage = "pend"
      /\ orders'[l].move = orders[l].move /\ orders'[l].shop = orders[l].shop
      /\ orders'[l].asOf = orders[l].asOf
  BY <1>1, Awaited DEF Stores!Stages
<1>4. /\ told' \in [Shops -> Nat] /\ TalkIsTrue'
      /\ Clean(trouble) => \A k \in Lines : orders[k].stage = "listed" =>
           \A s \in Shops : 0 < told'[s] /\ told'[s] <= orders[k].asOf =>
             s \in DOMAIN orders[k].rows /\ told'[s] <= orders[k].rows[s].at
  BY <1>1, ToldNow
<1>5. Clean(trouble') => \A k \in Lines : k # l /\ orders[k].stage = "listed" =>
        /\ \A s \in Shops : 0 < told'[s] /\ told'[s] <= orders[k].asOf =>
             s \in DOMAIN orders[k].rows /\ told'[s] <= orders[k].rows[s].at
        /\ newest' <= orders[k].asOf => DOMAIN cards' \subseteq DOMAIN orders[k].rows
        /\ newest' <= orders[k].asOf /\ Calm(trouble') =>
             \A s \in Shops : s \in setups' \/ s \in DOMAIN orders[k].rows
  BY <1>1, <1>4 DEF StoresInv, ListsFitPage, OnPage
<1>6. CardsAreTracked'
  BY <1>1 DEF StoresInv, CardsAreTracked, Stores!Tracked
<1>7. MovesHaveCards'
  BY <1>1, <1>3 DEF StoresInv, MovesHaveCards, Only
<1>8. ToldIsShown'
  BY <1>1, <1>3 DEF ToldIsShown, Brings
<1>9. NothingFalls'
  BY <1>1, <1>2, <1>3, Covered
<1>10. LocksAreHeld' /\ OneMove'
  BY <1>1, <1>3, LocksOfAll
<1> QED
  BY <1>1, <1>3, <1>4, <1>5, <1>6, <1>7, <1>8, <1>9, <1>10, StoresParts, PageStep

LEMMA ShowListSafe ==
  ASSUME StoresInv, NEW l \in Lines, Stores!ShowList(l)
  PROVE  StoresInv'
<1> DEFINE o == orders[l]
<1>1. /\ o.stage \in {"pended", "listed"} /\ o.move \notin {"none", "load"}
      /\ request' = request /\ clock' = clock /\ told' = told /\ effort' = effort
      /\ Stores!Shows(l)
  BY NoOrderIs DEF Stores!ShowList, StoresInv, OrdersFit, Fits
<1>2. /\ o.move \in Stores!ByCard \cup Stores!Refetching /\ Stores!IsOrder(o)
      /\ Stores!IsReading(o.rows)
      /\ Fits(o, request, clock, trouble) /\ \A k \in Lines : orders[k].move # "load"
  BY <1>1, Answered
<1>3. /\ newest' \in 0 .. clock /\ newest <= newest' /\ o.asOf <= newest'
      /\ trouble \subseteq trouble'
      /\ trouble' \subseteq {"overlap", "failed", "crossed", "missed", "error", "thrown"}
      /\ Clean(trouble') => newest <= o.asOf /\ newest' = o.asOf
  BY <1>1, ShownLater
<1>4. /\ newest' \in Nat /\ newest \in Nat
      /\ \A k \in Lines : orders[k].asOf \in Nat
      /\ \A s \in Shops : told[s] \in Nat
  BY <1>3, StoresParts, OrderParts
<1>5. Clean(trouble') => \A k \in Lines : OnPage(orders[k], trouble) /\ Agrees(o, orders[k])
  BY <1>3, Weaker DEF StoresInv, ListsFitPage, OrdersAgree
<1>6. TalkIsTrue' /\ told' \in [Shops -> Nat]
      /\ effort' \in [presses : Nat, moves : Nat, cuts : Nat]
  BY <1>1, StoresParts DEF StoresInv, TalkIsTrue
<1>7. ASSUME o.stage = "listed", cards' = o.rows, setups' = setups, Stores!End(l),
             \/ o.move \in Stores!Refetching /\ runningId' = None /\ pendingId' = pendingId
             \/ o.move \notin Stores!Refetching /\ pendingId' = None /\ runningId' = runningId
      PROVE  StoresInv'
  <2>1. Only(l) /\ orders'[l] = Stores!NoOrder
    BY <1>7, Ended
  <2>2. /\ \A s \in DOMAIN o.rows : /\ s \in Shops /\ o.rows[s] \in Stores!RequestRows
                                   /\ o.rows[s].state # "none" /\ request[s].state # "none"
    BY <1>2, <1>7 DEF Fits, Stores!IsReading
  <2>3. Stores!IsReading(cards') /\ \A s \in DOMAIN cards' : cards'[s].state \in Stores!AccessStates
    BY <1>2, <1>7, <2>2 DEF Stores!RequestRows
  <2>4. Clean(trouble') => \A k \in Lines : k # l /\ orders[k].stage = "listed" =>
          /\ \A s \in Shops : 0 < told'[s] /\ told'[s] <= orders[k].asOf =>
               s \in DOMAIN orders[k].rows /\ told'[s] <= orders[k].rows[s].at
          /\ newest' <= orders[k].asOf => DOMAIN cards' \subseteq DOMAIN orders[k].rows
          /\ newest' <= orders[k].asOf /\ Calm(trouble') =>
               \A s \in Shops : s \in setups' \/ s \in DOMAIN orders[k].rows
    BY <1>1, <1>3, <1>4, <1>5, <1>7, Weaker DEF OnPage, Agrees
  <2>5. CardsAreTracked'
    BY <1>1, <1>7, <2>2 DEF CardsAreTracked, Stores!Tracked
  <2>6. Clean(trouble') => DOMAIN cards \subseteq DOMAIN cards'
    BY <1>3, <1>5, <1>7 DEF OnPage
  <2>7. MovesHaveCards'
    BY <1>3, <2>1, <2>6, Weaker, NoOrderIs, OrderKinds
    DEF StoresInv, MovesHaveCards, Only
  <2>8. ToldIsShown'
    <3> SUFFICES ASSUME Clean(trouble'), NEW s \in Shops, 0 < told[s]
                 PROVE  RowsShown(s)' \/ \E k \in Lines : Brings(orders[k], s) /\ k # l
      BY <1>1, <2>1 DEF ToldIsShown, Only, Brings
    <3>1. RowsShown(s) \/ \E k \in Lines : Brings(orders[k], s)
      BY <1>3, Weaker DEF StoresInv, ToldIsShown
    <3>2. CASE told[s] <= o.asOf
      BY <1>1, <1>3, <1>4, <1>5, <1>7, <3>2 DEF OnPage, RowsShown
    <3>3. CASE ~(told[s] <= o.asOf)
      <4>1. ~RowsShown(s)
        BY <1>3, <1>4, <3>3 DEF RowsShown
      <4>2. ~Brings(o, s)
        BY <1>7, <3>3 DEF Brings
      <4> QED
        BY <3>1, <4>1, <4>2
    <3> QED
      BY <3>2, <3>3
  <2>9. NothingFalls'
    <3>1. Calm(trouble') =>
            /\ \A s \in Shops : s \in setups \/ Stores!Tracked(s)
            /\ \A s \in Shops : s \in setups \/ s \in DOMAIN o.rows
      <4>1. Calm(trouble') => OnPage(orders[l], trouble) /\ newest <= o.asOf /\ Calm(trouble)
        BY <1>3, <1>5, Weaker
      <4>2. Calm(trouble') => \A s \in Shops : s \in setups \/ s \in DOMAIN o.rows
        BY <1>7, <4>1 DEF OnPage
      <4> QED
        BY <1>2, <1>3, <4>2, Weaker DEF StoresInv, NothingFalls, Loading
    <3> QED
      BY <1>1, <1>7, <3>1 DEF NothingFalls, Stores!Tracked
  <2>10. LocksAreHeld' /\ OneMove'
    BY <1>2, <1>3, <1>7, <2>1, LocksOfOthers
  <2>11. /\ setups' \subseteq Shops /\ pendingId' \in {pendingId, None}
         /\ runningId' \in {runningId, None}
    BY <1>7, StoresParts
  <2> QED
    BY <1>1, <1>3, <1>6, <2>1, <2>3, <2>4, <2>5, <2>7, <2>8, <2>9, <2>10, <2>11,
       PageStep
<1>8. ASSUME o.stage = "pended", setups' = o.waiting, cards' = cards,
             o.move \in Stores!Refetching,
             Stores!Await(l, "list"), UNCHANGED <<pendingId, runningId>>
      PROVE  StoresInv'
  <2>1. /\ Only(l) /\ Stores!IsOrder(orders'[l]) /\ orders'[l].stage = "list"
        /\ orders'[l].move = orders[l].move /\ orders'[l].shop = orders[l].shop
        /\ orders'[l].asOf = orders[l].asOf
    BY <1>8, Awaited DEF Stores!Stages
  <2>2. setups' \subseteq Shops
    BY <1>2, <1>8, OrderParts
  <2>3. Clean(trouble') => \A k \in Lines : k # l /\ orders[k].stage = "listed" =>
          /\ \A s \in Shops : 0 < told'[s] /\ told'[s] <= orders[k].asOf =>
               s \in DOMAIN orders[k].rows /\ told'[s] <= orders[k].rows[s].at
          /\ newest' <= orders[k].asOf => DOMAIN cards' \subseteq DOMAIN orders[k].rows
          /\ newest' <= orders[k].asOf /\ Calm(trouble') =>
               \A s \in Shops : s \in setups' \/ s \in DOMAIN orders[k].rows
    BY <1>1, <1>3, <1>4, <1>5, <1>8 DEF OnPage, Agrees
  <2>4. CardsAreTracked'
    BY <1>1, <1>8 DEF StoresInv, CardsAreTracked, Stores!Tracked
  <2>5. MovesHaveCards'
    BY <1>3, <1>8, <2>1, Weaker DEF StoresInv, MovesHaveCards, Only
  <2>6. ToldIsShown'
    BY <2>1 DEF ToldIsShown, Brings
  <2>7. NothingFalls'
    <3>1. Calm(trouble') => \A s \in Shops : s \in o.waiting \/ Stores!Tracked(s)
      BY <1>2, <1>3, <1>8, Weaker DEF Fits, Stores!Tracked
    <3> QED
      BY <1>1, <1>8, <2>1, <3>1 DEF NothingFalls, Stores!Tracked
  <2>8. LocksAreHeld' /\ OneMove'
    BY <1>3, <1>8, <2>1, LocksOfAll
  <2>9. Stores!IsReading(cards') /\ \A s \in DOMAIN cards' : cards'[s].state \in Stores!AccessStates
    BY <1>8, StoresParts
  <2> QED
    BY <1>1, <1>3, <1>6, <1>8, <2>1, <2>2, <2>3, <2>4, <2>5, <2>6, <2>7, <2>8, <2>9,
       PageStep
<1>9. Stores!NextList("listed") = "end" /\ Stores!NextList("pended") = "list"
  BY DEF Stores!NextList
<1>10. CASE o.stage = "listed"
  BY <1>7, <1>9, <1>10 DEF Stores!ShowList, Stores!Unlock
<1>11. CASE o.stage = "pended"
  <2>1. o.move \in Stores!Refetching
    BY <1>2, <1>11 DEF Fits
  <2> QED
    BY <1>8, <1>9, <1>11, <2>1 DEF Stores!ShowList, Stores!locks
<1> QED
  BY <1>1, <1>10, <1>11

(* The load: nothing else is under way, so both lists appear at once.        *)
LEMMA ShowPageSafe ==
  ASSUME StoresInv, NEW l \in Lines, Stores!ShowPage(l)
  PROVE  StoresInv'
<1> DEFINE o == orders[l]
<1>1. /\ o.stage = "loaded" /\ cards' = o.rows /\ setups' = o.waiting /\ newest' = o.asOf
      /\ request' = request /\ clock' = clock /\ told' = told /\ effort' = effort
      /\ pendingId' = pendingId /\ runningId' = runningId /\ Stores!End(l)
  BY DEF Stores!ShowPage, Stores!locks
<1>2. /\ Fits(o, request, clock, trouble) /\ Stores!IsOrder(o) /\ Stores!IsReading(o.rows)
      /\ o.waiting \subseteq Shops /\ o.asOf \in 0 .. clock
  BY StoresParts, OrderParts DEF StoresInv, OrdersFit, Fits
<1>3. /\ o.move = "load" /\ \A k \in Lines \ {l} : orders[k] = Stores!NoOrder
      /\ \A s \in Shops : told[s] = 0
  BY <1>1, <1>2 DEF Fits, StoresInv, LoadIsFirst
<1>4. Only(l) /\ \A k \in Lines : orders'[k] = Stores!NoOrder
  BY <1>1, <1>3, Ended DEF Only
<1>5. /\ trouble \subseteq trouble'
      /\ trouble' \subseteq {"overlap", "failed", "crossed", "missed", "error", "thrown"}
      /\ Calm(trouble') => setups' \cup DOMAIN cards' = Shops
  BY StoresParts DEF Stores!ShowPage, Calm
<1>6. /\ \A s \in DOMAIN o.rows : /\ s \in Shops /\ o.rows[s] \in Stores!RequestRows
                                 /\ o.rows[s].state # "none" /\ request[s].state # "none"
  BY <1>1, <1>2 DEF Fits, Stores!IsReading
<1>7. orders'[l] = Stores!NoOrder /\ Stores!IsOrder(orders'[l]) /\ orders'[l].stage = "sent"
      /\ Fits(orders'[l], request, clock, trouble')
  BY <1>4, NoOrderIs, NoOrderFits
<1>8. /\ orders' = [k \in Lines |-> orders'[k]] /\ \A k \in Lines : Stores!IsOrder(orders'[k])
      /\ Dated(request, clock)' /\ OrdersFit' /\ OrdersAgree'
  BY <1>1, <1>4, <1>5, <1>7, QuietLine
<1>9. \A s \in DOMAIN cards' : cards'[s].state \in Stores!AccessStates
  BY <1>1, <1>6 DEF Stores!RequestRows
<1>10. Stores!TypeOK'
  BY <1>1, <1>2, <1>5, <1>8, <1>9, StoresParts DEF Stores!TypeOK, Stores!IsReading
<1>11. ListsFitPage' /\ MovesHaveCards' /\ LoadIsFirst'
  BY <1>4, NoOrderIs, OrderKinds DEF ListsFitPage, OnPage, MovesHaveCards, LoadIsFirst
<1>12. CardsAreTracked' /\ TalkIsTrue' /\ ToldIsShown'
  BY <1>1, <1>3, <1>6
  DEF StoresInv, CardsAreTracked, Stores!Tracked, TalkIsTrue, ToldIsShown
<1>13. NothingFalls'
  <2>1. Calm(trouble') => /\ \A s \in Shops : s \in setups' \/ s \in DOMAIN cards'
                         /\ \A s \in DOMAIN cards' : request'[s].state # "none"
    BY <1>1, <1>5, <1>6
  <2> QED
    BY <2>1 DEF NothingFalls, Stores!Tracked
<1>14. LocksAreHeld' /\ OneMove'
  BY <1>1, <1>3, <1>4, <1>5, Weaker, NoOrderIs, OrderKinds
  DEF StoresInv, LocksAreHeld, OneMove
<1> QED
  BY <1>8, <1>10, <1>11, <1>12, <1>13, <1>14 DEF StoresInv

LEMMA ThrowSafe ==
  ASSUME StoresInv, NEW l \in Lines, Stores!Throw(l)
  PROVE  StoresInv'
<1>1. /\ orders[l].move \notin {"none", "load"} /\ Stores!End(l)
      /\ UNCHANGED <<request, clock, cards, setups, pendingId, runningId, told, newest>>
      /\ trouble' = trouble \cup {"thrown"} /\ ~Clean(trouble') /\ ~Calm(trouble')
      /\ effort' \in [presses : Nat, moves : Nat, cuts : Nat]
  BY EffortSpent DEF Stores!Throw, Stores!Cut, Stores!lists, Stores!locks, Clean, Calm
<1>2. Only(l) /\ orders'[l] = Stores!NoOrder
  BY <1>1, Ended
<1>3. CardsAreTracked' /\ TalkIsTrue'
  BY <1>1 DEF StoresInv, CardsAreTracked, Stores!Tracked, TalkIsTrue
<1>4. MovesHaveCards' /\ ToldIsShown' /\ NothingFalls'
  BY <1>1 DEF MovesHaveCards, ToldIsShown, NothingFalls
<1>5. LocksAreHeld' /\ OneMove'
  BY <1>1, <1>2, LocksOfOthers
<1>6. /\ trouble \subseteq trouble'
      /\ trouble' \subseteq {"overlap", "failed", "crossed", "missed", "error", "thrown"}
  BY <1>1, StoresParts
<1> QED
  BY <1>1, <1>2, <1>3, <1>4, <1>5, <1>6, StoresParts, PageStep
-------------------------------------------------------------------------------
(* The proof.                                                              *)
LEMMA StoresInit ==
  ASSUME Stores!StoresAssumption, Stores!Init
  PROVE  StoresInv
<1>1. /\ clock = 0 /\ cards = Stores!NoRows /\ setups = {} /\ pendingId = None
      /\ runningId = None /\ newest = 0 /\ trouble = {} /\ effort \in Efforts
      /\ told = [s \in Shops |-> 0]
      /\ orders = [l \in Lines |-> IF l = 1 THEN Stores!Order("load", None) ELSE Stores!NoOrder]
  BY DEF Stores!Init
<1>2. /\ \A l \in Lines : Stores!IsOrder(orders[l]) /\ orders[l].stage = "sent"
                         /\ orders[l].asOf = 0 /\ orders[l].move \in {"none", "load"}
      /\ \A l \in Lines : orders[l].move = "none" => orders[l] = Stores!NoOrder
      /\ \A l \in Lines : orders[l].move = "load" =>
           \A k \in Lines \ {l} : orders[k] = Stores!NoOrder
  BY <1>1, NoOrderIs, OrderIs, OrderKinds
<1>3. /\ request \in [Shops -> Stores!RequestRows]
      /\ \A s \in Shops : request[s].at = 0
  <2>1. Stores!NoRequest \in Stores!RequestRows /\ Stores!NoRequest.at = 0
    BY DEF Stores!NoRequest, Stores!RequestRows
  <2>2. /\ [Stores!NoRequest EXCEPT !.state = "not_requested"] \in Stores!RequestRows
        /\ [Stores!NoRequest EXCEPT !.state = "not_requested"].at = 0
    BY StatesExist DEF Stores!NoRequest, Stores!RequestRows
  <2> QED
    BY <2>1, <2>2 DEF Stores!Init
<1>4. Dated(request, clock) /\ TalkIsTrue
  BY <1>1, <1>3 DEF Dated, TalkIsTrue
<1>5. OrdersFit /\ OrdersAgree /\ ListsFitPage /\ MovesHaveCards /\ OneMove
  BY <1>1, <1>2, OrderKinds
  DEF OrdersFit, Fits, OrdersAgree, Agrees, ListsFitPage, OnPage, MovesHaveCards,
      OneMove
<1>6. CardsAreTracked /\ ToldIsShown /\ LoadIsFirst /\ LocksAreHeld
  BY <1>1, <1>2, NoRowsReads DEF CardsAreTracked, ToldIsShown, LoadIsFirst, LocksAreHeld
<1>7. Loading
  BY <1>1, OrderKinds, OrderIs DEF Loading, Stores!StoresAssumption
<1>8. Stores!TypeOK
  BY <1>1, <1>2, <1>3, NoRowsReads DEF Stores!TypeOK, Stores!StoresAssumption
<1> QED
  BY <1>4, <1>5, <1>6, <1>7, <1>8 DEF StoresInv, NothingFalls

LEMMA StepInv ==
  ASSUME Stores!StoresAssumption, StoresInv, [Stores!Next]_Stores!storeVars
  PROVE  StoresInv'
<1>1. ASSUME NEW s \in Shops, Stores!OtherMoves(s) PROVE StoresInv'
  BY <1>1, OtherMovesSafe
<1>2. ASSUME NEW l \in Lines, NEW s \in Shops, NEW m \in Stores!Moves,
             Stores!Run(l, s, m) \/ Stores!RunSetup(l, s, m)
      PROVE  StoresInv'
  BY <1>2, RunSafe, RunSetupSafe
<1>3. ASSUME NEW l \in Lines, Stores!Serve(l) \/ Stores!Refuse(l) \/ Stores!ReadList(l)
      PROVE  StoresInv'
  BY <1>3, ServeSafe, RefuseSafe, ReadListSafe
<1>4. ASSUME NEW l \in Lines,
             Stores!ShowMove(l) \/ Stores!ShowSetup(l) \/ Stores!ShowList(l) \/ Stores!ShowPage(l) \/ Stores!Throw(l)
      PROVE  StoresInv'
  BY <1>4, ShowMoveSafe, ShowSetupSafe, ShowListSafe, ShowPageSafe, ThrowSafe
<1>5. CASE UNCHANGED Stores!storeVars
  <2>1. /\ request' = request /\ clock' = clock /\ cards' = cards /\ setups' = setups
        /\ pendingId' = pendingId /\ runningId' = runningId /\ orders' = orders
        /\ told' = told /\ newest' = newest /\ trouble' = trouble /\ effort' = effort
    BY <1>5 DEF Stores!storeVars, Stores!lists, Stores!locks, Stores!past
  <2>2. Stores!TypeOK' /\ Dated(request, clock)' /\ OrdersFit' /\ OrdersAgree' /\ ListsFitPage'
    BY <2>1 DEF StoresInv, Stores!TypeOK, Dated, OrdersFit, OrdersAgree, ListsFitPage,
                OnPage, Stores!IsReading
  <2>3. CardsAreTracked' /\ TalkIsTrue' /\ MovesHaveCards' /\ LoadIsFirst'
    BY <2>1 DEF StoresInv, CardsAreTracked, TalkIsTrue, MovesHaveCards, LoadIsFirst,
                Stores!Tracked
  <2>4. ToldIsShown' /\ NothingFalls' /\ LocksAreHeld' /\ OneMove'
    BY <2>1 DEF StoresInv, ToldIsShown, RowsShown, Brings, NothingFalls, Loading,
                Stores!Tracked,
                LocksAreHeld, OneMove
  <2> QED
    BY <2>2, <2>3, <2>4 DEF StoresInv
<1> QED
  BY <1>1, <1>2, <1>3, <1>4, <1>5 DEF Stores!Next

(* What a card offers is a move of its state.                               *)
LEMMA OffersAreLegal ==
  ASSUME NEW card, card.state \in Stores!AccessStates
  PROVE  /\ \A a \in Stores!Offered(card) \ {"note"} :
              Stores!Transition(card.state, a) # {} \/ (a = "BLOCK" /\ card.state = "adoption_review")
         /\ Stores!CanAttach(card) => Stores!Transition(card.state, "ATTACH_LOCATION") # {}
<1>1. Stores!AccessStates \ {card.state} # {}
  BY DEF Stores!AccessStates
<1>2. \A a \in Stores!NaturalActions(card.state) :
        a # "OVERRIDE" /\ Stores!Transition(card.state, a) # {}
  BY DEF Stores!NaturalActions, Stores!Transition, Stores!NaturalMoves,
         Stores!AccessStates, Stores!ConfirmFrom
<1>3. card.state \in Stores!CanBlock =>
        Stores!Transition(card.state, "BLOCK") # {} \/ card.state = "adoption_review"
  BY DEF Stores!CanBlock, Stores!Transition, Stores!NaturalMoves
<1>4. card.state = "adoption_review" => Stores!Transition(card.state, "REJECT_ADOPTION") # {}
  BY DEF Stores!Transition, Stores!NaturalMoves
<1>5. Stores!Transition(card.state, "OVERRIDE") # {}
  BY <1>1 DEF Stores!Transition
<1>6. Stores!CanAttach(card) => Stores!Transition(card.state, "ATTACH_LOCATION") # {}
  BY DEF Stores!CanAttach, Stores!Transition, Stores!NaturalMoves
<1> QED
  BY <1>2, <1>3, <1>4, <1>5, <1>6 DEF Stores!Offered

LEMMA InvSound ==
  ASSUME StoresInv
  PROVE  Stores!TypeOK /\ Stores!StoresAreSound
<1>1. Stores!OfferedIsLegal
  BY StoresParts, OffersAreLegal DEF Stores!OfferedIsLegal
<1>2. Stores!AnswersAreShown
  BY NoOrderIs, OrderKinds, StoresParts
  DEF StoresInv, Stores!AnswersAreShown, Stores!AtRest, ToldIsShown, Clean, RowsShown,
      Brings
<1>3. Stores!NoStoreFallsBetween
  <2>1. Stores!AtRest /\ trouble \subseteq {"overlap", "error"} =>
          \A s \in Shops : s \in setups \/ s \in DOMAIN cards
    BY NoOrderIs DEF StoresInv, NothingFalls, Calm, Stores!AtRest, Loading
  <2>2. DOMAIN cards \subseteq Shops /\ setups \subseteq Shops
    BY StoresParts DEF Stores!IsReading
  <2> QED
    BY <2>1, <2>2 DEF Stores!NoStoreFallsBetween
<1>4. Stores!LocksAreReleased
  BY DEF StoresInv, LocksAreHeld, Stores!LocksAreReleased, Stores!InFlight
<1>5. Stores!OneMovePerCard
  BY DEF Stores!OneMovePerCard, Stores!InFlight, StoresInv, OneMove
<1> QED
  BY <1>1, <1>2, <1>3, <1>4, <1>5 DEF StoresInv, Stores!StoresAreSound

(* Every reachable state of the list of stores has the types.                *)
THEOREM StoresTypeCorrect ==
  ASSUME Stores!StoresAssumption
  PROVE  Stores!Spec => []Stores!TypeOK
<1>1. Stores!Init => StoresInv
  BY StoresInit
<1>2. StoresInv /\ [Stores!Next]_Stores!storeVars => StoresInv'
  BY StepInv
<1>3. StoresInv => Stores!TypeOK
  BY InvSound
<1> QED
  BY <1>1, <1>2, <1>3, PTL DEF Stores!Spec

(* The cards offer what their state allows; what an answer told of a store is  *)
(* on the page, and no store falls between its two lists, once the page is at  *)
(* rest and nothing failed or crossed; each lock has its request; and one move  *)
(* at a time runs for a card, unless another card took the lock over.         *)
THEOREM StoresAloneAreSound ==
  ASSUME Stores!StoresAssumption
  PROVE  Stores!Spec => []Stores!StoresAreSound
<1>1. Stores!Init => StoresInv
  BY StoresInit
<1>2. StoresInv /\ [Stores!Next]_Stores!storeVars => StoresInv'
  BY StepInv
<1>3. StoresInv => Stores!StoresAreSound
  BY InvSound
<1> QED
  BY <1>1, <1>2, <1>3, PTL DEF Stores!Spec
-----------------------------------------------------------------------------
(* The three screens.                                                       *)

ScreensInv ==
  /\ part \in {"inbox", "queue", "stores"} /\ Inv
  /\ part = "queue" => QueueInv
  /\ part = "stores" => StoresInv

LEMMA ScreensInit == InitScreens => ScreensInv
  BY InitInv, QueueInit, StoresInit, ScreensAssumption DEF InitScreens, ScreensInv

LEMMA ScreensKeep ==
  ScreensInv /\ [NextScreen]_<<part, vars, queueScreen, storesScreen>> => ScreensInv'
<1> SUFFICES ASSUME ScreensInv, [NextScreen]_<<part, vars, queueScreen, storesScreen>>
             PROVE  ScreensInv'
  OBVIOUS
<1>1. UNCHANGED part
  BY DEF NextScreen
<1>2. [Next]_vars
  BY DEF NextScreen, InboxMoves, QueueMoves, StoresMove
<1>3. Inv'
  BY <1>2, NextKeeps DEF ScreensInv
<1>4. ASSUME part = "queue" PROVE QueueInv'
  <2>1. Queue!Next \/ UNCHANGED queueScreen
    BY <1>4 DEF NextScreen, InboxMoves, QueueMoves, StoresMove
  <2>2. [Queue!Next]_Queue!queueVars
    BY <2>1 DEF queueScreen, Queue!queueVars, Queue!editor, Queue!history
  <2> QED
    BY <1>4, <2>2, QueueNextKeeps, ScreensAssumption DEF ScreensInv
<1>5. ASSUME part = "stores" PROVE StoresInv'
  <2>1. Stores!Next \/ UNCHANGED storesScreen
    BY <1>5 DEF NextScreen, InboxMoves, QueueMoves, StoresMove
  <2>2. [Stores!Next]_Stores!storeVars
    BY <2>1 DEF storesScreen, Stores!storeVars, Stores!lists, Stores!locks, Stores!past
  <2> QED
    BY <1>5, <2>2, StepInv, ScreensAssumption DEF ScreensInv
<1> QED
  BY <1>1, <1>3, <1>4, <1>5 DEF ScreensInv

LEMMA ScreensSound ==
  ScreensInv => TypesOK /\ ScreenIsCoherent /\ QueueIsSound /\ StoresAreSound
<1>1. Inv => TypeOK /\ ScreenIsCoherent
  BY DEF Inv
<1> QED
  BY <1>1, InvIsSound, InvSound DEF ScreensInv, TypesOK, QueueIsSound, StoresAreSound

(* The state of each screen is of its types, in the part where it moves.      *)
THEOREM TypesCorrect == AllScreens => []TypesOK
<1>1. InitScreens => ScreensInv
  BY ScreensInit
<1> QED
  BY <1>1, ScreensKeep, ScreensSound, PTL DEF AllScreens

(* The inbox is coherent in every behaviour of the three screens.            *)
THEOREM InboxStaysCoherent == AllScreens => []ScreenIsCoherent
<1>1. InitScreens => ScreensInv
  BY ScreensInit
<1> QED
  BY <1>1, ScreensKeep, ScreensSound, PTL DEF AllScreens

(* The queue is sound in every behaviour of the three screens.               *)
THEOREM QueueStaysSound == AllScreens => []QueueIsSound
<1>1. InitScreens => ScreensInv
  BY ScreensInit
<1> QED
  BY <1>1, ScreensKeep, ScreensSound, PTL DEF AllScreens

(* And so is the list of stores.                                            *)
THEOREM StoresStaySound == AllScreens => []StoresAreSound
<1>1. InitScreens => ScreensInv
  BY ScreensInit
<1> QED
  BY <1>1, ScreensKeep, ScreensSound, PTL DEF AllScreens
===============================================================================
