---------------------------- MODULE ActivityTrail ----------------------------
(***************************************************************************)
(* What an owner does is told to the operators (use-activity-trail.ts): each *)
(* surface keeps the events not yet sent, sends the oldest of them every few *)
(* seconds and after a chat message, and takes them back when the answer is  *)
(* not good.  The route stores a batch in one transaction, with fresh ids.   *)
(*                                                                         *)
(* An event is the number of its recording.  A surface is mounted with empty *)
(* refs; what it sent may be answered after it is gone.                      *)
(***************************************************************************)
EXTENDS Integers, Sequences, Functions

CONSTANTS
  MaxPending,   \* maxPendingEvents
  FlushMax,     \* activityFlushMaxEvents
  MaxEvents,    \* bound: events recorded
  MaxMounts     \* bound: surfaces mounted, one after the other

TrailAssumption ==
  /\ MaxPending \in Nat \ {0} /\ FlushMax \in Nat \ {0}
  /\ MaxEvents \in Nat /\ MaxMounts \in Nat \ {0}

Events == 1 .. MaxEvents
Mounts == 1 .. MaxMounts
Many == 2  \* bound: stands for two and more

VARIABLES
  recorded,        \* the number of events recorded so far
  mounted, shown,  \* the surfaces mounted so far; whether the last one is there
  pending, flight, \* of a surface: pendingRef; the batch sent and its answer
  stored,          \* activity_events: how many rows an event has, up to Many
  dropped, left,   \* history: events given up for the bound, or with a surface
  unsure           \* history: events whose answer was lost

trailVars ==
  <<recorded, mounted, shown, pending, flight, stored, dropped, left, unsure>>

Idle == [batch |-> <<>>, answer |-> "none"]
Flushing(s) == flight[s].batch # <<>>

Init ==
  /\ recorded = 0 /\ mounted = 1 /\ shown = TRUE
  /\ pending = [s \in Mounts |-> <<>>] /\ flight = [s \in Mounts |-> Idle]
  /\ stored = [e \in Events |-> 0] /\ dropped = {} /\ left = {} /\ unsure = {}
-------------------------------------------------------------------------------
(* The surface.                                                            *)

First(q, n) == SubSeq(q, 1, IF Len(q) < n THEN Len(q) ELSE n)
Rest(q, n) == SubSeq(q, n + 1, Len(q))

\* Plausible bug: the bound drops the newest.
Newest(q) == First(q, MaxPending)
Bounded(q) == IF Len(q) <= MaxPending THEN q ELSE Rest(q, Len(q) - MaxPending)

RecordAction ==
  /\ shown /\ recorded < MaxEvents
  /\ LET longer == Append(pending[mounted], recorded + 1)
         kept == Bounded(longer) IN
     /\ pending' = [pending EXCEPT ![mounted] = kept]
     /\ dropped' = dropped \cup (Range(longer) \ Range(kept))
  /\ recorded' = recorded + 1
  /\ UNCHANGED <<mounted, shown, flight, stored, left, unsure>>

\* Plausible bug: all that is pending is sent.
Everything(s) == pending[s]
Batch(s) == First(pending[s], FlushMax)

\* Plausible bug: no flushing guard.
AnyTime(s) == pending[s] # <<>>
MayFlush(s) == ~Flushing(s) /\ pending[s] # <<>>

Sends(s) == flight' = [flight EXCEPT ![s] = [batch |-> Batch(s), answer |-> "none"]]

FlushNow ==
  /\ shown /\ MayFlush(mounted)
  /\ Sends(mounted)
  /\ pending' = [pending EXCEPT ![mounted] = Rest(@, Len(Batch(mounted)))]
  /\ UNCHANGED <<recorded, mounted, shown, stored, dropped, left, unsure>>

(* The last flush does nothing while another is under way; what it leaves     *)
(* behind goes with the surface.                                           *)
Unmount ==
  /\ shown /\ shown' = FALSE
  /\ \/ MayFlush(mounted) /\ Sends(mounted)
        /\ left' = left \cup Range(Rest(pending[mounted], FlushMax))
     \/ ~MayFlush(mounted)
        /\ left' = left \cup Range(pending[mounted]) /\ UNCHANGED flight
  /\ pending' = [pending EXCEPT ![mounted] = <<>>]
  /\ UNCHANGED <<recorded, mounted, stored, dropped, unsure>>

(* A tab that is closed or reloaded flushes nothing.                        *)
Close ==
  /\ shown /\ shown' = FALSE
  /\ left' = left \cup Range(pending[mounted])
  /\ pending' = [pending EXCEPT ![mounted] = <<>>]
  /\ UNCHANGED <<recorded, mounted, flight, stored, dropped, unsure>>

Mount ==
  /\ ~shown /\ mounted < MaxMounts
  /\ mounted' = mounted + 1 /\ shown' = TRUE
  /\ UNCHANGED <<recorded, pending, flight, stored, dropped, left, unsure>>

\* Plausible bug: the batch is queued behind the newer events.
Behind(s, batch) == pending[s] \o batch
Requeued(s, batch) == batch \o pending[s]

Here(s) == shown /\ s = mounted

Answered(s) ==
  /\ Flushing(s) /\ flight[s].answer # "none"
  /\ flight' = [flight EXCEPT ![s] = Idle]
  /\ LET batch == flight[s].batch IN
     \/ flight[s].answer = "ok" /\ UNCHANGED <<pending, left>>
     \/ /\ flight[s].answer # "ok" /\ Here(s)
        /\ pending' = [pending EXCEPT ![s] = Requeued(s, batch)]
        /\ UNCHANGED left
     \/ /\ flight[s].answer # "ok" /\ ~Here(s)
        /\ left' = left \cup Range(batch) /\ UNCHANGED pending
  /\ UNCHANGED <<recorded, mounted, shown, stored, dropped, unsure>>
-------------------------------------------------------------------------------
(* The route, and the connection.                                          *)

Says(s, a) == flight' = [flight EXCEPT ![s].answer = a]

\* Plausible bug: without a transaction a failure leaves the first row.
FirstRow(batch) == First(batch, 1)
RolledBack(batch) == <<>>

Insert(q) == stored' = [e \in Events |->
                          IF e \notin Range(q) \/ stored[e] = Many THEN stored[e]
                          ELSE stored[e] + 1]

RecordEvents(s) ==
  /\ Flushing(s) /\ flight[s].answer = "none" /\ Len(flight[s].batch) <= FlushMax
  /\ Insert(flight[s].batch) /\ Says(s, "ok")
  /\ UNCHANGED <<recorded, mounted, shown, pending, dropped, left, unsure>>

(* No session, or a batch that is too long, or a failure of the database.    *)
Refuse(s) ==
  /\ Flushing(s) /\ flight[s].answer = "none"
  /\ Insert(RolledBack(flight[s].batch)) /\ Says(s, "refused")
  /\ UNCHANGED <<recorded, mounted, shown, pending, dropped, left, unsure>>

(* The answer never comes, whether the batch was stored or not.              *)
Lose(s) ==
  /\ Flushing(s) /\ flight[s].answer \in {"none", "ok"}
  /\ Says(s, "lost") /\ unsure' = unsure \cup Range(flight[s].batch)
  /\ UNCHANGED <<recorded, mounted, shown, pending, stored, dropped, left>>

Next ==
  \/ RecordAction \/ FlushNow \/ Unmount \/ Close \/ Mount
  \/ \E s \in Mounts : Answered(s) \/ RecordEvents(s) \/ Refuse(s) \/ Lose(s)

Spec == Init /\ [][Next]_trailVars
-------------------------------------------------------------------------------
(* Properties.                                                             *)

(* Type invariant.                                                         *)
TypeOK ==
  /\ recorded \in 0 .. MaxEvents /\ mounted \in Mounts /\ shown \in BOOLEAN
  /\ pending \in [Mounts -> Seq(Events)]
  /\ flight \in [Mounts -> [batch : Seq(Events), answer : {"none", "ok", "refused", "lost"}]]
  /\ stored \in [Events -> 0 .. Many] /\ dropped \cup left \cup unsure \subseteq Events

(* What is to be sent, or sent again, is in the order of its recording.      *)
Waiting(s) == flight[s].batch \o pending[s]
OrderSurvivesRetries ==
  \A s \in Mounts : \A m, n \in DOMAIN Waiting(s) :
    m < n => Waiting(s)[m] < Waiting(s)[n]

(* An event is stored, on its way, or was given up.                         *)
NothingVanishes ==
  \A e \in 1 .. recorded :
    stored[e] > 0 \/ e \in dropped \cup left \/ \E s \in Mounts : e \in Range(Waiting(s))

(* The bound gives up none of the newest events, though a batch taken back     *)
(* may outlive some that came after it; the batch alone may exceed the bound.  *)
LatestAreKept ==
  /\ \A e \in dropped : e <= recorded - MaxPending
  /\ \A s \in Mounts : Len(pending[s]) <= MaxPending + FlushMax

(* An event is in the timeline twice only after an answer that was lost.     *)
TwiceOnlyWhenUnsure == \A e \in Events : stored[e] > 1 => e \in unsure

(* No batch is one the route must refuse for ever.                          *)
BatchesFit == \A s \in Mounts : Len(flight[s].batch) <= FlushMax

TrailIsSound ==
  /\ OrderSurvivesRetries /\ NothingVanishes /\ LatestAreKept
  /\ TwiceOnlyWhenUnsure /\ BatchesFit
===============================================================================
