--------------------------- MODULE CampaignPipeline ---------------------------
(***************************************************************************)
(* One campaign request from the owner's brief to the published post: the   *)
(* rows of campaign_requests, campaign_assets, campaign_review_events and   *)
(* publish_jobs, and the HTTP handlers of the two apps that change them.    *)
(*                                                                         *)
(* A handler is a serverless invocation.  It holds no lock: between two of  *)
(* its database statements any other handler may run, and it may die.  Its  *)
(* position is pc[h]; what it read earlier and still acts on is in          *)
(* seen, next, todo, cur and shown.  A refusal at a handler's first read    *)
(* changes nothing and is no action here.                                   *)
(***************************************************************************)
EXTENDS CampaignStateMachine, Integers, Sequences, FiniteSets

CONSTANTS
  Handlers,      \* requests in flight: operators' POSTs and owners' screens
  Channels,      \* publish channels (gbp, instagram)
  Copies,        \* values of the final copy
  Buttons,       \* values of the call to action
  Assets,        \* processed assets an operator may upload
  None,          \* SQL NULL, and "nothing" in a handler's local
  MaxAttempts,   \* publishJobMaxAttempts
  MaxRounds,     \* bound: no production pass starts after this many reviews
  MaxCrashes     \* bound: handlers that die before they return

ASSUME MaxAttemptsAssumption == MaxAttempts \in Nat \ {0}
ASSUME NoneAssumption ==
  None \notin Copies \cup Buttons \cup Channels \cup CampaignStatuses
              \cup JobStatuses

VARIABLES
  status, nudged,                       \* campaign_requests
  finalCopy, callToAction,              \* campaign_requests, the material
  processed,                            \* campaign_assets of kind processed
  reviewEvents,                         \* campaign_review_events, in order
  jobStatus, attempts,                  \* publish_jobs (None: no row)
  posts,                                \* posts alive at each channel
  announced, ownerTold,                 \* assistant messages in the chat
  rounds, nudges, crashes,              \* history and bound counters
  pc, seen, next, todo, cur, shown      \* the handlers

material == <<finalCopy, callToAction, processed>>
jobs == <<jobStatus, attempts>>
notices == <<announced, ownerTold>>
locals == <<pc, seen, next, todo, cur, shown>>
vars == <<status, nudged, material, reviewEvents, jobs, posts, notices,
          rounds, nudges, crashes, locals>>

(* What a detail read returns of the material; round is the review it is    *)
(* read in, which the response does not carry.                              *)
Snapshot == [copy |-> finalCopy, button |-> callToAction,
             assets |-> processed, round |-> rounds]
NoSnapshot == [copy |-> None, button |-> None, assets |-> {}, round |-> 0]

RunLabels ==
  {"publish.load", "publish.reserve", "publish.claim", "publish.call",
   "publish.complete", "publish.fail", "publish.progress", "publish.settle"}
Labels ==
  {"idle", "production.write", "copy.write", "button.write", "asset.write",
   "review.apply", "review.write", "review.notice", "owner.screen",
   "owner.write", "publish.apply", "publish.write", "publish.notice"}
  \cup RunLabels

(* createCampaignRequest: the owner has submitted a brief.                 *)
Init ==
  /\ status = "submitted" /\ nudged = FALSE
  /\ finalCopy = None /\ callToAction = None /\ processed = {}
  /\ reviewEvents = <<>>
  /\ jobStatus = [c \in Channels |-> None]
  /\ attempts = [c \in Channels |-> 0]
  /\ posts = [c \in Channels |-> 0]
  /\ announced = 0 /\ ownerTold = {}
  /\ rounds = 0 /\ nudges = 0 /\ crashes = 0
  /\ pc = [h \in Handlers |-> "idle"]
  /\ seen = [h \in Handlers |-> None]
  /\ next = [h \in Handlers |-> None]
  /\ todo = [h \in Handlers |-> {}]
  /\ cur = [h \in Handlers |-> None]
  /\ shown = [h \in Handlers |-> NoSnapshot]
-------------------------------------------------------------------------------
(* Steps every handler is built from.                                      *)

GoTo(h, label) == pc' = [pc EXCEPT ![h] = label]

(* The response is sent, or the invocation is gone: its locals go with it.  *)
Return(h) ==
  /\ GoTo(h, "idle")
  /\ seen' = [seen EXCEPT ![h] = None]
  /\ next' = [next EXCEPT ![h] = None]
  /\ todo' = [todo EXCEPT ![h] = {}]
  /\ cur' = [cur EXCEPT ![h] = None]
  /\ shown' = [shown EXCEPT ![h] = NoSnapshot]

(* The read half of applyCampaignAction: the status read becomes the        *)
(* expected status of the write at the given label.                         *)
ReadForUpdate(h, action, target, label) ==
  /\ CanApply(action, status)
  /\ seen' = [seen EXCEPT ![h] = status]
  /\ next' = [next EXCEPT ![h] = target]
  /\ GoTo(h, label)

\* Plausible bug: the UPDATE is keyed by the id alone.
UnguardedUpdate(expected) == TRUE

(* WHERE status = ?: the status column is the concurrency token.           *)
StatusGuard(expected) == status = expected

\* Plausible bug: the nudge is kept over a transition.
KeptNudge == nudged

(* Every transition ends the episode a nudge belonged to.                  *)
NudgeAfterTransition == FALSE

GuardedUpdate(h) ==
  /\ StatusGuard(seen[h])
  /\ status' = next[h]
  /\ nudged' = NudgeAfterTransition

\* Plausible bug: the review route checks the assets and forgets the copy.
HasAssets == processed # {}

(* At least one processed asset, and a final copy that is not blank.        *)
MaterialReady == processed # {} /\ finalCopy # None
-------------------------------------------------------------------------------
(* Operator: production and the material.                                  *)

ProductionRead(h) ==
  /\ pc[h] = "idle"
  /\ rounds < MaxRounds
  /\ ReadForUpdate(h, "START_PRODUCTION", "in_production", "production.write")
  /\ UNCHANGED <<status, nudged, material, reviewEvents, jobs, posts, notices,
                 rounds, nudges, crashes, todo, cur, shown>>

ProductionWrite(h) ==
  /\ pc[h] = "production.write"
  /\ GuardedUpdate(h)
  /\ Return(h)
  /\ UNCHANGED <<material, reviewEvents, jobs, posts, notices, rounds, nudges,
                 crashes>>

(* final-copy, call-to-action and assets check the status first ...        *)
EditRead(h) ==
  /\ pc[h] = "idle"
  /\ status = "in_production"
  /\ \E label \in {"copy.write", "button.write", "asset.write"} : GoTo(h, label)
  /\ UNCHANGED <<status, nudged, material, reviewEvents, jobs, posts, notices,
                 rounds, nudges, crashes, seen, next, todo, cur, shown>>

(* ... and write WHERE id = ?, whatever the status has become.             *)
CopyWrite(h) ==
  /\ pc[h] = "copy.write"
  /\ finalCopy' \in Copies
  /\ Return(h)
  /\ UNCHANGED <<status, nudged, callToAction, processed, reviewEvents, jobs,
                 posts, notices, rounds, nudges, crashes>>

ButtonWrite(h) ==
  /\ pc[h] = "button.write"
  /\ callToAction' \in Buttons \cup {None}
  /\ Return(h)
  /\ UNCHANGED <<status, nudged, finalCopy, processed, reviewEvents, jobs,
                 posts, notices, rounds, nudges, crashes>>

(* The uploaded file passed re-validation, and registers ...               *)
AssetWrite(h) ==
  /\ pc[h] = "asset.write"
  /\ \E a \in Assets \ processed : processed' = processed \cup {a}
  /\ Return(h)
  /\ UNCHANGED <<status, nudged, finalCopy, callToAction, reviewEvents, jobs,
                 posts, notices, rounds, nudges, crashes>>

(* ... or is missing, of the wrong type or too large, and is deleted.      *)
AssetRejected(h) ==
  /\ pc[h] = "asset.write"
  /\ Return(h)
  /\ UNCHANGED <<status, nudged, material, reviewEvents, jobs, posts, notices,
                 rounds, nudges, crashes>>
-------------------------------------------------------------------------------
(* Operator: handing the material to the owner, and the nudge.             *)

ReviewRead(h) ==
  /\ pc[h] = "idle"
  /\ MaterialReady
  /\ GoTo(h, "review.apply")
  /\ UNCHANGED <<status, nudged, material, reviewEvents, jobs, posts, notices,
                 rounds, nudges, crashes, seen, next, todo, cur, shown>>

ReviewApply(h) ==
  /\ pc[h] = "review.apply"
  /\ ReadForUpdate(h, "SUBMIT_FOR_REVIEW", "ready_for_review", "review.write")
  /\ UNCHANGED <<status, nudged, material, reviewEvents, jobs, posts, notices,
                 rounds, nudges, crashes, todo, cur, shown>>

ReviewWrite(h) ==
  /\ pc[h] = "review.write"
  /\ GuardedUpdate(h)
  /\ rounds' = rounds + 1
  /\ GoTo(h, "review.notice")
  /\ UNCHANGED <<material, reviewEvents, jobs, posts, notices, nudges, crashes,
                 seen, next, todo, cur, shown>>

\* Plausible bug: the chat is told once for the request, not for each review.
AnnounceOnce == announced' = 1

Announce == announced' = announced + 1

(* Posted only after the transition took.                                  *)
ReviewNotice(h) ==
  /\ pc[h] = "review.notice"
  /\ Announce
  /\ Return(h)
  /\ UNCHANGED <<status, nudged, material, reviewEvents, jobs, posts,
                 ownerTold, rounds, nudges, crashes>>

\* Plausible bug: the WHERE clause without nudged_at IS NULL.
NudgeAnyTime == status = "ready_for_review"

NudgeGuard == status = "ready_for_review" /\ ~nudged

(* markCampaignNudged is one statement; nudges counts the audit rows.      *)
Nudge ==
  /\ NudgeGuard
  /\ nudged' = TRUE
  /\ nudges' = nudges + 1
  /\ UNCHANGED <<status, material, reviewEvents, jobs, posts, notices, rounds,
                 crashes, locals>>
-------------------------------------------------------------------------------
(* Owner: the review card and the decision.                                *)

OwnerOpen(h) ==
  /\ pc[h] = "idle"
  /\ status = "ready_for_review"
  /\ shown' = [shown EXCEPT ![h] = Snapshot]
  /\ GoTo(h, "owner.screen")
  /\ UNCHANGED <<status, nudged, material, reviewEvents, jobs, posts, notices,
                 rounds, nudges, crashes, seen, next, todo, cur>>

(* The owner closes the card, or posts and is refused at the status read: a *)
(* stale answer closes it too.                                             *)
OwnerClose(h) ==
  /\ pc[h] = "owner.screen"
  /\ Return(h)
  /\ UNCHANGED <<status, nudged, material, reviewEvents, jobs, posts, notices,
                 rounds, nudges, crashes>>

(* The POST reads the status of the moment, not the one on the screen.      *)
OwnerPost(h) ==
  /\ pc[h] = "owner.screen"
  /\ \E decision \in Decisions :
       ReadForUpdate(h, "SUBMIT_REVIEW_DECISION", DecisionStatus(decision),
                     "owner.write")
  /\ UNCHANGED <<status, nudged, material, reviewEvents, jobs, posts, notices,
                 rounds, nudges, crashes, todo, cur, shown>>

(* recordCampaignReviewDecision: the flip and its event, one transaction.   *)
OwnerWrite(h) ==
  /\ pc[h] = "owner.write"
  /\ GuardedUpdate(h)
  /\ \E decision \in Decisions :
       /\ DecisionStatus(decision) = next[h]
       /\ reviewEvents' = Append(reviewEvents, decision)
  /\ Return(h)
  /\ UNCHANGED <<material, jobs, posts, notices, rounds, nudges, crashes>>
-------------------------------------------------------------------------------
(* Operator: the publish run.                                              *)

(* Material, eligibility and the action's name come from the first read;    *)
(* an ineligible channel refuses the whole POST.                            *)
PublishRead(h) ==
  /\ pc[h] = "idle"
  /\ MaterialReady
  /\ PublishActionFor(status) # "none"
  /\ seen' = [seen EXCEPT ![h] = status]
  /\ \E channels \in SUBSET Channels \ {{}} :
       todo' = [todo EXCEPT ![h] = channels]
  /\ GoTo(h, "publish.apply")
  /\ UNCHANGED <<status, nudged, material, reviewEvents, jobs, posts, notices,
                 rounds, nudges, crashes, next, cur, shown>>

PublishApply(h) ==
  /\ pc[h] = "publish.apply"
  /\ ReadForUpdate(h, PublishActionFor(seen[h]), "publishing",
                   "publish.write")
  /\ UNCHANGED <<status, nudged, material, reviewEvents, jobs, posts, notices,
                 rounds, nudges, crashes, todo, cur, shown>>

PublishWrite(h) ==
  /\ pc[h] = "publish.write"
  /\ GuardedUpdate(h)
  /\ GoTo(h, "publish.load")
  /\ UNCHANGED <<material, reviewEvents, jobs, posts, notices, rounds, nudges,
                 crashes, seen, next, todo, cur, shown>>

(* applyCampaignAction ends with a second read: this is what is published.  *)
PublishLoad(h) ==
  /\ pc[h] = "publish.load"
  /\ shown' = [shown EXCEPT ![h] = Snapshot]
  /\ GoTo(h, "publish.reserve")
  /\ UNCHANGED <<status, nudged, material, reviewEvents, jobs, posts, notices,
                 rounds, nudges, crashes, seen, next, todo, cur>>

\* Plausible bug: the cap compares with > and allows one attempt more.
AttemptsOverspent(c) == attempts[c] > MaxAttempts

AttemptsSpent(c) == attempts[c] >= MaxAttempts

\* Plausible bug: only the cap is checked, a published job is run again.
NotReservableByCap(c) == AttemptsSpent(c)

(* reservePublishJob, its read: replay, in_progress or retry_limit.        *)
NotReservable(c) ==
  \/ jobStatus[c] \in {"published", "publishing"}
  \/ AttemptsSpent(c)

PublishSkip(h) ==
  /\ pc[h] = "publish.reserve"
  /\ \E c \in todo[h] :
       /\ NotReservable(c)
       /\ todo' = [todo EXCEPT ![h] = @ \ {c}]
  /\ UNCHANGED <<status, nudged, material, reviewEvents, jobs, posts, notices,
                 rounds, nudges, crashes, pc, seen, next, cur, shown>>

PublishReserve(h) ==
  /\ pc[h] = "publish.reserve"
  /\ \E c \in todo[h] :
       /\ ~NotReservable(c)
       /\ cur' = [cur EXCEPT ![h] = c]
       /\ seen' = [seen EXCEPT ![h] = jobStatus[c]]
  /\ GoTo(h, "publish.claim")
  /\ UNCHANGED <<status, nudged, material, reviewEvents, jobs, posts, notices,
                 rounds, nudges, crashes, next, todo, shown>>

(* reservePublishJob, its write.  The transaction runs at READ COMMITTED,   *)
(* so the INSERT or UPDATE sees what others committed since the read: a     *)
(* missed UPDATE is in_progress, a duplicate INSERT throws out of the run.  *)
PublishClaim(h) ==
  /\ pc[h] = "publish.claim"
  /\ IF jobStatus[cur[h]] = seen[h]
     THEN /\ jobStatus' = [jobStatus EXCEPT ![cur[h]] = "publishing"]
          /\ attempts' = [attempts EXCEPT ![cur[h]] = @ + 1]
          /\ GoTo(h, "publish.call")
          /\ UNCHANGED <<seen, next, todo, cur, shown>>
     ELSE /\ IF seen[h] = None
             THEN Return(h)
             ELSE /\ todo' = [todo EXCEPT ![h] = @ \ {cur[h]}]
                  /\ GoTo(h, "publish.reserve")
                  /\ UNCHANGED <<seen, next, cur, shown>>
          /\ UNCHANGED jobs
  /\ UNCHANGED <<status, nudged, material, reviewEvents, posts, notices,
                 rounds, nudges, crashes>>

(* publishToChannel.  The post may be refused before or by the channel, may *)
(* land and be reported, or may land with its answer lost (timeout, body    *)
(* that does not parse), which reaches the run as a failure.                *)
PublishCall(h) ==
  /\ pc[h] = "publish.call"
  /\ \/ /\ posts' = [posts EXCEPT ![cur[h]] = @ + 1]
        /\ GoTo(h, "publish.complete")
     \/ /\ posts' = [posts EXCEPT ![cur[h]] = @ + 1]
        /\ GoTo(h, "publish.fail")
     \/ /\ UNCHANGED posts
        /\ GoTo(h, "publish.fail")
  /\ UNCHANGED <<status, nudged, material, reviewEvents, jobs, notices, rounds,
                 nudges, crashes, seen, next, todo, cur, shown>>

(* completePublishJob and failPublishJob, guarded on status publishing.     *)
SettleJob(h, outcome) ==
  /\ jobStatus' = IF jobStatus[cur[h]] = "publishing"
                  THEN [jobStatus EXCEPT ![cur[h]] = outcome]
                  ELSE jobStatus
  /\ todo' = [todo EXCEPT ![h] = @ \ {cur[h]}]
  /\ GoTo(h, "publish.reserve")
  /\ UNCHANGED <<status, nudged, material, reviewEvents, attempts, posts,
                 notices, rounds, nudges, crashes, seen, next, cur, shown>>

PublishComplete(h) ==
  pc[h] = "publish.complete" /\ SettleJob(h, "published")

PublishFail(h) ==
  pc[h] = "publish.fail" /\ SettleJob(h, "failed")

\* Plausible bug: progress is computed from the jobs that went well.
ProgressOfPublished ==
  PublishProgress({jobStatus[c] : c \in Channels} \cap {"published"})

(* Progress comes from every job on the request, not this run's alone.     *)
ProgressOfJobs ==
  PublishProgress({jobStatus[c] : c \in Channels} \ {None})

ExhaustedChannels ==
  {c \in Channels : jobStatus[c] = "failed" /\ AttemptsSpent(c)}

(* listPublishJobs: the new status and the exhausted channels are both      *)
(* computed from this one read; todo now holds what is to be reported.      *)
PublishList(h) ==
  /\ pc[h] = "publish.reserve"
  /\ todo[h] = {}
  /\ next' = [next EXCEPT ![h] = ProgressOfJobs]
  /\ todo' = [todo EXCEPT ![h] = ExhaustedChannels]
  /\ GoTo(h, "publish.progress")
  /\ UNCHANGED <<status, nudged, material, reviewEvents, jobs, posts, notices,
                 rounds, nudges, crashes, seen, cur, shown>>

(* A conflict here does not end the handler: the notice still follows.      *)
PublishProgressRead(h) ==
  /\ pc[h] = "publish.progress"
  /\ IF CanApply("UPDATE_PUBLISH_PROGRESS", status)
     THEN ReadForUpdate(h, "UPDATE_PUBLISH_PROGRESS", next[h],
                        "publish.settle")
     ELSE GoTo(h, "publish.notice") /\ UNCHANGED <<seen, next>>
  /\ UNCHANGED <<status, nudged, material, reviewEvents, jobs, posts, notices,
                 rounds, nudges, crashes, todo, cur, shown>>

PublishSettle(h) ==
  /\ pc[h] = "publish.settle"
  /\ IF StatusGuard(seen[h])
     THEN GuardedUpdate(h)
     ELSE UNCHANGED <<status, nudged>>
  /\ GoTo(h, "publish.notice")
  /\ UNCHANGED <<material, reviewEvents, jobs, posts, notices, rounds, nudges,
                 crashes, seen, next, todo, cur, shown>>

\* Plausible bug: the owner is told only when no channel has an attempt left.
ToldWhenAllExhausted(h) ==
  IF todo[h] = Channels THEN todo[h] ELSE {}

ChannelsToReport(h) == todo[h]

(* publishRetryLimitNoticeBody, when some channel has no attempt left.     *)
PublishNotice(h) ==
  /\ pc[h] = "publish.notice"
  /\ ownerTold' = ownerTold \cup ChannelsToReport(h)
  /\ Return(h)
  /\ UNCHANGED <<status, nudged, material, reviewEvents, jobs, posts,
                 announced, rounds, nudges, crashes>>
-------------------------------------------------------------------------------
(* Conflicts and failures of an invocation.                                *)

(* The domain function refuses the transition at a later read.             *)
Refused(h) ==
  /\ \/ pc[h] = "review.apply" /\ ~CanApply("SUBMIT_FOR_REVIEW", status)
     \/ pc[h] = "publish.apply" /\ ~CanApply(PublishActionFor(seen[h]), status)
  /\ Return(h)
  /\ UNCHANGED <<status, nudged, material, reviewEvents, jobs, posts, notices,
                 rounds, nudges, crashes>>

(* The guarded UPDATE matches no row: the handler answers a conflict.      *)
LoseRace(h) ==
  /\ pc[h] \in {"production.write", "review.write", "owner.write",
                "publish.write"}
  /\ ~StatusGuard(seen[h])
  /\ Return(h)
  /\ UNCHANGED <<status, nudged, material, reviewEvents, jobs, posts, notices,
                 rounds, nudges, crashes>>

(* The function times out, its process is recycled, or a statement throws:  *)
(* no route catches it, and nothing resumes the invocation.                 *)
Crash(h) ==
  /\ pc[h] \notin {"idle", "owner.screen"}
  /\ crashes < MaxCrashes
  /\ crashes' = crashes + 1
  /\ Return(h)
  /\ UNCHANGED <<status, nudged, material, reviewEvents, jobs, posts, notices,
                 rounds, nudges>>

(* The steps of an invocation that has begun; people decide the others.    *)
Continue(h) ==
  \/ ProductionWrite(h) \/ CopyWrite(h) \/ ButtonWrite(h)
  \/ AssetWrite(h) \/ AssetRejected(h)
  \/ ReviewApply(h) \/ ReviewWrite(h) \/ ReviewNotice(h)
  \/ OwnerWrite(h)
  \/ PublishApply(h) \/ PublishWrite(h) \/ PublishLoad(h)
  \/ PublishSkip(h) \/ PublishReserve(h) \/ PublishClaim(h) \/ PublishCall(h)
  \/ PublishComplete(h) \/ PublishFail(h) \/ PublishList(h)
  \/ PublishProgressRead(h) \/ PublishSettle(h) \/ PublishNotice(h)
  \/ Refused(h) \/ LoseRace(h)

Begin(h) ==
  \/ ProductionRead(h) \/ EditRead(h) \/ ReviewRead(h) \/ PublishRead(h)
  \/ OwnerOpen(h) \/ OwnerPost(h) \/ OwnerClose(h)

Next ==
  \/ Nudge
  \/ \E h \in Handlers : Begin(h) \/ Continue(h) \/ Crash(h)

Spec == Init /\ [][Next]_vars

(* A started invocation runs on until it returns: the platform schedules it *)
(* and every external call carries a timeout.                               *)
Fairness == \A h \in Handlers : WF_vars(Continue(h))

FairSpec == Spec /\ Fairness
-------------------------------------------------------------------------------
(* Properties.                                                             *)

CampaignOK ==
  /\ status \in CampaignStatuses /\ nudged \in BOOLEAN
  /\ finalCopy \in Copies \cup {None} /\ callToAction \in Buttons \cup {None}
  /\ processed \subseteq Assets
  /\ reviewEvents \in Seq(Decisions)

JobsOK ==
  /\ jobStatus \in [Channels -> JobStatuses \cup {None}]
  /\ attempts \in [Channels -> Nat] /\ posts \in [Channels -> Nat]
  /\ announced \in Nat /\ ownerTold \subseteq Channels
  /\ rounds \in Nat /\ nudges \in Nat /\ crashes \in Nat

LocalsOK ==
  /\ pc \in [Handlers -> Labels]
  /\ seen \in [Handlers -> CampaignStatuses \cup JobStatuses \cup {None}]
  /\ next \in [Handlers -> CampaignStatuses \cup {None}]
  /\ todo \in [Handlers -> SUBSET Channels]
  /\ cur \in [Handlers -> Channels \cup {None}]
  /\ shown \in [Handlers -> [copy : Copies \cup {None},
                             button : Buttons \cup {None},
                             assets : SUBSET Assets, round : Nat]]

(* The values each column and each local of a handler may hold.            *)
TypeOK == CampaignOK /\ JobsOK /\ LocalsOK

Running == {h \in Handlers : pc[h] \in RunLabels}

(* The status publishing is the in-flight lock of a publish run: whoever is *)
(* between taking it and settling holds it, and nobody else is there.       *)
OneRunUnderLock ==
  \A h \in Running : status = "publishing" /\ Running = {h}

(* A settled campaign says what its jobs say: the status a run computed from *)
(* one listing is still true of the rows when, and after, it is written.    *)
SettledAgreesWithJobs ==
  LET rows == {jobStatus[c] : c \in Channels} \ {None}
  IN /\ status = "published" => rows = {"published"}
     /\ status = "failed" => rows = {"failed"}
     /\ status = "partially_published" => rows = {"published", "failed"}

(* Each channel call is paid for by an attempt taken before it, no channel   *)
(* takes more than the cap over all runs, and a job recorded as published    *)
(* has a post behind it.                                                    *)
CallsArePaidFor ==
  \A c \in Channels :
    /\ posts[c] <= attempts[c] /\ attempts[c] <= MaxAttempts
    /\ jobStatus[c] = "published" => posts[c] > 0

Agreed == {"approved", "publishing", "published", "partially_published",
           "failed"}

(* A review is answered once: the events are one per finished review, all    *)
(* but the last asked for changes, and the last one is the verdict the       *)
(* status stands on.  Double submits and racing screens add no second event. *)
OneVerdictPerReview ==
  LET n == Len(reviewEvents)
  IN /\ n = IF status = "ready_for_review" THEN rounds - 1 ELSE rounds
     /\ \A i \in 1..(n - 1) : reviewEvents[i] = "changes_requested"
     /\ status \in Agreed => n > 0 /\ reviewEvents[n] = "go"
     /\ status = "rejected" => n > 0 /\ reviewEvents[n] = "no_go"
     /\ status \notin Agreed \cup {"rejected"} /\ n > 0
          => reviewEvents[n] = "changes_requested"

(* No channel is called, and no post is live, before the owner said go.      *)
NothingLiveWithoutConsent ==
  (\E c \in Channels : posts[c] > 0 \/ attempts[c] > 0)
     => status \in Agreed

(* Neither the owner nor a channel is ever handed incomplete material.       *)
MaterialIsComplete ==
  /\ status \notin {"submitted", "in_production", "changes_requested"}
        => processed # {} /\ finalCopy # None
  /\ \A h \in Handlers :
       pc[h] \in {"owner.screen", "owner.write", "publish.call"}
          => shown[h].assets # {} /\ shown[h].copy # None

(* A nudge belongs to the review the owner is in: recorded at most once for  *)
(* each review, and gone with the status it was recorded in.                *)
OneNudgePerReview ==
  /\ nudged => status = "ready_for_review"
  /\ nudges <= IF status = "ready_for_review" /\ ~nudged THEN rounds - 1
               ELSE rounds

(* What is under way respects the review: consent, whole material, and one  *)
(* nudge at most for each time the owner is asked.                          *)
ReviewIsRespected ==
  NothingLiveWithoutConsent /\ MaterialIsComplete /\ OneNudgePerReview

(* A finished job stays finished: once it is recorded as published, or has   *)
(* failed on its last attempt, no later run posts to that channel again or   *)
(* takes the record back.                                                   *)
FinishedJobsAreLeftAlone ==
  [][\A c \in Channels :
       jobStatus[c] = "published" \/ c \in ExhaustedChannels
          => UNCHANGED <<jobStatus[c], attempts[c], posts[c]>>]_vars

(* Consent is never withdrawn by a late screen, a lost race or a failed run: *)
(* what was agreed stays agreed, and what was rejected stays rejected.       *)
VerdictIsFinal ==
  [][/\ status \in Agreed => status' \in Agreed
     /\ status = "rejected" => status' = "rejected"
     /\ status = "published" => status' = "published"]_vars

(* Neither a finished job nor a verdict is taken back.                      *)
NothingIsTakenBack == FinishedJobsAreLeftAlone /\ VerdictIsFinal

(* A run that does not die settles the campaign.                           *)
RunSettles == status = "publishing" ~> status # "publishing" \/ crashes > 0

(* The owner is not left waiting on a job that will never retry itself.      *)
OwnerHearsOfExhaustion ==
  \A c \in Channels :
    c \in ExhaustedChannels ~> c \in ownerTold \/ crashes > 0

(* Material handed over is announced, once for each hand-over.              *)
HandOverIsAnnounced ==
  \A n \in 1..MaxRounds : rounds >= n ~> announced >= n \/ crashes > 0

(* Every run settles, every hand-over is announced, and no channel is given  *)
(* up in silence.                                                          *)
RunsAreSeenThrough == RunSettles /\ HandOverIsAnnounced /\ OwnerHearsOfExhaustion
===============================================================================
