------------------------ MODULE CampaignPipelineProofs ------------------------
(***************************************************************************)
(* The safety properties of CampaignPipeline for every number of handlers,  *)
(* channels, attempts, rounds and crashes.  The invariant is built in       *)
(* layers: types and what a pending write holds; the lock; what a run knows *)
(* of the jobs under the lock; what the owner said.                         *)
(***************************************************************************)
EXTENDS CampaignInvariant, CampaignRefinement, TLAPS

(* The status a run settles on says what the rows it listed say.           *)
LEMMA ProgressOfRows ==
  ASSUME NEW rows \in SUBSET JobStatuses
  PROVE  /\ PublishProgress(rows) \in {"publishing", "published", "failed",
                                      "partially_published"}
         /\ PublishProgress(rows) = "published" => rows = {"published"}
         /\ PublishProgress(rows) = "failed" => rows = {"failed"}
         /\ PublishProgress(rows) = "partially_published"
              => rows = {"published", "failed"}
<1>1. \/ rows = {} \/ rows = {"published"} \/ rows = {"failed"}
      \/ rows \cap {"queued", "publishing"} # {}
      \/ rows = {"published", "failed"}
  BY DEF JobStatuses
<1> QED
  BY <1>1 DEF PublishProgress
-------------------------------------------------------------------------------
(* Layer 1: types, and what a pending write holds.                         *)

IndType == TypeOK /\ WriteIntent

(* The initial state has the types, and no write is pending in it.         *)
LEMMA InitType == Init => IndType
<1> SUFFICES ASSUME Init PROVE IndType
  OBVIOUS
<1>1. CampaignOK
  <2>1. reviewEvents \in Seq(Decisions)
    BY DEF Init
  <2> QED BY <2>1 DEF Init, CampaignOK, CampaignStatuses
<1>2. JobsOK
  BY DEF Init, JobsOK
<1>3. LocalsOK
  BY DEF Init, LocalsOK, Labels, NoSnapshot
<1>4. WriteIntent
  BY DEF Init, WriteIntent
<1> QED BY <1>1, <1>2, <1>3, <1>4 DEF IndType, TypeOK

(* A status is written by a pending write alone, and a pending write holds one. *)
LEMMA CampaignKept ==
  ASSUME IndType, Next
  PROVE  CampaignOK'
<1>1. CASE Nudge
  BY <1>1
  DEF Nudge, CampaignOK, material, IndType, TypeOK
<1>2. ASSUME NEW h \in Handlers, Begin(h) \/ Continue(h) \/ Crash(h)
      PROVE  CampaignOK'
  <2>1. CASE ProductionWrite(h)
    <3>1. next[h] \in CampaignStatuses
      BY <2>1, <1>2
      DEF ProductionWrite, IndType, WriteIntent, CampaignStatuses
    <3> QED
      BY <2>1, <3>1
      DEF ProductionWrite, GuardedUpdate, NudgeAfterTransition, CampaignOK,
          IndType, TypeOK, material
  <2>2. CASE CopyWrite(h)
    BY <2>2, <1>2
    DEF CopyWrite, CampaignOK, material, IndType, TypeOK
  <2>3. CASE ButtonWrite(h)
    BY <2>3, <1>2
    DEF ButtonWrite, CampaignOK, material, IndType, TypeOK
  <2>4. CASE AssetWrite(h)
    BY <2>4, <1>2
    DEF AssetWrite, CampaignOK, material, IndType, TypeOK
  <2>5. CASE ReviewWrite(h)
    <3>1. next[h] \in CampaignStatuses
      BY <2>5, <1>2
      DEF ReviewWrite, IndType, WriteIntent, CampaignStatuses
    <3> QED
      BY <2>5, <3>1
      DEF ReviewWrite, GuardedUpdate, NudgeAfterTransition, CampaignOK,
          IndType, TypeOK, material
  <2>6. CASE OwnerWrite(h)
    <3>1. next[h] \in CampaignStatuses
      BY <2>6, <1>2 DEF OwnerWrite, IndType, WriteIntent, CampaignStatuses
    <3>2. reviewEvents' \in Seq(Decisions)
      BY <2>6 DEF OwnerWrite, IndType, TypeOK, CampaignOK
    <3> QED
      BY <2>6, <3>1, <3>2
      DEF OwnerWrite, GuardedUpdate, NudgeAfterTransition, CampaignOK,
          IndType, TypeOK, material
  <2>7. CASE PublishWrite(h)
    <3>1. next[h] \in CampaignStatuses
      BY <2>7, <1>2
      DEF PublishWrite, IndType, WriteIntent, CampaignStatuses
    <3> QED
      BY <2>7, <3>1
      DEF PublishWrite, GuardedUpdate, NudgeAfterTransition, CampaignOK,
          IndType, TypeOK, material
  <2>8. CASE PublishSettle(h)
    <3>1. next[h] \in CampaignStatuses
      BY <2>8, <1>2
      DEF PublishSettle, IndType, WriteIntent, CampaignStatuses
    <3> QED
      BY <2>8, <3>1
      DEF PublishSettle, GuardedUpdate, NudgeAfterTransition, CampaignOK,
          IndType, TypeOK, material
  <2>9. CASE
        \/ ProductionRead(h) \/ EditRead(h) \/ AssetRejected(h)
        \/ ReviewRead(h) \/ ReviewApply(h) \/ ReviewNotice(h) \/ OwnerOpen(h)
        \/ OwnerClose(h) \/ OwnerPost(h) \/ PublishRead(h) \/ PublishApply(h)
        \/ PublishLoad(h) \/ PublishSkip(h) \/ PublishReserve(h)
        \/ PublishClaim(h) \/ PublishCall(h) \/ PublishComplete(h)
        \/ PublishFail(h) \/ PublishList(h) \/ PublishProgressRead(h)
        \/ PublishNotice(h) \/ Refused(h) \/ LoseRace(h) \/ Crash(h)
    <3>1. UNCHANGED <<status, nudged, finalCopy, callToAction, processed,
                    reviewEvents>>
      BY <2>9
      DEF ProductionRead, EditRead, AssetRejected, ReviewRead, ReviewApply,
          ReviewNotice, OwnerOpen, OwnerClose, OwnerPost, PublishRead,
          PublishApply, PublishLoad, PublishSkip, PublishReserve,
          PublishClaim, PublishCall, PublishComplete, PublishFail,
          PublishList, PublishProgressRead, PublishNotice, Refused, LoseRace,
          Crash, ReadForUpdate, SettleJob, material
    <3> QED
      BY <3>1
      DEF CampaignOK, IndType, TypeOK
  <2> QED
    BY <1>2, <2>1, <2>2, <2>3, <2>4, <2>5, <2>6, <2>7, <2>8, <2>9
    DEF Begin, Continue
<1> QED BY <1>1, <1>2 DEF Next

(* Jobs, posts and notices are written by the publish run and the reviews.   *)
LEMMA JobsKept ==
  ASSUME IndType, Next
  PROVE  JobsOK'
<1>1. CASE Nudge
  BY <1>1
  DEF Nudge, JobsOK, jobs, notices, IndType, TypeOK
<1>2. ASSUME NEW h \in Handlers, Begin(h) \/ Continue(h) \/ Crash(h)
      PROVE  JobsOK'
  <2>1. CASE ReviewWrite(h)
    BY <2>1, <1>2
    DEF ReviewWrite, GuardedUpdate, JobsOK, jobs, notices, IndType, TypeOK
  <2>2. CASE ReviewNotice(h)
    BY <2>2 DEF ReviewNotice, Announce, JobsOK, IndType, TypeOK, jobs
  <2>3. CASE PublishClaim(h)
    <3>1. cur[h] \in Channels
      BY <2>3, <1>2 DEF PublishClaim, IndType, WriteIntent
    <3> QED
      BY <2>3, <3>1
      DEF PublishClaim, JobsOK, JobStatuses, IndType, TypeOK, jobs, notices
  <2>4. CASE PublishCall(h)
    <3>1. cur[h] \in Channels
      BY <2>4, <1>2 DEF PublishCall, IndType, WriteIntent
    <3> QED
      BY <2>4, <3>1 DEF PublishCall, JobsOK, IndType, TypeOK, jobs, notices
  <2>5. CASE PublishComplete(h)
    BY <2>5, <1>2
    DEF PublishComplete, SettleJob, JobStatuses, JobsOK, notices, IndType,
        TypeOK
  <2>6. CASE PublishFail(h)
    BY <2>6, <1>2
    DEF PublishFail, SettleJob, JobStatuses, JobsOK, notices, IndType, TypeOK
  <2>7. CASE PublishNotice(h)
    <3>1. todo[h] \subseteq Channels
      BY <1>2 DEF IndType, TypeOK, LocalsOK
    <3> QED
      BY <2>7, <3>1
      DEF PublishNotice, ChannelsToReport, JobsOK, IndType, TypeOK, jobs
  <2>8. CASE Crash(h)
    BY <2>8, <1>2
    DEF Crash, JobsOK, jobs, notices, IndType, TypeOK
  <2>9. CASE
        \/ ProductionRead(h) \/ ProductionWrite(h) \/ EditRead(h)
        \/ CopyWrite(h) \/ ButtonWrite(h) \/ AssetWrite(h)
        \/ AssetRejected(h) \/ ReviewRead(h) \/ ReviewApply(h)
        \/ OwnerOpen(h) \/ OwnerClose(h) \/ OwnerPost(h) \/ OwnerWrite(h)
        \/ PublishRead(h) \/ PublishApply(h) \/ PublishWrite(h)
        \/ PublishLoad(h) \/ PublishSkip(h) \/ PublishReserve(h)
        \/ PublishList(h) \/ PublishProgressRead(h) \/ PublishSettle(h)
        \/ Refused(h) \/ LoseRace(h)
    <3>1. UNCHANGED <<jobStatus, attempts, posts, announced, ownerTold, rounds,
                    nudges, crashes>>
      BY <2>9
      DEF ProductionRead, ProductionWrite, EditRead, CopyWrite, ButtonWrite,
          AssetWrite, AssetRejected, ReviewRead, ReviewApply, OwnerOpen,
          OwnerClose, OwnerPost, OwnerWrite, PublishRead, PublishApply,
          PublishWrite, PublishLoad, PublishSkip, PublishReserve, PublishList,
          PublishProgressRead, PublishSettle, Refused, LoseRace,
          ReadForUpdate, SettleJob, jobs, notices
    <3> QED
      BY <3>1
      DEF JobsOK, IndType, TypeOK
  <2> QED
    BY <1>2, <2>1, <2>2, <2>3, <2>4, <2>5, <2>6, <2>7, <2>8, <2>9
    DEF Begin, Continue
<1> QED BY <1>1, <1>2 DEF Next

(* A handler's locals hold what it read, and a position of its own.         *)
LEMMA LocalsKept ==
  ASSUME IndType, Next
  PROVE  LocalsOK'
<1>1. CASE Nudge
  BY <1>1
  DEF Nudge, locals, LocalsOK, IndType, TypeOK
<1>2. ASSUME NEW h \in Handlers, Begin(h) \/ Continue(h) \/ Crash(h)
      PROVE  LocalsOK'
  <2>1. CASE ProductionRead(h)
    BY <2>1, <1>2
    DEF ProductionRead, ReadForUpdate, CampaignStatuses, LocalsOK, CampaignOK,
        GoTo, Labels, RunLabels, IndType, TypeOK
  <2>2. CASE ProductionWrite(h)
    BY <2>2, <1>2
    DEF ProductionWrite, Return, NoSnapshot, LocalsOK, GoTo, Labels,
        RunLabels, IndType, TypeOK
  <2>3. CASE EditRead(h)
    BY <2>3, <1>2
    DEF EditRead, LocalsOK, GoTo, Labels, RunLabels, IndType, TypeOK
  <2>4. CASE CopyWrite(h)
    BY <2>4, <1>2
    DEF CopyWrite, Return, NoSnapshot, LocalsOK, GoTo, Labels, RunLabels,
        IndType, TypeOK
  <2>5. CASE ButtonWrite(h)
    BY <2>5, <1>2
    DEF ButtonWrite, Return, NoSnapshot, LocalsOK, GoTo, Labels, RunLabels,
        IndType, TypeOK
  <2>6. CASE AssetWrite(h)
    BY <2>6, <1>2
    DEF AssetWrite, Return, NoSnapshot, LocalsOK, GoTo, Labels, RunLabels,
        IndType, TypeOK
  <2>7. CASE AssetRejected(h)
    BY <2>7, <1>2
    DEF AssetRejected, Return, NoSnapshot, LocalsOK, GoTo, Labels, RunLabels,
        IndType, TypeOK
  <2>8. CASE ReviewRead(h)
    BY <2>8, <1>2
    DEF ReviewRead, LocalsOK, GoTo, Labels, RunLabels, IndType, TypeOK
  <2>9. CASE ReviewApply(h)
    BY <2>9, <1>2
    DEF ReviewApply, ReadForUpdate, CampaignStatuses, LocalsOK, CampaignOK,
        GoTo, Labels, RunLabels, IndType, TypeOK
  <2>10. CASE ReviewWrite(h)
    BY <2>10, <1>2
    DEF ReviewWrite, LocalsOK, GoTo, Labels, RunLabels, IndType, TypeOK
  <2>11. CASE ReviewNotice(h)
    BY <2>11, <1>2
    DEF ReviewNotice, Return, NoSnapshot, LocalsOK, GoTo, Labels, RunLabels,
        IndType, TypeOK
  <2>12. CASE OwnerOpen(h)
    BY <2>12, <1>2
    DEF OwnerOpen, Snapshot, LocalsOK, CampaignOK, JobsOK, GoTo, Labels,
        RunLabels, IndType, TypeOK
  <2>13. CASE OwnerClose(h)
    BY <2>13, <1>2
    DEF OwnerClose, Return, NoSnapshot, LocalsOK, GoTo, Labels, RunLabels,
        IndType, TypeOK
  <2>14. CASE OwnerPost(h)
    BY <2>14, <1>2
    DEF OwnerPost, ReadForUpdate, DecisionStatus, Decisions, CampaignStatuses,
        LocalsOK, CampaignOK, GoTo, Labels, RunLabels, IndType, TypeOK
  <2>15. CASE OwnerWrite(h)
    BY <2>15, <1>2
    DEF OwnerWrite, Return, NoSnapshot, LocalsOK, GoTo, Labels, RunLabels,
        IndType, TypeOK
  <2>16. CASE PublishRead(h)
    BY <2>16, <1>2
    DEF PublishRead, LocalsOK, CampaignOK, GoTo, Labels, RunLabels, IndType,
        TypeOK
  <2>17. CASE PublishApply(h)
    BY <2>17, <1>2
    DEF PublishApply, ReadForUpdate, CampaignStatuses, LocalsOK, CampaignOK,
        GoTo, Labels, RunLabels, IndType, TypeOK
  <2>18. CASE PublishWrite(h)
    BY <2>18, <1>2
    DEF PublishWrite, LocalsOK, GoTo, Labels, RunLabels, IndType, TypeOK
  <2>19. CASE PublishLoad(h)
    BY <2>19, <1>2
    DEF PublishLoad, Snapshot, LocalsOK, CampaignOK, JobsOK, GoTo, Labels,
        RunLabels, IndType, TypeOK
  <2>20. CASE PublishSkip(h)
    BY <2>20, <1>2
    DEF PublishSkip, LocalsOK, GoTo, Labels, RunLabels, IndType, TypeOK
  <2>21. CASE PublishReserve(h)
    <3>1. PICK c \in todo[h] : /\ cur' = [cur EXCEPT ![h] = c]
                             /\ seen' = [seen EXCEPT ![h] = jobStatus[c]]
      BY <2>21 DEF PublishReserve
    <3>2. c \in Channels /\ jobStatus[c] \in JobStatuses \cup {None}
      BY <3>1, <1>2 DEF IndType, TypeOK, LocalsOK, JobsOK
    <3> QED
      BY <2>21, <3>1, <3>2
      DEF PublishReserve, LocalsOK, GoTo, Labels, RunLabels, IndType, TypeOK
  <2>22. CASE PublishClaim(h)
    <3>1. CASE jobStatus[cur[h]] # seen[h] /\ seen[h] = None
      <4>1. Return(h)
        BY <2>22, <3>1 DEF PublishClaim
      <4> QED
        BY <4>1, <1>2
        DEF Return, NoSnapshot, LocalsOK, GoTo, Labels, IndType, TypeOK
    <3>2. CASE jobStatus[cur[h]] = seen[h] \/ seen[h] # None
      BY <2>22, <3>2
      DEF PublishClaim, LocalsOK, GoTo, Labels, RunLabels, IndType, TypeOK
    <3> QED BY <3>1, <3>2
  <2>23. CASE PublishCall(h)
    BY <2>23, <1>2
    DEF PublishCall, LocalsOK, GoTo, Labels, RunLabels, IndType, TypeOK
  <2>24. CASE PublishComplete(h)
    BY <2>24, <1>2
    DEF PublishComplete, SettleJob, LocalsOK, GoTo, Labels, RunLabels,
        IndType, TypeOK
  <2>25. CASE PublishFail(h)
    BY <2>25, <1>2
    DEF PublishFail, SettleJob, LocalsOK, GoTo, Labels, RunLabels, IndType,
        TypeOK
  <2>26. CASE PublishList(h)
    <3>1. ProgressOfJobs \in CampaignStatuses
      BY ProgressOfRows
      DEF ProgressOfJobs, CampaignStatuses, IndType, TypeOK, JobsOK
    <3> QED
      BY <2>26, <3>1, <1>2
      DEF PublishList, ExhaustedChannels, LocalsOK, GoTo, Labels, RunLabels,
          IndType, TypeOK
  <2>27. CASE PublishProgressRead(h)
    <3>1. CASE CanApply("UPDATE_PUBLISH_PROGRESS", status)
      <4>1. next' = [next EXCEPT ![h] = next[h]]
        BY <2>27, <3>1 DEF PublishProgressRead, ReadForUpdate
      <4> QED
        BY <2>27, <3>1, <4>1
        DEF PublishProgressRead, ReadForUpdate, LocalsOK, CampaignOK, GoTo,
            Labels, RunLabels, IndType, TypeOK
    <3>2. CASE ~CanApply("UPDATE_PUBLISH_PROGRESS", status)
      BY <2>27, <3>2
      DEF PublishProgressRead, LocalsOK, GoTo, Labels, IndType, TypeOK
    <3> QED BY <3>1, <3>2
  <2>28. CASE PublishSettle(h)
    BY <2>28, <1>2
    DEF PublishSettle, LocalsOK, GoTo, Labels, RunLabels, IndType, TypeOK
  <2>29. CASE PublishNotice(h)
    BY <2>29, <1>2
    DEF PublishNotice, Return, NoSnapshot, LocalsOK, GoTo, Labels, RunLabels,
        IndType, TypeOK
  <2>30. CASE Refused(h)
    BY <2>30, <1>2
    DEF Refused, Return, NoSnapshot, LocalsOK, GoTo, Labels, RunLabels,
        IndType, TypeOK
  <2>31. CASE LoseRace(h)
    BY <2>31, <1>2
    DEF LoseRace, Return, NoSnapshot, LocalsOK, GoTo, Labels, RunLabels,
        IndType, TypeOK
  <2>32. CASE Crash(h)
    BY <2>32, <1>2
    DEF Crash, Return, NoSnapshot, LocalsOK, GoTo, Labels, RunLabels, IndType,
        TypeOK
  <2> QED
    BY <1>2, <2>1, <2>2, <2>3, <2>4, <2>5, <2>6, <2>7, <2>8, <2>9, <2>10,
       <2>11, <2>12, <2>13, <2>14, <2>15, <2>16, <2>17, <2>18, <2>19, <2>20,
       <2>21, <2>22, <2>23, <2>24, <2>25, <2>26, <2>27, <2>28, <2>29, <2>30,
       <2>31, <2>32
    DEF Begin, Continue
<1> QED BY <1>1, <1>2 DEF Next

(* A status decided on stays the answer of the transition function.        *)
LEMMA IntentKept ==
  ASSUME IndType, Next
  PROVE  WriteIntent'
<1>1. CASE Nudge
  BY <1>1
  DEF Nudge, locals, WriteIntent, IndType, TypeOK
<1>2. ASSUME NEW h \in Handlers, Begin(h) \/ Continue(h) \/ Crash(h)
      PROVE  WriteIntent'
  <2>1. CASE ProductionRead(h)
    BY <2>1, <1>2
    DEF ProductionRead, ReadForUpdate, CanApply, Sources, WriteIntent,
        LocalsOK, GoTo, IndType, TypeOK
  <2>2. CASE ProductionWrite(h)
    BY <2>2, <1>2
    DEF ProductionWrite, Return, WriteIntent, LocalsOK, GoTo, IndType, TypeOK
  <2>3. CASE EditRead(h)
    BY <2>3, <1>2
    DEF EditRead, WriteIntent, LocalsOK, GoTo, IndType, TypeOK
  <2>4. CASE CopyWrite(h)
    BY <2>4, <1>2
    DEF CopyWrite, Return, WriteIntent, LocalsOK, GoTo, IndType, TypeOK
  <2>5. CASE ButtonWrite(h)
    BY <2>5, <1>2
    DEF ButtonWrite, Return, WriteIntent, LocalsOK, GoTo, IndType, TypeOK
  <2>6. CASE AssetWrite(h)
    BY <2>6, <1>2
    DEF AssetWrite, Return, WriteIntent, LocalsOK, GoTo, IndType, TypeOK
  <2>7. CASE AssetRejected(h)
    BY <2>7, <1>2
    DEF AssetRejected, Return, WriteIntent, LocalsOK, GoTo, IndType, TypeOK
  <2>8. CASE ReviewRead(h)
    BY <2>8, <1>2
    DEF ReviewRead, WriteIntent, LocalsOK, GoTo, IndType, TypeOK
  <2>9. CASE ReviewApply(h)
    BY <2>9, <1>2
    DEF ReviewApply, ReadForUpdate, CanApply, Sources, WriteIntent, LocalsOK,
        GoTo, IndType, TypeOK
  <2>10. CASE ReviewWrite(h)
    BY <2>10, <1>2
    DEF ReviewWrite, WriteIntent, LocalsOK, GoTo, IndType, TypeOK
  <2>11. CASE ReviewNotice(h)
    BY <2>11, <1>2
    DEF ReviewNotice, Return, WriteIntent, LocalsOK, GoTo, IndType, TypeOK
  <2>12. CASE OwnerOpen(h)
    BY <2>12, <1>2
    DEF OwnerOpen, WriteIntent, LocalsOK, GoTo, IndType, TypeOK
  <2>13. CASE OwnerClose(h)
    BY <2>13, <1>2
    DEF OwnerClose, Return, WriteIntent, LocalsOK, GoTo, IndType, TypeOK
  <2>14. CASE OwnerPost(h)
    BY <2>14, <1>2
    DEF OwnerPost, ReadForUpdate, CanApply, Sources, DecisionStatus,
        Decisions, WriteIntent, LocalsOK, GoTo, IndType, TypeOK
  <2>15. CASE OwnerWrite(h)
    BY <2>15, <1>2
    DEF OwnerWrite, Return, WriteIntent, LocalsOK, GoTo, IndType, TypeOK
  <2>16. CASE PublishRead(h)
    BY <2>16, <1>2
    DEF PublishRead, PublishActionFor, WriteIntent, LocalsOK, GoTo, IndType,
        TypeOK
  <2>17. CASE PublishApply(h)
    BY <2>17, <1>2
    DEF PublishApply, ReadForUpdate, CanApply, Sources, PublishActionFor,
        WriteIntent, LocalsOK, GoTo, IndType, TypeOK
  <2>18. CASE PublishWrite(h)
    BY <2>18, <1>2
    DEF PublishWrite, WriteIntent, LocalsOK, GoTo, IndType, TypeOK
  <2>19. CASE PublishLoad(h)
    BY <2>19, <1>2
    DEF PublishLoad, WriteIntent, LocalsOK, GoTo, IndType, TypeOK
  <2>20. CASE PublishSkip(h)
    BY <2>20, <1>2
    DEF PublishSkip, WriteIntent, LocalsOK, GoTo, IndType, TypeOK
  <2>21. CASE PublishReserve(h)
    BY <2>21, <1>2
    DEF PublishReserve, WriteIntent, LocalsOK, GoTo, IndType, TypeOK
  <2>22. CASE PublishClaim(h)
    BY <2>22, <1>2
    DEF PublishClaim, Return, WriteIntent, LocalsOK, GoTo, IndType, TypeOK
  <2>23. CASE PublishCall(h)
    BY <2>23, <1>2
    DEF PublishCall, WriteIntent, LocalsOK, GoTo, IndType, TypeOK
  <2>24. CASE PublishComplete(h)
    BY <2>24, <1>2
    DEF PublishComplete, SettleJob, WriteIntent, LocalsOK, GoTo, IndType,
        TypeOK
  <2>25. CASE PublishFail(h)
    BY <2>25, <1>2
    DEF PublishFail, SettleJob, WriteIntent, LocalsOK, GoTo, IndType, TypeOK
  <2>26. CASE PublishList(h)
    <3>1. ProgressOfJobs \in CampaignStatuses
      BY ProgressOfRows
      DEF ProgressOfJobs, CampaignStatuses, IndType, TypeOK, JobsOK
    <3> QED
      BY <2>26, <3>1, <1>2
      DEF PublishList, WriteIntent, LocalsOK, GoTo, IndType, TypeOK
  <2>27. CASE PublishProgressRead(h)
    BY <2>27, <1>2
    DEF PublishProgressRead, ReadForUpdate, CanApply, Sources, WriteIntent,
        LocalsOK, GoTo, IndType, TypeOK
  <2>28. CASE PublishSettle(h)
    BY <2>28, <1>2
    DEF PublishSettle, WriteIntent, LocalsOK, GoTo, IndType, TypeOK
  <2>29. CASE PublishNotice(h)
    BY <2>29, <1>2
    DEF PublishNotice, Return, WriteIntent, LocalsOK, GoTo, IndType, TypeOK
  <2>30. CASE Refused(h)
    BY <2>30, <1>2
    DEF Refused, Return, WriteIntent, LocalsOK, GoTo, IndType, TypeOK
  <2>31. CASE LoseRace(h)
    BY <2>31, <1>2
    DEF LoseRace, Return, WriteIntent, LocalsOK, GoTo, IndType, TypeOK
  <2>32. CASE Crash(h)
    BY <2>32, <1>2
    DEF Crash, Return, WriteIntent, LocalsOK, GoTo, IndType, TypeOK
  <2> QED
    BY <1>2, <2>1, <2>2, <2>3, <2>4, <2>5, <2>6, <2>7, <2>8, <2>9, <2>10,
       <2>11, <2>12, <2>13, <2>14, <2>15, <2>16, <2>17, <2>18, <2>19, <2>20,
       <2>21, <2>22, <2>23, <2>24, <2>25, <2>26, <2>27, <2>28, <2>29, <2>30,
       <2>31, <2>32
    DEF Begin, Continue
<1> QED BY <1>1, <1>2 DEF Next

(* TypeCorrect: every reachable state has the types, and a pending write     *)
(* holds a status the transition function gave for the status it expects.   *)
THEOREM TypeCorrect == Spec => [](TypeOK /\ WriteIntent)
<1>1. Init => IndType
  BY InitType
<1>2. IndType /\ [Next]_vars => IndType'
  <2> SUFFICES ASSUME IndType, [Next]_vars PROVE IndType'
    OBVIOUS
  <2>1. CASE Next
    BY <2>1, CampaignKept, JobsKept, LocalsKept, IntentKept DEF IndType, TypeOK
  <2>2. CASE UNCHANGED vars
    <3>1. CampaignOK'
      BY <2>2 DEF vars, material, CampaignOK, IndType, TypeOK
    <3>2. JobsOK'
      BY <2>2 DEF vars, jobs, notices, JobsOK, IndType, TypeOK
    <3>3. LocalsOK' /\ WriteIntent'
      BY <2>2 DEF vars, locals, LocalsOK, WriteIntent, IndType, TypeOK
    <3> QED BY <3>1, <3>2, <3>3 DEF IndType, TypeOK
  <2> QED BY <2>1, <2>2
<1> QED BY <1>1, <1>2, PTL DEF Spec, IndType
-------------------------------------------------------------------------------
(* Layer 2: the lock.                                                      *)

(* A status is written from another one, so whoever takes or leaves the lock *)
(* found the others outside.                                               *)
LEMMA LockKept ==
  ASSUME IndType, OneRunUnderLock, Next
  PROVE  OneRunUnderLock'
<1> USE DEF OneRunUnderLock, Running
<1>1. CASE Nudge
  BY <1>1 DEF Nudge, locals, NudgeGuard
<1>2. ASSUME NEW h \in Handlers, Begin(h) \/ Continue(h) \/ Crash(h)
      PROVE  OneRunUnderLock'
  <2> pc \in [Handlers -> Labels]
    BY DEF IndType, TypeOK, LocalsOK
  <2>1. CASE
        \/ ProductionWrite(h) \/ ReviewWrite(h) \/ OwnerWrite(h)
    <3>1. status # "publishing" /\ pc[h] \notin RunLabels
      BY <2>1, <1>2
      DEF ProductionWrite, ReviewWrite, OwnerWrite, GuardedUpdate, StatusGuard,
          IndType, WriteIntent, RunLabels
    <3>2. \A g \in Handlers : pc'[g] \notin RunLabels
      BY <2>1, <3>1
      DEF ProductionWrite, ReviewWrite, OwnerWrite, Return, GoTo, RunLabels
    <3> QED BY <3>2
  <2>2. CASE PublishWrite(h)
    <3>1. status # "publishing" /\ status' = "publishing"
      BY <2>2, <1>2
      DEF PublishWrite, GuardedUpdate, StatusGuard, IndType, WriteIntent
    <3>2. \A g \in Handlers : pc'[g] \in RunLabels => g = h
      BY <2>2, <3>1 DEF PublishWrite, GoTo
    <3> QED BY <3>1, <3>2
  <2>3. CASE PublishSettle(h)
    <3>1. \A g \in Handlers : pc[g] \in RunLabels => g = h
      BY <2>3, <1>2 DEF PublishSettle, RunLabels
    <3>2. \A g \in Handlers : pc'[g] \notin RunLabels
      BY <2>3, <3>1 DEF PublishSettle, GoTo, RunLabels
    <3> QED BY <3>2
  <2>4. CASE PublishProgressRead(h)
    <3>1. pc[h] \in RunLabels /\ status' = status
      BY <2>4 DEF PublishProgressRead, RunLabels
    <3>2. \A g \in Handlers : pc'[g] \in RunLabels => pc[g] \in RunLabels
      BY <2>4, <3>1, <1>2 DEF PublishProgressRead, ReadForUpdate, GoTo
    <3> QED BY <3>1, <3>2
  <2>5. CASE
        \/ PublishLoad(h) \/ PublishSkip(h) \/ PublishReserve(h)
        \/ PublishClaim(h) \/ PublishCall(h) \/ PublishComplete(h)
        \/ PublishFail(h) \/ PublishList(h)
    <3>1. pc[h] \in RunLabels /\ status' = status
      BY <2>5
      DEF PublishLoad, PublishSkip, PublishReserve, PublishClaim, PublishCall,
          PublishComplete, PublishFail, PublishList, SettleJob, RunLabels
    <3>2. \A g \in Handlers : g # h => pc'[g] = pc[g]
      BY <2>5
      DEF PublishLoad, PublishSkip, PublishReserve, PublishClaim, PublishCall,
          PublishComplete, PublishFail, PublishList, SettleJob, GoTo, Return
    <3>3. \A g \in Handlers : pc'[g] \in RunLabels => pc[g] \in RunLabels
      BY <3>1, <3>2
    <3> QED BY <3>1, <3>3
  <2>6. CASE
        \/ ProductionRead(h) \/ EditRead(h) \/ CopyWrite(h) \/ ButtonWrite(h)
        \/ AssetWrite(h) \/ AssetRejected(h) \/ ReviewRead(h)
        \/ ReviewApply(h) \/ ReviewNotice(h) \/ OwnerOpen(h) \/ OwnerClose(h)
        \/ OwnerPost(h) \/ Refused(h) \/ PublishRead(h) \/ PublishApply(h)
        \/ PublishNotice(h) \/ LoseRace(h) \/ Crash(h)
    <3>1. status' = status
      BY <2>6
      DEF ProductionRead, EditRead, CopyWrite, ButtonWrite, AssetWrite,
          AssetRejected, ReviewRead, ReviewApply, ReviewNotice, OwnerOpen,
          OwnerClose, OwnerPost, Refused, PublishRead, PublishApply,
          PublishNotice, LoseRace, Crash, ReadForUpdate
    <3>2. \A g \in Handlers : pc'[g] \in RunLabels => pc[g] \in RunLabels
      BY <2>6, <1>2
      DEF ProductionRead, EditRead, CopyWrite, ButtonWrite, AssetWrite,
          AssetRejected, ReviewRead, ReviewApply, ReviewNotice, OwnerOpen,
          OwnerClose, OwnerPost, Refused, PublishRead, PublishApply,
          PublishNotice, LoseRace, Crash, ReadForUpdate, GoTo, Return,
          RunLabels
    <3> QED BY <3>1, <3>2
  <2> QED
    BY <1>2, <2>1, <2>2, <2>3, <2>4, <2>5, <2>6
    DEF Begin, Continue
<1> QED BY <1>1, <1>2 DEF Next

(* OneRun: at any time at most one handler is inside a publish run, and the  *)
(* campaign's status is publishing while it is.                             *)
THEOREM OneRun == Spec => []OneRunUnderLock
<1>1. Init => OneRunUnderLock
  BY DEF Init, OneRunUnderLock, Running, RunLabels
<1>2. IndType /\ OneRunUnderLock /\ [Next]_vars => OneRunUnderLock'
  <2>1. ASSUME IndType, OneRunUnderLock, Next PROVE OneRunUnderLock'
    BY <2>1, LockKept
  <2>2. ASSUME OneRunUnderLock, UNCHANGED vars PROVE OneRunUnderLock'
    BY <2>2 DEF vars, locals, OneRunUnderLock, Running
  <2> QED BY <2>1, <2>2
<1> QED BY <1>1, <1>2, TypeCorrect, PTL DEF Spec, IndType
-------------------------------------------------------------------------------
(* Layer 3: under the lock, what a run read of the jobs stays true.         *)

RunInv ==
  /\ OneRunUnderLock /\ RunKnowledge /\ CallsArePaidFor
  /\ SettledAgreesWithJobs

(* A run on its own path: the others are outside, and the step moves the     *)
(* run alone.                                                              *)
LEMMA RunAlone ==
  ASSUME RunInv, NEW h \in Handlers, pc[h] \in RunLabels
  PROVE  /\ status = "publishing"
         /\ \A g \in Handlers : g # h => pc[g] \notin RunLabels
  BY DEF RunInv, OneRunUnderLock, Running

(* A step outside the run's own labels leaves the jobs alone, moves nobody   *)
(* to a label at which something is known of them, and does not settle.     *)
LEMMA AsideKeepsRunInv ==
  ASSUME IndType, RunInv,
         UNCHANGED <<jobs, posts>>,
         \A g \in Handlers :
           \/ pc'[g] \notin RunLabels \ {"publish.load", "publish.reserve"}
           \/ UNCHANGED <<pc[g], seen[g], next[g], cur[g]>>,
         \/ status' = status
         \/ status' \notin {"published", "failed", "partially_published"}
  PROVE  RunKnowledge' /\ CallsArePaidFor' /\ SettledAgreesWithJobs'
<1>1. UNCHANGED <<jobStatus, attempts, posts>>
  BY DEF jobs
<1>2. RunKnowledge'
  <2> SUFFICES ASSUME NEW g \in Handlers PROVE StillTrueFor(g)'
    BY DEF RunKnowledge
  <2>1. CASE pc'[g] \notin RunLabels \ {"publish.load", "publish.reserve"}
    BY <2>1 DEF StillTrueFor, RunLabels
  <2>2. CASE UNCHANGED <<pc[g], seen[g], next[g], cur[g]>>
    BY <1>1, <2>2 DEF RunInv, RunKnowledge, StillTrueFor, NotReservable,
                      AttemptsSpent, ProgressOfJobs
  <2> QED BY <2>1, <2>2
<1>3. CallsArePaidFor'
  BY <1>1 DEF RunInv, CallsArePaidFor
<1>4. SettledAgreesWithJobs'
  BY <1>1 DEF RunInv, SettledAgreesWithJobs
<1> QED BY <1>2, <1>3, <1>4

(* Every step keeps what a run knows, what it paid for and what is settled.  *)
LEMMA RunKept ==
  ASSUME IndType, RunInv, Next
  PROVE  RunKnowledge' /\ CallsArePaidFor' /\ SettledAgreesWithJobs'
<1> USE DEF IndType, TypeOK
<1>1. CASE Nudge
  BY <1>1, AsideKeepsRunInv DEF Nudge, locals
<1>2. ASSUME NEW h \in Handlers, Begin(h) \/ Continue(h) \/ Crash(h)
      PROVE  RunKnowledge' /\ CallsArePaidFor' /\ SettledAgreesWithJobs'
  <2> pc \in [Handlers -> Labels]
    BY DEF LocalsOK
  <2>1. CASE
        \/ ProductionRead(h) \/ EditRead(h) \/ CopyWrite(h) \/ ButtonWrite(h)
        \/ AssetWrite(h) \/ AssetRejected(h) \/ ReviewRead(h)
        \/ ReviewApply(h) \/ ReviewNotice(h) \/ OwnerOpen(h) \/ OwnerClose(h)
        \/ OwnerPost(h) \/ Refused(h) \/ LoseRace(h) \/ Crash(h)
        \/ PublishRead(h) \/ PublishApply(h) \/ PublishNotice(h)
        \/ PublishLoad(h) \/ PublishSkip(h)
    <3>1. UNCHANGED <<jobs, posts, status>>
      BY <2>1
      DEF ProductionRead, EditRead, CopyWrite, ButtonWrite, AssetWrite,
          AssetRejected, ReviewRead, ReviewApply, ReviewNotice, OwnerOpen,
          OwnerClose, OwnerPost, Refused, LoseRace, Crash, PublishRead,
          PublishApply, PublishNotice, PublishLoad, PublishSkip, ReadForUpdate
    <3>2. \A g \in Handlers :
            \/ pc'[g] \notin RunLabels \ {"publish.load", "publish.reserve"}
            \/ UNCHANGED <<pc[g], seen[g], next[g], cur[g]>>
      BY <2>1, <1>2
      DEF ProductionRead, EditRead, CopyWrite, ButtonWrite, AssetWrite,
          AssetRejected, ReviewRead, ReviewApply, ReviewNotice, OwnerOpen,
          OwnerClose, OwnerPost, Refused, LoseRace, Crash, PublishRead,
          PublishApply, PublishNotice, PublishLoad, PublishSkip,
          ReadForUpdate, Return, GoTo, LocalsOK, RunLabels
    <3> QED BY <3>1, <3>2, AsideKeepsRunInv
  <2>2. CASE
        \/ ProductionWrite(h) \/ ReviewWrite(h) \/ OwnerWrite(h)
        \/ PublishWrite(h)
    <3>1. /\ UNCHANGED <<jobs, posts>>
          /\ status' \notin {"published", "failed", "partially_published"}
      BY <2>2, <1>2
      DEF ProductionWrite, ReviewWrite, OwnerWrite, PublishWrite,
          GuardedUpdate, WriteIntent
    <3>2. \A g \in Handlers :
            \/ pc'[g] \notin RunLabels \ {"publish.load", "publish.reserve"}
            \/ UNCHANGED <<pc[g], seen[g], next[g], cur[g]>>
      BY <2>2
      DEF ProductionWrite, ReviewWrite, OwnerWrite, PublishWrite, Return,
          GoTo, LocalsOK, RunLabels
    <3> QED BY <3>1, <3>2, AsideKeepsRunInv
  <2>3. CASE
        \/ PublishReserve(h) \/ PublishClaim(h) \/ PublishCall(h)
        \/ PublishComplete(h) \/ PublishFail(h) \/ PublishList(h)
        \/ PublishProgressRead(h) \/ PublishSettle(h)
    <3> pc[h] \in RunLabels
      BY <2>3
      DEF PublishReserve, PublishClaim, PublishCall, PublishComplete,
          PublishFail, PublishList, PublishProgressRead, PublishSettle,
          SettleJob, RunLabels
    <3>1. status = "publishing"
      BY RunAlone
    <3>2. \A g \in Handlers : g # h => pc'[g] \notin RunLabels
      <4> SUFFICES ASSUME NEW g \in Handlers, g # h PROVE pc'[g] = pc[g]
        BY RunAlone
      <4> QED
        BY <2>3
        DEF PublishReserve, PublishClaim, PublishCall, PublishComplete,
            PublishFail, PublishList, PublishProgressRead, PublishSettle,
            SettleJob, Return, GoTo, ReadForUpdate
    <3>3. StillTrueFor(h)' => RunKnowledge'
      BY <3>2 DEF RunKnowledge, StillTrueFor, RunLabels
    <3>4. /\ StillTrueFor(h) /\ CallsArePaidFor /\ SettledAgreesWithJobs
          /\ h \in DOMAIN seen /\ h \in DOMAIN next /\ h \in DOMAIN cur
      BY DEF RunInv, RunKnowledge, LocalsOK
    <3>5. /\ jobStatus \in [Channels -> JobStatuses \cup {None}]
          /\ attempts \in [Channels -> Nat] /\ posts \in [Channels -> Nat]
      BY DEF JobsOK
    <3>6. CASE PublishReserve(h)
      <4>1. StillTrueFor(h)'
        BY <3>6, <3>4
        DEF PublishReserve, StillTrueFor, GoTo, jobs, NotReservable,
            AttemptsSpent
      <4>2. CallsArePaidFor' /\ SettledAgreesWithJobs'
        BY <3>6, <3>4
        DEF PublishReserve, CallsArePaidFor, SettledAgreesWithJobs, jobs
      <4> QED BY <4>1, <4>2, <3>3
    <3>7. CASE PublishClaim(h)
      <4>1. /\ jobStatus[cur[h]] = seen[h] /\ ~NotReservable(cur[h])
            /\ cur[h] \in Channels
        BY <3>7, <3>4 DEF PublishClaim, StillTrueFor, WriteIntent
      <4>2. /\ jobStatus' = [jobStatus EXCEPT ![cur[h]] = "publishing"]
            /\ attempts' = [attempts EXCEPT ![cur[h]] = @ + 1]
            /\ UNCHANGED <<posts, cur>>
            /\ pc' = [pc EXCEPT ![h] = "publish.call"]
            /\ status' = "publishing"
        BY <3>1, <3>7, <4>1 DEF PublishClaim, GoTo
      <4>3. attempts[cur[h]] < MaxAttempts
        BY <3>5, <4>1, MaxAttemptsAssumption DEF NotReservable, AttemptsSpent
      <4>4. StillTrueFor(h)'
        BY <3>4, <3>5, <4>1, <4>2 DEF StillTrueFor, CallsArePaidFor
      <4>5. CallsArePaidFor'
        BY <3>4, <3>5, <4>1, <4>2, <4>3, MaxAttemptsAssumption
        DEF CallsArePaidFor
      <4>6. SettledAgreesWithJobs'
        BY <4>2 DEF SettledAgreesWithJobs
      <4> QED BY <4>4, <4>5, <4>6, <3>3
    <3>8. CASE PublishCall(h)
      <4>1. /\ jobStatus[cur[h]] = "publishing" /\ cur[h] \in Channels
            /\ posts[cur[h]] < attempts[cur[h]]
        BY <3>8, <3>4 DEF PublishCall, StillTrueFor, WriteIntent
      <4>2. /\ UNCHANGED <<jobStatus, attempts, cur, status>>
            /\ \/ /\ posts' = [posts EXCEPT ![cur[h]] = @ + 1]
                  /\ pc'[h] \in {"publish.complete", "publish.fail"}
               \/ UNCHANGED posts /\ pc'[h] = "publish.fail"
        BY <3>8 DEF PublishCall, GoTo, jobs
      <4>3. StillTrueFor(h)'
        BY <3>5, <4>1, <4>2 DEF StillTrueFor
      <4>4. CallsArePaidFor'
        BY <3>4, <3>5, <4>1, <4>2 DEF CallsArePaidFor
      <4>5. SettledAgreesWithJobs'
        BY <3>4, <4>2 DEF SettledAgreesWithJobs
      <4> QED BY <4>3, <4>4, <4>5, <3>3
    <3>9. CASE PublishComplete(h) \/ PublishFail(h)
      <4>1. /\ pc'[h] = "publish.reserve" /\ status' = "publishing"
            /\ UNCHANGED <<attempts, posts>>
        BY <3>1, <3>9 DEF PublishComplete, PublishFail, SettleJob, GoTo
      <4>2. CallsArePaidFor'
        <5> SUFFICES ASSUME NEW c \in Channels,
                            jobStatus'[c] = "published", jobStatus[c] # "published"
                     PROVE  posts[c] > 0
          BY <3>4, <4>1 DEF CallsArePaidFor
        <5> QED
          BY <3>4, <3>5, <3>9
          DEF PublishComplete, PublishFail, SettleJob, StillTrueFor
      <4>3. StillTrueFor(h)' /\ SettledAgreesWithJobs'
        BY <4>1 DEF StillTrueFor, SettledAgreesWithJobs
      <4> QED BY <4>2, <4>3, <3>3
    <3>10. CASE PublishList(h)
      <4>1. StillTrueFor(h)'
        BY <3>10, <3>4 DEF PublishList, StillTrueFor, GoTo, jobs, ProgressOfJobs
      <4>2. CallsArePaidFor' /\ SettledAgreesWithJobs'
        BY <3>10, <3>4
        DEF PublishList, CallsArePaidFor, SettledAgreesWithJobs, jobs
      <4> QED BY <4>1, <4>2, <3>3
    <3>11. CASE PublishProgressRead(h)
      <4>1. CanApply("UPDATE_PUBLISH_PROGRESS", status)
        BY <3>1 DEF CanApply, Sources
      <4>2. StillTrueFor(h)'
        BY <3>11, <3>4, <4>1
        DEF PublishProgressRead, ReadForUpdate, StillTrueFor, GoTo, jobs,
            ProgressOfJobs
      <4>3. CallsArePaidFor' /\ SettledAgreesWithJobs'
        BY <3>11, <3>4
        DEF PublishProgressRead, CallsArePaidFor, SettledAgreesWithJobs, jobs
      <4> QED BY <4>2, <4>3, <3>3
    <3>12. CASE PublishSettle(h)
      <4>1. pc'[h] = "publish.notice" /\ UNCHANGED <<jobStatus, attempts, posts>>
        BY <3>12 DEF PublishSettle, GoTo, jobs
      <4>2. status' = ProgressOfJobs \/ status' = status
        BY <3>12, <3>4 DEF PublishSettle, GuardedUpdate, StillTrueFor
      <4>3. SettledAgreesWithJobs'
        <5>1. {jobStatus[c] : c \in Channels} \ {None} \subseteq JobStatuses
          BY <3>5
        <5> QED BY <3>4, <4>1, <4>2, <5>1, ProgressOfRows
                DEF SettledAgreesWithJobs, ProgressOfJobs
      <4>4. StillTrueFor(h)' /\ CallsArePaidFor'
        BY <3>4, <4>1 DEF StillTrueFor, CallsArePaidFor
      <4> QED BY <4>3, <4>4, <3>3
    <3> QED BY <2>3, <3>6, <3>7, <3>8, <3>9, <3>10, <3>11, <3>12
  <2> QED
    BY <1>2, <2>1, <2>2, <2>3 DEF Begin, Continue
<1> QED BY <1>1, <1>2 DEF Next

(* RunIsSafe: for any number of attempts, channels and handlers, every call  *)
(* of a channel was paid for by an attempt within the cap, and a settled     *)
(* campaign agrees with its jobs.                                           *)
THEOREM RunIsSafe ==
  Spec => [](RunKnowledge /\ CallsArePaidFor /\ SettledAgreesWithJobs)
<1>1. Init => RunInv
  <2> SUFFICES ASSUME Init PROVE RunInv
    OBVIOUS
  <2>1. OneRunUnderLock
    BY DEF Init, OneRunUnderLock, Running, RunLabels
  <2>2. RunKnowledge /\ SettledAgreesWithJobs
    BY DEF Init, RunKnowledge, StillTrueFor, SettledAgreesWithJobs
  <2>3. CallsArePaidFor
    BY NoneAssumption, MaxAttemptsAssumption
    DEF Init, CallsArePaidFor, JobStatuses
  <2> QED BY <2>1, <2>2, <2>3 DEF RunInv
<1>2. IndType /\ RunInv /\ [Next]_vars => RunInv'
  <2> SUFFICES ASSUME IndType, RunInv, [Next]_vars PROVE RunInv'
    OBVIOUS
  <2>1. CASE Next
    BY <2>1, LockKept, RunKept DEF RunInv
  <2>2. CASE UNCHANGED vars
    <3>1. OneRunUnderLock'
      BY <2>2 DEF vars, locals, RunInv, OneRunUnderLock, Running
    <3> QED
      BY <2>2, <3>1, AsideKeepsRunInv DEF vars, locals, RunInv
  <2> QED BY <2>1, <2>2
<1> QED BY <1>1, <1>2, TypeCorrect, PTL DEF Spec, IndType, RunInv

(* What a run knows when it settles the status is still true, and a settled *)
(* status says what became of the jobs, although the jobs were listed two   *)
(* statements earlier (publish/route.ts).                                   *)
THEOREM RunIsSoundEver == Spec => []RunIsSound
BY RunIsSafe, PTL DEF RunIsSound
-------------------------------------------------------------------------------
(* Layer 4: what the owner said.                                           *)

(* A settle writes one of the four statuses of an agreed campaign.          *)
LEMMA SettleStaysAgreed ==
  ASSUME IndType, RunInv, NEW h \in Handlers, PublishSettle(h)
  PROVE  status \in Agreed /\ status' \in Agreed
<1>1. status = "publishing"
  BY RunAlone DEF PublishSettle, RunLabels
<1>2. ProgressOfJobs \in Agreed
  <2>1. {jobStatus[c] : c \in Channels} \ {None} \subseteq JobStatuses
    BY DEF IndType, TypeOK, JobsOK
  <2> QED BY <2>1, ProgressOfRows DEF ProgressOfJobs, Agreed
<1>3. status' = ProgressOfJobs \/ status' = status
  BY DEF PublishSettle, GuardedUpdate, RunInv, RunKnowledge, StillTrueFor
<1> QED BY <1>1, <1>2, <1>3 DEF Agreed

(* Only the five guarded writes move the status, and only two of them the    *)
(* rounds or the events.                                                   *)
LEMMA QuietStep ==
  ASSUME NEW h \in Handlers,
         \/ ProductionRead(h) \/ EditRead(h) \/ CopyWrite(h)
         \/ ButtonWrite(h) \/ AssetWrite(h) \/ AssetRejected(h)
         \/ ReviewRead(h) \/ ReviewApply(h) \/ ReviewNotice(h)
         \/ OwnerOpen(h) \/ OwnerClose(h) \/ OwnerPost(h) \/ PublishRead(h)
         \/ PublishApply(h) \/ PublishLoad(h) \/ PublishSkip(h)
         \/ PublishReserve(h) \/ PublishClaim(h) \/ PublishCall(h)
         \/ PublishComplete(h) \/ PublishFail(h) \/ PublishList(h)
         \/ PublishProgressRead(h) \/ PublishNotice(h) \/ Refused(h)
         \/ LoseRace(h) \/ Crash(h)
  PROVE  UNCHANGED <<status, reviewEvents, rounds>>
  BY DEF ProductionRead, EditRead, CopyWrite, ButtonWrite, AssetWrite,
      AssetRejected, ReviewRead, ReviewApply, ReviewNotice, OwnerOpen,
      OwnerClose, OwnerPost, PublishRead, PublishApply, PublishLoad,
      PublishSkip, PublishReserve, PublishClaim, PublishCall, PublishComplete,
      PublishFail, PublishList, PublishProgressRead, PublishNotice, Refused,
      LoseRace, Crash, ReadForUpdate, SettleJob

LEMMA VerdictKept ==
  ASSUME IndType, RunInv, OneVerdictPerReview, Next
  PROVE  OneVerdictPerReview'
<1> USE DEF OneVerdictPerReview, Agreed
<1>1. CASE Nudge
  BY <1>1 DEF Nudge
<1>2. ASSUME NEW h \in Handlers, Begin(h) \/ Continue(h) \/ Crash(h)
      PROVE  OneVerdictPerReview'
  <2>1. rounds \in Nat /\ reviewEvents \in Seq(Decisions)
    BY DEF IndType, TypeOK, CampaignOK, JobsOK
  <2>2. CASE ProductionWrite(h) \/ PublishWrite(h)
    <3>1. /\ UNCHANGED <<reviewEvents, rounds>>
          /\ \/ /\ status \in {"submitted", "changes_requested"}
                /\ status' = "in_production"
             \/ /\ status \in {"approved", "failed", "partially_published"}
                /\ status' = "publishing"
      BY <2>2
      DEF ProductionWrite, PublishWrite, GuardedUpdate, StatusGuard, IndType,
          WriteIntent
    <3> QED BY <2>1, <3>1
  <2>3. CASE ReviewWrite(h)
    <3>1. /\ status = "in_production" /\ status' = "ready_for_review"
          /\ reviewEvents' = reviewEvents /\ rounds' = rounds + 1
      BY <2>3 DEF ReviewWrite, GuardedUpdate, StatusGuard, IndType, WriteIntent
    <3> QED BY <2>1, <3>1
  <2>4. CASE OwnerWrite(h)
    <3>1. /\ status = "ready_for_review" /\ rounds' = rounds
          /\ \E decision \in Decisions :
               /\ status' = DecisionStatus(decision)
               /\ reviewEvents' = Append(reviewEvents, decision)
      BY <2>4 DEF OwnerWrite, GuardedUpdate, StatusGuard, IndType, WriteIntent
    <3>2. PICK decision \in Decisions :
            /\ status' = DecisionStatus(decision)
            /\ reviewEvents' = Append(reviewEvents, decision)
      BY <3>1
    <3>3. /\ Len(reviewEvents) \in Nat
          /\ Len(reviewEvents') = Len(reviewEvents) + 1
          /\ reviewEvents'[Len(reviewEvents) + 1] = decision
          /\ \A i \in 1..Len(reviewEvents) : reviewEvents'[i] = reviewEvents[i]
      BY <2>1, <3>2
    <3>4. \A i \in 1..Len(reviewEvents) : reviewEvents[i] = "changes_requested"
      BY <3>1, <3>3
    <3>5. \/ decision = "go" /\ status' = "approved"
          \/ decision = "changes_requested" /\ status' = "changes_requested"
          \/ decision = "no_go" /\ status' = "rejected"
      BY <3>2 DEF Decisions, DecisionStatus
    <3> QED BY <2>1, <3>1, <3>3, <3>4, <3>5
  <2>5. CASE PublishSettle(h)
    <3>1. UNCHANGED <<reviewEvents, rounds>>
      BY <2>5 DEF PublishSettle
    <3>2. status \in Agreed /\ status' \in Agreed
      BY <2>5, SettleStaysAgreed
    <3> QED BY <2>1, <3>1, <3>2
  <2>6. CASE
        \/ ProductionRead(h) \/ EditRead(h) \/ CopyWrite(h) \/ ButtonWrite(h)
        \/ AssetWrite(h) \/ AssetRejected(h) \/ ReviewRead(h)
        \/ ReviewApply(h) \/ ReviewNotice(h) \/ OwnerOpen(h) \/ OwnerClose(h)
        \/ OwnerPost(h) \/ PublishRead(h) \/ PublishApply(h)
        \/ PublishLoad(h) \/ PublishSkip(h) \/ PublishReserve(h)
        \/ PublishClaim(h) \/ PublishCall(h) \/ PublishComplete(h)
        \/ PublishFail(h) \/ PublishList(h) \/ PublishProgressRead(h)
        \/ PublishNotice(h) \/ Refused(h) \/ LoseRace(h) \/ Crash(h)
    BY <2>6, QuietStep
  <2> QED
    BY <1>2, <2>2, <2>3, <2>4, <2>5, <2>6 DEF Begin, Continue
<1> QED BY <1>1, <1>2 DEF Next

(* OneVerdict: however many screens, double submits and lost races there     *)
(* are, every finished review has exactly one recorded verdict, and the      *)
(* status is the one the last verdict calls for.                            *)
THEOREM OneVerdict == Spec => []OneVerdictPerReview
<1>1. Init => OneVerdictPerReview
  BY DEF Init, OneVerdictPerReview, Agreed
<1>2. /\ IndType /\ RunInv /\ OneVerdictPerReview /\ [Next]_vars
      => OneVerdictPerReview'
  <2>1. ASSUME IndType, RunInv, OneVerdictPerReview, Next
        PROVE  OneVerdictPerReview'
    BY <2>1, VerdictKept
  <2>2. ASSUME OneVerdictPerReview, UNCHANGED vars PROVE OneVerdictPerReview'
    BY <2>2 DEF vars, OneVerdictPerReview
  <2> QED BY <2>1, <2>2
<1> QED BY <1>1, <1>2, TypeCorrect, OneRun, RunIsSafe, PTL
        DEF Spec, IndType, RunInv
-------------------------------------------------------------------------------
(* Layer 5: what the owner and the channels are handed.                     *)

(* Material never goes back to incomplete, so who has checked it may rely    *)
(* on it; a copy of it was taken when the status spoke for it.              *)
MaterialKnown ==
  /\ \A h \in Handlers :
       /\ pc[h] \in {"review.apply", "review.write"} => MaterialReady
       /\ pc[h] \in {"owner.screen", "owner.write", "publish.reserve", "publish.claim",
                     "publish.call", "publish.complete", "publish.fail"}
            => shown[h].assets # {} /\ shown[h].copy # None
  /\ status \notin {"submitted", "in_production", "changes_requested"}
       => MaterialReady

(* Where each guarded write may start and end.                              *)
LEMMA StatusMoves ==
  ASSUME IndType, RunInv, NEW h \in Handlers, Begin(h) \/ Continue(h) \/ Crash(h)
  PROVE  \/ UNCHANGED <<status, nudged, rounds>>
         \/ /\ status \in {"submitted", "changes_requested"}
            /\ status' = "in_production" /\ ~nudged' /\ rounds' = rounds
         \/ /\ pc[h] = "review.write" /\ status = "in_production"
            /\ status' = "ready_for_review" /\ ~nudged' /\ rounds' = rounds + 1
         \/ /\ status = "ready_for_review" /\ ~nudged' /\ rounds' = rounds
            /\ status' \in {"approved", "changes_requested", "rejected"}
         \/ /\ status \in Agreed \ {"published"} /\ status' \in Agreed
            /\ rounds' = rounds /\ (nudged' => nudged)
<1>1. CASE ProductionWrite(h)
  BY <1>1 DEF ProductionWrite, GuardedUpdate, StatusGuard, NudgeAfterTransition,
              IndType, WriteIntent
<1>2. CASE ReviewWrite(h)
  BY <1>2 DEF ReviewWrite, GuardedUpdate, StatusGuard, NudgeAfterTransition,
              IndType, WriteIntent
<1>3. CASE OwnerWrite(h)
  BY <1>3 DEF OwnerWrite, GuardedUpdate, StatusGuard, NudgeAfterTransition,
              IndType, WriteIntent
<1>4. CASE PublishWrite(h)
  BY <1>4 DEF PublishWrite, GuardedUpdate, StatusGuard, NudgeAfterTransition,
              IndType, WriteIntent, Agreed
<1>5. CASE PublishSettle(h)
  <2>1. status \in Agreed /\ status' \in Agreed /\ status = "publishing"
    BY <1>5, SettleStaysAgreed, RunAlone DEF PublishSettle, RunLabels
  <2> QED
    BY <1>5, <2>1 DEF PublishSettle, GuardedUpdate, NudgeAfterTransition
<1>6. CASE
      \/ ProductionRead(h) \/ EditRead(h) \/ CopyWrite(h) \/ ButtonWrite(h)
      \/ AssetWrite(h) \/ AssetRejected(h) \/ ReviewRead(h)
      \/ ReviewApply(h) \/ ReviewNotice(h) \/ OwnerOpen(h) \/ OwnerClose(h)
      \/ OwnerPost(h) \/ PublishRead(h) \/ PublishApply(h)
      \/ PublishLoad(h) \/ PublishSkip(h) \/ PublishReserve(h)
      \/ PublishClaim(h) \/ PublishCall(h) \/ PublishComplete(h)
      \/ PublishFail(h) \/ PublishList(h) \/ PublishProgressRead(h)
      \/ PublishNotice(h) \/ Refused(h) \/ LoseRace(h) \/ Crash(h)
  <2>1. UNCHANGED nudged
    BY <1>6
    DEF ProductionRead, EditRead, CopyWrite, ButtonWrite, AssetWrite,
        AssetRejected, ReviewRead, ReviewApply, ReviewNotice, OwnerOpen,
        OwnerClose, OwnerPost, PublishRead, PublishApply, PublishLoad,
        PublishSkip, PublishReserve, PublishClaim, PublishCall, PublishComplete,
        PublishFail, PublishList, PublishProgressRead, PublishNotice, Refused,
        LoseRace, Crash, ReadForUpdate, SettleJob
  <2> QED
    BY <1>6, <2>1, QuietStep
<1> QED
  BY <1>1, <1>2, <1>3, <1>4, <1>5, <1>6 DEF Begin, Continue

(* Posts and attempts are made under the lock alone.                        *)
LEMMA CallsUnderLock ==
  ASSUME IndType, RunInv, NEW h \in Handlers, Begin(h) \/ Continue(h) \/ Crash(h)
  PROVE  \/ UNCHANGED <<posts, attempts>>
         \/ status = "publishing" /\ status' = "publishing"
<1>1. CASE PublishClaim(h) \/ PublishCall(h)
  <2>1. status = "publishing"
    BY <1>1, RunAlone DEF PublishClaim, PublishCall, RunLabels
  <2> QED
    BY <1>1, <2>1 DEF PublishClaim, PublishCall
<1>2. CASE
      \/ ProductionRead(h) \/ EditRead(h) \/ CopyWrite(h) \/ ButtonWrite(h)
      \/ AssetWrite(h) \/ AssetRejected(h) \/ ReviewRead(h)
      \/ ReviewApply(h) \/ ReviewNotice(h) \/ OwnerOpen(h) \/ OwnerClose(h)
      \/ OwnerPost(h) \/ PublishRead(h) \/ PublishApply(h)
      \/ PublishLoad(h) \/ PublishSkip(h) \/ PublishReserve(h)
      \/ PublishComplete(h) \/ PublishFail(h) \/ PublishList(h)
      \/ PublishProgressRead(h) \/ PublishNotice(h) \/ Refused(h)
      \/ LoseRace(h) \/ Crash(h) \/ ProductionWrite(h) \/ ReviewWrite(h)
      \/ OwnerWrite(h) \/ PublishWrite(h) \/ PublishSettle(h)
  BY <1>2
  DEF ProductionRead, EditRead, CopyWrite, ButtonWrite, AssetWrite,
      AssetRejected, ReviewRead, ReviewApply, ReviewNotice, OwnerOpen,
      OwnerClose, OwnerPost, PublishRead, PublishApply, PublishLoad,
      PublishSkip, PublishReserve, PublishComplete, PublishFail, PublishList,
      PublishProgressRead, PublishNotice, Refused, LoseRace, Crash,
      ProductionWrite, ReviewWrite, OwnerWrite, PublishWrite, PublishSettle,
      SettleJob, jobs
<1> QED
  BY <1>1, <1>2 DEF Begin, Continue

(* No step takes material away, and a handler comes to the labels where      *)
(* material is at stake by a read of it.                                    *)
LEMMA MaterialGrows ==
  ASSUME IndType, NEW h \in Handlers, Begin(h) \/ Continue(h) \/ Crash(h), MaterialReady
  PROVE  MaterialReady'
<1>1. CASE CopyWrite(h)
  BY <1>1, NoneAssumption DEF CopyWrite, MaterialReady
<1>2. CASE ButtonWrite(h)
  BY <1>2 DEF ButtonWrite, MaterialReady
<1>3. CASE AssetWrite(h)
  BY <1>3 DEF AssetWrite, MaterialReady
<1>4. CASE ~CopyWrite(h) /\ ~ButtonWrite(h) /\ ~AssetWrite(h)
  BY <1>4
  DEF Begin, Continue,
      ProductionRead, EditRead, AssetRejected, ReviewRead, ReviewApply,
      ReviewNotice, OwnerOpen, OwnerClose, OwnerPost, PublishRead,
      PublishApply, PublishLoad, PublishSkip, PublishReserve, PublishClaim,
      PublishCall, PublishComplete, PublishFail, PublishList,
      PublishProgressRead, PublishNotice, Refused, LoseRace, Crash,
      ProductionWrite, ReviewWrite, OwnerWrite, PublishWrite, PublishSettle,
      ReadForUpdate, SettleJob, material, MaterialReady
<1> QED
  BY <1>1, <1>2, <1>3, <1>4

LEMMA MaterialKept ==
  ASSUME IndType, RunInv, MaterialKnown, NEW h \in Handlers,
         Begin(h) \/ Continue(h) \/ Crash(h)
  PROVE  MaterialKnown'
<1> DEFINE Checked == {"review.apply", "review.write"}
           Holding == {"owner.screen", "owner.write", "publish.reserve",
                       "publish.claim", "publish.call", "publish.complete",
                       "publish.fail"}
<1>1. MaterialReady => MaterialReady'
  BY MaterialGrows
<1>2. status' \notin {"submitted", "in_production", "changes_requested"} => MaterialReady'
  <2>1. status' \notin {"submitted", "in_production", "changes_requested"} => MaterialReady
    BY StatusMoves DEF MaterialKnown, Agreed
  <2> QED
    BY <1>1, <2>1
<1>3. \A g \in Handlers \ {h} : pc'[g] = pc[g] /\ shown'[g] = shown[g]
  BY DEF Begin, Continue, ProductionRead, ProductionWrite, EditRead, CopyWrite,
         ButtonWrite, AssetWrite, AssetRejected, ReviewRead, ReviewApply,
         ReviewWrite, ReviewNotice, OwnerOpen, OwnerClose, OwnerPost,
         OwnerWrite, PublishRead, PublishApply, PublishWrite, PublishLoad,
         PublishSkip, PublishReserve, PublishClaim, PublishCall,
         PublishComplete, PublishFail, PublishList, PublishProgressRead,
         PublishSettle, PublishNotice, Refused, LoseRace, Crash,
         ReadForUpdate, SettleJob, Return, GoTo, IndType, TypeOK, LocalsOK
<1>4. pc'[h] \in Checked => MaterialReady
  BY DEF MaterialKnown,
         Begin, Continue, ProductionRead, ProductionWrite, EditRead, CopyWrite,
         ButtonWrite, AssetWrite, AssetRejected, ReviewRead, ReviewApply,
         ReviewWrite, ReviewNotice, OwnerOpen, OwnerClose, OwnerPost,
         OwnerWrite, PublishRead, PublishApply, PublishWrite, PublishLoad,
         PublishSkip, PublishReserve, PublishClaim, PublishCall,
         PublishComplete, PublishFail, PublishList, PublishProgressRead,
         PublishSettle, PublishNotice, Refused, LoseRace, Crash,
         ReadForUpdate, SettleJob, Return, GoTo, IndType, TypeOK, LocalsOK
<1>5. pc'[h] \in Holding => shown'[h].assets # {} /\ shown'[h].copy # None
  <2>1. CASE OwnerOpen(h)
    BY <2>1 DEF OwnerOpen, Snapshot, MaterialKnown, MaterialReady, IndType, TypeOK, LocalsOK
  <2>2. CASE PublishLoad(h)
    <3>1. MaterialReady
      BY <2>2, RunAlone DEF PublishLoad, RunLabels, MaterialKnown
    <3> QED
      BY <2>2, <3>1 DEF PublishLoad, Snapshot, MaterialReady, IndType, TypeOK, LocalsOK
  <2>3. CASE ~OwnerOpen(h) /\ ~PublishLoad(h) /\ pc'[h] \in Holding
    <3>1. pc[h] \in Holding /\ shown'[h] = shown[h]
      BY <2>3
      DEF Begin, Continue, ProductionRead, ProductionWrite, EditRead, CopyWrite,
          ButtonWrite, AssetWrite, AssetRejected, ReviewRead, ReviewApply,
          ReviewWrite, ReviewNotice, OwnerClose, OwnerPost,
          OwnerWrite, PublishRead, PublishApply, PublishWrite,
          PublishSkip, PublishReserve, PublishClaim, PublishCall,
          PublishComplete, PublishFail, PublishList, PublishProgressRead,
          PublishSettle, PublishNotice, Refused, LoseRace, Crash,
          ReadForUpdate, SettleJob, Return, GoTo, IndType, TypeOK, LocalsOK
    <3> QED
      BY <3>1 DEF MaterialKnown
  <2> QED
    BY <2>1, <2>2, <2>3
<1> QED
  BY <1>1, <1>2, <1>3, <1>4, <1>5 DEF MaterialKnown

ReviewInv == NothingLiveWithoutConsent /\ MaterialKnown /\ OneNudgePerReview

LEMMA ReviewKept ==
  ASSUME IndType, RunInv, ReviewInv, Next
  PROVE  ReviewInv'
<1>0. rounds \in Nat /\ nudges \in Nat /\ nudged \in BOOLEAN
  BY DEF IndType, TypeOK, CampaignOK, JobsOK
<1>1. CASE Nudge
  <2>1. NothingLiveWithoutConsent' /\ MaterialKnown'
    BY <1>1 DEF Nudge, ReviewInv, NothingLiveWithoutConsent, MaterialKnown,
                MaterialReady, material, jobs, locals
  <2>2. OneNudgePerReview'
    BY <1>0, <1>1 DEF Nudge, NudgeGuard, ReviewInv, OneNudgePerReview
  <2> QED
    BY <2>1, <2>2 DEF ReviewInv
<1>2. ASSUME NEW h \in Handlers, Begin(h) \/ Continue(h) \/ Crash(h)
      PROVE  ReviewInv'
  <2>1. MaterialKnown'
    BY <1>2, MaterialKept DEF ReviewInv
  <2>2. NothingLiveWithoutConsent'
    BY <1>2, StatusMoves, CallsUnderLock DEF ReviewInv, NothingLiveWithoutConsent, Agreed
  <2>3. nudges' = nudges
    BY <1>2
    DEF Begin, Continue, ProductionRead, ProductionWrite, EditRead, CopyWrite,
        ButtonWrite, AssetWrite, AssetRejected, ReviewRead, ReviewApply,
        ReviewWrite, ReviewNotice, OwnerOpen, OwnerClose, OwnerPost,
        OwnerWrite, PublishRead, PublishApply, PublishWrite, PublishLoad,
        PublishSkip, PublishReserve, PublishClaim, PublishCall,
        PublishComplete, PublishFail, PublishList, PublishProgressRead,
        PublishSettle, PublishNotice, Refused, LoseRace, Crash,
        ReadForUpdate, SettleJob
  <2>4. OneNudgePerReview'
    <3>1. OneNudgePerReview
      BY DEF ReviewInv
    <3>2. CASE UNCHANGED <<status, nudged, rounds>>
      BY <2>3, <3>1, <3>2 DEF OneNudgePerReview
    <3>3. CASE status = "in_production" /\ ~nudged' /\ rounds' = rounds + 1
      BY <1>0, <2>3, <3>1, <3>3 DEF OneNudgePerReview
    <3>4. CASE status' # "ready_for_review" /\ ~nudged' /\ rounds' = rounds
      BY <1>0, <2>3, <3>1, <3>4 DEF OneNudgePerReview
    <3>5. CASE /\ status # "ready_for_review" /\ status' # "ready_for_review"
               /\ rounds' = rounds /\ (nudged' => nudged)
      <4>1. ~nudged /\ ~nudged'
        BY <3>1, <3>5 DEF OneNudgePerReview
      <4> QED
        BY <2>3, <3>1, <3>5, <4>1 DEF OneNudgePerReview
    <3> QED
      BY <1>2, <3>2, <3>3, <3>4, <3>5, StatusMoves DEF Agreed
  <2> QED
    BY <2>1, <2>2, <2>4 DEF ReviewInv
<1> QED
  BY <1>1, <1>2 DEF Next

(* ReviewIsSafe: nothing is called or live before the owner said go, what    *)
(* the owner and the channels are handed is whole although it was read       *)
(* statements ago, and each review is nudged for once.                      *)
THEOREM ReviewIsSafe == Spec => []ReviewIsRespected
<1>1. Init => ReviewInv
  BY DEF Init, ReviewInv, NothingLiveWithoutConsent, MaterialKnown, OneNudgePerReview
<1>2. IndType /\ RunInv /\ ReviewInv /\ [Next]_vars => ReviewInv'
  <2>1. ASSUME IndType, RunInv, ReviewInv, Next PROVE ReviewInv'
    BY <2>1, ReviewKept
  <2>2. ASSUME ReviewInv, UNCHANGED vars PROVE ReviewInv'
    BY <2>2 DEF vars, material, jobs, locals, ReviewInv, NothingLiveWithoutConsent,
                MaterialKnown, MaterialReady, OneNudgePerReview
  <2> QED BY <2>1, <2>2
<1>3. ReviewInv => ReviewIsRespected
  BY DEF ReviewInv, ReviewIsRespected, MaterialIsComplete, MaterialKnown, MaterialReady
<1> QED BY <1>1, <1>2, <1>3, TypeCorrect, OneRun, RunIsSafe, PTL
        DEF Spec, IndType, RunInv

(* A channel is worked on only while its job can still change.              *)
LEMMA FinishedKept ==
  ASSUME IndType, RunInv, NEW h \in Handlers, Begin(h) \/ Continue(h) \/ Crash(h),
         NEW c \in Channels, jobStatus[c] = "published" \/ c \in ExhaustedChannels
  PROVE  UNCHANGED <<jobStatus[c], attempts[c], posts[c]>>
<1>1. NotReservable(c) /\ jobStatus[c] # "publishing"
  BY DEF ExhaustedChannels, NotReservable
<1>2. StillTrueFor(h)
  BY DEF RunInv, RunKnowledge
<1>3. CASE PublishClaim(h)
  <2>1. cur[h] # c
    BY <1>1, <1>2, <1>3 DEF PublishClaim, StillTrueFor
  <2> QED
    BY <1>3, <2>1 DEF PublishClaim, jobs, IndType, TypeOK, JobsOK
<1>4. CASE PublishCall(h)
  <2>1. cur[h] # c
    BY <1>1, <1>2, <1>4 DEF PublishCall, StillTrueFor
  <2> QED
    BY <1>4, <2>1 DEF PublishCall, jobs, IndType, TypeOK, JobsOK
<1>5. CASE PublishComplete(h) \/ PublishFail(h)
  <2>1. cur[h] # c
    BY <1>1, <1>2, <1>5 DEF PublishComplete, PublishFail, StillTrueFor
  <2> QED
    BY <1>5, <2>1 DEF PublishComplete, PublishFail, SettleJob, IndType, TypeOK, JobsOK
<1>6. CASE
      \/ ProductionRead(h) \/ EditRead(h) \/ CopyWrite(h) \/ ButtonWrite(h)
      \/ AssetWrite(h) \/ AssetRejected(h) \/ ReviewRead(h)
      \/ ReviewApply(h) \/ ReviewNotice(h) \/ OwnerOpen(h) \/ OwnerClose(h)
      \/ OwnerPost(h) \/ PublishRead(h) \/ PublishApply(h)
      \/ PublishLoad(h) \/ PublishSkip(h) \/ PublishReserve(h) \/ PublishList(h)
      \/ PublishProgressRead(h) \/ PublishNotice(h) \/ Refused(h)
      \/ LoseRace(h) \/ Crash(h) \/ ProductionWrite(h) \/ ReviewWrite(h)
      \/ OwnerWrite(h) \/ PublishWrite(h) \/ PublishSettle(h)
  <2>1. UNCHANGED <<jobStatus, attempts, posts>>
    BY <1>6
    DEF ProductionRead, EditRead, CopyWrite, ButtonWrite, AssetWrite,
        AssetRejected, ReviewRead, ReviewApply, ReviewNotice, OwnerOpen,
        OwnerClose, OwnerPost, PublishRead, PublishApply, PublishLoad,
        PublishSkip, PublishReserve, PublishList, PublishProgressRead,
        PublishNotice, Refused, LoseRace, Crash, ProductionWrite, ReviewWrite,
        OwnerWrite, PublishWrite, PublishSettle, jobs
  <2> QED
    BY <2>1
<1> QED
  BY <1>3, <1>4, <1>5, <1>6 DEF Begin, Continue

(* NothingTakenBack: a job that is published or has failed for the last time *)
(* is left alone by every later run, and no race, screen or failed run takes *)
(* back what the owner agreed to or rejected.                               *)
THEOREM NothingTakenBack == Spec => NothingIsTakenBack
<1>1. ASSUME IndType, RunInv, [Next]_vars
      PROVE  \A c \in Channels :
               jobStatus[c] = "published" \/ c \in ExhaustedChannels
                 => UNCHANGED <<jobStatus[c], attempts[c], posts[c]>>
  <2>1. ASSUME NEW h \in Handlers, Begin(h) \/ Continue(h) \/ Crash(h)
        PROVE  \A c \in Channels :
                 jobStatus[c] = "published" \/ c \in ExhaustedChannels
                   => UNCHANGED <<jobStatus[c], attempts[c], posts[c]>>
    BY <1>1, <2>1, FinishedKept
  <2>2. CASE Nudge \/ UNCHANGED vars
    BY <2>2 DEF Nudge, vars, jobs
  <2> QED
    BY <1>1, <2>1, <2>2 DEF Next
<1>2. ASSUME IndType, RunInv, [Next]_vars
      PROVE  /\ status \in Agreed => status' \in Agreed
             /\ status = "rejected" => status' = "rejected"
             /\ status = "published" => status' = "published"
  <2>1. ASSUME NEW h \in Handlers, Begin(h) \/ Continue(h) \/ Crash(h)
        PROVE  /\ status \in Agreed => status' \in Agreed
               /\ status = "rejected" => status' = "rejected"
               /\ status = "published" => status' = "published"
    BY <1>2, <2>1, StatusMoves DEF Agreed
  <2>2. CASE Nudge \/ UNCHANGED vars
    BY <2>2 DEF Nudge, vars
  <2> QED
    BY <1>2, <2>1, <2>2 DEF Next
<1> QED
  BY <1>1, <1>2, TypeCorrect, OneRun, RunIsSafe, PTL
  DEF Spec, IndType, RunInv, NothingIsTakenBack, FinishedJobsAreLeftAlone, VerdictIsFinal

-------------------------------------------------------------------------------
(* The refinement: CampaignPipeline implements CampaignPromise.  Each guarded *)
(* write is the step of the promise it stands for, and every other statement *)
(* of every handler is invisible to it.                                     *)

Live == {c \in Channels : jobStatus[c] = "published"}

(* A step that leaves the columns and rows the promise reads is a stutter.  *)
LEMMA Stutter ==
  ASSUME QuestionOf(status)' = QuestionOf(status),
         (status = "publishing")' = (status = "publishing"),
         UNCHANGED <<reviewEvents, attempts>>, Live' = Live
  PROVE  UNCHANGED Promise!promiseVars
  BY DEF Promise!promiseVars, Live

(* Every step of the pipeline is a step of the promise or a stutter.        *)
LEMMA StepRefines ==
  ASSUME IndType, RunInv, Next
  PROVE  [Promise!PromiseNext]_Promise!promiseVars
<1>1. CASE Nudge
  <2>1. UNCHANGED <<status, reviewEvents, jobStatus, attempts>>
    BY <1>1 DEF Nudge, jobs
  <2> QED BY <2>1, Stutter DEF QuestionOf, Live
<1>2. ASSUME NEW h \in Handlers, Begin(h) \/ Continue(h) \/ Crash(h)
      PROVE  [Promise!PromiseNext]_Promise!promiseVars
  <2>1. /\ jobStatus \in [Channels -> JobStatuses \cup {None}]
        /\ attempts \in [Channels -> Nat] /\ posts \in [Channels -> Nat]
    BY DEF IndType, TypeOK, JobsOK
  <2>2. StillTrueFor(h) /\ CallsArePaidFor
    BY DEF RunInv, RunKnowledge
  <2>3. CASE ProductionWrite(h)
    <3>1. /\ status \in {"submitted", "changes_requested"}
          /\ status' = "in_production"
          /\ UNCHANGED <<reviewEvents, jobStatus, attempts>>
      BY <2>3 DEF ProductionWrite, GuardedUpdate, StatusGuard, IndType,
                  WriteIntent, jobs
    <3> QED BY <3>1, Stutter DEF QuestionOf, Agreed, Live
  <2>4. CASE ReviewWrite(h)
    <3>1. /\ status = "in_production" /\ status' = "ready_for_review"
          /\ UNCHANGED <<reviewEvents, jobStatus, attempts>>
      BY <2>4 DEF ReviewWrite, GuardedUpdate, StatusGuard, IndType,
                  WriteIntent, jobs
    <3>2. Promise!Ask
      BY <3>1 DEF Promise!Ask, QuestionOf, Agreed
    <3> QED BY <3>2 DEF Promise!PromiseNext
  <2>5. CASE OwnerWrite(h)
    <3>1. /\ status = "ready_for_review"
          /\ UNCHANGED <<jobStatus, attempts>>
          /\ \E decision \in Decisions :
               /\ status' = DecisionStatus(decision)
               /\ reviewEvents' = Append(reviewEvents, decision)
      BY <2>5 DEF OwnerWrite, GuardedUpdate, StatusGuard, IndType, WriteIntent,
                  jobs
    <3>2. PICK decision \in Decisions :
            /\ status' = DecisionStatus(decision)
            /\ reviewEvents' = Append(reviewEvents, decision)
      BY <3>1
    <3>3. \/ decision = "go" /\ status' = "approved"
          \/ decision = "changes_requested" /\ status' = "changes_requested"
          \/ decision = "no_go" /\ status' = "rejected"
      BY <3>2 DEF Decisions, DecisionStatus
    <3>4. \/ Promise!Decide("go", "agreed") \/ Promise!Decide("no_go", "refused")
          \/ Promise!Decide("changes_requested", "making")
      BY <3>1, <3>2, <3>3 DEF Promise!Decide, QuestionOf, Agreed
    <3> QED BY <3>4 DEF Promise!PromiseNext
  <2>6. CASE PublishWrite(h)
    <3>1. /\ status \in {"approved", "failed", "partially_published"}
          /\ status' = "publishing"
          /\ UNCHANGED <<reviewEvents, jobStatus, attempts>>
      BY <2>6 DEF PublishWrite, GuardedUpdate, StatusGuard, IndType,
                  WriteIntent, jobs
    <3>2. Promise!StartRun
      BY <3>1 DEF Promise!StartRun, QuestionOf, Agreed
    <3> QED BY <3>2 DEF Promise!PromiseNext
  <2>7. CASE PublishSettle(h)
    <3>1. status = "publishing" /\ status' \in Agreed
      BY <2>7, SettleStaysAgreed, RunAlone DEF PublishSettle, RunLabels
    <3>2. UNCHANGED <<reviewEvents, jobStatus, attempts>>
      BY <2>7 DEF PublishSettle, jobs
    <3>3. CASE status' = "publishing"
      BY <3>1, <3>2, <3>3, Stutter DEF Live, QuestionOf
    <3>4. CASE status' # "publishing"
      <4>1. Promise!EndRun
        BY <3>1, <3>2, <3>4 DEF Promise!EndRun, QuestionOf, Agreed
      <4> QED BY <4>1 DEF Promise!PromiseNext
    <3> QED BY <3>3, <3>4
  <2>8. CASE PublishClaim(h)
    <3>1. /\ jobStatus[cur[h]] = seen[h] /\ ~NotReservable(cur[h])
          /\ cur[h] \in Channels
      BY <2>2, <2>8 DEF PublishClaim, StillTrueFor, IndType, WriteIntent
    <3>2. /\ jobStatus' = [jobStatus EXCEPT ![cur[h]] = "publishing"]
          /\ attempts' = [attempts EXCEPT ![cur[h]] = @ + 1]
          /\ UNCHANGED <<reviewEvents, status>>
      BY <2>8, <3>1 DEF PublishClaim
    <3>3. /\ attempts[cur[h]] < MaxAttempts /\ jobStatus[cur[h]] # "published"
      BY <2>1, <3>1, MaxAttemptsAssumption DEF NotReservable, AttemptsSpent
    <3>4. Live' = Live
      BY <2>1, <3>1, <3>2, <3>3 DEF Live
    <3>5. status = "publishing"
      BY <2>8, RunAlone DEF PublishClaim, RunLabels
    <3>6. PICK c \in Channels : c = cur[h]
      BY <3>1
    <3>7. Promise!Try(c)
      BY <3>1, <3>2, <3>3, <3>4, <3>5, <3>6 DEF Promise!Try, QuestionOf, Live
    <3> QED BY <3>7 DEF Promise!PromiseNext
  <2>9. CASE PublishComplete(h)
    <3>1. /\ jobStatus[cur[h]] = "publishing" /\ cur[h] \in Channels
          /\ posts[cur[h]] > 0
      BY <2>2, <2>9 DEF PublishComplete, StillTrueFor, IndType, WriteIntent
    <3>2. /\ jobStatus' = [jobStatus EXCEPT ![cur[h]] = "published"]
          /\ UNCHANGED <<reviewEvents, status, attempts>>
      BY <2>9, <3>1 DEF PublishComplete, SettleJob
    <3>3. attempts[cur[h]] > 0
      BY <2>1, <2>2, <3>1 DEF CallsArePaidFor
    <3>4. Live' = Live \cup {cur[h]} /\ cur[h] \notin Live
      BY <2>1, <3>1, <3>2 DEF Live
    <3>5. status = "publishing"
      BY <2>9, RunAlone DEF PublishComplete, RunLabels
    <3>6. PICK c \in Channels : c = cur[h]
      BY <3>1
    <3>7. Promise!Land(c)
      BY <3>2, <3>3, <3>4, <3>5, <3>6 DEF Promise!Land, QuestionOf, Live
    <3> QED BY <3>7 DEF Promise!PromiseNext
  <2>10. CASE PublishFail(h)
    <3>1. jobStatus[cur[h]] = "publishing" /\ cur[h] \in Channels
      BY <2>2, <2>10 DEF PublishFail, StillTrueFor, IndType, WriteIntent
    <3>2. /\ jobStatus' = [jobStatus EXCEPT ![cur[h]] = "failed"]
          /\ UNCHANGED <<reviewEvents, status, attempts>>
      BY <2>10, <3>1 DEF PublishFail, SettleJob
    <3>3. Live' = Live
      BY <2>1, <3>1, <3>2 DEF Live
    <3> QED BY <3>2, <3>3, Stutter DEF QuestionOf
  <2>11. CASE
        \/ ProductionRead(h) \/ EditRead(h) \/ CopyWrite(h) \/ ButtonWrite(h)
        \/ AssetWrite(h) \/ AssetRejected(h) \/ ReviewRead(h)
        \/ ReviewApply(h) \/ ReviewNotice(h) \/ OwnerOpen(h) \/ OwnerClose(h)
        \/ OwnerPost(h) \/ PublishRead(h) \/ PublishApply(h)
        \/ PublishLoad(h) \/ PublishSkip(h) \/ PublishReserve(h)
        \/ PublishCall(h) \/ PublishList(h) \/ PublishProgressRead(h)
        \/ PublishNotice(h) \/ Refused(h) \/ LoseRace(h) \/ Crash(h)
    <3>1. UNCHANGED <<status, reviewEvents, jobStatus, attempts>>
      BY <2>11
      DEF ProductionRead, EditRead, CopyWrite, ButtonWrite, AssetWrite,
          AssetRejected, ReviewRead, ReviewApply, ReviewNotice, OwnerOpen,
          OwnerClose, OwnerPost, PublishRead, PublishApply, PublishLoad,
          PublishSkip, PublishReserve, PublishCall, PublishList,
          PublishProgressRead, PublishNotice, Refused, LoseRace, Crash,
          ReadForUpdate, jobs
    <3> QED BY <3>1, Stutter DEF QuestionOf, Live
  <2> QED
    BY <1>2, <2>3, <2>4, <2>5, <2>6, <2>7, <2>8, <2>9, <2>10, <2>11
    DEF Begin, Continue
<1> QED BY <1>1, <1>2 DEF Next

(* Refines: whatever handlers race, crash or are refused, the campaign's     *)
(* rows follow the promise: one verdict for each question, tries only after  *)
(* a go, in runs that do not overlap, within the cap and never where live.   *)
THEOREM Refines == Spec => PromiseKept
<1>1. Init => Promise!PromiseInit
  <2> SUFFICES ASSUME Init PROVE Promise!PromiseInit
    OBVIOUS
  <2>1. {c \in Channels : jobStatus[c] = "published"} = {}
    BY NoneAssumption DEF Init, JobStatuses
  <2> QED BY <2>1 DEF Init, Promise!PromiseInit, QuestionOf, Agreed
<1>2. /\ IndType /\ RunInv /\ [Next]_vars
      => [Promise!PromiseNext]_Promise!promiseVars
  <2>1. ASSUME IndType, RunInv, Next
        PROVE  [Promise!PromiseNext]_Promise!promiseVars
    BY <2>1, StepRefines
  <2>2. ASSUME UNCHANGED vars PROVE UNCHANGED Promise!promiseVars
    <3>1. UNCHANGED <<status, reviewEvents, jobStatus, attempts>>
      BY <2>2 DEF vars, jobs
    <3> QED BY <3>1, Stutter DEF QuestionOf, Live
  <2> QED BY <2>1, <2>2
<1> QED BY <1>1, <1>2, TypeCorrect, OneRun, RunIsSafe, PTL
        DEF Spec, IndType, RunInv, PromiseKept, Promise!PromiseSpec
===============================================================================
