--------------------------- MODULE CampaignInvariant ---------------------------
(***************************************************************************)
(* The inductive invariant behind the safety properties of                  *)
(* CampaignPipeline: what a handler's locals still say of the database by   *)
(* the time it acts on them.                                               *)
(***************************************************************************)
EXTENDS CampaignPipeline

(* What the handlers that are about to write a status have decided on, and  *)
(* from which status: the transition function allowed it.                   *)
WriteIntent ==
  \A h \in Handlers :
    /\ pc[h] = "production.write"
         => seen[h] \in {"submitted", "changes_requested"}
            /\ next[h] = "in_production"
    /\ pc[h] = "review.write"
         => seen[h] = "in_production" /\ next[h] = "ready_for_review"
    /\ pc[h] = "owner.write"
         => seen[h] = "ready_for_review"
            /\ next[h] \in {"approved", "changes_requested", "rejected"}
    /\ pc[h] = "publish.apply"
         => seen[h] \in {"approved", "failed", "partially_published"}
    /\ pc[h] = "publish.write"
         => seen[h] \in {"approved", "failed", "partially_published"}
            /\ next[h] = "publishing"
    /\ pc[h] = "publish.progress" => next[h] \in CampaignStatuses
    /\ pc[h] = "publish.settle"
         => seen[h] = "publishing" /\ next[h] \in CampaignStatuses
    /\ pc[h] \in {"publish.claim", "publish.call", "publish.complete",
                  "publish.fail"} => cur[h] \in Channels

(* Under the lock, what a run read of the jobs is still true of them.       *)
StillTrueFor(h) ==
  /\ pc[h] = "publish.claim"
       => jobStatus[cur[h]] = seen[h] /\ ~NotReservable(cur[h])
  /\ pc[h] = "publish.call"
       => jobStatus[cur[h]] = "publishing" /\ posts[cur[h]] < attempts[cur[h]]
  /\ pc[h] = "publish.complete"
       => jobStatus[cur[h]] = "publishing" /\ posts[cur[h]] > 0
  /\ pc[h] = "publish.fail" => jobStatus[cur[h]] = "publishing"
  /\ pc[h] \in {"publish.progress", "publish.settle"}
       => next[h] = ProgressOfJobs

RunKnowledge == \A h \in Handlers : StillTrueFor(h)

(* A run computes the settled status from one listing of the jobs and writes *)
(* it two statements later (publish/route.ts): what it knows is still true  *)
(* when it writes, and a settled status says what became of the jobs.       *)
RunIsSound == RunKnowledge /\ SettledAgreesWithJobs
===============================================================================
