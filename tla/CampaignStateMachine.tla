------------------------- MODULE CampaignStateMachine -------------------------
(***************************************************************************)
(* The pure transition function every campaign handler goes through,       *)
(* transitionCampaignRequest in packages/domain, and the constants beside   *)
(* it.  An action the function throws on is one whose source set does not   *)
(* hold the current status.                                                 *)
(***************************************************************************)

CampaignStatuses ==
  {"submitted", "in_production", "ready_for_review", "approved",
   "changes_requested", "rejected", "publishing", "published",
   "partially_published", "failed"}

JobStatuses == {"queued", "publishing", "published", "failed"}

Decisions == {"go", "no_go", "changes_requested"}

(* The statuses each action may start from.                                *)
Sources ==
  [START_PRODUCTION        |-> {"submitted", "changes_requested"},
   SUBMIT_FOR_REVIEW       |-> {"in_production"},
   SUBMIT_REVIEW_DECISION  |-> {"ready_for_review"},
   START_PUBLISHING        |-> {"approved"},
   RETRY_PUBLISHING        |-> {"failed", "partially_published"},
   UPDATE_PUBLISH_PROGRESS |-> {"publishing"}]

CanApply(action, status) == status \in Sources[action]

\* Plausible bug: the decision's own name written as the status.
DecisionStatusVerbatim(decision) == decision

\* Plausible bug: anything short of a rejection is taken for consent.
DecisionStatusLenient(decision) ==
  IF decision = "no_go" THEN "rejected" ELSE "approved"

DecisionStatus(decision) ==
  CASE decision = "go"                -> "approved"
    [] decision = "changes_requested" -> "changes_requested"
    [] decision = "no_go"             -> "rejected"

\* Plausible bug: a mixed outcome is taken for a run still under way.
PublishProgressMixed(jobs) ==
  IF jobs \in {{"published"}, {"failed"}} THEN CHOOSE j \in jobs : TRUE
  ELSE "publishing"

(* The settled status of a run, from the set of statuses its jobs have.    *)
PublishProgress(jobs) ==
  CASE jobs = {}                                      -> "publishing"
    [] jobs = {"published"}                           -> "published"
    [] jobs = {"failed"}                              -> "failed"
    [] jobs \cap {"queued", "publishing"} # {}        -> "publishing"
    [] jobs = {"published", "failed"}                 -> "partially_published"

(* publishActionForStatus: which action a publish POST stands for.         *)
PublishActionFor(status) ==
  IF status = "approved" THEN "START_PUBLISHING"
  ELSE IF status \in {"failed", "partially_published"}
  THEN "RETRY_PUBLISHING"
  ELSE "none"
===============================================================================
