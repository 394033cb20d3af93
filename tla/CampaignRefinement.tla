-------------------------- MODULE CampaignRefinement --------------------------
(***************************************************************************)
(* CampaignPipeline implements CampaignPromise: the columns and rows of the *)
(* database, read as the question, the verdicts and the channels.           *)
(***************************************************************************)
EXTENDS CampaignPipeline

(* The status column as the state of the question put to the owner.        *)
QuestionOf(s) ==
  IF s \in Agreed THEN "agreed"
  ELSE IF s = "ready_for_review" THEN "asked"
  ELSE IF s = "rejected" THEN "refused"
  ELSE "making"

Promise == INSTANCE CampaignPromise WITH
  question <- QuestionOf(status),
  verdicts <- reviewEvents,
  running <- status = "publishing",
  tries <- attempts,
  live <- {c \in Channels : jobStatus[c] = "published"}

(* Every step of every handler, in any interleaving and with any crash, is   *)
(* one step of the promise or invisible to it.                              *)
PromiseKept == Promise!PromiseSpec
===============================================================================
