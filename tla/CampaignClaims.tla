---------------------------- MODULE CampaignClaims ----------------------------
(***************************************************************************)
(* What a document of the repository says of a campaign and the code does   *)
(* not do.                                                                 *)
(***************************************************************************)
EXTENDS CampaignPipeline

(* delivery-plan.md, stale-screen test: approving a request "whose status    *)
(* changed underneath" the screen is rejected.  The review route compares   *)
(* with the status it reads itself, which may have come round again.        *)
VerdictIsOnTheReviewShown ==
  [][\A h \in Handlers :
       pc[h] = "owner.write" /\ reviewEvents' # reviewEvents /\ pc'[h] = "idle"
          => shown[h].round = rounds]_vars
===============================================================================
