------------------------- MODULE MCCampaignPipeline -------------------------
(***************************************************************************)
(* CampaignPipeline on small instances.  The operators' POSTs and the       *)
(* owner's screens are interchangeable, and so are the channels: no action   *)
(* names one of them.                                                       *)
(***************************************************************************)
EXTENDS CampaignRefinement, CampaignInvariant, CampaignClaims, TLC

Symmetry ==
  Permutations(Handlers) \cup Permutations(Channels)
===============================================================================
