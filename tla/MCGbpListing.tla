----------------------------- MODULE MCGbpListing -----------------------------
(***************************************************************************)
(* GbpListing on small instances.  Requests are interchangeable, and so are *)
(* the stores and the listings of one kind.                                 *)
(***************************************************************************)
EXTENDS GbpListing, TLC

Symmetry ==
  Permutations(Requests) \cup Permutations(Stores) \cup Permutations(Hand)
==============================================================================
