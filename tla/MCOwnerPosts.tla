----------------------------- MODULE MCOwnerPosts -----------------------------
(***************************************************************************)
(* OwnerPosts on small instances.                                           *)
(***************************************************************************)
EXTENDS OwnerPosts, TLC

(* No property is temporal with fairness, so requests, events and drafts    *)
(* may be permuted.                                                         *)
Symmetry == Permutations(Handlers) \cup Permutations(Events) \cup Permutations(Drafts)

(* Turns alone, one draft published again and again, and both together.     *)
MCBudgets == {<<3, 0>>, <<1, 4>>, <<2, 2>>}
==============================================================================
