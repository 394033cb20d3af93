------------------------------ MODULE GbpAccess ------------------------------
(***************************************************************************)
(* The states of an organization's access to a store's Google listing and   *)
(* the moves between them (packages/domain/src/gbp-access.ts).  Operators   *)
(* take every step by hand; the machine only refuses incoherent jumps.      *)
(***************************************************************************)

AccessStates ==
  {"not_requested", "adoption_review", "invited", "pending", "granted",
   "revoked", "blocked"}

(* confirmAdoptionSourceStates and attachLocationSourceStates.             *)
ConfirmFrom == {"adoption_review", "blocked"}
AttachFrom == {"not_requested", "adoption_review", "blocked"}

(* The natural moves: action, the states it is taken from, where it leads.  *)
(* blocked is a detour that every forward move accepts.                     *)
NaturalMoves ==
  [SEND_INVITE      |-> [from |-> {"not_requested", "blocked"}, to |-> "invited"],
   MARK_PENDING     |-> [from |-> {"invited", "blocked"}, to |-> "pending"],
   CONFIRM_ADOPTION |-> [from |-> ConfirmFrom, to |-> "granted"],
   REJECT_ADOPTION  |-> [from |-> {"adoption_review"}, to |-> "blocked"],
   ATTACH_LOCATION  |-> [from |-> AttachFrom, to |-> "granted"],
   GRANT            |-> [from |-> {"invited", "pending", "blocked"}, to |-> "granted"],
   REVOKE           |-> [from |-> {"granted"}, to |-> "revoked"],
   BLOCK            |-> [from |-> {"not_requested", "invited", "pending"},
                         to |-> "blocked"]]

AccessActions == DOMAIN NaturalMoves \cup {"OVERRIDE"}

(* transitionGbpAccess: the states action a may lead to from `current`; the *)
(* empty set is the thrown InvalidGbpAccessTransitionError.  An override is *)
(* refused only when it would change nothing.                               *)
Transition(current, a) ==
  IF a = "OVERRIDE" THEN AccessStates \ {current}
  ELSE IF current \in NaturalMoves[a].from THEN {NaturalMoves[a].to} ELSE {}
==============================================================================
