------------------------------- MODULE MCCsChat -------------------------------
(* Small instances of the support chat for TLC.                            *)
EXTENDS CsRefinement, CsInvariant, TLC

CONSTANTS c0, p1, p2, n1, o1, o2, w1, w2, k1

MCIds == << <<"ai", p1>>, <<"owner", p2>>, <<"admin", o1>>, <<"owner", p1>>,
            <<"admin", n1>>, <<"ai", p2>>, <<"admin", o2>> >>

MCModes == Modes

(* One fixed order of the random ids: an earlier thread's message may come   *)
(* before or after a later one's at the same tick.                         *)
MCIdRank == [m \in Messages |-> CHOOSE i \in DOMAIN MCIds : MCIds[i] = m]

(* A bound: an execution exercises the drafts, at one tick, of two answers or *)
(* under two operators; or the console's poll against one answered post and  *)
(* one notice.                                                             *)
DraftsAlone ==
  /\ clock = 1 /\ selected = None /\ pc[n1] = "idle"
  /\ pc[o2] = "idle" \/ pc[p2] = "idle"
ConsoleAlone ==
  /\ \A t \in {p2, o1, o2} : pc[t] = "idle"
  /\ \A w \in Writers : mode[w] = "human"
  /\ mode[c0] = "ai"
OneSide == DraftsAlone \/ ConsoleAlone
===============================================================================
