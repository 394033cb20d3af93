---------------------------- MODULE MCInboxConsole ----------------------------
(***************************************************************************)
(* OperatorScreens on small instances.                                      *)
(***************************************************************************)
EXTENDS OperatorScreens

MCFlights == {1, 2}
MCLines == {1, 2}

Budget(changes, clicked, cuts, ticks) ==
  [changes |-> changes, clicks |-> clicked, cuts |-> cuts, ticks |-> ticks]
NoBudget == Budget(0, 0, 0, 0)

(* Many clicks, overlapping polls, both with a failure.                     *)
MCBudgets ==
  {NoBudget, Budget(1, 3, 0, 1), Budget(3, 1, 0, 2), Budget(1, 2, 1, 2)}

(* Two buttons and an answer that fails, or one beside changes by others.    *)
Effort(presses, moves, cuts) == [presses |-> presses, moves |-> moves, cuts |-> cuts]
MCEfforts == {Effort(2, 0, 1), Effort(1, 2, 0)}

(* The screens that do not move start in one state.                         *)
InitAtRest ==
  /\ InitScreens
  /\ part = "inbox" <=> budget # NoBudget
  /\ part # "queue" => \A r \in Requests : row[r] = Queue!Fresh
  /\ part = "queue" => LET late == CHOOSE r \in Requests : TRUE
                       IN  row[late] \in {Queue!Worked(late), Queue!Approved(late)}
  /\ part # "stores" => (\A s \in Shops : request[s] = Stores!NoRequest)
                         /\ effort = Effort(2, 0, 1)

(* Only the inbox needs fairness, for its polls; without a budget its        *)
(* actions are never enabled, so in the other parts it asks for nothing.     *)
Screens ==
  /\ InitAtRest /\ [][NextScreen]_<<part, vars, queueScreen, storesScreen>>
  /\ Fairness
==============================================================================
