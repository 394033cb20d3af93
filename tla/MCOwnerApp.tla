------------------------------ MODULE MCOwnerApp ------------------------------
(***************************************************************************)
(* OwnerApp on small instances.                                             *)
(***************************************************************************)
EXTENDS OwnerApp, TLC

CONSTANTS n1, n2, p1, p2, p3, Old, New

MCGaps == n1 :> Fields @@ n2 :> {}

(* p3 is a photograph that is refused.  Submissions of two photographs, many   *)
(* of one, or a reporting operator beside them.                             *)
MCPhotos == {p1, p2, p3}
MCSelections == {<<p1>>, <<p1, p2>>, <<p3>>}
Limit(submissions, chosen, reports) ==
  [submissions |-> submissions, chosen |-> chosen, reports |-> reports]
MCLimits ==
  {Limit(2, MCSelections, FALSE), Limit(3, {<<p1>>}, FALSE), Limit(1, MCSelections, TRUE)}

(* A name, as it is written in front of a post.                              *)
MCTyped == {[name |-> n1, way |-> "at"]}

(* Rows that change, that refer to a later row, and that go away.              *)
MCStoreIds == {"s1", "s2"}
MCDrafts == {1, 2}
Draft(store, revises) == [store |-> store, revises |-> revises]
World(one, two, first, second) ==
  [stores |-> "s1" :> one @@ "s2" :> two, drafts |-> 1 :> first @@ 2 :> second]
FirstWorld == World(Old, None, Draft("s1", None), None)
MCWorlds == {FirstWorld, World(New, Old, Draft("s1", 2), Draft("s2", None))}

(* The parts that do not move start in one state.                            *)
InitAtRest ==
  /\ InitParts
  /\ part # "intake" => limit = Limit(1, MCSelections, TRUE)
  /\ part # "link" => signedIn = n1
  /\ IF part = "import" THEN production => source = FirstWorld /\ target = FirstWorld
     ELSE source = FirstWorld /\ target = FirstWorld /\ ~production

App == InitAtRest /\ [][NextPart]_appVars

(* States are told apart by the part that moves: the others never change.      *)
Moving ==
  CASE part = "onboarding" -> <<part, vars>> [] part = "intake" -> <<part, intakeForm>>
    [] part = "trail" -> <<part, trail>> [] part = "link" -> <<part, linking>>
    [] part = "posting" -> <<part, posting>> [] part = "import" -> <<part, importing>>
===============================================================================
