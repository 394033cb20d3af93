------------------------------ MODULE MCAccounts ------------------------------
(***************************************************************************)
(* Databases on a small instance.                                          *)
(***************************************************************************)
EXTENDS Databases, TLC

MCVersions == {1, 2}
MCCreating == {1}
(* Two versions: all of it, a branch that lacks the first, an edited second.   *)
MCSources == {1 :> "a" @@ 2 :> "a", 2 :> "a", 1 :> "a" @@ 2 :> "b"}

Symmetry == Permutations(Handlers) \cup Permutations(Users)

(* States are told apart by the part that moves: the others never change.      *)
Moving ==
  CASE part = "accounts" -> <<part, vars>> [] part = "postgres" -> <<part, migrations>>
    [] part = "sqlite" -> <<part, sqlite>>
==============================================================================
