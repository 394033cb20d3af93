------------------------------ MODULE CsRefinement ------------------------------
(***************************************************************************)
(* CsChat implements CsPromise: a row without its stamp is a line of the    *)
(* transcript, and the owner's widget is what is shown.                     *)
(***************************************************************************)
EXTENDS CsChat

ASSUME LineAssumption ==
  None \notin [conv : Convs, status : {"draft", "sent"}]

Line(m) == IF row[m] = None THEN None
           ELSE [conv |-> row[m].conv, status |-> row[m].status]

Promise == INSTANCE CsPromise
  WITH Answers <- AiSays, Others <- OwnerSays \cup AdminSays,
       line <- [m \in Messages |-> Line(m)],
       shown <- screen["widget"]

(* Every step of the chat is a step of the promise, or none: the transcript  *)
(* the owner sees only grows, shows nothing that was not said, and nothing   *)
(* of the assistant's that was neither approved nor trusted.                *)
TranscriptKept == Promise!Spec
===============================================================================
