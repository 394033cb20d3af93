------------------------------- MODULE CsPromise -------------------------------
(***************************************************************************)
(* What the support chat promises, without threads, stamps or cursors: one  *)
(* transcript that only grows.  An answer of the assistant is proposed to   *)
(* an operator and approved or withdrawn, or said at once where an operator *)
(* trusts the assistant; a screen shows what has been said.                 *)
(***************************************************************************)
CONSTANTS Answers, Others, Convs, None

VARIABLES line, trusted, shown
vars == <<line, trusted, shown>>

Sayings == Answers \cup Others
Said == {m \in Sayings : line[m] # None /\ line[m].status = "sent"}
Proposed == {m \in Sayings : line[m] # None /\ line[m].status = "draft"}

Init ==
  /\ line = [m \in Sayings |-> None]
  /\ trusted \in SUBSET Convs /\ shown = {}

Put(m, c, status) == line' = [line EXCEPT ![m] = [conv |-> c, status |-> status]]

Say(m, c) ==
  /\ line[m] = None
  /\ m \in Answers => c \in trusted
  /\ Put(m, c, "sent")
  /\ UNCHANGED <<trusted, shown>>

Propose(m, c) ==
  /\ line[m] = None
  /\ Put(m, c, "draft")
  /\ UNCHANGED <<trusted, shown>>

Approve(m) ==
  /\ m \in Proposed
  /\ Put(m, line[m].conv, "sent")
  /\ UNCHANGED <<trusted, shown>>

Withdraw(S) ==
  /\ S \subseteq Proposed
  /\ line' = [m \in Sayings |-> IF m \in S THEN None ELSE line[m]]
  /\ UNCHANGED <<trusted, shown>>

Trust(c) ==
  /\ trusted' = trusted \cup {c}
  /\ UNCHANGED <<line, shown>>

Show ==
  /\ shown' \in SUBSET Said
  /\ shown \subseteq shown'
  /\ UNCHANGED <<line, trusted>>

Next ==
  \/ \E m \in Sayings, c \in Convs : Say(m, c)
  \/ \E m \in Answers, c \in Convs : Propose(m, c)
  \/ \E m \in Answers : Approve(m)
  \/ \E S \in SUBSET Answers : Withdraw(S)
  \/ \E c \in Convs : Trust(c)
  \/ Show

Spec == Init /\ [][Next]_vars
===============================================================================
