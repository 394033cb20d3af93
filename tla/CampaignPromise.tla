--------------------------- MODULE CampaignPromise ---------------------------
(***************************************************************************)
(* What a campaign promises the owner, without handlers, rows or races: the *)
(* operator asks, the owner gives one verdict for each question, and only   *)
(* after a go are channels tried, in runs that never overlap, each at most  *)
(* MaxAttempts times and never again once the campaign is live there.       *)
(***************************************************************************)
EXTENDS Integers, Sequences

CONSTANTS Channels, MaxAttempts

VARIABLES
  question,   \* "making", "asked", "agreed" or "refused"
  verdicts,   \* the owner's verdicts, in order
  running,    \* a publish run is under way
  tries,      \* attempts taken at each channel
  live        \* channels recorded as published

promiseVars == <<question, verdicts, running, tries, live>>

PromiseInit ==
  /\ question = "making" /\ verdicts = <<>>
  /\ running = FALSE
  /\ tries = [c \in Channels |-> 0] /\ live = {}

Ask ==
  /\ question = "making"
  /\ question' = "asked"
  /\ UNCHANGED <<verdicts, running, tries, live>>

Decide(verdict, answer) ==
  /\ question = "asked"
  /\ verdicts' = Append(verdicts, verdict)
  /\ question' = answer
  /\ UNCHANGED <<running, tries, live>>

StartRun ==
  /\ question = "agreed" /\ ~running
  /\ running' = TRUE
  /\ UNCHANGED <<question, verdicts, tries, live>>

Try(c) ==
  /\ running /\ c \notin live /\ tries[c] < MaxAttempts
  /\ tries' = [tries EXCEPT ![c] = @ + 1]
  /\ UNCHANGED <<question, verdicts, running, live>>

Land(c) ==
  /\ running /\ tries[c] > 0 /\ c \notin live
  /\ live' = live \cup {c}
  /\ UNCHANGED <<question, verdicts, running, tries>>

EndRun ==
  /\ running
  /\ running' = FALSE
  /\ UNCHANGED <<question, verdicts, tries, live>>

PromiseNext ==
  \/ Ask
  \/ Decide("go", "agreed") \/ Decide("no_go", "refused")
  \/ Decide("changes_requested", "making")
  \/ StartRun \/ EndRun
  \/ \E c \in Channels : Try(c) \/ Land(c)

PromiseSpec == PromiseInit /\ [][PromiseNext]_promiseVars
===============================================================================
