SPECIFICATION Spec
CONSTANTS
  Handlers = {h1, h2}
  Sessions = {c1}
  Events = {e1, e2}
  Drafts = {d1, d2}
  Platforms = {"GBP"}
  ClientKeys = {k1}
  FailureLimit = 2
  None = None
  Budgets <- MCBudgets
  MaxCuts = 1
SYMMETRY Symmetry
INVARIANTS TypeOK PostingIsSound
PROPERTIES SucceededIsFinal
CHECK_DEADLOCK FALSE
