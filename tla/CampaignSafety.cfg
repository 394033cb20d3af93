SPECIFICATION Spec
CONSTANTS
  Handlers = {h1, h2}
  Channels = {gbp, instagram}
  Copies = {c1}
  Buttons = {}
  Assets = {a1}
  None = None
  MaxAttempts = 2
  MaxRounds = 2
  MaxCrashes = 1
SYMMETRY Symmetry
CHECK_DEADLOCK FALSE
INVARIANTS
  TypeOK
  OneRunUnderLock
  RunIsSound
  CallsArePaidFor
  OneVerdictPerReview
  ReviewIsRespected
PROPERTIES
  NothingIsTakenBack
  PromiseKept
