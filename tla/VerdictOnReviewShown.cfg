SPECIFICATION Spec
CONSTANTS
  Handlers = {h1, h2}
  Channels = {gbp}
  Copies = {c1}
  Buttons = {}
  Assets = {a1}
  None = None
  MaxAttempts = 1
  MaxRounds = 2
  MaxCrashes = 0
CHECK_DEADLOCK FALSE
PROPERTY VerdictIsOnTheReviewShown
