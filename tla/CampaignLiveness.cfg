SPECIFICATION FairSpec
CONSTANTS
  Handlers = {h1, h2}
  Channels = {gbp, instagram}
  Copies = {c1}
  Buttons = {}
  Assets = {a1}
  None = None
  MaxAttempts = 1
  MaxRounds = 2
  MaxCrashes = 0
CHECK_DEADLOCK FALSE
PROPERTIES RunsAreSeenThrough
