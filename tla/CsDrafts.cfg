CONSTANTS
  c0 = c0
  p1 = p1
  p2 = p2
  n1 = n1
  o1 = o1
  o2 = o2
  w1 = w1
  w2 = w2
  k1 = k1
  Posts = {p1, p2}
  Notices = {n1}
  Earlier = {c0}
  Operators = {o1, o2}
  OwnerPolls = {}
  ConsolePolls = {k1}
  IdRank <- MCIdRank
  Switches = {"human", "ai"}
  PageSize = 1
  None = None
  MaxClock = 2
  MaxCrashes = 0
SPECIFICATION Spec
CONSTRAINT OneSide
CHECK_DEADLOCK FALSE
INVARIANTS OneOpenConversation NothingUnapproved FailureShows CursorsAreSafe
PROPERTIES SentIsFinal
