CONSTANTS
  c0 = c0
  p1 = p1
  p2 = p2
  n1 = n1
  o1 = o1
  o2 = o2
  w1 = w1
  w2 = w2
  k1 = k1
  Posts = {p1}
  Notices = {}
  Earlier = {c0}
  Operators = {o1}
  OwnerPolls = {w1, w2}
  ConsolePolls = {}
  IdRank <- MCIdRank
  Switches = {}
  PageSize = 1
  None = None
  MaxClock = 2
  MaxCrashes = 0
SPECIFICATION Spec
CHECK_DEADLOCK FALSE
INVARIANTS TypeOK NoDraftOnScreen CursorsAreSafe
PROPERTIES TranscriptKept
