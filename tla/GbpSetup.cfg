SPECIFICATION FairSpec
CONSTANTS
  Stores = {s1}
  Requests = {r1, r2}
  Hand = {g1}
  Foreign = {f1}
  New = {n1, n2}
  Verdicts = {"UNKNOWN", "VERIFIED"}
  None = None
  Kinds = {"CLAIM", "CONFIRM_ADOPTION", "REJECT_ADOPTION", "RUN_SETUP", "REFRESH", "PUBLISH"}
  ForcedTo = {}
  MaxEdits = 1
  MaxCuts = 1
INVARIANTS SetupIsSound
PROPERTIES OnlyLegalMoves SetupCompletes
CHECK_DEADLOCK FALSE
