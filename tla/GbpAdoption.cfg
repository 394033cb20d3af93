SPECIFICATION Spec
CONSTANTS
  Stores = {s1, s2}
  Requests = {r1, r2}
  Hand = {g1}
  Foreign = {}
  New = {}
  Verdicts = {"UNKNOWN"}
  None = None
  Kinds = {"CLAIM", "CONFIRM_ADOPTION", "ATTACH_LOCATION", "OVERRIDE"}
  ForcedTo = {"adoption_review"}
  MaxEdits = 0
  MaxCuts = 1
SYMMETRY Symmetry
INVARIANTS TypeOK AdoptionIsSettled
CHECK_DEADLOCK FALSE
