SPECIFICATION AccountsAndSchemas
CONSTANTS
  Handlers = {h1, h2, h3}
  Users = {u1, u2, u3}
  Emails = {e1}
  Subjects = {s1, s2}
  None = None
  MaxRequests = 4
  MaxCuts = 1
  Commands = {r1, r2}
  Versions <- MCVersions
  Creating <- MCCreating
  Sources <- MCSources
  Processes = {q1, q2, q3}
  Sums = {"a", "b"}
  Conversations = {c1, c2}
  MaxOpens = 4
SYMMETRY Symmetry
INVARIANTS TypesOK AccountsAreSound NoCircularWait NoCircleOfWaits SchemasAreSound
CHECK_DEADLOCK FALSE
VIEW Moving
