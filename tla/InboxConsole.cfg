SPECIFICATION Screens
CONSTANTS
  Convs = {c1, c2}
  Drafts = {d1, d2}
  Ticks = {t1, t2}
  Own = own
  PageSize = 1
  None = None
  Budgets <- MCBudgets
  Requests = {r1, r2}
  Channels = {gbp, ig}
  Flights <- MCFlights
  MaxClicks = 4
  MaxEdits = 1
  Shops = {s1, s2}
  Lines <- MCLines
  Targets = {"pending"}
  Efforts <- MCEfforts
INVARIANTS TypesOK ScreenIsCoherent QueueIsSound StoresAreSound
PROPERTIES CatchesUp
CHECK_DEADLOCK FALSE
