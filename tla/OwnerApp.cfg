CONSTANTS
  n1 = n1
  n2 = n2
  p1 = p1
  p2 = p2
  p3 = p3
  Old = old
  New = new
  Shops = {n1, n2}
  Gaps <- MCGaps
  Manual = Manual
  None = None
  MaxRequests = 4
  MaxEdits = 1
  Texts = {t1}
  Nothing = Nothing
  Photos <- MCPhotos
  Refused = {p3}
  MaxPhotos = 2
  Selections <- MCSelections
  MaxSubmissions = 3
  Limits <- MCLimits
  MaxPending = 3
  FlushMax = 2
  MaxEvents = 4
  MaxMounts = 2
  Tabs = {w1, w2}
  Stores = {n1, n2}
  Names = {n1, n2}
  Typed <- MCTyped
  MaxStarts = 2
  MaxSwitches = 1
  MaxCallbacks = 2
  MaxPicks = 3
  MaxCalls = 4
  Commands = {r1, r2}
  StoreIds <- MCStoreIds
  Drafts <- MCDrafts
  Contents = {old, new}
  Worlds <- MCWorlds
  MaxWrites = 1
  MaxSessions = 1
SPECIFICATION App
CHECK_DEADLOCK FALSE
INVARIANTS TypesOK ScreensTellTheTruth RecordsAreSound
VIEW Moving
