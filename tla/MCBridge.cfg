SPECIFICATION BridgeSpec
CONSTANTS
  Channels = {d1, d2}
  MaxPosted = 2
  Limit = 1
  MaxClicks = 3
  MaxCrashes = 1
  Followed = {f1, f2}
  Runs = {r1, r2}
  ScanTabs = {s1, s2}
  CheckpointProducts = 2
  MaxScans = 2
  MaxSetbacks = 1
  Stores = {x, y}
  Skus = {k1}
  Queries = {q1, q2}
  SearchTabs = {v1}
  MaxSearches = 2
  MaxReports = 2
  MaxMissions = 1
  ActionLimit = 1
  ReadLimit = 2
  BudgetWindow = 2
  KeptUses = 2
  MaxInstant = 4
INVARIANTS NothingSkipped ListedForItsSearch CeilingExact
PROPERTIES HistoryIsQuiet RemovedStaysRemoved WholeScansOnly
CHECK_DEADLOCK FALSE
