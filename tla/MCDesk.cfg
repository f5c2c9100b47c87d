SPECIFICATION DeskSpec
CONSTANTS
  Products = {p1}
  Contracts = {c1, c2}
  MaxPending = 2
  MaxUndo = 1
  MaxStops = 1
  Missions = {m1, m2}
  Combinable = {TRUE, FALSE}
  Prices = {1, 2, 3}
  Displays = {"unit", "sum", "none"}
  Accounts = {a1}
  Quantity = 2
  UnitCap = 1
  TotalCap = 5
  Nothing = Nothing
  MaxAge = 0
  MaxChanges = 2
  Jobs = {j1, j2}
  MaxVersion = 2
  MaxUnread = 2
  MaxTrouble = 2
  MaxRequests = 2
  MaxSubs = 2
  MaxPosts = 1
  MaxUpsets = 1
INVARIANTS StopHolds EvidenceForContract OrderWithinCaps NothingElseOrdered
INVARIANTS InstallUndisturbed ReloadsOnce ConfirmedIsRegistered
PROPERTIES ArmedPlanFrozen
CHECK_DEADLOCK FALSE
