SPECIFICATION StoreSpec
CONSTANTS
  Products = {"p1", "p2"}
  Owners = {t1, t2}
  Retailers = {"target"}
  Items = {"item"}
  NoItem = "no-item"
  RetailerOf <- CombinedRetailer
  ItemOf <- CombinedItem
  ActionOf <- CombinedAction
  Members = {"p1", "p2"}
  EvidenceHashes = {"h"}
  MaxRun = 1
  Tabs = {v1, v2}
  Adders = {v1}
  Intervals = {1, 2}
  Delays = {0, 1}
  Cooldowns = {2}
  Grace = 1
  MaxTime = 3
  MaxId = 2
  MaxRuns = 1
  MaxDrops = 1
SYMMETRY TabSymmetry
INVARIANTS SubmitExclusive SlotsSpaced CooldownRespected WaitersKeepTheirSlot
