SPECIFICATION FlowSpec
CONSTANTS
  Products = {"p1", "p2"}
  Owners = {"tab:1", "tab:2"}
  Retailers = {"target", "walmart"}
  Items = {"item"}
  NoItem = "no-item"
  RetailerOf <- ItemRetailer
  ItemOf <- ItemItem
  ActionOf <- ItemAction
  PageOf <- StorePage
  Members = {}
  EvidenceHashes = {"h"}
  MaxRun = 1
  MaxUnits = 2
  Faults = {}
INVARIANTS ItemSecuredOnce ProductSealed RivalExcluded
PROPERTIES FlowBuysOnce
CHECK_DEADLOCK FALSE
