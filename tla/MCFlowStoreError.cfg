SPECIFICATION FlowSpec
CONSTANTS
  Products = {"p1"}
  Owners = {"tab:1", "tab:2"}
  Retailers = {"target"}
  Items = {"item"}
  NoItem = "no-item"
  RetailerOf <- StoreRetailer
  ItemOf <- StoreItem
  ActionOf <- StoreAction
  PageOf <- SamePage
  Members = {}
  EvidenceHashes = {"h"}
  MaxRun = 1
  MaxUnits = 2
  Faults = {}
PROPERTY CartProvesAbsence
CHECK_DEADLOCK FALSE
