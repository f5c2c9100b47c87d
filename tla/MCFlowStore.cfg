SPECIFICATION FlowSpec
CONSTANTS
  Products = {"p1", "p2"}
  Owners = {"tab:1", "tab:2"}
  Retailers = {"target"}
  Items = {"item"}
  NoItem = "no-item"
  RetailerOf <- StoreRetailer
  ItemOf <- StoreItem
  ActionOf <- StoreAction
  PageOf <- StorePage
  Members = {}
  EvidenceHashes = {"h"}
  MaxRun = 1
  MaxUnits = 2
  Faults = {}
INVARIANTS ReceiptCoversStore NoOrphanedHold NoConflict
CHECK_DEADLOCK FALSE
