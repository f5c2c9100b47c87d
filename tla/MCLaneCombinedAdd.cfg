SPECIFICATION Spec
CONSTANTS
  Products = {"p1", "p2"}
  Owners = {t1, t2}
  Retailers = {"target"}
  Items = {"item"}
  NoItem = "no-item"
  RetailerOf <- CombinedRetailer
  ItemOf <- CombinedItem
  ActionOf <- CombinedAction
  Members = {"p1", "p2"}
  EvidenceHashes = {"h"}
  MaxRun = 1
SYMMETRY TabSymmetry
INVARIANT ClaimedMayAdd
