--------------------------------- MODULE MCLane ---------------------------------
(***************************************************************************)
(* Two missions, two tabs and any message at any time.                     *)
(***************************************************************************)
EXTENDS PurchaseLane, TLC

TabSymmetry == Permutations(Owners)

\* A combined order of two missions of one store.
CombinedRetailer == [p \in Products |-> "target"]
CombinedItem == [p \in Products |-> NoItem]
CombinedAction == [p \in Products |-> "checkout"]

================================================================================
