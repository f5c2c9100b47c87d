--------------------------------- MODULE MCFlow ---------------------------------
(***************************************************************************)
(* Two tabs, each on the mission its number names.                         *)
(***************************************************************************)
EXTENDS PurchaseFlow

\* Two missions of one store: an automatic checkout and an add to the cart.
StorePage == [t \in Owners |-> IF t = "tab:1" THEN "p1" ELSE "p2"]
StoreRetailer == [p \in Products |-> "target"]
StoreItem == [p \in Products |-> NoItem]
StoreAction == [p \in Products |-> IF p = "p1" THEN "checkout" ELSE "cart"]

\* One item with an option in each of two stores: a manual review and an
\* automatic checkout.
ItemRetailer == [p \in Products |-> IF p = "p1" THEN "target" ELSE "walmart"]
ItemItem == [p \in Products |-> "item"]
ItemAction == [p \in Products |-> IF p = "p1" THEN "review" ELSE "checkout"]

\* Two tabs on one mission.
SamePage == [t \in Owners |-> "p1"]
================================================================================
