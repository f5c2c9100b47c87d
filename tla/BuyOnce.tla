-------------------------------- MODULE BuyOnce --------------------------------
(***************************************************************************)
(* What the purchase lane promises the operator, seen from the store: in   *)
(* one automation run a mission puts at most one unit in the cart and at   *)
(* most one order through; two options of one wanted item are never both   *)
(* bought; and a store's cart never mixes two missions whose outcome is    *)
(* open.  PurchaseFlow implements it until a store's page denies an Add    *)
(* that was made (FlowBuysOnce, checked by TLC and proved in               *)
(* PurchaseFlow_proofs).                                                   *)
(***************************************************************************)
CONSTANTS
  Products,
  SameStore(_, _),  \* missions that share a store's cart
  SameItem(_, _)    \* missions that are options for one wanted item

VARIABLES
  cart,     \* missions with a unit in a cart
  ordered,  \* missions with an accepted order
  closed    \* missions completed or given up by the operator

buyVars == <<cart, ordered, closed>>

Init == cart = {} /\ ordered = {} /\ closed = {}

\* No other mission stands in the way of an Add of p.
MayAdd(p) ==
  /\ p \notin cart \cup ordered \cup closed
  /\ \A q \in Products \ {p} :
       /\ SameStore(p, q) => q \notin cart \ closed
       /\ SameItem(p, q) => q \notin cart \cup ordered

Add(p) == MayAdd(p) /\ cart' = cart \cup {p} /\ UNCHANGED <<ordered, closed>>

\* The line leaves the cart without an order.
Drop(p) == p \in cart /\ cart' = cart \ {p} /\ UNCHANGED <<ordered, closed>>

\* The store accepts an order for what is in the cart.
Order(p) ==
  /\ p \in cart \ (ordered \cup closed)
  /\ cart' = cart \ {p} /\ ordered' = ordered \cup {p} /\ UNCHANGED closed

\* Only what is in a cart or ordered completes; the operator gives up only
\* what was not ordered.
Complete(p) == p \notin closed /\ closed' = closed \cup {p} /\ UNCHANGED <<cart, ordered>>

GiveUp(p) ==
  /\ p \notin ordered \cup closed
  /\ closed' = closed \cup {p} /\ cart' = cart \ {p} /\ UNCHANGED ordered

NewRun == cart' = {} /\ ordered' = {} /\ closed' = {}

Next ==
  \/ \E p \in Products : Add(p) \/ Drop(p) \/ Order(p) \/ Complete(p) \/ GiveUp(p)
  \/ NewRun

Spec == Init /\ [][Next]_buyVars

================================================================================
