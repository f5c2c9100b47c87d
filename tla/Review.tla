------------------------------- MODULE Review -------------------------------
(***************************************************************************)
(* What is bought, and at what price: the cart proof, the final review and *)
(* the second reading next to the click, for a mission of its own and for  *)
(* a combined batch. The store's page may change under the script at any   *)
(* time; the script reads it in parts, with awaits in between.             *)
(***************************************************************************)
EXTENDS Naturals, Sequences, FiniteSets, SequencesExt, FiniteSetsExt

CONSTANTS
  Missions,    \* auto-submit missions of one store
  Combinable,  \* values the combined-order setting may have
  Prices,      \* unit prices
  Displays,    \* what a line shows as its price: "unit", "sum" or "none"
  Accounts,    \* a destination with a payment set, as their fingerprints tell them apart
  Quantity, UnitCap, TotalCap,  \* every mission's contract
  Nothing,        \* no value
  MaxAge,      \* bound: age at which a proof is stale
  MaxChanges   \* bound: changes of the page that the script did not ask for

Other == "other"  \* a product no mission is about

ASSUME ReviewAssumption ==
  /\ Prices \subseteq Nat \ {0} /\ {Quantity, UnitCap, TotalCap} \subseteq Nat \ {0}
  /\ {MaxAge, MaxChanges} \subseteq Nat
  /\ Displays \subseteq {"unit", "sum", "none"} /\ Combinable \subseteq BOOLEAN
  /\ Displays # {} /\ Accounts # {} /\ \E x \in Prices : x <= UnitCap
  /\ Other \notin Missions /\ Nothing \notin Accounts \cup Missions

VARIABLES
  combined,  \* combinedOrderEnabled
  trust,     \* checkoutTrust of the store: an account, or Nothing
  approved,  \* the preflight of each mission: [account, total], or Nothing
  page,      \* the store's cart and checkout, as they are
  proofs,    \* the companion's proof of each mission, or Nothing
  carted,    \* missions whose cart the desktop was told is confirmed
  checkout,  \* the tab's step, its mission, what it read first, what it expects
  order,     \* history: the page an order was placed on, or Nothing
  still,     \* history: the page has not changed since the second reading began
  seen,      \* history: missions whose unit price was shown within its cap
  changes    \* history: changes of the page

context == <<combined, trust, approved>>
reviewVars == <<context, page, proofs, carted, checkout, order, still, seen, changes>>

NoCheckout == [step |-> "idle", mission |-> Nothing, lines |-> Nothing, expected |-> Nothing]

Page0 == [cart |-> <<>>, unit |-> [m \in Missions |-> CHOOSE x \in Prices : x <= UnitCap],
          qty |-> [m \in Missions |-> Quantity], shows |-> CHOOSE d \in Displays : TRUE,
          seller |-> "blank", account |-> CHOOSE a \in Accounts : TRUE, mode |-> TRUE, flags |-> {}]

ReviewInit ==
  /\ combined \in Combinable
  /\ trust \in Accounts \cup {Nothing}
  /\ approved \in [Missions -> {Nothing} \cup [account : Accounts, total : {Quantity * UnitCap}]]
  /\ page = Page0
  /\ proofs = [m \in Missions |-> Nothing]
  /\ carted = {} /\ checkout = NoCheckout /\ order = Nothing
  /\ still = FALSE /\ seen = {} /\ changes = 0

-----------------------------------------------------------------------------
(* What the adapter reads. A flag on the page: "uncounted", the line count *)
(* has no independent confirmation; "hidden", the quantities cannot be     *)
(* read; "extras", a recurring or add-on choice; "totalless", no total.    *)

Flags == {"uncounted", "hidden", "extras", "totalless"}

UnitOf(what, p) == IF what = Other THEN 1 ELSE p.unit[what]

QtyOf(what, p) == IF what = Other THEN 1 ELSE p.qty[what]

Extras(p) == "extras" \in p.flags

\* The fulfilment mode that is selected is the configured one.
ModeAsked(p) == p.mode

\* The destination and the payment instruments that are selected.
AccountOf(p) == p.account

\* lineResult: 0 is a price, or a quantity, that is not there.
Line(m, p) ==
  [price  |-> CASE p.shows = "unit" -> p.unit[m] [] p.shows = "sum" -> p.unit[m] * p.qty[m] [] OTHER -> 0,
   qty    |-> IF "hidden" \in p.flags THEN 0 ELSE p.qty[m],
   seller |-> p.seller]

Inventory(p) == [skus |-> p.cart, counted |-> "uncounted" \notin p.flags]

LinesOf(p) ==
  [inventory |-> Inventory(p), line |-> [m \in Missions \cap ToSet(p.cart) |-> Line(m, p)]]

Total(p) == FoldSet(LAMBDA i, sum : sum + UnitOf(p.cart[i], p) * QtyOf(p.cart[i], p), 0, DOMAIN p.cart)

OrderTotal(p) == IF "totalless" \in p.flags THEN 0 ELSE Total(p)

-----------------------------------------------------------------------------
(* Judgements.                                                             *)

\* validateOffer without a signal's binding: a first-party seller, then the cap.
ValidOffer(price, firstParty) == firstParty /\ price > 0 /\ price <= UnitCap

Anchor(proof) == IF proof = Nothing THEN 0 ELSE proof.price

\* The price of a line: a subtotal is recognised by the unit price of a proof, a
\* missing one is taken from it.
UnitPrice(l, proof) ==
  IF l.price = 0 \/ (l.qty > 1 /\ l.price > UnitCap /\ l.price = Anchor(proof) * l.qty)
  THEN Anchor(proof) ELSE l.price

FirstParty(l, proof) == IF l.seller = "blank" THEN proof # Nothing /\ proof.firstParty ELSE l.seller = "store"

\* effectiveLineOffer
LineOk(l, proof) == ValidOffer(UnitPrice(l, proof), FirstParty(l, proof))

\* verifySingleProductCart
SingleCart(m, inventory) == inventory.counted /\ inventory.skus = <<m>>

\* verifyMemberCart
MemberCart(m, inventory) ==
  /\ inventory.counted /\ IsInjective(inventory.skus)
  /\ m \in ToSet(inventory.skus) /\ ToSet(inventory.skus) \subseteq Missions

Fresh(proof) == proof # Nothing /\ proof.age <= MaxAge

\* recentCartProof
RecentCartProof(m, proof, lines) ==
  /\ Fresh(proof) /\ proof.source = "cart"
  /\ proof.lines \in 1 .. lines /\ proof.sku = m
  /\ ValidOffer(proof.price, proof.firstParty)

\* Mutant: the quantity of a line is left to the summary.
LineProvenAnyQuantity(m, l, lines) ==
  RecentCartProof(m, proofs[m], lines) /\ LineOk(l, proofs[m])

LineProven(m, l, lines) ==
  /\ RecentCartProof(m, proofs[m], lines)
  /\ LineOk(l, proofs[m])
  /\ l.qty \in {0, Quantity}

\* Evidence.matches: a preflight decides alone, and to the cent; otherwise the account
\* the operator approved for the store.
AccountOk(m, p) ==
  IF m # Nothing /\ approved[m] # Nothing
  THEN approved[m] = [account |-> AccountOf(p), total |-> OrderTotal(p)]
  ELSE AccountOf(p) = trust

Capped(total, lines) == total > 0 /\ total <= lines * TotalCap

\* checkoutSafety
SingleSafe(m, read, p) ==
  /\ ~Extras(p) /\ ModeAsked(p)
  /\ SingleCart(m, read.inventory)
  /\ LineProven(m, read.line[m], 1)
  /\ Capped(OrderTotal(p), 1)

\* Evidence.validate: what the evidence of an order must say by itself; the cart is
\* the page's, or the summary of a batch.
EvidenceValid(cart, skus, p) ==
  /\ ModeAsked(p)
  /\ cart.counted /\ cart.skus = skus /\ cart.qty = Cardinality(skus) * Quantity
  /\ Capped(OrderTotal(p), Cardinality(skus))

\* readCheckoutReview
SingleReview(m, read, p) ==
  /\ SingleSafe(m, read, p)
  /\ EvidenceValid([counted |-> read.inventory.counted, skus |-> ToSet(read.inventory.skus),
                    qty |-> read.line[m].qty], {m}, p)
  /\ AccountOk(m, p)

\* combinedCheckoutSafety
CombinedSafe(members, read, p) ==
  /\ ~Extras(p) /\ ModeAsked(p)
  /\ read.inventory.counted /\ IsInjective(read.inventory.skus)
  /\ ToSet(read.inventory.skus) = members
  /\ \A m \in members : LineProven(m, read.line[m], Cardinality(members))
  /\ Capped(OrderTotal(p), Cardinality(members))

\* verifyCombinedReview: the members are the carted missions, and the batch's summary
\* is made of their configured quantities.
CombinedReview(members, read, p) ==
  /\ CombinedSafe(members, read, p)
  /\ EvidenceValid([counted |-> read.inventory.counted, skus |-> members,
                    qty |-> Cardinality(members) * Quantity], members, p)
  /\ AccountOk(Nothing, p)

Verdict(read, p) ==
  IF combined THEN CombinedReview(carted, read, p) ELSE SingleReview(checkout.mission, read, p)

\* reviewEvidenceHash, combinedReviewEvidenceHash: the latter has no line in it.
Evidence(read, p) ==
  [skus |-> read.inventory.skus, line |-> IF combined THEN Nothing ELSE read.line[checkout.mission],
   account |-> AccountOf(p), total |-> OrderTotal(p)]

-----------------------------------------------------------------------------
(* The product page and the cart page.                                     *)

Proof(price, source, inventory) ==
  [price |-> price, firstParty |-> TRUE, source |-> source, age |-> 0,
   lines |-> IF source = "cart" THEN Len(inventory.skus) ELSE 0,
   sku   |-> IF source = "cart" THEN inventory.skus[1] ELSE Nothing]

\* An eligible offer is proven and added; stores list a new line first or last.
Add(m) ==
  /\ m \notin ToSet(page.cart) /\ order = Nothing
  /\ combined \/ ToSet(page.cart) \cap Missions = {}
  /\ page.unit[m] <= UnitCap
  /\ \E cart \in {Append(page.cart, m), <<m>> \o page.cart} : page' = [page EXCEPT !.cart = cart]
  /\ proofs' = [proofs EXCEPT ![m] = Proof(page.unit[m], "product", <<>>)]
  /\ seen' = seen \cup {m}
  /\ still' = FALSE
  /\ UNCHANGED <<context, carted, checkout, order, changes>>

\* ensureQuantity sets the line's quantity and looks again.
SetQuantity(m) ==
  /\ m \in ToSet(page.cart) /\ checkout.step = "idle" /\ order = Nothing
  /\ "hidden" \notin page.flags /\ page.qty[m] # Quantity
  /\ page' = [page EXCEPT !.qty[m] = Quantity]
  /\ UNCHANGED <<context, proofs, carted, checkout, order, still, seen, changes>>

\* handleCartPage: the line is confirmed first, the rest of the cart afterwards. A
\* proof of any age may recognise a subtotal; only a fresh one lends price and seller.
CartPage(m) ==
  /\ m \in ToSet(page.cart) /\ (combined \/ checkout.step = "idle") /\ order = Nothing
  /\ LET l == Line(m, page)
         backing == IF Fresh(proofs[m]) \/ (l.seller # "blank" /\ l.price # 0) THEN proofs[m] ELSE Nothing
     IN /\ LineOk(l, backing) /\ l.qty = Quantity
        /\ carted' = carted \cup {m}
        /\ proofs' = IF IF combined THEN MemberCart(m, Inventory(page)) ELSE SingleCart(m, Inventory(page))
                     THEN [proofs EXCEPT ![m] = Proof(UnitPrice(l, backing), "cart", Inventory(page))]
                     ELSE proofs
  /\ UNCHANGED <<context, page, checkout, order, still, seen, changes>>

Older(proof) == IF proof = Nothing THEN Nothing ELSE [proof EXCEPT !.age = IF @ > MaxAge THEN @ ELSE @ + 1]

ProofsAge ==
  /\ order = Nothing /\ \E m \in Missions : Older(proofs[m]) # proofs[m]
  /\ proofs' = [m \in Missions |-> Older(proofs[m])]
  /\ UNCHANGED <<context, page, carted, checkout, order, still, seen, changes>>

-----------------------------------------------------------------------------
(* The checkout page.                                                      *)

\* combinedOrderStatus: every mission has been seen and none is on its way into the
\* cart; the first that is carted is the captain.
Ready == carted # {} /\ Missions \cap ToSet(page.cart) \subseteq carted

OpenCheckout(m) ==
  /\ checkout.step = "idle" /\ order = Nothing /\ m \in carted
  /\ combined => Ready /\ m = CHOOSE c \in carted : TRUE
  /\ checkout' = [NoCheckout EXCEPT !.step = "reading", !.mission = m]
  /\ UNCHANGED <<context, page, proofs, carted, order, still, seen, changes>>

\* The lines are read, then the proofs are awaited.
ReadLines ==
  /\ checkout.step \in {"reading", "granted"}
  /\ IF (IF combined THEN carted ELSE {checkout.mission}) \subseteq ToSet(page.cart)
     THEN checkout' = [checkout EXCEPT !.step = IF @ = "reading" THEN "read" ELSE "reread",
                                       !.lines = LinesOf(page)]
     ELSE checkout' = NoCheckout
  /\ still' = (checkout.step = "granted")
  /\ UNCHANGED <<context, page, proofs, carted, order, seen, changes>>

\* Total, fulfilment, destination and payment are read behind the await.
FirstReview ==
  /\ checkout.step = "read"
  /\ checkout' = IF Verdict(checkout.lines, page)
                 THEN [checkout EXCEPT !.step = "reviewed", !.lines = Nothing,
                                       !.expected = Evidence(checkout.lines, page)]
                 ELSE NoCheckout
  /\ UNCHANGED <<context, page, proofs, carted, order, still, seen, changes>>

\* Mutant: the review is not read again next to the click.
AfterGrantDirect == [checkout EXCEPT !.step = "intent"]

AfterGrant == [checkout EXCEPT !.step = "granted"]

\* The store action and the attempt are granted, after any wait.
Grant ==
  /\ checkout.step = "reviewed"
  /\ checkout' = AfterGrant
  /\ still' = TRUE
  /\ UNCHANGED <<context, page, proofs, carted, order, seen, changes>>

\* The second review must repeat the first; then the intent is recorded.
SecondReview ==
  /\ checkout.step = "reread"
  /\ checkout' = IF Verdict(checkout.lines, page) /\ Evidence(checkout.lines, page) = checkout.expected
                 THEN [checkout EXCEPT !.step = "intent"] ELSE NoCheckout
  /\ UNCHANGED <<context, page, proofs, carted, order, still, seen, changes>>

Click ==
  /\ checkout.step = "intent" /\ order = Nothing
  /\ order' = page
  /\ checkout' = NoCheckout
  /\ UNCHANGED <<context, page, proofs, carted, still, seen, changes>>

-----------------------------------------------------------------------------
(* The store, and the customer's other tabs.                               *)

Alters(p) ==
  \/ \E m \in Missions : \/ \E x \in Prices : p = [page EXCEPT !.unit[m] = x]
                         \/ \E n \in 1 .. Quantity + 1 : p = [page EXCEPT !.qty[m] = n]
  \/ \E d \in Displays : p = [page EXCEPT !.shows = d]
  \/ \E s \in {"store", "third", "blank"} : p = [page EXCEPT !.seller = s]
  \/ \E a \in Accounts : p = [page EXCEPT !.account = a]
  \/ \E f \in Flags : p = [page EXCEPT !.flags = SymDiff(@, {f})]
  \/ p = [page EXCEPT !.mode = ~@]
  \/ Other \notin ToSet(page.cart) /\ p = [page EXCEPT !.cart = Append(@, Other)]
  \/ Len(page.cart) > 1 /\ p = [page EXCEPT !.cart = Tail(@)]

\* seen: what the script could have read of the price while it read anything.
PageChanges ==
  /\ changes < MaxChanges /\ order = Nothing
  /\ changes' = changes + 1
  /\ Alters(page') /\ page' # page
  /\ still' = FALSE
  /\ UNCHANGED <<context, proofs, carted, checkout, order, seen>>

ReviewNext ==
  \/ ProofsAge \/ PageChanges
  \/ ReadLines \/ FirstReview \/ Grant \/ SecondReview \/ Click
  \/ \E m \in Missions : Add(m) \/ SetQuantity(m) \/ CartPage(m) \/ OpenCheckout(m)

ReviewSpec == ReviewInit /\ [][ReviewNext]_reviewVars

-----------------------------------------------------------------------------
\* What was ordered on a page that stood still from the second reading to the click.
Placed == order # Nothing /\ still

\* A unit price that is the Quantity-fold of a price within the cap: where the cart shows
\* unit prices, effectiveLineOffer takes it for the subtotal of that price.
TakenForSubtotal(m, p) ==
  p.shows = "unit" /\ Quantity > 1 /\ \E x \in 1 .. UnitCap : p.unit[m] = x * Quantity

\* README.md:12 and 17: nothing above its caps is submitted. The total always is within
\* its cap. The unit price is, unless the page hides it when the order is placed (it was
\* shown within the cap when the item was added), or the code mistakes it for a subtotal.
OrderWithinCaps ==
  Placed => /\ Total(order) <= Len(order.cart) * TotalCap
            /\ \A m \in Missions \cap ToSet(order.cart) :
                 \/ order.unit[m] <= UnitCap
                 \/ order.shows = "none" /\ m \in seen
                 \/ TakenForSubtotal(m, order)

\* An order holds each of its missions once, at the configured quantity unless the page
\* hides it, and no other product.
NothingElseOrdered ==
  Placed => /\ IsInjective(order.cart) /\ ToSet(order.cart) \subseteq Missions
            /\ ~combined => Len(order.cart) = 1
            /\ \A i \in DOMAIN order.cart : order.qty[order.cart[i]] = Quantity \/ "hidden" \in order.flags
=============================================================================
