------------------------------ MODULE PurchaseFlow ------------------------------
(***************************************************************************)
(* Store tabs driving the purchase lane: the content script's purchase     *)
(* flow (src/extension/content.js) composed with the service worker of     *)
(* PurchaseLane, the desktop's Stop and Arm, and the retailer.             *)
(*                                                                         *)
(* A tab walks pages, clicks, and calls the worker.  Between a call and    *)
(* its reply other tabs run, automation is stopped, leases lapse, the call *)
(* is lost or the tab reloads.  Tabs are the owners of the lane.           *)
(*                                                                         *)
(* Faults names hazards of the code that a run may switch on:              *)
(*   "receipt-lost"  the tab, the worker or the desktop is lost between    *)
(*                   the Add click and its receipt;                        *)
(*   "lease-short"   the pre-click lease lapses between the authorization  *)
(*                   of a click and its receipt.                           *)
(*                                                                         *)
(* What the store's page says of an Add need not be so: the code believes  *)
(* it, and misread keeps the missions of which it was wrong.               *)
(***************************************************************************)
EXTENDS PurchaseLane

CONSTANTS
  PageOf,    \* [Owners -> Products]: the mission each tab works on
  Faults,
  MaxUnits   \* bound on units of a product in the cart, and on its orders

ASSUME FlowAssumption ==
  /\ PageOf \in [Owners -> Products]
  /\ Faults \subseteq {"receipt-lost", "lease-short"}
  /\ MaxUnits \in Nat

VARIABLES
  page,      \* page[t]: where tab t is
  call,      \* call[t]: the call t awaits, with the configuration fetched for it
  verdict,   \* verdict[t]: what the store shows t of its submission
  units,     \* units[p]: units of p this run has put in the cart
  orders,    \* orders[p]: orders for p the store accepted in this run
  abandoned, \* missions the operator has resolved as known to have no order
  misread    \* history: missions reported as not added although they were in
             \* the cart, or ordered by hand

tabs == <<page, call, verdict>>
store == <<units, orders>>
flowVars == <<vars, tabs, store, abandoned, misread>>

\* Every call with the page its grant and its refusal lead to.
Calls ==
  [prepare    |-> [granted |-> "reserved",   refused |-> "product"],
   authorize  |-> [granted |-> "authorized", refused |-> "withdrawn"],
   release    |-> [granted |-> "withdrawn",  refused |-> "withdrawn"],
   cancel     |-> [granted |-> "product",    refused |-> "product"],
   clicked    |-> [granted |-> "settling",   refused |-> "product"],
   confirmed  |-> [granted |-> "carted",     refused |-> "cart"],
   failed     |-> [granted |-> "product",    refused |-> "cart"],
   claim      |-> [granted |-> "checkout",   refused |-> "carted"],
   reclaim    |-> [granted |-> "summary",    refused |-> "checkout"],
   yield      |-> [granted |-> "checkout",   refused |-> "checkout"],
   handoff    |-> [granted |-> "handoff",    refused |-> "checkout"],
   intent     |-> [granted |-> "intent",     refused |-> "checkout"],
   submitted  |-> [granted |-> "submitted",  refused |-> "submitted"],
   observed   |-> [granted |-> "submitted",  refused |-> "submitted"],
   rejected   |-> [granted |-> "checkout",   refused |-> "submitted"],
   complete   |-> [granted |-> "finished",   refused |-> "carted"],
   confirm    |-> [granted |-> "finished",   refused |-> "submitted"]]

Ops == DOMAIN Calls
NoCall == [op |-> "none", config |-> [run |-> 0, active |-> FALSE]]

\* The handler refuses these calls when the configuration is not armed.
ArmedOps ==
  {"prepare", "authorize", "claim", "reclaim", "handoff", "intent"}

FlowInit ==
  /\ Init
  /\ page = [t \in Owners |-> "product"]
  /\ call = [t \in Owners |-> NoCall]
  /\ verdict = [t \in Owners |-> "none"]
  /\ units = [p \in Products |-> 0]
  /\ orders = [p \in Products |-> 0]
  /\ abandoned = {}
  /\ misread = {}

--------------------------------------------------------------------------------
(* Calls *)

Idle(t, pages) == call[t] = NoCall /\ page[t] \in pages

\* t calls the worker, whose handler fetches the configuration now.
Send(t, op) ==
  /\ call' = [call EXCEPT ![t] = [op |-> op, config |-> config]]
  /\ UNCHANGED <<vars, page, verdict, store, abandoned>>

Ask(t, op) == Send(t, op) /\ UNCHANGED misread

\* The reply to t's call arrives.
Reply(t, granted) ==
  LET to == Calls[call[t].op]
  IN /\ page' = [page EXCEPT ![t] = IF granted THEN to.granted ELSE to.refused]
     /\ call' = [call EXCEPT ![t] = NoCall]
     /\ UNCHANGED <<verdict, store, abandoned, misread>>

\* The worker runs the handler of t's call on the state s.
Granted(s, t, op, p) ==
  CASE op = "prepare" -> Prepared(s, p, t)
    [] op \in {"claim", "reclaim"} -> Claimed(s, p, t)
    [] op \in {"release", "yield"} -> CanRelease(s, p)
    [] op = "authorize" -> CanAuthorizeAddClick(s, p, t)
    [] op = "cancel" -> CanMarkAddAction(s, p, t, "canceled")
    [] op \in {"clicked", "confirmed", "failed"} -> CanMarkAddAction(s, p, t, op)
    [] op = "handoff" -> CanBeginManualReview(s, p, t) \/ \E h \in EvidenceHashes : ReviewReady(s, p, h)
    [] op = "intent" -> CanBeginSubmission(s, p, t)
    [] op = "submitted" -> CanMarkSubmission(s, p, t, "clicked")
    [] op = "rejected" -> CanMarkSubmission(s, p, t, "failed")
    [] op = "observed" -> \E h \in EvidenceHashes : CanMarkManualSubmit(s, p, t, h)
    [] op \in {"complete", "confirm"} -> p \in s.done \/ CanComplete(s, p)

HandledByLane(t, op, p, c) ==
  CASE op = "prepare" -> PrepareAdd(p, t, c)
    [] op \in {"claim", "reclaim"} -> ClaimProduct(p, t, c)
    [] op \in {"release", "yield"} -> ReleaseLane(p, t, c)
    [] op = "authorize" -> AuthorizeAdd(p, t, c, TRUE)
    [] op = "cancel" -> MarkAdd(p, t, c, "canceled")
    [] op \in {"clicked", "confirmed", "failed"} -> MarkAdd(p, t, c, op)
    [] op = "handoff" -> \E h \in EvidenceHashes : BeginReview(p, t, c, h)
    [] op = "intent" -> \E h \in EvidenceHashes : BeginSubmit(p, t, c, h)
    [] op = "submitted" -> MarkSubmit(p, t, c, "clicked")
    [] op = "rejected" -> MarkSubmit(p, t, c, "failed")
    [] op = "observed" -> \E h \in EvidenceHashes : MarkManual(p, t, c, h)
    [] op \in {"complete", "confirm"} -> CompleteProduct(p, c)

\* The handler runs; its reply may be lost, which the page takes for a refusal.
Handled(t) ==
  LET op == call[t].op
      c == call[t].config
      p == PageOf[t]
  IN /\ call[t] # NoCall
     /\ op \in ArmedOps => c.active
     /\ HandledByLane(t, op, p, c)
     /\ \E heard \in BOOLEAN : Reply(t, heard /\ Granted(Read(c), t, op, p))

\* The worker finds the offer changed when asked to authorize the click.
OfferRefused(t) ==
  /\ call[t].op = "authorize"
  /\ AuthorizeAdd(PageOf[t], t, call[t].config, FALSE)
  /\ Reply(t, FALSE)

\* Between a click that may have changed the cart and its receipt.
ReceiptPending(t) == page[t] = "clicking"

\* Disarmed when the configuration was fetched, or the call is lost: the desktop
\* does not answer, the worker or its channel is gone.
Failed(t) ==
  /\ call[t] # NoCall
  /\ ReceiptPending(t) => "receipt-lost" \in Faults
  /\ Reply(t, FALSE)
  /\ UNCHANGED vars

--------------------------------------------------------------------------------
(* The product page: prepare, authorize, click, receipt *)

Goto(t, to) ==
  page' = [page EXCEPT ![t] = to] /\ UNCHANGED <<vars, call, verdict, abandoned, misread>>

\* A watched product is only reported.
AskPrepare(t) ==
  Idle(t, {"product"}) /\ ActionOf[PageOf[t]] # "watch" /\ Ask(t, "prepare")

\* An Add already clicked or confirmed is verified in the cart, not repeated.
ReturnToCart(t) ==
  /\ Idle(t, {"product"})
  /\ Now.add[PageOf[t]].phase \in {"clicked", "confirmed"}
  /\ Goto(t, "cart") /\ UNCHANGED store

\* The store's traffic budget refuses the Add, or the offer has changed: the
\* report releases the lane, then the reservation is canceled.
Withdraw(t) == Idle(t, {"reserved"}) /\ Ask(t, "release")
AskAuthorize(t) == Idle(t, {"reserved"}) /\ Ask(t, "authorize")
AskCancel(t) == Idle(t, {"reserved", "withdrawn"}) /\ Ask(t, "cancel")

\* The click.  The store may silently not add the item.
ClickAdd(t) ==
  /\ Idle(t, {"authorized"})
  /\ Goto(t, "clicking")
  /\ \E added \in {0, 1} :
       /\ units[PageOf[t]] + added <= MaxUnits
       /\ units' = [units EXCEPT ![PageOf[t]] = @ + added]
  /\ UNCHANGED orders

ControlGone(t) == Idle(t, {"authorized"}) /\ Goto(t, "withdrawn") /\ UNCHANGED store

AskClicked(t) == Idle(t, {"clicking"}) /\ Ask(t, "clicked")

OrderedByHand(p) == ActionOf[p] = "review" /\ orders[p] > 0

\* t reports its Add as failed; wrong tells whether the store's page was.
ReportFailed(t, wrong) ==
  /\ Send(t, "failed")
  /\ misread' = misread \cup IF wrong THEN {PageOf[t]} \ Now.done ELSE {}

LineShown(t) == units[PageOf[t]] > 0

\* Target shows an error dialog that can be dismissed while the Add is clicked:
\* taken for a rejection of that Add.
AskRejectedAdd(t) ==
  /\ Idle(t, {"settling", "product"})
  /\ RetailerOf[PageOf[t]] = "target" /\ Now.add[PageOf[t]].phase = "clicked"
  /\ ReportFailed(t, LineShown(t) \/ OrderedByHand(PageOf[t]))

OpenCart(t) == Idle(t, {"settling"}) /\ Goto(t, "cart") /\ UNCHANGED store

--------------------------------------------------------------------------------
(* The cart page *)

\* Target's cart page says somewhere that something is out of stock.  This is
\* seen before the lines are, and before the mission's own state.
AskStoreError(t) ==
  /\ Idle(t, {"cart"}) /\ RetailerOf[PageOf[t]] = "target"
  /\ ReportFailed(t, LineShown(t) \/ OrderedByHand(PageOf[t]))

\* The fully loaded cart does not contain the item.
AskFailed(t) ==
  /\ Idle(t, {"cart"}) /\ ~LineShown(t) /\ PageOf[t] \notin Now.done
  /\ ReportFailed(t, OrderedByHand(PageOf[t]))

\* The line is there; its quantity has been set to the configured one.
AskConfirmed(t) ==
  /\ Idle(t, {"cart"}) /\ LineShown(t)
  /\ Now.add[PageOf[t]].phase = "clicked" /\ PageOf[t] \notin Now.done
  /\ Ask(t, "confirmed")

LineVerified(t) ==
  /\ Idle(t, {"cart"}) /\ LineShown(t)
  /\ Now.add[PageOf[t]].phase \in {"idle", "confirmed"} /\ PageOf[t] \notin Now.done
  /\ Goto(t, "carted") /\ UNCHANGED store

AskComplete(t) ==
  Idle(t, {"carted"}) /\ ActionOf[PageOf[t]] = "cart" /\ Ask(t, "complete")

AskClaim(t) ==
  Idle(t, {"carted"}) /\ ActionOf[PageOf[t]] \in {"review", "checkout"} /\ Ask(t, "claim")

--------------------------------------------------------------------------------
(* The checkout page *)

Submittable(t) ==
  /\ ActionOf[PageOf[t]] \in {"review", "checkout"}
  /\ Now.sub[PageOf[t]].phase \notin MaybeSubmitted /\ PageOf[t] \notin Now.done

AskReclaim(t) == Idle(t, {"checkout"}) /\ Submittable(t) /\ Ask(t, "reclaim")

\* The final review fails its checks: the report gives the lane back.
AskYield(t) == Idle(t, {"summary"}) /\ Ask(t, "yield")

AskHandoff(t) ==
  Idle(t, {"summary"}) /\ ActionOf[PageOf[t]] = "review" /\ Ask(t, "handoff")

AskIntent(t) ==
  Idle(t, {"summary"}) /\ ActionOf[PageOf[t]] = "checkout" /\ Ask(t, "intent")

\* Place Order is clicked by the page or by the user: the store accepts or
\* rejects the order, and may or may not show which.
PlaceOrder(t, to) ==
  LET p == PageOf[t]
  IN \E accepted \in {0, 1}, shown \in BOOLEAN :
       /\ accepted <= units[p] /\ orders[p] + accepted <= MaxUnits
       /\ orders' = [orders EXCEPT ![p] = @ + accepted]
       /\ units' = [units EXCEPT ![p] = @ - accepted]
       /\ verdict' = [verdict EXCEPT ![t] =
                        CASE ~shown -> "none"
                          [] shown /\ accepted = 1 -> "accepted"
                          [] shown /\ accepted = 0 -> "rejected"]
       /\ page' = [page EXCEPT ![t] = to]
       /\ UNCHANGED <<vars, abandoned, misread>>

ClickSubmit(t) == Idle(t, {"intent"}) /\ PlaceOrder(t, "submitting") /\ UNCHANGED call

\* The control went away after the intent was recorded.
SubmitGone(t) == Idle(t, {"intent"}) /\ Goto(t, "checkout") /\ UNCHANGED store

AskSubmitted(t) == Idle(t, {"submitting"}) /\ Ask(t, "submitted")

\* The operator places the order by hand; the observer reports it.
UserSubmits(t) ==
  /\ Idle(t, {"handoff"})
  /\ PlaceOrder(t, "submitted")
  /\ call' = [call EXCEPT ![t] = [op |-> "observed", config |-> config]]

AskRejected(t) ==
  /\ Idle(t, {"submitted"}) /\ verdict[t] = "rejected"
  /\ Now.sub[PageOf[t]].phase \in MaybeSubmitted
  /\ Ask(t, "rejected")

AskConfirm(t) == Idle(t, {"submitted"}) /\ verdict[t] = "accepted" /\ Ask(t, "confirm")

--------------------------------------------------------------------------------
(* The surroundings *)

\* The page is reloaded or replaced; whatever it awaited is dropped.
Reload(t) ==
  /\ ReceiptPending(t) => "receipt-lost" \in Faults
  /\ \E to \in {"product", "cart", "checkout"} :
       /\ page[t] # to \/ call[t] # NoCall
       /\ page' = [page EXCEPT ![t] = to]
  /\ call' = [call EXCEPT ![t] = NoCall]
  /\ verdict' = [verdict EXCEPT ![t] = "none"]
  /\ UNCHANGED <<vars, store, abandoned, misread>>

\* The store drops the line from the cart.
CartDrops(p) ==
  /\ units[p] > 0
  /\ units' = [units EXCEPT ![p] = 0]
  /\ UNCHANGED <<vars, tabs, orders, abandoned, misread>>

Authorized(t) == page[t] \in {"authorized", "clicking"}

LeaseLapses(p) ==
  /\ \A t \in Owners : PageOf[t] = p /\ Authorized(t) => "lease-short" \in Faults
  /\ LeaseRunsOut(p)
  /\ UNCHANGED <<tabs, store, abandoned, misread>>

StopAll == Stop /\ UNCHANGED <<tabs, store, abandoned, misread>>

\* A new run: what earlier runs bought no longer counts.  The operator arms
\* while no tab is in a call or about to click.
ArmRun ==
  /\ \A t \in Owners :
       /\ call[t] = NoCall
       /\ page[t] \notin {"reserved", "authorized", "clicking", "intent", "submitting"}
  /\ Arm
  /\ units' = [p \in Products |-> 0]
  /\ orders' = [p \in Products |-> 0]
  /\ verdict' = [t \in Owners |-> "none"]
  /\ abandoned' = {}
  /\ misread' = {}
  /\ UNCHANGED <<page, call>>

\* The operator, having found no order in the store's history, gives up the
\* mission of the tab in front of him and clears its line from the cart.
OperatorResolves(t) ==
  LET p == PageOf[t]
  IN /\ orders[p] = 0
     /\ call[t] = NoCall /\ page[t] \notin {"intent", "submitting"}
     /\ ResolveKnownNoOrder(p, t, config)
     /\ abandoned' = abandoned \cup {p}
     /\ units' = [units EXCEPT ![p] = 0]
     /\ UNCHANGED <<tabs, orders, misread>>

TabStep(t) ==
  \/ AskPrepare(t) \/ ReturnToCart(t) \/ Withdraw(t) \/ AskAuthorize(t) \/ AskCancel(t)
  \/ ClickAdd(t) \/ ControlGone(t) \/ AskClicked(t) \/ AskRejectedAdd(t)
  \/ OpenCart(t)
  \/ AskStoreError(t) \/ AskFailed(t) \/ AskConfirmed(t) \/ LineVerified(t)
  \/ AskComplete(t) \/ AskClaim(t) \/ AskReclaim(t) \/ AskYield(t)
  \/ AskHandoff(t) \/ AskIntent(t) \/ ClickSubmit(t) \/ SubmitGone(t) \/ AskSubmitted(t)
  \/ AskRejected(t) \/ AskConfirm(t)

FlowNext ==
  \/ \E t \in Owners :
       \/ TabStep(t) \/ Handled(t) \/ OfferRefused(t) \/ Failed(t)
       \/ UserSubmits(t) \/ Reload(t) \/ OperatorResolves(t)
  \/ \E p \in Products : CartDrops(p) \/ LeaseLapses(p)
  \/ StopAll
  \/ ArmRun

FlowSpec == FlowInit /\ [][FlowNext]_flowVars

--------------------------------------------------------------------------------
(* Properties *)

Unresolved(p) == p \notin Now.done \cup abandoned

\* Every change of a cart or of an order is covered by the durable state: by a
\* receipt that keeps the lane, by the completion, or by the click that is
\* just being recorded ("every add gets a durable receipt").  A mission whose
\* Add the store's page denied loses its receipt; no other does.
ReceiptCoversStore ==
  \A p \in Products \ misread :
    (units[p] > 0 /\ Unresolved(p)) \/ (orders[p] > 0 /\ p \notin Now.done)
      => NeedsHold(Now, p) \/ \E t \in Owners : PageOf[t] = p /\ ReceiptPending(t)

\* A run never puts a second unit of a product in the cart, whatever reloads,
\* lost calls and lapsed leases happen on the way, unless the store's page has
\* denied the first.
NoDuplicateAdd == \A p \in Products \ misread : units[p] <= 1

\* The receipt of an Add is cleared from the cart page only when the item is not
\* in the cart ("a new Add click is allowed only if the fully loaded cart proves
\* that exact SKU is absent").
CartProvesAbsence ==
  [][\A t \in Owners :
       LET p == PageOf[t]
       IN /\ page[t] = "cart" /\ call[t].op = "failed" /\ call'[t] = NoCall
          /\ Now.add[p].phase # "idle" /\ Now'.add[p].phase = "idle"
          => units[p] = 0]_flowVars

\* A run never has two orders accepted for one mission; of an automatic mission
\* not even when the store's page has denied its Add.
NoDuplicateOrder ==
  \A p \in Products : orders[p] <= 1 \/ (ActionOf[p] = "review" /\ p \in misread)

\* A permanent lock is always explained by a receipt of its holder: one that
\* is not would block the store until automation is armed again.
NoOrphanedHold ==
  \A k \in Keys :
    st.locks[k].hold /\ st.locks[k].pid \in Products => NeedsHold(st, st.locks[k].pid)

\* The manual-resolution conflict never arises among the page flows.
NoConflict == \A k \in Keys : Now.locks[k].pid # "conflict"

\* What the store sees, as BuyOnce tells it.
StoreView == INSTANCE BuyOnce WITH
  SameStore <- LAMBDA p, q : RetailerOf[p] = RetailerOf[q],
  SameItem <- LAMBDA p, q : ItemOf[p] = ItemOf[q] /\ ItemOf[p] # NoItem,
  cart <- {p \in Products : units[p] > 0},
  ordered <- {p \in Products : orders[p] > 0},
  closed <- Now.done \cup abandoned

\* The page flows and the worker implement that promise until a store's page
\* denies an Add that was made.
FlowBuysOnce ==
  /\ StoreView!Init
  /\ [][misread' = {} => [StoreView!Next]_StoreView!buyVars]_flowVars

================================================================================
