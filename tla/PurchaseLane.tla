------------------------------ MODULE PurchaseLane ------------------------------
(***************************************************************************)
(* The extension's service worker as the owner of the purchase lane: every *)
(* message handler of src/extension/background.js that changes the durable *)
(* automation state.  Any tab may send any message at any time, in any     *)
(* order; PurchaseFlow restricts them to what the content script does.     *)
(*                                                                         *)
(* A handler awaits the desktop's configuration first and only then enters *)
(* the queue in which it reads, normalises, changes and writes the state   *)
(* in one step (withAutomationStateLock).  So the configuration it uses is *)
(* any the desktop has served so far.                                      *)
(***************************************************************************)
EXTENDS AutomationState

CONSTANT MaxRun  \* bound on the number of times the operator arms automation

ASSUME MaxRunAssumption == MaxRun \in Nat

VARIABLES
  st,      \* the stored automation state (chrome.storage.local)
  config,  \* what the desktop serves now: run id and whether it is armed
  served   \* every configuration it has served

vars == <<st, config, served>>
desktop == <<config, served>>

Configs == [run : Nat, active : BOOLEAN]

Init ==
  /\ st = CreateState(0)
  /\ config = [run |-> 0, active |-> FALSE]
  /\ served = {config}

--------------------------------------------------------------------------------
(* The desktop *)

Serve(c) == config' = c /\ served' = served \cup {c} /\ UNCHANGED st

\* Turning automation on starts a new run.
Arm ==
  /\ ~config.active
  /\ config.run < MaxRun
  /\ Serve([run |-> config.run + 1, active |-> TRUE])

Stop == config.active /\ Serve([config EXCEPT !.active = FALSE])

--------------------------------------------------------------------------------
(* Handlers.  c is the configuration the handler fetched. *)

Read(c) == NormalizeState(st, c.run)

Handle(c, result) == c \in served /\ st' = result /\ UNCHANGED desktop

\* Handlers that only run for an armed configuration.
AutomationActive(c) == c.active

\* Time passes the pre-click lease of p.
LeaseRunsOut(p) == st' = Lapse(st, p) /\ UNCHANGED desktop

KeyOrder == [kind \in {"product", "store", "item"} |->
               CASE kind = "product" -> 1 [] kind = "store" -> 2 [] kind = "item" -> 3]

\* The lock on which a claim of p by o is refused: the first in key order.
RefusingKey(s, p, o, k) ==
  /\ ClaimableRecord(s, p, o)
  /\ k \in LockKeys(p) /\ Blocks(s, k, p, o)
  /\ \A j \in LockKeys(p) : Blocks(s, j, p, o) => KeyOrder[k[1]] <= KeyOrder[j[1]]

\* q holds that lock although adding to the cart was its whole mission.
Strands(s, p, o, q) ==
  /\ ActionOf[q] = "cart"
  /\ s.wf[q].phase = "cart-confirmed"
  /\ CanComplete(s, q)
  /\ \E k \in Keys : RefusingKey(s, p, o, k) /\ s.locks[k].pid = q /\ s.locks[k].hold

HealStrandedCartHold(s, p, o) ==
  IF \E q \in Products : Strands(s, p, o, q)
  THEN Complete(s, CHOOSE q \in Products : Strands(s, p, o, q))
  ELSE s

ClaimOutcome(s, p, o) ==
  LET healed == HealStrandedCartHold(s, p, o)
  IN IF CanClaim(healed, p, o) THEN Claim(healed, p, o) ELSE healed

\* Did the claim succeed?
Claimed(s, p, o) == CanClaim(HealStrandedCartHold(s, p, o), p, o)

\* Claim the lane and reserve the Add in one durable write.
Prepared(s, p, o) == Claimed(s, p, o) /\ CanBeginAddAction(ClaimOutcome(s, p, o), p, o)

PrepareOutcome(s, p, o) ==
  LET claimed == ClaimOutcome(s, p, o)
  IN IF Prepared(s, p, o) THEN BeginAddAction(claimed, p, o)
     ELSE IF Claimed(s, p, o) /\ CanRelease(claimed, p) THEN Release(claimed, p, o)
     ELSE claimed

MarkAddOutcome(s, p, o, outcome) ==
  IF CanMarkAddAction(s, p, o, outcome) THEN MarkAddAction(s, p, o, outcome) ELSE s

\* The worker judges the offer again; a bad one cancels the reservation.
AuthorizeOutcome(s, p, o, offerOk) ==
  IF offerOk THEN s ELSE MarkAddOutcome(s, p, o, "canceled")

MarkSubmissionOutcome(s, p, o, outcome) ==
  IF CanMarkSubmission(s, p, o, outcome) THEN MarkSubmission(s, p, o, outcome) ELSE s

ReleaseOutcome(s, p, o) == IF CanRelease(s, p) THEN Release(s, p, o) ELSE s
BeginAddOutcome(s, p, o) ==
  IF CanBeginAddAction(s, p, o) THEN BeginAddAction(s, p, o) ELSE s
BeginSubmissionOutcome(s, p, o, h) ==
  IF CanBeginSubmission(s, p, o) THEN BeginSubmission(s, p, h) ELSE s
BeginReviewOutcome(s, p, o, h) ==
  IF CanBeginManualReview(s, p, o) THEN BeginManualReview(s, p, o, h) ELSE s
CompleteOutcome(s, p) == IF CanComplete(s, p) THEN Complete(s, p) ELSE s

ClaimProduct(p, o, c) == AutomationActive(c) /\ Handle(c, ClaimOutcome(Read(c), p, o))
PrepareAdd(p, o, c) == AutomationActive(c) /\ Handle(c, PrepareOutcome(Read(c), p, o))
BeginAdd(p, o, c) == AutomationActive(c) /\ Handle(c, BeginAddOutcome(Read(c), p, o))
AuthorizeAdd(p, o, c, offerOk) ==
  AutomationActive(c) /\ Handle(c, AuthorizeOutcome(Read(c), p, o, offerOk))
MarkAdd(p, o, c, outcome) == Handle(c, MarkAddOutcome(Read(c), p, o, outcome))
ReleaseLane(p, o, c) == Handle(c, ReleaseOutcome(Read(c), p, o))
BeginSubmit(p, o, c, h) ==
  AutomationActive(c) /\ Handle(c, BeginSubmissionOutcome(Read(c), p, o, h))
MarkSubmit(p, o, c, outcome) ==
  Handle(c, MarkSubmissionOutcome(Read(c), p, o, outcome))
BeginReview(p, o, c, h) ==
  AutomationActive(c) /\ Handle(c, BeginReviewOutcome(Read(c), p, o, h))

MarkManual(p, o, c, h) ==
  LET s == Read(c)
  IN Handle(c, IF CanMarkManualSubmit(s, p, o, h) THEN MarkManualSubmit(s, p) ELSE s)

CompleteProduct(p, c) == Handle(c, CompleteOutcome(Read(c), p))

CompleteCombinedMember(p, captain, c) ==
  LET s == Read(c)
  IN /\ {p, captain} \subseteq Members /\ RetailerOf[captain] = RetailerOf[p]
     /\ Handle(c, IF CanCompleteMember(s, p, captain) THEN CompleteMember(s, p) ELSE s)

\* From the popup, with automation switched off; a refusal writes nothing.
ResolveKnownNoOrder(p, o, c) ==
  /\ ~c.active
  /\ CanResolve(Read(c), p, o)
  /\ Handle(c, Resolve(Read(c), p, o))

Message(p, o, c) ==
  \/ ClaimProduct(p, o, c)
  \/ PrepareAdd(p, o, c)
  \/ BeginAdd(p, o, c)
  \/ \E offerOk \in BOOLEAN : AuthorizeAdd(p, o, c, offerOk)
  \/ \E outcome \in {"clicked", "confirmed", "canceled", "failed"} : MarkAdd(p, o, c, outcome)
  \/ ReleaseLane(p, o, c)
  \/ \E h \in EvidenceHashes : BeginSubmit(p, o, c, h)
  \/ \E outcome \in {"clicked", "canceled", "failed"} : MarkSubmit(p, o, c, outcome)
  \/ \E h \in EvidenceHashes : BeginReview(p, o, c, h)
  \/ \E h \in EvidenceHashes : MarkManual(p, o, c, h)
  \/ CompleteProduct(p, c)
  \/ \E captain \in Products : CompleteCombinedMember(p, captain, c)
  \/ ResolveKnownNoOrder(p, o, c)

Next ==
  \/ Arm
  \/ Stop
  \/ \E p \in Products : LeaseRunsOut(p)
  \/ \E p \in Products, o \in Owners, c \in served : Message(p, o, c)

Spec == Init /\ [][Next]_vars

--------------------------------------------------------------------------------
(* Properties *)

TypeOK ==
  /\ st \in AutomationStates
  /\ config \in Configs
  /\ config.run <= MaxRun
  /\ served \subseteq Configs

\* The state as the next handler will see it.
Now == NormalizeState(st, config.run)

Rivals(p, q) == p # q /\ HoldKeys(p) \cap LockKeys(q) # {}

\* While a cart or an order of p may have changed, no other mission of the
\* store or of the item is allowed an Add click or a submit intent, whatever
\* messages its tabs send (normalizeState re-creates the hold on every read).
RivalExcluded ==
  \A p, q \in Products, o \in Owners :
    Rivals(p, q) /\ NeedsHold(Now, p)
      => ~CanAuthorizeAddClick(Now, q, o) /\ ~CanBeginSubmission(Now, q, o)

\* Two orders that may both be in flight never share a store or an item.
SubmitExclusive ==
  \A p, q \in Products :
    Rivals(p, q) => ~({st.sub[p].phase, st.sub[q].phase} \subseteq MaybeSubmitted)

\* Once one option of an item has completed, no click is authorized for any
\* option of it, not even for a reservation made before (authorizeAddClick
\* itself never looks at completedItems).
ItemSecuredOnce ==
  \A q \in Products, o \in Owners :
    ItemCompleted(Now, q) => ~CanAuthorizeAddClick(Now, q, o)

\* A completed mission keeps nothing: no Add in flight, no possible order, no
\* lock that would keep its store from the others.
ProductSealed ==
  \A p \in st.done :
    /\ st.add[p] = IdleAdd
    /\ st.sub[p].phase \notin MaybeSubmitted
    /\ \A k \in Keys : st.locks[k].pid # p

\* A mission that has added nothing yet and is granted the lane can reserve
\* its Add there.  Combined ordering promises it to every member ("every
\* in-stock item is added to the cart and held", WHATS-NEW.md 127).
ClaimedMayAdd ==
  \A p \in Products, o \in Owners :
    Claimed(Now, p, o) /\ Now.add[p].phase = "idle" => Prepared(Now, p, o)

================================================================================
