-------------------------- MODULE PurchaseFlow_proofs --------------------------
(***************************************************************************)
(* The page flows never buy twice: proofs about PurchaseFlow.  FlowInv     *)
(* ties every store tab to the durable record and the record to what the   *)
(* store has; with no fault switched on and no combined order, every step  *)
(* of a tab, of the worker, of the desktop and of the operator keeps it.   *)
(* The properties of PurchaseFlow follow, and that it implements BuyOnce.  *)
(*                                                                         *)
(* FaultInv is what is left of it under every fault: the worker's record,  *)
(* the tabs that may still click or submit, and the automatic orders.      *)
(* With faults and combined orders the flows still implement the lane.     *)
(*                                                                         *)
(* Two states occur throughout: n is what a handler reads (the stored      *)
(* state, normalized) and r what it writes back, for mission p of tab o.   *)
(***************************************************************************)
EXTENDS PurchaseFlow, PurchaseLane_proofs, TLAPS

--------------------------------------------------------------------------------
(* The invariant of the stored state under the page flows *)

\* A lock is free or belongs to a mission of its key; none is a combined one.
PlainLocks(s) ==
  \A k \in Keys :
    LET l == s.locks[k]
    IN /\ l.members = {} /\ l.claim = NoClaim
       /\ l = Free \/ (l.pid \in Products /\ k \in LockKeys(l.pid))

\* A permanent lock has a receipt of its mission behind it.
HoldsExplained(s) ==
  \A k \in Keys : s.locks[k].hold => NeedsHold(s, s.locks[k].pid)

\* Missions that need a hold share no key, and nobody else is on their keys.
NeedersApart(s) ==
  \A p, q \in Products :
    p # q /\ NeedsHold(s, p) /\ NeedsHold(s, q) => LockKeys(p) \cap LockKeys(q) = {}

\* The keys of a mission that needs a hold are free or its own.
LaneKept(s) ==
  \A p \in Products : NeedsHold(s, p) =>
    \A k \in LockKeys(p) : s.locks[k] = Free \/ s.locks[k].pid = p

\* The receipts of p agree with each other and with its locks.
AddFits(s, p) ==
  IF s.add[p].phase = "idle" THEN s.add[p] = IdleAdd
  ELSE /\ s.add[p].owner \in Owners /\ ActionOf[p] # "watch"
       /\ \A k \in Keys : s.locks[k].pid = p => s.locks[k].owner = s.add[p].owner
       /\ \/ s.wf[p].owner = s.add[p].owner
          \/ s.add[p].phase = "reserved" /\ s.locks[ProductKey(p)] = Free

\* A recorded workflow has its receipt.
WorkflowFits(s, p) ==
  /\ s.wf[p].phase \in {"cart-confirmed", "awaiting-manual-outcome", "manual-submit-observed"}
       => s.add[p].phase = "confirmed"
  /\ s.wf[p].phase = "submission-uncertain" => s.sub[p].phase = "uncertain"

\* A possible order has its lane, or no Add was ever made.
SubmissionFits(s, p) ==
  s.sub[p].phase \in MaybeSubmitted =>
    /\ ActionOf[p] = "checkout" /\ s.add[p].phase \in {"idle", "confirmed"}
    /\ \/ s.locks[ProductKey(p)].pid = p /\ s.locks[ProductKey(p)].hold
       \/ s.add[p].phase = "idle" /\ s.wf[p].owner = Nobody

\* All that is recorded of p.
ReceiptsFit(s, p) == AddFits(s, p) /\ WorkflowFits(s, p) /\ SubmissionFits(s, p)

\* The invariant of the stored state.
LaneSafe(s) ==
  /\ PlainLocks(s) /\ HoldsExplained(s) /\ NeedersApart(s) /\ LaneKept(s)
  /\ \A p \in Products : ReceiptsFit(s, p)

--------------------------------------------------------------------------------
(* The invariant of the tabs and of the store *)

\* The pages from which a tab makes each call.
CallPages ==
  [prepare |-> {"product"}, authorize |-> {"reserved"}, release |-> {"reserved"},
   cancel |-> {"reserved", "withdrawn"}, clicked |-> {"clicking"},
   confirmed |-> {"cart"}, failed |-> {"settling", "product", "cart"},
   claim |-> {"carted"}, reclaim |-> {"checkout"}, yield |-> {"summary"},
   handoff |-> {"summary"}, intent |-> {"summary"}, submitted |-> {"submitting"},
   observed |-> {"submitted"}, rejected |-> {"submitted"}, complete |-> {"carted"},
   confirm |-> {"submitted"}]

\* A call is of the present run and of a page that makes it.
CallFits(t) ==
  \/ call[t] = NoCall
  \/ /\ call[t].op \in Ops /\ call[t].config.run = config.run
     /\ page[t] \in CallPages[call[t].op]
     /\ call[t].op = "prepare" => ActionOf[PageOf[t]] # "watch"
     /\ call[t].op = "complete" => ActionOf[PageOf[t]] = "cart"
     /\ call[t].op = "handoff" => ActionOf[PageOf[t]] = "review"
     /\ call[t].op = "intent" => ActionOf[PageOf[t]] = "checkout"
     /\ call[t].op = "rejected" => verdict[t] = "rejected"
     /\ call[t].op = "confirm" => verdict[t] = "accepted"

\* A tab allowed to click still has the reservation and the lane.
ClickFits(s, t) ==
  LET p == PageOf[t]
  IN /\ Authorized(t) =>
          /\ s.add[p] = [phase |-> "reserved", owner |-> t] /\ p \notin s.done
          /\ OwnsLane(s, p, t) /\ s.wf[p].owner = t
     /\ page[t] = "authorized" => units[p] = 0 /\ orders[p] = 0

\* A tab about to submit has the recorded intent and the held lane.
SubmitFits(s, t) ==
  LET p == PageOf[t]
  IN page[t] = "intent" =>
       /\ s.sub[p].phase = "intent" /\ ActionOf[p] = "checkout" /\ p \notin s.done
       /\ orders[p] = 0 /\ \A k \in LockKeys(p) : s.locks[k] = Lock(p, t, TRUE)

\* The Add of a tab is where its page says.
AddIsWhere(s, t) ==
  LET p == PageOf[t]
  IN /\ page[t] \in {"reserved", "withdrawn"} =>
          s.add[p].owner # t \/ s.add[p].phase \notin {"clicked", "confirmed"}
     /\ page[t] \in {"summary", "handoff", "intent", "submitting", "submitted"} =>
          s.add[p].owner # t \/ s.add[p].phase \notin {"reserved", "clicked"}
     /\ page[t] = "handoff" => ActionOf[p] = "review"

\* A tab that reports its Add as failed has nothing in the cart.
ReportFits(s, t) ==
  LET p == PageOf[t]
  IN /\ call[t].op = "failed" /\ s.add[p].owner = t =>
          units[p] = 0 /\ (ActionOf[p] = "review" /\ p \notin s.done => orders[p] = 0)
     /\ verdict[t] = "accepted" => orders[p] > 0

\* All that holds of a tab.
TabFits(s, t) ==
  ClickFits(s, t) /\ SubmitFits(s, t) /\ AddIsWhere(s, t) /\ ReportFits(s, t)

\* A tab of p has clicked and not yet had its receipt recorded.
Clicking(p) == \E t \in Owners : PageOf[t] = p /\ ReceiptPending(t)

\* What the store has of p is on record.
CartFits(s, p) ==
  /\ units[p] <= 1 /\ orders[p] <= 1 /\ (orders[p] > 0 => units[p] = 0)
  /\ units[p] > 0 /\ p \notin s.done => NeedsHold(s, p) \/ Clicking(p)
  /\ s.sub[p].phase \in MaybeSubmitted /\ s.add[p].phase = "idle" => units[p] = 0

\* The orders of p are those its action and its record allow.
OrderFits(s, p) ==
  /\ ActionOf[p] \in {"cart", "watch"} => orders[p] = 0
  /\ ActionOf[p] = "checkout" /\ orders[p] > 0 /\ p \notin s.done =>
       /\ s.sub[p].phase \in MaybeSubmitted
       /\ \A t \in Owners : PageOf[t] = p /\ s.locks[ProductKey(p)].owner = t
            => verdict[t] # "rejected"
  /\ ActionOf[p] = "review" /\ orders[p] > 0 /\ p \notin s.done =>
       s.add[p].phase \in {"clicked", "confirmed"} \/ Clicking(p)
  /\ p \in s.done /\ ActionOf[p] \in {"review", "checkout"} => orders[p] > 0

\* A mission given up by the operator stays so until the next run.
GivenUpFits(s, p) ==
  p \in abandoned =>
    /\ ~config.active /\ units[p] = 0 /\ orders[p] = 0
    /\ \A t \in Owners : PageOf[t] = p =>
         /\ ~Authorized(t)
         /\ call[t].op = "authorize" /\ s.add[p] = [phase |-> "reserved", owner |-> t]
              => ~call[t].config.active

\* All that the store has of p.
StoreFits(s, p) == CartFits(s, p) /\ OrderFits(s, p) /\ GivenUpFits(s, p)

\* The stored state of the present run.
Cur == IF st.run = config.run THEN st ELSE CreateState(config.run)

\* The pages a tab may show.
Pages == {Calls[op].granted : op \in Ops} \cup {Calls[op].refused : op \in Ops}
           \cup {"clicking", "cart", "submitting"}

\* The variables of the flow keep their types.
FlowTypeOK ==
  /\ page \in [Owners -> Pages]
  /\ call \in [Owners -> [op : Ops \cup {"none"}, config : Configs]]
  /\ verdict \in [Owners -> {"none", "accepted", "rejected"}]
  /\ units \in [Products -> Nat] /\ orders \in [Products -> Nat]
  /\ abandoned \subseteq Products

\* The invariant of the page flows.
FlowInv ==
  /\ LaneInv /\ LaneSafe(st) /\ st.run <= config.run
  /\ FlowTypeOK
  /\ \A t \in Owners : CallFits(t) /\ TabFits(Cur, t)
  /\ \A p \in Products : StoreFits(Cur, p)

--------------------------------------------------------------------------------
(* normalizeState under that invariant *)

\* The keys of a mission are keys, its product key is its own, and a mission
\* that is not only watched holds what it locks.
LEMMA KeyFacts ==
  ASSUME NEW p \in Products
  PROVE  /\ LockKeys(p) \subseteq Keys /\ ProductKey(p) \in LockKeys(p)
         /\ \A q \in Products : ProductKey(p) \in LockKeys(q) => q = p
         /\ ActionOf[p] # "watch" => HoldKeys(p) = LockKeys(p)
         /\ LockKeys(p) \subseteq HoldKeys(p)
<1>1. LockKeys(p) \subseteq Keys /\ LockKeys(p) \subseteq HoldKeys(p)
  BY HoldKeysAreKeys
<1>2. ProductKey(p) \in LockKeys(p)
  BY DEF LockKeys
<1>3. \A q \in Products : ProductKey(p) \in LockKeys(q) => q = p
  BY DEF LockKeys, ProductKey, StoreKey, ItemKey
<1>4. ActionOf[p] # "watch" => HoldKeys(p) = LockKeys(p)
  BY DEF LockKeys, HoldKeys
<1>. QED BY <1>1, <1>2, <1>3, <1>4

\* Free and the names it holds belong to nobody.
LEMMA NobodysNames ==
  /\ Free.pid = "none" /\ ~Free.hold /\ Free.members = {} /\ Free.claim = NoClaim
  /\ Free.owner = Nobody /\ "none" \notin Products
  /\ Nobody \notin Owners /\ "recovered" \notin Owners /\ "operator" \notin Owners
BY ReservedNamesAssumption DEF Free, Nobody

\* The fields of a lock of one mission.
LEMMA LockFields ==
  ASSUME NEW p, NEW o, NEW held \in BOOLEAN
  PROVE  /\ Lock(p, o, held).pid = p /\ Lock(p, o, held).owner = o
         /\ Lock(p, o, held).hold = held
         /\ Lock(p, o, held).members = {} /\ Lock(p, o, held).claim = NoClaim
BY DEF Lock, Free

\* A watched mission never needs a hold.
LEMMA NeederActs ==
  ASSUME NEW s, NEW p \in Products, ReceiptsFit(s, p), NeedsHold(s, p)
  PROVE  ActionOf[p] # "watch" /\ p \notin s.done
BY DEF ReceiptsFit, AddFits, WorkflowFits, SubmissionFits, NeedsHold, HeldWorkflowPhases,
   MaybeSubmitted

\* A lock on a key of a mission that needs its hold ends up held for it.
LEMMA NormalHeldLock ==
  ASSUME NEW s \in AutomationStates, LaneSafe(s), Members = {},
         NEW p \in Products, NeedsHold(s, p), NEW k \in LockKeys(p)
  PROVE  NormalLock(s, k) = IF s.locks[k].hold THEN s.locks[k]
                            ELSE Lock(p, HoldOwner(s, p, s.locks[k]), TRUE)
<1>. DEFINE l == s.locks[k]
            needers == {q \in Products : NeedsHold(s, q) /\ k \in HoldKeys(q)}
            holders == needers \cup (IF l.hold THEN {l.pid} ELSE {})
            sole == CHOOSE q \in holders : TRUE
            ensured == EnsuredLock(s, k, l)
<1>1. k \in Keys /\ p \notin s.done /\ HoldKeys(p) = LockKeys(p)
  BY KeyFacts, NeederActs DEF LaneSafe
<1>2. l = Free \/ l.pid = p
  BY DEF LaneSafe, LaneKept
<1>3. l.members = {} /\ l.pid \notin s.done
  <2>1. s.done \subseteq Products
    BY FieldTypes
  <2>. QED BY <1>1, <1>2, <2>1, NobodysNames DEF LaneSafe, PlainLocks
<1>4. needers = {p}
  <2>1. \A q \in Products : NeedsHold(s, q) => HoldKeys(q) = LockKeys(q)
    BY KeyFacts, NeederActs DEF LaneSafe
  <2>2. \A q \in Products : NeedsHold(s, q) /\ k \in LockKeys(q) => q = p
    BY DEF LaneSafe, NeedersApart
  <2>. QED BY <1>1, <2>1, <2>2
<1>5. holders = {p} /\ sole = p
  <2>1. l.hold => l.pid = p
    BY <1>2, NobodysNames
  <2>2. holders = {p}
    BY <1>4, <2>1
  <2>. QED BY <2>2
<1>6. ensured = IF l.hold THEN l ELSE Lock(p, HoldOwner(s, p, l), TRUE)
  BY <1>4, <1>5 DEF EnsuredLock
<1>7. ensured.members = {}
  <2>1. Lock(p, HoldOwner(s, p, l), TRUE).members = {}
    BY LockFields
  <2>. HIDE DEF ensured
  <2>. QED BY <1>3, <1>6, <2>1
<1>8. NormalLock(s, k) = IF ensured.members # {} /\ ensured.members \subseteq s.done
                         THEN Free ELSE ensured
  BY <1>3 DEF NormalLock, BatchFinished
<1>. HIDE DEF ensured
<1>. QED BY <1>6, <1>7, <1>8

\* Any other lock stays, unless it is of a completed mission.
LEMMA NormalOtherLock ==
  ASSUME NEW s \in AutomationStates, LaneSafe(s), NEW k \in Keys,
         \A p \in Products : NeedsHold(s, p) => k \notin LockKeys(p)
  PROVE  NormalLock(s, k) = IF s.locks[k].pid \in s.done THEN Free ELSE s.locks[k]
<1>. DEFINE cur == IF s.locks[k].pid \in s.done THEN Free ELSE s.locks[k]
            needers == {q \in Products : NeedsHold(s, q) /\ k \in HoldKeys(q)}
<1>1. \A q \in Products : NeedsHold(s, q) => HoldKeys(q) = LockKeys(q)
  BY KeyFacts, NeederActs DEF LaneSafe
<1>2. needers = {}
  BY <1>1
<1>3. EnsuredLock(s, k, cur) = cur
  BY <1>2 DEF EnsuredLock
<1>4. cur.members = {}
  BY NobodysNames DEF LaneSafe, PlainLocks
<1>. QED BY <1>3, <1>4 DEF NormalLock, BatchFinished

\* What a read does to the receipts: a workflow without an owner takes the
\* one of the Add.
SameReceipts(s, n) ==
  /\ n.add = s.add /\ n.sub = s.sub /\ n.done = s.done /\ n.run = s.run
  /\ \A p \in Products :
       /\ p \notin s.done => n.wf[p].phase = s.wf[p].phase
       /\ n.wf[p].phase \in {s.wf[p].phase, "confirmed"}
       /\ n.wf[p].owner = WorkflowOwner(s, p) /\ n.wf[p].hash = s.wf[p].hash

\* The holds a handler finds: every mission that needs one has its keys.
LaneReady(n) ==
  \A p \in Products : NeedsHold(n, p) =>
    \A k \in LockKeys(p) : n.locks[k].pid = p /\ n.locks[k].hold

\* What normalizeState leaves of the record.
LEMMA NormalizedFields ==
  ASSUME NEW s \in AutomationStates
  PROVE  /\ SameReceipts(s, Normalized(s))
         /\ \A k \in Keys : Normalized(s).locks[k] = NormalLock(s, k)
         /\ \A p \in Products : NeedsHold(Normalized(s), p) <=> NeedsHold(s, p)
<1>1. SameReceipts(s, Normalized(s))
  BY DEF Normalized, SameReceipts, AutomationStates, Workflow
<1>2. \A k \in Keys : Normalized(s).locks[k] = NormalLock(s, k)
  BY DEF Normalized, AutomationStates
<1>. QED BY <1>1, <1>2, NormalizedNeeds

\* The owner of a lock that a read creates or holds: the one of the Add, or
\* else none of the tabs' while a submission is possible.
LEMMA HeldOwners ==
  ASSUME NEW s \in AutomationStates, LaneSafe(s), NEW p \in Products, NeedsHold(s, p),
         NEW k \in LockKeys(p), ~s.locks[k].hold
  PROVE  /\ s.add[p].phase # "idle" => HoldOwner(s, p, s.locks[k]) = s.add[p].owner
         /\ s.add[p].phase # "reserved"
         /\ s.add[p].phase # "idle" => WorkflowOwner(s, p) = s.add[p].owner
<1>1. AddFits(s, p) /\ WorkflowFits(s, p) /\ SubmissionFits(s, p)
  BY DEF LaneSafe, ReceiptsFit
<1>2. s.add[p].phase # "reserved"
  BY <1>1 DEF NeedsHold, WorkflowFits, SubmissionFits, HeldWorkflowPhases, MaybeSubmitted
<1>3. s.add[p].phase # "idle" =>
        s.wf[p].owner = s.add[p].owner /\ s.add[p].owner # Nobody
  BY <1>1, <1>2, NobodysNames DEF AddFits
<1>. QED BY <1>2, <1>3 DEF HoldOwner, WorkflowOwner

\* A read keeps the lane safe and readies it.
LEMMA NormalizedSafe ==
  ASSUME NEW s \in AutomationStates, LaneSafe(s), Sealed(s), Members = {}
  PROVE  LaneSafe(Normalized(s)) /\ LaneReady(Normalized(s))
<1>. DEFINE n == Normalized(s)
<1>1. SameReceipts(s, n) /\ \A k \in Keys : n.locks[k] = NormalLock(s, k)
  BY NormalizedFields
<1>2. \A p \in Products : NeedsHold(n, p) <=> NeedsHold(s, p)
  BY NormalizedFields
<1>. HIDE DEF n
<1>3. ASSUME NEW p \in Products, NeedsHold(s, p), NEW k \in LockKeys(p)
      PROVE  /\ n.locks[k] = IF s.locks[k].hold THEN s.locks[k]
                             ELSE Lock(p, HoldOwner(s, p, s.locks[k]), TRUE)
             /\ n.locks[k].pid = p /\ n.locks[k].hold
             /\ n.locks[k].members = {} /\ n.locks[k].claim = NoClaim
  <2>1. k \in Keys
    BY KeyFacts
  <2>2. n.locks[k] = IF s.locks[k].hold THEN s.locks[k]
                     ELSE Lock(p, HoldOwner(s, p, s.locks[k]), TRUE)
    BY <1>1, <1>3, <2>1, NormalHeldLock
  <2>3. s.locks[k].hold => s.locks[k].pid = p
    BY <1>3, NobodysNames DEF LaneSafe, LaneKept
  <2>4. s.locks[k].members = {} /\ s.locks[k].claim = NoClaim
    BY <2>1 DEF LaneSafe, PlainLocks
  <2>5. Lock(p, HoldOwner(s, p, s.locks[k]), TRUE).pid = p
        /\ Lock(p, HoldOwner(s, p, s.locks[k]), TRUE).hold
        /\ Lock(p, HoldOwner(s, p, s.locks[k]), TRUE).members = {}
        /\ Lock(p, HoldOwner(s, p, s.locks[k]), TRUE).claim = NoClaim
    BY DEF Lock, Free
  <2>6. CASE s.locks[k].hold
    BY <2>2, <2>3, <2>4, <2>6
  <2>7. CASE ~s.locks[k].hold
    <3>1. n.locks[k] = Lock(p, HoldOwner(s, p, s.locks[k]), TRUE)
      BY <2>2, <2>7
    <3>. QED BY <2>5, <2>7, <3>1
  <2>. QED BY <2>6, <2>7
<1>4. ASSUME NEW k \in Keys, \A p \in Products : NeedsHold(s, p) => k \notin LockKeys(p)
      PROVE  n.locks[k] = IF s.locks[k].pid \in s.done THEN Free ELSE s.locks[k]
  BY <1>1, <1>4, NormalOtherLock
<1>5. LaneReady(n)
  BY <1>2, <1>3 DEF LaneReady
<1>6. PlainLocks(n)
  <2>. SUFFICES ASSUME NEW k \in Keys
                PROVE  /\ n.locks[k].members = {} /\ n.locks[k].claim = NoClaim
                       /\ n.locks[k] = Free \/ (n.locks[k].pid \in Products /\ k \in LockKeys(n.locks[k].pid))
    BY DEF PlainLocks
  <2>1. CASE \E p \in Products : NeedsHold(s, p) /\ k \in LockKeys(p)
    BY <1>3, <2>1
  <2>2. CASE ~\E p \in Products : NeedsHold(s, p) /\ k \in LockKeys(p)
    BY <1>4, <2>2, NobodysNames DEF LaneSafe, PlainLocks
  <2>. QED BY <2>1, <2>2
<1>7. HoldsExplained(n)
  <2>. SUFFICES ASSUME NEW k \in Keys, n.locks[k].hold PROVE NeedsHold(n, n.locks[k].pid)
    BY DEF HoldsExplained
  <2>1. CASE \E p \in Products : NeedsHold(s, p) /\ k \in LockKeys(p)
    BY <1>2, <1>3, <2>1
  <2>2. CASE ~\E p \in Products : NeedsHold(s, p) /\ k \in LockKeys(p)
    <3>1. n.locks[k] = s.locks[k] /\ s.locks[k].hold
      BY <1>4, <2>2, NobodysNames
    <3>2. NeedsHold(s, s.locks[k].pid) /\ s.locks[k].pid \in Products
      BY <3>1, NobodysNames DEF LaneSafe, HoldsExplained, PlainLocks
    <3>. QED BY <1>2, <3>1, <3>2
  <2>. QED BY <2>1, <2>2
<1>8. NeedersApart(n)
  BY <1>2 DEF LaneSafe, NeedersApart
<1>9. LaneKept(n)
  BY <1>2, <1>3 DEF LaneKept
<1>10. ASSUME NEW p \in Products PROVE ReceiptsFit(n, p)
  <2>0. AddFits(s, p) /\ WorkflowFits(s, p) /\ SubmissionFits(s, p)
    BY DEF LaneSafe, ReceiptsFit
  <2>1. AddFits(n, p)
    <3>1. CASE s.add[p].phase = "idle"
      BY <1>1, <2>0, <3>1 DEF AddFits, SameReceipts
    <3>2. CASE s.add[p].phase # "idle"
      <4>1. ASSUME NEW k \in Keys, n.locks[k].pid = p
            PROVE  n.locks[k].owner = s.add[p].owner
        <5>1. CASE \E q \in Products : NeedsHold(s, q) /\ k \in LockKeys(q)
          <6>1. NeedsHold(s, p) /\ k \in LockKeys(p)
            BY <1>3, <4>1, <5>1
          <6>2. s.locks[k].hold => s.locks[k].pid = p
            BY <1>3, <6>1, NobodysNames DEF LaneSafe, LaneKept
          <6>3. Lock(p, HoldOwner(s, p, s.locks[k]), TRUE).owner = HoldOwner(s, p, s.locks[k])
            BY DEF Lock, Free
          <6>4. ~s.locks[k].hold => HoldOwner(s, p, s.locks[k]) = s.add[p].owner
            BY <3>2, <6>1, HeldOwners
          <6>5. s.locks[k].hold => s.locks[k].owner = s.add[p].owner
            BY <2>0, <3>2, <4>1, <6>2 DEF AddFits
          <6>6. CASE s.locks[k].hold
            BY <1>3, <6>1, <6>5, <6>6
          <6>7. CASE ~s.locks[k].hold
            <7>1. n.locks[k] = Lock(p, HoldOwner(s, p, s.locks[k]), TRUE)
              BY <1>3, <6>1, <6>7
            <7>. QED BY <6>3, <6>4, <6>7, <7>1
          <6>. QED BY <6>6, <6>7
        <5>2. CASE ~\E q \in Products : NeedsHold(s, q) /\ k \in LockKeys(q)
          BY <1>4, <2>0, <3>2, <4>1, <5>2, NobodysNames DEF AddFits
        <5>. QED BY <5>1, <5>2
      <4>2. s.wf[p].owner = s.add[p].owner => n.wf[p].owner = n.add[p].owner
        BY <1>1, <2>0, <3>2, NobodysNames DEF AddFits, SameReceipts, WorkflowOwner
      <4>3. s.add[p].phase = "reserved" /\ s.locks[ProductKey(p)] = Free
              => n.locks[ProductKey(p)] = Free
        <5>. SUFFICES ASSUME s.add[p].phase = "reserved", s.locks[ProductKey(p)] = Free
                      PROVE  n.locks[ProductKey(p)] = Free
          OBVIOUS
        <5>1. ~NeedsHold(s, p)
          BY <2>0 DEF NeedsHold, WorkflowFits, SubmissionFits, HeldWorkflowPhases, MaybeSubmitted
        <5>2. \A q \in Products : NeedsHold(s, q) => ProductKey(p) \notin LockKeys(q)
          BY <5>1, KeyFacts
        <5>3. ProductKey(p) \in Keys
          BY KeyFacts
        <5>. QED BY <1>4, <5>2, <5>3
      <4>. QED BY <1>1, <2>0, <3>2, <4>1, <4>2, <4>3 DEF AddFits, SameReceipts
    <3>. QED BY <3>1, <3>2
  <2>2. WorkflowFits(n, p)
    BY <1>1, <2>0 DEF WorkflowFits, SameReceipts
  <2>3. SubmissionFits(n, p)
    <3>. SUFFICES ASSUME s.sub[p].phase \in MaybeSubmitted
                  PROVE  /\ ActionOf[p] = "checkout" /\ s.add[p].phase \in {"idle", "confirmed"}
                         /\ n.locks[ProductKey(p)].pid = p /\ n.locks[ProductKey(p)].hold
      BY <1>1 DEF SubmissionFits, SameReceipts
    <3>1. NeedsHold(s, p)
      BY DEF NeedsHold, Sealed
    <3>2. ProductKey(p) \in LockKeys(p)
      BY KeyFacts
    <3>. QED BY <1>3, <2>0, <3>1, <3>2 DEF SubmissionFits
  <2>. QED BY <2>1, <2>2, <2>3 DEF ReceiptsFit
<1>11. LaneSafe(n)
  BY <1>6, <1>7, <1>8, <1>9, <1>10 DEF LaneSafe
<1>. QED BY <1>5, <1>11 DEF n

\* A read disturbs no tab.
LEMMA NormalizedTabs ==
  ASSUME NEW s, StateInv(s), LaneSafe(s), Members = {},
         NEW t \in Owners, PageOf[t] \in Products, TabFits(s, t)
  PROVE  TabFits(Normalized(s), t)
<1>. DEFINE n == Normalized(s)
            p == PageOf[t]
<1>0. s \in AutomationStates
  BY DEF StateInv
<1>1. SameReceipts(s, n) /\ \A k \in Keys : n.locks[k] = NormalLock(s, k)
  BY <1>0, NormalizedFields
<1>2. AddFits(s, p) /\ WorkflowFits(s, p) /\ SubmissionFits(s, p)
  BY DEF LaneSafe, ReceiptsFit
<1>3. LockKeys(p) \subseteq Keys
  BY KeyFacts
<1>. HIDE DEF n
<1>4. ClickFits(n, t)
  <2>1. CASE ~Authorized(t)
    BY <2>1 DEF ClickFits, Authorized, TabFits
  <2>2. CASE Authorized(t)
    <3>1. s.add[p] = [phase |-> "reserved", owner |-> t] /\ p \notin s.done
          /\ OwnsLane(s, p, t) /\ s.wf[p].owner = t
          /\ (page[t] = "authorized" => units[p] = 0 /\ orders[p] = 0)
      BY <2>2 DEF TabFits, ClickFits
    <3>2. ~NeedsHold(s, p)
      BY <1>2, <3>1 DEF NeedsHold, WorkflowFits, SubmissionFits, HeldWorkflowPhases, MaybeSubmitted
    <3>3. ASSUME NEW k \in LockKeys(p) PROVE n.locks[k] = s.locks[k]
      <4>1. \A q \in Products : NeedsHold(s, q) => k \notin LockKeys(q)
        BY <3>1, <3>2, NobodysNames DEF LaneSafe, LaneKept, OwnsLane, OwnedBy
      <4>2. NormalLock(s, k) = IF s.locks[k].pid \in s.done THEN Free ELSE s.locks[k]
        BY <1>0, <1>3, <4>1, NormalOtherLock
      <4>3. s.locks[k].pid = p
        BY <3>1 DEF OwnsLane, OwnedBy
      <4>. QED BY <1>1, <1>3, <3>1, <4>2, <4>3
    <3>4. OwnsLane(n, p, t)
      BY <3>1, <3>3 DEF OwnsLane, OwnedBy
    <3>5. n.wf[p].owner = t
      BY <1>1, <3>1, NobodysNames DEF SameReceipts, WorkflowOwner
    <3>. QED BY <1>1, <3>1, <3>4, <3>5 DEF SameReceipts, ClickFits
  <2>. QED BY <2>1, <2>2
<1>5. SubmitFits(n, t)
  <2>. SUFFICES ASSUME page[t] = "intent"
                PROVE  /\ n.sub[p].phase = "intent" /\ ActionOf[p] = "checkout" /\ p \notin n.done
                       /\ orders[p] = 0 /\ \A k \in LockKeys(p) : n.locks[k] = Lock(p, t, TRUE)
    BY DEF SubmitFits
  <2>1. s.sub[p].phase = "intent" /\ ActionOf[p] = "checkout" /\ p \notin s.done
        /\ orders[p] = 0 /\ \A k \in LockKeys(p) : s.locks[k] = Lock(p, t, TRUE)
    BY DEF SubmitFits, TabFits
  <2>2. NeedsHold(s, p)
    BY <2>1 DEF NeedsHold, MaybeSubmitted
  <2>3. ASSUME NEW k \in LockKeys(p) PROVE n.locks[k] = s.locks[k]
    <3>1. s.locks[k].hold
      BY <2>1 DEF Lock, Free
    <3>. QED BY <1>0, <1>1, <1>3, <2>2, <3>1, NormalHeldLock
  <2>. QED BY <1>1, <2>1, <2>3 DEF SameReceipts
<1>6. AddIsWhere(n, t) /\ ReportFits(n, t)
  BY <1>1 DEF TabFits, AddIsWhere, ReportFits, SameReceipts
<1>. QED BY <1>4, <1>5, <1>6 DEF TabFits, n

\* Nor what the store has.
LEMMA NormalizedStore ==
  ASSUME NEW s, StateInv(s), LaneSafe(s), Members = {}, NEW p \in Products, StoreFits(s, p)
  PROVE  StoreFits(Normalized(s), p)
<1>. DEFINE n == Normalized(s)
<1>0. s \in AutomationStates /\ Sealed(s)
  BY DEF StateInv
<1>1. SameReceipts(s, n) /\ \A k \in Keys : n.locks[k] = NormalLock(s, k)
  BY <1>0, NormalizedFields
<1>2. NeedsHold(n, p) <=> NeedsHold(s, p)
  BY <1>0, NormalizedFields
<1>3. AddFits(s, p) /\ WorkflowFits(s, p) /\ SubmissionFits(s, p)
  BY DEF LaneSafe, ReceiptsFit
<1>4. ProductKey(p) \in Keys /\ ProductKey(p) \in LockKeys(p)
  BY KeyFacts
<1>. HIDE DEF n
<1>5. CartFits(n, p)
  BY <1>1, <1>2 DEF StoreFits, CartFits, SameReceipts
<1>6. OrderFits(n, p)
  <2>1. ASSUME ActionOf[p] = "checkout", orders[p] > 0, p \notin s.done,
               NEW t \in Owners, PageOf[t] = p, n.locks[ProductKey(p)].owner = t
        PROVE  verdict[t] # "rejected"
    <3>1. s.sub[p].phase \in MaybeSubmitted
          /\ (s.locks[ProductKey(p)].owner = t => verdict[t] # "rejected")
      BY <2>1 DEF StoreFits, OrderFits
    <3>2. NeedsHold(s, p)
      BY <2>1, <3>1 DEF NeedsHold
    <3>3. n.locks[ProductKey(p)] = IF s.locks[ProductKey(p)].hold THEN s.locks[ProductKey(p)]
                                   ELSE Lock(p, HoldOwner(s, p, s.locks[ProductKey(p)]), TRUE)
      BY <1>0, <1>1, <1>4, <3>2, NormalHeldLock
    <3>4. CASE s.locks[ProductKey(p)].hold
      BY <2>1, <3>1, <3>3, <3>4
    <3>5. CASE ~s.locks[ProductKey(p)].hold
      <4>1. s.add[p] = IdleAdd /\ s.wf[p].owner = Nobody
        BY <1>3, <3>1, <3>5 DEF SubmissionFits, AddFits
      <4>2. s.locks[ProductKey(p)].owner # t => HoldOwner(s, p, s.locks[ProductKey(p)]) # t
        BY <4>1, NobodysNames DEF HoldOwner, WorkflowOwner, IdleAdd
      <4>3. n.locks[ProductKey(p)].owner = HoldOwner(s, p, s.locks[ProductKey(p)])
        <5>1. n.locks[ProductKey(p)] = Lock(p, HoldOwner(s, p, s.locks[ProductKey(p)]), TRUE)
          BY <3>3, <3>5
        <5>. QED BY <5>1 DEF Lock, Free
      <4>. QED BY <2>1, <3>1, <4>2, <4>3
    <3>. QED BY <3>4, <3>5
  <2>. QED BY <1>1, <2>1 DEF StoreFits, OrderFits, SameReceipts
<1>7. GivenUpFits(n, p)
  BY <1>1 DEF StoreFits, GivenUpFits, SameReceipts
<1>. QED BY <1>5, <1>6, <1>7 DEF StoreFits, n

\* A new run has nothing on record.
LEMMA CreateSafe ==
  ASSUME NEW run \in Nat
  PROVE  /\ LaneSafe(CreateState(run))
         /\ \A p \in Products : ~NeedsHold(CreateState(run), p)
<1>. DEFINE s == CreateState(run)
<1>1. /\ \A k \in Keys : s.locks[k] = Free
      /\ \A p \in Products : s.add[p] = IdleAdd /\ s.sub[p] = IdleSubmission
                             /\ s.wf[p] = Workflow("active", Nobody, NoHash)
      /\ s.done = {}
  BY DEF CreateState
<1>. HIDE DEF s
<1>7. \A p \in Products : s.add[p].phase = "idle" /\ s.sub[p].phase = "idle"
                           /\ s.wf[p].phase = "active"
  <2>1. IdleAdd.phase = "idle" /\ IdleSubmission.phase = "idle"
        /\ Workflow("active", Nobody, NoHash).phase = "active"
    BY DEF IdleAdd, IdleSubmission, Workflow
  <2>. QED BY <1>1, <2>1
<1>2. \A p \in Products : ~NeedsHold(s, p)
  BY <1>7 DEF NeedsHold, HeldWorkflowPhases, MaybeSubmitted
<1>3. PlainLocks(s)
  BY <1>1, NobodysNames DEF PlainLocks
<1>6. HoldsExplained(s)
  BY <1>1, NobodysNames DEF HoldsExplained
<1>4. NeedersApart(s) /\ LaneKept(s)
  BY <1>2 DEF NeedersApart, LaneKept
<1>5. \A p \in Products : ReceiptsFit(s, p)
  BY <1>1, <1>7 DEF ReceiptsFit, AddFits, WorkflowFits, SubmissionFits, MaybeSubmitted
<1>. QED BY <1>2, <1>3, <1>4, <1>5, <1>6 DEF LaneSafe, s

\* What every handler of the present run finds.
LEMMA ReadFacts ==
  ASSUME FlowInv, Members = {}
  PROVE  /\ StateInv(Cur) /\ LaneSafe(Cur) /\ Cur.run = config.run /\ config.run \in Nat
         /\ Now = Normalized(Cur) /\ StateInv(Now) /\ Now.run = config.run
         /\ LaneSafe(Now) /\ LaneReady(Now)
         /\ \A t \in Owners : PageOf[t] \in Products /\ TabFits(Now, t)
         /\ \A p \in Products : StoreFits(Now, p)
<1>1. config.run \in Nat /\ StateInv(st) /\ LaneSafe(st)
  BY DEF FlowInv, LaneInv, Configs
<1>2. StateInv(CreateState(config.run)) /\ LaneSafe(CreateState(config.run))
  BY <1>1, CreateInv, CreateSafe
<1>3. CreateState(config.run).run = config.run
  BY DEF CreateState
<1>4. StateInv(Cur) /\ LaneSafe(Cur) /\ Cur.run = config.run
  BY <1>1, <1>2, <1>3 DEF Cur
<1>5. Now = Normalized(Cur)
  BY DEF Now, NormalizeState, Normalized, Cur
<1>6. StateInv(Now) /\ Now.run = config.run
  <2>1. StateInv(Now)
    BY <1>1, ReadInv DEF Now
  <2>. QED BY <1>4, <1>5, <2>1, NormalizedFields DEF StateInv, SameReceipts
<1>7. LaneSafe(Now) /\ LaneReady(Now)
  BY <1>4, <1>5, NormalizedSafe DEF StateInv
<1>8. \A t \in Owners : PageOf[t] \in Products
  BY FlowAssumption
<1>9. \A t \in Owners : TabFits(Now, t)
  BY <1>4, <1>5, <1>8, NormalizedTabs DEF FlowInv
<1>10. \A p \in Products : StoreFits(Now, p)
  BY <1>4, <1>5, NormalizedStore DEF FlowInv
<1>. QED BY <1>1, <1>4, <1>5, <1>6, <1>7, <1>8, <1>9, <1>10

--------------------------------------------------------------------------------
(* The steps of a handler on a mission *)

\* o may rewrite the Add of p.
MayTouch(n, p, o) == n.add[p].owner \in {Nobody, o}

\* Nobody but o, for p, is on the keys of p.
LaneMine(n, p, o) == \A k \in LockKeys(p) : n.locks[k] = Free \/ OwnedBy(n.locks[k], p, o)

\* The locks that are free or o's for p change, on keys of p.
LockStep(n, r, p, o) ==
  \A k \in Keys :
    \/ r.locks[k] = n.locks[k]
    \/ /\ k \in LockKeys(p) /\ (n.locks[k] = Free \/ OwnedBy(n.locks[k], p, o))
       /\ r.locks[k] \in {Free, Lock(p, o, FALSE), Lock(p, o, TRUE)}

\* The receipts of the other missions stay.
OtherReceiptsKept(n, r, p) ==
  /\ r.run = n.run
  /\ \A q \in Products \ {p} : r.add[q] = n.add[q] /\ r.sub[q] = n.sub[q] /\ r.wf[q] = n.wf[q]

\* What o needs to change the receipts of p.
WithRights(n, r, p, o) ==
  /\ r.add[p] = n.add[p] \/ (MayTouch(n, p, o) /\ r.add[p].owner \in {Nobody, o})
  /\ r.sub[p] = n.sub[p] \/ LaneMine(n, p, o)
  /\ r.wf[p].owner = n.wf[p].owner \/ MayTouch(n, p, o) \/ LaneMine(n, p, o)

\* The receipts it leaves explain the locks it leaves.
Recorded(n, r, p) ==
  /\ ReceiptsFit(r, p)
  /\ \A k \in Keys : r.locks[k].pid = p /\ r.locks[k].hold => NeedsHold(r, p)
  /\ NeedsHold(r, p) => \A k \in LockKeys(p) : n.locks[k].pid = p

\* A handler's step of o for p.
OwnStep(n, r, p, o) ==
  /\ LockStep(n, r, p, o) /\ r.done = n.done /\ OtherReceiptsKept(n, r, p)
  /\ WithRights(n, r, p, o) /\ Recorded(n, r, p)

\* What such a step leaves alone.
OthersKept(n, r, p) ==
  /\ \A k \in Keys : n.locks[k].pid \in Products \ {p} => r.locks[k] = n.locks[k]
  /\ \A k \in Keys : r.locks[k].pid \in Products \ {p} => r.locks[k] = n.locks[k]
  /\ \A k \in Keys : n.locks[k].pid = p => r.locks[k] = Free \/ r.locks[k].pid = p
  /\ \A k \in Keys : k \notin LockKeys(p) => r.locks[k] = n.locks[k]
  /\ \A q \in Products \ {p} : NeedsHold(r, q) <=> NeedsHold(n, q)

\* Nothing of another mission changes in it.
LEMMA OwnStepKeeps ==
  ASSUME NEW n, NEW r, NEW p \in Products, NEW o, OwnStep(n, r, p, o), PlainLocks(n)
  PROVE  PlainLocks(r) /\ OthersKept(n, r, p)
<1>1. \A l \in {Free, Lock(p, o, FALSE), Lock(p, o, TRUE)} :
        l.pid \in {p, "none"} /\ l.members = {} /\ l.claim = NoClaim /\ (l = Free \/ l.pid = p)
  <2>1. /\ Lock(p, o, FALSE).pid = p /\ Lock(p, o, TRUE).pid = p
        /\ Lock(p, o, FALSE).members = {} /\ Lock(p, o, TRUE).members = {}
        /\ Lock(p, o, FALSE).claim = NoClaim /\ Lock(p, o, TRUE).claim = NoClaim
    BY DEF Free, Lock
  <2>. QED BY <2>1, NobodysNames
<1>2. Free.pid \notin Products
  BY NobodysNames
<1>3. ASSUME NEW k \in Keys, r.locks[k] # n.locks[k]
      PROVE  /\ k \in LockKeys(p) /\ n.locks[k].pid \in {p, "none"}
             /\ r.locks[k] \in {Free, Lock(p, o, FALSE), Lock(p, o, TRUE)}
  BY <1>3, NobodysNames DEF OwnStep, LockStep, OwnedBy
<1>4. PlainLocks(r)
  <2>. SUFFICES ASSUME NEW k \in Keys
                PROVE  /\ r.locks[k].members = {} /\ r.locks[k].claim = NoClaim
                       /\ r.locks[k] = Free \/ (r.locks[k].pid \in Products /\ k \in LockKeys(r.locks[k].pid))
    BY DEF PlainLocks
  <2>1. CASE r.locks[k] = n.locks[k]
    BY <2>1 DEF PlainLocks
  <2>2. CASE r.locks[k] # n.locks[k]
    BY <1>1, <1>3, <2>2
  <2>. QED BY <2>1, <2>2
<1>5. \A k \in Keys : n.locks[k].pid \in Products \ {p} => r.locks[k] = n.locks[k]
  BY <1>2, <1>3, NobodysNames
<1>6. \A k \in Keys : r.locks[k].pid \in Products \ {p} => r.locks[k] = n.locks[k]
  BY <1>1, <1>3, NobodysNames
<1>7. \A k \in Keys : n.locks[k].pid = p => r.locks[k] = Free \/ r.locks[k].pid = p
  BY <1>1, <1>3
<1>8. \A k \in Keys : k \notin LockKeys(p) => r.locks[k] = n.locks[k]
  BY <1>3
<1>9. \A q \in Products \ {p} : NeedsHold(r, q) <=> NeedsHold(n, q)
  BY DEF OwnStep, OtherReceiptsKept, NeedsHold
<1>. QED BY <1>4, <1>5, <1>6, <1>7, <1>8, <1>9 DEF OthersKept

\* Receipts of a mission fit where its records are the same and its locks too.
LEMMA FitKept ==
  ASSUME NEW n, NEW r, NEW q \in Products, ReceiptsFit(n, q),
         r.add[q] = n.add[q], r.sub[q] = n.sub[q], r.wf[q] = n.wf[q],
         r.locks[ProductKey(q)] = n.locks[ProductKey(q)],
         \A k \in Keys : r.locks[k].pid = q => r.locks[k] = n.locks[k]
  PROVE  ReceiptsFit(r, q)
<1>1. AddFits(r, q)
  BY DEF ReceiptsFit, AddFits
<1>2. WorkflowFits(r, q) /\ SubmissionFits(r, q)
  BY DEF ReceiptsFit, WorkflowFits, SubmissionFits
<1>. QED BY <1>1, <1>2 DEF ReceiptsFit

\* Such a step keeps the lane safe.
LEMMA OwnStepSafe ==
  ASSUME NEW n, LaneSafe(n), LaneReady(n),
         NEW r, NEW p \in Products, NEW o, OwnStep(n, r, p, o)
  PROVE  LaneSafe(r)
<1>1. PlainLocks(r) /\ OthersKept(n, r, p)
  BY OwnStepKeeps DEF LaneSafe
<1>0. OthersKept(n, r, p)
  BY <1>1
<1>. USE DEF LaneSafe, OthersKept
<1>2. ASSUME NEW q \in Products, NeedsHold(r, q), NEW k \in LockKeys(q)
      PROVE  n.locks[k].pid = q /\ k \in Keys
  <2>1. CASE q = p
    BY <1>2, <2>1, KeyFacts DEF OwnStep, Recorded
  <2>2. CASE q # p
    BY <1>0, <1>2, <2>2, KeyFacts DEF LaneReady
  <2>. QED BY <2>1, <2>2
<1>3. HoldsExplained(r)
  <2>. SUFFICES ASSUME NEW k \in Keys, r.locks[k].hold PROVE NeedsHold(r, r.locks[k].pid)
    BY DEF HoldsExplained
  <2>1. CASE r.locks[k].pid = p
    BY <2>1 DEF OwnStep, Recorded
  <2>2. CASE r.locks[k].pid # p
    <3>1. r.locks[k].pid \in Products
      BY <1>1, NobodysNames DEF PlainLocks
    <3>2. r.locks[k] = n.locks[k]
      BY <1>0, <2>2, <3>1
    <3>3. NeedsHold(n, n.locks[k].pid)
      BY <3>2 DEF HoldsExplained
    <3>. QED BY <1>0, <2>2, <3>1, <3>2, <3>3
  <2>. QED BY <2>1, <2>2
<1>4. NeedersApart(r)
  BY <1>2 DEF NeedersApart
<1>5. LaneKept(r)
  <2>. SUFFICES ASSUME NEW q \in Products, NeedsHold(r, q), NEW k \in LockKeys(q)
                PROVE  r.locks[k] = Free \/ r.locks[k].pid = q
    BY DEF LaneKept
  <2>1. n.locks[k].pid = q /\ k \in Keys
    BY <1>2
  <2>2. CASE q = p
    BY <1>0, <2>1, <2>2
  <2>3. CASE q # p
    BY <1>0, <2>1, <2>3
  <2>. QED BY <2>2, <2>3
<1>6. ASSUME NEW q \in Products PROVE ReceiptsFit(r, q)
  <2>1. CASE q = p
    BY <2>1 DEF OwnStep, Recorded
  <2>2. CASE q # p
    <3>1. r.locks[ProductKey(q)] = n.locks[ProductKey(q)]
      BY <1>0, <2>2, KeyFacts
    <3>2. \A k \in Keys : r.locks[k].pid = q => r.locks[k] = n.locks[k]
      BY <1>0, <2>2
    <3>3. r.add[q] = n.add[q] /\ r.sub[q] = n.sub[q] /\ r.wf[q] = n.wf[q]
      BY <2>2 DEF OwnStep, OtherReceiptsKept
    <3>. QED BY <3>1, <3>2, <3>3, FitKept
  <2>. QED BY <2>1, <2>2
<1>. QED BY <1>1, <1>3, <1>4, <1>5, <1>6

\* The other tabs are not disturbed, not even those of the same mission.
LEMMA OwnStepTabs ==
  ASSUME NEW n, LaneSafe(n), NEW r, NEW p \in Products, NEW o \in Owners, OwnStep(n, r, p, o),
         NEW t \in Owners, t # o \/ PageOf[t] # p, PageOf[t] \in Products, TabFits(n, t)
  PROVE  TabFits(r, t)
<1>. DEFINE q == PageOf[t]
<1>1. r.done = n.done
  BY DEF OwnStep
<1>2. CASE q # p
  <2>1. r.add[q] = n.add[q] /\ r.sub[q] = n.sub[q] /\ r.wf[q] = n.wf[q]
    BY <1>2 DEF OwnStep, OtherReceiptsKept
  <2>2. \A k \in LockKeys(q) : n.locks[k].pid = q => r.locks[k] = n.locks[k]
    BY <1>2, OwnStepKeeps, KeyFacts DEF LaneSafe, OthersKept
  <2>3. ClickFits(r, t)
    BY <1>1, <2>1, <2>2 DEF TabFits, ClickFits, OwnsLane, OwnedBy
  <2>4. SubmitFits(r, t)
    <3>1. Lock(q, t, TRUE).pid = q
      BY DEF Lock, Free
    <3>. QED BY <1>1, <2>1, <2>2, <3>1 DEF TabFits, SubmitFits
  <2>5. AddIsWhere(r, t) /\ ReportFits(r, t)
    BY <1>1, <2>1 DEF TabFits, AddIsWhere, ReportFits
  <2>. QED BY <2>3, <2>4, <2>5 DEF TabFits
<1>3. CASE q = p /\ t # o
  <2>0. t # Nobody
    BY NobodysNames
  <2>1. \A k \in LockKeys(p) : n.locks[k].pid = p /\ n.locks[k].owner = t => r.locks[k] = n.locks[k]
    <3>1. \A k \in LockKeys(p) : k \in Keys
      BY KeyFacts
    <3>2. Free.pid # p
      BY NobodysNames
    <3>. QED BY <1>3, <3>1, <3>2 DEF OwnStep, LockStep, OwnedBy
  <2>2. (\A k \in LockKeys(p) : n.locks[k].pid = p /\ n.locks[k].owner = t) => ~LaneMine(n, p, o)
    <3>1. ProductKey(p) \in LockKeys(p) /\ Free.pid # p
      BY KeyFacts, NobodysNames
    <3>. QED BY <1>3, <3>1 DEF LaneMine, OwnedBy
  <2>3. r.add[p] = n.add[p] \/ (n.add[p].owner # t /\ r.add[p].owner # t)
    BY <1>3, <2>0 DEF OwnStep, WithRights, MayTouch
  <2>4. ClickFits(r, t)
    <3>1. CASE Authorized(t)
      <4>1. n.add[p] = [phase |-> "reserved", owner |-> t] /\ p \notin n.done
            /\ OwnsLane(n, p, t) /\ n.wf[p].owner = t
            /\ (page[t] = "authorized" => units[p] = 0 /\ orders[p] = 0)
        BY <1>3, <3>1 DEF TabFits, ClickFits
      <4>2. \A k \in LockKeys(p) : n.locks[k].pid = p /\ n.locks[k].owner = t
        BY <4>1 DEF OwnsLane, OwnedBy
      <4>3. n.add[p].owner = t /\ ~MayTouch(n, p, o)
        BY <1>3, <2>0, <4>1 DEF MayTouch
      <4>4. r.add[p] = n.add[p] /\ r.wf[p].owner = t
        BY <2>2, <4>1, <4>2, <4>3 DEF OwnStep, WithRights
      <4>5. OwnsLane(r, p, t)
        BY <2>1, <4>2 DEF OwnsLane, OwnedBy
      <4>. QED BY <1>1, <1>3, <4>1, <4>4, <4>5 DEF ClickFits
    <3>2. CASE ~Authorized(t)
      BY <3>2 DEF ClickFits, Authorized
    <3>. QED BY <3>1, <3>2
  <2>5. SubmitFits(r, t)
    <3>. SUFFICES ASSUME page[t] = "intent" PROVE SubmitFits(r, t)
      BY DEF SubmitFits
    <3>1. n.sub[p].phase = "intent" /\ ActionOf[p] = "checkout" /\ p \notin n.done
          /\ orders[p] = 0 /\ \A k \in LockKeys(p) : n.locks[k] = Lock(p, t, TRUE)
      BY <1>3 DEF TabFits, SubmitFits
    <3>2. \A k \in LockKeys(p) : n.locks[k].pid = p /\ n.locks[k].owner = t
      BY <3>1 DEF Lock, Free
    <3>3. r.sub[p] = n.sub[p]
      BY <2>2, <3>2 DEF OwnStep, WithRights
    <3>. QED BY <1>1, <1>3, <2>1, <3>1, <3>2, <3>3 DEF SubmitFits
  <2>6. AddIsWhere(r, t) /\ ReportFits(r, t)
    BY <1>1, <1>3, <2>3 DEF TabFits, AddIsWhere, ReportFits
  <2>. QED BY <2>4, <2>5, <2>6 DEF TabFits
<1>. QED BY <1>2, <1>3

\* Nor the other missions.
LEMMA OwnStepStore ==
  ASSUME NEW n, LaneSafe(n), NEW r, NEW p \in Products, NEW o \in Owners, OwnStep(n, r, p, o),
         NEW q \in Products, q # p, StoreFits(n, q)
  PROVE  StoreFits(r, q)
<1>1. r.add[q] = n.add[q] /\ r.sub[q] = n.sub[q] /\ r.wf[q] = n.wf[q] /\ r.done = n.done
  BY DEF OwnStep, OtherReceiptsKept
<1>2. NeedsHold(r, q) <=> NeedsHold(n, q)
  BY OwnStepKeeps DEF LaneSafe, OthersKept
<1>3. r.locks[ProductKey(q)] = n.locks[ProductKey(q)]
  BY OwnStepKeeps, KeyFacts DEF LaneSafe, OthersKept
<1>4. CartFits(r, q)
  BY <1>1, <1>2 DEF StoreFits, CartFits
<1>5. OrderFits(r, q)
  BY <1>1, <1>3 DEF StoreFits, OrderFits
<1>6. GivenUpFits(r, q)
  BY <1>1 DEF StoreFits, GivenUpFits
<1>. QED BY <1>4, <1>5, <1>6 DEF StoreFits

--------------------------------------------------------------------------------
(* What the operations of the library do, field by field *)

\* The operations on locks.
LEMMA LosesLocksIs ==
  ASSUME NEW s \in AutomationStates, NEW p \in Products
  PROVE  /\ \A k \in Keys : LosesLocks(s, p).locks[k] =
              IF s.locks[k].pid = p THEN Free ELSE s.locks[k]
         /\ SameButLocks(s, LosesLocks(s, p)) /\ LosesLocks(s, p).run = s.run
BY DEF LosesLocks, Unlocked, SameButLocks, AutomationStates

\* Giving back what o holds of p's keys.
LEMMA LaneGivenBackIs ==
  ASSUME NEW s \in AutomationStates, NEW p \in Products, NEW o
  PROVE  /\ \A k \in Keys : LaneGivenBack(s, p, o).locks[k] =
              IF k \in LockKeys(p) /\ OwnedBy(s.locks[k], p, o) THEN Free ELSE s.locks[k]
         /\ SameButLocks(s, LaneGivenBack(s, p, o)) /\ LaneGivenBack(s, p, o).run = s.run
BY DEF LaneGivenBack, Unlocked, SameButLocks, AutomationStates

\* Giving back whatever o holds for p.
LEMMA ReleaseIs ==
  ASSUME NEW s \in AutomationStates, NEW p \in Products, NEW o
  PROVE  /\ \A k \in Keys : Release(s, p, o).locks[k] =
              IF OwnedBy(s.locks[k], p, o) THEN Free ELSE s.locks[k]
         /\ SameButLocks(s, Release(s, p, o)) /\ Release(s, p, o).run = s.run
BY DEF Release, Unlocked, SameButLocks, AutomationStates

\* Making p's lane permanent.
LEMMA HeldIs ==
  ASSUME NEW s \in AutomationStates, NEW p \in Products
  PROVE  /\ \A k \in Keys : Held(s, p).locks[k] =
              IF k \in LockKeys(p) /\ s.locks[k].pid = p
              THEN [s.locks[k] EXCEPT !.hold = TRUE] ELSE s.locks[k]
         /\ SameButLocks(s, Held(s, p)) /\ Held(s, p).run = s.run
BY DEF Held, SameButLocks, AutomationStates

\* A lock made permanent.
Permanent(l) == [l EXCEPT !.hold = TRUE]

\* A lock is its fields.
LEMMA LocksAre ==
  /\ \A l, m \in Locks :
       l.pid = m.pid /\ l.owner = m.owner /\ l.hold = m.hold /\ l.members = m.members
         /\ l.claim = m.claim => l = m
  /\ \A l \in Locks : Permanent(l) \in Locks
  /\ \A l \in Locks : /\ Permanent(l).pid = l.pid
                      /\ Permanent(l).owner = l.owner
                      /\ Permanent(l).hold = TRUE
                      /\ Permanent(l).members = l.members
                      /\ Permanent(l).claim = l.claim
<1>1. \A l \in Locks : l = [pid |-> l.pid, owner |-> l.owner, hold |-> l.hold,
                           members |-> l.members, claim |-> l.claim]
  BY DEF Locks
<1>2. ASSUME NEW l \in Locks, NEW m \in Locks,
             l.pid = m.pid, l.owner = m.owner, l.hold = m.hold, l.members = m.members,
             l.claim = m.claim
      PROVE  l = m
  <2>1. l = [pid |-> l.pid, owner |-> l.owner, hold |-> l.hold,
             members |-> l.members, claim |-> l.claim]
    BY <1>1
  <2>2. m = [pid |-> l.pid, owner |-> l.owner, hold |-> l.hold,
             members |-> l.members, claim |-> l.claim]
    BY <1>1, <1>2
  <2>. QED BY <2>1, <2>2
<1>3. \A l \in Locks : Permanent(l) \in Locks
  BY DEF Locks, Permanent
<1>4. \A l \in Locks : /\ Permanent(l).pid = l.pid
                       /\ Permanent(l).owner = l.owner
                       /\ Permanent(l).hold = TRUE
                       /\ Permanent(l).members = l.members
                       /\ Permanent(l).claim = l.claim
  BY DEF Locks, Permanent
<1>. QED BY <1>2, <1>3, <1>4

\* A lock that o has for p is the one the library writes.
LEMMA OwnedLock ==
  ASSUME NEW s \in AutomationStates, PlainLocks(s), NEW k \in Keys,
         NEW p \in Products, NEW o \in Owners, OwnedBy(s.locks[k], p, o)
  PROVE  /\ s.locks[k] \in {Lock(p, o, FALSE), Lock(p, o, TRUE)}
         /\ Permanent(s.locks[k]) = Lock(p, o, TRUE)
<1>1. s.locks[k] \in Locks /\ s.locks[k].members = {} /\ s.locks[k].claim = NoClaim
      /\ s.locks[k].pid = p /\ s.locks[k].owner = o
  BY FieldTypes DEF PlainLocks, OwnedBy
<1>2. s.locks[k].hold = TRUE \/ s.locks[k].hold = FALSE
  BY <1>1 DEF Locks
<1>3. Lock(p, o, FALSE) \in Locks /\ Lock(p, o, TRUE) \in Locks
  BY LockTypes DEF Holders, OwnerIds
<1>4. /\ Lock(p, o, TRUE).pid = p /\ Lock(p, o, TRUE).owner = o /\ Lock(p, o, TRUE).hold = TRUE
      /\ Lock(p, o, TRUE).members = {} /\ Lock(p, o, TRUE).claim = NoClaim
      /\ Lock(p, o, FALSE).pid = p /\ Lock(p, o, FALSE).owner = o /\ Lock(p, o, FALSE).hold = FALSE
      /\ Lock(p, o, FALSE).members = {} /\ Lock(p, o, FALSE).claim = NoClaim
  BY DEF Lock, Free
<1>7. ASSUME NEW l \in Locks, NEW m \in Locks, l.pid = m.pid, l.owner = m.owner, l.hold = m.hold,
             l.members = m.members, l.claim = m.claim
      PROVE  l = m
  BY <1>7, LocksAre, Zenon
<1>8. s.locks[k].hold = TRUE => s.locks[k] = Lock(p, o, TRUE)
  BY <1>1, <1>3, <1>4, <1>7
<1>9. s.locks[k].hold = FALSE => s.locks[k] = Lock(p, o, FALSE)
  BY <1>1, <1>3, <1>4, <1>7
<1>5. s.locks[k] \in {Lock(p, o, FALSE), Lock(p, o, TRUE)}
  BY <1>2, <1>8, <1>9
<1>6. Permanent(s.locks[k]) = Lock(p, o, TRUE)
  <2>. DEFINE h == Permanent(s.locks[k])
  <2>1. h \in Locks /\ h.pid = p /\ h.owner = o /\ h.hold = TRUE /\ h.members = {} /\ h.claim = NoClaim
    BY <1>1, LocksAre
  <2>. HIDE DEF h
  <2>2. h = Lock(p, o, TRUE)
    BY <1>3, <1>4, <1>7, <2>1
  <2>. QED BY <2>2 DEF h
<1>. QED BY <1>5, <1>6

\* Every lock of p is on a key of p.
LEMMA LocksOfMission ==
  ASSUME NEW s, PlainLocks(s), NEW k \in Keys, NEW p \in Products, s.locks[k].pid = p
  PROVE  k \in LockKeys(p) /\ s.locks[k] # Free
BY NobodysNames DEF PlainLocks

\* The lock steps of the library that o makes for p.
LEMMA LockSteps ==
  ASSUME NEW n \in AutomationStates, PlainLocks(n), NEW u \in AutomationStates,
         u.locks = n.locks, NEW p \in Products, NEW o \in Owners
  PROVE  /\ LockStep(n, u, p, o)
         /\ LockStep(n, LaneGivenBack(u, p, o), p, o)
         /\ LockStep(n, Release(u, p, o), p, o)
         /\ LaneMine(n, p, o) => LockStep(n, LosesLocks(u, p), p, o)
         /\ LaneMine(n, p, o) \/ (\A k \in LockKeys(p) : n.locks[k].pid = p /\ n.locks[k].hold)
              => LockStep(n, Held(u, p), p, o)
<1>1. \A k \in Keys : OwnedBy(n.locks[k], p, o) => k \in LockKeys(p)
  BY LocksOfMission DEF OwnedBy
<1>2. LockStep(n, u, p, o)
  BY DEF LockStep
<1>8. \A k \in Keys : LosesLocks(u, p).locks[k] = IF n.locks[k].pid = p THEN Free ELSE n.locks[k]
  <2>1. \A k \in Keys : LosesLocks(u, p).locks[k] = IF u.locks[k].pid = p THEN Free ELSE u.locks[k]
    BY LosesLocksIs
  <2>. QED BY <2>1
<1>9. \A k \in Keys : LaneGivenBack(u, p, o).locks[k] =
        IF k \in LockKeys(p) /\ OwnedBy(n.locks[k], p, o) THEN Free ELSE n.locks[k]
  <2>1. \A k \in Keys : LaneGivenBack(u, p, o).locks[k] =
          IF k \in LockKeys(p) /\ OwnedBy(u.locks[k], p, o) THEN Free ELSE u.locks[k]
    BY LaneGivenBackIs
  <2>. QED BY <2>1
<1>10. \A k \in Keys : Release(u, p, o).locks[k] =
         IF OwnedBy(n.locks[k], p, o) THEN Free ELSE n.locks[k]
  <2>1. \A k \in Keys : Release(u, p, o).locks[k] =
          IF OwnedBy(u.locks[k], p, o) THEN Free ELSE u.locks[k]
    BY ReleaseIs
  <2>. QED BY <2>1
<1>11. \A k \in Keys : Held(u, p).locks[k] = IF k \in LockKeys(p) /\ n.locks[k].pid = p
                                             THEN Permanent(n.locks[k]) ELSE n.locks[k]
  <2>1. \A k \in Keys : Held(u, p).locks[k] = IF k \in LockKeys(p) /\ u.locks[k].pid = p
                                              THEN Permanent(u.locks[k]) ELSE u.locks[k]
    BY HeldIs DEF Permanent
  <2>. QED BY <2>1
<1>3. LockStep(n, LaneGivenBack(u, p, o), p, o)
  BY <1>1, <1>9 DEF LockStep
<1>7. LockStep(n, Release(u, p, o), p, o)
  BY <1>1, <1>10 DEF LockStep
<1>4. ASSUME LaneMine(n, p, o) PROVE LockStep(n, LosesLocks(u, p), p, o)
  <2>1. \A k \in Keys : n.locks[k].pid = p => k \in LockKeys(p) /\ OwnedBy(n.locks[k], p, o)
    BY <1>4, LocksOfMission DEF LaneMine
  <2>. QED BY <1>8, <2>1 DEF LockStep
<1>5. ASSUME LaneMine(n, p, o) PROVE LockStep(n, Held(u, p), p, o)
  <2>. SUFFICES ASSUME NEW k \in Keys
                PROVE  \/ Held(u, p).locks[k] = n.locks[k]
                       \/ /\ k \in LockKeys(p) /\ (n.locks[k] = Free \/ OwnedBy(n.locks[k], p, o))
                          /\ Held(u, p).locks[k] \in {Free, Lock(p, o, FALSE), Lock(p, o, TRUE)}
    BY DEF LockStep
  <2>1. CASE k \in LockKeys(p) /\ n.locks[k].pid = p
    <3>1. OwnedBy(n.locks[k], p, o)
      BY <1>5, <2>1, LocksOfMission DEF LaneMine
    <3>2. Held(u, p).locks[k] = Permanent(n.locks[k])
      BY <1>11, <2>1
    <3>3. Permanent(n.locks[k]) = Lock(p, o, TRUE)
      BY <3>1, OwnedLock
    <3>. QED BY <2>1, <3>1, <3>2, <3>3
  <2>2. CASE ~(k \in LockKeys(p) /\ n.locks[k].pid = p)
    BY <1>11, <2>2
  <2>. QED BY <2>1, <2>2
<1>6. ASSUME \A k \in LockKeys(p) : n.locks[k].pid = p /\ n.locks[k].hold
      PROVE  LockStep(n, Held(u, p), p, o)
  <2>1. \A l \in Locks : l.hold => Permanent(l) = l
    BY DEF Locks, Permanent
  <2>2. \A k \in Keys : n.locks[k] \in Locks
    BY FieldTypes
  <2>3. \A k \in Keys : Held(u, p).locks[k] = n.locks[k]
    BY <1>6, <1>11, <2>1, <2>2
  <2>. QED BY <2>3 DEF LockStep
<1>. QED BY <1>2, <1>3, <1>4, <1>5, <1>6, <1>7

--------------------------------------------------------------------------------
(* Each operation, done by a tab with the right to it, is such a step *)

\* What a handler has read.
Ready(n) == StateInv(n) /\ LaneSafe(n) /\ LaneReady(n)

\* What a handler may rely on.
LEMMA ReadyFacts ==
  ASSUME NEW n, Ready(n), NEW p \in Products
  PROVE  /\ n \in AutomationStates /\ PlainLocks(n)
         /\ AddFits(n, p) /\ WorkflowFits(n, p) /\ SubmissionFits(n, p)
         /\ p \in n.done => n.add[p] = IdleAdd /\ n.sub[p].phase \notin MaybeSubmitted
         /\ NeedsHold(n, p) => \A k \in LockKeys(p) : n.locks[k].pid = p /\ n.locks[k].hold
         /\ \A k \in Keys : n.locks[k].pid = p => k \in LockKeys(p)
         /\ \A k \in Keys : n.locks[k].pid = p /\ n.locks[k].hold => NeedsHold(n, p)
<1>1. n \in AutomationStates /\ PlainLocks(n)
  BY DEF Ready, StateInv, LaneSafe
<1>2. AddFits(n, p) /\ WorkflowFits(n, p) /\ SubmissionFits(n, p)
  BY DEF Ready, LaneSafe, ReceiptsFit
<1>3. p \in n.done => n.add[p] = IdleAdd /\ n.sub[p].phase \notin MaybeSubmitted
  BY DEF Ready, StateInv, Sealed
<1>4. NeedsHold(n, p) => \A k \in LockKeys(p) : n.locks[k].pid = p /\ n.locks[k].hold
  BY DEF Ready, LaneReady
<1>5. \A k \in Keys : n.locks[k].pid = p => k \in LockKeys(p)
  BY <1>1, LocksOfMission
<1>6. \A k \in Keys : n.locks[k].pid = p /\ n.locks[k].hold => NeedsHold(n, p)
  BY DEF Ready, LaneSafe, HoldsExplained
<1>. QED BY <1>1, <1>2, <1>3, <1>4, <1>5, <1>6

\* A refusal changes nothing.
LEMMA RefusedStep ==
  ASSUME NEW n, Ready(n), NEW p \in Products, NEW o \in Owners
  PROVE  OwnStep(n, n, p, o)
<1>1. LockStep(n, n, p, o) /\ OtherReceiptsKept(n, n, p) /\ WithRights(n, n, p, o)
  BY DEF LockStep, OtherReceiptsKept, WithRights
<1>2. Recorded(n, n, p)
  BY ReadyFacts DEF Recorded, ReceiptsFit
<1>. QED BY <1>1, <1>2 DEF OwnStep

\* Giving the lane back.
LEMMA ReleaseStep ==
  ASSUME NEW n, Ready(n), NEW p \in Products, NEW o \in Owners, CanRelease(n, p)
  PROVE  /\ OwnStep(n, Release(n, p, o), p, o)
         /\ SameButLocks(n, Release(n, p, o))
<1>. DEFINE r == Release(n, p, o)
<1>1. n \in AutomationStates /\ PlainLocks(n) /\ AddFits(n, p) /\ WorkflowFits(n, p)
      /\ \A k \in Keys : n.locks[k].pid = p /\ n.locks[k].hold => NeedsHold(n, p)
  BY ReadyFacts
<1>2. /\ \A k \in Keys : r.locks[k] = IF OwnedBy(n.locks[k], p, o) THEN Free ELSE n.locks[k]
      /\ SameButLocks(n, r) /\ r.run = n.run
  BY <1>1, ReleaseIs
<1>3. LockStep(n, r, p, o)
  BY <1>1, LockSteps
<1>. HIDE DEF r
<1>4. ~NeedsHold(n, p) /\ ~NeedsHold(r, p)
  BY <1>2 DEF CanRelease, NeedsHold, SameButLocks
<1>5. \A k \in Keys : r.locks[k].pid = p => r.locks[k] = n.locks[k]
  BY <1>2, NobodysNames
<1>6. ProductKey(p) \in Keys
  BY KeyFacts
<1>7. n.locks[ProductKey(p)] = Free => r.locks[ProductKey(p)] = Free
  BY <1>2, <1>6
<1>8. AddFits(r, p) /\ WorkflowFits(r, p)
  BY <1>1, <1>2, <1>5, <1>7 DEF AddFits, WorkflowFits, SameButLocks
<1>9. SubmissionFits(r, p)
  BY <1>2 DEF CanRelease, SubmissionFits, SameButLocks
<1>10. Recorded(n, r, p)
  BY <1>1, <1>4, <1>5, <1>8, <1>9 DEF Recorded, ReceiptsFit
<1>11. OtherReceiptsKept(n, r, p) /\ WithRights(n, r, p, o) /\ r.done = n.done
  BY <1>2 DEF OtherReceiptsKept, WithRights, SameButLocks
<1>. QED BY <1>2, <1>3, <1>10, <1>11 DEF OwnStep, r

\* What a claim writes.
ClaimWrites(n, r, p, o) ==
  /\ \A k \in Keys : r.locks[k] = IF k \in LockKeys(p) THEN Lock(p, o, FALSE) ELSE n.locks[k]
  /\ r.run = n.run /\ r.add = n.add /\ r.sub = n.sub /\ r.done = n.done
  /\ \A q \in Products : q # p => r.wf[q] = n.wf[q]
  /\ r.wf[p] = IF n.add[p].phase = "idle" /\ n.wf[p].phase = "active"
               THEN [n.wf[p] EXCEPT !.owner = o] ELSE n.wf[p]
  /\ r.wf[p].phase = n.wf[p].phase

\* A claim writes its locks and takes over an idle workflow.
LEMMA ClaimIs ==
  ASSUME NEW n \in AutomationStates, PlainLocks(n), NEW p \in Products, NEW o \in Owners
  PROVE  ClaimWrites(n, Claim(n, p, o), p, o)
<1>. DEFINE r == Claim(n, p, o)
<1>1. \A k \in Keys : r.locks[k] = IF k \in LockKeys(p) THEN ClaimedLock(n.locks[k], p, o) ELSE n.locks[k]
  BY DEF Claim, AutomationStates
<1>2. \A k \in Keys : ClaimedLock(n.locks[k], p, o) = Lock(p, o, FALSE)
  BY DEF ClaimedLock, PlainLocks
<1>3. r.run = n.run /\ r.add = n.add /\ r.sub = n.sub /\ r.done = n.done
  BY DEF Claim, AutomationStates
<1>4. /\ \A q \in Products : q # p => r.wf[q] = n.wf[q]
      /\ r.wf[p] = IF n.add[p].phase = "idle" /\ n.wf[p].phase = "active"
                   THEN [n.wf[p] EXCEPT !.owner = o] ELSE n.wf[p]
  BY DEF Claim, AutomationStates
<1>5. [n.wf[p] EXCEPT !.owner = o].phase = n.wf[p].phase
  BY FieldTypes DEF Workflows
<1>6. \A k \in Keys : r.locks[k] = IF k \in LockKeys(p) THEN Lock(p, o, FALSE) ELSE n.locks[k]
  BY <1>1, <1>2
<1>. HIDE DEF r
<1>7. r.wf[p].phase = n.wf[p].phase
  BY <1>4, <1>5
<1>8. ClaimWrites(n, r, p, o)
  BY <1>3, <1>4, <1>6, <1>7 DEF ClaimWrites
<1>. QED BY <1>8 DEF r

\* What the claim of a mission finds.
LEMMA ClaimFinds ==
  ASSUME NEW n, Ready(n), NEW p \in Products, NEW o \in Owners, CanClaim(n, p, o)
  PROVE  /\ p \notin n.done /\ n.sub[p].phase \notin MaybeSubmitted
         /\ \/ n.add[p] = IdleAdd /\ n.wf[p].phase \in {"active", "confirmed"}
            \/ n.add[p].phase = "confirmed" /\ n.add[p].owner = o
         /\ \A k \in LockKeys(p) : n.locks[k] = Free \/ OwnedBy(n.locks[k], p, o)
<1>1. p \notin n.done /\ n.sub[p].phase \notin MaybeSubmitted
      /\ n.wf[p].phase \in {"active", "confirmed", "cart-confirmed"}
      /\ n.add[p].phase \notin {"reserved", "clicked"}
      /\ (n.add[p].phase = "confirmed" => n.add[p].owner = o)
  BY DEF CanClaim, ClaimableRecord
<1>2. n.add[p].phase \in AddPhases
  BY ReadyFacts, FieldTypes DEF Phases
<1>3. n.add[p].phase \in {"idle", "confirmed"}
  BY <1>1, <1>2 DEF AddPhases
<1>4. n.add[p].phase = "idle" => n.add[p] = IdleAdd /\ n.wf[p].phase \in {"active", "confirmed"}
  BY <1>1, ReadyFacts DEF AddFits, WorkflowFits
<1>5. \A k \in LockKeys(p) : n.locks[k] = Free \/ OwnedBy(n.locks[k], p, o)
  <2>1. \A k \in LockKeys(p) : n.locks[k].members = {}
    BY ReadyFacts, KeyFacts DEF PlainLocks
  <2>. QED BY <2>1 DEF CanClaim, Blocks
<1>. QED BY <1>1, <1>3, <1>4, <1>5

\* Claiming the lane.
LEMMA ClaimStep ==
  ASSUME NEW n, Ready(n), NEW p \in Products, NEW o \in Owners, CanClaim(n, p, o)
  PROVE  OwnStep(n, Claim(n, p, o), p, o)
<1>. DEFINE r == Claim(n, p, o)
<1>1. n \in AutomationStates /\ PlainLocks(n) /\ AddFits(n, p) /\ WorkflowFits(n, p)
      /\ (NeedsHold(n, p) => \A k \in LockKeys(p) : n.locks[k].pid = p /\ n.locks[k].hold)
      /\ \A k \in Keys : n.locks[k].pid = p => k \in LockKeys(p)
  BY ReadyFacts
<1>2. /\ \A k \in Keys : r.locks[k] = IF k \in LockKeys(p) THEN Lock(p, o, FALSE) ELSE n.locks[k]
      /\ r.run = n.run /\ r.add = n.add /\ r.sub = n.sub /\ r.done = n.done
      /\ \A q \in Products : q # p => r.wf[q] = n.wf[q]
      /\ r.wf[p] = IF n.add[p].phase = "idle" /\ n.wf[p].phase = "active"
                   THEN [n.wf[p] EXCEPT !.owner = o] ELSE n.wf[p]
      /\ r.wf[p].phase = n.wf[p].phase
  <2>1. ClaimWrites(n, r, p, o)
    BY <1>1, ClaimIs
  <2>. HIDE DEF r
  <2>. QED BY <2>1 DEF ClaimWrites
<1>3. /\ p \notin n.done /\ n.sub[p].phase \notin MaybeSubmitted
      /\ \/ n.add[p] = IdleAdd /\ n.wf[p].phase \in {"active", "confirmed"}
         \/ n.add[p].phase = "confirmed" /\ n.add[p].owner = o
      /\ \A k \in LockKeys(p) : n.locks[k] = Free \/ OwnedBy(n.locks[k], p, o)
  BY ClaimFinds
<1>. HIDE DEF r
<1>4. IdleAdd.phase = "idle" /\ IdleAdd.owner = Nobody
      /\ Lock(p, o, FALSE).owner = o /\ ~Lock(p, o, FALSE).hold
  BY DEF IdleAdd, Lock, Free
<1>5. LockStep(n, r, p, o)
  BY <1>2, <1>3 DEF LockStep
<1>6. OtherReceiptsKept(n, r, p)
  BY <1>2 DEF OtherReceiptsKept
<1>7. WithRights(n, r, p, o)
  <2>1. r.wf[p].owner = n.wf[p].owner \/ MayTouch(n, p, o)
    BY <1>2, <1>3, <1>4 DEF MayTouch
  <2>. QED BY <1>2, <2>1 DEF WithRights
<1>8. \A k \in Keys : r.locks[k].pid = p => r.locks[k] = Lock(p, o, FALSE)
  BY <1>1, <1>2
<1>9. AddFits(r, p)
  <2>1. CASE n.add[p] = IdleAdd
    BY <1>2, <1>4, <2>1 DEF AddFits
  <2>2. CASE n.add[p].phase = "confirmed" /\ n.add[p].owner = o
    BY <1>1, <1>2, <1>4, <1>8, <2>2 DEF AddFits
  <2>. QED BY <1>3, <2>1, <2>2
<1>10. WorkflowFits(r, p) /\ SubmissionFits(r, p)
  BY <1>1, <1>2, <1>3 DEF WorkflowFits, SubmissionFits
<1>11. NeedsHold(r, p) => NeedsHold(n, p)
  BY <1>2 DEF NeedsHold
<1>12. Recorded(n, r, p)
  BY <1>1, <1>4, <1>8, <1>9, <1>10, <1>11 DEF Recorded, ReceiptsFit
<1>. QED BY <1>2, <1>5, <1>6, <1>7, <1>12 DEF OwnStep, r

\* Claiming it and reserving the Add in one write.
LEMMA ReserveStep ==
  ASSUME NEW n, Ready(n), NEW p \in Products, NEW o \in Owners, ActionOf[p] # "watch",
         CanClaim(n, p, o), n.add[p].phase = "idle"
  PROVE  /\ OwnStep(n, BeginAddAction(Claim(n, p, o), p, o), p, o)
         /\ BeginAddAction(Claim(n, p, o), p, o).add[p] = [phase |-> "reserved", owner |-> o]
         /\ BeginAddAction(Claim(n, p, o), p, o).sub = n.sub
         /\ ~NeedsHold(n, p)
<1>. DEFINE c == Claim(n, p, o)
            r == BeginAddAction(c, p, o)
<1>1. n \in AutomationStates /\ PlainLocks(n)
      /\ \A k \in Keys : n.locks[k].pid = p => k \in LockKeys(p)
  BY ReadyFacts
<1>2. /\ \A k \in Keys : c.locks[k] = IF k \in LockKeys(p) THEN Lock(p, o, FALSE) ELSE n.locks[k]
      /\ c.run = n.run /\ c.add = n.add /\ c.sub = n.sub /\ c.done = n.done
      /\ \A q \in Products : q # p => c.wf[q] = n.wf[q]
  <2>1. ClaimWrites(n, c, p, o)
    BY <1>1, ClaimIs
  <2>. HIDE DEF c
  <2>. QED BY <2>1 DEF ClaimWrites
<1>3. /\ p \notin n.done /\ n.sub[p].phase \notin MaybeSubmitted
      /\ n.add[p] = IdleAdd /\ n.wf[p].phase \in {"active", "confirmed"}
      /\ \A k \in LockKeys(p) : n.locks[k] = Free \/ OwnedBy(n.locks[k], p, o)
  BY ClaimFinds
<1>4. c \in AutomationStates
  BY <1>1, ClaimType
<1>. HIDE DEF c
<1>5. /\ r.locks = c.locks /\ r.run = c.run /\ r.sub = c.sub /\ r.done = c.done
      /\ \A q \in Products : q # p => r.add[q] = c.add[q] /\ r.wf[q] = c.wf[q]
      /\ r.add[p] = [phase |-> "reserved", owner |-> o] /\ r.wf[p] = Workflow("active", o, NoHash)
  BY <1>4 DEF BeginAddAction, AutomationStates
<1>. HIDE DEF r
<1>6. r.wf[p].phase = "active" /\ r.wf[p].owner = o /\ r.add[p].phase = "reserved" /\ r.add[p].owner = o
  BY <1>5 DEF Workflow
<1>7. IdleAdd.phase = "idle" /\ IdleAdd.owner = Nobody
      /\ Lock(p, o, FALSE).owner = o /\ ~Lock(p, o, FALSE).hold
  BY DEF IdleAdd, Lock, Free
<1>8. ~NeedsHold(n, p) /\ ~NeedsHold(r, p)
  BY <1>2, <1>3, <1>5, <1>6, <1>7 DEF NeedsHold, HeldWorkflowPhases
<1>9. LockStep(n, r, p, o)
  BY <1>2, <1>3, <1>5 DEF LockStep
<1>10. OtherReceiptsKept(n, r, p)
  BY <1>2, <1>5 DEF OtherReceiptsKept
<1>11. WithRights(n, r, p, o)
  BY <1>2, <1>3, <1>5, <1>6, <1>7 DEF WithRights, MayTouch
<1>12. ASSUME NEW k \in Keys, r.locks[k].pid = p PROVE r.locks[k] = Lock(p, o, FALSE)
  <2>1. r.locks[k] = IF k \in LockKeys(p) THEN Lock(p, o, FALSE) ELSE n.locks[k]
    BY <1>2, <1>5
  <2>2. CASE k \in LockKeys(p)
    BY <2>1, <2>2
  <2>3. CASE k \notin LockKeys(p)
    <3>1. n.locks[k].pid = p
      BY <1>12, <2>1, <2>3
    <3>. QED BY <1>1, <2>3, <3>1
  <2>. QED BY <2>2, <2>3
<1>13. AddFits(r, p)
  BY <1>6, <1>7, <1>12 DEF AddFits
<1>14. WorkflowFits(r, p) /\ SubmissionFits(r, p)
  BY <1>2, <1>3, <1>5, <1>6 DEF WorkflowFits, SubmissionFits
<1>15. Recorded(n, r, p)
  BY <1>7, <1>8, <1>12, <1>13, <1>14 DEF Recorded, ReceiptsFit
<1>16. OwnStep(n, r, p, o)
  BY <1>2, <1>5, <1>9, <1>10, <1>11, <1>15 DEF OwnStep
<1>. QED BY <1>2, <1>5, <1>8, <1>16 DEF r, c

--------------------------------------------------------------------------------
(* What such a step leaves of its own mission's store *)

\* What a handler of the present run has read, tabs and store included.
FlowReady(n) ==
  /\ Ready(n) /\ n.run = config.run
  /\ \A t \in Owners : PageOf[t] \in Products /\ TabFits(n, t)
  /\ \A p \in Products : StoreFits(n, p)

\* The receipts that the store of p asks for stay.
StoreKept(n, r, p) ==
  /\ units[p] > 0 /\ p \notin n.done /\ NeedsHold(n, p) => NeedsHold(r, p)
  /\ r.sub[p].phase \in MaybeSubmitted /\ r.add[p].phase = "idle" => units[p] = 0
  /\ ActionOf[p] = "checkout" /\ orders[p] > 0 /\ p \notin n.done =>
       /\ r.sub[p].phase \in MaybeSubmitted
       /\ r.locks[ProductKey(p)].owner \in {n.locks[ProductKey(p)].owner, Nobody}
  /\ ActionOf[p] = "review" /\ orders[p] > 0 /\ p \notin n.done
       /\ n.add[p].phase \in {"clicked", "confirmed"}
       => r.add[p].phase \in {"clicked", "confirmed"}

\* A step of o on p that keeps them.
GoodStep(n, r, p, o) == OwnStep(n, r, p, o) /\ StoreKept(n, r, p)

\* What the records of a mission say of its store.
LEMMA StoreFacts ==
  ASSUME NEW n, FlowReady(n), NEW p \in Products, units \in [Products -> Nat], orders \in [Products -> Nat]
  PROVE  /\ n.add[p].phase \in {"idle", "reserved"} /\ n.sub[p].phase \notin MaybeSubmitted
              => ~NeedsHold(n, p)
         /\ Clicking(p) => n.add[p].phase = "reserved"
         /\ n.add[p].phase = "idle" /\ n.sub[p].phase \in MaybeSubmitted => units[p] = 0
         /\ n.add[p].phase = "idle" /\ n.sub[p].phase \notin MaybeSubmitted /\ p \notin n.done
              => units[p] = 0 /\ orders[p] = 0
         /\ ActionOf[p] = "checkout" /\ n.sub[p].phase \notin MaybeSubmitted /\ p \notin n.done
              => orders[p] = 0
<1>1. AddFits(n, p) /\ WorkflowFits(n, p) /\ SubmissionFits(n, p)
  BY ReadyFacts DEF FlowReady
<1>2. n.add[p].phase \in {"idle", "reserved"} /\ n.sub[p].phase \notin MaybeSubmitted
        => ~NeedsHold(n, p)
  BY <1>1 DEF NeedsHold, WorkflowFits, HeldWorkflowPhases, MaybeSubmitted
<1>3. Clicking(p) => n.add[p].phase = "reserved"
  <2>. SUFFICES ASSUME NEW t \in Owners, PageOf[t] = p, page[t] = "clicking"
                PROVE  n.add[p].phase = "reserved"
    BY DEF Clicking, ReceiptPending
  <2>1. ClickFits(n, t)
    BY DEF FlowReady, TabFits
  <2>2. Authorized(t)
    BY DEF Authorized
  <2>. QED BY <2>1, <2>2 DEF ClickFits
<1>4. CartFits(n, p) /\ OrderFits(n, p) /\ units[p] \in Nat /\ orders[p] \in Nat
  BY DEF FlowReady, StoreFits
<1>5. n.add[p].phase = "idle" /\ n.sub[p].phase \in MaybeSubmitted => units[p] = 0
  BY <1>4 DEF CartFits
<1>6. n.add[p].phase = "idle" /\ n.sub[p].phase \notin MaybeSubmitted /\ p \notin n.done
        => units[p] = 0
  BY <1>2, <1>3, <1>4 DEF CartFits
<1>7. ActionOf[p] = "checkout" /\ n.sub[p].phase \notin MaybeSubmitted /\ p \notin n.done
        => orders[p] = 0
  BY <1>4 DEF OrderFits
<1>8. n.add[p].phase = "idle" /\ n.sub[p].phase \notin MaybeSubmitted /\ p \notin n.done
        => orders[p] = 0
  <2>1. ActionOf[p] \in {"watch", "cart", "review", "checkout"}
    BY ConfigAssumption
  <2>. QED BY <1>3, <1>4, <1>7, <2>1 DEF OrderFits
<1>. QED BY <1>2, <1>3, <1>5, <1>6, <1>7, <1>8

\* A step that leaves the receipts leaves them for the store too.
LEMMA SameReceiptsKept ==
  ASSUME NEW n, FlowReady(n), NEW p \in Products, NEW r,
         units \in [Products -> Nat], orders \in [Products -> Nat],
         r.add[p] = n.add[p], r.sub[p] = n.sub[p], NeedsHold(n, p) => NeedsHold(r, p),
         \/ r.locks[ProductKey(p)].owner \in {n.locks[ProductKey(p)].owner, Nobody}
         \/ n.sub[p].phase \notin MaybeSubmitted
  PROVE  StoreKept(n, r, p)
<1>1. OrderFits(n, p) /\ orders[p] \in Nat
  BY DEF FlowReady, StoreFits
<1>2. n.add[p].phase = "idle" /\ n.sub[p].phase \in MaybeSubmitted => units[p] = 0
  BY StoreFacts
<1>. QED BY <1>1, <1>2 DEF StoreKept, OrderFits

\* A claim and a release keep them.
LEMMA ClaimGood ==
  ASSUME NEW n, FlowReady(n), NEW p \in Products, NEW o \in Owners,
         units \in [Products -> Nat], orders \in [Products -> Nat]
  PROVE  /\ GoodStep(n, n, p, o)
         /\ CanClaim(n, p, o) => GoodStep(n, Claim(n, p, o), p, o)
         /\ CanRelease(n, p) => GoodStep(n, Release(n, p, o), p, o)
<1>1. Ready(n) /\ n \in AutomationStates /\ PlainLocks(n)
  BY ReadyFacts DEF FlowReady
<1>2. GoodStep(n, n, p, o)
  BY <1>1, RefusedStep, SameReceiptsKept DEF GoodStep
<1>3. ASSUME CanClaim(n, p, o) PROVE GoodStep(n, Claim(n, p, o), p, o)
  <2>. DEFINE r == Claim(n, p, o)
  <2>1. OwnStep(n, r, p, o)
    BY <1>1, <1>3, ClaimStep
  <2>2. ClaimWrites(n, r, p, o)
    BY <1>1, ClaimIs
  <2>3. n.sub[p].phase \notin MaybeSubmitted
    BY <1>3 DEF CanClaim, ClaimableRecord
  <2>. HIDE DEF r
  <2>4. r.add[p] = n.add[p] /\ r.sub[p] = n.sub[p] /\ (NeedsHold(n, p) => NeedsHold(r, p))
    BY <2>2 DEF ClaimWrites, NeedsHold
  <2>5. StoreKept(n, r, p)
    BY <2>3, <2>4, SameReceiptsKept
  <2>. QED BY <2>1, <2>5 DEF GoodStep, r
<1>4. ASSUME CanRelease(n, p) PROVE GoodStep(n, Release(n, p, o), p, o)
  <2>. DEFINE r == Release(n, p, o)
  <2>1. OwnStep(n, r, p, o) /\ SameButLocks(n, r)
    BY <1>1, <1>4, ReleaseStep
  <2>2. n.sub[p].phase \notin MaybeSubmitted
    BY <1>4 DEF CanRelease
  <2>. HIDE DEF r
  <2>4. r.add[p] = n.add[p] /\ r.sub[p] = n.sub[p] /\ (NeedsHold(n, p) => NeedsHold(r, p))
    BY <2>1 DEF SameButLocks, NeedsHold
  <2>5. StoreKept(n, r, p)
    BY <2>2, <2>4, SameReceiptsKept
  <2>. QED BY <2>1, <2>5 DEF GoodStep, r
<1>. QED BY <1>2, <1>3, <1>4

\* Reserving the Add keeps them: nothing of the mission is in the store yet.
LEMMA ReserveGood ==
  ASSUME NEW n, FlowReady(n), NEW p \in Products, NEW o \in Owners, ActionOf[p] # "watch",
         units \in [Products -> Nat], orders \in [Products -> Nat],
         CanClaim(n, p, o), n.add[p].phase = "idle"
  PROVE  GoodStep(n, BeginAddAction(Claim(n, p, o), p, o), p, o)
<1>. DEFINE r == BeginAddAction(Claim(n, p, o), p, o)
<1>1. OwnStep(n, r, p, o) /\ r.add[p] = [phase |-> "reserved", owner |-> o] /\ r.sub = n.sub
  BY ReserveStep DEF FlowReady
<1>2. p \notin n.done /\ n.sub[p].phase \notin MaybeSubmitted
  BY DEF CanClaim, ClaimableRecord
<1>3. units[p] = 0 /\ orders[p] = 0
  BY <1>2, StoreFacts
<1>. HIDE DEF r
<1>4. StoreKept(n, r, p)
  BY <1>1, <1>2, <1>3 DEF StoreKept
<1>. QED BY <1>1, <1>4 DEF GoodStep, r

--------------------------------------------------------------------------------
(* Steps that rewrite the receipts of a mission *)

\* u is n with other receipts of p.
Rewrites(n, u, p) ==
  /\ u \in AutomationStates /\ u.locks = n.locks /\ u.run = n.run /\ u.done = n.done
  /\ \A q \in Products \ {p} : u.add[q] = n.add[q] /\ u.sub[q] = n.sub[q] /\ u.wf[q] = n.wf[q]

\* A mission that still needs its hold makes its lane permanent.
LEMMA HeldStep ==
  ASSUME NEW n, Ready(n), NEW p \in Products, NEW o \in Owners, OwnsLane(n, p, o),
         NEW u, Rewrites(n, u, p), NeedsHold(u, p), WorkflowFits(u, p),
         \/ u.add[p] = IdleAdd
         \/ /\ u.add[p].phase # "idle" /\ u.add[p].owner = o /\ u.wf[p].owner = o
            /\ ActionOf[p] # "watch",
         u.sub[p].phase \in MaybeSubmitted =>
           ActionOf[p] = "checkout" /\ u.add[p].phase \in {"idle", "confirmed"}
  PROVE  /\ OwnStep(n, Held(u, p), p, o) /\ SameButLocks(u, Held(u, p))
         /\ NeedsHold(Held(u, p), p)
         /\ \A k \in LockKeys(p) : Held(u, p).locks[k] = Lock(p, o, TRUE)
<1>. DEFINE r == Held(u, p)
<1>1. n \in AutomationStates /\ PlainLocks(n) /\ AddFits(n, p)
      /\ \A k \in Keys : n.locks[k].pid = p => k \in LockKeys(p)
  BY ReadyFacts
<1>2. u \in AutomationStates /\ u.locks = n.locks /\ u.run = n.run /\ u.done = n.done
      /\ \A q \in Products \ {p} : u.add[q] = n.add[q] /\ u.sub[q] = n.sub[q] /\ u.wf[q] = n.wf[q]
  BY DEF Rewrites
<1>3. LockKeys(p) \subseteq Keys /\ ProductKey(p) \in LockKeys(p)
  BY KeyFacts
<1>4. \A k \in LockKeys(p) : OwnedBy(n.locks[k], p, o) /\ n.locks[k].pid = p
  BY DEF OwnsLane, OwnedBy
<1>5. SameButLocks(u, r) /\ r.run = u.run
  BY <1>2, HeldIs
<1>6. \A k \in Keys : r.locks[k] = IF k \in LockKeys(p) /\ n.locks[k].pid = p
                                   THEN Permanent(n.locks[k]) ELSE n.locks[k]
  <2>1. \A k \in Keys : r.locks[k] = IF k \in LockKeys(p) /\ u.locks[k].pid = p
                                     THEN Permanent(u.locks[k]) ELSE u.locks[k]
    BY <1>2, HeldIs DEF Permanent
  <2>. QED BY <1>2, <2>1
<1>7. LockStep(n, r, p, o)
  <2>1. LaneMine(n, p, o)
    BY <1>4 DEF LaneMine
  <2>. QED BY <1>1, <1>2, <2>1, LockSteps
<1>. HIDE DEF r
<1>8. ASSUME NEW k \in LockKeys(p) PROVE r.locks[k] = Lock(p, o, TRUE)
  <2>1. r.locks[k] = Permanent(n.locks[k])
    BY <1>3, <1>4, <1>6
  <2>2. Permanent(n.locks[k]) = Lock(p, o, TRUE)
    BY <1>1, <1>3, <1>4, OwnedLock
  <2>. QED BY <2>1, <2>2
<1>9. Lock(p, o, TRUE).pid = p /\ Lock(p, o, TRUE).owner = o /\ Lock(p, o, TRUE).hold
  BY DEF Lock, Free
<1>10. NeedsHold(r, p)
  BY <1>5 DEF NeedsHold, SameButLocks
<1>11. ASSUME NEW k \in Keys, r.locks[k].pid = p PROVE r.locks[k].owner = o
  <2>1. k \in LockKeys(p)
    BY <1>1, <1>6, <1>11
  <2>. QED BY <1>8, <1>9, <2>1
<1>12. AddFits(r, p)
  <2>1. IdleAdd.phase = "idle"
    BY DEF IdleAdd
  <2>. QED BY <1>5, <1>11, <2>1 DEF AddFits, SameButLocks
<1>13. WorkflowFits(r, p)
  BY <1>5 DEF WorkflowFits, SameButLocks
<1>14. SubmissionFits(r, p)
  <2>1. r.locks[ProductKey(p)].pid = p /\ r.locks[ProductKey(p)].hold
    BY <1>3, <1>8, <1>9
  <2>. QED BY <1>5, <2>1 DEF SubmissionFits, SameButLocks
<1>15. Recorded(n, r, p)
  BY <1>4, <1>10, <1>12, <1>13, <1>14 DEF Recorded, ReceiptsFit
<1>16. OtherReceiptsKept(n, r, p)
  BY <1>2, <1>5 DEF OtherReceiptsKept, SameButLocks
<1>17. WithRights(n, r, p, o)
  <2>1. LaneMine(n, p, o)
    BY <1>4 DEF LaneMine
  <2>2. MayTouch(n, p, o)
    <3>1. CASE n.add[p].phase = "idle"
      BY <1>1, <3>1 DEF AddFits, MayTouch, IdleAdd
    <3>2. CASE n.add[p].phase # "idle"
      BY <1>1, <1>3, <1>4, <3>2 DEF AddFits, MayTouch, OwnedBy
    <3>. QED BY <3>1, <3>2
  <2>3. r.add[p].owner \in {Nobody, o}
    BY <1>5 DEF IdleAdd, SameButLocks
  <2>. QED BY <2>1, <2>2, <2>3 DEF WithRights
<1>18. OwnStep(n, r, p, o)
  BY <1>2, <1>5, <1>7, <1>15, <1>16, <1>17 DEF OwnStep, SameButLocks
<1>. QED BY <1>5, <1>8, <1>10, <1>18 DEF r

\* A step that leaves p in need of its hold, and its lane held for o.
HeldLeft(n, r, p, o) ==
  /\ OwnStep(n, r, p, o) /\ NeedsHold(r, p)
  /\ \A k \in LockKeys(p) : r.locks[k] = Lock(p, o, TRUE)

\* The owner of the lane is then the same.
LEMMA HeldOwner ==
  ASSUME NEW n, NEW r, NEW p \in Products, NEW o \in Owners, OwnsLane(n, p, o), HeldLeft(n, r, p, o)
  PROVE  r.locks[ProductKey(p)].owner = n.locks[ProductKey(p)].owner
<1>1. ProductKey(p) \in LockKeys(p) /\ Lock(p, o, TRUE).owner = o
  <2>1. Lock(p, o, TRUE).owner = o
    BY DEF Lock, Free
  <2>. QED BY <2>1, KeyFacts
<1>. QED BY <1>1 DEF HeldLeft, OwnsLane, OwnedBy

\* It keeps the store's receipts when the new ones still cover it.
LEMMA HeldGood ==
  ASSUME NEW n, NEW p \in Products, NEW o \in Owners, OwnsLane(n, p, o),
         NEW r, HeldLeft(n, r, p, o),
         r.sub[p].phase \in MaybeSubmitted /\ r.add[p].phase = "idle" => units[p] = 0,
         ActionOf[p] = "checkout" /\ orders[p] > 0 /\ p \notin n.done
           => r.sub[p].phase \in MaybeSubmitted,
         n.add[p].phase \in {"clicked", "confirmed"} => r.add[p].phase \in {"clicked", "confirmed"}
  PROVE  GoodStep(n, r, p, o)
<1>1. r.locks[ProductKey(p)].owner = n.locks[ProductKey(p)].owner
  BY HeldOwner
<1>. QED BY <1>1 DEF StoreKept, HeldLeft, GoodStep

\* A lane all of whose locks a mission with a receipt holds is its owner's.
LEMMA LaneOfReceipt ==
  ASSUME NEW n, Ready(n), NEW p \in Products, NEW o \in Owners, NeedsHold(n, p),
         LaneMine(n, p, o) \/ (n.add[p].owner = o /\ n.add[p].phase # "idle")
  PROVE  OwnsLane(n, p, o)
<1>1. \A k \in LockKeys(p) : k \in Keys /\ n.locks[k].pid = p
  BY ReadyFacts, KeyFacts
<1>2. AddFits(n, p)
  BY ReadyFacts
<1>3. CASE LaneMine(n, p, o)
  BY <1>1, <1>3, NobodysNames DEF LaneMine, OwnsLane, OwnedBy
<1>4. CASE n.add[p].owner = o /\ n.add[p].phase # "idle"
  BY <1>1, <1>2, <1>4 DEF AddFits, OwnsLane, OwnedBy
<1>. QED BY <1>3, <1>4

\* The receipt of the click.
LEMMA ClickedStep ==
  ASSUME NEW n, Ready(n), NEW p \in Products, NEW o \in Owners,
         n.add[p] = [phase |-> "reserved", owner |-> o], OwnsLane(n, p, o), n.wf[p].owner = o
  PROVE  /\ HeldLeft(n, MarkAddAction(n, p, o, "clicked"), p, o)
         /\ MarkAddAction(n, p, o, "clicked").add[p] = [phase |-> "clicked", owner |-> o]
         /\ MarkAddAction(n, p, o, "clicked").sub = n.sub
<1>. DEFINE u == [n EXCEPT !.add[p].phase = "clicked"]
<1>1. Ready(n) /\ n \in AutomationStates /\ AddFits(n, p) /\ WorkflowFits(n, p) /\ SubmissionFits(n, p)
      /\ (p \in n.done => n.add[p] = IdleAdd)
  BY ReadyFacts
<1>2. u.add[p] = [phase |-> "clicked", owner |-> o] /\ u.sub = n.sub /\ u.wf = n.wf /\ u.done = n.done
      /\ Rewrites(n, u, p)
  <2>1. n.add \in [Products -> Phases] /\ [n.add[p] EXCEPT !.phase = "clicked"] = [phase |-> "clicked", owner |-> o]
    BY <1>1, FieldTypes
  <2>2. [phase |-> "clicked", owner |-> o] \in Phases
    BY ReceiptValues DEF Phases, AddPhases
  <2>3. u.add = [n.add EXCEPT ![p] = [phase |-> "clicked", owner |-> o]] /\ u.sub = n.sub /\ u.wf = n.wf
        /\ u.done = n.done /\ u.locks = n.locks /\ u.run = n.run
    BY <1>1, <2>1 DEF AutomationStates
  <2>4. [n.add EXCEPT ![p] = [phase |-> "clicked", owner |-> o]] \in [Products -> Phases]
    BY <2>1, <2>2
  <2>5. u = [n EXCEPT !.add = [n.add EXCEPT ![p] = [phase |-> "clicked", owner |-> o]]]
    BY <1>1, <2>1 DEF AutomationStates
  <2>6. u \in AutomationStates
    BY <1>1, <2>4, <2>5 DEF AutomationStates, Phases
  <2>. HIDE DEF u
  <2>. QED BY <2>1, <2>3, <2>6 DEF Rewrites
<1>3. MarkAddAction(n, p, o, "clicked") = Held(u, p)
  BY DEF MarkAddAction
<1>. HIDE DEF u
<1>4. n.sub[p].phase \notin MaybeSubmitted /\ p \notin n.done
  BY <1>1 DEF SubmissionFits, IdleAdd
<1>5. NeedsHold(u, p)
  BY <1>2, <1>4 DEF NeedsHold
<1>6. WorkflowFits(u, p)
  BY <1>1, <1>2, <1>4 DEF WorkflowFits, MaybeSubmitted
<1>7. ActionOf[p] # "watch" /\ u.add[p].phase = "clicked" /\ u.add[p].owner = o /\ u.wf[p].owner = o
  BY <1>1, <1>2 DEF AddFits
<1>8. OwnStep(n, Held(u, p), p, o) /\ SameButLocks(u, Held(u, p)) /\ NeedsHold(Held(u, p), p)
      /\ \A k \in LockKeys(p) : Held(u, p).locks[k] = Lock(p, o, TRUE)
  BY <1>1, <1>2, <1>4, <1>5, <1>6, <1>7, HeldStep
<1>. QED BY <1>2, <1>3, <1>8 DEF SameButLocks, HeldLeft

\* It keeps what the store asks for.
LEMMA ClickedGood ==
  ASSUME NEW n, FlowReady(n), NEW p \in Products, NEW o \in Owners,
         n.add[p] = [phase |-> "reserved", owner |-> o], OwnsLane(n, p, o), n.wf[p].owner = o
  PROVE  /\ GoodStep(n, MarkAddAction(n, p, o, "clicked"), p, o)
         /\ MarkAddAction(n, p, o, "clicked").add[p] = [phase |-> "clicked", owner |-> o]
<1>. DEFINE r == MarkAddAction(n, p, o, "clicked")
<1>1. HeldLeft(n, r, p, o) /\ r.add[p] = [phase |-> "clicked", owner |-> o] /\ r.sub = n.sub
  BY ClickedStep DEF FlowReady
<1>. HIDE DEF r
<1>2. ActionOf[p] = "checkout" /\ orders[p] > 0 /\ p \notin n.done => r.sub[p].phase \in MaybeSubmitted
  BY <1>1 DEF FlowReady, StoreFits, OrderFits
<1>3. GoodStep(n, r, p, o)
  BY <1>1, <1>2, HeldGood
<1>. QED BY <1>1, <1>3 DEF r

\* The Add is confirmed in the cart.
LEMMA ConfirmedStep ==
  ASSUME NEW n, Ready(n), NEW p \in Products, NEW o \in Owners,
         CanMarkAddAction(n, p, o, "confirmed")
  PROVE  /\ OwnsLane(n, p, o) /\ HeldLeft(n, MarkAddAction(n, p, o, "confirmed"), p, o)
         /\ MarkAddAction(n, p, o, "confirmed").add[p].phase = "confirmed"
         /\ MarkAddAction(n, p, o, "confirmed").sub = n.sub
<1>. DEFINE u == [n EXCEPT !.add[p].phase = "confirmed",
                           !.wf[p] = Workflow("cart-confirmed", o, NoHash)]
<1>1. Ready(n) /\ n \in AutomationStates /\ AddFits(n, p) /\ WorkflowFits(n, p) /\ SubmissionFits(n, p)
      /\ (p \in n.done => n.add[p] = IdleAdd)
  BY ReadyFacts
<1>0. n.add[p].phase = "clicked" /\ n.add[p].owner \in {Nobody, o}
  BY DEF CanMarkAddAction
<1>2. n.add[p].owner = o /\ ActionOf[p] # "watch"
  BY <1>0, <1>1, NobodysNames DEF AddFits
<1>3. Workflow("cart-confirmed", o, NoHash) \in Workflows
  BY ReceiptValues DEF WorkflowPhases, HeldWorkflowPhases
<1>4. u.add[p].phase = "confirmed" /\ u.add[p].owner = o /\ u.sub = n.sub /\ u.done = n.done
      /\ u.wf[p] = Workflow("cart-confirmed", o, NoHash) /\ Rewrites(n, u, p)
  BY <1>1, <1>2, <1>3 DEF Rewrites, AutomationStates, AddPhases, Workflows
<1>5. MarkAddAction(n, p, o, "confirmed") = Held(u, p)
  BY DEF MarkAddAction
<1>. HIDE DEF u
<1>6. u.wf[p].phase = "cart-confirmed" /\ u.wf[p].owner = o
  BY <1>4 DEF Workflow
<1>7. n.sub[p].phase \notin MaybeSubmitted /\ p \notin n.done
  BY <1>0, <1>1 DEF SubmissionFits, IdleAdd
<1>8. NeedsHold(u, p) /\ NeedsHold(n, p)
  BY <1>0, <1>4, <1>7 DEF NeedsHold
<1>9. WorkflowFits(u, p)
  BY <1>4, <1>6 DEF WorkflowFits
<1>10. OwnsLane(n, p, o)
  BY <1>0, <1>1, <1>2, <1>8, LaneOfReceipt
<1>11. OwnStep(n, Held(u, p), p, o) /\ SameButLocks(u, Held(u, p)) /\ NeedsHold(Held(u, p), p)
      /\ \A k \in LockKeys(p) : Held(u, p).locks[k] = Lock(p, o, TRUE)
  BY <1>1, <1>2, <1>4, <1>6, <1>7, <1>8, <1>9, <1>10, HeldStep
<1>. QED BY <1>4, <1>5, <1>10, <1>11 DEF SameButLocks, HeldLeft

\* It keeps what the store asks for.
LEMMA ConfirmedGood ==
  ASSUME NEW n, FlowReady(n), NEW p \in Products, NEW o \in Owners,
         CanMarkAddAction(n, p, o, "confirmed")
  PROVE  GoodStep(n, MarkAddAction(n, p, o, "confirmed"), p, o)
<1>. DEFINE r == MarkAddAction(n, p, o, "confirmed")
<1>1. OwnsLane(n, p, o) /\ HeldLeft(n, r, p, o) /\ r.add[p].phase = "confirmed" /\ r.sub = n.sub
  BY ConfirmedStep DEF FlowReady
<1>. HIDE DEF r
<1>2. ActionOf[p] = "checkout" /\ orders[p] > 0 /\ p \notin n.done => r.sub[p].phase \in MaybeSubmitted
  BY <1>1 DEF FlowReady, StoreFits, OrderFits
<1>3. GoodStep(n, r, p, o)
  BY <1>1, <1>2, HeldGood
<1>. QED BY <1>3 DEF r

\* Where the lane is owned, the Add is the owner's.
LEMMA OwnersAdd ==
  ASSUME NEW n, Ready(n), NEW p \in Products, NEW o \in Owners, OwnsLane(n, p, o)
  PROVE  /\ n.add[p].phase # "idle" => n.add[p].owner = o /\ n.wf[p].owner = o /\ ActionOf[p] # "watch"
         /\ n.add[p].phase = "idle" => n.add[p] = IdleAdd
         /\ p \notin n.done /\ n.add[p].phase \in AddPhases
<1>1. n \in AutomationStates /\ AddFits(n, p) /\ StateInv(n)
  BY ReadyFacts DEF Ready
<1>2. ProductKey(p) \in Keys /\ n.locks[ProductKey(p)].pid = p /\ n.locks[ProductKey(p)].owner = o
  BY KeyFacts DEF OwnsLane, OwnedBy
<1>3. p \notin n.done
  BY <1>1, OwnerNotDone
<1>4. n.add[p].phase \in AddPhases
  BY <1>1, FieldTypes DEF Phases
<1>5. n.add[p].phase # "idle" => n.add[p].owner = o /\ n.wf[p].owner = o /\ ActionOf[p] # "watch"
  BY <1>1, <1>2, NobodysNames DEF AddFits
<1>. QED BY <1>1, <1>3, <1>4, <1>5 DEF AddFits

\* What the record of an intent leaves.
IntentLeft(n, r, p, o) ==
  /\ r.sub[p].phase = "intent" /\ \A k \in LockKeys(p) : r.locks[k] = Lock(p, o, TRUE)
  /\ r.add = n.add /\ r.done = n.done /\ p \notin n.done

\* The intent of a submission.
LEMMA IntentStep ==
  ASSUME NEW n, Ready(n), NEW p \in Products, NEW o \in Owners, NEW h \in EvidenceHashes,
         CanBeginSubmission(n, p, o), n.add[p].owner # o \/ n.add[p].phase \notin {"reserved", "clicked"}
  PROVE  /\ OwnsLane(n, p, o) /\ HeldLeft(n, BeginSubmission(n, p, h), p, o)
         /\ IntentLeft(n, BeginSubmission(n, p, h), p, o)
<1>. DEFINE u == [n EXCEPT !.sub[p] = [phase |-> "intent", hash |-> h]]
<1>1. Ready(n) /\ n \in AutomationStates /\ AddFits(n, p) /\ WorkflowFits(n, p) /\ SubmissionFits(n, p)
  BY ReadyFacts
<1>2. ActionOf[p] = "checkout" /\ p \notin n.done /\ OwnsLane(n, p, o)
      /\ n.sub[p].phase \notin MaybeSubmitted
  BY DEF CanBeginSubmission
<1>3. u \in AutomationStates
  BY <1>1, SubmissionTypes
<1>4. u.add = n.add /\ u.wf = n.wf /\ u.sub[p].phase = "intent" /\ u.done = n.done /\ Rewrites(n, u, p)
  BY <1>1, <1>3 DEF Rewrites, AutomationStates
<1>5. BeginSubmission(n, p, h) = Held(u, p)
  BY DEF BeginSubmission
<1>. HIDE DEF u
<1>6. u.add[p] = IdleAdd \/ (u.add[p].phase = "confirmed" /\ u.add[p].owner = o /\ u.wf[p].owner = o)
  BY <1>1, <1>2, <1>4, OwnersAdd DEF AddPhases
<1>7. IdleAdd.phase = "idle"
  BY DEF IdleAdd
<1>8. NeedsHold(u, p)
  BY <1>2, <1>4 DEF NeedsHold, MaybeSubmitted
<1>9. WorkflowFits(u, p)
  BY <1>1, <1>2, <1>4 DEF WorkflowFits, MaybeSubmitted
<1>11. OwnStep(n, Held(u, p), p, o) /\ SameButLocks(u, Held(u, p)) /\ NeedsHold(Held(u, p), p)
       /\ \A k \in LockKeys(p) : Held(u, p).locks[k] = Lock(p, o, TRUE)
  <2>1. u.add[p] = IdleAdd \/ (u.add[p].phase # "idle" /\ u.add[p].owner = o /\ u.wf[p].owner = o
                               /\ ActionOf[p] # "watch")
    BY <1>2, <1>6
  <2>2. u.add[p].phase \in {"idle", "confirmed"}
    BY <1>6, <1>7
  <2>3. Ready(n) /\ OwnsLane(n, p, o) /\ Rewrites(n, u, p)
    BY <1>1, <1>2, <1>4
  <2>4. u.sub[p].phase \in MaybeSubmitted => ActionOf[p] = "checkout" /\ u.add[p].phase \in {"idle", "confirmed"}
    BY <1>2, <2>2
  <2>. QED BY <1>8, <1>9, <2>1, <2>3, <2>4, HeldStep
<1>12. IntentLeft(n, Held(u, p), p, o)
  BY <1>2, <1>4, <1>11 DEF IntentLeft, SameButLocks
<1>13. HeldLeft(n, Held(u, p), p, o)
  BY <1>11 DEF HeldLeft
<1>. QED BY <1>2, <1>5, <1>12, <1>13

\* It keeps what the store asks for, which has no order yet.
LEMMA IntentGood ==
  ASSUME NEW n, FlowReady(n), NEW p \in Products, NEW o \in Owners, NEW h \in EvidenceHashes,
         units \in [Products -> Nat], orders \in [Products -> Nat],
         CanBeginSubmission(n, p, o), n.add[p].owner # o \/ n.add[p].phase \notin {"reserved", "clicked"}
  PROVE  /\ GoodStep(n, BeginSubmission(n, p, h), p, o)
         /\ IntentLeft(n, BeginSubmission(n, p, h), p, o) /\ orders[p] = 0
<1>. DEFINE r == BeginSubmission(n, p, h)
<1>1. OwnsLane(n, p, o) /\ HeldLeft(n, r, p, o) /\ IntentLeft(n, r, p, o)
  BY IntentStep DEF FlowReady
<1>. HIDE DEF r
<1>2. ActionOf[p] = "checkout" /\ p \notin n.done /\ n.sub[p].phase \notin MaybeSubmitted
  BY DEF CanBeginSubmission
<1>3. orders[p] = 0 /\ (n.add[p].phase = "idle" => units[p] = 0)
  BY <1>2, StoreFacts
<1>4. r.sub[p].phase \in MaybeSubmitted /\ r.add = n.add
  BY <1>1 DEF IntentLeft, MaybeSubmitted
<1>5. GoodStep(n, r, p, o)
  BY <1>1, <1>3, <1>4, HeldGood
<1>. QED BY <1>1, <1>3, <1>5 DEF r

\* The hand-off of the review.
LEMMA HandoffStep ==
  ASSUME NEW n, Ready(n), NEW p \in Products, NEW o \in Owners, NEW h \in EvidenceHashes,
         CanBeginManualReview(n, p, o)
  PROVE  /\ OwnsLane(n, p, o) /\ HeldLeft(n, BeginManualReview(n, p, o, h), p, o)
         /\ BeginManualReview(n, p, o, h).add = n.add /\ BeginManualReview(n, p, o, h).sub = n.sub
         /\ ActionOf[p] = "review" /\ n.sub[p].phase \notin MaybeSubmitted
<1>. DEFINE u == [n EXCEPT !.wf[p] = Workflow("awaiting-manual-outcome", o, h)]
<1>1. Ready(n) /\ n \in AutomationStates /\ AddFits(n, p) /\ WorkflowFits(n, p) /\ SubmissionFits(n, p)
  BY ReadyFacts
<1>2. ActionOf[p] = "review" /\ p \notin n.done /\ OwnsLane(n, p, o) /\ n.wf[p].phase = "cart-confirmed"
  BY DEF CanBeginManualReview
<1>3. Workflow("awaiting-manual-outcome", o, h) \in Workflows
  BY ReceiptValues DEF WorkflowPhases, HeldWorkflowPhases
<1>4. u.add = n.add /\ u.sub = n.sub /\ u.done = n.done
      /\ u.wf[p] = Workflow("awaiting-manual-outcome", o, h) /\ Rewrites(n, u, p)
  BY <1>1, <1>3 DEF Rewrites, AutomationStates, Workflows
<1>5. BeginManualReview(n, p, o, h) = Held(u, p)
  BY DEF BeginManualReview
<1>. HIDE DEF u
<1>6. u.wf[p].phase = "awaiting-manual-outcome" /\ u.wf[p].owner = o
  BY <1>4 DEF Workflow
<1>7. n.add[p].phase = "confirmed" /\ n.add[p].owner = o
  BY <1>1, <1>2, OwnersAdd DEF WorkflowFits
<1>8. n.sub[p].phase \notin MaybeSubmitted
  BY <1>1, <1>2 DEF SubmissionFits
<1>9. NeedsHold(u, p) /\ WorkflowFits(u, p)
  BY <1>2, <1>4, <1>6, <1>7 DEF NeedsHold, WorkflowFits
<1>11. OwnStep(n, Held(u, p), p, o) /\ SameButLocks(u, Held(u, p)) /\ NeedsHold(Held(u, p), p)
       /\ \A k \in LockKeys(p) : Held(u, p).locks[k] = Lock(p, o, TRUE)
  BY <1>1, <1>2, <1>4, <1>6, <1>7, <1>8, <1>9, HeldStep
<1>. QED BY <1>2, <1>4, <1>5, <1>8, <1>11 DEF SameButLocks, HeldLeft

\* It keeps what the store asks for.
LEMMA HandoffGood ==
  ASSUME NEW n, FlowReady(n), NEW p \in Products, NEW o \in Owners, NEW h \in EvidenceHashes,
         CanBeginManualReview(n, p, o)
  PROVE  /\ GoodStep(n, BeginManualReview(n, p, o, h), p, o)
         /\ BeginManualReview(n, p, o, h).add = n.add
<1>. DEFINE r == BeginManualReview(n, p, o, h)
<1>1. OwnsLane(n, p, o) /\ HeldLeft(n, r, p, o) /\ r.add = n.add /\ r.sub = n.sub
      /\ ActionOf[p] = "review" /\ n.sub[p].phase \notin MaybeSubmitted
  BY HandoffStep DEF FlowReady
<1>. HIDE DEF r
<1>2. GoodStep(n, r, p, o)
  BY <1>1, HeldGood
<1>. QED BY <1>1, <1>2 DEF r

\* The submit click is recorded.
LEMMA SubmittedStep ==
  ASSUME NEW n, Ready(n), NEW p \in Products, NEW o \in Owners, CanMarkSubmission(n, p, o, "clicked")
  PROVE  /\ OwnsLane(n, p, o) /\ HeldLeft(n, MarkSubmission(n, p, o, "clicked"), p, o)
         /\ MarkSubmission(n, p, o, "clicked").add = n.add
         /\ MarkSubmission(n, p, o, "clicked").sub[p].phase = "uncertain"
         /\ n.add[p].phase \in {"idle", "confirmed"}
<1>. DEFINE u == [n EXCEPT !.sub[p].phase = "uncertain",
                           !.wf[p] = Workflow("submission-uncertain", o, n.sub[p].hash)]
<1>1. Ready(n) /\ n \in AutomationStates /\ AddFits(n, p) /\ WorkflowFits(n, p) /\ SubmissionFits(n, p)
      /\ (p \in n.done => n.sub[p].phase \notin MaybeSubmitted)
  BY ReadyFacts
<1>2. n.sub[p].phase = "intent" /\ LaneMine(n, p, o)
  BY DEF CanMarkSubmission, LaneMine
<1>3. p \notin n.done /\ NeedsHold(n, p)
  BY <1>1, <1>2 DEF NeedsHold, MaybeSubmitted
<1>4. OwnsLane(n, p, o)
  BY <1>1, <1>2, <1>3, LaneOfReceipt
<1>5. Workflow("submission-uncertain", o, n.sub[p].hash) \in Workflows
  <2>1. n.sub[p].hash \in Hashes
    BY <1>1, FieldTypes DEF Submissions
  <2>. QED BY <2>1, ReceiptValues DEF WorkflowPhases, HeldWorkflowPhases
<1>6. u.add = n.add /\ u.sub[p].phase = "uncertain" /\ u.done = n.done
      /\ u.wf[p] = Workflow("submission-uncertain", o, n.sub[p].hash) /\ Rewrites(n, u, p)
  <2>1. n.sub \in [Products -> Submissions] /\ [n.sub[p] EXCEPT !.phase = "uncertain"] \in Submissions
        /\ [n.sub[p] EXCEPT !.phase = "uncertain"].phase = "uncertain"
    BY <1>1, FieldTypes DEF Submissions, SubmissionPhases
  <2>2. u = [n EXCEPT !.sub[p] = [n.sub[p] EXCEPT !.phase = "uncertain"],
                      !.wf[p] = Workflow("submission-uncertain", o, n.sub[p].hash)]
    BY <1>1 DEF AutomationStates
  <2>3. u \in AutomationStates
    BY <1>1, <1>5, <2>1, <2>2, RemarkType
  <2>4. u.add = n.add /\ u.sub[p] = [n.sub[p] EXCEPT !.phase = "uncertain"] /\ u.done = n.done
        /\ u.wf[p] = Workflow("submission-uncertain", o, n.sub[p].hash)
        /\ u.locks = n.locks /\ u.run = n.run
        /\ \A q \in Products \ {p} : u.sub[q] = n.sub[q] /\ u.wf[q] = n.wf[q]
    BY <1>1, <2>2 DEF AutomationStates
  <2>. HIDE DEF u
  <2>. QED BY <2>1, <2>3, <2>4 DEF Rewrites
<1>7. MarkSubmission(n, p, o, "clicked") = Held(u, p)
  BY DEF MarkSubmission
<1>. HIDE DEF u
<1>8. u.wf[p].phase = "submission-uncertain" /\ u.wf[p].owner = o
  BY <1>6 DEF Workflow
<1>9. NeedsHold(u, p) /\ WorkflowFits(u, p)
  BY <1>3, <1>6, <1>8 DEF NeedsHold, WorkflowFits, MaybeSubmitted
<1>10. ActionOf[p] = "checkout" /\ n.add[p].phase \in {"idle", "confirmed"}
  BY <1>1, <1>2 DEF SubmissionFits, MaybeSubmitted
<1>11. OwnStep(n, Held(u, p), p, o) /\ SameButLocks(u, Held(u, p)) /\ NeedsHold(Held(u, p), p)
       /\ \A k \in LockKeys(p) : Held(u, p).locks[k] = Lock(p, o, TRUE)
  <2>1. u.add[p] = IdleAdd \/ (u.add[p].phase # "idle" /\ u.add[p].owner = o /\ u.wf[p].owner = o
                               /\ ActionOf[p] # "watch")
    BY <1>1, <1>4, <1>6, <1>8, <1>10, OwnersAdd
  <2>2. u.add[p].phase \in {"idle", "confirmed"}
    BY <1>6, <1>10
  <2>. QED BY <1>1, <1>4, <1>6, <1>9, <1>10, <2>1, <2>2, HeldStep
<1>. QED BY <1>4, <1>6, <1>7, <1>10, <1>11 DEF SameButLocks, HeldLeft

\* It keeps what the store asks for.
LEMMA SubmittedGood ==
  ASSUME NEW n, FlowReady(n), NEW p \in Products, NEW o \in Owners,
         units \in [Products -> Nat], orders \in [Products -> Nat],
         CanMarkSubmission(n, p, o, "clicked")
  PROVE  /\ GoodStep(n, MarkSubmission(n, p, o, "clicked"), p, o)
         /\ MarkSubmission(n, p, o, "clicked").add = n.add
<1>. DEFINE r == MarkSubmission(n, p, o, "clicked")
<1>1. OwnsLane(n, p, o) /\ HeldLeft(n, r, p, o) /\ r.add = n.add /\ r.sub[p].phase = "uncertain"
      /\ n.add[p].phase \in {"idle", "confirmed"}
  BY SubmittedStep DEF FlowReady
<1>. HIDE DEF r
<1>2. r.sub[p].phase \in MaybeSubmitted /\ n.sub[p].phase \in MaybeSubmitted
  BY <1>1 DEF MaybeSubmitted, CanMarkSubmission
<1>3. n.add[p].phase = "idle" => units[p] = 0
  BY <1>2, StoreFacts
<1>4. GoodStep(n, r, p, o)
  BY <1>1, <1>2, <1>3, HeldGood
<1>. QED BY <1>1, <1>4 DEF r

\* What a withdrawn Add leaves.
WithdrawnLeft(n, r, p, o) ==
  /\ OwnStep(n, r, p, o) /\ r.add[p] = IdleAdd /\ r.sub = n.sub
  /\ r.locks[ProductKey(p)].owner \in {n.locks[ProductKey(p)].owner, Nobody}
  /\ n.add[p].phase = "idle" /\ NeedsHold(n, p) => NeedsHold(r, p)
  /\ n.add[p].phase # "idle" => n.add[p].owner = o

\* An Add withdrawn, or reported failed.
LEMMA WithdrawnStep ==
  ASSUME NEW n, Ready(n), NEW p \in Products, NEW o \in Owners,
         NEW outcome \in {"canceled", "failed"}, MayTouch(n, p, o)
  PROVE  WithdrawnLeft(n, MarkAddAction(n, p, o, outcome), p, o)
<1>. DEFINE u == [n EXCEPT !.add[p] = IdleAdd, !.wf[p] = Workflow("active", Nobody, NoHash)]
            r == LaneGivenBack(u, p, o)
<1>1. Ready(n) /\ n \in AutomationStates /\ PlainLocks(n) /\ AddFits(n, p) /\ WorkflowFits(n, p)
      /\ SubmissionFits(n, p) /\ \A k \in Keys : n.locks[k].pid = p => k \in LockKeys(p)
  BY ReadyFacts
<1>0. /\ NeedsHold(n, p) => \A k \in LockKeys(p) : n.locks[k].pid = p /\ n.locks[k].hold
      /\ \A k \in Keys : n.locks[k].pid = p /\ n.locks[k].hold => NeedsHold(n, p)
  BY <1>1, ReadyFacts
<1>2. MarkAddAction(n, p, o, outcome) = r
  BY DEF MarkAddAction
<1>3. Workflow("active", Nobody, NoHash) \in Workflows /\ IdleAdd \in Phases
  BY ReceiptValues DEF WorkflowPhases
<1>4. u.add[p] = IdleAdd /\ u.sub = n.sub /\ u.done = n.done
      /\ u.wf[p] = Workflow("active", Nobody, NoHash) /\ Rewrites(n, u, p)
  BY <1>1, <1>3 DEF Rewrites, AutomationStates, Workflows, Phases
<1>5. u \in AutomationStates /\ u.locks = n.locks /\ u.run = n.run
  BY <1>4 DEF Rewrites
<1>. HIDE DEF u
<1>6. LockStep(n, r, p, o)
  BY <1>1, <1>5, LockSteps
<1>7. SameButLocks(u, r) /\ r.run = u.run
  BY <1>5, LaneGivenBackIs
<1>8. \A k \in Keys : r.locks[k] = IF k \in LockKeys(p) /\ OwnedBy(n.locks[k], p, o) THEN Free ELSE n.locks[k]
  <2>1. \A k \in Keys : r.locks[k] = IF k \in LockKeys(p) /\ OwnedBy(u.locks[k], p, o) THEN Free ELSE u.locks[k]
    BY <1>5, LaneGivenBackIs
  <2>. QED BY <1>5, <2>1
<1>. HIDE DEF r
<1>9. r.add[p] = IdleAdd /\ r.sub = n.sub /\ r.done = n.done
      /\ r.wf[p].phase = "active" /\ r.wf[p].owner = Nobody
  BY <1>4, <1>7 DEF SameButLocks, Workflow
<1>10. IdleAdd.phase = "idle" /\ IdleAdd.owner = Nobody
  BY DEF IdleAdd
<1>11. OtherReceiptsKept(n, r, p)
  BY <1>4, <1>5, <1>7 DEF OtherReceiptsKept, SameButLocks, Rewrites
<1>12. WithRights(n, r, p, o)
  BY <1>9, <1>10 DEF WithRights
<1>13. NeedsHold(r, p) <=> p \notin n.done /\ n.sub[p].phase \in MaybeSubmitted
  BY <1>9, <1>10 DEF NeedsHold, HeldWorkflowPhases
<1>14. NeedsHold(r, p) => NeedsHold(n, p)
  BY <1>13 DEF NeedsHold
<1>15. n.add[p].phase = "idle" /\ NeedsHold(n, p) => NeedsHold(r, p)
  BY <1>1, <1>13 DEF NeedsHold, WorkflowFits, HeldWorkflowPhases, MaybeSubmitted
<1>16. n.add[p].phase # "idle" => n.add[p].owner = o /\ n.add[p].owner # Nobody
  BY <1>1, NobodysNames DEF AddFits, MayTouch
<1>17. ASSUME NEW k \in Keys, r.locks[k].pid = p
       PROVE  r.locks[k] = n.locks[k] /\ n.add[p].phase = "idle"
  <2>1. ~(k \in LockKeys(p) /\ OwnedBy(n.locks[k], p, o)) /\ r.locks[k] = n.locks[k]
    BY <1>8, <1>17, NobodysNames
  <2>2. n.add[p].phase # "idle" => n.locks[k].owner = n.add[p].owner
    BY <1>1, <1>17, <2>1 DEF AddFits
  <2>3. n.locks[k].pid = p /\ k \in LockKeys(p)
    BY <1>1, <1>17, <2>1
  <2>. QED BY <1>16, <2>1, <2>2, <2>3 DEF OwnedBy
<1>18. ReceiptsFit(r, p)
  <2>1. AddFits(r, p)
    BY <1>9, <1>10 DEF AddFits
  <2>2. WorkflowFits(r, p)
    BY <1>9 DEF WorkflowFits
  <2>3. SubmissionFits(r, p)
    BY <1>1, <1>9, <1>10 DEF SubmissionFits
  <2>. QED BY <2>1, <2>2, <2>3 DEF ReceiptsFit
<1>19. Recorded(n, r, p)
  <2>1. \A k \in Keys : r.locks[k].pid = p /\ r.locks[k].hold => NeedsHold(r, p)
    BY <1>0, <1>15, <1>17
  <2>2. NeedsHold(r, p) => \A k \in LockKeys(p) : n.locks[k].pid = p
    BY <1>0, <1>14
  <2>. QED BY <1>18, <2>1, <2>2 DEF Recorded
<1>20. OwnStep(n, r, p, o)
  BY <1>6, <1>9, <1>11, <1>12, <1>19 DEF OwnStep
<1>21. r.locks[ProductKey(p)].owner \in {n.locks[ProductKey(p)].owner, Nobody}
  BY <1>8, KeyFacts, NobodysNames
<1>. QED BY <1>2, <1>9, <1>15, <1>16, <1>20, <1>21 DEF WithdrawnLeft

\* It keeps what the store asks for when the cart has nothing of the Add.
LEMMA WithdrawnGood ==
  ASSUME NEW n, FlowReady(n), NEW p \in Products, NEW o \in Owners,
         units \in [Products -> Nat], orders \in [Products -> Nat],
         NEW outcome \in {"canceled", "failed"}, MayTouch(n, p, o),
         n.add[p].owner = o => \/ n.add[p].phase = "reserved"
                               \/ units[p] = 0 /\ (ActionOf[p] = "review" /\ p \notin n.done => orders[p] = 0)
  PROVE  /\ GoodStep(n, MarkAddAction(n, p, o, outcome), p, o)
         /\ MarkAddAction(n, p, o, outcome).add[p] = IdleAdd
<1>. DEFINE r == MarkAddAction(n, p, o, outcome)
<1>1. WithdrawnLeft(n, r, p, o)
  BY WithdrawnStep DEF FlowReady
<1>. HIDE DEF r
<1>2. CartFits(n, p) /\ OrderFits(n, p) /\ units[p] \in Nat /\ orders[p] \in Nat /\ SubmissionFits(n, p)
  BY ReadyFacts DEF FlowReady, StoreFits
<1>3. n.add[p].phase = "idle" \/ n.add[p].phase = "reserved" \/ units[p] = 0
  BY <1>1 DEF WithdrawnLeft
<1>4. n.add[p].phase = "reserved" => n.sub[p].phase \notin MaybeSubmitted
  BY <1>2 DEF SubmissionFits
<1>5. n.add[p].phase = "reserved" => ~NeedsHold(n, p)
  BY <1>4, StoreFacts
<1>6. units[p] > 0 /\ p \notin n.done /\ NeedsHold(n, p) => NeedsHold(r, p)
  BY <1>1, <1>2, <1>3, <1>5 DEF WithdrawnLeft
<1>7. r.sub[p].phase \in MaybeSubmitted => units[p] = 0
  BY <1>1, <1>3, <1>4, StoreFacts DEF WithdrawnLeft
<1>8. ActionOf[p] = "checkout" /\ orders[p] > 0 /\ p \notin n.done => r.sub[p].phase \in MaybeSubmitted
  BY <1>1, <1>2 DEF OrderFits, WithdrawnLeft
<1>9. ActionOf[p] = "review" /\ orders[p] > 0 /\ p \notin n.done
        => n.add[p].phase \notin {"clicked", "confirmed"}
  BY <1>1, <1>2 DEF WithdrawnLeft
<1>10. StoreKept(n, r, p)
  BY <1>1, <1>6, <1>7, <1>8, <1>9 DEF StoreKept, WithdrawnLeft
<1>. QED BY <1>1, <1>10 DEF GoodStep, WithdrawnLeft, r

\* The user's click on a review that was handed off.
LEMMA ObservedStep ==
  ASSUME NEW n, Ready(n), NEW p \in Products, NEW o \in Owners, NEW h \in EvidenceHashes,
         CanMarkManualSubmit(n, p, o, h)
  PROVE  /\ OwnStep(n, MarkManualSubmit(n, p), p, o) /\ MarkManualSubmit(n, p).add = n.add
         /\ MarkManualSubmit(n, p).sub = n.sub /\ MarkManualSubmit(n, p).locks = n.locks
         /\ NeedsHold(n, p) => NeedsHold(MarkManualSubmit(n, p), p)
<1>. DEFINE r == MarkManualSubmit(n, p)
<1>1. Ready(n) /\ n \in AutomationStates /\ PlainLocks(n) /\ AddFits(n, p) /\ WorkflowFits(n, p)
      /\ SubmissionFits(n, p)
  BY ReadyFacts
<1>0. /\ NeedsHold(n, p) => \A k \in LockKeys(p) : n.locks[k].pid = p /\ n.locks[k].hold
      /\ \A k \in Keys : n.locks[k].pid = p /\ n.locks[k].hold => NeedsHold(n, p)
  BY <1>1, ReadyFacts
<1>2. n.wf[p].phase = "awaiting-manual-outcome" /\ n.add[p].phase = "confirmed"
  BY <1>1 DEF CanMarkManualSubmit, WorkflowFits
<1>3. /\ r.add = n.add /\ r.sub = n.sub /\ r.done = n.done /\ r.run = n.run /\ r.locks = n.locks
      /\ r.wf[p].phase = "manual-submit-observed" /\ r.wf[p].owner = n.wf[p].owner
      /\ \A q \in Products \ {p} : r.wf[q] = n.wf[q]
  <2>1. n.wf \in [Products -> Workflows]
    BY <1>1, FieldTypes
  <2>2. r.wf = [n.wf EXCEPT ![p].phase = "manual-submit-observed"]
        /\ r.add = n.add /\ r.sub = n.sub /\ r.done = n.done /\ r.run = n.run /\ r.locks = n.locks
    BY <1>1 DEF MarkManualSubmit, AutomationStates
  <2>. HIDE DEF r
  <2>. QED BY <2>1, <2>2 DEF Workflows
<1>. HIDE DEF r
<1>4. LockStep(n, r, p, o) /\ OtherReceiptsKept(n, r, p) /\ WithRights(n, r, p, o)
  BY <1>3 DEF LockStep, OtherReceiptsKept, WithRights
<1>5. NeedsHold(n, p) <=> NeedsHold(r, p)
  BY <1>2, <1>3 DEF NeedsHold
<1>6. ReceiptsFit(r, p)
  BY <1>1, <1>2, <1>3 DEF ReceiptsFit, AddFits, WorkflowFits, SubmissionFits
<1>7. Recorded(n, r, p)
  BY <1>0, <1>3, <1>5, <1>6 DEF Recorded
<1>8. OwnStep(n, r, p, o)
  BY <1>3, <1>4, <1>7 DEF OwnStep
<1>. QED BY <1>3, <1>5, <1>8 DEF r

\* It keeps what the store asks for.
LEMMA ObservedGood ==
  ASSUME NEW n, FlowReady(n), NEW p \in Products, NEW o \in Owners, NEW h \in EvidenceHashes,
         units \in [Products -> Nat], orders \in [Products -> Nat],
         CanMarkManualSubmit(n, p, o, h)
  PROVE  /\ GoodStep(n, MarkManualSubmit(n, p), p, o) /\ MarkManualSubmit(n, p).add = n.add
<1>1. /\ OwnStep(n, MarkManualSubmit(n, p), p, o) /\ MarkManualSubmit(n, p).add = n.add
      /\ MarkManualSubmit(n, p).sub = n.sub /\ MarkManualSubmit(n, p).locks = n.locks
      /\ NeedsHold(n, p) => NeedsHold(MarkManualSubmit(n, p), p)
  BY ObservedStep DEF FlowReady
<1>2. StoreKept(n, MarkManualSubmit(n, p), p)
  BY <1>1, SameReceiptsKept
<1>. QED BY <1>1, <1>2 DEF GoodStep

\* The store has shown that it rejected the order.
LEMMA RejectedStep ==
  ASSUME NEW n, Ready(n), NEW p \in Products, NEW o \in Owners,
         CanMarkSubmission(n, p, o, "failed"),
         n.add[p].owner # o \/ n.add[p].phase \notin {"reserved", "clicked"}
  PROVE  /\ OwnStep(n, MarkSubmission(n, p, o, "failed"), p, o)
         /\ MarkSubmission(n, p, o, "failed").add = n.add
         /\ MarkSubmission(n, p, o, "failed").sub[p].phase \notin MaybeSubmitted
         /\ \/ n.add[p].phase = "confirmed" /\ NeedsHold(MarkSubmission(n, p, o, "failed"), p)
            \/ n.add[p].phase \in {"idle", "reserved"}
<1>1. Ready(n) /\ n \in AutomationStates /\ PlainLocks(n) /\ AddFits(n, p) /\ WorkflowFits(n, p)
      /\ SubmissionFits(n, p) /\ (p \in n.done => n.add[p] = IdleAdd)
      /\ \A k \in Keys : n.locks[k].pid = p => k \in LockKeys(p)
  BY ReadyFacts
<1>2. LaneMine(n, p, o)
  BY DEF CanMarkSubmission, LaneMine
<1>3. IdleAdd.phase = "idle"
  BY DEF IdleAdd
<1>4. CASE n.add[p].phase = "confirmed"
  <2>. DEFINE u == [n EXCEPT !.sub[p] = IdleSubmission,
                             !.wf[p] = Workflow("cart-confirmed", o, NoHash)]
  <2>1. Workflow("cart-confirmed", o, NoHash) \in Workflows /\ IdleSubmission \in Submissions
    BY ReceiptValues DEF WorkflowPhases, HeldWorkflowPhases
  <2>2. u \in AutomationStates
    BY <1>1, <2>1, RemarkType
  <2>3. u.add = n.add /\ u.sub[p] = IdleSubmission /\ u.done = n.done
        /\ u.wf[p] = Workflow("cart-confirmed", o, NoHash) /\ Rewrites(n, u, p)
    BY <1>1, <2>2 DEF Rewrites, AutomationStates
  <2>4. MarkSubmission(n, p, o, "failed") = Held(u, p)
    BY <1>4 DEF MarkSubmission
  <2>. HIDE DEF u
  <2>5. u.wf[p].phase = "cart-confirmed" /\ u.wf[p].owner = o /\ u.sub[p].phase = "idle"
    BY <2>3 DEF Workflow, IdleSubmission
  <2>6. p \notin n.done /\ NeedsHold(n, p)
    BY <1>1, <1>3, <1>4 DEF NeedsHold
  <2>7. OwnsLane(n, p, o)
    BY <1>1, <1>2, <2>6, LaneOfReceipt
  <2>8. NeedsHold(u, p) /\ WorkflowFits(u, p) /\ u.sub[p].phase \notin MaybeSubmitted
    BY <1>4, <2>3, <2>5, <2>6 DEF NeedsHold, WorkflowFits, MaybeSubmitted
  <2>9. u.add[p].phase # "idle" /\ u.add[p].owner = o /\ u.wf[p].owner = o /\ ActionOf[p] # "watch"
    BY <1>1, <1>4, <2>3, <2>5, <2>7, OwnersAdd
  <2>10. OwnStep(n, Held(u, p), p, o) /\ SameButLocks(u, Held(u, p)) /\ NeedsHold(Held(u, p), p)
         /\ \A k \in LockKeys(p) : Held(u, p).locks[k] = Lock(p, o, TRUE)
    BY <1>1, <2>3, <2>7, <2>8, <2>9, HeldStep
  <2>. QED BY <1>4, <2>3, <2>4, <2>8, <2>10 DEF SameButLocks
<1>5. CASE n.add[p].phase # "confirmed"
  <2>. DEFINE u == [n EXCEPT !.sub[p] = [phase |-> "explicitly-failed", hash |-> NoHash],
                             !.wf[p] = Workflow("explicitly-failed", o, NoHash)]
              r == LosesLocks(u, p)
  <2>1. /\ Workflow("explicitly-failed", o, NoHash) \in Workflows
        /\ [phase |-> "explicitly-failed", hash |-> NoHash] \in Submissions
    BY ReceiptValues DEF WorkflowPhases, TerminalWorkflowPhases, Submissions, SubmissionPhases
  <2>2. u \in AutomationStates
    BY <1>1, <2>1, RemarkType
  <2>3. u.add = n.add /\ u.sub[p].phase = "explicitly-failed" /\ u.done = n.done
        /\ u.wf[p] = Workflow("explicitly-failed", o, NoHash) /\ Rewrites(n, u, p)
    BY <1>1, <2>2 DEF Rewrites, AutomationStates
  <2>4. MarkSubmission(n, p, o, "failed") = r
    BY <1>5 DEF MarkSubmission
  <2>5. u.locks = n.locks /\ u.run = n.run
    BY <2>3 DEF Rewrites
  <2>. HIDE DEF u
  <2>6. LockStep(n, r, p, o)
    BY <1>1, <1>2, <2>2, <2>5, LockSteps
  <2>7. SameButLocks(u, r) /\ r.run = u.run
    BY <2>2, LosesLocksIs
  <2>8. \A k \in Keys : r.locks[k] = IF n.locks[k].pid = p THEN Free ELSE n.locks[k]
    <3>1. \A k \in Keys : r.locks[k] = IF u.locks[k].pid = p THEN Free ELSE u.locks[k]
      BY <2>2, LosesLocksIs
    <3>. QED BY <2>5, <3>1
  <2>. HIDE DEF r
  <2>9. \A k \in Keys : r.locks[k].pid # p
    BY <2>8, NobodysNames
  <2>10. r.add = n.add /\ r.sub[p].phase = "explicitly-failed" /\ r.done = n.done
         /\ r.wf[p].phase = "explicitly-failed"
    BY <2>3, <2>7 DEF SameButLocks, Workflow
  <2>11. n.add[p].phase # "clicked"
    <3>. SUFFICES ASSUME n.add[p].phase = "clicked" PROVE FALSE
      OBVIOUS
    <3>1. NeedsHold(n, p)
      BY <1>1, <1>3 DEF NeedsHold
    <3>2. OwnsLane(n, p, o)
      BY <1>1, <1>2, <3>1, LaneOfReceipt
    <3>. QED BY <1>1, <3>2, OwnersAdd
  <2>12. n.add[p].phase \in {"idle", "reserved"}
    <3>1. n.add[p].phase \in AddPhases
      BY <1>1, FieldTypes DEF Phases
    <3>. QED BY <1>5, <2>11, <3>1 DEF AddPhases
  <2>13. n.add[p].phase = "reserved" => r.locks[ProductKey(p)] = Free
    <3>1. ProductKey(p) \in LockKeys(p) /\ ProductKey(p) \in Keys
      BY KeyFacts
    <3>2. n.locks[ProductKey(p)] = Free \/ n.locks[ProductKey(p)].pid = p
      BY <1>2, <3>1 DEF LaneMine, OwnedBy
    <3>. QED BY <2>8, <3>1, <3>2, NobodysNames
  <2>14. ReceiptsFit(r, p)
    <3>1. AddFits(r, p)
      BY <1>1, <2>9, <2>10, <2>12, <2>13 DEF AddFits
    <3>2. WorkflowFits(r, p) /\ SubmissionFits(r, p)
      BY <2>10 DEF WorkflowFits, SubmissionFits, MaybeSubmitted
    <3>. QED BY <3>1, <3>2 DEF ReceiptsFit
  <2>15. ~NeedsHold(r, p)
    BY <2>10, <2>12 DEF NeedsHold, HeldWorkflowPhases, MaybeSubmitted
  <2>16. Recorded(n, r, p)
    BY <2>9, <2>14, <2>15 DEF Recorded
  <2>17. OtherReceiptsKept(n, r, p) /\ WithRights(n, r, p, o)
    BY <1>2, <2>3, <2>5, <2>7, <2>10 DEF OtherReceiptsKept, WithRights, SameButLocks, Rewrites
  <2>18. OwnStep(n, r, p, o)
    BY <2>6, <2>10, <2>16, <2>17 DEF OwnStep
  <2>. QED BY <2>4, <2>10, <2>12, <2>18 DEF MaybeSubmitted
<1>. QED BY <1>4, <1>5

\* It keeps what the store asks for, which has no order.
LEMMA RejectedGood ==
  ASSUME NEW n, FlowReady(n), NEW p \in Products, NEW o \in Owners,
         units \in [Products -> Nat], orders \in [Products -> Nat],
         CanMarkSubmission(n, p, o, "failed"),
         n.add[p].owner # o \/ n.add[p].phase \notin {"reserved", "clicked"},
         ActionOf[p] = "checkout" /\ p \notin n.done => orders[p] = 0
  PROVE  /\ GoodStep(n, MarkSubmission(n, p, o, "failed"), p, o)
         /\ MarkSubmission(n, p, o, "failed").add = n.add
<1>. DEFINE r == MarkSubmission(n, p, o, "failed")
<1>1. /\ OwnStep(n, r, p, o) /\ r.add = n.add /\ r.sub[p].phase \notin MaybeSubmitted
      /\ \/ n.add[p].phase = "confirmed" /\ NeedsHold(r, p)
         \/ n.add[p].phase \in {"idle", "reserved"}
  BY RejectedStep DEF FlowReady
<1>. HIDE DEF r
<1>2. SubmissionFits(n, p)
  BY ReadyFacts DEF FlowReady
<1>3. ~(ActionOf[p] = "checkout" /\ orders[p] > 0 /\ p \notin n.done)
  OBVIOUS
<1>4. units[p] > 0 /\ p \notin n.done /\ NeedsHold(n, p) => NeedsHold(r, p)
  <2>1. CASE n.add[p].phase = "confirmed" /\ NeedsHold(r, p)
    BY <2>1
  <2>2. CASE n.add[p].phase \in {"idle", "reserved"}
    <3>1. n.sub[p].phase \in MaybeSubmitted => n.add[p].phase = "idle"
      BY <1>2, <2>2 DEF SubmissionFits
    <3>2. NeedsHold(n, p) => units[p] = 0
      BY <2>2, <3>1, StoreFacts
    <3>. QED BY <3>2
  <2>. QED BY <1>1, <2>1, <2>2
<1>5. StoreKept(n, r, p)
  BY <1>1, <1>3, <1>4 DEF StoreKept
<1>. QED BY <1>1, <1>5 DEF GoodStep, r

\* The operator gives up a mission that he found to have no order.
LEMMA ResolveStep ==
  ASSUME NEW n, Ready(n), NEW p \in Products, NEW o \in Owners, CanResolve(n, p, o)
  PROVE  /\ OwnStep(n, Resolve(n, p, o), p, o)
         /\ Resolve(n, p, o).add[p] = IdleAdd /\ Resolve(n, p, o).sub[p].phase = "abandoned"
         /\ Resolve(n, p, o).done = n.done /\ Resolve(n, p, o).run = n.run
<1>. DEFINE u == [n EXCEPT !.wf[p] = Workflow("abandoned", "operator", NoHash),
                           !.sub[p] = [phase |-> "abandoned", hash |-> NoHash],
                           !.add[p] = IdleAdd]
            r == LaneGivenBack(u, p, o)
<1>1. n \in AutomationStates /\ PlainLocks(n) /\ AddFits(n, p) /\ OwnsLane(n, p, o)
      /\ \A k \in Keys : n.locks[k].pid = p => k \in LockKeys(p)
  BY ReadyFacts DEF CanResolve
<1>2. Resolve(n, p, o) = r
  BY DEF Resolve
<1>3. /\ Workflow("abandoned", "operator", NoHash) \in Workflows /\ IdleAdd \in Phases
      /\ [phase |-> "abandoned", hash |-> NoHash] \in Submissions
  BY ReceiptValues DEF WorkflowPhases, TerminalWorkflowPhases, Submissions, SubmissionPhases
<1>4. u.add[p] = IdleAdd /\ u.sub[p] = [phase |-> "abandoned", hash |-> NoHash] /\ u.done = n.done
      /\ u.wf[p] = Workflow("abandoned", "operator", NoHash) /\ Rewrites(n, u, p)
  BY <1>1, <1>3 DEF Rewrites, AutomationStates, Workflows, Phases, Submissions
<1>5. u \in AutomationStates /\ u.locks = n.locks /\ u.run = n.run
  BY <1>4 DEF Rewrites
<1>. HIDE DEF u
<1>6. LockStep(n, r, p, o)
  BY <1>1, <1>5, LockSteps
<1>7. SameButLocks(u, r) /\ r.run = u.run
  BY <1>5, LaneGivenBackIs
<1>8. \A k \in Keys : r.locks[k] = IF k \in LockKeys(p) /\ OwnedBy(n.locks[k], p, o) THEN Free ELSE n.locks[k]
  <2>1. \A k \in Keys : r.locks[k] = IF k \in LockKeys(p) /\ OwnedBy(u.locks[k], p, o) THEN Free ELSE u.locks[k]
    BY <1>5, LaneGivenBackIs
  <2>. QED BY <1>5, <2>1
<1>. HIDE DEF r
<1>9. r.add[p] = IdleAdd /\ r.sub[p].phase = "abandoned" /\ r.done = n.done
      /\ r.wf[p].phase = "abandoned"
  BY <1>4, <1>7 DEF SameButLocks, Workflow
<1>10. IdleAdd.phase = "idle" /\ IdleAdd.owner = Nobody
  BY DEF IdleAdd
<1>11. \A k \in Keys : r.locks[k].pid # p
  BY <1>1, <1>8, NobodysNames DEF OwnsLane
<1>12. ~NeedsHold(r, p)
  BY <1>9, <1>10 DEF NeedsHold, HeldWorkflowPhases, MaybeSubmitted
<1>13. ReceiptsFit(r, p)
  BY <1>9, <1>10 DEF ReceiptsFit, AddFits, WorkflowFits, SubmissionFits, MaybeSubmitted
<1>14. Recorded(n, r, p)
  BY <1>11, <1>12, <1>13 DEF Recorded
<1>15. LaneMine(n, p, o) /\ MayTouch(n, p, o)
  <2>1. MayTouch(n, p, o)
    BY DEF CanResolve, MayTouch
  <2>. QED BY <1>1, <2>1 DEF LaneMine, OwnsLane
<1>16. OtherReceiptsKept(n, r, p) /\ WithRights(n, r, p, o)
  BY <1>4, <1>5, <1>7, <1>9, <1>10, <1>15 DEF OtherReceiptsKept, WithRights, SameButLocks, Rewrites
<1>17. OwnStep(n, r, p, o)
  BY <1>6, <1>9, <1>14, <1>16 DEF OwnStep
<1>. QED BY <1>2, <1>5, <1>7, <1>9, <1>17 DEF r

--------------------------------------------------------------------------------
(* Completion *)

\* What the completion of a mission writes.
CompletionWrites(n, m, q) ==
  /\ m \in AutomationStates /\ m.run = n.run /\ m.done = n.done \cup {q}
  /\ \A k \in Keys : m.locks[k] = IF n.locks[k].pid = q THEN Free ELSE n.locks[k]
  /\ m.add[q] = IdleAdd /\ m.sub[q].phase \notin MaybeSubmitted /\ m.wf[q].phase = "confirmed"
  /\ \A p \in Products \ {q} : m.add[p] = n.add[p] /\ m.sub[p] = n.sub[p] /\ m.wf[p] = n.wf[p]

\* Completing q writes just that.
LEMMA CompleteIs ==
  ASSUME NEW n, Ready(n), NEW q \in Products
  PROVE  CompletionWrites(n, Complete(n, q), q)
<1>. DEFINE u == IF ActionOf[q] = "checkout" THEN [n EXCEPT !.sub[q].phase = "confirmed"] ELSE n
            v == MarkDone(u, q)
            m == Complete(n, q)
<1>1. n \in AutomationStates /\ SubmissionFits(n, q)
  BY ReadyFacts
<1>2. m = LosesLocks(v, q)
  BY DEF Complete
<1>3. u \in AutomationStates /\ u.locks = n.locks /\ u.run = n.run /\ u.done = n.done /\ u.add = n.add
      /\ u.wf = n.wf /\ u.sub[q].phase \notin MaybeSubmitted
      /\ \A p \in Products \ {q} : u.sub[p] = n.sub[p]
  <2>1. CASE ActionOf[q] = "checkout"
    <3>1. u = [n EXCEPT !.sub[q].phase = "confirmed"]
      BY <2>1
    <3>2. n.sub \in [Products -> Submissions] /\ [n.sub[q] EXCEPT !.phase = "confirmed"] \in Submissions
          /\ [n.sub[q] EXCEPT !.phase = "confirmed"].phase = "confirmed"
      BY <1>1, FieldTypes DEF Submissions, SubmissionPhases
    <3>3. [n.sub EXCEPT ![q] = [n.sub[q] EXCEPT !.phase = "confirmed"]] \in [Products -> Submissions]
      BY <3>2
    <3>4. u = [n EXCEPT !.sub = [n.sub EXCEPT ![q] = [n.sub[q] EXCEPT !.phase = "confirmed"]]]
      BY <1>1, <3>1 DEF AutomationStates
    <3>5. u \in AutomationStates
      BY <1>1, <3>3, <3>4 DEF AutomationStates, Submissions
    <3>6. u.locks = n.locks /\ u.run = n.run /\ u.done = n.done /\ u.add = n.add
          /\ u.wf = n.wf /\ u.sub = [n.sub EXCEPT ![q] = [n.sub[q] EXCEPT !.phase = "confirmed"]]
      BY <1>1, <3>4 DEF AutomationStates
    <3>. HIDE DEF u
    <3>. QED BY <3>2, <3>5, <3>6 DEF MaybeSubmitted
  <2>2. CASE ActionOf[q] # "checkout"
    BY <1>1, <2>2 DEF SubmissionFits
  <2>. QED BY <2>1, <2>2
<1>. HIDE DEF u
<1>4. v \in AutomationStates
  BY <1>3, CompletionTypes
<1>5. v.locks = u.locks /\ v.run = u.run /\ v.done = u.done \cup {q} /\ v.add[q] = IdleAdd
      /\ v.sub = u.sub /\ v.wf[q].phase = "confirmed"
      /\ \A p \in Products \ {q} : v.add[p] = u.add[p] /\ v.wf[p] = u.wf[p]
  <2>1. u.wf \in [Products -> Workflows]
    BY <1>3, FieldTypes
  <2>2. v.wf = [u.wf EXCEPT ![q].phase = "confirmed"] /\ v.add = [u.add EXCEPT ![q] = IdleAdd]
        /\ v.locks = u.locks /\ v.run = u.run /\ v.done = u.done \cup {q} /\ v.sub = u.sub
    BY <1>3 DEF MarkDone, AutomationStates
  <2>3. u.add \in [Products -> Phases]
    BY <1>3, FieldTypes
  <2>. HIDE DEF v
  <2>. QED BY <2>1, <2>2, <2>3 DEF Workflows
<1>. HIDE DEF v
<1>6. \A k \in Keys : LosesLocks(v, q).locks[k] = IF v.locks[k].pid = q THEN Free ELSE v.locks[k]
  BY <1>4, LosesLocksIs
<1>7. SameButLocks(v, LosesLocks(v, q)) /\ LosesLocks(v, q).run = v.run
  BY <1>4, LosesLocksIs
<1>8. m \in AutomationStates
  BY <1>1, CompletionTypes
<1>. HIDE DEF m
<1>9. \A k \in Keys : m.locks[k] = IF n.locks[k].pid = q THEN Free ELSE n.locks[k]
  BY <1>2, <1>3, <1>5, <1>6
<1>10. CompletionWrites(n, m, q)
  BY <1>2, <1>3, <1>5, <1>7, <1>8, <1>9 DEF CompletionWrites, SameButLocks
<1>. QED BY <1>10 DEF m

\* What it leaves alone.
LEMMA CompletionKeeps ==
  ASSUME NEW n, Ready(n), NEW q \in Products, NEW m, CompletionWrites(n, m, q)
  PROVE  /\ \A p \in Products : NeedsHold(m, p) <=> p # q /\ NeedsHold(n, p)
         /\ \A k \in Keys : m.locks[k] = Free \/ (m.locks[k] = n.locks[k] /\ n.locks[k].pid # q)
         /\ \A k \in Keys, p \in Products \ {q} : n.locks[k].pid = p => m.locks[k] = n.locks[k]
         /\ \A p \in Products \ {q} : m.locks[ProductKey(p)] = n.locks[ProductKey(p)]
<1>1. \A p \in Products : NeedsHold(m, p) <=> p # q /\ NeedsHold(n, p)
  <2>. SUFFICES ASSUME NEW p \in Products PROVE NeedsHold(m, p) <=> p # q /\ NeedsHold(n, p)
    OBVIOUS
  <2>1. CASE p = q
    BY <2>1 DEF CompletionWrites, NeedsHold
  <2>2. CASE p # q
    BY <2>2 DEF CompletionWrites, NeedsHold
  <2>. QED BY <2>1, <2>2
<1>2. \A k \in Keys : m.locks[k] = IF n.locks[k].pid = q THEN Free ELSE n.locks[k]
  BY DEF CompletionWrites
<1>3. ASSUME NEW p \in Products \ {q} PROVE m.locks[ProductKey(p)] = n.locks[ProductKey(p)]
  <2>1. ProductKey(p) \in Keys /\ ProductKey(p) \notin LockKeys(q)
    BY KeyFacts
  <2>2. n.locks[ProductKey(p)].pid # q
    BY <2>1, ReadyFacts
  <2>. QED BY <1>2, <2>1, <2>2
<1>. QED BY <1>1, <1>2, <1>3

\* It keeps the lane safe and ready.
LEMMA CompletionSafe ==
  ASSUME NEW n, Ready(n), NEW q \in Products, NEW m, CompletionWrites(n, m, q)
  PROVE  LaneSafe(m) /\ LaneReady(m)
<1>1. /\ \A p \in Products : NeedsHold(m, p) <=> p # q /\ NeedsHold(n, p)
      /\ \A k \in Keys : m.locks[k] = Free \/ (m.locks[k] = n.locks[k] /\ n.locks[k].pid # q)
      /\ \A k \in Keys, p \in Products \ {q} : n.locks[k].pid = p => m.locks[k] = n.locks[k]
      /\ \A p \in Products \ {q} : m.locks[ProductKey(p)] = n.locks[ProductKey(p)]
  BY CompletionKeeps
<1>2. LaneSafe(n) /\ LaneReady(n)
  BY DEF Ready
<1>3. PlainLocks(m)
  BY <1>1, <1>2, NobodysNames DEF LaneSafe, PlainLocks
<1>4. HoldsExplained(m)
  <2>. SUFFICES ASSUME NEW k \in Keys, m.locks[k].hold PROVE NeedsHold(m, m.locks[k].pid)
    BY DEF HoldsExplained
  <2>1. m.locks[k] = n.locks[k] /\ n.locks[k].pid # q /\ n.locks[k] # Free
    BY <1>1, NobodysNames
  <2>2. n.locks[k].pid \in Products /\ NeedsHold(n, n.locks[k].pid)
    BY <1>2, <2>1 DEF LaneSafe, PlainLocks, HoldsExplained
  <2>. QED BY <1>1, <2>1, <2>2
<1>5. NeedersApart(m)
  BY <1>1, <1>2 DEF LaneSafe, NeedersApart
<1>6. LaneReady(m)
  <2>. SUFFICES ASSUME NEW p \in Products, NeedsHold(m, p), NEW k \in LockKeys(p)
                PROVE  m.locks[k].pid = p /\ m.locks[k].hold
    BY DEF LaneReady
  <2>1. p # q /\ n.locks[k].pid = p /\ n.locks[k].hold /\ k \in Keys
    BY <1>1, <1>2, KeyFacts DEF LaneReady
  <2>. QED BY <1>1, <2>1
<1>7. LaneKept(m)
  BY <1>6 DEF LaneKept, LaneReady
<1>8. ASSUME NEW p \in Products PROVE ReceiptsFit(m, p)
  <2>1. CASE p = q
    <3>1. IdleAdd.phase = "idle"
      BY DEF IdleAdd
    <3>. QED BY <2>1, <3>1 DEF CompletionWrites, ReceiptsFit, AddFits, WorkflowFits, SubmissionFits
  <2>2. CASE p # q
    <3>1. ReceiptsFit(n, p)
      BY <1>2 DEF LaneSafe
    <3>2. m.add[p] = n.add[p] /\ m.sub[p] = n.sub[p] /\ m.wf[p] = n.wf[p]
      BY <2>2 DEF CompletionWrites
    <3>3. m.locks[ProductKey(p)] = n.locks[ProductKey(p)]
      BY <1>1, <2>2
    <3>4. \A k \in Keys : m.locks[k].pid = p => m.locks[k] = n.locks[k]
      BY <1>1, NobodysNames
    <3>. QED BY <3>1, <3>2, <3>3, <3>4, FitKept
  <2>. QED BY <2>1, <2>2
<1>. QED BY <1>3, <1>4, <1>5, <1>6, <1>7, <1>8 DEF LaneSafe

\* A mission that can be completed is past its click.
LEMMA CompletableIsPast ==
  ASSUME NEW n, Ready(n), NEW q \in Products, CanComplete(n, q), ActionOf[q] # "watch"
  PROVE  n.add[q].phase \in {"idle", "confirmed"}
<1>1. AddFits(n, q) /\ WorkflowFits(n, q) /\ SubmissionFits(n, q)
  BY ReadyFacts
<1>2. ActionOf[q] \in {"cart", "review", "checkout"}
  BY ConfigAssumption
<1>3. CASE ActionOf[q] = "cart"
  BY <1>3 DEF CanComplete
<1>4. CASE ActionOf[q] = "checkout"
  BY <1>1, <1>4 DEF CanComplete, SubmissionFits
<1>5. CASE ActionOf[q] = "review"
  BY <1>1, <1>5 DEF CanComplete, SubmissionFits, WorkflowFits, HeldWorkflowPhases, MaybeSubmitted
<1>. QED BY <1>2, <1>3, <1>4, <1>5

\* It disturbs no tab.
LEMMA CompletionTabs ==
  ASSUME NEW n, FlowReady(n), NEW q \in Products, CanComplete(n, q), ActionOf[q] # "watch",
         orders \in [Products -> Nat],
         ActionOf[q] \in {"review", "checkout"} => orders[q] > 0,
         NEW m, CompletionWrites(n, m, q), NEW t \in Owners
  PROVE  TabFits(m, t)
<1>. DEFINE p == PageOf[t]
<1>1. p \in Products /\ TabFits(n, t) /\ Ready(n) /\ t # Nobody
  BY NobodysNames DEF FlowReady
<1>2. CASE p = q
  <2>1. ~Authorized(t)
    <3>1. n.add[q].phase # "reserved"
      BY <1>1, CompletableIsPast
    <3>. QED BY <1>1, <1>2, <3>1 DEF TabFits, ClickFits
  <2>2. page[t] # "intent"
    <3>1. page[t] = "intent" => ActionOf[q] = "checkout" /\ orders[q] = 0
      BY <1>1, <1>2 DEF TabFits, SubmitFits
    <3>. QED BY <3>1
  <2>3. m.add[p].owner = Nobody
    BY <1>2 DEF CompletionWrites, IdleAdd
  <2>4. page[t] = "authorized" => Authorized(t)
    BY DEF Authorized
  <2>5. ClickFits(m, t)
    BY <2>1, <2>4 DEF ClickFits
  <2>. QED BY <1>1, <2>2, <2>3, <2>5 DEF TabFits, SubmitFits, AddIsWhere, ReportFits
<1>3. CASE p # q
  <2>1. m.add[p] = n.add[p] /\ m.sub[p] = n.sub[p] /\ m.wf[p] = n.wf[p] /\ (p \in m.done <=> p \in n.done)
    BY <1>1, <1>3 DEF CompletionWrites
  <2>2. \A k \in LockKeys(p) : n.locks[k].pid = p => m.locks[k] = n.locks[k]
    BY <1>1, <1>3, CompletionKeeps, KeyFacts
  <2>3. ClickFits(m, t)
    BY <1>1, <2>1, <2>2 DEF TabFits, ClickFits, OwnsLane, OwnedBy
  <2>4. SubmitFits(m, t)
    <3>1. Lock(p, t, TRUE).pid = p
      BY DEF Lock, Free
    <3>. QED BY <1>1, <2>1, <2>2, <3>1 DEF TabFits, SubmitFits
  <2>5. AddIsWhere(m, t) /\ ReportFits(m, t)
    BY <1>1, <2>1 DEF TabFits, AddIsWhere, ReportFits
  <2>. QED BY <2>3, <2>4, <2>5 DEF TabFits
<1>. QED BY <1>2, <1>3

\* Nor what the store has.
LEMMA CompletionStore ==
  ASSUME NEW n, FlowReady(n), NEW q \in Products, CanComplete(n, q), ActionOf[q] # "watch",
         orders \in [Products -> Nat],
         ActionOf[q] \in {"review", "checkout"} => orders[q] > 0,
         NEW m, CompletionWrites(n, m, q), NEW p \in Products
  PROVE  StoreFits(m, p)
<1>1. StoreFits(n, p) /\ Ready(n)
  BY DEF FlowReady
<1>2. CASE p = q
  <2>1. q \in m.done /\ m.sub[q].phase \notin MaybeSubmitted /\ m.add[q].phase = "idle"
    BY DEF CompletionWrites, IdleAdd
  <2>2. CartFits(m, p)
    BY <1>1, <1>2, <2>1 DEF StoreFits, CartFits
  <2>3. OrderFits(m, p)
    BY <1>1, <1>2, <2>1 DEF StoreFits, OrderFits
  <2>4. \A t \in Owners : m.add[p] # [phase |-> "reserved", owner |-> t]
    BY <1>2, <2>1
  <2>5. GivenUpFits(m, p)
    BY <1>1, <2>4 DEF StoreFits, GivenUpFits
  <2>. QED BY <2>2, <2>3, <2>5 DEF StoreFits
<1>3. CASE p # q
  <2>1. m.add[p] = n.add[p] /\ m.sub[p] = n.sub[p] /\ m.wf[p] = n.wf[p] /\ (p \in m.done <=> p \in n.done)
    BY <1>3 DEF CompletionWrites
  <2>2. m.locks[ProductKey(p)] = n.locks[ProductKey(p)] /\ (NeedsHold(m, p) <=> NeedsHold(n, p))
    BY <1>1, <1>3, CompletionKeeps
  <2>3. CartFits(m, p)
    BY <1>1, <2>1, <2>2 DEF StoreFits, CartFits
  <2>4. OrderFits(m, p)
    BY <1>1, <2>1, <2>2 DEF StoreFits, OrderFits
  <2>5. GivenUpFits(m, p)
    BY <1>1, <2>1 DEF StoreFits, GivenUpFits
  <2>. QED BY <2>3, <2>4, <2>5 DEF StoreFits
<1>. QED BY <1>2, <1>3

\* A mission completed when the store has accepted its order leaves everything
\* as a handler may find it.
LEMMA CompletionReady ==
  ASSUME NEW n, FlowReady(n), Guarded(n), NEW q \in Products, CanComplete(n, q),
         ActionOf[q] # "watch", orders \in [Products -> Nat],
         ActionOf[q] \in {"review", "checkout"} => orders[q] > 0
  PROVE  FlowReady(Complete(n, q)) /\ CompletionWrites(n, Complete(n, q), q)
<1>. DEFINE m == Complete(n, q)
<1>1. Ready(n) /\ StateInv(n) /\ n.run = config.run
  BY DEF FlowReady, Ready
<1>2. CompletionWrites(n, m, q)
  BY <1>1, CompleteIs
<1>3. StateInv(m)
  BY <1>1, CompleteInv
<1>. HIDE DEF m
<1>4. LaneSafe(m) /\ LaneReady(m)
  BY <1>1, <1>2, CompletionSafe
<1>5. \A t \in Owners : TabFits(m, t)
  BY <1>2, CompletionTabs
<1>6. \A p \in Products : StoreFits(m, p)
  BY <1>2, CompletionStore
<1>7. m.run = config.run
  BY <1>1, <1>2 DEF CompletionWrites
<1>8. FlowReady(m)
  BY <1>3, <1>4, <1>5, <1>6, <1>7 DEF FlowReady, Ready
<1>. QED BY <1>2, <1>8 DEF m

\* So does the release of a cart-only mission's stranded hold.
LEMMA HealReady ==
  ASSUME NEW n, FlowReady(n), Guarded(n), NEW p \in Products, NEW o \in Owners,
         orders \in [Products -> Nat]
  PROVE  FlowReady(HealStrandedCartHold(n, p, o))
<1>1. CASE \E q \in Products : Strands(n, p, o, q)
  <2>. DEFINE q == CHOOSE q \in Products : Strands(n, p, o, q)
  <2>1. q \in Products /\ Strands(n, p, o, q)
    BY <1>1
  <2>2. HealStrandedCartHold(n, p, o) = Complete(n, q)
    BY <1>1 DEF HealStrandedCartHold
  <2>. HIDE DEF q
  <2>3. CanComplete(n, q) /\ ActionOf[q] = "cart"
    BY <2>1 DEF Strands
  <2>4. FlowReady(Complete(n, q))
    BY <2>1, <2>3, CompletionReady
  <2>. QED BY <2>2, <2>4
<1>2. CASE ~\E q \in Products : Strands(n, p, o, q)
  BY <1>2 DEF HealStrandedCartHold
<1>. QED BY <1>1, <1>2

--------------------------------------------------------------------------------
(* The claim of the lane and the reservation of the Add *)

\* A claim is a step from the state its healing leaves.
LEMMA ClaimedGood ==
  ASSUME NEW n, FlowReady(n), Guarded(n), NEW p \in Products, NEW o \in Owners,
         units \in [Products -> Nat], orders \in [Products -> Nat]
  PROVE  /\ FlowReady(HealStrandedCartHold(n, p, o))
         /\ GoodStep(HealStrandedCartHold(n, p, o), ClaimOutcome(n, p, o), p, o)
         /\ Claimed(n, p, o) => ClaimOutcome(n, p, o).add[p].phase \notin {"reserved", "clicked"}
<1>. DEFINE h == HealStrandedCartHold(n, p, o)
            r == ClaimOutcome(n, p, o)
<1>1. FlowReady(h)
  BY HealReady
<1>2. r = IF CanClaim(h, p, o) THEN Claim(h, p, o) ELSE h
  BY DEF ClaimOutcome
<1>3. Claimed(n, p, o) <=> CanClaim(h, p, o)
  BY DEF Claimed
<1>. HIDE DEF h, r
<1>4. Ready(h) /\ h \in AutomationStates /\ PlainLocks(h)
  BY <1>1, ReadyFacts DEF FlowReady
<1>5. CASE CanClaim(h, p, o)
  <2>1. GoodStep(h, Claim(h, p, o), p, o)
    BY <1>1, <1>5, ClaimGood
  <2>2. ClaimWrites(h, Claim(h, p, o), p, o)
    BY <1>4, ClaimIs
  <2>3. h.add[p].phase \notin {"reserved", "clicked"}
    BY <1>5 DEF CanClaim, ClaimableRecord
  <2>4. r = Claim(h, p, o)
    BY <1>2, <1>5
  <2>5. r.add[p].phase \notin {"reserved", "clicked"}
    BY <2>2, <2>3, <2>4 DEF ClaimWrites
  <2>. QED BY <1>1, <2>1, <2>4, <2>5 DEF h, r
<1>6. CASE ~CanClaim(h, p, o)
  <2>1. GoodStep(h, h, p, o)
    BY <1>1, ClaimGood
  <2>2. r = h
    BY <1>2, <1>6
  <2>. QED BY <1>1, <1>3, <1>6, <2>1, <2>2 DEF h, r
<1>. QED BY <1>5, <1>6

\* So is the preparation of an Add: what it claims it also reserves, or the
\* Add is confirmed already.
LEMMA PreparedGood ==
  ASSUME NEW n, FlowReady(n), Guarded(n), NEW p \in Products, NEW o \in Owners,
         ActionOf[p] # "watch", units \in [Products -> Nat], orders \in [Products -> Nat]
  PROVE  /\ GoodStep(HealStrandedCartHold(n, p, o), PrepareOutcome(n, p, o), p, o)
         /\ Prepared(n, p, o) => PrepareOutcome(n, p, o).add[p] = [phase |-> "reserved", owner |-> o]
<1>. DEFINE h == HealStrandedCartHold(n, p, o)
            c == ClaimOutcome(n, p, o)
            r == PrepareOutcome(n, p, o)
<1>1. FlowReady(h) /\ GoodStep(h, c, p, o)
  BY ClaimedGood
<1>2. CanClaim(h, p, o) => c = Claim(h, p, o)
  BY DEF ClaimOutcome
<1>3. Claimed(n, p, o) <=> CanClaim(h, p, o)
  BY DEF Claimed
<1>4. Prepared(n, p, o) <=> Claimed(n, p, o) /\ CanBeginAddAction(c, p, o)
  BY DEF Prepared
<1>5. r = IF Prepared(n, p, o) THEN BeginAddAction(c, p, o)
          ELSE IF Claimed(n, p, o) /\ CanRelease(c, p) THEN Release(c, p, o) ELSE c
  BY DEF PrepareOutcome
<1>. HIDE DEF h, c, r
<1>6. Ready(h) /\ h \in AutomationStates /\ PlainLocks(h)
  BY <1>1, ReadyFacts DEF FlowReady
<1>7. ASSUME CanClaim(h, p, o)
      PROVE  /\ c.add = h.add /\ OwnsLane(c, p, o)
             /\ h.add[p].phase = "idle" \/ h.add[p].phase = "confirmed"
  <2>1. ClaimWrites(h, c, p, o)
    BY <1>2, <1>6, <1>7, ClaimIs
  <2>2. Lock(p, o, FALSE).pid = p /\ Lock(p, o, FALSE).owner = o
    BY DEF Lock, Free
  <2>3. \A k \in LockKeys(p) : c.locks[k] = Lock(p, o, FALSE)
    BY <2>1, KeyFacts DEF ClaimWrites
  <2>4. OwnsLane(c, p, o)
    BY <2>2, <2>3 DEF OwnsLane, OwnedBy
  <2>5. h.add[p] = IdleAdd \/ h.add[p].phase = "confirmed"
    BY <1>6, <1>7, ClaimFinds
  <2>. QED BY <2>1, <2>4, <2>5 DEF ClaimWrites, IdleAdd
<1>8. CASE Prepared(n, p, o)
  <2>1. CanClaim(h, p, o) /\ CanBeginAddAction(c, p, o)
    BY <1>3, <1>4, <1>8
  <2>2. h.add[p].phase = "idle"
    BY <1>7, <2>1 DEF CanBeginAddAction
  <2>3. GoodStep(h, BeginAddAction(Claim(h, p, o), p, o), p, o)
    BY <1>1, <2>1, <2>2, ReserveGood
  <2>4. BeginAddAction(Claim(h, p, o), p, o).add[p] = [phase |-> "reserved", owner |-> o]
    BY <1>6, <2>1, <2>2, ReserveStep
  <2>5. r = BeginAddAction(Claim(h, p, o), p, o)
    BY <1>2, <1>5, <1>8, <2>1
  <2>. QED BY <2>3, <2>4, <2>5 DEF h, r
<1>9. CASE ~Prepared(n, p, o)
  <2>1. ~(Claimed(n, p, o) /\ CanRelease(c, p))
    <3>. SUFFICES ASSUME Claimed(n, p, o), CanRelease(c, p) PROVE FALSE
      OBVIOUS
    <3>1. CanClaim(h, p, o) /\ ~CanBeginAddAction(c, p, o)
      BY <1>3, <1>4, <1>9
    <3>. QED BY <1>7, <3>1 DEF CanBeginAddAction, CanRelease
  <2>2. r = c
    BY <1>5, <1>9, <2>1
  <2>. QED BY <1>1, <1>9, <2>2 DEF h, r
<1>. QED BY <1>8, <1>9

--------------------------------------------------------------------------------
(* From the handler's state to the invariant of the next state *)

\* A tab that a step does not move.
Unmoved(u) == page'[u] = page[u] /\ call'[u] = call[u] /\ verdict'[u] = verdict[u]

\* What holds of a tab on the new record holds of it after the step.
LEMMA TabUnmoved ==
  ASSUME NEW u, NEW r, Cur' = r, TabFits(r, u), Unmoved(u),
         units'[PageOf[u]] = units[PageOf[u]], orders'[PageOf[u]] = orders[PageOf[u]]
  PROVE  TabFits(Cur, u)'
<1>1. ClickFits(Cur, u)'
  BY DEF TabFits, ClickFits, Authorized, Unmoved
<1>2. SubmitFits(Cur, u)'
  BY DEF TabFits, SubmitFits, Unmoved
<1>3. AddIsWhere(Cur, u)'
  BY DEF TabFits, AddIsWhere, Unmoved
<1>4. ReportFits(Cur, u)'
  BY DEF TabFits, ReportFits, Unmoved
<1>. QED BY <1>1, <1>2, <1>3, <1>4 DEF TabFits

\* Its call still fits.
LEMMA CallUnmoved ==
  ASSUME NEW u, CallFits(u), Unmoved(u), config'.run = config.run
  PROVE  CallFits(u)'
BY DEF CallFits, Unmoved

\* A mission whose tabs, cart and orders a step does not move.
LEMMA StoreUnmoved ==
  ASSUME NEW q, NEW r, Cur' = r, StoreFits(r, q), \A u \in Owners : PageOf[u] = q => Unmoved(u),
         units'[q] = units[q], orders'[q] = orders[q], q \in abandoned' <=> q \in abandoned,
         config' = config
  PROVE  StoreFits(Cur, q)'
<1>1. Clicking(q)' <=> Clicking(q)
  BY DEF Clicking, ReceiptPending, Unmoved
<1>2. CartFits(Cur, q)'
  BY <1>1 DEF StoreFits, CartFits
<1>3. OrderFits(Cur, q)'
  <2>1. \A u \in Owners : PageOf[u] = q => verdict'[u] = verdict[u]
    BY DEF Unmoved
  <2>. QED BY <1>1, <2>1 DEF StoreFits, OrderFits
<1>4. GivenUpFits(Cur, q)'
  BY DEF StoreFits, GivenUpFits, Authorized, Unmoved
<1>. QED BY <1>2, <1>3, <1>4 DEF StoreFits

\* The reply to t's call takes it to the page x.
Answered(t, x) ==
  /\ page' = [page EXCEPT ![t] = x] /\ call' = [call EXCEPT ![t] = NoCall]
  /\ UNCHANGED <<verdict, units, orders, abandoned, config>>

\* What the page x may be after a step from m.
MayAnswer(m, r, t, x) ==
  /\ x \in Pages \ {"clicking"}
  /\ page[t] = "clicking" => r.add[PageOf[t]].phase = "clicked" /\ PageOf[t] \notin m.done
  /\ x = "authorized" => /\ call[t].op = "authorize" /\ call[t].config.active
                         /\ m.add[PageOf[t]] = [phase |-> "reserved", owner |-> t]

\* What the reply leaves of the store of t's own mission.
LEMMA AnsweredStore ==
  ASSUME FlowTypeOK, NEW t \in Owners, NEW p \in Products, PageOf[t] = p,
         NEW m, FlowReady(m), NEW r, GoodStep(m, r, p, t), Cur' = r,
         NEW x, Answered(t, x), MayAnswer(m, r, t, x)
  PROVE  StoreFits(Cur, p)'
<1>1. /\ page'[t] = x /\ call'[t] = NoCall
      /\ \A u \in Owners \ {t} : page'[u] = page[u] /\ call'[u] = call[u]
      /\ verdict' = verdict /\ units' = units /\ orders' = orders /\ abandoned' = abandoned /\ config' = config
  BY DEF Answered, FlowTypeOK
<1>2. OwnStep(m, r, p, t) /\ StoreKept(m, r, p) /\ r.done = m.done
  BY DEF GoodStep, OwnStep
<1>3. CartFits(m, p) /\ OrderFits(m, p) /\ GivenUpFits(m, p) /\ units[p] \in Nat /\ orders[p] \in Nat
  BY DEF FlowReady, StoreFits, FlowTypeOK
<1>4. x # "clicking"
  BY DEF MayAnswer
<1>5. Clicking(p) /\ page[t] # "clicking" => Clicking(p)'
  BY <1>1 DEF Clicking, ReceiptPending
<1>6. page[t] = "clicking" => r.add[p].phase = "clicked" /\ p \notin r.done /\ NeedsHold(r, p)
  BY <1>2 DEF MayAnswer, NeedsHold
<1>7. CartFits(Cur, p)'
  <2>1. units[p] > 0 /\ p \notin r.done => NeedsHold(r, p) \/ Clicking(p)'
    BY <1>2, <1>3, <1>5, <1>6 DEF CartFits, StoreKept
  <2>2. r.sub[p].phase \in MaybeSubmitted /\ r.add[p].phase = "idle" => units[p] = 0
    BY <1>2 DEF StoreKept
  <2>. QED BY <1>1, <1>3, <2>1, <2>2 DEF CartFits
<1>8. OrderFits(Cur, p)'
  <2>1. ActionOf[p] = "checkout" /\ orders[p] > 0 /\ p \notin r.done =>
          /\ r.sub[p].phase \in MaybeSubmitted
          /\ \A u \in Owners : PageOf[u] = p /\ r.locks[ProductKey(p)].owner = u => verdict[u] # "rejected"
    BY <1>2, <1>3, NobodysNames DEF OrderFits, StoreKept
  <2>2. ActionOf[p] = "review" /\ orders[p] > 0 /\ p \notin r.done =>
          r.add[p].phase \in {"clicked", "confirmed"} \/ Clicking(p)'
    BY <1>2, <1>3, <1>5, <1>6 DEF OrderFits, StoreKept
  <2>3. (ActionOf[p] \in {"cart", "watch"} => orders[p] = 0)
        /\ (p \in r.done /\ ActionOf[p] \in {"review", "checkout"} => orders[p] > 0)
    BY <1>2, <1>3 DEF OrderFits
  <2>. QED BY <1>1, <2>1, <2>2, <2>3 DEF OrderFits
<1>9. GivenUpFits(Cur, p)'
  <2>. SUFFICES ASSUME p \in abandoned
                PROVE  /\ ~config.active /\ units[p] = 0 /\ orders[p] = 0
                       /\ \A u \in Owners : PageOf[u] = p =>
                            /\ page'[u] \notin {"authorized", "clicking"}
                            /\ call'[u].op = "authorize" /\ r.add[p] = [phase |-> "reserved", owner |-> u]
                                 => ~call'[u].config.active
    BY <1>1 DEF GivenUpFits, Authorized
  <2>1. ~config.active /\ units[p] = 0 /\ orders[p] = 0
    BY <1>3 DEF GivenUpFits
  <2>2. ASSUME NEW u \in Owners, PageOf[u] = p
        PROVE  /\ page[u] \notin {"authorized", "clicking"}
               /\ call[u].op = "authorize" /\ m.add[p] = [phase |-> "reserved", owner |-> u]
                    => ~call[u].config.active
    BY <1>3, <2>2 DEF GivenUpFits, Authorized
  <2>3. ASSUME NEW u \in Owners, PageOf[u] = p
        PROVE  /\ page'[u] \notin {"authorized", "clicking"}
               /\ call'[u].op = "authorize" /\ r.add[p] = [phase |-> "reserved", owner |-> u]
                    => ~call'[u].config.active
    <3>1. CASE u = t
      <4>1. x # "authorized"
        BY <2>2, <3>1 DEF MayAnswer
      <4>2. NoCall.op # "authorize"
        BY DEF NoCall
      <4>. QED BY <1>1, <1>4, <3>1, <4>1, <4>2
    <3>2. CASE u # t
      <4>1. r.add[p] = [phase |-> "reserved", owner |-> u] => r.add[p] = m.add[p]
        BY <1>2, <3>2, NobodysNames DEF OwnStep, WithRights
      <4>. QED BY <1>1, <2>2, <2>3, <3>2, <4>1
    <3>. QED BY <3>1, <3>2
  <2>. QED BY <2>1, <2>3
<1>. QED BY <1>7, <1>8, <1>9 DEF StoreFits

\* And of everything but its page.
LEMMA AnsweredRest ==
  ASSUME FlowTypeOK, NEW t \in Owners, NEW p \in Products, PageOf[t] = p,
         NEW m, FlowReady(m), NEW r, GoodStep(m, r, p, t), Cur' = r,
         NEW x, Answered(t, x), MayAnswer(m, r, t, x)
  PROVE  /\ LaneSafe(r)
         /\ \A u \in Owners \ {t} : TabFits(Cur, u)'
         /\ \A q \in Products : StoreFits(Cur, q)'
<1>0. LaneSafe(m) /\ LaneReady(m) /\ OwnStep(m, r, p, t)
  BY DEF FlowReady, Ready, GoodStep
<1>1. LaneSafe(r)
  BY <1>0, OwnStepSafe
<1>2. \A u \in Owners \ {t} : Unmoved(u)
  BY DEF Answered, Unmoved, FlowTypeOK
<1>3. units' = units /\ orders' = orders /\ abandoned' = abandoned /\ config' = config
  BY DEF Answered
<1>4. ASSUME NEW u \in Owners \ {t} PROVE TabFits(Cur, u)'
  <2>1. TabFits(m, u) /\ PageOf[u] \in Products
    BY DEF FlowReady
  <2>2. TabFits(r, u)
    BY <1>0, <2>1, OwnStepTabs
  <2>. QED BY <1>2, <1>3, <2>2, TabUnmoved
<1>5. ASSUME NEW q \in Products PROVE StoreFits(Cur, q)'
  <2>1. CASE q = p
    BY <2>1, AnsweredStore
  <2>2. CASE q # p
    <3>1. StoreFits(m, q)
      BY DEF FlowReady
    <3>2. StoreFits(r, q)
      BY <1>0, <2>2, <3>1, OwnStepStore
    <3>3. \A u \in Owners : PageOf[u] = q => Unmoved(u)
      BY <1>2, <2>2
    <3>. QED BY <1>3, <3>2, <3>3, StoreUnmoved
  <2>. QED BY <2>1, <2>2
<1>. QED BY <1>1, <1>4, <1>5

\* What the page x asks of the record that the reply leaves.
PageFits(r, t, x) ==
  LET p == PageOf[t]
  IN /\ x = "authorized" =>
          /\ r.add[p] = [phase |-> "reserved", owner |-> t] /\ p \notin r.done
          /\ OwnsLane(r, p, t) /\ r.wf[p].owner = t /\ units[p] = 0 /\ orders[p] = 0
     /\ x = "intent" =>
          /\ r.sub[p].phase = "intent" /\ ActionOf[p] = "checkout" /\ p \notin r.done
          /\ orders[p] = 0 /\ \A k \in LockKeys(p) : r.locks[k] = Lock(p, t, TRUE)
     /\ x \in {"reserved", "withdrawn"} =>
          r.add[p].owner # t \/ r.add[p].phase \notin {"clicked", "confirmed"}
     /\ x \in {"summary", "handoff", "intent", "submitting", "submitted"} =>
          r.add[p].owner # t \/ r.add[p].phase \notin {"reserved", "clicked"}
     /\ x = "handoff" => ActionOf[p] = "review"

\* The page the reply leads to fits the new record.
LEMMA AnsweredTab ==
  ASSUME FlowTypeOK, NEW t \in Owners, NEW m, ReportFits(m, t), NEW r, Cur' = r,
         NEW x, x # "clicking", Answered(t, x), PageFits(r, t, x)
  PROVE  TabFits(Cur, t)'
<1>1. page'[t] = x /\ call'[t] = NoCall /\ verdict' = verdict /\ units' = units /\ orders' = orders
  BY DEF Answered, FlowTypeOK
<1>2. NoCall.op = "none"
  BY DEF NoCall
<1>3. ClickFits(Cur, t)'
  BY <1>1 DEF ClickFits, Authorized, PageFits
<1>4. SubmitFits(Cur, t)'
  BY <1>1 DEF SubmitFits, PageFits
<1>5. AddIsWhere(Cur, t)'
  BY <1>1 DEF AddIsWhere, PageFits
<1>6. ReportFits(Cur, t)'
  BY <1>1, <1>2 DEF ReportFits
<1>. QED BY <1>3, <1>4, <1>5, <1>6 DEF TabFits

\* A reply after a good step from a state as a handler finds it.
LEMMA AnsweredInv ==
  ASSUME FlowInv, LaneInv', NEW t \in Owners, NEW p \in Products, PageOf[t] = p,
         NEW m, FlowReady(m), GoodStep(m, st', p, t),
         NEW x, Answered(t, x), MayAnswer(m, st', t, x), PageFits(st', t, x)
  PROVE  FlowInv'
<1>1. FlowTypeOK /\ \A u \in Owners : CallFits(u)
  BY DEF FlowInv
<1>2. st'.run = config'.run /\ config' = config
  BY DEF GoodStep, OwnStep, OtherReceiptsKept, FlowReady, Answered
<1>3. Cur' = st'
  BY <1>2 DEF Cur
<1>4. /\ LaneSafe(st')
      /\ \A u \in Owners \ {t} : TabFits(Cur, u)'
      /\ \A q \in Products : StoreFits(Cur, q)'
  BY <1>1, <1>3, AnsweredRest
<1>5. TabFits(Cur, t)'
  <2>1. ReportFits(m, t) /\ x # "clicking"
    BY DEF FlowReady, TabFits, MayAnswer
  <2>. QED BY <1>1, <1>3, <2>1, AnsweredTab
<1>6. \A u \in Owners : TabFits(Cur, u)'
  BY <1>4, <1>5
<1>7. \A u \in Owners : CallFits(u)'
  <2>. SUFFICES ASSUME NEW u \in Owners PROVE CallFits(u)'
    OBVIOUS
  <2>1. CASE u = t
    <3>1. call'[t] = NoCall
      BY <1>1 DEF Answered, FlowTypeOK
    <3>. QED BY <2>1, <3>1 DEF CallFits
  <2>2. CASE u # t
    <3>1. Unmoved(u)
      BY <1>1, <2>2 DEF Answered, Unmoved, FlowTypeOK
    <3>. QED BY <1>1, <1>2, <3>1, CallUnmoved
  <2>. QED BY <2>1, <2>2
<1>8. FlowTypeOK'
  <2>1. NoCall \in [op : Ops \cup {"none"}, config : Configs]
    BY DEF NoCall, Configs
  <2>2. x \in Pages
    BY DEF MayAnswer
  <2>3. /\ page' = [page EXCEPT ![t] = x] /\ call' = [call EXCEPT ![t] = NoCall]
        /\ verdict' = verdict /\ units' = units /\ orders' = orders /\ abandoned' = abandoned
    BY DEF Answered
  <2>4. page' \in [Owners -> Pages] /\ call' \in [Owners -> [op : Ops \cup {"none"}, config : Configs]]
    BY <1>1, <2>1, <2>2, <2>3 DEF FlowTypeOK
  <2>. QED BY <1>1, <2>3, <2>4 DEF FlowTypeOK
<1>9. st'.run <= config'.run
  BY <1>2 DEF LaneInv, Configs
<1>. QED BY <1>4, <1>6, <1>7, <1>8, <1>9 DEF FlowInv

\* What the handler of a call finds.
LEMMA Found ==
  ASSUME FlowInv, Members = {}, NEW t \in Owners, call[t] # NoCall
  PROVE  /\ FlowReady(Now) /\ Guarded(Now) /\ PageOf[t] \in Products
         /\ units \in [Products -> Nat] /\ orders \in [Products -> Nat]
         /\ Read(call[t].config) = Now
         /\ call[t].op \in Ops /\ page[t] \in CallPages[call[t].op]
         /\ AddIsWhere(Now, t) /\ ReportFits(Now, t) /\ ClickFits(Now, t)
<1>1. StateInv(Now) /\ Now.run = config.run /\ LaneSafe(Now) /\ LaneReady(Now)
      /\ (\A u \in Owners : PageOf[u] \in Products /\ TabFits(Now, u))
      /\ \A p \in Products : StoreFits(Now, p)
  BY ReadFacts
<1>2. FlowReady(Now)
  BY <1>1 DEF FlowReady, Ready
<1>3. Guarded(Now)
  BY ReadInv DEF Now, FlowInv, LaneInv, Configs
<1>4. call[t].op \in Ops /\ page[t] \in CallPages[call[t].op] /\ call[t].config.run = config.run
  BY DEF FlowInv, CallFits
<1>5. Read(call[t].config) = Now
  BY <1>4 DEF Read, Now
<1>. QED BY <1>1, <1>2, <1>3, <1>4, <1>5 DEF FlowInv, FlowTypeOK, TabFits

--------------------------------------------------------------------------------
(* The handlers, call by call *)

\* The pages that the replies lead to are pages, and none is "clicking".
LEMMA AnswerPages ==
  ASSUME NEW op \in Ops
  PROVE  Calls[op].granted \in Pages \ {"clicking"} /\ Calls[op].refused \in Pages \ {"clicking"}
<1>1. Calls[op].granted \in Pages /\ Calls[op].refused \in Pages
  BY DEF Pages
<1>2. Calls[op].granted # "clicking" /\ Calls[op].refused # "clicking"
  BY DEF Ops, Calls
<1>. QED BY <1>1, <1>2

\* The table of the calls, row by row.
LEMMA CallTable ==
  /\ Calls["prepare"].granted = "reserved" /\ Calls["prepare"].refused = "product"
  /\ Calls["authorize"].granted = "authorized" /\ Calls["authorize"].refused = "withdrawn"
  /\ Calls["release"].granted = "withdrawn" /\ Calls["release"].refused = "withdrawn"
  /\ Calls["cancel"].granted = "product" /\ Calls["cancel"].refused = "product"
  /\ Calls["clicked"].granted = "settling" /\ Calls["clicked"].refused = "product"
  /\ Calls["confirmed"].granted = "carted" /\ Calls["confirmed"].refused = "cart"
  /\ Calls["failed"].granted = "product" /\ Calls["failed"].refused = "cart"
  /\ Calls["claim"].granted = "checkout" /\ Calls["claim"].refused = "carted"
  /\ Calls["reclaim"].granted = "summary" /\ Calls["reclaim"].refused = "checkout"
  /\ Calls["yield"].granted = "checkout" /\ Calls["yield"].refused = "checkout"
  /\ Calls["handoff"].granted = "handoff" /\ Calls["handoff"].refused = "checkout"
  /\ Calls["intent"].granted = "intent" /\ Calls["intent"].refused = "checkout"
  /\ Calls["submitted"].granted = "submitted" /\ Calls["submitted"].refused = "submitted"
  /\ Calls["observed"].granted = "submitted" /\ Calls["observed"].refused = "submitted"
  /\ Calls["rejected"].granted = "checkout" /\ Calls["rejected"].refused = "submitted"
  /\ Calls["complete"].granted = "finished" /\ Calls["complete"].refused = "carted"
  /\ Calls["confirm"].granted = "finished" /\ Calls["confirm"].refused = "submitted"
BY DEF Calls

\* The pages that ask nothing of the record.
PlainPages == {"product", "settling", "cart", "carted", "checkout", "finished"}

\* They fit any record.
LEMMA PlainPageFits ==
  ASSUME NEW r, NEW t, NEW x \in PlainPages
  PROVE  PageFits(r, t, x) /\ x # "authorized"
BY DEF PlainPages, PageFits

\* The reply to a handled call.
LEMMA Replies ==
  ASSUME NEW t \in Owners, Handled(t), config' = config
  PROVE  \/ /\ Granted(Read(call[t].config), t, call[t].op, PageOf[t])
            /\ Answered(t, Calls[call[t].op].granted)
         \/ Answered(t, Calls[call[t].op].refused)
<1>. DEFINE op == call[t].op
            G == Granted(Read(call[t].config), t, op, PageOf[t])
<1>1. PICK heard \in BOOLEAN : Reply(t, heard /\ G)
  BY DEF Handled
<1>. HIDE DEF G
<1>2. CASE heard /\ G
  BY <1>1, <1>2 DEF Reply, Answered, store, G
<1>3. CASE ~(heard /\ G)
  BY <1>1, <1>3 DEF Reply, Answered, store
<1>. QED BY <1>2, <1>3

\* A handled call that leaves the lane as good steps do, on pages that fit.
LEMMA RepliedInv ==
  ASSUME FlowInv, LaneInv', NEW t \in Owners, NEW p \in Products, PageOf[t] = p,
         Handled(t), config' = config, NEW op \in Ops, call[t].op = op,
         NEW m, FlowReady(m), GoodStep(m, st', p, t),
         page[t] = "clicking" => st'.add[p].phase = "clicked" /\ p \notin m.done,
         Calls[op].granted # "authorized", Calls[op].refused # "authorized",
         Granted(Read(call[t].config), t, op, p) => PageFits(st', t, Calls[op].granted),
         PageFits(st', t, Calls[op].refused)
  PROVE  FlowInv'
<1>1. \/ Granted(Read(call[t].config), t, op, p) /\ Answered(t, Calls[op].granted)
      \/ Answered(t, Calls[op].refused)
  BY Replies
<1>2. Calls[op].granted \in Pages \ {"clicking"} /\ Calls[op].refused \in Pages \ {"clicking"}
  BY AnswerPages
<1>3. MayAnswer(m, st', t, Calls[op].granted) /\ MayAnswer(m, st', t, Calls[op].refused)
  BY <1>2 DEF MayAnswer
<1>4. CASE Granted(Read(call[t].config), t, op, p) /\ Answered(t, Calls[op].granted)
  BY <1>3, <1>4, AnsweredInv
<1>5. CASE Answered(t, Calls[op].refused)
  BY <1>3, <1>5, AnsweredInv
<1>. QED BY <1>1, <1>4, <1>5

\* Preparing an Add.
LEMMA HandledPrepare ==
  ASSUME FlowInv, LaneInv', Members = {}, NEW t \in Owners, Handled(t), call[t].op = "prepare"
  PROVE  FlowInv'
<1>. DEFINE p == PageOf[t]
            h == HealStrandedCartHold(Now, p, t)
<1>0. call[t] # NoCall
  BY DEF Handled
<1>1. FlowReady(Now) /\ Guarded(Now) /\ p \in Products /\ Read(call[t].config) = Now
      /\ units \in [Products -> Nat] /\ orders \in [Products -> Nat] /\ page[t] \in CallPages["prepare"]
  BY <1>0, Found
<1>2. ActionOf[p] # "watch"
  BY <1>0 DEF FlowInv, CallFits
<1>3. st' = PrepareOutcome(Now, p, t) /\ config' = config
  BY <1>1 DEF Handled, HandledByLane, PrepareAdd, Handle, desktop
<1>4. FlowReady(h) /\ GoodStep(h, st', p, t)
      /\ (Prepared(Now, p, t) => st'.add[p] = [phase |-> "reserved", owner |-> t])
  <2>1. FlowReady(h)
    BY <1>1, ClaimedGood
  <2>2. GoodStep(h, PrepareOutcome(Now, p, t), p, t)
        /\ (Prepared(Now, p, t) => PrepareOutcome(Now, p, t).add[p] = [phase |-> "reserved", owner |-> t])
    BY <1>1, <1>2, PreparedGood
  <2>. QED BY <1>3, <2>1, <2>2
<1>5. Granted(Read(call[t].config), t, "prepare", p) <=> Prepared(Now, p, t)
  BY <1>1 DEF Granted
<1>. HIDE DEF h
<1>6. Prepared(Now, p, t) => PageFits(st', t, "reserved")
  BY <1>4 DEF PageFits
<1>7. PageFits(st', t, "product")
  BY PlainPageFits DEF PlainPages
<1>8. page[t] # "clicking" /\ "prepare" \in Ops
  BY <1>1 DEF CallPages, Ops, Calls
<1>. QED BY <1>1, <1>3, <1>4, <1>5, <1>6, <1>7, <1>8, RepliedInv, CallTable

\* Claiming the lane for the checkout, or again on the checkout page.
LEMMA HandledClaim ==
  ASSUME FlowInv, LaneInv', Members = {}, NEW t \in Owners, Handled(t),
         NEW op \in {"claim", "reclaim"}, call[t].op = op
  PROVE  FlowInv'
<1>. DEFINE p == PageOf[t]
            h == HealStrandedCartHold(Now, p, t)
<1>0. call[t] # NoCall
  BY DEF Handled
<1>1. FlowReady(Now) /\ Guarded(Now) /\ p \in Products /\ Read(call[t].config) = Now
      /\ units \in [Products -> Nat] /\ orders \in [Products -> Nat] /\ page[t] \in CallPages[op]
  BY <1>0, Found
<1>3. st' = ClaimOutcome(Now, p, t) /\ config' = config
  BY <1>1 DEF Handled, HandledByLane, ClaimProduct, Handle, desktop
<1>4. FlowReady(h) /\ GoodStep(h, st', p, t)
      /\ (Claimed(Now, p, t) => st'.add[p].phase \notin {"reserved", "clicked"})
  BY <1>1, <1>3, ClaimedGood
<1>5. Granted(Read(call[t].config), t, op, p) <=> Claimed(Now, p, t)
  BY <1>1 DEF Granted
<1>. HIDE DEF h
<1>6. Claimed(Now, p, t) => PageFits(st', t, "summary")
  BY <1>4 DEF PageFits
<1>7. PageFits(st', t, "checkout") /\ PageFits(st', t, "carted")
  BY PlainPageFits DEF PlainPages
<1>8. page[t] # "clicking" /\ op \in Ops
  BY <1>1 DEF CallPages, Ops, Calls
<1>9. Claimed(Now, p, t) => PageFits(st', t, Calls[op].granted)
  BY <1>6, <1>7, CallTable
<1>10. PageFits(st', t, Calls[op].refused)
       /\ Calls[op].granted # "authorized" /\ Calls[op].refused # "authorized"
  BY <1>7, CallTable
<1>. QED BY <1>1, <1>3, <1>4, <1>5, <1>8, <1>9, <1>10, RepliedInv

\* Giving the lane back, before the Add or from the final review.
LEMMA HandledRelease ==
  ASSUME FlowInv, LaneInv', Members = {}, NEW t \in Owners, Handled(t),
         NEW op \in {"release", "yield"}, call[t].op = op
  PROVE  FlowInv'
<1>. DEFINE p == PageOf[t]
<1>0. call[t] # NoCall
  BY DEF Handled
<1>1. FlowReady(Now) /\ p \in Products /\ Read(call[t].config) = Now /\ AddIsWhere(Now, t)
      /\ units \in [Products -> Nat] /\ orders \in [Products -> Nat] /\ page[t] \in CallPages[op]
  BY <1>0, Found
<1>3. st' = ReleaseOutcome(Now, p, t) /\ config' = config
  BY <1>1 DEF Handled, HandledByLane, ReleaseLane, Handle, desktop
<1>4. GoodStep(Now, st', p, t) /\ st'.add = Now.add
  <2>1. CASE CanRelease(Now, p)
    <3>1. st' = Release(Now, p, t)
      BY <1>3, <2>1 DEF ReleaseOutcome
    <3>2. GoodStep(Now, Release(Now, p, t), p, t)
      BY <1>1, <2>1, ClaimGood
    <3>3. SameButLocks(Now, Release(Now, p, t))
      BY <1>1, <2>1, ReleaseStep DEF FlowReady
    <3>. QED BY <3>1, <3>2, <3>3 DEF SameButLocks
  <2>2. CASE ~CanRelease(Now, p)
    <3>1. st' = Now
      BY <1>3, <2>2 DEF ReleaseOutcome
    <3>. QED BY <1>1, <3>1, ClaimGood
  <2>. QED BY <2>1, <2>2
<1>6. op = "release" => PageFits(st', t, "withdrawn")
  <2>. SUFFICES ASSUME op = "release" PROVE PageFits(st', t, "withdrawn")
    OBVIOUS
  <2>1. page[t] = "reserved"
    BY <1>1 DEF CallPages
  <2>. QED BY <1>1, <1>4, <2>1 DEF AddIsWhere, PageFits
<1>7. PageFits(st', t, "checkout")
  BY PlainPageFits DEF PlainPages
<1>8. page[t] # "clicking" /\ op \in Ops
  BY <1>1 DEF CallPages, Ops, Calls
<1>10. PageFits(st', t, Calls[op].refused) /\ PageFits(st', t, Calls[op].granted)
       /\ Calls[op].granted # "authorized" /\ Calls[op].refused # "authorized"
  BY <1>6, <1>7, CallTable
<1>. QED BY <1>1, <1>3, <1>4, <1>8, <1>10, RepliedInv

\* The receipt of a click: it is always written.
LEMMA HandledClicked ==
  ASSUME FlowInv, LaneInv', Members = {}, NEW t \in Owners, Handled(t), call[t].op = "clicked"
  PROVE  FlowInv'
<1>. DEFINE p == PageOf[t]
<1>0. call[t] # NoCall
  BY DEF Handled
<1>1. FlowReady(Now) /\ p \in Products /\ Read(call[t].config) = Now /\ ClickFits(Now, t)
      /\ page[t] \in CallPages["clicked"]
  BY <1>0, Found
<1>2. Now.add[p] = [phase |-> "reserved", owner |-> t] /\ p \notin Now.done
      /\ OwnsLane(Now, p, t) /\ Now.wf[p].owner = t
  BY <1>1 DEF CallPages, ClickFits, Authorized
<1>3. st' = MarkAddOutcome(Now, p, t, "clicked") /\ config' = config
  BY <1>1 DEF Handled, HandledByLane, MarkAdd, Handle, desktop
<1>4. st' = MarkAddAction(Now, p, t, "clicked")
  BY <1>2, <1>3 DEF MarkAddOutcome, CanMarkAddAction
<1>5. GoodStep(Now, st', p, t) /\ st'.add[p].phase = "clicked"
  <2>1. GoodStep(Now, MarkAddAction(Now, p, t, "clicked"), p, t)
        /\ MarkAddAction(Now, p, t, "clicked").add[p] = [phase |-> "clicked", owner |-> t]
    BY <1>1, <1>2, ClickedGood
  <2>. QED BY <1>4, <2>1
<1>7. PageFits(st', t, "settling") /\ PageFits(st', t, "product")
  BY PlainPageFits DEF PlainPages
<1>8. "clicked" \in Ops
  BY DEF Ops, Calls
<1>. QED BY <1>1, <1>2, <1>3, <1>5, <1>7, <1>8, RepliedInv, CallTable

\* The confirmation of an Add.
LEMMA HandledConfirmed ==
  ASSUME FlowInv, LaneInv', Members = {}, NEW t \in Owners, Handled(t), call[t].op = "confirmed"
  PROVE  FlowInv'
<1>. DEFINE p == PageOf[t]
<1>0. call[t] # NoCall
  BY DEF Handled
<1>1. FlowReady(Now) /\ p \in Products /\ Read(call[t].config) = Now
      /\ units \in [Products -> Nat] /\ orders \in [Products -> Nat] /\ page[t] \in CallPages["confirmed"]
  BY <1>0, Found
<1>3. st' = MarkAddOutcome(Now, p, t, "confirmed") /\ config' = config
  BY <1>1 DEF Handled, HandledByLane, MarkAdd, Handle, desktop
<1>4. GoodStep(Now, st', p, t)
  <2>1. CASE CanMarkAddAction(Now, p, t, "confirmed")
    <3>1. st' = MarkAddAction(Now, p, t, "confirmed")
      BY <1>3, <2>1 DEF MarkAddOutcome
    <3>. QED BY <1>1, <2>1, <3>1, ConfirmedGood
  <2>2. CASE ~CanMarkAddAction(Now, p, t, "confirmed")
    <3>1. st' = Now
      BY <1>3, <2>2 DEF MarkAddOutcome
    <3>. QED BY <1>1, <3>1, ClaimGood
  <2>. QED BY <2>1, <2>2
<1>7. PageFits(st', t, "carted") /\ PageFits(st', t, "cart")
  BY PlainPageFits DEF PlainPages
<1>8. page[t] # "clicking" /\ "confirmed" \in Ops
  BY <1>1 DEF CallPages, Ops, Calls
<1>. QED BY <1>1, <1>3, <1>4, <1>7, <1>8, RepliedInv, CallTable

\* A reservation is canceled by the tab whose page has it, if by any.
LEMMA CancelGood ==
  ASSUME NEW n, FlowReady(n), NEW t \in Owners, NEW p \in Products, PageOf[t] = p,
         units \in [Products -> Nat], orders \in [Products -> Nat],
         page[t] \in {"reserved", "withdrawn"}, AddIsWhere(n, t)
  PROVE  /\ GoodStep(n, MarkAddOutcome(n, p, t, "canceled"), p, t)
         /\ PageFits(MarkAddOutcome(n, p, t, "canceled"), t, "withdrawn")
<1>. DEFINE r == MarkAddOutcome(n, p, t, "canceled")
<1>1. n.add[p].owner # t \/ n.add[p].phase \notin {"clicked", "confirmed"}
  BY DEF AddIsWhere
<1>2. CASE CanMarkAddAction(n, p, t, "canceled")
  <2>1. r = MarkAddAction(n, p, t, "canceled")
    BY <1>2 DEF MarkAddOutcome
  <2>. HIDE DEF r
  <2>2. MayTouch(n, p, t)
    BY <1>2 DEF CanMarkAddAction, MayTouch
  <2>3. n.add[p].owner = t => n.add[p].phase = "reserved"
    <3>1. n.add[p].phase = "idle" => n.add[p].owner = Nobody
      BY ReadyFacts DEF FlowReady, AddFits, IdleAdd
    <3>2. n.add[p].phase \in AddPhases
      BY ReadyFacts, FieldTypes DEF FlowReady, Phases
    <3>. QED BY <1>1, <3>1, <3>2, NobodysNames DEF AddPhases
  <2>4. GoodStep(n, MarkAddAction(n, p, t, "canceled"), p, t)
        /\ MarkAddAction(n, p, t, "canceled").add[p] = IdleAdd
    BY <2>2, <2>3, WithdrawnGood
  <2>5. PageFits(r, t, "withdrawn")
    BY <2>1, <2>4 DEF PageFits, IdleAdd
  <2>. QED BY <2>1, <2>4, <2>5 DEF r
<1>3. CASE ~CanMarkAddAction(n, p, t, "canceled")
  <2>1. r = n
    BY <1>3 DEF MarkAddOutcome
  <2>. HIDE DEF r
  <2>2. GoodStep(n, n, p, t)
    BY ClaimGood
  <2>3. PageFits(r, t, "withdrawn")
    BY <1>1, <2>1 DEF PageFits
  <2>. QED BY <2>1, <2>2, <2>3 DEF r
<1>. QED BY <1>2, <1>3

\* A reservation that no tab has clicked has nothing in the store.
LEMMA NothingYet ==
  ASSUME NEW n, FlowReady(n), NEW t \in Owners, NEW p \in Products,
         units \in [Products -> Nat], orders \in [Products -> Nat],
         n.add[p] = [phase |-> "reserved", owner |-> t], p \notin n.done, page[t] # "clicking"
  PROVE  units[p] = 0 /\ orders[p] = 0
<1>1. AddFits(n, p) /\ SubmissionFits(n, p) /\ CartFits(n, p) /\ OrderFits(n, p)
  BY ReadyFacts DEF FlowReady, StoreFits
<1>2. n.sub[p].phase \notin MaybeSubmitted
  BY <1>1 DEF SubmissionFits
<1>3. ~NeedsHold(n, p)
  BY <1>2, StoreFacts
<1>4. ~Clicking(p)
  <2>. SUFFICES ASSUME NEW u \in Owners, PageOf[u] = p, page[u] = "clicking" PROVE FALSE
    BY DEF Clicking, ReceiptPending
  <2>1. ClickFits(n, u)
    BY DEF FlowReady, TabFits
  <2>2. Authorized(u)
    BY DEF Authorized
  <2>3. n.add[p].owner = u
    BY <2>1, <2>2 DEF ClickFits
  <2>. QED BY <2>3
<1>5. units[p] = 0
  BY <1>1, <1>3, <1>4 DEF CartFits
<1>6. ActionOf[p] \in {"watch", "cart", "review", "checkout"} /\ orders[p] \in Nat
  BY ConfigAssumption
<1>7. orders[p] = 0
  BY <1>1, <1>2, <1>4, <1>6 DEF OrderFits
<1>. QED BY <1>5, <1>7

\* Authorizing the click.
LEMMA HandledAuthorize ==
  ASSUME FlowInv, LaneInv', Members = {}, NEW t \in Owners, Handled(t), call[t].op = "authorize"
  PROVE  FlowInv'
<1>. DEFINE p == PageOf[t]
<1>0. call[t] # NoCall
  BY DEF Handled
<1>1. FlowReady(Now) /\ p \in Products /\ Read(call[t].config) = Now /\ AddIsWhere(Now, t)
      /\ units \in [Products -> Nat] /\ orders \in [Products -> Nat] /\ page[t] \in CallPages["authorize"]
  BY <1>0, Found
<1>2. page[t] = "reserved"
  BY <1>1 DEF CallPages
<1>3. st' = Now /\ config' = config /\ call[t].config.active
  BY <1>1 DEF Handled, HandledByLane, AuthorizeAdd, AuthorizeOutcome, AutomationActive, Handle,
     desktop
<1>4. GoodStep(Now, st', p, t)
  BY <1>1, <1>3, ClaimGood
<1>5. \/ Granted(Now, t, "authorize", p) /\ Answered(t, Calls["authorize"].granted)
      \/ Answered(t, Calls["authorize"].refused)
  BY <1>1, <1>3, Replies
<1>6. Calls["authorize"].granted = "authorized" /\ Calls["authorize"].refused = "withdrawn"
  BY CallTable
<1>7. "authorized" \in Pages \ {"clicking"} /\ "withdrawn" \in Pages \ {"clicking"}
  <2>1. "authorize" \in Ops
    BY DEF Ops, Calls
  <2>. QED BY <1>6, <2>1, AnswerPages
<1>8. CASE Granted(Now, t, "authorize", p) /\ Answered(t, "authorized")
  <2>1. CanAuthorizeAddClick(Now, p, t)
    BY <1>8 DEF Granted
  <2>2. Now.add[p] = [phase |-> "reserved", owner |-> t] /\ p \notin Now.done /\ OwnsLane(Now, p, t)
    BY <2>1 DEF CanAuthorizeAddClick
  <2>3. Now.wf[p].owner = t
    BY <1>1, <2>2, OwnersAdd DEF FlowReady
  <2>4. units[p] = 0 /\ orders[p] = 0
    BY <1>1, <1>2, <2>2, NothingYet
  <2>5. PageFits(st', t, "authorized")
    BY <1>3, <2>2, <2>3, <2>4 DEF PageFits
  <2>6. MayAnswer(Now, st', t, "authorized")
    BY <1>2, <1>3, <1>7, <2>2 DEF MayAnswer
  <2>. QED BY <1>1, <1>4, <1>8, <2>5, <2>6, AnsweredInv
<1>9. CASE Answered(t, "withdrawn")
  <2>1. PageFits(st', t, "withdrawn")
    BY <1>1, <1>2, <1>3 DEF AddIsWhere, PageFits
  <2>2. MayAnswer(Now, st', t, "withdrawn")
    BY <1>2, <1>7 DEF MayAnswer
  <2>. QED BY <1>1, <1>4, <1>9, <2>1, <2>2, AnsweredInv
<1>. QED BY <1>5, <1>6, <1>8, <1>9

\* The offer has changed: the worker cancels the reservation itself.
LEMMA OfferRefusedInv ==
  ASSUME FlowInv, LaneInv', Members = {}, NEW t \in Owners, OfferRefused(t)
  PROVE  FlowInv'
<1>. DEFINE p == PageOf[t]
<1>0. call[t].op = "authorize" /\ call[t] # NoCall
  BY DEF OfferRefused, NoCall
<1>1. FlowReady(Now) /\ p \in Products /\ Read(call[t].config) = Now /\ AddIsWhere(Now, t)
      /\ units \in [Products -> Nat] /\ orders \in [Products -> Nat] /\ page[t] \in CallPages["authorize"]
  BY <1>0, Found
<1>2. page[t] = "reserved"
  BY <1>1 DEF CallPages
<1>3. st' = MarkAddOutcome(Now, p, t, "canceled") /\ config' = config
  BY <1>1 DEF OfferRefused, AuthorizeAdd, AuthorizeOutcome, Handle, desktop
<1>4. GoodStep(Now, st', p, t) /\ PageFits(st', t, "withdrawn")
  BY <1>1, <1>2, <1>3, CancelGood
<1>5. Answered(t, "withdrawn")
  BY <1>0, <1>3, CallTable DEF OfferRefused, Reply, Answered, store
<1>6. MayAnswer(Now, st', t, "withdrawn")
  <2>1. "authorize" \in Ops
    BY DEF Ops, Calls
  <2>. QED BY <1>2, <2>1, CallTable, AnswerPages DEF MayAnswer
<1>. QED BY <1>1, <1>4, <1>5, <1>6, AnsweredInv

\* Withdrawing the reservation.
LEMMA HandledCancel ==
  ASSUME FlowInv, LaneInv', Members = {}, NEW t \in Owners, Handled(t), call[t].op = "cancel"
  PROVE  FlowInv'
<1>. DEFINE p == PageOf[t]
<1>0. call[t] # NoCall
  BY DEF Handled
<1>1. FlowReady(Now) /\ p \in Products /\ Read(call[t].config) = Now /\ AddIsWhere(Now, t)
      /\ units \in [Products -> Nat] /\ orders \in [Products -> Nat] /\ page[t] \in CallPages["cancel"]
  BY <1>0, Found
<1>2. page[t] \in {"reserved", "withdrawn"}
  BY <1>1 DEF CallPages
<1>3. st' = MarkAddOutcome(Now, p, t, "canceled") /\ config' = config
  BY <1>1 DEF Handled, HandledByLane, MarkAdd, Handle, desktop
<1>4. GoodStep(Now, st', p, t)
  BY <1>1, <1>2, <1>3, CancelGood
<1>7. PageFits(st', t, "product")
  BY PlainPageFits DEF PlainPages
<1>8. "cancel" \in Ops /\ page[t] # "clicking"
  BY <1>2 DEF Ops, Calls
<1>. QED BY <1>1, <1>3, <1>4, <1>7, <1>8, RepliedInv, CallTable

\* The report that the Add failed: the cart has nothing of it.
LEMMA HandledFailedAdd ==
  ASSUME FlowInv, LaneInv', Members = {}, NEW t \in Owners, Handled(t), call[t].op = "failed"
  PROVE  FlowInv'
<1>. DEFINE p == PageOf[t]
<1>0. call[t] # NoCall
  BY DEF Handled
<1>1. FlowReady(Now) /\ p \in Products /\ Read(call[t].config) = Now /\ ReportFits(Now, t)
      /\ units \in [Products -> Nat] /\ orders \in [Products -> Nat] /\ page[t] \in CallPages["failed"]
  BY <1>0, Found
<1>2. Now.add[p].owner = t => units[p] = 0 /\ (ActionOf[p] = "review" /\ p \notin Now.done => orders[p] = 0)
  BY <1>1 DEF ReportFits
<1>3. st' = MarkAddOutcome(Now, p, t, "failed") /\ config' = config
  BY <1>1 DEF Handled, HandledByLane, MarkAdd, Handle, desktop
<1>4. GoodStep(Now, st', p, t)
  <2>1. CASE CanMarkAddAction(Now, p, t, "failed")
    <3>1. st' = MarkAddAction(Now, p, t, "failed")
      BY <1>3, <2>1 DEF MarkAddOutcome
    <3>2. MayTouch(Now, p, t)
      BY <2>1 DEF CanMarkAddAction, MayTouch
    <3>3. GoodStep(Now, MarkAddAction(Now, p, t, "failed"), p, t)
      BY <1>1, <1>2, <3>2, WithdrawnGood
    <3>. QED BY <3>1, <3>3
  <2>2. CASE ~CanMarkAddAction(Now, p, t, "failed")
    <3>1. st' = Now
      BY <1>3, <2>2 DEF MarkAddOutcome
    <3>. QED BY <1>1, <3>1, ClaimGood
  <2>. QED BY <2>1, <2>2
<1>7. PageFits(st', t, "product") /\ PageFits(st', t, "cart")
  BY PlainPageFits DEF PlainPages
<1>8. "failed" \in Ops /\ page[t] # "clicking"
  BY <1>1 DEF CallPages, Ops, Calls
<1>. QED BY <1>1, <1>3, <1>4, <1>7, <1>8, RepliedInv, CallTable

--------------------------------------------------------------------------------
(* The final review, the submission and the completion *)

\* The hand-off of the final review to the operator.
LEMMA HandledHandoff ==
  ASSUME FlowInv, LaneInv', Members = {}, NEW t \in Owners, Handled(t), call[t].op = "handoff"
  PROVE  FlowInv'
<1>. DEFINE p == PageOf[t]
<1>0. call[t] # NoCall
  BY DEF Handled
<1>1. FlowReady(Now) /\ p \in Products /\ Read(call[t].config) = Now /\ AddIsWhere(Now, t)
      /\ units \in [Products -> Nat] /\ orders \in [Products -> Nat] /\ page[t] \in CallPages["handoff"]
  BY <1>0, Found
<1>2. page[t] = "summary" /\ ActionOf[p] = "review"
  BY <1>0, <1>1 DEF CallPages, FlowInv, CallFits
<1>3. config' = config /\ \E h \in EvidenceHashes : st' = BeginReviewOutcome(Now, p, t, h)
  BY <1>1 DEF Handled, HandledByLane, BeginReview, Handle, desktop
<1>4. GoodStep(Now, st', p, t) /\ st'.add = Now.add
  <2>1. PICK h \in EvidenceHashes : st' = BeginReviewOutcome(Now, p, t, h)
    BY <1>3
  <2>2. CASE CanBeginManualReview(Now, p, t)
    <3>1. st' = BeginManualReview(Now, p, t, h)
      BY <2>1, <2>2 DEF BeginReviewOutcome
    <3>. QED BY <1>1, <2>2, <3>1, HandoffGood
  <2>3. CASE ~CanBeginManualReview(Now, p, t)
    <3>1. st' = Now
      BY <2>1, <2>3 DEF BeginReviewOutcome
    <3>. QED BY <1>1, <3>1, ClaimGood
  <2>. QED BY <2>2, <2>3
<1>6. PageFits(st', t, "handoff")
  BY <1>1, <1>2, <1>4 DEF AddIsWhere, PageFits
<1>7. PageFits(st', t, "checkout")
  BY PlainPageFits DEF PlainPages
<1>8. "handoff" \in Ops /\ page[t] # "clicking"
  BY <1>2 DEF Ops, Calls
<1>. QED BY <1>1, <1>3, <1>4, <1>6, <1>7, <1>8, RepliedInv, CallTable

\* An intent is recorded for a tab whose Add is not under way.
LEMMA IntentPage ==
  ASSUME NEW n, FlowReady(n), NEW t \in Owners, NEW p \in Products, PageOf[t] = p,
         NEW h \in EvidenceHashes, units \in [Products -> Nat], orders \in [Products -> Nat],
         CanBeginSubmission(n, p, t), page[t] = "summary", AddIsWhere(n, t)
  PROVE  GoodStep(n, BeginSubmission(n, p, h), p, t) /\ PageFits(BeginSubmission(n, p, h), t, "intent")
<1>1. n.add[p].owner # t \/ n.add[p].phase \notin {"reserved", "clicked"}
  BY DEF AddIsWhere
<1>2. /\ GoodStep(n, BeginSubmission(n, p, h), p, t)
      /\ IntentLeft(n, BeginSubmission(n, p, h), p, t) /\ orders[p] = 0
  BY <1>1, IntentGood
<1>3. ActionOf[p] = "checkout"
  BY DEF CanBeginSubmission
<1>4. PageFits(BeginSubmission(n, p, h), t, "intent")
  BY <1>1, <1>2, <1>3 DEF PageFits, IntentLeft
<1>. QED BY <1>2, <1>4

\* Recording the intent to submit.
LEMMA HandledIntent ==
  ASSUME FlowInv, LaneInv', Members = {}, NEW t \in Owners, Handled(t), call[t].op = "intent"
  PROVE  FlowInv'
<1>. DEFINE p == PageOf[t]
<1>0. call[t] # NoCall
  BY DEF Handled
<1>1. FlowReady(Now) /\ p \in Products /\ Read(call[t].config) = Now /\ AddIsWhere(Now, t)
      /\ units \in [Products -> Nat] /\ orders \in [Products -> Nat] /\ page[t] \in CallPages["intent"]
  BY <1>0, Found
<1>2. page[t] = "summary"
  BY <1>1 DEF CallPages
<1>3. config' = config /\ \E h \in EvidenceHashes : st' = BeginSubmissionOutcome(Now, p, t, h)
  BY <1>1 DEF Handled, HandledByLane, BeginSubmit, Handle, desktop
<1>4. GoodStep(Now, st', p, t) /\ (CanBeginSubmission(Now, p, t) => PageFits(st', t, "intent"))
  <2>1. PICK h \in EvidenceHashes : st' = BeginSubmissionOutcome(Now, p, t, h)
    BY <1>3
  <2>2. CASE CanBeginSubmission(Now, p, t)
    <3>1. st' = BeginSubmission(Now, p, h)
      BY <2>1, <2>2 DEF BeginSubmissionOutcome
    <3>2. /\ GoodStep(Now, BeginSubmission(Now, p, h), p, t)
          /\ PageFits(BeginSubmission(Now, p, h), t, "intent")
      BY <1>1, <1>2, <2>2, IntentPage
    <3>. QED BY <3>1, <3>2
  <2>3. CASE ~CanBeginSubmission(Now, p, t)
    <3>1. st' = Now
      BY <2>1, <2>3 DEF BeginSubmissionOutcome
    <3>2. GoodStep(Now, Now, p, t)
      BY <1>1, ClaimGood
    <3>. QED BY <2>3, <3>1, <3>2
  <2>. QED BY <2>2, <2>3
<1>5. Granted(Read(call[t].config), t, "intent", p) <=> CanBeginSubmission(Now, p, t)
  BY <1>1 DEF Granted
<1>7. PageFits(st', t, "checkout")
  BY PlainPageFits DEF PlainPages
<1>8. "intent" \in Ops /\ page[t] # "clicking"
  BY <1>2 DEF Ops, Calls
<1>. QED BY <1>1, <1>3, <1>4, <1>5, <1>7, <1>8, RepliedInv, CallTable

\* The pages of a submission ask only that the Add is not under way.
LEMMA SubmittedPageFits ==
  ASSUME NEW n, NEW t, NEW r, AddIsWhere(n, t), r.add = n.add,
         page[t] \in {"submitting", "submitted"}
  PROVE  PageFits(r, t, "submitted")
BY DEF AddIsWhere, PageFits

\* The report that Place Order was clicked.
LEMMA HandledSubmitted ==
  ASSUME FlowInv, LaneInv', Members = {}, NEW t \in Owners, Handled(t), call[t].op = "submitted"
  PROVE  FlowInv'
<1>. DEFINE p == PageOf[t]
<1>0. call[t] # NoCall
  BY DEF Handled
<1>1. FlowReady(Now) /\ p \in Products /\ Read(call[t].config) = Now /\ AddIsWhere(Now, t)
      /\ units \in [Products -> Nat] /\ orders \in [Products -> Nat] /\ page[t] \in CallPages["submitted"]
  BY <1>0, Found
<1>2. page[t] = "submitting"
  BY <1>1 DEF CallPages
<1>3. st' = MarkSubmissionOutcome(Now, p, t, "clicked") /\ config' = config
  BY <1>1 DEF Handled, HandledByLane, MarkSubmit, Handle, desktop
<1>4. GoodStep(Now, st', p, t) /\ st'.add = Now.add
  <2>1. CASE CanMarkSubmission(Now, p, t, "clicked")
    <3>1. st' = MarkSubmission(Now, p, t, "clicked")
      BY <1>3, <2>1 DEF MarkSubmissionOutcome
    <3>. QED BY <1>1, <2>1, <3>1, SubmittedGood
  <2>2. CASE ~CanMarkSubmission(Now, p, t, "clicked")
    <3>1. st' = Now
      BY <1>3, <2>2 DEF MarkSubmissionOutcome
    <3>. QED BY <1>1, <3>1, ClaimGood
  <2>. QED BY <2>1, <2>2
<1>6. PageFits(st', t, "submitted")
  BY <1>1, <1>2, <1>4, SubmittedPageFits
<1>8. "submitted" \in Ops /\ page[t] # "clicking"
  BY <1>2 DEF Ops, Calls
<1>. QED BY <1>1, <1>3, <1>4, <1>6, <1>8, RepliedInv, CallTable

\* The observer's report that the user has placed the order.
LEMMA HandledObserved ==
  ASSUME FlowInv, LaneInv', Members = {}, NEW t \in Owners, Handled(t), call[t].op = "observed"
  PROVE  FlowInv'
<1>. DEFINE p == PageOf[t]
<1>0. call[t] # NoCall
  BY DEF Handled
<1>1. FlowReady(Now) /\ p \in Products /\ Read(call[t].config) = Now /\ AddIsWhere(Now, t)
      /\ units \in [Products -> Nat] /\ orders \in [Products -> Nat] /\ page[t] \in CallPages["observed"]
  BY <1>0, Found
<1>2. page[t] = "submitted"
  BY <1>1 DEF CallPages
<1>3. /\ config' = config
      /\ \E h \in EvidenceHashes :
           st' = IF CanMarkManualSubmit(Now, p, t, h) THEN MarkManualSubmit(Now, p) ELSE Now
  BY <1>1 DEF Handled, HandledByLane, MarkManual, Handle, desktop
<1>4. GoodStep(Now, st', p, t) /\ st'.add = Now.add
  <2>1. PICK h \in EvidenceHashes :
          st' = IF CanMarkManualSubmit(Now, p, t, h) THEN MarkManualSubmit(Now, p) ELSE Now
    BY <1>3
  <2>2. CASE CanMarkManualSubmit(Now, p, t, h)
    <3>1. st' = MarkManualSubmit(Now, p)
      BY <2>1, <2>2
    <3>. QED BY <1>1, <2>2, <3>1, ObservedGood
  <2>3. CASE ~CanMarkManualSubmit(Now, p, t, h)
    <3>1. st' = Now
      BY <2>1, <2>3
    <3>. QED BY <1>1, <3>1, ClaimGood
  <2>. QED BY <2>2, <2>3
<1>6. PageFits(st', t, "submitted")
  BY <1>1, <1>2, <1>4, SubmittedPageFits
<1>8. "observed" \in Ops /\ page[t] # "clicking"
  BY <1>2 DEF Ops, Calls
<1>. QED BY <1>1, <1>3, <1>4, <1>6, <1>8, RepliedInv, CallTable

\* The report that the store has rejected the order.
LEMMA HandledRejected ==
  ASSUME FlowInv, LaneInv', Members = {}, NEW t \in Owners, Handled(t), call[t].op = "rejected"
  PROVE  FlowInv'
<1>. DEFINE p == PageOf[t]
<1>0. call[t] # NoCall
  BY DEF Handled
<1>1. FlowReady(Now) /\ p \in Products /\ Read(call[t].config) = Now /\ AddIsWhere(Now, t)
      /\ units \in [Products -> Nat] /\ orders \in [Products -> Nat] /\ page[t] \in CallPages["rejected"]
  BY <1>0, Found
<1>2. page[t] = "submitted" /\ verdict[t] = "rejected"
  BY <1>0, <1>1 DEF CallPages, FlowInv, CallFits
<1>3. st' = MarkSubmissionOutcome(Now, p, t, "failed") /\ config' = config
  BY <1>1 DEF Handled, HandledByLane, MarkSubmit, Handle, desktop
<1>4. GoodStep(Now, st', p, t) /\ st'.add = Now.add
  <2>1. CASE CanMarkSubmission(Now, p, t, "failed")
    <3>1. st' = MarkSubmission(Now, p, t, "failed")
      BY <1>3, <2>1 DEF MarkSubmissionOutcome
    <3>2. Now.add[p].owner # t \/ Now.add[p].phase \notin {"reserved", "clicked"}
      BY <1>1, <1>2 DEF AddIsWhere
    <3>3. ActionOf[p] = "checkout" /\ p \notin Now.done => orders[p] = 0
      <4>. SUFFICES ASSUME ActionOf[p] = "checkout", p \notin Now.done, orders[p] > 0 PROVE FALSE
        BY <1>1
      <4>1. OrderFits(Now, p)
        BY <1>1 DEF FlowReady, StoreFits
      <4>2. Now.sub[p].phase \in MaybeSubmitted /\ Now.locks[ProductKey(p)].owner # t
        BY <1>2, <4>1 DEF OrderFits
      <4>3. NeedsHold(Now, p)
        BY <4>2 DEF NeedsHold
      <4>4. ProductKey(p) \in LockKeys(p)
        BY DEF LockKeys
      <4>5. Now.locks[ProductKey(p)].pid = p
        BY <1>1, <4>3, <4>4, ReadyFacts DEF FlowReady
      <4>6. Free.pid # p
        BY <1>1, NobodysNames DEF Free
      <4>7. OwnedBy(Now.locks[ProductKey(p)], p, t)
        BY <2>1, <4>4, <4>5, <4>6 DEF CanMarkSubmission
      <4>. QED BY <4>2, <4>7 DEF OwnedBy
    <3>. QED BY <1>1, <2>1, <3>1, <3>2, <3>3, RejectedGood
  <2>2. CASE ~CanMarkSubmission(Now, p, t, "failed")
    <3>1. st' = Now
      BY <1>3, <2>2 DEF MarkSubmissionOutcome
    <3>. QED BY <1>1, <3>1, ClaimGood
  <2>. QED BY <2>1, <2>2
<1>6. PageFits(st', t, "submitted")
  BY <1>1, <1>2, <1>4, SubmittedPageFits
<1>7. PageFits(st', t, "checkout")
  BY PlainPageFits DEF PlainPages
<1>8. "rejected" \in Ops /\ page[t] # "clicking"
  BY <1>2 DEF Ops, Calls
<1>. QED BY <1>1, <1>3, <1>4, <1>6, <1>7, <1>8, RepliedInv, CallTable

\* Completing the mission: a cart mission from the cart, another one from the
\* store's confirmation of its order.
LEMMA HandledComplete ==
  ASSUME FlowInv, LaneInv', Members = {}, NEW t \in Owners, Handled(t),
         NEW op \in {"complete", "confirm"}, call[t].op = op
  PROVE  FlowInv'
<1>. DEFINE p == PageOf[t]
<1>0. call[t] # NoCall
  BY DEF Handled
<1>1. FlowReady(Now) /\ Guarded(Now) /\ p \in Products /\ Read(call[t].config) = Now
      /\ AddIsWhere(Now, t) /\ ReportFits(Now, t)
      /\ units \in [Products -> Nat] /\ orders \in [Products -> Nat] /\ page[t] \in CallPages[op]
  BY <1>0, Found
<1>2. /\ op = "complete" => page[t] = "carted" /\ ActionOf[p] = "cart"
      /\ op = "confirm" => page[t] = "submitted" /\ verdict[t] = "accepted"
  BY <1>0, <1>1 DEF CallPages, FlowInv, CallFits
<1>3. st' = CompleteOutcome(Now, p) /\ config' = config
  BY <1>1 DEF Handled, HandledByLane, CompleteProduct, Handle, desktop
<1>4. ActionOf[p] # "watch" /\ (ActionOf[p] \in {"review", "checkout"} => orders[p] > 0)
  <2>1. CASE op = "complete"
    BY <1>2, <2>1
  <2>2. CASE op = "confirm"
    <3>1. orders[p] > 0
      BY <1>1, <1>2, <2>2 DEF ReportFits
    <3>2. OrderFits(Now, p)
      BY <1>1 DEF FlowReady, StoreFits
    <3>. QED BY <3>1, <3>2 DEF OrderFits
  <2>. QED BY <2>1, <2>2
<1>5. FlowReady(st') /\ (op = "confirm" => PageFits(st', t, "submitted"))
  <2>1. CASE CanComplete(Now, p)
    <3>1. st' = Complete(Now, p)
      BY <1>3, <2>1 DEF CompleteOutcome
    <3>2. FlowReady(st') /\ CompletionWrites(Now, st', p)
      BY <1>1, <1>4, <2>1, <3>1, CompletionReady
    <3>3. st'.add[p].phase = "idle"
      BY <3>2 DEF CompletionWrites, IdleAdd
    <3>. QED BY <3>2, <3>3 DEF PageFits
  <2>2. CASE ~CanComplete(Now, p)
    <3>1. st' = Now
      BY <1>3, <2>2 DEF CompleteOutcome
    <3>2. op = "confirm" => PageFits(Now, t, "submitted")
      BY <1>1, <1>2, SubmittedPageFits
    <3>. QED BY <1>1, <3>1, <3>2
  <2>. QED BY <2>1, <2>2
<1>6. GoodStep(st', st', p, t)
  BY <1>1, <1>5, ClaimGood
<1>7. PageFits(st', t, "carted") /\ PageFits(st', t, "finished")
  BY PlainPageFits DEF PlainPages
<1>8. op \in Ops /\ page[t] # "clicking"
  BY <1>2 DEF Ops, Calls
<1>9. PageFits(st', t, Calls[op].granted) /\ PageFits(st', t, Calls[op].refused)
      /\ Calls[op].granted # "authorized" /\ Calls[op].refused # "authorized"
  BY <1>5, <1>7, CallTable
<1>. QED BY <1>1, <1>3, <1>5, <1>6, <1>8, <1>9, RepliedInv

\* Every handled call.
LEMMA HandledInv ==
  ASSUME FlowInv, LaneInv', Members = {}, NEW t \in Owners, Handled(t)
  PROVE  FlowInv'
<1>1. call[t].op \in Ops
  <2>1. call[t] # NoCall
    BY DEF Handled
  <2>. QED BY <2>1, Found
<1>2. call[t].op \in {"prepare", "authorize", "release", "cancel", "clicked", "confirmed",
        "failed", "claim", "reclaim", "yield", "handoff", "intent", "submitted", "observed",
        "rejected", "complete", "confirm"}
  BY <1>1 DEF Ops, Calls
<1>3. CASE call[t].op \in {"prepare", "authorize", "release", "yield", "claim", "reclaim"}
  BY <1>3, HandledPrepare, HandledAuthorize, HandledRelease, HandledClaim
<1>4. CASE call[t].op \in {"cancel", "clicked", "confirmed", "failed"}
  BY <1>4, HandledCancel, HandledClicked, HandledConfirmed, HandledFailedAdd
<1>5. CASE call[t].op \in {"handoff", "intent", "submitted", "observed", "rejected"}
  BY <1>5, HandledHandoff, HandledIntent, HandledSubmitted, HandledObserved, HandledRejected
<1>6. CASE call[t].op \in {"complete", "confirm"}
  BY <1>6, HandledComplete
<1>. QED BY <1>2, <1>3, <1>4, <1>5, <1>6

--------------------------------------------------------------------------------
(* Steps of the tabs alone *)

\* A step that leaves the worker's record and the desktop alone.
LEMMA PageStepInv ==
  ASSUME FlowInv, LaneInv', st' = st, config' = config, FlowTypeOK',
         \A u \in Owners : CallFits(u)' /\ TabFits(Cur, u)',
         \A p \in Products : StoreFits(Cur, p)'
  PROVE  FlowInv'
<1>1. LaneSafe(st') /\ st'.run <= config'.run
  BY DEF FlowInv
<1>. QED BY <1>1 DEF FlowInv

\* A tab that is in no call goes to another page, or is refused, or reloaded.
Moved(t, x) ==
  /\ page' = [page EXCEPT ![t] = x] /\ call' = [call EXCEPT ![t] = NoCall]
  /\ verdict' = verdict \/ verdict' = [verdict EXCEPT ![t] = "none"]
  /\ UNCHANGED <<st, config, units, orders, abandoned>>

\* A tab that only moves, to a page that fits, keeps the invariant.
LEMMA MovedInv ==
  ASSUME FlowInv, LaneInv', NEW t \in Owners, NEW x \in Pages, Moved(t, x),
         x \notin {"clicking", "authorized", "intent"}, page[t] # "clicking", PageFits(Cur, t, x)
  PROVE  FlowInv'
<1>0. FlowTypeOK /\ (\A u \in Owners : CallFits(u) /\ TabFits(Cur, u)) /\ \A q \in Products : StoreFits(Cur, q)
  BY DEF FlowInv
<1>1. st' = st /\ config' = config /\ units' = units /\ orders' = orders /\ abandoned' = abandoned
  BY DEF Moved
<1>2. Cur' = Cur
  BY <1>1 DEF Cur
<1>3. page'[t] = x /\ call'[t] = NoCall /\ verdict'[t] \in {verdict[t], "none"}
      /\ \A u \in Owners \ {t} : Unmoved(u)
  BY <1>0 DEF Moved, Unmoved, FlowTypeOK
<1>4. NoCall.op = "none" /\ NoCall \in [op : Ops \cup {"none"}, config : Configs]
  BY DEF NoCall, Configs
<1>5. FlowTypeOK'
  <2>1. page' \in [Owners -> Pages] /\ call' \in [Owners -> [op : Ops \cup {"none"}, config : Configs]]
    BY <1>0, <1>4 DEF Moved, FlowTypeOK
  <2>2. verdict' \in [Owners -> {"none", "accepted", "rejected"}]
    BY <1>0 DEF Moved, FlowTypeOK
  <2>. QED BY <1>0, <1>1, <2>1, <2>2 DEF FlowTypeOK
<1>6. \A u \in Owners : CallFits(u)'
  <2>. SUFFICES ASSUME NEW u \in Owners PROVE CallFits(u)'
    OBVIOUS
  <2>1. CASE u = t
    BY <1>3, <2>1 DEF CallFits
  <2>2. CASE u # t
    BY <1>0, <1>1, <1>3, <2>2, CallUnmoved
  <2>. QED BY <2>1, <2>2
<1>7. \A u \in Owners : TabFits(Cur, u)'
  <2>. SUFFICES ASSUME NEW u \in Owners PROVE TabFits(Cur, u)'
    OBVIOUS
  <2>1. CASE u = t
    <3>1. ClickFits(Cur, t)' /\ SubmitFits(Cur, t)'
      BY <1>3 DEF ClickFits, SubmitFits, Authorized
    <3>2. AddIsWhere(Cur, t)'
      BY <1>2, <1>3 DEF AddIsWhere, PageFits
    <3>3. ReportFits(Cur, t)'
      <4>1. ReportFits(Cur, t)
        BY <1>0 DEF TabFits
      <4>. QED BY <1>1, <1>3, <1>4, <4>1 DEF ReportFits
    <3>. QED BY <2>1, <3>1, <3>2, <3>3 DEF TabFits
  <2>2. CASE u # t
    BY <1>0, <1>1, <1>2, <1>3, <2>2, TabUnmoved
  <2>. QED BY <2>1, <2>2
<1>8. \A q \in Products : StoreFits(Cur, q)'
  <2>. SUFFICES ASSUME NEW q \in Products PROVE StoreFits(Cur, q)'
    OBVIOUS
  <2>1. Clicking(q)' <=> Clicking(q)
    <3>1. \A u \in Owners : page'[u] = "clicking" <=> page[u] = "clicking"
      BY <1>3 DEF Unmoved
    <3>. QED BY <3>1 DEF Clicking, ReceiptPending
  <2>2. CartFits(Cur, q) /\ OrderFits(Cur, q) /\ GivenUpFits(Cur, q)
    BY <1>0 DEF StoreFits
  <2>3. CartFits(Cur, q)'
    BY <1>1, <1>2, <2>1, <2>2 DEF CartFits
  <2>4. OrderFits(Cur, q)'
    <3>1. \A u \in Owners : verdict'[u] \in {verdict[u], "none"}
      BY <1>3 DEF Unmoved
    <3>. QED BY <1>1, <1>2, <2>1, <2>2, <3>1 DEF OrderFits
  <2>5. GivenUpFits(Cur, q)'
    <3>1. \A u \in Owners : page'[u] \in {page[u], x} /\ call'[u] \in {call[u], NoCall}
      BY <1>3 DEF Unmoved
    <3>. QED BY <1>1, <1>2, <1>4, <2>2, <3>1 DEF GivenUpFits, Authorized
  <2>. QED BY <2>3, <2>4, <2>5 DEF StoreFits
<1>. QED BY <1>1, <1>5, <1>6, <1>7, <1>8, PageStepInv

\* Going to another page.
LEMMA GoneInv ==
  ASSUME FlowInv, LaneInv', NEW t \in Owners, NEW x \in PlainPages \cup {"withdrawn"},
         Goto(t, x), UNCHANGED store, call[t] = NoCall, page[t] # "clicking", PageFits(Cur, t, x)
  PROVE  FlowInv'
<1>1. Moved(t, x)
  <2>1. call' = [call EXCEPT ![t] = NoCall]
    BY DEF Goto, FlowInv, FlowTypeOK
  <2>. QED BY <2>1 DEF Goto, store, vars, Moved
<1>2. x \in Pages
  <2>1. PlainPages \subseteq {Calls["prepare"].refused, Calls["clicked"].granted, "cart",
          Calls["confirmed"].granted, Calls["claim"].granted, Calls["complete"].granted}
    BY CallTable DEF PlainPages
  <2>2. {"prepare", "clicked", "confirmed", "claim", "complete", "cancel", "release"} \subseteq Ops
    BY DEF Ops, Calls
  <2>. QED BY <2>1, <2>2, CallTable DEF Pages
<1>3. x \notin {"clicking", "authorized", "intent"}
  BY DEF PlainPages
<1>. QED BY <1>1, <1>2, <1>3, MovedInv

\* The moves of a tab between pages.
LEMMA TabGoesInv ==
  ASSUME FlowInv, LaneInv', NEW t \in Owners,
         ReturnToCart(t) \/ ControlGone(t) \/ OpenCart(t) \/ LineVerified(t) \/ SubmitGone(t)
  PROVE  FlowInv'
<1>1. CASE ReturnToCart(t) \/ OpenCart(t)
  <2>1. PageFits(Cur, t, "cart") /\ "cart" \in PlainPages
    BY PlainPageFits DEF PlainPages
  <2>2. Goto(t, "cart") /\ UNCHANGED store /\ call[t] = NoCall /\ page[t] # "clicking"
    BY <1>1 DEF ReturnToCart, OpenCart, Idle
  <2>. QED BY <2>1, <2>2, GoneInv
<1>2. CASE LineVerified(t)
  <2>1. PageFits(Cur, t, "carted") /\ "carted" \in PlainPages
    BY PlainPageFits DEF PlainPages
  <2>2. Goto(t, "carted") /\ UNCHANGED store /\ call[t] = NoCall /\ page[t] # "clicking"
    BY <1>2 DEF LineVerified, Idle
  <2>. QED BY <2>1, <2>2, GoneInv
<1>3. CASE SubmitGone(t)
  <2>1. PageFits(Cur, t, "checkout") /\ "checkout" \in PlainPages
    BY PlainPageFits DEF PlainPages
  <2>2. Goto(t, "checkout") /\ UNCHANGED store /\ call[t] = NoCall /\ page[t] # "clicking"
    BY <1>3 DEF SubmitGone, Idle
  <2>. QED BY <2>1, <2>2, GoneInv
<1>4. CASE ControlGone(t)
  <2>1. Goto(t, "withdrawn") /\ UNCHANGED store /\ call[t] = NoCall /\ page[t] = "authorized"
    BY <1>4 DEF ControlGone, Idle
  <2>2. ClickFits(Cur, t) /\ Authorized(t)
    BY <2>1 DEF FlowInv, TabFits, Authorized
  <2>3. PageFits(Cur, t, "withdrawn")
    BY <2>2 DEF ClickFits, PageFits
  <2>. QED BY <2>1, <2>3, GoneInv
<1>. QED BY <1>1, <1>2, <1>3, <1>4

\* A call that fails, and a page that is reloaded.
LEMMA FailedInv ==
  ASSUME FlowInv, LaneInv', Faults = {}, NEW t \in Owners, Failed(t)
  PROVE  FlowInv'
<1>. DEFINE x == Calls[call[t].op].refused
<1>1. call[t] # NoCall /\ page[t] # "clicking"
  BY DEF Failed, ReceiptPending
<1>2. call[t].op \in Ops /\ page[t] \in CallPages[call[t].op] /\ AddIsWhere(Cur, t)
  BY <1>1 DEF FlowInv, CallFits, TabFits
<1>3. Moved(t, x)
  BY DEF Failed, Reply, store, vars, Moved
<1>4. x \in Pages \ {"clicking"}
  BY <1>2, AnswerPages
<1>5. x \in PlainPages \cup {"withdrawn", "submitted"}
      /\ (x = "withdrawn" => call[t].op \in {"authorize", "release"})
      /\ (x = "submitted" => call[t].op \in {"submitted", "observed", "rejected", "confirm"})
  BY <1>2 DEF Ops, Calls, PlainPages
<1>6. PageFits(Cur, t, x)
  <2>1. CASE x \in PlainPages
    BY <2>1, PlainPageFits
  <2>2. CASE x = "withdrawn"
    <3>1. page[t] = "reserved"
      BY <1>2, <1>5, <2>2 DEF CallPages
    <3>2. PageFits(Cur, t, "withdrawn")
      BY <1>2, <3>1 DEF AddIsWhere, PageFits
    <3>. QED BY <2>2, <3>2
  <2>3. CASE x = "submitted"
    <3>1. page[t] \in {"submitting", "submitted"}
      BY <1>2, <1>5, <2>3 DEF CallPages
    <3>2. PageFits(Cur, t, "submitted")
      BY <1>2, <3>1, SubmittedPageFits
    <3>. QED BY <2>3, <3>2
  <2>. QED BY <1>5, <2>1, <2>2, <2>3
<1>7. x \notin {"clicking", "authorized", "intent"}
  BY <1>5 DEF PlainPages
<1>. HIDE DEF x
<1>. QED BY <1>1, <1>3, <1>4, <1>6, <1>7, MovedInv

\* A reload.
LEMMA ReloadInv ==
  ASSUME FlowInv, LaneInv', Faults = {}, NEW t \in Owners, Reload(t)
  PROVE  FlowInv'
<1>1. page[t] # "clicking"
  BY DEF Reload, ReceiptPending
<1>2. PICK x \in {"product", "cart", "checkout"} : page' = [page EXCEPT ![t] = x]
  BY DEF Reload
<1>3. Moved(t, x)
  BY <1>2 DEF Reload, vars, store, Moved
<1>4. PageFits(Cur, t, x)
  BY PlainPageFits DEF PlainPages
<1>5. x \in Pages
  <2>1. {"prepare", "claim"} \subseteq Ops
    BY DEF Ops, Calls
  <2>. QED BY <2>1, CallTable DEF Pages
<1>. QED BY <1>1, <1>3, <1>4, <1>5, MovedInv

\* A tab makes a call.
LEMMA AskedInv ==
  ASSUME FlowInv, LaneInv', NEW t \in Owners, NEW op \in Ops, Send(t, op),
         page[t] \in CallPages[op],
         op = "prepare" => ActionOf[PageOf[t]] # "watch",
         op = "complete" => ActionOf[PageOf[t]] = "cart",
         op = "handoff" => ActionOf[PageOf[t]] = "review",
         op = "intent" => ActionOf[PageOf[t]] = "checkout",
         op = "rejected" => verdict[t] = "rejected",
         op = "confirm" => verdict[t] = "accepted",
         op = "failed" /\ Cur.add[PageOf[t]].owner = t =>
           /\ units[PageOf[t]] = 0
           /\ ActionOf[PageOf[t]] = "review" /\ PageOf[t] \notin Cur.done => orders[PageOf[t]] = 0
  PROVE  FlowInv'
<1>0. FlowTypeOK /\ (\A u \in Owners : CallFits(u) /\ TabFits(Cur, u)) /\ \A q \in Products : StoreFits(Cur, q)
  BY DEF FlowInv
<1>1. /\ st' = st /\ config' = config /\ units' = units /\ orders' = orders /\ abandoned' = abandoned
      /\ page' = page /\ verdict' = verdict
      /\ call' = [call EXCEPT ![t] = [op |-> op, config |-> config]]
  BY DEF Send, vars, store
<1>2. Cur' = Cur
  BY <1>1 DEF Cur
<1>3. call'[t] = [op |-> op, config |-> config] /\ \A u \in Owners \ {t} : Unmoved(u)
  BY <1>0, <1>1 DEF Unmoved, FlowTypeOK
<1>4. call'[t].op = op /\ call'[t].config = config
  BY <1>3
<1>5. FlowTypeOK'
  <2>1. config \in Configs
    BY DEF FlowInv, LaneInv
  <2>2. call' \in [Owners -> [op : Ops \cup {"none"}, config : Configs]]
    BY <1>0, <1>1, <2>1 DEF FlowTypeOK
  <2>. QED BY <1>0, <1>1, <2>2 DEF FlowTypeOK
<1>6. \A u \in Owners : CallFits(u)'
  <2>. SUFFICES ASSUME NEW u \in Owners PROVE CallFits(u)'
    OBVIOUS
  <2>1. CASE u = t
    BY <1>1, <1>4, <2>1 DEF CallFits
  <2>2. CASE u # t
    BY <1>0, <1>1, <1>3, <2>2, CallUnmoved
  <2>. QED BY <2>1, <2>2
<1>7. \A u \in Owners : TabFits(Cur, u)'
  <2>. SUFFICES ASSUME NEW u \in Owners PROVE TabFits(Cur, u)'
    OBVIOUS
  <2>1. CASE u = t
    <3>1. ClickFits(Cur, t) /\ SubmitFits(Cur, t) /\ AddIsWhere(Cur, t) /\ ReportFits(Cur, t)
      BY <1>0 DEF TabFits
    <3>2. ClickFits(Cur, t)'
      BY <1>1, <1>2, <3>1 DEF ClickFits, Authorized
    <3>3. SubmitFits(Cur, t)'
      BY <1>1, <1>2, <3>1 DEF SubmitFits
    <3>4. AddIsWhere(Cur, t)'
      BY <1>1, <1>2, <3>1 DEF AddIsWhere
    <3>5. ReportFits(Cur, t)'
      BY <1>1, <1>2, <1>4, <3>1 DEF ReportFits
    <3>. QED BY <2>1, <3>2, <3>3, <3>4, <3>5 DEF TabFits
  <2>2. CASE u # t
    BY <1>0, <1>1, <1>2, <1>3, <2>2, TabUnmoved
  <2>. QED BY <2>1, <2>2
<1>8. \A q \in Products : StoreFits(Cur, q)'
  <2>. SUFFICES ASSUME NEW q \in Products PROVE StoreFits(Cur, q)'
    OBVIOUS
  <2>1. Clicking(q)' <=> Clicking(q)
    BY <1>1 DEF Clicking, ReceiptPending
  <2>2. CartFits(Cur, q) /\ OrderFits(Cur, q) /\ GivenUpFits(Cur, q)
    BY <1>0 DEF StoreFits
  <2>3. CartFits(Cur, q)'
    BY <1>1, <1>2, <2>1, <2>2 DEF CartFits
  <2>4. OrderFits(Cur, q)'
    BY <1>1, <1>2, <2>1, <2>2 DEF OrderFits
  <2>5. GivenUpFits(Cur, q)'
    <3>1. \A u \in Owners : call'[u] = call[u] \/ call'[u].config = config
      BY <1>3, <1>4 DEF Unmoved
    <3>. QED BY <1>1, <1>2, <2>2, <3>1 DEF GivenUpFits, Authorized
  <2>. QED BY <2>3, <2>4, <2>5 DEF StoreFits
<1>. QED BY <1>1, <1>5, <1>6, <1>7, <1>8, PageStepInv

\* The operations and where they are called from.
LEMMA CallPlaces ==
  /\ {"prepare", "authorize", "release", "cancel", "clicked", "confirmed", "failed", "claim",
      "reclaim", "yield", "handoff", "intent", "submitted", "observed", "rejected",
      "complete", "confirm"} \subseteq Ops
  /\ CallPages["prepare"] = {"product"} /\ CallPages["authorize"] = {"reserved"}
  /\ CallPages["release"] = {"reserved"} /\ CallPages["cancel"] = {"reserved", "withdrawn"}
  /\ CallPages["clicked"] = {"clicking"} /\ CallPages["confirmed"] = {"cart"}
  /\ CallPages["failed"] = {"settling", "product", "cart"}
  /\ CallPages["claim"] = {"carted"} /\ CallPages["reclaim"] = {"checkout"}
  /\ CallPages["yield"] = {"summary"} /\ CallPages["handoff"] = {"summary"}
  /\ CallPages["intent"] = {"summary"} /\ CallPages["submitted"] = {"submitting"}
  /\ CallPages["observed"] = {"submitted"} /\ CallPages["rejected"] = {"submitted"}
  /\ CallPages["complete"] = {"carted"} /\ CallPages["confirm"] = {"submitted"}
BY DEF Ops, Calls, CallPages

\* The calls of the product page.
LEMMA ProductPageAsks ==
  ASSUME FlowInv, LaneInv', NEW t \in Owners,
         AskPrepare(t) \/ Withdraw(t) \/ AskAuthorize(t) \/ AskCancel(t) \/ AskClicked(t)
  PROVE  FlowInv'
<1>1. CASE AskPrepare(t)
  BY <1>1, AskedInv, CallPlaces DEF AskPrepare, Idle, Ask
<1>2. CASE Withdraw(t)
  BY <1>2, AskedInv, CallPlaces DEF Withdraw, Idle, Ask
<1>3. CASE AskAuthorize(t)
  BY <1>3, AskedInv, CallPlaces DEF AskAuthorize, Idle, Ask
<1>4. CASE AskCancel(t)
  BY <1>4, AskedInv, CallPlaces DEF AskCancel, Idle, Ask
<1>5. CASE AskClicked(t)
  BY <1>5, AskedInv, CallPlaces DEF AskClicked, Idle, Ask
<1>. QED BY <1>1, <1>2, <1>3, <1>4, <1>5

\* A report of a failed Add that is not wrong: there is nothing of it.
LEMMA ReportedInv ==
  ASSUME FlowInv, LaneInv', Members = {}, misread' = {}, NEW t \in Owners, NEW wrong \in BOOLEAN,
         ReportFailed(t, wrong), page[t] \in {"settling", "product", "cart"},
         ~wrong => ~LineShown(t) /\ ~OrderedByHand(PageOf[t])
  PROVE  FlowInv'
<1>0. PageOf[t] \in Products /\ units[PageOf[t]] \in Nat /\ orders[PageOf[t]] \in Nat
  BY FlowAssumption DEF FlowInv, FlowTypeOK
<1>1. StateInv(Cur) /\ Now = Normalized(Cur)
  BY ReadFacts
<1>2. Now.done = Cur.done
  BY <1>1, NormalizedFields DEF SameReceipts, StateInv
<1>3. Send(t, "failed") /\ (wrong => PageOf[t] \in Cur.done)
  BY <1>2 DEF ReportFailed
<1>4. ASSUME Cur.add[PageOf[t]].owner = t
      PROVE  PageOf[t] \notin Cur.done
  <2>. SUFFICES ASSUME PageOf[t] \in Cur.done PROVE FALSE
    OBVIOUS
  <2>1. Cur.add[PageOf[t]] = IdleAdd
    BY <1>0, <1>1 DEF StateInv, Sealed
  <2>. QED BY <1>4, <2>1, NobodysNames DEF IdleAdd
<1>5. Cur.add[PageOf[t]].owner = t =>
        /\ units[PageOf[t]] = 0
        /\ ActionOf[PageOf[t]] = "review" /\ PageOf[t] \notin Cur.done => orders[PageOf[t]] = 0
  BY <1>0, <1>3, <1>4 DEF LineShown, OrderedByHand
<1>. QED BY <1>3, <1>5, AskedInv, CallPlaces

\* The three pages on which an Add is reported as failed.
LEMMA FailureReports ==
  ASSUME FlowInv, LaneInv', Members = {}, misread' = {}, NEW t \in Owners,
         AskRejectedAdd(t) \/ AskStoreError(t) \/ AskFailed(t)
  PROVE  FlowInv'
<1>1. CASE AskRejectedAdd(t) \/ AskStoreError(t)
  <2>1. /\ ReportFailed(t, LineShown(t) \/ OrderedByHand(PageOf[t]))
        /\ page[t] \in {"settling", "product", "cart"}
    BY <1>1 DEF AskRejectedAdd, AskStoreError, Idle
  <2>. QED BY <2>1, ReportedInv
<1>2. CASE AskFailed(t)
  <2>1. ReportFailed(t, OrderedByHand(PageOf[t])) /\ page[t] \in {"settling", "product", "cart"}
        /\ ~LineShown(t) /\ OrderedByHand(PageOf[t]) \in BOOLEAN
    BY <1>2 DEF AskFailed, Idle, OrderedByHand
  <2>. QED BY <2>1, ReportedInv
<1>. QED BY <1>1, <1>2

\* The other calls of the cart page.
LEMMA CartPageAsks ==
  ASSUME FlowInv, LaneInv', NEW t \in Owners,
         AskConfirmed(t) \/ AskComplete(t) \/ AskClaim(t)
  PROVE  FlowInv'
<1>1. CASE AskConfirmed(t)
  BY <1>1, AskedInv, CallPlaces DEF AskConfirmed, Idle, Ask
<1>2. CASE AskComplete(t)
  BY <1>2, AskedInv, CallPlaces DEF AskComplete, Idle, Ask
<1>3. CASE AskClaim(t)
  BY <1>3, AskedInv, CallPlaces DEF AskClaim, Idle, Ask
<1>. QED BY <1>1, <1>2, <1>3

\* The calls of the checkout page.
LEMMA CheckoutAsks ==
  ASSUME FlowInv, LaneInv', NEW t \in Owners,
         \/ AskReclaim(t) \/ AskYield(t) \/ AskHandoff(t) \/ AskIntent(t) \/ AskSubmitted(t)
         \/ AskRejected(t) \/ AskConfirm(t)
  PROVE  FlowInv'
<1>1. CASE AskReclaim(t)
  BY <1>1, AskedInv, CallPlaces DEF AskReclaim, Idle, Ask
<1>2. CASE AskYield(t)
  BY <1>2, AskedInv, CallPlaces DEF AskYield, Idle, Ask
<1>3. CASE AskHandoff(t)
  BY <1>3, AskedInv, CallPlaces DEF AskHandoff, Idle, Ask
<1>4. CASE AskIntent(t)
  BY <1>4, AskedInv, CallPlaces DEF AskIntent, Idle, Ask
<1>5. CASE AskSubmitted(t)
  BY <1>5, AskedInv, CallPlaces DEF AskSubmitted, Idle, Ask
<1>6. CASE AskRejected(t)
  BY <1>6, AskedInv, CallPlaces DEF AskRejected, Idle, Ask
<1>7. CASE AskConfirm(t)
  BY <1>7, AskedInv, CallPlaces DEF AskConfirm, Idle, Ask
<1>. QED BY <1>1, <1>2, <1>3, <1>4, <1>5, <1>6, <1>7

--------------------------------------------------------------------------------
(* Steps that change the store *)

\* A tab of another mission than the one whose store changes.
LEMMA ElsewhereFits ==
  ASSUME NEW u \in Owners, TabFits(Cur, u), Unmoved(u), Cur' = Cur,
         units'[PageOf[u]] = units[PageOf[u]], orders'[PageOf[u]] = orders[PageOf[u]]
  PROVE  TabFits(Cur, u)'
BY TabUnmoved

\* The click on Add to cart: one tab may do it, and it has added nothing yet.
LEMMA ClickAddInv ==
  ASSUME FlowInv, LaneInv', NEW t \in Owners, ClickAdd(t)
  PROVE  FlowInv'
<1>. DEFINE p == PageOf[t]
<1>0. FlowTypeOK /\ (\A u \in Owners : CallFits(u) /\ TabFits(Cur, u)) /\ \A q \in Products : StoreFits(Cur, q)
  BY DEF FlowInv
<1>1. /\ st' = st /\ config' = config /\ orders' = orders /\ abandoned' = abandoned
      /\ call' = call /\ verdict' = verdict /\ page' = [page EXCEPT ![t] = "clicking"]
      /\ call[t] = NoCall /\ page[t] = "authorized"
  BY DEF ClickAdd, Goto, Idle, vars
<1>2. PICK added \in {0, 1} : units' = [units EXCEPT ![p] = @ + added]
  BY DEF ClickAdd
<1>3. Cur' = Cur
  BY <1>1 DEF Cur
<1>4. p \in Products /\ units[p] = 0 /\ orders[p] = 0 /\ Cur.add[p] = [phase |-> "reserved", owner |-> t]
      /\ p \notin Cur.done /\ OwnsLane(Cur, p, t) /\ Cur.wf[p].owner = t
  <2>1. ClickFits(Cur, t) /\ Authorized(t)
    BY <1>0, <1>1 DEF TabFits, Authorized
  <2>. QED BY <1>1, <2>1, FlowAssumption DEF ClickFits
<1>5. /\ units'[p] \in {0, 1} /\ \A q \in Products \ {p} : units'[q] = units[q]
      /\ page'[t] = "clicking" /\ \A u \in Owners \ {t} : Unmoved(u)
  BY <1>0, <1>1, <1>2, <1>4 DEF FlowTypeOK, Unmoved
<1>6. FlowTypeOK'
  <2>1. units' \in [Products -> Nat]
    BY <1>0, <1>2, <1>4 DEF FlowTypeOK
  <2>2. "clicking" \in Pages
    BY DEF Pages
  <2>. QED BY <1>0, <1>1, <2>1, <2>2 DEF FlowTypeOK
<1>7. \A u \in Owners : CallFits(u)'
  <2>. SUFFICES ASSUME NEW u \in Owners PROVE CallFits(u)'
    OBVIOUS
  <2>1. CASE u = t
    BY <1>1, <2>1 DEF CallFits
  <2>2. CASE u # t
    BY <1>0, <1>1, <1>5, <2>2, CallUnmoved
  <2>. QED BY <2>1, <2>2
<1>8. \A u \in Owners : TabFits(Cur, u)'
  <2>. SUFFICES ASSUME NEW u \in Owners PROVE TabFits(Cur, u)'
    OBVIOUS
  <2>0. PageOf[u] \in Products /\ ClickFits(Cur, u) /\ SubmitFits(Cur, u) /\ AddIsWhere(Cur, u) /\ ReportFits(Cur, u)
    BY <1>0, FlowAssumption DEF TabFits
  <2>1. CASE u = t
    <3>1. NoCall.op = "none"
      BY DEF NoCall
    <3>2. ClickFits(Cur, t)'
      BY <1>3, <1>4, <1>5 DEF ClickFits
    <3>3. SubmitFits(Cur, t)' /\ AddIsWhere(Cur, t)'
      BY <1>5 DEF SubmitFits, AddIsWhere
    <3>4. ReportFits(Cur, t)'
      BY <1>1, <1>3, <2>0, <2>1, <3>1 DEF ReportFits
    <3>. QED BY <2>1, <3>2, <3>3, <3>4 DEF TabFits
  <2>2. CASE u # t /\ PageOf[u] # p
    BY <1>0, <1>1, <1>3, <1>5, <2>0, <2>2, ElsewhereFits
  <2>3. CASE u # t /\ PageOf[u] = p
    <3>1. Cur.add[p].owner # u /\ Unmoved(u)
      BY <1>4, <1>5, <2>3
    <3>2. ClickFits(Cur, u)'
      BY <1>3, <2>0, <2>3, <3>1 DEF ClickFits, Authorized, Unmoved
    <3>3. SubmitFits(Cur, u)'
      BY <1>1, <1>3, <2>0, <3>1 DEF SubmitFits, Unmoved
    <3>4. AddIsWhere(Cur, u)'
      BY <1>3, <2>0, <3>1 DEF AddIsWhere, Unmoved
    <3>5. ReportFits(Cur, u)'
      BY <1>1, <1>3, <2>0, <2>3, <3>1 DEF ReportFits, Unmoved
    <3>. QED BY <3>2, <3>3, <3>4, <3>5 DEF TabFits
  <2>. QED BY <2>1, <2>2, <2>3
<1>9. \A q \in Products : StoreFits(Cur, q)'
  <2>. SUFFICES ASSUME NEW q \in Products PROVE StoreFits(Cur, q)'
    OBVIOUS
  <2>0. CartFits(Cur, q) /\ OrderFits(Cur, q) /\ GivenUpFits(Cur, q)
    BY <1>0 DEF StoreFits
  <2>1. CASE q # p
    <3>1. \A u \in Owners : PageOf[u] = q => Unmoved(u)
      BY <1>5, <2>1
    <3>2. StoreFits(Cur, q)
      BY <1>0
    <3>. QED BY <1>1, <1>3, <1>5, <2>1, <3>1, <3>2, StoreUnmoved
  <2>2. CASE q = p
    <3>1. Clicking(p)'
      BY <1>5 DEF Clicking, ReceiptPending
    <3>2. Cur.add[p].phase # "idle"
      BY <1>4
    <3>3. CartFits(Cur, p)'
      BY <1>1, <1>3, <1>4, <1>5, <3>1, <3>2 DEF CartFits
    <3>4. OrderFits(Cur, p)'
      BY <1>1, <1>3, <1>4, <2>0, <2>2, <3>1 DEF OrderFits
    <3>5. GivenUpFits(Cur, p)'
      <4>1. p \notin abandoned
        <5>1. Authorized(t)
          BY <1>1 DEF Authorized
        <5>. QED BY <2>0, <2>2, <5>1 DEF GivenUpFits
      <4>. QED BY <1>1, <4>1 DEF GivenUpFits
    <3>. QED BY <2>2, <3>3, <3>4, <3>5 DEF StoreFits
  <2>. QED BY <2>1, <2>2
<1>. QED BY <1>1, <1>6, <1>7, <1>8, <1>9, PageStepInv

\* The store drops the line.
LEMMA DropInv ==
  ASSUME FlowInv, LaneInv', NEW p \in Products, CartDrops(p)
  PROVE  FlowInv'
<1>0. FlowTypeOK /\ (\A u \in Owners : CallFits(u) /\ TabFits(Cur, u)) /\ \A q \in Products : StoreFits(Cur, q)
  BY DEF FlowInv
<1>1. /\ st' = st /\ config' = config /\ orders' = orders /\ abandoned' = abandoned
      /\ call' = call /\ verdict' = verdict /\ page' = page
      /\ units' = [units EXCEPT ![p] = 0]
  BY DEF CartDrops, vars, tabs
<1>3. Cur' = Cur
  BY <1>1 DEF Cur
<1>5. units'[p] = 0 /\ \A q \in Products : units'[q] \in {units[q], 0}
  BY <1>0, <1>1 DEF FlowTypeOK
<1>6. FlowTypeOK'
  <2>1. units' \in [Products -> Nat]
    BY <1>0, <1>1 DEF FlowTypeOK
  <2>. QED BY <1>0, <1>1, <2>1 DEF FlowTypeOK
<1>7. \A u \in Owners : CallFits(u)'
  BY <1>0, <1>1 DEF CallFits
<1>8. \A u \in Owners : TabFits(Cur, u)'
  <2>. SUFFICES ASSUME NEW u \in Owners PROVE TabFits(Cur, u)'
    OBVIOUS
  <2>0. PageOf[u] \in Products /\ ClickFits(Cur, u) /\ SubmitFits(Cur, u) /\ AddIsWhere(Cur, u) /\ ReportFits(Cur, u)
    BY <1>0, FlowAssumption DEF TabFits
  <2>1. units'[PageOf[u]] \in {units[PageOf[u]], 0}
    BY <1>5, <2>0
  <2>2. ClickFits(Cur, u)'
    BY <1>1, <1>3, <2>0, <2>1 DEF ClickFits, Authorized
  <2>3. SubmitFits(Cur, u)'
    BY <1>1, <1>3, <2>0 DEF SubmitFits
  <2>4. AddIsWhere(Cur, u)'
    BY <1>1, <1>3, <2>0 DEF AddIsWhere
  <2>5. ReportFits(Cur, u)'
    BY <1>1, <1>3, <2>0, <2>1 DEF ReportFits
  <2>. QED BY <2>2, <2>3, <2>4, <2>5 DEF TabFits
<1>9. \A q \in Products : StoreFits(Cur, q)'
  <2>. SUFFICES ASSUME NEW q \in Products PROVE StoreFits(Cur, q)'
    OBVIOUS
  <2>0. CartFits(Cur, q) /\ OrderFits(Cur, q) /\ GivenUpFits(Cur, q) /\ units'[q] \in {units[q], 0}
    BY <1>0, <1>5 DEF StoreFits
  <2>1. Clicking(q)' <=> Clicking(q)
    BY <1>1 DEF Clicking, ReceiptPending
  <2>2. CartFits(Cur, q)'
    BY <1>1, <1>3, <2>0, <2>1 DEF CartFits
  <2>3. OrderFits(Cur, q)'
    BY <1>1, <1>3, <2>0, <2>1 DEF OrderFits
  <2>4. GivenUpFits(Cur, q)'
    BY <1>1, <1>3, <2>0 DEF GivenUpFits, Authorized
  <2>. QED BY <2>2, <2>3, <2>4 DEF StoreFits
<1>. QED BY <1>1, <1>6, <1>7, <1>8, <1>9, PageStepInv

\* The order of p that t places is accepted or not, and the tab may show which.
OrderDone(t, p) ==
  \/ units'[p] = units[p] /\ orders'[p] = orders[p] /\ verdict'[t] \in {"none", "rejected"}
  \/ /\ units[p] = 1 /\ orders[p] = 0 /\ units'[p] = 0 /\ orders'[p] = 1
     /\ verdict'[t] \in {"none", "accepted"}

\* Nothing of another tab or mission changes.
OnlyHis(t, p) ==
  /\ \A u \in Owners \ {t} : page'[u] = page[u] /\ verdict'[u] = verdict[u]
  /\ \A q \in Products \ {p} : units'[q] = units[q] /\ orders'[q] = orders[q]
  /\ st' = st /\ config' = config /\ abandoned' = abandoned

\* What the store makes of Place Order.
LEMMA OrderFacts ==
  ASSUME FlowTypeOK, NEW t \in Owners, NEW p \in Products, PageOf[t] = p, CartFits(Cur, p),
         NEW to \in Pages, PlaceOrder(t, to)
  PROVE  /\ OrderDone(t, p) /\ OnlyHis(t, p) /\ page'[t] = to
         /\ page' \in [Owners -> Pages] /\ verdict' \in [Owners -> {"none", "accepted", "rejected"}]
         /\ units' \in [Products -> Nat] /\ orders' \in [Products -> Nat]
<1>1. PICK accepted \in {0, 1}, shown \in BOOLEAN :
        /\ accepted <= units[p] /\ orders[p] + accepted <= MaxUnits
        /\ orders' = [orders EXCEPT ![p] = @ + accepted]
        /\ units' = [units EXCEPT ![p] = @ - accepted]
        /\ verdict' = [verdict EXCEPT ![t] =
                         CASE ~shown -> "none"
                           [] shown /\ accepted = 1 -> "accepted"
                           [] shown /\ accepted = 0 -> "rejected"]
        /\ page' = [page EXCEPT ![t] = to]
        /\ UNCHANGED <<vars, abandoned>>
  BY DEF PlaceOrder
<1>2. units[p] \in {0, 1} /\ orders[p] \in {0, 1} /\ (orders[p] > 0 => units[p] = 0)
  BY DEF CartFits, FlowTypeOK
<1>3. \/ accepted = 0 /\ verdict'[t] \in {"none", "rejected"}
      \/ accepted = 1 /\ verdict'[t] \in {"none", "accepted"}
  BY <1>1 DEF FlowTypeOK
<1>4. units'[p] = units[p] - accepted /\ orders'[p] = orders[p] + accepted
  BY <1>1 DEF FlowTypeOK
<1>5. OrderDone(t, p)
  BY <1>1, <1>2, <1>3, <1>4 DEF OrderDone
<1>6. OnlyHis(t, p)
  BY <1>1 DEF OnlyHis, FlowTypeOK, vars
<1>7. units' \in [Products -> Nat] /\ orders' \in [Products -> Nat]
  <2>1. units[p] - accepted \in Nat /\ orders[p] + accepted \in Nat
    BY <1>1, <1>2
  <2>. QED BY <1>1, <2>1 DEF FlowTypeOK
<1>8. page' \in [Owners -> Pages] /\ page'[t] = to
  BY <1>1 DEF FlowTypeOK
<1>9. verdict' \in [Owners -> {"none", "accepted", "rejected"}]
  <2>. DEFINE v == CASE ~shown -> "none"
                     [] shown /\ accepted = 1 -> "accepted"
                     [] shown /\ accepted = 0 -> "rejected"
  <2>1. verdict' = [verdict EXCEPT ![t] = v]
    BY <1>1
  <2>. HIDE DEF v
  <2>2. v \in {"none", "accepted", "rejected"}
    BY <1>3, <2>1 DEF FlowTypeOK
  <2>. QED BY <2>1, <2>2 DEF FlowTypeOK
<1>. QED BY <1>5, <1>6, <1>7, <1>8, <1>9

\* The orders of the two ways to place one: the page's click, with the intent on
\* record, and the user's, in a mission handed to him.
LEMMA OrderedStore ==
  ASSUME FlowInv, Members = {}, NEW t \in Owners, NEW p \in Products, PageOf[t] = p,
         page[t] \in {"intent", "handoff"}, OrderDone(t, p), OnlyHis(t, p),
         page'[t] \in {"submitting", "submitted"},
         \A u \in Owners : call'[u] = call[u] \/ call'[u].op = "observed"
  PROVE  StoreFits(Cur, p)'
<1>0. FlowTypeOK /\ CartFits(Cur, p) /\ OrderFits(Cur, p) /\ GivenUpFits(Cur, p)
      /\ SubmitFits(Cur, t) /\ AddIsWhere(Cur, t)
  BY DEF FlowInv, StoreFits, TabFits
<1>1. Cur' = Cur /\ config' = config
  BY DEF Cur, OnlyHis
<1>2. units[p] \in Nat /\ orders[p] \in Nat
  BY <1>0 DEF FlowTypeOK
<1>3. Clicking(p)' <=> Clicking(p)
  <2>1. \A u \in Owners : page'[u] = "clicking" <=> page[u] = "clicking"
    BY DEF OnlyHis
  <2>. QED BY <2>1 DEF Clicking, ReceiptPending
<1>4. \/ page[t] = "handoff" /\ ActionOf[p] = "review"
      \/ /\ ActionOf[p] = "checkout" /\ orders[p] = 0 /\ Cur.sub[p].phase = "intent"
         /\ Cur.locks[ProductKey(p)].owner = t
  <2>1. CASE page[t] = "handoff"
    BY <1>0, <2>1 DEF AddIsWhere
  <2>2. CASE page[t] = "intent"
    <3>1. ActionOf[p] = "checkout" /\ orders[p] = 0 /\ Cur.sub[p].phase = "intent"
          /\ \A k \in LockKeys(p) : Cur.locks[k] = Lock(p, t, TRUE)
      BY <1>0, <2>2 DEF SubmitFits
    <3>2. Cur.locks[ProductKey(p)] = Lock(p, t, TRUE)
      BY <3>1, KeyFacts
    <3>3. Cur.locks[ProductKey(p)].owner = t
      BY <3>2 DEF Lock, Free
    <3>. QED BY <3>1, <3>3
  <2>. QED BY <2>1, <2>2
<1>5. CartFits(Cur, p)'
  BY <1>0, <1>1, <1>2, <1>3 DEF CartFits, OrderDone
<1>6. OrderFits(Cur, p)'
  <2>1. CASE orders'[p] = orders[p] /\ ActionOf[p] = "review"
    BY <1>0, <1>1, <1>3, <2>1 DEF OrderFits
  <2>2. CASE orders'[p] = orders[p] /\ ActionOf[p] = "checkout" /\ orders[p] = 0
    BY <1>0, <1>1, <2>2 DEF OrderFits
  <2>3. CASE orders'[p] = 1 /\ units[p] = 1 /\ verdict'[t] # "rejected" /\ ActionOf[p] = "checkout"
             /\ Cur.sub[p].phase = "intent" /\ Cur.locks[ProductKey(p)].owner = t
    BY <1>1, <2>3 DEF OrderFits, MaybeSubmitted
  <2>4. CASE orders'[p] = 1 /\ units[p] = 1 /\ ActionOf[p] = "review"
    <3>1. p \notin Cur.done /\ ~Clicking(p) => Cur.add[p].phase \in {"clicked", "confirmed"}
      <4>1. ReceiptsFit(Cur, p)
        BY ReadFacts DEF LaneSafe
      <4>2. p \notin Cur.done /\ ~Clicking(p) => NeedsHold(Cur, p)
        BY <1>0, <2>4 DEF CartFits
      <4>. QED BY <2>4, <4>1, <4>2 DEF NeedsHold, ReceiptsFit, WorkflowFits, SubmissionFits,
                HeldWorkflowPhases, MaybeSubmitted
    <3>. QED BY <1>1, <1>3, <2>4, <3>1 DEF OrderFits
  <2>5. \/ orders'[p] = orders[p]
        \/ orders'[p] = 1 /\ units[p] = 1 /\ verdict'[t] # "rejected"
    BY DEF OrderDone
  <2>. QED BY <1>4, <2>1, <2>2, <2>3, <2>4, <2>5
<1>7. GivenUpFits(Cur, p)'
  <2>. SUFFICES ASSUME p \in abandoned PROVE GivenUpFits(Cur, p)'
    BY DEF GivenUpFits, OnlyHis
  <2>1. ~config.active /\ units[p] = 0 /\ orders[p] = 0
    BY <1>0 DEF GivenUpFits
  <2>2. units'[p] = 0 /\ orders'[p] = 0
    BY <2>1 DEF OrderDone
  <2>3. \A u \in Owners : page'[u] = page[u] \/ page'[u] \in {"submitting", "submitted"}
    BY DEF OnlyHis
  <2>. QED BY <1>0, <1>1, <2>1, <2>2, <2>3 DEF GivenUpFits, Authorized
<1>. QED BY <1>5, <1>6, <1>7 DEF StoreFits

\* The tabs after Place Order.
LEMMA OrderedTabs ==
  ASSUME FlowInv, NEW t \in Owners, NEW p \in Products, PageOf[t] = p,
         page[t] \in {"intent", "handoff"}, OrderDone(t, p), OnlyHis(t, p),
         page'[t] \in {"submitting", "submitted"},
         call'[t].op # "failed", \A u \in Owners \ {t} : call'[u] = call[u],
         NEW u \in Owners
  PROVE  TabFits(Cur, u)'
<1>0. PageOf[u] \in Products /\ ClickFits(Cur, u) /\ SubmitFits(Cur, u) /\ AddIsWhere(Cur, u) /\ ReportFits(Cur, u)
      /\ SubmitFits(Cur, t) /\ AddIsWhere(Cur, t) /\ TabFits(Cur, u)
  BY FlowAssumption DEF FlowInv, TabFits
<1>1. Cur' = Cur
  BY DEF Cur, OnlyHis
<1>2. CASE u = t
  <2>1. ClickFits(Cur, t)' /\ SubmitFits(Cur, t)'
    BY DEF ClickFits, SubmitFits, Authorized
  <2>2. AddIsWhere(Cur, t)'
    BY <1>0, <1>1 DEF AddIsWhere
  <2>3. ReportFits(Cur, t)'
    BY DEF ReportFits, OrderDone
  <2>. QED BY <1>2, <2>1, <2>2, <2>3 DEF TabFits
<1>3. CASE u # t /\ (PageOf[u] # p \/ (units'[p] = units[p] /\ orders'[p] = orders[p]))
  <2>1. Unmoved(u)
    BY <1>3 DEF Unmoved, OnlyHis
  <2>2. units'[PageOf[u]] = units[PageOf[u]] /\ orders'[PageOf[u]] = orders[PageOf[u]]
    BY <1>0, <1>3 DEF OnlyHis
  <2>. QED BY <1>0, <1>1, <2>1, <2>2, ElsewhereFits
<1>4. CASE u # t /\ PageOf[u] = p /\ units[p] = 1 /\ units'[p] = 0 /\ orders'[p] = 1
  <2>1. page'[u] = page[u] /\ verdict'[u] = verdict[u] /\ call'[u] = call[u]
    BY <1>4 DEF OnlyHis
  <2>2. ClickFits(Cur, u)'
    BY <1>0, <1>1, <1>4, <2>1 DEF ClickFits, Authorized
  <2>3. SubmitFits(Cur, u)'
    <3>1. page[u] # "intent"
      <4>. SUFFICES ASSUME page[u] = "intent" PROVE FALSE
        OBVIOUS
      <4>1. ActionOf[p] = "checkout" /\ Cur.locks[ProductKey(p)] = Lock(p, u, TRUE)
        BY <1>0, <1>4, KeyFacts DEF SubmitFits
      <4>2. page[t] = "intent"
        BY <1>0, <4>1 DEF AddIsWhere
      <4>3. Cur.locks[ProductKey(p)] = Lock(p, t, TRUE)
        BY <1>0, <4>2, KeyFacts DEF SubmitFits
      <4>. QED BY <1>4, <4>1, <4>3 DEF Lock, Free
    <3>. QED BY <2>1, <3>1 DEF SubmitFits
  <2>4. AddIsWhere(Cur, u)'
    BY <1>0, <1>1, <2>1 DEF AddIsWhere
  <2>5. ReportFits(Cur, u)'
    BY <1>0, <1>1, <1>4, <2>1 DEF ReportFits
  <2>. QED BY <2>2, <2>3, <2>4, <2>5 DEF TabFits
<1>5. \/ units'[p] = units[p] /\ orders'[p] = orders[p]
      \/ units[p] = 1 /\ units'[p] = 0 /\ orders'[p] = 1
  BY DEF OrderDone
<1>6. CASE u # t /\ PageOf[u] = p
  BY <1>3, <1>4, <1>5, <1>6
<1>7. CASE u # t /\ PageOf[u] # p
  BY <1>3, <1>7
<1>. QED BY <1>2, <1>6, <1>7

\* Place Order, clicked by the page or by the user.
LEMMA OrderedInv ==
  ASSUME FlowInv, LaneInv', Members = {}, NEW t \in Owners, ClickSubmit(t) \/ UserSubmits(t)
  PROVE  FlowInv'
<1>. DEFINE p == PageOf[t]
            to == IF ClickSubmit(t) THEN "submitting" ELSE "submitted"
<1>0. FlowTypeOK /\ (\A u \in Owners : CallFits(u)) /\ (\A q \in Products : StoreFits(Cur, q))
      /\ p \in Products /\ CartFits(Cur, p)
  BY FlowAssumption DEF FlowInv, StoreFits
<1>1. \/ /\ page[t] = "intent" /\ call[t] = NoCall /\ PlaceOrder(t, "submitting") /\ call' = call
      \/ /\ page[t] = "handoff" /\ call[t] = NoCall /\ PlaceOrder(t, "submitted")
         /\ call' = [call EXCEPT ![t] = [op |-> "observed", config |-> config]]
  BY DEF ClickSubmit, UserSubmits, Idle
<1>2. {"submitting", "submitted"} \subseteq Pages
  BY CallPlaces, CallTable DEF Pages
<1>3. /\ OrderDone(t, p) /\ OnlyHis(t, p) /\ page'[t] \in {"submitting", "submitted"}
      /\ page' \in [Owners -> Pages] /\ verdict' \in [Owners -> {"none", "accepted", "rejected"}]
      /\ units' \in [Products -> Nat] /\ orders' \in [Products -> Nat]
  BY <1>0, <1>1, <1>2, OrderFacts
<1>4. call'[t] = NoCall \/ (call'[t] = [op |-> "observed", config |-> config] /\ page'[t] = "submitted")
  <2>1. CASE PlaceOrder(t, "submitting") /\ call' = call
    BY <1>1, <2>1 DEF FlowTypeOK
  <2>2. CASE PlaceOrder(t, "submitted") /\ call' = [call EXCEPT ![t] = [op |-> "observed", config |-> config]]
    <3>1. page'[t] = "submitted"
      BY <1>0, <1>2, <2>2, OrderFacts
    <3>. QED BY <1>0, <2>2, <3>1 DEF FlowTypeOK
  <2>. QED BY <1>1, <2>1, <2>2
<1>5. \A u \in Owners \ {t} : call'[u] = call[u]
  BY <1>0, <1>1 DEF FlowTypeOK
<1>6. call'[t].op \in {"none", "observed"} /\ (call'[t].op = "observed" => call'[t].config = config)
  BY <1>4 DEF NoCall
<1>7. Cur' = Cur /\ st' = st /\ config' = config /\ abandoned' = abandoned
  BY <1>3 DEF OnlyHis, Cur
<1>8. FlowTypeOK'
  <2>1. config \in Configs
    BY DEF FlowInv, LaneInv
  <2>2. call' \in [Owners -> [op : Ops \cup {"none"}, config : Configs]]
    BY <1>0, <1>1, <2>1, CallPlaces DEF FlowTypeOK
  <2>. QED BY <1>0, <1>3, <1>7, <2>2 DEF FlowTypeOK
<1>9. \A u \in Owners : CallFits(u)'
  <2>. SUFFICES ASSUME NEW u \in Owners PROVE CallFits(u)'
    OBVIOUS
  <2>1. CASE u = t /\ call'[t] = NoCall
    BY <2>1 DEF CallFits
  <2>2. CASE u = t /\ call'[t] = [op |-> "observed", config |-> config] /\ page'[t] = "submitted"
    BY <1>6, <1>7, <2>2, CallPlaces DEF CallFits
  <2>3. CASE u # t
    <3>1. Unmoved(u)
      BY <1>3, <1>5, <2>3 DEF Unmoved, OnlyHis
    <3>. QED BY <1>0, <1>7, <3>1, CallUnmoved
  <2>. QED BY <1>4, <2>1, <2>2, <2>3
<1>10. \A u \in Owners : TabFits(Cur, u)'
  BY <1>0, <1>1, <1>3, <1>5, <1>6, OrderedTabs
<1>11. \A q \in Products : StoreFits(Cur, q)'
  <2>. SUFFICES ASSUME NEW q \in Products PROVE StoreFits(Cur, q)'
    OBVIOUS
  <2>1. CASE q = p
    <3>1. \A u \in Owners : call'[u] = call[u] \/ call'[u].op = "observed"
      BY <1>1, <1>4, <1>5, <1>6
    <3>. QED BY <1>0, <1>1, <1>3, <2>1, <3>1, OrderedStore
  <2>2. CASE q # p
    <3>1. \A u \in Owners : PageOf[u] = q => Unmoved(u)
      BY <1>3, <1>5, <2>2 DEF Unmoved, OnlyHis
    <3>2. units'[q] = units[q] /\ orders'[q] = orders[q] /\ StoreFits(Cur, q)
      BY <1>0, <1>3, <2>2 DEF OnlyHis
    <3>. QED BY <1>7, <3>1, <3>2, StoreUnmoved
  <2>. QED BY <2>1, <2>2
<1>. QED BY <1>7, <1>8, <1>9, <1>10, <1>11, PageStepInv

--------------------------------------------------------------------------------
(* Steps of the surroundings *)

\* What the end of a lease leaves of the record.
LapseWrites(s, r, p) ==
  /\ \A k \in Keys : r.locks[k] = IF s.locks[k].pid = p /\ ~s.locks[k].hold THEN Free ELSE s.locks[k]
  /\ r.sub = s.sub /\ r.done = s.done /\ r.run = s.run
  /\ \A q \in Products \ {p} : r.add[q] = s.add[q] /\ r.wf[q] = s.wf[q]
  /\ s.add[p].phase # "reserved" => r.add[p] = s.add[p] /\ r.wf[p] = s.wf[p]
  /\ s.add[p].phase = "reserved" => r.add[p] = IdleAdd /\ r.wf[p].phase = s.wf[p].phase

\* A lapse writes just that.
LEMMA LapseIs ==
  ASSUME NEW s \in AutomationStates, PlainLocks(s), NEW p \in Products
  PROVE  LapseWrites(s, Lapse(s, p), p)
<1>. DEFINE r == Lapse(s, p)
            free(k) == s.locks[k].pid = p /\ ~s.locks[k].hold
            cut == [s EXCEPT !.locks = [k \in Keys |->
                     IF s.locks[k].pid = p /\ ~s.locks[k].hold THEN Free
                     ELSE IF s.locks[k].claim.pid = p THEN [s.locks[k] EXCEPT !.claim = NoClaim]
                     ELSE s.locks[k]]]
            w == IF s.wf[p].phase = "active" THEN Workflow("active", Nobody, NoHash) ELSE s.wf[p]
<1>0. NoClaim.pid # p /\ s.add \in [Products -> Phases] /\ s.wf \in [Products -> Workflows]
  BY ReservedNamesAssumption, FieldTypes DEF NoClaim
<1>1. r = IF s.add[p].phase # "reserved" THEN cut ELSE [cut EXCEPT !.add[p] = IdleAdd, !.wf[p] = w]
  BY DEF Lapse, AutomationStates
<1>2. w.phase = s.wf[p].phase
  BY DEF Workflow
<1>3. /\ cut.sub = s.sub /\ cut.done = s.done /\ cut.run = s.run /\ cut.add = s.add /\ cut.wf = s.wf
      /\ cut \in AutomationStates
  <2>1. [k \in Keys |->
           IF s.locks[k].pid = p /\ ~s.locks[k].hold THEN Free
           ELSE IF s.locks[k].claim.pid = p THEN [s.locks[k] EXCEPT !.claim = NoClaim]
           ELSE s.locks[k]] \in [Keys -> Locks]
    <3>. SUFFICES ASSUME NEW k \in Keys
                  PROVE  (IF s.locks[k].pid = p /\ ~s.locks[k].hold THEN Free
                          ELSE IF s.locks[k].claim.pid = p THEN [s.locks[k] EXCEPT !.claim = NoClaim]
                          ELSE s.locks[k]) \in Locks
      OBVIOUS
    <3>1. s.locks[k].claim.pid # p
      BY <1>0 DEF PlainLocks
    <3>2. s.locks[k] \in Locks
      BY FieldTypes
    <3>. QED BY <3>1, <3>2, LockTypes
  <2>. QED BY <2>1, RelockType DEF AutomationStates
<1>4. \A k \in Keys : cut.locks[k] = IF s.locks[k].pid = p /\ ~s.locks[k].hold THEN Free ELSE s.locks[k]
  <2>1. \A k \in Keys : s.locks[k].claim.pid # p
    BY <1>0 DEF PlainLocks
  <2>. QED BY <2>1 DEF AutomationStates
<1>. HIDE DEF cut, w, r
<1>5. CASE s.add[p].phase # "reserved"
  BY <1>1, <1>3, <1>4, <1>5 DEF LapseWrites, r
<1>6. CASE s.add[p].phase = "reserved"
  <2>1. r = [cut EXCEPT !.add[p] = IdleAdd, !.wf[p] = w]
    BY <1>1, <1>6
  <2>2. r.locks = cut.locks /\ r.sub = cut.sub /\ r.done = cut.done /\ r.run = cut.run
        /\ r.add = [s.add EXCEPT ![p] = IdleAdd] /\ r.wf = [s.wf EXCEPT ![p] = w]
    BY <1>3, <2>1 DEF AutomationStates
  <2>3. /\ r.add[p] = IdleAdd /\ r.wf[p].phase = s.wf[p].phase
        /\ \A q \in Products \ {p} : r.add[q] = s.add[q] /\ r.wf[q] = s.wf[q]
    BY <1>0, <1>2, <2>2
  <2>. QED BY <1>3, <1>4, <1>6, <2>2, <2>3 DEF LapseWrites, r
<1>. QED BY <1>5, <1>6

\* It leaves every need and every permanent lock.
LEMMA LapseKeeps ==
  ASSUME NEW s \in AutomationStates, LaneSafe(s), NEW p \in Products, NEW r, LapseWrites(s, r, p)
  PROVE  /\ \A q \in Products : NeedsHold(r, q) <=> NeedsHold(s, q)
         /\ \A k \in Keys : r.locks[k] = Free \/ r.locks[k] = s.locks[k]
         /\ \A k \in Keys : s.locks[k].hold \/ s.locks[k].pid # p => r.locks[k] = s.locks[k]
         /\ \A q \in Products \ {p} : r.locks[ProductKey(q)] = s.locks[ProductKey(q)]
         /\ \A q \in Products : r.add[q] = s.add[q] \/ (r.add[q] = IdleAdd /\ s.add[q].phase = "reserved")
<1>1. \A q \in Products : r.wf[q].phase = s.wf[q].phase
  BY DEF LapseWrites
<1>2. \A q \in Products : r.add[q] = s.add[q] \/ (r.add[q] = IdleAdd /\ s.add[q].phase = "reserved")
  BY DEF LapseWrites
<1>3. \A q \in Products : NeedsHold(r, q) <=> NeedsHold(s, q)
  <2>1. \A q \in Products : r.add[q].phase \in {"clicked", "confirmed"} <=> s.add[q].phase \in {"clicked", "confirmed"}
    <3>1. IdleAdd.phase = "idle"
      BY DEF IdleAdd
    <3>. QED BY <1>2, <3>1
  <2>2. r.sub = s.sub /\ r.done = s.done
    BY DEF LapseWrites
  <2>. QED BY <1>1, <2>1, <2>2 DEF NeedsHold
<1>4. \A q \in Products \ {p} : r.locks[ProductKey(q)] = s.locks[ProductKey(q)]
  <2>. SUFFICES ASSUME NEW q \in Products \ {p}
                PROVE  r.locks[ProductKey(q)] = s.locks[ProductKey(q)]
    OBVIOUS
  <2>1. ProductKey(q) \in Keys /\ ProductKey(q) \notin LockKeys(p)
    BY KeyFacts
  <2>2. s.locks[ProductKey(q)].pid # p
    BY <2>1, NobodysNames DEF LaneSafe, PlainLocks
  <2>. QED BY <2>1, <2>2 DEF LapseWrites
<1>. QED BY <1>2, <1>3, <1>4 DEF LapseWrites

\* The record stays safe.
LEMMA LapseSafe ==
  ASSUME NEW s \in AutomationStates, LaneSafe(s), NEW p \in Products, NEW r, LapseWrites(s, r, p)
  PROVE  LaneSafe(r)
<1>1. /\ \A q \in Products : NeedsHold(r, q) <=> NeedsHold(s, q)
      /\ \A k \in Keys : r.locks[k] = Free \/ r.locks[k] = s.locks[k]
  BY LapseKeeps
<1>2. PlainLocks(r)
  BY <1>1, NobodysNames DEF LaneSafe, PlainLocks
<1>3. HoldsExplained(r)
  <2>. SUFFICES ASSUME NEW k \in Keys, r.locks[k].hold PROVE NeedsHold(r, r.locks[k].pid)
    BY DEF HoldsExplained
  <2>1. r.locks[k] = s.locks[k]
    BY <1>1, NobodysNames
  <2>2. NeedsHold(s, s.locks[k].pid) /\ s.locks[k].pid \in Products
    BY <2>1, NobodysNames DEF LaneSafe, HoldsExplained, PlainLocks
  <2>. QED BY <1>1, <2>1, <2>2
<1>4. NeedersApart(r)
  BY <1>1 DEF LaneSafe, NeedersApart
<1>5. LaneKept(r)
  <2>. SUFFICES ASSUME NEW q \in Products, NeedsHold(r, q), NEW k \in LockKeys(q)
                PROVE  r.locks[k] = Free \/ r.locks[k].pid = q
    BY DEF LaneKept
  <2>1. k \in Keys
    BY KeyFacts
  <2>. QED BY <1>1, <2>1 DEF LaneSafe, LaneKept
<1>6. ASSUME NEW q \in Products PROVE ReceiptsFit(r, q)
  <2>0. AddFits(s, q) /\ WorkflowFits(s, q) /\ SubmissionFits(s, q) /\ ReceiptsFit(s, q)
    BY DEF LaneSafe, ReceiptsFit
  <2>1. CASE q # p
    <3>1. r.add[q] = s.add[q] /\ r.sub[q] = s.sub[q] /\ r.wf[q] = s.wf[q]
      BY <2>1 DEF LapseWrites
    <3>2. r.locks[ProductKey(q)] = s.locks[ProductKey(q)]
      BY <2>1, LapseKeeps
    <3>3. \A k \in Keys : r.locks[k].pid = q => r.locks[k] = s.locks[k]
      BY <1>1, NobodysNames
    <3>. QED BY <2>0, <3>1, <3>2, <3>3, FitKept
  <2>2. CASE q = p /\ s.add[p].phase # "reserved"
    <3>1. r.add[p] = s.add[p] /\ r.wf[p] = s.wf[p] /\ r.sub[p] = s.sub[p]
      BY <2>2 DEF LapseWrites
    <3>2. \A k \in Keys : r.locks[k].pid = p => r.locks[k] = s.locks[k]
      BY <1>1, NobodysNames
    <3>3. AddFits(r, p)
      BY <2>0, <2>2, <3>1, <3>2 DEF AddFits
    <3>4. SubmissionFits(r, p)
      <4>1. s.locks[ProductKey(p)].hold => r.locks[ProductKey(p)] = s.locks[ProductKey(p)]
        BY KeyFacts, LapseKeeps
      <4>. QED BY <2>0, <2>2, <3>1, <4>1 DEF SubmissionFits
    <3>5. WorkflowFits(r, p)
      BY <2>0, <2>2, <3>1 DEF WorkflowFits
    <3>. QED BY <2>2, <3>3, <3>4, <3>5 DEF ReceiptsFit
  <2>3. CASE q = p /\ s.add[p].phase = "reserved"
    <3>1. r.add[p] = IdleAdd /\ r.wf[p].phase = s.wf[p].phase /\ r.sub[p] = s.sub[p]
      BY <2>3 DEF LapseWrites
    <3>2. s.sub[p].phase \notin MaybeSubmitted
      BY <2>0, <2>3 DEF SubmissionFits
    <3>3. AddFits(r, p) /\ SubmissionFits(r, p)
      BY <3>1, <3>2 DEF AddFits, SubmissionFits, IdleAdd
    <3>4. WorkflowFits(r, p)
      BY <2>0, <2>3, <3>1 DEF WorkflowFits
    <3>. QED BY <2>3, <3>3, <3>4 DEF ReceiptsFit
  <2>. QED BY <2>1, <2>2, <2>3
<1>. QED BY <1>2, <1>3, <1>4, <1>5, <1>6 DEF LaneSafe

\* A lease ends where no tab is about to click.
LEMMA LapseTabs ==
  ASSUME NEW s \in AutomationStates, LaneSafe(s), NEW p \in Products, NEW r, LapseWrites(s, r, p),
         NEW u \in Owners, TabFits(s, u), PageOf[u] = p => ~Authorized(u)
  PROVE  TabFits(r, u)
<1>. DEFINE q == PageOf[u]
<1>0. q \in Products /\ ClickFits(s, u) /\ SubmitFits(s, u) /\ AddIsWhere(s, u) /\ ReportFits(s, u)
  BY FlowAssumption DEF TabFits
<1>1. r.sub = s.sub /\ r.done = s.done
  BY DEF LapseWrites
<1>2. r.add[q] = s.add[q] \/ r.add[q] = IdleAdd
  BY <1>0, LapseKeeps
<1>3. IdleAdd.owner # u /\ LockKeys(q) \subseteq Keys
  BY <1>0, NobodysNames, KeyFacts DEF IdleAdd
<1>4. ClickFits(r, u)
  <2>1. CASE q = p
    BY <1>0, <2>1 DEF ClickFits, Authorized
  <2>2. CASE q # p
    <3>1. r.add[q] = s.add[q] /\ r.wf[q] = s.wf[q]
      BY <1>0, <2>2 DEF LapseWrites
    <3>2. OwnsLane(s, q, u) => OwnsLane(r, q, u)
      <4>1. \A k \in Keys : s.locks[k].pid # p => r.locks[k] = s.locks[k]
        BY DEF LapseWrites
      <4>. QED BY <1>3, <2>2, <4>1 DEF OwnsLane, OwnedBy
    <3>. QED BY <1>0, <1>1, <3>1, <3>2 DEF ClickFits
  <2>. QED BY <2>1, <2>2
<1>5. SubmitFits(r, u)
  <2>. SUFFICES ASSUME page[u] = "intent" PROVE SubmitFits(r, u)
    BY DEF SubmitFits
  <2>1. ASSUME NEW k \in LockKeys(q) PROVE r.locks[k] = Lock(q, u, TRUE)
    <3>1. s.locks[k] = Lock(q, u, TRUE)
      BY <1>0, <2>1 DEF SubmitFits
    <3>2. s.locks[k].hold
      BY <3>1 DEF Lock, Free
    <3>3. k \in Keys
      BY <1>3
    <3>4. r.locks[k] = s.locks[k]
      BY <3>2, <3>3 DEF LapseWrites
    <3>. QED BY <3>1, <3>4
  <2>. QED BY <1>0, <1>1, <2>1 DEF SubmitFits
<1>6. AddIsWhere(r, u)
  BY <1>0, <1>2, <1>3 DEF AddIsWhere
<1>7. ReportFits(r, u)
  BY <1>0, <1>1, <1>2, <1>3 DEF ReportFits
<1>. QED BY <1>4, <1>5, <1>6, <1>7 DEF TabFits

\* The store of a mission still fits.
LEMMA LapseStore ==
  ASSUME NEW s \in AutomationStates, LaneSafe(s), NEW p \in Products, NEW r, LapseWrites(s, r, p),
         NEW q \in Products, StoreFits(s, q)
  PROVE  StoreFits(r, q)
<1>0. CartFits(s, q) /\ OrderFits(s, q) /\ GivenUpFits(s, q) /\ SubmissionFits(s, q)
  BY DEF StoreFits, LaneSafe, ReceiptsFit
<1>1. r.sub = s.sub /\ r.done = s.done /\ (NeedsHold(r, q) <=> NeedsHold(s, q))
  <2>1. NeedsHold(r, q) <=> NeedsHold(s, q)
    BY LapseKeeps
  <2>. QED BY <2>1 DEF LapseWrites
<1>2. r.add[q] = s.add[q] \/ (r.add[q] = IdleAdd /\ s.add[q].phase = "reserved")
  BY LapseKeeps
<1>3. r.locks[ProductKey(q)].owner = s.locks[ProductKey(q)].owner \/ r.locks[ProductKey(q)].owner = Nobody
  <2>1. ProductKey(q) \in Keys
    BY KeyFacts
  <2>. QED BY <2>1, NobodysNames DEF LapseWrites
<1>4. CartFits(r, q)
  <2>1. r.sub[q].phase \in MaybeSubmitted => r.add[q] = s.add[q]
    BY <1>0, <1>1, <1>2 DEF SubmissionFits
  <2>. QED BY <1>0, <1>1, <2>1 DEF CartFits
<1>5. OrderFits(r, q)
  <2>1. \A u \in Owners : r.locks[ProductKey(q)].owner = u => s.locks[ProductKey(q)].owner = u
    BY <1>3, NobodysNames
  <2>. QED BY <1>0, <1>1, <1>2, <2>1 DEF OrderFits
<1>6. GivenUpFits(r, q)
  <2>1. \A u \in Owners : r.add[q] = [phase |-> "reserved", owner |-> u] => r.add[q] = s.add[q]
    BY <1>2 DEF IdleAdd
  <2>. QED BY <1>0, <2>1 DEF GivenUpFits
<1>. QED BY <1>4, <1>5, <1>6 DEF StoreFits

\* A pre-click lease lapses.
LEMMA LapsedInv ==
  ASSUME FlowInv, LaneInv', Faults = {}, NEW p \in Products, LeaseLapses(p)
  PROVE  FlowInv'
<1>0. FlowTypeOK /\ (\A u \in Owners : CallFits(u) /\ TabFits(Cur, u)) /\ (\A q \in Products : StoreFits(Cur, q))
      /\ st \in AutomationStates /\ LaneSafe(st) /\ st.run <= config.run
  BY DEF FlowInv, LaneInv, StateInv
<1>1. /\ st' = Lapse(st, p) /\ config' = config /\ units' = units /\ orders' = orders
      /\ abandoned' = abandoned /\ page' = page /\ call' = call /\ verdict' = verdict
      /\ \A u \in Owners : PageOf[u] = p => ~Authorized(u)
  BY DEF LeaseLapses, LeaseRunsOut, desktop, tabs, store
<1>2. LapseWrites(st, st', p)
  BY <1>0, <1>1, LapseIs DEF LaneSafe
<1>3. LaneSafe(st') /\ st'.run = st.run
  <2>1. LaneSafe(st')
    BY <1>0, <1>2, LapseSafe
  <2>. QED BY <1>2, <2>1 DEF LapseWrites
<1>4. \A u \in Owners : Unmoved(u)
  BY <1>1 DEF Unmoved
<1>5. \E r : Cur' = r /\ (\A u \in Owners : TabFits(r, u)) /\ \A q \in Products : StoreFits(r, q)
  <2>1. CASE st.run = config.run
    <3>1. Cur' = st' /\ Cur = st
      BY <1>1, <1>3, <2>1 DEF Cur
    <3>2. \A u \in Owners : TabFits(st', u)
      BY <1>0, <1>1, <1>2, <3>1, LapseTabs
    <3>3. \A q \in Products : StoreFits(st', q)
      BY <1>0, <1>2, <3>1, LapseStore
    <3>. QED BY <3>1, <3>2, <3>3
  <2>2. CASE st.run # config.run
    <3>1. Cur' = Cur
      BY <1>1, <1>3, <2>2 DEF Cur
    <3>. QED BY <1>0, <3>1
  <2>. QED BY <2>1, <2>2
<1>6. PICK r : Cur' = r /\ (\A u \in Owners : TabFits(r, u)) /\ \A q \in Products : StoreFits(r, q)
  BY <1>5
<1>7. \A u \in Owners : TabFits(Cur, u)'
  <2>. SUFFICES ASSUME NEW u \in Owners PROVE TabFits(Cur, u)'
    OBVIOUS
  <2>1. TabFits(r, u) /\ Cur' = r /\ Unmoved(u)
    BY <1>4, <1>6
  <2>. QED BY <1>1, <2>1, TabUnmoved
<1>8. \A q \in Products : StoreFits(Cur, q)'
  <2>. SUFFICES ASSUME NEW q \in Products PROVE StoreFits(Cur, q)'
    OBVIOUS
  <2>1. StoreFits(r, q) /\ Cur' = r
    BY <1>6
  <2>. QED BY <1>1, <1>4, <2>1, StoreUnmoved
<1>9. \A u \in Owners : CallFits(u)'
  BY <1>0, <1>1 DEF CallFits
<1>10. FlowTypeOK'
  BY <1>0, <1>1 DEF FlowTypeOK
<1>. QED BY <1>0, <1>1, <1>3, <1>7, <1>8, <1>9, <1>10 DEF FlowInv

\* Stop.
LEMMA StoppedInv ==
  ASSUME FlowInv, LaneInv', StopAll
  PROVE  FlowInv'
<1>0. FlowTypeOK /\ (\A u \in Owners : CallFits(u) /\ TabFits(Cur, u)) /\ (\A q \in Products : StoreFits(Cur, q))
      /\ LaneSafe(st) /\ st.run <= config.run /\ config \in Configs
  BY DEF FlowInv, LaneInv
<1>1. /\ st' = st /\ config' = [config EXCEPT !.active = FALSE] /\ units' = units /\ orders' = orders
      /\ abandoned' = abandoned /\ page' = page /\ call' = call /\ verdict' = verdict
  BY DEF StopAll, Stop, Serve, tabs, store
<1>2. config'.run = config.run /\ ~config'.active
  BY <1>0, <1>1 DEF Configs
<1>3. Cur' = Cur
  BY <1>1, <1>2 DEF Cur
<1>4. \A u \in Owners : CallFits(u)'
  BY <1>0, <1>1, <1>2 DEF CallFits
<1>5. \A u \in Owners : TabFits(Cur, u)'
  <2>. SUFFICES ASSUME NEW u \in Owners PROVE TabFits(Cur, u)'
    OBVIOUS
  <2>1. TabFits(Cur, u) /\ Unmoved(u)
    BY <1>0, <1>1 DEF Unmoved
  <2>. QED BY <1>1, <1>3, <2>1, TabUnmoved
<1>6. \A q \in Products : StoreFits(Cur, q)'
  <2>. SUFFICES ASSUME NEW q \in Products PROVE StoreFits(Cur, q)'
    OBVIOUS
  <2>0. CartFits(Cur, q) /\ OrderFits(Cur, q) /\ GivenUpFits(Cur, q)
    BY <1>0 DEF StoreFits
  <2>1. Clicking(q)' <=> Clicking(q)
    BY <1>1 DEF Clicking, ReceiptPending
  <2>2. CartFits(Cur, q)'
    BY <1>1, <1>3, <2>0, <2>1 DEF CartFits
  <2>3. OrderFits(Cur, q)'
    BY <1>1, <1>3, <2>0, <2>1 DEF OrderFits
  <2>4. GivenUpFits(Cur, q)'
    BY <1>1, <1>2, <1>3, <2>0 DEF GivenUpFits, Authorized
  <2>. QED BY <2>2, <2>3, <2>4 DEF StoreFits
<1>7. FlowTypeOK' /\ LaneSafe(st') /\ st'.run <= config'.run
  BY <1>0, <1>1, <1>2 DEF FlowTypeOK
<1>. QED BY <1>4, <1>5, <1>6, <1>7 DEF FlowInv

\* A record of a new run.
LEMMA CreatedFits ==
  ASSUME NEW run \in Nat, NEW p \in Products
  PROVE  /\ CreateState(run).add[p] = IdleAdd /\ CreateState(run).sub[p].phase \notin MaybeSubmitted
         /\ CreateState(run).done = {} /\ CreateState(run).run = run
BY DEF CreateState, IdleSubmission, MaybeSubmitted

\* Arming a new run, whatever became of the last one.
LEMMA ArmedInv ==
  ASSUME LaneInv, LaneInv', LaneSafe(st), st.run <= config.run, FlowTypeOK,
         \A u \in Owners : CallFits(u) /\ (page[u] = "handoff" => ActionOf[PageOf[u]] = "review"),
         ArmRun
  PROVE  FlowInv'
<1>0. config \in Configs /\ st.run \in Nat
  BY FieldTypes DEF LaneInv, StateInv
<1>1. /\ st' = st /\ config' = [run |-> config.run + 1, active |-> TRUE]
      /\ units' = [q \in Products |-> 0] /\ orders' = [q \in Products |-> 0]
      /\ abandoned' = {} /\ page' = page /\ call' = call /\ verdict' = [u \in Owners |-> "none"]
      /\ \A u \in Owners : call[u] = NoCall
           /\ page[u] \notin {"reserved", "authorized", "clicking", "intent", "submitting"}
  BY DEF ArmRun, Arm, Serve
<1>2. config.run \in Nat /\ config'.run = config.run + 1
  BY <1>0, <1>1 DEF Configs
<1>3. Cur' = CreateState(config'.run) /\ config'.run \in Nat /\ st'.run <= config'.run
  BY <1>0, <1>1, <1>2 DEF Cur
<1>. DEFINE r == CreateState(config'.run)
<1>4. \A q \in Products : r.add[q] = IdleAdd /\ r.sub[q].phase \notin MaybeSubmitted /\ r.done = {}
  BY <1>3, CreatedFits
<1>. HIDE DEF r
<1>5. \A u \in Owners : CallFits(u)'
  BY <1>1 DEF CallFits
<1>6. \A u \in Owners : TabFits(Cur, u)'
  <2>. SUFFICES ASSUME NEW u \in Owners PROVE TabFits(Cur, u)'
    OBVIOUS
  <2>0. PageOf[u] \in Products /\ NoCall.op = "none"
    BY FlowAssumption DEF NoCall
  <2>1. ClickFits(Cur, u)' /\ SubmitFits(Cur, u)'
    BY <1>1 DEF ClickFits, SubmitFits, Authorized
  <2>2. AddIsWhere(Cur, u)'
    <3>1. r.add[PageOf[u]].owner # u
      BY <1>4, <2>0, NobodysNames DEF IdleAdd
    <3>2. Cur'.add[PageOf[u]].owner # u
      BY <1>3, <3>1 DEF r
    <3>. QED BY <1>1, <2>0, <3>2 DEF AddIsWhere
  <2>3. ReportFits(Cur, u)'
    BY <1>1, <2>0 DEF ReportFits
  <2>. QED BY <2>1, <2>2, <2>3 DEF TabFits
<1>7. \A q \in Products : StoreFits(Cur, q)'
  <2>. SUFFICES ASSUME NEW q \in Products PROVE StoreFits(Cur, q)'
    OBVIOUS
  <2>1. Cur'.add[q] = IdleAdd /\ Cur'.sub[q].phase \notin MaybeSubmitted /\ Cur'.done = {}
        /\ units'[q] = 0 /\ orders'[q] = 0 /\ abandoned' = {}
    BY <1>1, <1>3, <1>4 DEF r
  <2>2. CartFits(Cur, q)' /\ OrderFits(Cur, q)'
    BY <2>1 DEF CartFits, OrderFits
  <2>3. GivenUpFits(Cur, q)'
    BY <2>1 DEF GivenUpFits
  <2>. QED BY <2>2, <2>3 DEF StoreFits
<1>8. FlowTypeOK'
  <2>1. page' \in [Owners -> Pages] /\ call' \in [Owners -> [op : Ops \cup {"none"}, config : Configs]]
    BY <1>0, <1>1 DEF FlowTypeOK
  <2>. QED BY <1>1, <2>1 DEF FlowTypeOK
<1>9. LaneSafe(st')
  BY <1>0, <1>1
<1>. QED BY <1>3, <1>5, <1>6, <1>7, <1>8, <1>9 DEF FlowInv

\* The operator gives a mission up: no tab is about to click for it.
LEMMA ResolvedInv ==
  ASSUME FlowInv, LaneInv', Members = {}, NEW t \in Owners, OperatorResolves(t)
  PROVE  FlowInv'
<1>. DEFINE p == PageOf[t]
<1>0. FlowTypeOK /\ (\A u \in Owners : CallFits(u))
  BY DEF FlowInv
<1>1. /\ LaneSafe(Now) /\ LaneReady(Now) /\ StateInv(Now) /\ Now.run = config.run /\ p \in Products
      /\ \A u \in Owners : PageOf[u] \in Products /\ TabFits(Now, u)
      /\ \A q \in Products : StoreFits(Now, q)
  BY ReadFacts
<1>2. /\ orders[p] = 0 /\ call[t] = NoCall /\ page[t] \notin {"intent", "submitting"}
      /\ ~config.active /\ CanResolve(Now, p, t) /\ st' = Resolve(Now, p, t) /\ config' = config
      /\ abandoned' = abandoned \cup {p} /\ units' = [units EXCEPT ![p] = 0]
      /\ page' = page /\ call' = call /\ verdict' = verdict /\ orders' = orders
  BY DEF OperatorResolves, ResolveKnownNoOrder, Read, Now, Handle, desktop, tabs
<1>3. /\ OwnStep(Now, st', p, t) /\ st'.add[p] = IdleAdd /\ st'.sub[p].phase = "abandoned"
      /\ st'.done = Now.done /\ st'.run = Now.run
  BY <1>1, <1>2, ResolveStep DEF Ready
<1>4. Cur' = st' /\ LaneSafe(st') /\ st'.run <= config'.run
  <2>1. config.run \in Nat
    BY ReadFacts
  <2>2. LaneSafe(st')
    BY <1>1, <1>3, OwnStepSafe
  <2>. QED BY <1>1, <1>2, <1>3, <2>1, <2>2 DEF Cur
<1>5. ASSUME NEW u \in Owners, PageOf[u] = p PROVE ~Authorized(u)
  <2>. SUFFICES ASSUME Authorized(u) PROVE FALSE
    OBVIOUS
  <2>1. ClickFits(Now, u) /\ FlowReady(Now)
    BY <1>1 DEF TabFits, FlowReady, Ready
  <2>2. Now.add[p].phase = "reserved"
    BY <1>5, <2>1 DEF ClickFits
  <2>3. Now.sub[p].phase \notin MaybeSubmitted
    BY <1>1, <2>1, <2>2, ReadyFacts DEF FlowReady, SubmissionFits
  <2>4. ~NeedsHold(Now, p)
    BY <1>0, <1>1, <2>1, <2>2, <2>3, StoreFacts DEF FlowTypeOK
  <2>. QED BY <1>2, <2>4 DEF CanResolve
<1>6. /\ units'[p] = 0 /\ \A q \in Products : units'[q] \in {units[q], 0}
      /\ \A q \in Products \ {p} : units'[q] = units[q]
  BY <1>0, <1>1, <1>2 DEF FlowTypeOK
<1>7. FlowTypeOK'
  <2>1. units' \in [Products -> Nat]
    BY <1>0, <1>2 DEF FlowTypeOK
  <2>. QED BY <1>0, <1>1, <1>2, <2>1 DEF FlowTypeOK
<1>8. \A u \in Owners : CallFits(u)'
  BY <1>0, <1>2 DEF CallFits
<1>9. \A u \in Owners : TabFits(Cur, u)'
  <2>. SUFFICES ASSUME NEW u \in Owners PROVE TabFits(Cur, u)'
    OBVIOUS
  <2>1. CASE u = t
    <3>1. AddIsWhere(Now, t) /\ ReportFits(Now, t) /\ ~Authorized(t) /\ NoCall.op = "none"
      BY <1>1, <1>5 DEF TabFits, NoCall
    <3>2. st'.add[p].owner # t
      BY <1>3, NobodysNames DEF IdleAdd
    <3>3. ClickFits(Cur, t)' /\ SubmitFits(Cur, t)'
      BY <1>2, <3>1 DEF ClickFits, SubmitFits, Authorized
    <3>4. AddIsWhere(Cur, t)'
      BY <1>2, <1>4, <3>1, <3>2 DEF AddIsWhere
    <3>5. ReportFits(Cur, t)'
      BY <1>2, <3>1 DEF ReportFits
    <3>. QED BY <2>1, <3>3, <3>4, <3>5 DEF TabFits
  <2>2. CASE u # t
    <3>1. TabFits(Now, u) /\ PageOf[u] \in Products
      BY <1>1
    <3>2. TabFits(st', u)
      BY <1>1, <1>3, <2>2, <3>1, OwnStepTabs
    <3>3. units'[PageOf[u]] \in {units[PageOf[u]], 0}
      BY <1>6, <3>1
    <3>4. ClickFits(Cur, u)'
      BY <1>2, <1>4, <3>2, <3>3 DEF TabFits, ClickFits, Authorized
    <3>5. SubmitFits(Cur, u)'
      BY <1>2, <1>4, <3>2 DEF TabFits, SubmitFits
    <3>6. AddIsWhere(Cur, u)'
      BY <1>2, <1>4, <3>2 DEF TabFits, AddIsWhere
    <3>7. ReportFits(Cur, u)'
      BY <1>2, <1>4, <3>2, <3>3 DEF TabFits, ReportFits
    <3>. QED BY <3>4, <3>5, <3>6, <3>7 DEF TabFits
  <2>. QED BY <2>1, <2>2
<1>10. \A q \in Products : StoreFits(Cur, q)'
  <2>. SUFFICES ASSUME NEW q \in Products PROVE StoreFits(Cur, q)'
    OBVIOUS
  <2>1. CASE q # p
    <3>1. StoreFits(st', q)
      BY <1>1, <1>3, <2>1, OwnStepStore
    <3>2. \A u \in Owners : PageOf[u] = q => Unmoved(u)
      BY <1>2 DEF Unmoved
    <3>. QED BY <1>2, <1>4, <1>6, <2>1, <3>1, <3>2, StoreUnmoved
  <2>2. CASE q = p
    <3>1. p \notin st'.done /\ st'.sub[p].phase \notin MaybeSubmitted
      BY <1>2, <1>3 DEF CanResolve, MaybeSubmitted
    <3>2. CartFits(Cur, p)' /\ OrderFits(Cur, p)'
      BY <1>2, <1>4, <1>6, <3>1 DEF CartFits, OrderFits
    <3>3. GivenUpFits(Cur, p)'
      <4>1. \A u \in Owners : PageOf[u] = p => ~Authorized(u)
        BY <1>5
      <4>2. \A u \in Owners : st'.add[p] # [phase |-> "reserved", owner |-> u]
        BY <1>3 DEF IdleAdd
      <4>. QED BY <1>2, <1>4, <1>6, <4>1, <4>2 DEF GivenUpFits, Authorized
    <3>. QED BY <2>2, <3>2, <3>3 DEF StoreFits
  <2>. QED BY <2>1, <2>2
<1>. QED BY <1>4, <1>7, <1>8, <1>9, <1>10 DEF FlowInv

--------------------------------------------------------------------------------
(* The invariant holds *)

\* Before any call nothing is stored and every tab shows its product.
LEMMA FlowStarts ==
  ASSUME FlowInit
  PROVE  FlowInv
<1>1. /\ st = CreateState(0) /\ config = [run |-> 0, active |-> FALSE]
      /\ page = [t \in Owners |-> "product"] /\ call = [t \in Owners |-> NoCall]
      /\ verdict = [t \in Owners |-> "none"] /\ units = [p \in Products |-> 0]
      /\ orders = [p \in Products |-> 0] /\ abandoned = {}
  BY DEF FlowInit, Init
<1>2. LaneInv
  BY LaneInit DEF FlowInit
<1>3. /\ LaneSafe(st) /\ st.run = 0 /\ config.run = 0 /\ Cur = st
      /\ \A p \in Products : st.add[p] = IdleAdd /\ st.sub[p].phase \notin MaybeSubmitted /\ st.done = {}
  <2>1. 0 \in Nat
    OBVIOUS
  <2>2. LaneSafe(CreateState(0))
    BY <2>1, CreateSafe
  <2>3. \A p \in Products : CreateState(0).add[p] = IdleAdd
          /\ CreateState(0).sub[p].phase \notin MaybeSubmitted /\ CreateState(0).done = {}
    BY <2>1, CreatedFits
  <2>4. CreateState(0).run = 0
    BY DEF CreateState
  <2>. QED BY <1>1, <2>2, <2>3, <2>4 DEF Cur
<1>4. FlowTypeOK
  <2>1. "product" \in Pages
    <3>1. "cancel" \in Ops /\ Calls["cancel"].granted = "product"
      BY DEF Ops, Calls
    <3>. QED BY <3>1 DEF Pages
  <2>2. NoCall \in [op : Ops \cup {"none"}, config : Configs]
    BY DEF NoCall, Configs
  <2>3. /\ page \in [Owners -> Pages] /\ call \in [Owners -> [op : Ops \cup {"none"}, config : Configs]]
    BY <1>1, <2>1, <2>2
  <2>. QED BY <1>1, <2>3 DEF FlowTypeOK
<1>5. \A u \in Owners : CallFits(u) /\ TabFits(Cur, u)
  <2>. SUFFICES ASSUME NEW u \in Owners PROVE CallFits(u) /\ TabFits(Cur, u)
    OBVIOUS
  <2>1. page[u] = "product" /\ call[u] = NoCall /\ verdict[u] = "none" /\ NoCall.op = "none"
    BY <1>1 DEF NoCall
  <2>2. ClickFits(Cur, u) /\ SubmitFits(Cur, u) /\ AddIsWhere(Cur, u) /\ ReportFits(Cur, u)
    BY <2>1 DEF ClickFits, SubmitFits, AddIsWhere, ReportFits, Authorized
  <2>. QED BY <2>1, <2>2 DEF CallFits, TabFits
<1>6. \A q \in Products : StoreFits(Cur, q)
  <2>. SUFFICES ASSUME NEW q \in Products PROVE StoreFits(Cur, q)
    OBVIOUS
  <2>1. Cur.add[q] = IdleAdd /\ Cur.sub[q].phase \notin MaybeSubmitted /\ Cur.done = {}
        /\ units[q] = 0 /\ orders[q] = 0 /\ abandoned = {}
    BY <1>1, <1>3
  <2>. QED BY <2>1 DEF StoreFits, CartFits, OrderFits, GivenUpFits
<1>. QED BY <1>2, <1>3, <1>4, <1>5, <1>6 DEF FlowInv

\* A call that is awaited is one of the worker's.
CallsKnown == DOMAIN call = Owners /\ \A t \in Owners : call[t] = NoCall \/ call[t].op \in Ops

\* A handler that answers a tab is one of the worker's.
LEMMA HandledIsMessage ==
  ASSUME CallsKnown, NEW t \in Owners, Handled(t)
  PROVE  Next
<1>. DEFINE op == call[t].op
            c == call[t].config
            p == PageOf[t]
<1>1. p \in Products
  BY FlowAssumption
<1>2. HandledByLane(t, op, p, c)
  BY DEF Handled
<1>3. op \in {"prepare", "claim", "reclaim", "release", "yield", "authorize", "cancel",
              "clicked", "confirmed", "failed", "handoff", "intent", "submitted", "rejected",
              "observed", "complete", "confirm"}
  <2>1. op \in Ops
    BY DEF Handled, CallsKnown
  <2>. QED BY <2>1 DEF Ops, Calls
<1>. HIDE DEF op, c, p
<1>4. Message(p, t, c) /\ c \in served
  <2>1. CASE op = "prepare"
    BY <1>2, <2>1 DEF HandledByLane, PrepareAdd, Handle, Message
  <2>2. CASE op \in {"claim", "reclaim"}
    BY <1>2, <2>2 DEF HandledByLane, ClaimProduct, Handle, Message
  <2>3. CASE op \in {"release", "yield"}
    BY <1>2, <2>3 DEF HandledByLane, ReleaseLane, Handle, Message
  <2>4. CASE op = "authorize"
    BY <1>2, <2>4 DEF HandledByLane, AuthorizeAdd, Handle, Message
  <2>5. CASE op = "cancel"
    BY <1>2, <2>5 DEF HandledByLane, MarkAdd, Handle, Message
  <2>6. CASE op \in {"clicked", "confirmed", "failed"}
    BY <1>2, <2>6 DEF HandledByLane, MarkAdd, Handle, Message
  <2>7. CASE op = "handoff"
    BY <1>2, <2>7 DEF HandledByLane, BeginReview, Handle, Message
  <2>8. CASE op = "intent"
    BY <1>2, <2>8 DEF HandledByLane, BeginSubmit, Handle, Message
  <2>9. CASE op = "submitted"
    BY <1>2, <2>9 DEF HandledByLane, MarkSubmit, Handle, Message
  <2>10. CASE op = "rejected"
    BY <1>2, <2>10 DEF HandledByLane, MarkSubmit, Handle, Message
  <2>11. CASE op = "observed"
    BY <1>2, <2>11 DEF HandledByLane, MarkManual, Handle, Message
  <2>12. CASE op \in {"complete", "confirm"}
    BY <1>2, <2>12 DEF HandledByLane, CompleteProduct, Handle, Message
  <2>. QED BY <1>3, <2>1, <2>2, <2>3, <2>4, <2>5, <2>6, <2>7, <2>8, <2>9, <2>10, <2>11, <2>12
<1>. QED BY <1>1, <1>4 DEF Next, p

\* Whatever the tabs, the desktop, the store and the operator do, the worker's
\* variables take a step of the purchase lane.
LEMMA FlowStepsLane ==
  ASSUME CallsKnown, [FlowNext]_flowVars
  PROVE  [Next]_vars
<1>0. \A t \in Owners : PageOf[t] \in Products
  BY FlowAssumption
<1>1. ASSUME NEW t \in Owners, TabStep(t)
      PROVE  UNCHANGED vars
  <2>1. CASE AskPrepare(t) \/ Withdraw(t) \/ AskAuthorize(t) \/ AskCancel(t) \/ AskClicked(t)
             \/ AskRejectedAdd(t) \/ AskStoreError(t) \/ AskFailed(t) \/ AskConfirmed(t)
             \/ AskComplete(t)
    BY <2>1 DEF AskPrepare, Withdraw, AskAuthorize, AskCancel, AskClicked, AskRejectedAdd,
       AskStoreError, AskFailed, AskConfirmed, AskComplete, ReportFailed, Ask, Send
  <2>2. CASE AskClaim(t) \/ AskReclaim(t) \/ AskYield(t) \/ AskHandoff(t) \/ AskIntent(t)
             \/ AskSubmitted(t) \/ AskRejected(t) \/ AskConfirm(t)
    BY <2>2 DEF AskClaim, AskReclaim, AskYield, AskHandoff, AskIntent, AskSubmitted,
       AskRejected, AskConfirm, Ask, Send
  <2>3. CASE ReturnToCart(t) \/ ClickAdd(t) \/ ControlGone(t) \/ OpenCart(t) \/ LineVerified(t)
             \/ SubmitGone(t)
    BY <2>3 DEF ReturnToCart, ClickAdd, ControlGone, OpenCart, LineVerified, SubmitGone, Goto
  <2>4. CASE ClickSubmit(t)
    BY <2>4 DEF ClickSubmit, PlaceOrder
  <2>. QED BY <1>1, <2>1, <2>2, <2>3, <2>4 DEF TabStep
<1>2. ASSUME NEW t \in Owners, Handled(t)
      PROVE  Next
  BY <1>2, HandledIsMessage
<1>3. ASSUME NEW t \in Owners, OfferRefused(t)
      PROVE  Next
  BY <1>0, <1>3 DEF OfferRefused, AuthorizeAdd, Handle, Message, Next
<1>4. ASSUME NEW t \in Owners, Failed(t) \/ UserSubmits(t) \/ Reload(t)
      PROVE  UNCHANGED vars
  BY <1>4 DEF Failed, UserSubmits, PlaceOrder, Reload
<1>5. ASSUME NEW t \in Owners, OperatorResolves(t)
      PROVE  Next
  BY <1>0, <1>5 DEF OperatorResolves, ResolveKnownNoOrder, Handle, Message, Next
<1>6. ASSUME NEW p \in Products, CartDrops(p) \/ LeaseLapses(p)
      PROVE  [Next]_vars
  BY <1>6 DEF CartDrops, LeaseLapses, Next
<1>7. CASE StopAll \/ ArmRun
  BY <1>7 DEF StopAll, ArmRun, Next
<1>8. CASE UNCHANGED flowVars
  BY <1>8 DEF flowVars
<1>. QED BY <1>1, <1>2, <1>3, <1>4, <1>5, <1>6, <1>7, <1>8 DEF FlowNext

\* No other call is ever awaited.
LEMMA CallsStayKnown ==
  ASSUME CallsKnown, [FlowNext]_flowVars
  PROVE  CallsKnown'
<1>1. \/ call' = call
      \/ \E t \in Owners : call' = [call EXCEPT ![t] = NoCall]
      \/ \E t \in Owners, op \in Ops : call' = [call EXCEPT ![t] = [op |-> op, config |-> config]]
  <2>1. ASSUME NEW t \in Owners, NEW op \in Ops, Send(t, op)
        PROVE  \E u \in Owners, o \in Ops : call' = [call EXCEPT ![u] = [op |-> o, config |-> config]]
    BY <2>1 DEF Send
  <2>2. ASSUME NEW t \in Owners, TabStep(t), ~ \E op \in Ops : Send(t, op)
        PROVE  call' = call
    <3>1. /\ ~AskPrepare(t) /\ ~Withdraw(t) /\ ~AskAuthorize(t) /\ ~AskCancel(t) /\ ~AskClicked(t)
          /\ ~AskRejectedAdd(t) /\ ~AskStoreError(t) /\ ~AskFailed(t) /\ ~AskConfirmed(t)
          /\ ~AskComplete(t)
      BY <2>2, CallPlaces DEF AskPrepare, Withdraw, AskAuthorize, AskCancel, AskClicked,
         AskRejectedAdd, AskStoreError, AskFailed, AskConfirmed, AskComplete, ReportFailed, Ask
    <3>2. /\ ~AskClaim(t) /\ ~AskReclaim(t) /\ ~AskYield(t) /\ ~AskHandoff(t) /\ ~AskIntent(t)
          /\ ~AskSubmitted(t) /\ ~AskRejected(t) /\ ~AskConfirm(t)
      BY <2>2, CallPlaces DEF AskClaim, AskReclaim, AskYield, AskHandoff, AskIntent,
         AskSubmitted, AskRejected, AskConfirm, Ask
    <3>3. CASE ReturnToCart(t) \/ ClickAdd(t) \/ ControlGone(t) \/ OpenCart(t) \/ LineVerified(t)
               \/ SubmitGone(t)
      BY <3>3 DEF ReturnToCart, ClickAdd, ControlGone, OpenCart, LineVerified, SubmitGone, Goto
    <3>4. CASE ClickSubmit(t)
      BY <3>4 DEF ClickSubmit
    <3>. QED BY <2>2, <3>1, <3>2, <3>3, <3>4 DEF TabStep
  <2>3. ASSUME NEW t \in Owners, Handled(t) \/ OfferRefused(t) \/ Failed(t) \/ Reload(t)
        PROVE  call' = [call EXCEPT ![t] = NoCall]
    BY <2>3 DEF Handled, OfferRefused, Failed, Reload, Reply
  <2>4. ASSUME NEW t \in Owners, UserSubmits(t)
        PROVE  \E op \in Ops : call' = [call EXCEPT ![t] = [op |-> op, config |-> config]]
    BY <2>4, CallPlaces DEF UserSubmits
  <2>5. ASSUME NEW t \in Owners, OperatorResolves(t)
        PROVE  call' = call
    BY <2>5 DEF OperatorResolves, tabs
  <2>6. ASSUME NEW p \in Products, CartDrops(p) \/ LeaseLapses(p)
        PROVE  call' = call
    BY <2>6 DEF CartDrops, LeaseLapses, tabs
  <2>7. CASE StopAll \/ ArmRun \/ UNCHANGED flowVars
    BY <2>7 DEF StopAll, ArmRun, flowVars, tabs
  <2>. QED BY <2>1, <2>2, <2>3, <2>4, <2>5, <2>6, <2>7 DEF FlowNext
<1>2. CASE call' = call
  BY <1>2 DEF CallsKnown
<1>3. ASSUME NEW t \in Owners, call' = [call EXCEPT ![t] = NoCall]
      PROVE  CallsKnown'
  BY <1>3 DEF CallsKnown
<1>4. ASSUME NEW t \in Owners, NEW op \in Ops, call' = [call EXCEPT ![t] = [op |-> op, config |-> config]]
      PROVE  CallsKnown'
  BY <1>4 DEF CallsKnown
<1>. QED BY <1>1, <1>2, <1>3, <1>4

\* So it is under the invariant.
LEMMA InvCallsKnown ==
  ASSUME FlowInv
  PROVE  CallsKnown
BY DEF FlowInv, FlowTypeOK, CallFits, CallsKnown

\* Nothing happens.
LEMMA FlowStutters ==
  ASSUME FlowInv, UNCHANGED flowVars
  PROVE  FlowInv'
<1>1. /\ st' = st /\ config' = config /\ served' = served /\ page' = page /\ call' = call
      /\ verdict' = verdict /\ units' = units /\ orders' = orders /\ abandoned' = abandoned
  BY DEF flowVars, vars, tabs, store
<1>2. LaneInv' /\ FlowTypeOK' /\ LaneSafe(st') /\ st'.run <= config'.run
  BY <1>1 DEF FlowInv, LaneInv, FlowTypeOK
<1>3. Cur' = Cur
  BY <1>1 DEF Cur
<1>4. \A u \in Owners : CallFits(u)' /\ TabFits(Cur, u)'
  <2>. SUFFICES ASSUME NEW u \in Owners PROVE CallFits(u)' /\ TabFits(Cur, u)'
    OBVIOUS
  <2>1. TabFits(Cur, u) /\ Unmoved(u)
    BY <1>1 DEF Unmoved, FlowInv
  <2>2. TabFits(Cur, u)'
    BY <1>1, <1>3, <2>1, TabUnmoved
  <2>3. CallFits(u)'
    BY <1>1 DEF FlowInv, CallFits
  <2>. QED BY <2>2, <2>3
<1>5. \A q \in Products : StoreFits(Cur, q)'
  BY <1>1, <1>3 DEF FlowInv, StoreFits, CartFits, OrderFits, GivenUpFits, Clicking,
     ReceiptPending, Authorized
<1>. QED BY <1>2, <1>4, <1>5 DEF FlowInv

\* Each step of a tab keeps the invariant.
LEMMA TabStepInv ==
  ASSUME FlowInv, LaneInv', Members = {}, misread' = {}, NEW t \in Owners, TabStep(t)
  PROVE  FlowInv'
<1>1. CASE AskPrepare(t) \/ Withdraw(t) \/ AskAuthorize(t) \/ AskCancel(t) \/ AskClicked(t)
  BY <1>1, ProductPageAsks
<1>2. CASE AskConfirmed(t) \/ AskComplete(t) \/ AskClaim(t)
  BY <1>2, CartPageAsks
<1>3. CASE AskReclaim(t) \/ AskYield(t) \/ AskHandoff(t) \/ AskIntent(t) \/ AskSubmitted(t)
           \/ AskRejected(t) \/ AskConfirm(t)
  BY <1>3, CheckoutAsks
<1>4. CASE ReturnToCart(t) \/ ControlGone(t) \/ OpenCart(t) \/ LineVerified(t) \/ SubmitGone(t)
  BY <1>4, TabGoesInv
<1>5. CASE ClickAdd(t)
  BY <1>5, ClickAddInv
<1>6. CASE ClickSubmit(t)
  BY <1>6, OrderedInv
<1>7. CASE AskRejectedAdd(t) \/ AskStoreError(t) \/ AskFailed(t)
  BY <1>7, FailureReports
<1>. QED BY <1>1, <1>2, <1>3, <1>4, <1>5, <1>6, <1>7 DEF TabStep

\* Each step of the flow keeps the invariant while no report of a failed Add is
\* wrong.
LEMMA FlowStep ==
  ASSUME FlowInv, [FlowNext]_flowVars, misread' = {}, Faults = {}, Members = {}
  PROVE  FlowInv'
<1>1. LaneInv'
  BY InvCallsKnown, FlowStepsLane, LaneStep DEF FlowInv
<1>2. ASSUME NEW t \in Owners, TabStep(t) PROVE FlowInv'
  BY <1>1, <1>2, TabStepInv
<1>3. ASSUME NEW t \in Owners, Handled(t) PROVE FlowInv'
  BY <1>1, <1>3, HandledInv
<1>4. ASSUME NEW t \in Owners, OfferRefused(t) PROVE FlowInv'
  BY <1>1, <1>4, OfferRefusedInv
<1>5. ASSUME NEW t \in Owners, Failed(t) PROVE FlowInv'
  BY <1>1, <1>5, FailedInv
<1>6. ASSUME NEW t \in Owners, UserSubmits(t) PROVE FlowInv'
  BY <1>1, <1>6, OrderedInv
<1>7. ASSUME NEW t \in Owners, Reload(t) PROVE FlowInv'
  BY <1>1, <1>7, ReloadInv
<1>8. ASSUME NEW t \in Owners, OperatorResolves(t) PROVE FlowInv'
  BY <1>1, <1>8, ResolvedInv
<1>9. ASSUME NEW p \in Products, CartDrops(p) PROVE FlowInv'
  BY <1>1, <1>9, DropInv
<1>10. ASSUME NEW p \in Products, LeaseLapses(p) PROVE FlowInv'
  BY <1>1, <1>10, LapsedInv
<1>11. CASE StopAll
  BY <1>1, <1>11, StoppedInv
<1>12. CASE ArmRun
  <2>1. ASSUME NEW u \in Owners
        PROVE  CallFits(u) /\ (page[u] = "handoff" => ActionOf[PageOf[u]] = "review")
    BY DEF FlowInv, TabFits, AddIsWhere
  <2>2. LaneInv /\ LaneSafe(st) /\ st.run <= config.run /\ FlowTypeOK
    BY DEF FlowInv
  <2>. QED BY <1>1, <1>12, <2>1, <2>2, ArmedInv
<1>13. CASE UNCHANGED flowVars
  BY <1>13, FlowStutters
<1>. QED BY <1>2, <1>3, <1>4, <1>5, <1>6, <1>7, <1>8, <1>9, <1>10, <1>11, <1>12, <1>13 DEF FlowNext

\* A mission whose cart or order is open is on record.
LEMMA OpenIsRecorded ==
  ASSUME FlowInv, Members = {}, NEW p \in Products, p \notin Now.done,
         units[p] > 0 \/ orders[p] > 0
  PROVE  NeedsHold(Now, p) \/ Clicking(p)
<1>1. CartFits(Now, p) /\ OrderFits(Now, p) /\ ActionOf[p] \in {"watch", "cart", "review", "checkout"}
      /\ units[p] \in Nat /\ orders[p] \in Nat
  BY ReadFacts, ConfigAssumption DEF StoreFits, FlowInv, FlowTypeOK
<1>2. CASE units[p] > 0
  BY <1>1, <1>2 DEF CartFits
<1>3. CASE orders[p] > 0 /\ ActionOf[p] \in {"review", "checkout"}
  BY <1>1, <1>3 DEF OrderFits, NeedsHold
<1>4. CASE orders[p] > 0 /\ ActionOf[p] \in {"watch", "cart"}
  BY <1>1, <1>4 DEF OrderFits
<1>. QED BY <1>1, <1>2, <1>3, <1>4

--------------------------------------------------------------------------------
(* The flows under every fault: a weaker invariant, of the worker's record, of *)
(* the pages that may still click or submit and of the orders.                 *)

\* What the page x of t asks of the record s: a tab allowed to click has the
\* lane of its reservation, one allowed to submit has the recorded intent and
\* nothing ordered, and one past its Add is not adding.
FaultPage(s, t, x) ==
  LET p == PageOf[t]
  IN /\ x \in {"authorized", "clicking"} /\ s.add[p] = [phase |-> "reserved", owner |-> t]
          => OwnsLane(s, p, t) /\ s.wf[p].owner = t
     /\ x = "intent" =>
          /\ s.sub[p].phase = "intent" /\ ActionOf[p] = "checkout" /\ p \notin s.done
          /\ orders[p] = 0 /\ \A k \in LockKeys(p) : s.locks[k] = Lock(p, t, TRUE)
     /\ x \in {"summary", "handoff", "intent", "submitting", "submitted"} =>
          s.add[p].owner # t \/ s.add[p].phase \notin {"reserved", "clicked"}
     /\ x = "handoff" => ActionOf[p] = "review"

\* An automatic order that the record has not closed.
OrderOpen(s, p) == ActionOf[p] = "checkout" /\ orders[p] > 0 /\ p \notin s.done

\* The record of p knows of its orders: none for a mission that does not order,
\* one at most for an automatic one, which stays possible until it is completed,
\* and which the tab with the lane does not hold for rejected.
RecordFits(s, p) ==
  /\ ActionOf[p] \in {"cart", "watch"} => orders[p] = 0
  /\ ActionOf[p] = "checkout" => orders[p] <= 1
  /\ OrderOpen(s, p) =>
       /\ s.sub[p].phase \in MaybeSubmitted
       /\ \A t \in Owners : PageOf[t] = p /\ s.locks[ProductKey(p)].owner = t
            => verdict[t] # "rejected"

\* A tab that saw its order accepted has an order.
VerdictFits(t) == verdict[t] = "accepted" => orders[PageOf[t]] > 0

\* The invariant of the page flows under every fault.
FaultInv ==
  /\ LaneInv /\ LaneSafe(st) /\ st.run <= config.run
  /\ FlowTypeOK
  /\ \A t \in Owners : CallFits(t) /\ FaultPage(Cur, t, page[t]) /\ VerdictFits(t)
  /\ \A p \in Products : RecordFits(Cur, p)

\* What a handler of the present run finds then.
FaultReady(n) ==
  /\ Ready(n) /\ n.run = config.run
  /\ \A t \in Owners : FaultPage(n, t, page[t])
  /\ \A p \in Products : RecordFits(n, p)

\* A read disturbs no page.
LEMMA NormalizedPage ==
  ASSUME NEW s, StateInv(s), LaneSafe(s), Members = {},
         NEW t \in Owners, NEW p \in Products, PageOf[t] = p, NEW x, FaultPage(s, t, x)
  PROVE  FaultPage(Normalized(s), t, x)
<1>. DEFINE n == Normalized(s)
<1>0. s \in AutomationStates /\ Sealed(s)
  BY DEF StateInv
<1>1. SameReceipts(s, n) /\ \A k \in Keys : n.locks[k] = NormalLock(s, k)
  BY <1>0, NormalizedFields
<1>2. AddFits(s, p) /\ WorkflowFits(s, p) /\ SubmissionFits(s, p)
  BY DEF LaneSafe, ReceiptsFit
<1>3. LockKeys(p) \subseteq Keys
  BY KeyFacts
<1>. HIDE DEF n
<1>4. ASSUME x \in {"authorized", "clicking"}, n.add[p] = [phase |-> "reserved", owner |-> t]
      PROVE  OwnsLane(n, p, t) /\ n.wf[p].owner = t
  <2>1. s.add[p] = [phase |-> "reserved", owner |-> t]
    BY <1>1, <1>4 DEF SameReceipts
  <2>2. OwnsLane(s, p, t) /\ s.wf[p].owner = t /\ p \notin s.done
    BY <1>0, <1>4, <2>1 DEF FaultPage, Sealed, IdleAdd
  <2>3. ~NeedsHold(s, p)
    BY <1>2, <2>1, <2>2 DEF NeedsHold, WorkflowFits, SubmissionFits, HeldWorkflowPhases, MaybeSubmitted
  <2>4. ASSUME NEW k \in LockKeys(p) PROVE n.locks[k] = s.locks[k]
    <3>1. s.locks[k].pid = p
      BY <2>2 DEF OwnsLane, OwnedBy
    <3>2. \A q \in Products : NeedsHold(s, q) => k \notin LockKeys(q)
      BY <2>3, <3>1, NobodysNames DEF LaneSafe, LaneKept
    <3>3. NormalLock(s, k) = IF s.locks[k].pid \in s.done THEN Free ELSE s.locks[k]
      BY <1>0, <1>3, <3>2, NormalOtherLock
    <3>. QED BY <1>1, <1>3, <2>2, <3>1, <3>3
  <2>5. OwnsLane(n, p, t)
    BY <2>2, <2>4 DEF OwnsLane, OwnedBy
  <2>6. n.wf[p].owner = t
    BY <1>1, <2>2, NobodysNames DEF SameReceipts, WorkflowOwner
  <2>. QED BY <2>5, <2>6
<1>5. ASSUME x = "intent"
      PROVE  /\ n.sub[p].phase = "intent" /\ ActionOf[p] = "checkout" /\ p \notin n.done
             /\ orders[p] = 0 /\ \A k \in LockKeys(p) : n.locks[k] = Lock(p, t, TRUE)
  <2>1. s.sub[p].phase = "intent" /\ ActionOf[p] = "checkout" /\ p \notin s.done
        /\ orders[p] = 0 /\ \A k \in LockKeys(p) : s.locks[k] = Lock(p, t, TRUE)
    BY <1>5 DEF FaultPage
  <2>2. NeedsHold(s, p)
    BY <2>1 DEF NeedsHold, MaybeSubmitted
  <2>3. ASSUME NEW k \in LockKeys(p) PROVE n.locks[k] = s.locks[k]
    <3>1. s.locks[k].hold
      BY <2>1 DEF Lock, Free
    <3>. QED BY <1>0, <1>1, <1>3, <2>2, <3>1, NormalHeldLock
  <2>. QED BY <1>1, <2>1, <2>3 DEF SameReceipts
<1>6. n.add = s.add
  BY <1>1 DEF SameReceipts
<1>. QED BY <1>4, <1>5, <1>6 DEF FaultPage, n

\* Nor what the record knows of the orders.
LEMMA NormalizedRecord ==
  ASSUME NEW s, StateInv(s), LaneSafe(s), Members = {}, NEW p \in Products, RecordFits(s, p)
  PROVE  RecordFits(Normalized(s), p)
<1>. DEFINE n == Normalized(s)
            k == ProductKey(p)
<1>0. s \in AutomationStates
  BY DEF StateInv
<1>1. SameReceipts(s, n) /\ \A j \in Keys : n.locks[j] = NormalLock(s, j)
  BY <1>0, NormalizedFields
<1>2. AddFits(s, p) /\ SubmissionFits(s, p)
  BY DEF LaneSafe, ReceiptsFit
<1>3. k \in Keys /\ k \in LockKeys(p)
  BY KeyFacts
<1>. HIDE DEF n
<1>4. n.sub = s.sub /\ n.done = s.done
  BY <1>1 DEF SameReceipts
<1>5. ASSUME OrderOpen(s, p), NEW t \in Owners, PageOf[t] = p, n.locks[k].owner = t
      PROVE  verdict[t] # "rejected"
  <2>1. s.sub[p].phase \in MaybeSubmitted /\ (s.locks[k].owner = t => verdict[t] # "rejected")
    BY <1>5 DEF RecordFits
  <2>2. NeedsHold(s, p)
    BY <1>5, <2>1 DEF NeedsHold, OrderOpen
  <2>3. n.locks[k] = IF s.locks[k].hold THEN s.locks[k] ELSE Lock(p, HoldOwner(s, p, s.locks[k]), TRUE)
    BY <1>0, <1>1, <1>3, <2>2, NormalHeldLock
  <2>4. CASE s.locks[k].hold
    BY <1>5, <2>1, <2>3, <2>4
  <2>5. CASE ~s.locks[k].hold
    <3>1. s.add[p] = IdleAdd /\ s.wf[p].owner = Nobody
      BY <1>2, <2>1, <2>5 DEF SubmissionFits, AddFits
    <3>2. s.locks[k].owner # t => HoldOwner(s, p, s.locks[k]) # t
      BY <3>1, NobodysNames DEF HoldOwner, WorkflowOwner, IdleAdd
    <3>3. n.locks[k] = Lock(p, HoldOwner(s, p, s.locks[k]), TRUE)
      BY <2>3, <2>5
    <3>4. n.locks[k].owner = HoldOwner(s, p, s.locks[k])
      BY <3>3 DEF Lock, Free
    <3>. QED BY <1>5, <2>1, <3>2, <3>4
  <2>. QED BY <2>4, <2>5
<1>6. OrderOpen(n, p) <=> OrderOpen(s, p)
  BY <1>4 DEF OrderOpen
<1>. QED BY <1>4, <1>5, <1>6 DEF RecordFits, n

\* What every handler of the present run finds.
LEMMA FaultReads ==
  ASSUME FaultInv, Members = {}
  PROVE  /\ FaultReady(Now) /\ Guarded(Now) /\ Now = Normalized(Cur) /\ config.run \in Nat
         /\ StateInv(Cur) /\ LaneSafe(Cur)
<1>1. config.run \in Nat /\ StateInv(st) /\ LaneSafe(st)
  BY DEF FaultInv, LaneInv, Configs
<1>2. StateInv(CreateState(config.run)) /\ LaneSafe(CreateState(config.run))
  BY <1>1, CreateInv, CreateSafe
<1>3. CreateState(config.run).run = config.run
  BY DEF CreateState
<1>4. StateInv(Cur) /\ LaneSafe(Cur) /\ Cur.run = config.run
  BY <1>1, <1>2, <1>3 DEF Cur
<1>5. Now = Normalized(Cur)
  BY DEF Now, NormalizeState, Normalized, Cur
<1>6. StateInv(Now) /\ Guarded(Now)
  BY <1>1, ReadInv DEF Now
<1>7. Now.run = config.run
  BY <1>4, <1>5, NormalizedFields DEF StateInv, SameReceipts
<1>8. LaneSafe(Now) /\ LaneReady(Now)
  BY <1>4, <1>5, NormalizedSafe DEF StateInv
<1>9. ASSUME NEW t \in Owners PROVE FaultPage(Now, t, page[t])
  <2>1. PageOf[t] \in Products /\ FaultPage(Cur, t, page[t])
    BY FlowAssumption DEF FaultInv
  <2>. QED BY <1>4, <1>5, <2>1, NormalizedPage
<1>10. \A p \in Products : RecordFits(Now, p)
  BY <1>4, <1>5, NormalizedRecord DEF FaultInv
<1>. QED BY <1>1, <1>4, <1>5, <1>6, <1>7, <1>8, <1>9, <1>10 DEF FaultReady, Ready

\* A step of o on p that leaves a possible order of p and the owner of its lane.
SureStep(n, r, p, o) ==
  /\ OwnStep(n, r, p, o)
  /\ OrderOpen(n, p) =>
       /\ r.sub[p].phase \in MaybeSubmitted
       /\ r.locks[ProductKey(p)].owner \in {n.locks[ProductKey(p)].owner, Nobody}

\* The other tabs are not disturbed, not even those of the same mission.
LEMMA SurePages ==
  ASSUME NEW n, LaneSafe(n), NEW r, NEW p \in Products, NEW o \in Owners, OwnStep(n, r, p, o),
         NEW t \in Owners, t # o \/ PageOf[t] # p, NEW x, FaultPage(n, t, x)
  PROVE  FaultPage(r, t, x)
<1>. DEFINE q == PageOf[t]
<1>1. r.done = n.done /\ q \in Products
  BY FlowAssumption DEF OwnStep
<1>2. CASE q # p
  <2>1. r.add[q] = n.add[q] /\ r.sub[q] = n.sub[q] /\ r.wf[q] = n.wf[q]
    BY <1>1, <1>2 DEF OwnStep, OtherReceiptsKept
  <2>2. \A k \in LockKeys(q) : n.locks[k].pid = q => r.locks[k] = n.locks[k]
    BY <1>1, <1>2, OwnStepKeeps, KeyFacts DEF LaneSafe, OthersKept
  <2>3. Lock(q, t, TRUE).pid = q
    BY DEF Lock, Free
  <2>4. OwnsLane(n, q, t) => OwnsLane(r, q, t)
    BY <2>2 DEF OwnsLane, OwnedBy
  <2>5. (\A k \in LockKeys(q) : n.locks[k] = Lock(q, t, TRUE))
          => \A k \in LockKeys(q) : r.locks[k] = Lock(q, t, TRUE)
    BY <2>2, <2>3
  <2>. QED BY <1>1, <2>1, <2>4, <2>5 DEF FaultPage
<1>3. CASE q = p /\ t # o
  <2>0. t # Nobody
    BY NobodysNames
  <2>1. \A k \in LockKeys(p) : OwnedBy(n.locks[k], p, t) => r.locks[k] = n.locks[k]
    <3>1. \A k \in LockKeys(p) : k \in Keys
      BY KeyFacts
    <3>2. Free.pid # p
      BY NobodysNames
    <3>. QED BY <1>3, <3>1, <3>2 DEF OwnStep, LockStep, OwnedBy
  <2>2. OwnsLane(n, p, t) => ~LaneMine(n, p, o)
    <3>1. ProductKey(p) \in LockKeys(p) /\ Free.pid # p
      BY KeyFacts, NobodysNames
    <3>. QED BY <1>3, <3>1 DEF LaneMine, OwnsLane, OwnedBy
  <2>3. r.add[p] = n.add[p] \/ (n.add[p].owner # t /\ r.add[p].owner # t)
    BY <1>3, <2>0 DEF OwnStep, WithRights, MayTouch
  <2>4. ASSUME x \in {"authorized", "clicking"}, r.add[p] = [phase |-> "reserved", owner |-> t]
        PROVE  OwnsLane(r, p, t) /\ r.wf[p].owner = t
    <3>1. n.add[p] = [phase |-> "reserved", owner |-> t]
      BY <2>3, <2>4
    <3>2. OwnsLane(n, p, t) /\ n.wf[p].owner = t
      BY <1>3, <2>4, <3>1 DEF FaultPage
    <3>3. ~MayTouch(n, p, o)
      BY <1>3, <2>0, <3>1 DEF MayTouch
    <3>4. r.wf[p].owner = t
      BY <2>2, <3>2, <3>3 DEF OwnStep, WithRights
    <3>5. OwnsLane(r, p, t)
      BY <2>1, <3>2 DEF OwnsLane, OwnedBy
    <3>. QED BY <3>4, <3>5
  <2>5. ASSUME x = "intent"
        PROVE  /\ r.sub[p].phase = "intent" /\ ActionOf[p] = "checkout" /\ p \notin r.done
               /\ orders[p] = 0 /\ \A k \in LockKeys(p) : r.locks[k] = Lock(p, t, TRUE)
    <3>1. n.sub[p].phase = "intent" /\ ActionOf[p] = "checkout" /\ p \notin n.done
          /\ orders[p] = 0 /\ \A k \in LockKeys(p) : n.locks[k] = Lock(p, t, TRUE)
      BY <1>3, <2>5 DEF FaultPage
    <3>2. \A k \in LockKeys(p) : OwnedBy(n.locks[k], p, t)
      BY <3>1 DEF OwnedBy, Lock, Free
    <3>3. r.sub[p] = n.sub[p]
      BY <2>2, <3>2 DEF OwnStep, WithRights, OwnsLane
    <3>. QED BY <1>1, <2>1, <3>1, <3>2, <3>3
  <2>. QED BY <1>3, <2>3, <2>4, <2>5 DEF FaultPage
<1>. QED BY <1>2, <1>3

\* Nor what the record knows of any order.
LEMMA SureRecord ==
  ASSUME NEW n, LaneSafe(n), NEW r, NEW p \in Products, NEW o \in Owners, SureStep(n, r, p, o),
         NEW q \in Products, RecordFits(n, q)
  PROVE  RecordFits(r, q)
<1>0. r.done = n.done /\ OwnStep(n, r, p, o)
  BY DEF SureStep, OwnStep
<1>1. OrderOpen(r, q) <=> OrderOpen(n, q)
  BY <1>0 DEF OrderOpen
<1>2. CASE q # p
  <2>1. r.sub[q] = n.sub[q]
    BY <1>0, <1>2 DEF OwnStep, OtherReceiptsKept
  <2>2. r.locks[ProductKey(q)] = n.locks[ProductKey(q)]
    BY <1>0, <1>2, OwnStepKeeps, KeyFacts DEF LaneSafe, OthersKept
  <2>. QED BY <1>1, <2>1, <2>2 DEF RecordFits
<1>3. CASE q = p
  BY <1>1, <1>3, NobodysNames DEF RecordFits, SureStep
<1>. QED BY <1>2, <1>3

\* A possible order keeps its mission's lane.
LEMMA OpenHeld ==
  ASSUME NEW n, FaultReady(n), NEW p \in Products, OrderOpen(n, p)
  PROVE  /\ n.sub[p].phase \in MaybeSubmitted /\ NeedsHold(n, p)
         /\ \A k \in LockKeys(p) : n.locks[k].pid = p /\ n.locks[k].hold /\ n.locks[k] # Free
<1>1. n.sub[p].phase \in MaybeSubmitted /\ NeedsHold(n, p)
  BY DEF FaultReady, RecordFits, OrderOpen, NeedsHold
<1>2. \A k \in LockKeys(p) : n.locks[k].pid = p /\ n.locks[k].hold
  BY <1>1 DEF FaultReady, Ready, LaneReady
<1>. QED BY <1>1, <1>2, NobodysNames

\* The steps that make p's lane permanent, those of a mission with no possible
\* order, and those that leave its submission and its lane are such steps.
LEMMA SureSteps ==
  ASSUME NEW n, FaultReady(n), NEW p \in Products, NEW o \in Owners, NEW r, OwnStep(n, r, p, o),
         \/ n.sub[p].phase \notin MaybeSubmitted
         \/ ActionOf[p] # "checkout"
         \/ /\ r.sub[p].phase \in MaybeSubmitted \/ r.sub[p] = n.sub[p]
            /\ \/ r.locks[ProductKey(p)].owner \in {n.locks[ProductKey(p)].owner, Nobody}
               \/ HeldLeft(n, r, p, o) /\ OwnsLane(n, p, o)
  PROVE  SureStep(n, r, p, o)
<1>. SUFFICES ASSUME OrderOpen(n, p)
              PROVE  /\ r.sub[p].phase \in MaybeSubmitted
                     /\ r.locks[ProductKey(p)].owner \in {n.locks[ProductKey(p)].owner, Nobody}
  BY DEF SureStep
<1>1. n.sub[p].phase \in MaybeSubmitted /\ ActionOf[p] = "checkout"
  BY OpenHeld DEF OrderOpen
<1>2. HeldLeft(n, r, p, o) /\ OwnsLane(n, p, o)
        => r.locks[ProductKey(p)].owner = n.locks[ProductKey(p)].owner
  BY HeldOwner
<1>. QED BY <1>1, <1>2

\* A completion disturbs no page, unless the mission's own is about to submit.
LEMMA CompletionPages ==
  ASSUME NEW n, Ready(n), NEW q \in Products, NEW m, CompletionWrites(n, m, q),
         NEW t \in Owners, NEW x, FaultPage(n, t, x),
         PageOf[t] = q => x # "intent"
  PROVE  FaultPage(m, t, x)
<1>. DEFINE p == PageOf[t]
<1>1. p \in Products /\ t # Nobody
  BY FlowAssumption, NobodysNames
<1>2. CASE p = q
  <2>1. m.add[p].owner = Nobody
    BY <1>2 DEF CompletionWrites, IdleAdd
  <2>2. m.add[p] # [phase |-> "reserved", owner |-> t] /\ x # "intent"
    BY <1>1, <1>2, <2>1
  <2>3. x = "handoff" => ActionOf[p] = "review"
    BY DEF FaultPage
  <2>. QED BY <1>1, <2>1, <2>2, <2>3 DEF FaultPage
<1>3. CASE p # q
  <2>1. m.add[p] = n.add[p] /\ m.sub[p] = n.sub[p] /\ m.wf[p] = n.wf[p] /\ (p \in m.done <=> p \in n.done)
    BY <1>1, <1>3 DEF CompletionWrites
  <2>2. \A k \in LockKeys(p) : n.locks[k].pid = p => m.locks[k] = n.locks[k]
    BY <1>1, <1>3, CompletionKeeps, KeyFacts
  <2>3. Lock(p, t, TRUE).pid = p
    BY DEF Lock, Free
  <2>4. OwnsLane(n, p, t) => OwnsLane(m, p, t)
    BY <2>2 DEF OwnsLane, OwnedBy
  <2>5. (\A k \in LockKeys(p) : n.locks[k] = Lock(p, t, TRUE))
          => \A k \in LockKeys(p) : m.locks[k] = Lock(p, t, TRUE)
    BY <2>2, <2>3
  <2>. QED BY <2>1, <2>4, <2>5 DEF FaultPage
<1>. QED BY <1>2, <1>3

\* Nor the orders: one that is confirmed is closed.
LEMMA CompletionRecord ==
  ASSUME NEW n, Ready(n), NEW q \in Products, NEW m, CompletionWrites(n, m, q),
         NEW p \in Products, RecordFits(n, p)
  PROVE  RecordFits(m, p)
<1>1. CASE p = q
  BY <1>1 DEF CompletionWrites, RecordFits, OrderOpen
<1>2. CASE p # q
  <2>1. m.sub[p] = n.sub[p] /\ (p \in m.done <=> p \in n.done)
    BY <1>2 DEF CompletionWrites
  <2>2. m.locks[ProductKey(p)] = n.locks[ProductKey(p)]
    BY <1>2, CompletionKeeps
  <2>. QED BY <2>1, <2>2 DEF RecordFits, OrderOpen
<1>. QED BY <1>1, <1>2

\* It leaves everything as a handler may find it, where no page of the mission
\* is about to submit.
LEMMA FaultCompletion ==
  ASSUME NEW n, FaultReady(n), Guarded(n), NEW q \in Products, CanComplete(n, q),
         \A t \in Owners : PageOf[t] = q => page[t] # "intent"
  PROVE  FaultReady(Complete(n, q))
<1>. DEFINE m == Complete(n, q)
<1>1. Ready(n) /\ StateInv(n) /\ n.run = config.run
  BY DEF FaultReady, Ready
<1>2. CompletionWrites(n, m, q)
  BY <1>1, CompleteIs
<1>3. StateInv(m)
  BY <1>1, CompleteInv
<1>. HIDE DEF m
<1>4. LaneSafe(m) /\ LaneReady(m)
  BY <1>1, <1>2, CompletionSafe
<1>5. ASSUME NEW t \in Owners PROVE FaultPage(m, t, page[t])
  <2>1. FaultPage(n, t, page[t])
    BY DEF FaultReady
  <2>. QED BY <1>1, <1>2, <2>1, CompletionPages
<1>6. ASSUME NEW p \in Products PROVE RecordFits(m, p)
  <2>1. RecordFits(n, p)
    BY DEF FaultReady
  <2>. QED BY <1>1, <1>2, <2>1, CompletionRecord
<1>7. m.run = config.run
  BY <1>1, <1>2 DEF CompletionWrites
<1>8. FaultReady(m)
  BY <1>3, <1>4, <1>5, <1>6, <1>7 DEF FaultReady, Ready
<1>. QED BY <1>8 DEF m

\* Only the page of an automatic checkout is about to submit, and nothing of it
\* is ordered yet.
LEMMA IntentPages ==
  ASSUME NEW n, FaultReady(n), NEW q \in Products, ActionOf[q] # "checkout" \/ orders[q] # 0
  PROVE  \A t \in Owners : PageOf[t] = q => page[t] # "intent"
<1>. SUFFICES ASSUME NEW t \in Owners, PageOf[t] = q, page[t] = "intent" PROVE FALSE
  OBVIOUS
<1>1. FaultPage(n, t, page[t])
  BY DEF FaultReady
<1>. QED BY <1>1 DEF FaultPage

\* So does the release of a cart-only mission's stranded hold.
LEMMA FaultHealed ==
  ASSUME NEW n, FaultReady(n), Guarded(n), NEW p \in Products, NEW o \in Owners
  PROVE  FaultReady(HealStrandedCartHold(n, p, o))
<1>1. CASE \E q \in Products : Strands(n, p, o, q)
  <2>. DEFINE q == CHOOSE q \in Products : Strands(n, p, o, q)
  <2>1. q \in Products /\ Strands(n, p, o, q)
    BY <1>1
  <2>2. HealStrandedCartHold(n, p, o) = Complete(n, q)
    BY <1>1 DEF HealStrandedCartHold
  <2>. HIDE DEF q
  <2>3. CanComplete(n, q) /\ ActionOf[q] = "cart"
    BY <2>1 DEF Strands
  <2>4. \A t \in Owners : PageOf[t] = q => page[t] # "intent"
    BY <2>1, <2>3, IntentPages
  <2>5. FaultReady(Complete(n, q))
    BY <2>1, <2>3, <2>4, FaultCompletion
  <2>. QED BY <2>2, <2>5
<1>2. CASE ~\E q \in Products : Strands(n, p, o, q)
  BY <1>2 DEF HealStrandedCartHold
<1>. QED BY <1>1, <1>2

\* A claim is a step from the state its healing leaves.
LEMMA FaultClaimed ==
  ASSUME NEW n, FaultReady(n), Guarded(n), NEW p \in Products, NEW o \in Owners
  PROVE  /\ FaultReady(HealStrandedCartHold(n, p, o))
         /\ SureStep(HealStrandedCartHold(n, p, o), ClaimOutcome(n, p, o), p, o)
         /\ Claimed(n, p, o) => ClaimOutcome(n, p, o).add[p].phase \notin {"reserved", "clicked"}
<1>. DEFINE h == HealStrandedCartHold(n, p, o)
            r == ClaimOutcome(n, p, o)
<1>1. FaultReady(h)
  BY FaultHealed
<1>2. r = IF CanClaim(h, p, o) THEN Claim(h, p, o) ELSE h
  BY DEF ClaimOutcome
<1>3. Claimed(n, p, o) <=> CanClaim(h, p, o)
  BY DEF Claimed
<1>. HIDE DEF h, r
<1>4. Ready(h) /\ h \in AutomationStates /\ PlainLocks(h)
  BY <1>1, ReadyFacts DEF FaultReady
<1>5. CASE CanClaim(h, p, o)
  <2>1. OwnStep(h, Claim(h, p, o), p, o)
    BY <1>4, <1>5, ClaimStep
  <2>2. ClaimWrites(h, Claim(h, p, o), p, o)
    BY <1>4, ClaimIs
  <2>3. h.add[p].phase \notin {"reserved", "clicked"} /\ h.sub[p].phase \notin MaybeSubmitted
    BY <1>5 DEF CanClaim, ClaimableRecord
  <2>4. SureStep(h, Claim(h, p, o), p, o)
    BY <1>1, <2>1, <2>3, SureSteps
  <2>5. Claim(h, p, o).add[p].phase \notin {"reserved", "clicked"}
    BY <2>2, <2>3 DEF ClaimWrites
  <2>. QED BY <1>1, <1>2, <1>5, <2>4, <2>5 DEF h, r
<1>6. CASE ~CanClaim(h, p, o)
  <2>1. OwnStep(h, h, p, o)
    BY <1>4, RefusedStep
  <2>2. SureStep(h, h, p, o)
    BY <1>1, <2>1, SureSteps
  <2>. QED BY <1>1, <1>2, <1>3, <1>6, <2>2 DEF h, r
<1>. QED BY <1>5, <1>6

\* So is the preparation of an Add.
LEMMA FaultPrepared ==
  ASSUME NEW n, FaultReady(n), Guarded(n), NEW p \in Products, NEW o \in Owners,
         ActionOf[p] # "watch"
  PROVE  SureStep(HealStrandedCartHold(n, p, o), PrepareOutcome(n, p, o), p, o)
<1>. DEFINE h == HealStrandedCartHold(n, p, o)
            c == ClaimOutcome(n, p, o)
            r == PrepareOutcome(n, p, o)
<1>1. FaultReady(h) /\ SureStep(h, c, p, o)
  BY FaultClaimed
<1>2. CanClaim(h, p, o) => c = Claim(h, p, o)
  BY DEF ClaimOutcome
<1>3. Claimed(n, p, o) <=> CanClaim(h, p, o)
  BY DEF Claimed
<1>4. Prepared(n, p, o) <=> Claimed(n, p, o) /\ CanBeginAddAction(c, p, o)
  BY DEF Prepared
<1>5. r = IF Prepared(n, p, o) THEN BeginAddAction(c, p, o)
          ELSE IF Claimed(n, p, o) /\ CanRelease(c, p) THEN Release(c, p, o) ELSE c
  BY DEF PrepareOutcome
<1>. HIDE DEF h, c, r
<1>6. Ready(h) /\ h \in AutomationStates /\ PlainLocks(h)
  BY <1>1, ReadyFacts DEF FaultReady
<1>7. ASSUME CanClaim(h, p, o)
      PROVE  /\ c.add = h.add /\ OwnsLane(c, p, o) /\ h.sub[p].phase \notin MaybeSubmitted
             /\ h.add[p].phase = "idle" \/ h.add[p].phase = "confirmed"
  <2>1. ClaimWrites(h, c, p, o)
    BY <1>2, <1>6, <1>7, ClaimIs
  <2>2. Lock(p, o, FALSE).pid = p /\ Lock(p, o, FALSE).owner = o
    BY DEF Lock, Free
  <2>3. \A k \in LockKeys(p) : c.locks[k] = Lock(p, o, FALSE)
    BY <2>1, KeyFacts DEF ClaimWrites
  <2>4. OwnsLane(c, p, o)
    BY <2>2, <2>3 DEF OwnsLane, OwnedBy
  <2>5. (h.add[p] = IdleAdd \/ h.add[p].phase = "confirmed") /\ h.sub[p].phase \notin MaybeSubmitted
    BY <1>6, <1>7, ClaimFinds
  <2>. QED BY <2>1, <2>4, <2>5 DEF ClaimWrites, IdleAdd
<1>8. CASE Prepared(n, p, o)
  <2>1. CanClaim(h, p, o) /\ CanBeginAddAction(c, p, o)
    BY <1>3, <1>4, <1>8
  <2>2. h.add[p].phase = "idle" /\ h.sub[p].phase \notin MaybeSubmitted
    BY <1>7, <2>1 DEF CanBeginAddAction
  <2>3. OwnStep(h, BeginAddAction(Claim(h, p, o), p, o), p, o)
    BY <1>6, <2>1, <2>2, ReserveStep
  <2>4. r = BeginAddAction(Claim(h, p, o), p, o)
    BY <1>2, <1>5, <1>8, <2>1
  <2>5. SureStep(h, r, p, o)
    BY <1>1, <2>2, <2>3, <2>4, SureSteps
  <2>. QED BY <2>5 DEF h, r
<1>9. CASE ~Prepared(n, p, o)
  <2>1. ~(Claimed(n, p, o) /\ CanRelease(c, p))
    <3>. SUFFICES ASSUME Claimed(n, p, o), CanRelease(c, p) PROVE FALSE
      OBVIOUS
    <3>1. CanClaim(h, p, o) /\ ~CanBeginAddAction(c, p, o)
      BY <1>3, <1>4, <1>9
    <3>. QED BY <1>7, <3>1 DEF CanBeginAddAction, CanRelease
  <2>2. r = c
    BY <1>5, <1>9, <2>1
  <2>. QED BY <1>1, <2>2 DEF h, r
<1>. QED BY <1>8, <1>9

\* The invariant after a step in which nothing is ordered.
LEMMA FaultKept ==
  ASSUME FaultInv, LaneInv', FlowTypeOK', LaneSafe(st'), st'.run <= config'.run, orders' = orders,
         NEW r, Cur' = r,
         \A u \in Owners : /\ CallFits(u)' /\ FaultPage(r, u, page'[u])
                           /\ verdict'[u] \in {verdict[u], "none"},
         \A q \in Products : RecordFits(r, q)
  PROVE  FaultInv'
<1>1. ASSUME NEW u \in Owners
      PROVE  CallFits(u)' /\ FaultPage(Cur, u, page[u])' /\ VerdictFits(u)'
  <2>1. CallFits(u)' /\ FaultPage(r, u, page'[u]) /\ verdict'[u] \in {verdict[u], "none"}
    OBVIOUS
  <2>2. FaultPage(Cur, u, page[u])'
    BY <2>1 DEF FaultPage
  <2>3. VerdictFits(u)'
    BY <2>1 DEF VerdictFits, FaultInv
  <2>. QED BY <2>1, <2>2, <2>3
<1>2. ASSUME NEW q \in Products PROVE RecordFits(Cur, q)'
  <2>1. RecordFits(r, q) /\ \A u \in Owners : verdict'[u] \in {verdict[u], "none"}
    OBVIOUS
  <2>2. OrderOpen(Cur, q)' <=> OrderOpen(r, q)
    BY DEF OrderOpen
  <2>. QED BY <2>1, <2>2 DEF RecordFits
<1>. QED BY <1>1, <1>2 DEF FaultInv

\* The reply to a call types.
LEMMA AnsweredTypes ==
  ASSUME FlowTypeOK, NEW t \in Owners, NEW x \in Pages, Answered(t, x)
  PROVE  /\ FlowTypeOK' /\ page'[t] = x /\ call'[t] = NoCall
         /\ \A u \in Owners \ {t} : Unmoved(u)
         /\ verdict' = verdict /\ orders' = orders /\ config' = config
<1>1. NoCall \in [op : Ops \cup {"none"}, config : Configs]
  BY DEF NoCall, Configs
<1>2. /\ page' = [page EXCEPT ![t] = x] /\ call' = [call EXCEPT ![t] = NoCall]
      /\ verdict' = verdict /\ units' = units /\ orders' = orders /\ abandoned' = abandoned
      /\ config' = config
  BY DEF Answered
<1>3. page' \in [Owners -> Pages] /\ call' \in [Owners -> [op : Ops \cup {"none"}, config : Configs]]
  BY <1>1, <1>2 DEF FlowTypeOK
<1>4. FlowTypeOK'
  BY <1>2, <1>3 DEF FlowTypeOK
<1>5. page'[t] = x /\ call'[t] = NoCall /\ \A u \in Owners \ {t} : Unmoved(u)
  BY <1>2 DEF FlowTypeOK, Unmoved
<1>. QED BY <1>2, <1>4, <1>5

\* A reply after a step that leaves the orders on record, to a page that fits.
LEMMA FaultAnswered ==
  ASSUME FaultInv, LaneInv', NEW t \in Owners, NEW p \in Products, PageOf[t] = p,
         NEW m, FaultReady(m), SureStep(m, st', p, t),
         NEW x \in Pages, Answered(t, x), FaultPage(st', t, x)
  PROVE  FaultInv'
<1>0. LaneSafe(m) /\ LaneReady(m) /\ OwnStep(m, st', p, t) /\ FlowTypeOK
  BY DEF FaultReady, Ready, SureStep, FaultInv
<1>1. /\ FlowTypeOK' /\ page'[t] = x /\ call'[t] = NoCall
      /\ \A u \in Owners \ {t} : Unmoved(u)
      /\ verdict' = verdict /\ orders' = orders /\ config' = config
  BY <1>0, AnsweredTypes
<1>2. st'.run = config'.run
  BY <1>0, <1>1 DEF OwnStep, OtherReceiptsKept, FaultReady
<1>3. Cur' = st' /\ st'.run <= config'.run
  BY <1>2 DEF Cur, LaneInv, Configs
<1>4. LaneSafe(st')
  BY <1>0, OwnStepSafe
<1>5. ASSUME NEW u \in Owners
      PROVE  CallFits(u)' /\ FaultPage(st', u, page'[u]) /\ verdict'[u] \in {verdict[u], "none"}
  <2>1. CASE u = t
    <3>1. CallFits(t)'
      BY <1>1 DEF CallFits
    <3>. QED BY <1>1, <2>1, <3>1
  <2>2. CASE u # t
    <3>1. Unmoved(u) /\ CallFits(u) /\ FaultPage(m, u, page[u])
      BY <1>1, <2>2 DEF FaultInv, FaultReady
    <3>2. FaultPage(st', u, page[u])
      BY <1>0, <2>2, <3>1, SurePages
    <3>3. CallFits(u)'
      BY <1>1, <3>1, CallUnmoved
    <3>. QED BY <3>1, <3>2, <3>3 DEF Unmoved
  <2>. QED BY <2>1, <2>2
<1>6. ASSUME NEW q \in Products PROVE RecordFits(st', q)
  <2>1. RecordFits(m, q)
    BY DEF FaultReady
  <2>. QED BY <1>0, <2>1, SureRecord
<1>. QED BY <1>1, <1>3, <1>4, <1>5, <1>6, FaultKept

\* What a handler leaves for the call op of t: such a step, and a record that
\* the pages of the two replies fit.
FaultDone(t, op) ==
  /\ \E m : FaultReady(m) /\ SureStep(m, st', PageOf[t], t)
  /\ Granted(Now, t, op, PageOf[t]) => FaultPage(st', t, Calls[op].granted)
  /\ FaultPage(st', t, Calls[op].refused)

\* A handled call that leaves that.
LEMMA FaultReplied ==
  ASSUME FaultInv, LaneInv', Members = {}, NEW t \in Owners, Handled(t), config' = config,
         Read(call[t].config) = Now, call[t].op \in Ops, FaultDone(t, call[t].op)
  PROVE  FaultInv'
<1>. DEFINE op == call[t].op
            p == PageOf[t]
<1>1. \/ Granted(Now, t, op, p) /\ Answered(t, Calls[op].granted)
      \/ Answered(t, Calls[op].refused)
  BY Replies
<1>2. Calls[op].granted \in Pages /\ Calls[op].refused \in Pages /\ p \in Products
  BY AnswerPages, FlowAssumption
<1>3. PICK m : FaultReady(m) /\ SureStep(m, st', p, t)
  BY DEF FaultDone
<1>4. CASE Granted(Now, t, op, p) /\ Answered(t, Calls[op].granted)
  <2>1. FaultPage(st', t, Calls[op].granted)
    BY <1>4 DEF FaultDone
  <2>. QED BY <1>2, <1>3, <1>4, <2>1, FaultAnswered
<1>5. CASE Answered(t, Calls[op].refused)
  <2>1. FaultPage(st', t, Calls[op].refused)
    BY DEF FaultDone
  <2>. QED BY <1>2, <1>3, <1>5, <2>1, FaultAnswered
<1>. QED BY <1>1, <1>4, <1>5

\* What the handler of a call finds.
LEMMA FaultFound ==
  ASSUME FaultInv, Members = {}, NEW t \in Owners, call[t] # NoCall
  PROVE  /\ FaultReady(Now) /\ Ready(Now) /\ Guarded(Now) /\ PageOf[t] \in Products
         /\ Read(call[t].config) = Now /\ FaultPage(Now, t, page[t]) /\ CallFits(t) /\ VerdictFits(t)
         /\ call[t].op \in Ops /\ page[t] \in CallPages[call[t].op]
<1>1. FaultReady(Now) /\ Guarded(Now)
  BY FaultReads
<1>2. call[t].op \in Ops /\ page[t] \in CallPages[call[t].op] /\ call[t].config.run = config.run
      /\ CallFits(t) /\ VerdictFits(t)
  BY DEF FaultInv, CallFits
<1>3. Read(call[t].config) = Now
  BY <1>2 DEF Read, Now
<1>4. PageOf[t] \in Products /\ FaultPage(Now, t, page[t]) /\ Ready(Now)
  BY <1>1, FlowAssumption DEF FaultReady
<1>. QED BY <1>1, <1>2, <1>3, <1>4

\* The pages that ask nothing of the record.
LoosePages == PlainPages \cup {"reserved", "withdrawn"}

\* They fit any record.
LEMMA LoosePageFits ==
  ASSUME NEW r, NEW t, NEW x \in LoosePages
  PROVE  FaultPage(r, t, x)
BY DEF FaultPage, LoosePages, PlainPages

\* A refusal is such a step.
LEMMA FaultRefused ==
  ASSUME NEW n, FaultReady(n), NEW p \in Products, NEW o \in Owners
  PROVE  SureStep(n, n, p, o)
<1>1. OwnStep(n, n, p, o)
  BY RefusedStep DEF FaultReady
<1>. QED BY <1>1, SureSteps

\* The handlers, call by call: the reservation of the Add ...
LEMMA FaultPrepare ==
  ASSUME FaultInv, Members = {}, NEW t \in Owners, call[t] # NoCall, call[t].op = "prepare",
         HandledByLane(t, "prepare", PageOf[t], call[t].config)
  PROVE  FaultDone(t, "prepare")
<1>. DEFINE p == PageOf[t]
            h == HealStrandedCartHold(Now, p, t)
<1>1. FaultReady(Now) /\ Guarded(Now) /\ p \in Products /\ Read(call[t].config) = Now /\ CallFits(t)
  BY FaultFound
<1>2. st' = PrepareOutcome(Now, p, t) /\ ActionOf[p] # "watch"
  BY <1>1 DEF HandledByLane, PrepareAdd, Handle, CallFits
<1>3. FaultReady(h) /\ SureStep(h, st', p, t)
  BY <1>1, <1>2, FaultHealed, FaultPrepared
<1>4. FaultPage(st', t, "reserved") /\ FaultPage(st', t, "product")
  BY LoosePageFits DEF LoosePages, PlainPages
<1>. QED BY <1>3, <1>4, CallTable DEF FaultDone

\* ... the claim of the lane ...
LEMMA FaultClaim ==
  ASSUME FaultInv, Members = {}, NEW t \in Owners, call[t] # NoCall,
         NEW op \in {"claim", "reclaim"}, call[t].op = op,
         HandledByLane(t, op, PageOf[t], call[t].config)
  PROVE  FaultDone(t, op)
<1>. DEFINE p == PageOf[t]
            h == HealStrandedCartHold(Now, p, t)
<1>1. FaultReady(Now) /\ Guarded(Now) /\ p \in Products /\ Read(call[t].config) = Now
  BY FaultFound
<1>2. st' = ClaimOutcome(Now, p, t)
  BY <1>1 DEF HandledByLane, ClaimProduct, Handle
<1>3. FaultReady(h) /\ SureStep(h, st', p, t)
      /\ (Claimed(Now, p, t) => st'.add[p].phase \notin {"reserved", "clicked"})
  BY <1>1, <1>2, FaultClaimed
<1>4. FaultPage(st', t, "checkout") /\ FaultPage(st', t, "carted")
  BY LoosePageFits DEF LoosePages, PlainPages
<1>5. Claimed(Now, p, t) => FaultPage(st', t, "summary")
  BY <1>3 DEF FaultPage
<1>6. Granted(Now, t, op, p) <=> Claimed(Now, p, t)
  BY DEF Granted
<1>. QED BY <1>3, <1>4, <1>5, <1>6, CallTable DEF FaultDone

\* ... its release ...
LEMMA FaultRelease ==
  ASSUME FaultInv, Members = {}, NEW t \in Owners, call[t] # NoCall,
         NEW op \in {"release", "yield"}, call[t].op = op,
         HandledByLane(t, op, PageOf[t], call[t].config)
  PROVE  FaultDone(t, op)
<1>. DEFINE p == PageOf[t]
<1>1. FaultReady(Now) /\ Ready(Now) /\ p \in Products /\ Read(call[t].config) = Now
  BY FaultFound
<1>2. st' = ReleaseOutcome(Now, p, t)
  BY <1>1 DEF HandledByLane, ReleaseLane, Handle
<1>3. SureStep(Now, st', p, t)
  <2>1. CASE CanRelease(Now, p)
    <3>1. OwnStep(Now, Release(Now, p, t), p, t) /\ Now.sub[p].phase \notin MaybeSubmitted
      BY <1>1, <2>1, ReleaseStep DEF CanRelease
    <3>. QED BY <1>1, <1>2, <2>1, <3>1, SureSteps DEF ReleaseOutcome
  <2>2. CASE ~CanRelease(Now, p)
    BY <1>1, <1>2, <2>2, FaultRefused DEF ReleaseOutcome
  <2>. QED BY <2>1, <2>2
<1>4. FaultPage(st', t, "checkout") /\ FaultPage(st', t, "withdrawn")
  BY LoosePageFits DEF LoosePages, PlainPages
<1>. QED BY <1>1, <1>3, <1>4, CallTable DEF FaultDone

\* ... the receipts of the click and of the cart ...
LEMMA FaultReceipt ==
  ASSUME FaultInv, Members = {}, NEW t \in Owners, call[t] # NoCall,
         NEW op \in {"clicked", "confirmed"}, call[t].op = op,
         HandledByLane(t, op, PageOf[t], call[t].config)
  PROVE  FaultDone(t, op)
<1>. DEFINE p == PageOf[t]
            r == MarkAddAction(Now, p, t, op)
<1>1. FaultReady(Now) /\ Ready(Now) /\ p \in Products /\ Read(call[t].config) = Now
      /\ FaultPage(Now, t, page[t]) /\ page[t] \in CallPages[op]
  BY FaultFound
<1>2. st' = MarkAddOutcome(Now, p, t, op)
  BY <1>1 DEF HandledByLane, MarkAdd, Handle
<1>3. ASSUME CanMarkAddAction(Now, p, t, op)
      PROVE  OwnsLane(Now, p, t) /\ HeldLeft(Now, r, p, t) /\ r.sub = Now.sub
  <2>1. CASE op = "confirmed"
    BY <1>1, <1>3, <2>1, ConfirmedStep
  <2>2. CASE op = "clicked"
    <3>1. Now.add[p].phase = "reserved" /\ Now.add[p].owner \in {Nobody, t}
      BY <1>3, <2>2 DEF CanMarkAddAction
    <3>2. AddFits(Now, p) /\ Now \in AutomationStates
      BY <1>1, ReadyFacts
    <3>3. Now.add[p].owner = t
      BY <3>1, <3>2, NobodysNames DEF AddFits
    <3>4. Now.add[p] = [phase |-> "reserved", owner |-> t]
      BY <1>1, <3>1, <3>2, <3>3 DEF AutomationStates
    <3>5. OwnsLane(Now, p, t) /\ Now.wf[p].owner = t
      BY <1>1, <2>2, <3>4, CallPlaces DEF FaultPage
    <3>6. HeldLeft(Now, MarkAddAction(Now, p, t, "clicked"), p, t)
          /\ MarkAddAction(Now, p, t, "clicked").sub = Now.sub
      BY <1>1, <3>4, <3>5, ClickedStep
    <3>. QED BY <2>2, <3>5, <3>6
  <2>. QED BY <2>1, <2>2
<1>4. SureStep(Now, st', p, t)
  <2>1. CASE CanMarkAddAction(Now, p, t, op)
    <3>1. OwnsLane(Now, p, t) /\ HeldLeft(Now, st', p, t) /\ st'.sub = Now.sub
      BY <1>2, <1>3, <2>1 DEF MarkAddOutcome
    <3>2. OwnStep(Now, st', p, t)
      BY <3>1 DEF HeldLeft
    <3>. QED BY <1>1, <3>1, <3>2, SureSteps
  <2>2. CASE ~CanMarkAddAction(Now, p, t, op)
    BY <1>1, <1>2, <2>2, FaultRefused DEF MarkAddOutcome
  <2>. QED BY <2>1, <2>2
<1>5. \A x \in {"settling", "product", "carted", "cart"} : FaultPage(st', t, x)
  BY LoosePageFits DEF LoosePages, PlainPages
<1>. QED BY <1>1, <1>4, <1>5, CallTable DEF FaultDone

\* ... an Add withdrawn or reported failed ...
LEMMA FaultWithdrawn ==
  ASSUME NEW n, FaultReady(n), NEW p \in Products, NEW o \in Owners,
         NEW outcome \in {"canceled", "failed"}
  PROVE  SureStep(n, MarkAddOutcome(n, p, o, outcome), p, o)
<1>1. Ready(n)
  BY DEF FaultReady
<1>2. CASE CanMarkAddAction(n, p, o, outcome)
  <2>1. MayTouch(n, p, o)
    BY <1>2 DEF CanMarkAddAction, MayTouch
  <2>2. WithdrawnLeft(n, MarkAddAction(n, p, o, outcome), p, o)
    BY <1>1, <2>1, WithdrawnStep
  <2>3. /\ OwnStep(n, MarkAddAction(n, p, o, outcome), p, o)
        /\ MarkAddAction(n, p, o, outcome).sub[p] = n.sub[p]
        /\ MarkAddAction(n, p, o, outcome).locks[ProductKey(p)].owner
             \in {n.locks[ProductKey(p)].owner, Nobody}
    BY <2>2 DEF WithdrawnLeft
  <2>4. SureStep(n, MarkAddAction(n, p, o, outcome), p, o)
    BY <2>3, SureSteps
  <2>. QED BY <1>2, <2>4 DEF MarkAddOutcome
<1>3. CASE ~CanMarkAddAction(n, p, o, outcome)
  BY <1>3, FaultRefused DEF MarkAddOutcome
<1>. QED BY <1>2, <1>3

\* ... by the page ...
LEMMA FaultCancel ==
  ASSUME FaultInv, Members = {}, NEW t \in Owners, call[t] # NoCall,
         NEW op \in {"cancel", "failed"}, call[t].op = op,
         HandledByLane(t, op, PageOf[t], call[t].config)
  PROVE  FaultDone(t, op)
<1>. DEFINE p == PageOf[t]
<1>1. FaultReady(Now) /\ p \in Products /\ Read(call[t].config) = Now
  BY FaultFound
<1>2. st' = MarkAddOutcome(Now, p, t, "canceled") \/ st' = MarkAddOutcome(Now, p, t, "failed")
  BY <1>1 DEF HandledByLane, MarkAdd, Handle
<1>3. SureStep(Now, st', p, t)
  BY <1>1, <1>2, FaultWithdrawn
<1>4. FaultPage(st', t, "product") /\ FaultPage(st', t, "cart")
  BY LoosePageFits DEF LoosePages, PlainPages
<1>. QED BY <1>1, <1>3, <1>4, CallTable DEF FaultDone

\* ... the authorization of the click ...
LEMMA FaultAuthorize ==
  ASSUME FaultInv, Members = {}, NEW t \in Owners, call[t] # NoCall, call[t].op = "authorize",
         HandledByLane(t, "authorize", PageOf[t], call[t].config)
  PROVE  FaultDone(t, "authorize")
<1>. DEFINE p == PageOf[t]
<1>1. FaultReady(Now) /\ Ready(Now) /\ p \in Products /\ Read(call[t].config) = Now
  BY FaultFound
<1>2. st' = Now
  BY <1>1 DEF HandledByLane, AuthorizeAdd, AuthorizeOutcome, Handle
<1>3. SureStep(Now, st', p, t)
  BY <1>1, <1>2, FaultRefused
<1>4. CanAuthorizeAddClick(Now, p, t) => FaultPage(st', t, "authorized")
  <2>. SUFFICES ASSUME CanAuthorizeAddClick(Now, p, t) PROVE FaultPage(st', t, "authorized")
    OBVIOUS
  <2>1. OwnsLane(Now, p, t) /\ Now.add[p].phase = "reserved"
    BY DEF CanAuthorizeAddClick
  <2>2. Now.wf[p].owner = t
    BY <1>1, <2>1, OwnersAdd
  <2>. QED BY <1>2, <2>1, <2>2 DEF FaultPage
<1>5. Granted(Now, t, "authorize", p) <=> CanAuthorizeAddClick(Now, p, t)
  BY DEF Granted
<1>6. FaultPage(st', t, "withdrawn")
  BY LoosePageFits DEF LoosePages, PlainPages
<1>. QED BY <1>1, <1>3, <1>4, <1>5, <1>6, CallTable DEF FaultDone

\* ... and its refusal, when the offer has changed.
LEMMA FaultOffer ==
  ASSUME FaultInv, LaneInv', Members = {}, NEW t \in Owners, OfferRefused(t)
  PROVE  FaultInv'
<1>. DEFINE p == PageOf[t]
<1>0. call[t].op = "authorize" /\ call[t] # NoCall
  BY DEF OfferRefused, NoCall
<1>1. FaultReady(Now) /\ p \in Products /\ Read(call[t].config) = Now
  BY <1>0, FaultFound
<1>2. st' = MarkAddOutcome(Now, p, t, "canceled") /\ config' = config
  BY <1>1 DEF OfferRefused, AuthorizeAdd, AuthorizeOutcome, Handle, desktop
<1>3. SureStep(Now, st', p, t)
  BY <1>1, <1>2, FaultWithdrawn
<1>4. Answered(t, "withdrawn")
  BY <1>0, <1>2, CallTable DEF OfferRefused, Reply, Answered, store
<1>5. "withdrawn" \in Pages /\ FaultPage(st', t, "withdrawn")
  BY LoosePageFits, CallPlaces, CallTable DEF LoosePages, PlainPages, Pages
<1>. QED BY <1>1, <1>3, <1>4, <1>5, FaultAnswered

\* The final review is handed to the operator ...
LEMMA FaultHandoff ==
  ASSUME FaultInv, Members = {}, NEW t \in Owners, call[t] # NoCall, call[t].op = "handoff",
         HandledByLane(t, "handoff", PageOf[t], call[t].config)
  PROVE  FaultDone(t, "handoff")
<1>. DEFINE p == PageOf[t]
<1>1. FaultReady(Now) /\ Ready(Now) /\ p \in Products /\ Read(call[t].config) = Now
      /\ FaultPage(Now, t, page[t]) /\ page[t] \in CallPages["handoff"] /\ CallFits(t)
  BY FaultFound
<1>2. PICK h \in EvidenceHashes : st' = BeginReviewOutcome(Now, p, t, h)
  BY <1>1 DEF HandledByLane, BeginReview, Handle
<1>3. SureStep(Now, st', p, t) /\ st'.add = Now.add
  <2>1. CASE CanBeginManualReview(Now, p, t)
    <3>1. /\ HeldLeft(Now, BeginManualReview(Now, p, t, h), p, t)
          /\ BeginManualReview(Now, p, t, h).add = Now.add /\ ActionOf[p] = "review"
      BY <1>1, <2>1, HandoffStep
    <3>2. OwnStep(Now, BeginManualReview(Now, p, t, h), p, t)
      BY <3>1 DEF HeldLeft
    <3>. QED BY <1>1, <1>2, <2>1, <3>1, <3>2, SureSteps DEF BeginReviewOutcome
  <2>2. CASE ~CanBeginManualReview(Now, p, t)
    BY <1>1, <1>2, <2>2, FaultRefused DEF BeginReviewOutcome
  <2>. QED BY <2>1, <2>2
<1>4. page[t] = "summary" /\ ActionOf[p] = "review"
  BY <1>1, CallPlaces DEF CallFits
<1>5. FaultPage(st', t, "handoff")
  BY <1>1, <1>3, <1>4 DEF FaultPage
<1>6. FaultPage(st', t, "checkout")
  BY LoosePageFits DEF LoosePages, PlainPages
<1>. QED BY <1>1, <1>3, <1>5, <1>6, CallTable DEF FaultDone

\* ... the intent to submit is recorded, nothing having been ordered ...
LEMMA FaultIntent ==
  ASSUME FaultInv, Members = {}, NEW t \in Owners, call[t] # NoCall, call[t].op = "intent",
         HandledByLane(t, "intent", PageOf[t], call[t].config)
  PROVE  FaultDone(t, "intent")
<1>. DEFINE p == PageOf[t]
<1>1. FaultReady(Now) /\ Ready(Now) /\ p \in Products /\ Read(call[t].config) = Now
      /\ FaultPage(Now, t, page[t]) /\ page[t] \in CallPages["intent"] /\ CallFits(t)
  BY FaultFound
<1>2. PICK h \in EvidenceHashes : st' = BeginSubmissionOutcome(Now, p, t, h)
  BY <1>1 DEF HandledByLane, BeginSubmit, Handle
<1>3. Now.add[p].owner # t \/ Now.add[p].phase \notin {"reserved", "clicked"}
  <2>1. page[t] = "summary"
    BY <1>1, CallPlaces
  <2>. QED BY <1>1, <2>1 DEF FaultPage
<1>4. FaultPage(st', t, "checkout")
  BY LoosePageFits DEF LoosePages, PlainPages
<1>5. Granted(Now, t, "intent", p) <=> CanBeginSubmission(Now, p, t)
  BY DEF Granted
<1>6. CASE CanBeginSubmission(Now, p, t)
  <2>1. /\ HeldLeft(Now, BeginSubmission(Now, p, h), p, t)
        /\ IntentLeft(Now, BeginSubmission(Now, p, h), p, t)
    BY <1>1, <1>3, <1>6, IntentStep
  <2>2. st' = BeginSubmission(Now, p, h)
    BY <1>2, <1>6 DEF BeginSubmissionOutcome
  <2>3. Now.sub[p].phase \notin MaybeSubmitted /\ ActionOf[p] = "checkout" /\ p \notin Now.done
    BY <1>6 DEF CanBeginSubmission
  <2>4. SureStep(Now, st', p, t)
    <3>1. OwnStep(Now, st', p, t)
      BY <2>1, <2>2 DEF HeldLeft
    <3>. QED BY <1>1, <2>3, <3>1, SureSteps
  <2>5. orders[p] = 0
    <3>1. ~OrderOpen(Now, p) /\ orders[p] \in Nat
      BY <1>1, <2>3, OpenHeld DEF FaultInv, FlowTypeOK
    <3>. QED BY <2>3, <3>1 DEF OrderOpen
  <2>6. FaultPage(st', t, "intent")
    BY <1>3, <2>1, <2>2, <2>3, <2>5 DEF FaultPage, IntentLeft
  <2>. QED BY <1>1, <1>4, <2>4, <2>6, CallTable DEF FaultDone
<1>7. CASE ~CanBeginSubmission(Now, p, t)
  <2>1. SureStep(Now, st', p, t)
    BY <1>1, <1>2, <1>7, FaultRefused DEF BeginSubmissionOutcome
  <2>. QED BY <1>1, <1>4, <1>5, <1>7, <2>1, CallTable DEF FaultDone
<1>. QED BY <1>6, <1>7

\* ... the click on Place Order is reported, by the page ...
LEMMA FaultSubmitted ==
  ASSUME FaultInv, Members = {}, NEW t \in Owners, call[t] # NoCall, call[t].op = "submitted",
         HandledByLane(t, "submitted", PageOf[t], call[t].config)
  PROVE  FaultDone(t, "submitted")
<1>. DEFINE p == PageOf[t]
            r == MarkSubmission(Now, p, t, "clicked")
<1>1. FaultReady(Now) /\ Ready(Now) /\ p \in Products /\ Read(call[t].config) = Now
      /\ FaultPage(Now, t, page[t]) /\ page[t] \in CallPages["submitted"]
  BY FaultFound
<1>2. st' = MarkSubmissionOutcome(Now, p, t, "clicked")
  BY <1>1 DEF HandledByLane, MarkSubmit, Handle
<1>3. SureStep(Now, st', p, t) /\ st'.add = Now.add
  <2>1. CASE CanMarkSubmission(Now, p, t, "clicked")
    <3>1. OwnsLane(Now, p, t) /\ HeldLeft(Now, r, p, t) /\ r.add = Now.add
          /\ r.sub[p].phase = "uncertain"
      BY <1>1, <2>1, SubmittedStep
    <3>2. OwnStep(Now, r, p, t) /\ r.sub[p].phase \in MaybeSubmitted
      BY <3>1 DEF HeldLeft, MaybeSubmitted
    <3>3. st' = r
      BY <1>2, <2>1 DEF MarkSubmissionOutcome
    <3>. HIDE DEF r
    <3>. QED BY <1>1, <3>1, <3>2, <3>3, SureSteps
  <2>2. CASE ~CanMarkSubmission(Now, p, t, "clicked")
    BY <1>1, <1>2, <2>2, FaultRefused DEF MarkSubmissionOutcome
  <2>. QED BY <2>1, <2>2
<1>4. page[t] = "submitting"
  BY <1>1, CallPlaces
<1>5. FaultPage(st', t, "submitted")
  BY <1>1, <1>3, <1>4 DEF FaultPage
<1>. QED BY <1>1, <1>3, <1>5, CallTable DEF FaultDone

\* ... or by the observer of the operator's click ...
LEMMA FaultObserved ==
  ASSUME FaultInv, Members = {}, NEW t \in Owners, call[t] # NoCall, call[t].op = "observed",
         HandledByLane(t, "observed", PageOf[t], call[t].config)
  PROVE  FaultDone(t, "observed")
<1>. DEFINE p == PageOf[t]
<1>1. FaultReady(Now) /\ Ready(Now) /\ p \in Products /\ Read(call[t].config) = Now
      /\ FaultPage(Now, t, page[t]) /\ page[t] \in CallPages["observed"]
  BY FaultFound
<1>2. PICK h \in EvidenceHashes :
        st' = IF CanMarkManualSubmit(Now, p, t, h) THEN MarkManualSubmit(Now, p) ELSE Now
  BY <1>1 DEF HandledByLane, MarkManual, Handle
<1>3. SureStep(Now, st', p, t) /\ st'.add = Now.add
  <2>1. CASE CanMarkManualSubmit(Now, p, t, h)
    <3>1. OwnStep(Now, MarkManualSubmit(Now, p), p, t) /\ MarkManualSubmit(Now, p).add = Now.add
          /\ ActionOf[p] # "checkout"
      BY <1>1, <2>1, ObservedStep DEF CanMarkManualSubmit
    <3>. QED BY <1>1, <1>2, <2>1, <3>1, SureSteps
  <2>2. CASE ~CanMarkManualSubmit(Now, p, t, h)
    BY <1>1, <1>2, <2>2, FaultRefused
  <2>. QED BY <2>1, <2>2
<1>4. page[t] = "submitted"
  BY <1>1, CallPlaces
<1>5. FaultPage(st', t, "submitted")
  BY <1>1, <1>3, <1>4 DEF FaultPage
<1>. QED BY <1>1, <1>3, <1>5, CallTable DEF FaultDone

\* ... and an order that the store rejected is given up: it was never accepted,
\* for the tab that says so has the lane.
LEMMA FaultRejected ==
  ASSUME FaultInv, Members = {}, NEW t \in Owners, call[t] # NoCall, call[t].op = "rejected",
         HandledByLane(t, "rejected", PageOf[t], call[t].config)
  PROVE  FaultDone(t, "rejected")
<1>. DEFINE p == PageOf[t]
            r == MarkSubmission(Now, p, t, "failed")
<1>1. FaultReady(Now) /\ Ready(Now) /\ p \in Products /\ Read(call[t].config) = Now
      /\ FaultPage(Now, t, page[t]) /\ page[t] \in CallPages["rejected"] /\ CallFits(t)
  BY FaultFound
<1>2. st' = MarkSubmissionOutcome(Now, p, t, "failed")
  BY <1>1 DEF HandledByLane, MarkSubmit, Handle
<1>3. page[t] = "submitted" /\ verdict[t] = "rejected"
  BY <1>1, CallPlaces DEF CallFits
<1>4. Now.add[p].owner # t \/ Now.add[p].phase \notin {"reserved", "clicked"}
  BY <1>1, <1>3 DEF FaultPage
<1>5. SureStep(Now, st', p, t) /\ st'.add = Now.add
  <2>1. CASE CanMarkSubmission(Now, p, t, "failed")
    <3>1. OwnStep(Now, r, p, t) /\ r.add = Now.add
      BY <1>1, <1>4, <2>1, RejectedStep
    <3>2. ~OrderOpen(Now, p)
      <4>. SUFFICES ASSUME OrderOpen(Now, p) PROVE FALSE
        OBVIOUS
      <4>1. ProductKey(p) \in LockKeys(p) /\ Now.locks[ProductKey(p)] # Free
        BY <1>1, KeyFacts, OpenHeld
      <4>2. Now.locks[ProductKey(p)].owner = t
        BY <2>1, <4>1 DEF CanMarkSubmission, OwnedBy
      <4>. QED BY <1>1, <1>3, <4>2 DEF FaultReady, RecordFits
    <3>3. SureStep(Now, r, p, t)
      BY <3>1, <3>2 DEF SureStep
    <3>. QED BY <1>2, <2>1, <3>1, <3>3 DEF MarkSubmissionOutcome
  <2>2. CASE ~CanMarkSubmission(Now, p, t, "failed")
    BY <1>1, <1>2, <2>2, FaultRefused DEF MarkSubmissionOutcome
  <2>. QED BY <2>1, <2>2
<1>6. FaultPage(st', t, "submitted")
  BY <1>1, <1>3, <1>5 DEF FaultPage
<1>7. FaultPage(st', t, "checkout")
  BY LoosePageFits DEF LoosePages, PlainPages
<1>. QED BY <1>1, <1>5, <1>6, <1>7, CallTable DEF FaultDone

\* A mission is completed from the cart, or by the order that its tab saw
\* accepted, so no page of it is about to submit.
LEMMA FaultCompleted ==
  ASSUME FaultInv, Members = {}, NEW t \in Owners, call[t] # NoCall,
         NEW op \in {"complete", "confirm"}, call[t].op = op,
         HandledByLane(t, op, PageOf[t], call[t].config)
  PROVE  FaultDone(t, op)
<1>. DEFINE p == PageOf[t]
<1>1. FaultReady(Now) /\ Guarded(Now) /\ p \in Products /\ Read(call[t].config) = Now
      /\ page[t] \in CallPages[op] /\ CallFits(t) /\ VerdictFits(t)
  BY FaultFound
<1>2. st' = CompleteOutcome(Now, p)
  BY <1>1 DEF HandledByLane, CompleteProduct, Handle
<1>3. ActionOf[p] # "checkout" \/ orders[p] # 0
  <2>1. orders[p] \in Nat
    BY <1>1 DEF FaultInv, FlowTypeOK
  <2>. QED BY <1>1, <2>1 DEF CallFits, VerdictFits
<1>4. FaultReady(st')
  <2>1. CASE CanComplete(Now, p)
    <3>1. \A u \in Owners : PageOf[u] = p => page[u] # "intent"
      BY <1>1, <1>3, IntentPages
    <3>2. FaultReady(Complete(Now, p))
      BY <1>1, <2>1, <3>1, FaultCompletion
    <3>. QED BY <1>2, <2>1, <3>2 DEF CompleteOutcome
  <2>2. CASE ~CanComplete(Now, p)
    BY <1>1, <1>2, <2>2 DEF CompleteOutcome
  <2>. QED BY <2>1, <2>2
<1>5. SureStep(st', st', p, t)
  BY <1>1, <1>4, FaultRefused
<1>6. FaultPage(st', t, "carted") /\ FaultPage(st', t, "finished")
  BY LoosePageFits DEF LoosePages, PlainPages
<1>7. op = "confirm" => FaultPage(st', t, "submitted")
  <2>. SUFFICES ASSUME op = "confirm" PROVE FaultPage(st', t, "submitted")
    OBVIOUS
  <2>1. page[t] = "submitted"
    BY <1>1, CallPlaces
  <2>. QED BY <1>4, <2>1 DEF FaultReady
<1>. QED BY <1>4, <1>5, <1>6, <1>7, CallTable DEF FaultDone

\* No handler writes the configuration.
LEMMA HandledServes ==
  ASSUME NEW t \in Owners, call[t].op \in Ops, Handled(t)
  PROVE  config' = config
<1>. DEFINE op == call[t].op
            c == call[t].config
            p == PageOf[t]
<1>1. HandledByLane(t, op, p, c)
  BY DEF Handled
<1>2. op \in {"prepare", "claim", "reclaim", "release", "yield", "authorize", "cancel",
              "clicked", "confirmed", "failed", "handoff", "intent", "submitted", "rejected",
              "observed", "complete", "confirm"}
  BY DEF Ops, Calls
<1>. HIDE DEF op, c, p
<1>3. CASE op \in {"prepare", "claim", "reclaim", "release", "yield"}
  BY <1>1, <1>3 DEF HandledByLane, PrepareAdd, ClaimProduct, ReleaseLane, Handle, desktop
<1>4. CASE op \in {"authorize", "cancel", "clicked", "confirmed", "failed"}
  BY <1>1, <1>4 DEF HandledByLane, AuthorizeAdd, MarkAdd, Handle, desktop
<1>5. CASE op \in {"handoff", "intent"}
  BY <1>1, <1>5 DEF HandledByLane, BeginReview, BeginSubmit, Handle, desktop
<1>6. CASE op \in {"submitted", "rejected", "observed", "complete", "confirm"}
  BY <1>1, <1>6 DEF HandledByLane, MarkSubmit, MarkManual, CompleteProduct, Handle, desktop
<1>. QED BY <1>2, <1>3, <1>4, <1>5, <1>6

\* Every handled call.
LEMMA FaultHandled ==
  ASSUME FaultInv, LaneInv', Members = {}, NEW t \in Owners, Handled(t)
  PROVE  FaultInv'
<1>. DEFINE op == call[t].op
<1>1. call[t] # NoCall /\ HandledByLane(t, op, PageOf[t], call[t].config)
  BY DEF Handled
<1>2. op \in Ops /\ Read(call[t].config) = Now
  BY <1>1, FaultFound
<1>3. config' = config
  BY <1>1, <1>2, HandledServes
<1>4. op \in {"prepare", "authorize", "release", "cancel", "clicked", "confirmed", "failed", "claim",
              "reclaim", "yield", "handoff", "intent", "submitted", "observed", "rejected",
              "complete", "confirm"}
  BY <1>2 DEF Ops, Calls
<1>5. FaultDone(t, op)
  <2>1. CASE op \in {"prepare", "authorize", "release", "cancel", "clicked", "confirmed", "failed",
                     "claim", "reclaim", "yield"}
    BY <1>1, <2>1, FaultPrepare, FaultAuthorize, FaultRelease, FaultCancel, FaultReceipt, FaultClaim
  <2>2. CASE op \in {"handoff", "intent", "submitted", "observed", "rejected", "complete", "confirm"}
    BY <1>1, <2>2, FaultHandoff, FaultIntent, FaultSubmitted, FaultObserved, FaultRejected, FaultCompleted
  <2>. QED BY <1>4, <2>1, <2>2
<1>. QED BY <1>2, <1>3, <1>5, FaultReplied

\* A step of a tab's page, its call or its cart.
LEMMA FaultPageStep ==
  ASSUME FaultInv, LaneInv', NEW t \in Owners, NEW x \in Pages,
         NEW c \in [op : Ops \cup {"none"}, config : Configs],
         page' = [page EXCEPT ![t] = x], call' = [call EXCEPT ![t] = c],
         verdict' = verdict \/ verdict' = [verdict EXCEPT ![t] = "none"],
         units' \in [Products -> Nat],
         st' = st, config' = config, orders' = orders, abandoned' = abandoned,
         CallFits(t)', FaultPage(Cur, t, x)
  PROVE  FaultInv'
<1>0. FlowTypeOK /\ LaneSafe(st) /\ st.run <= config.run /\ \A q \in Products : RecordFits(Cur, q)
  BY DEF FaultInv
<1>1. page'[t] = x /\ \A u \in Owners \ {t} : Unmoved(u)
  BY <1>0 DEF FlowTypeOK, Unmoved
<1>2. FlowTypeOK'
  BY <1>0 DEF FlowTypeOK
<1>3. Cur' = Cur
  BY DEF Cur
<1>4. ASSUME NEW u \in Owners
      PROVE  CallFits(u)' /\ FaultPage(Cur, u, page'[u]) /\ verdict'[u] \in {verdict[u], "none"}
  <2>0. verdict'[u] \in {verdict[u], "none"}
    BY <1>0 DEF FlowTypeOK
  <2>1. CASE u = t
    BY <1>1, <2>0, <2>1
  <2>2. CASE u # t
    <3>1. Unmoved(u) /\ CallFits(u) /\ FaultPage(Cur, u, page[u])
      BY <1>1, <2>2 DEF FaultInv
    <3>2. CallFits(u)'
      BY <3>1, CallUnmoved
    <3>. QED BY <2>0, <3>1, <3>2 DEF Unmoved
  <2>. QED BY <2>1, <2>2
<1>. QED BY <1>0, <1>2, <1>3, <1>4, FaultKept

\* A tab asks the worker.
LEMMA FaultAsked ==
  ASSUME FaultInv, LaneInv', NEW t \in Owners, NEW op \in Ops, Send(t, op),
         page[t] \in CallPages[op],
         op = "prepare" => ActionOf[PageOf[t]] # "watch",
         op = "complete" => ActionOf[PageOf[t]] = "cart",
         op = "handoff" => ActionOf[PageOf[t]] = "review",
         op = "intent" => ActionOf[PageOf[t]] = "checkout",
         op = "rejected" => verdict[t] = "rejected",
         op = "confirm" => verdict[t] = "accepted"
  PROVE  FaultInv'
<1>. DEFINE c == [op |-> op, config |-> config]
<1>0. FlowTypeOK /\ config \in Configs /\ FaultPage(Cur, t, page[t])
  BY DEF FaultInv, LaneInv
<1>1. /\ st' = st /\ config' = config /\ units' = units /\ orders' = orders /\ abandoned' = abandoned
      /\ page' = page /\ verdict' = verdict /\ call' = [call EXCEPT ![t] = c]
  BY DEF Send, vars, store
<1>2. c \in [op : Ops \cup {"none"}, config : Configs]
  BY <1>0
<1>3. call'[t].op = op /\ call'[t].config = config
  BY <1>0, <1>1 DEF FlowTypeOK
<1>4. CallFits(t)'
  BY <1>1, <1>3 DEF CallFits
<1>5. page[t] \in Pages /\ page' = [page EXCEPT ![t] = page[t]] /\ units' \in [Products -> Nat]
  BY <1>0, <1>1 DEF FlowTypeOK
<1>. HIDE DEF c
<1>. QED BY <1>0, <1>1, <1>2, <1>4, <1>5, FaultPageStep

\* The calls of the product page and of the cart ...
LEMMA FaultShopAsks ==
  ASSUME FaultInv, LaneInv', NEW t \in Owners,
         \/ AskPrepare(t) \/ Withdraw(t) \/ AskAuthorize(t) \/ AskCancel(t) \/ AskClicked(t)
         \/ AskRejectedAdd(t) \/ AskStoreError(t) \/ AskFailed(t)
         \/ AskConfirmed(t) \/ AskComplete(t) \/ AskClaim(t)
  PROVE  FaultInv'
<1>1. CASE AskPrepare(t)
  BY <1>1, FaultAsked, CallPlaces DEF AskPrepare, Idle, Ask
<1>2. CASE Withdraw(t)
  BY <1>2, FaultAsked, CallPlaces DEF Withdraw, Idle, Ask
<1>3. CASE AskAuthorize(t)
  BY <1>3, FaultAsked, CallPlaces DEF AskAuthorize, Idle, Ask
<1>4. CASE AskCancel(t)
  BY <1>4, FaultAsked, CallPlaces DEF AskCancel, Idle, Ask
<1>5. CASE AskClicked(t)
  BY <1>5, FaultAsked, CallPlaces DEF AskClicked, Idle, Ask
<1>6. CASE AskRejectedAdd(t)
  BY <1>6, FaultAsked, CallPlaces DEF AskRejectedAdd, Idle, ReportFailed
<1>7. CASE AskFailed(t)
  BY <1>7, FaultAsked, CallPlaces DEF AskFailed, Idle, ReportFailed
<1>8. CASE AskConfirmed(t)
  BY <1>8, FaultAsked, CallPlaces DEF AskConfirmed, Idle, Ask
<1>9. CASE AskComplete(t)
  BY <1>9, FaultAsked, CallPlaces DEF AskComplete, Idle, Ask
<1>10. CASE AskClaim(t)
  BY <1>10, FaultAsked, CallPlaces DEF AskClaim, Idle, Ask
<1>11. CASE AskStoreError(t)
  BY <1>11, FaultAsked, CallPlaces DEF AskStoreError, Idle, ReportFailed
<1>. QED BY <1>1, <1>2, <1>3, <1>4, <1>5, <1>6, <1>7, <1>8, <1>9, <1>10, <1>11

\* ... and of the checkout.
LEMMA FaultCheckoutAsks ==
  ASSUME FaultInv, LaneInv', NEW t \in Owners,
         \/ AskReclaim(t) \/ AskYield(t) \/ AskHandoff(t) \/ AskIntent(t) \/ AskSubmitted(t)
         \/ AskRejected(t) \/ AskConfirm(t)
  PROVE  FaultInv'
<1>1. CASE AskReclaim(t)
  BY <1>1, FaultAsked, CallPlaces DEF AskReclaim, Idle, Ask
<1>2. CASE AskYield(t)
  BY <1>2, FaultAsked, CallPlaces DEF AskYield, Idle, Ask
<1>3. CASE AskHandoff(t)
  BY <1>3, FaultAsked, CallPlaces DEF AskHandoff, Idle, Ask
<1>4. CASE AskIntent(t)
  BY <1>4, FaultAsked, CallPlaces DEF AskIntent, Idle, Ask
<1>5. CASE AskSubmitted(t)
  BY <1>5, FaultAsked, CallPlaces DEF AskSubmitted, Idle, Ask
<1>6. CASE AskRejected(t)
  BY <1>6, FaultAsked, CallPlaces DEF AskRejected, Idle, Ask
<1>7. CASE AskConfirm(t)
  BY <1>7, FaultAsked, CallPlaces DEF AskConfirm, Idle, Ask
<1>. QED BY <1>1, <1>2, <1>3, <1>4, <1>5, <1>6, <1>7

\* A tab goes to a page that asks nothing of the record.
LEMMA FaultGoes ==
  ASSUME FaultInv, LaneInv', NEW t \in Owners,
         ReturnToCart(t) \/ ControlGone(t) \/ OpenCart(t) \/ LineVerified(t) \/ SubmitGone(t)
  PROVE  FaultInv'
<1>0. FlowTypeOK
  BY DEF FaultInv
<1>1. PICK x \in {"cart", "withdrawn", "carted", "checkout"} :
        Goto(t, x) /\ UNCHANGED store /\ call[t] = NoCall
  BY DEF ReturnToCart, ControlGone, OpenCart, LineVerified, SubmitGone, Idle
<1>2. {"confirmed", "authorize", "claim"} \subseteq Ops
  BY CallPlaces
<1>3. x \in Pages
  BY <1>1, <1>2, CallTable DEF Pages
<1>4. FaultPage(Cur, t, x)
  BY <1>1, LoosePageFits DEF LoosePages, PlainPages
<1>5. /\ page' = [page EXCEPT ![t] = x] /\ call' = [call EXCEPT ![t] = NoCall] /\ verdict' = verdict
      /\ units' \in [Products -> Nat] /\ st' = st /\ config' = config /\ orders' = orders
      /\ abandoned' = abandoned
  BY <1>0, <1>1 DEF Goto, vars, store, FlowTypeOK
<1>6. NoCall \in [op : Ops \cup {"none"}, config : Configs]
  BY DEF NoCall, Configs
<1>7. CallFits(t)'
  BY <1>0, <1>5 DEF CallFits, FlowTypeOK
<1>. QED BY <1>3, <1>4, <1>5, <1>6, <1>7, FaultPageStep

\* A call is lost or refused unheard.
LEMMA FaultFailed ==
  ASSUME FaultInv, LaneInv', NEW t \in Owners, Failed(t)
  PROVE  FaultInv'
<1>. DEFINE x == Calls[call[t].op].refused
<1>0. FlowTypeOK /\ call[t].op \in Ops /\ page[t] \in CallPages[call[t].op] /\ FaultPage(Cur, t, page[t])
  BY DEF FaultInv, CallFits, Failed
<1>1. x \in Pages
  BY <1>0, AnswerPages
<1>2. x \in LoosePages
      \/ (x = "submitted" /\ call[t].op \in {"submitted", "observed", "rejected", "confirm"})
  BY <1>0 DEF Ops, Calls, LoosePages, PlainPages
<1>3. /\ page' = [page EXCEPT ![t] = x] /\ call' = [call EXCEPT ![t] = NoCall] /\ verdict' = verdict
      /\ units' \in [Products -> Nat] /\ st' = st /\ config' = config /\ orders' = orders
      /\ abandoned' = abandoned
  BY <1>0 DEF Failed, Reply, vars, store, FlowTypeOK
<1>. HIDE DEF x
<1>4. FaultPage(Cur, t, x)
  <2>1. CASE x \in LoosePages
    BY <2>1, LoosePageFits
  <2>2. CASE x = "submitted" /\ call[t].op \in {"submitted", "observed", "rejected", "confirm"}
    <3>1. page[t] \in {"submitting", "submitted"}
      BY <1>0, <2>2, CallPlaces
    <3>. QED BY <1>0, <2>2, <3>1 DEF FaultPage
  <2>. QED BY <1>2, <2>1, <2>2
<1>5. NoCall \in [op : Ops \cup {"none"}, config : Configs]
  BY DEF NoCall, Configs
<1>6. CallFits(t)'
  BY <1>0, <1>3 DEF CallFits, FlowTypeOK
<1>. QED BY <1>1, <1>3, <1>4, <1>5, <1>6, FaultPageStep

\* A tab is reloaded or replaced, whatever it had clicked.
LEMMA FaultReload ==
  ASSUME FaultInv, LaneInv', NEW t \in Owners, Reload(t)
  PROVE  FaultInv'
<1>0. FlowTypeOK
  BY DEF FaultInv
<1>1. PICK x \in {"product", "cart", "checkout"} : page' = [page EXCEPT ![t] = x]
  BY DEF Reload
<1>2. /\ call' = [call EXCEPT ![t] = NoCall] /\ verdict' = [verdict EXCEPT ![t] = "none"]
      /\ units' \in [Products -> Nat] /\ st' = st /\ config' = config /\ orders' = orders
      /\ abandoned' = abandoned
  BY <1>0 DEF Reload, vars, store, FlowTypeOK
<1>3. {"cancel", "confirmed", "claim"} \subseteq Ops
  BY CallPlaces
<1>4. x \in Pages
  BY <1>1, <1>3, CallTable DEF Pages
<1>5. FaultPage(Cur, t, x)
  BY <1>1, LoosePageFits DEF LoosePages, PlainPages
<1>6. NoCall \in [op : Ops \cup {"none"}, config : Configs]
  BY DEF NoCall, Configs
<1>7. CallFits(t)'
  BY <1>0, <1>2 DEF CallFits, FlowTypeOK
<1>. QED BY <1>1, <1>2, <1>4, <1>5, <1>6, <1>7, FaultPageStep

\* The click on Add, authorized before.
LEMMA FaultClickAdd ==
  ASSUME FaultInv, LaneInv', NEW t \in Owners, ClickAdd(t)
  PROVE  FaultInv'
<1>. DEFINE p == PageOf[t]
<1>0. FlowTypeOK /\ FaultPage(Cur, t, page[t]) /\ p \in Products
  BY FlowAssumption DEF FaultInv
<1>1. /\ page' = [page EXCEPT ![t] = "clicking"] /\ call' = [call EXCEPT ![t] = NoCall]
      /\ verdict' = verdict /\ st' = st /\ config' = config /\ orders' = orders
      /\ abandoned' = abandoned /\ page[t] = "authorized"
  BY <1>0 DEF ClickAdd, Goto, Idle, vars, FlowTypeOK
<1>2. PICK added \in {0, 1} : units' = [units EXCEPT ![p] = @ + added]
  BY DEF ClickAdd
<1>3. units' \in [Products -> Nat]
  BY <1>0, <1>2 DEF FlowTypeOK
<1>4. FaultPage(Cur, t, "clicking")
  BY <1>0, <1>1 DEF FaultPage
<1>5. "clicking" \in Pages /\ NoCall \in [op : Ops \cup {"none"}, config : Configs]
  BY DEF NoCall, Configs, Pages
<1>6. CallFits(t)'
  BY <1>0, <1>1 DEF CallFits, FlowTypeOK
<1>. QED BY <1>1, <1>3, <1>4, <1>5, <1>6, FaultPageStep

\* A step that leaves the record, the pages and the orders.
LEMMA FaultElsewhere ==
  ASSUME FaultInv, LaneInv', st' = st, config'.run = config.run, page' = page, call' = call,
         verdict' = verdict, orders' = orders, abandoned' = abandoned, units' \in [Products -> Nat]
  PROVE  FaultInv'
<1>0. FlowTypeOK /\ LaneSafe(st) /\ st.run <= config.run /\ \A q \in Products : RecordFits(Cur, q)
  BY DEF FaultInv
<1>1. Cur' = Cur
  BY DEF Cur
<1>2. FlowTypeOK'
  BY <1>0 DEF FlowTypeOK
<1>3. ASSUME NEW u \in Owners
      PROVE  CallFits(u)' /\ FaultPage(Cur, u, page'[u]) /\ verdict'[u] \in {verdict[u], "none"}
  <2>1. CallFits(u) /\ FaultPage(Cur, u, page[u])
    BY DEF FaultInv
  <2>2. CallFits(u)'
    BY <2>1 DEF CallFits
  <2>. QED BY <2>1, <2>2
<1>. QED BY <1>0, <1>1, <1>2, <1>3, FaultKept

\* The store drops a line, automation is stopped, or nothing happens.
LEMMA FaultQuiet ==
  ASSUME FaultInv, LaneInv',
         (\E p \in Products : CartDrops(p)) \/ StopAll \/ UNCHANGED flowVars
  PROVE  FaultInv'
<1>0. FlowTypeOK /\ config \in Configs
  BY DEF FaultInv, LaneInv
<1>1. /\ st' = st /\ config'.run = config.run /\ page' = page /\ call' = call /\ verdict' = verdict
      /\ orders' = orders /\ abandoned' = abandoned /\ units' \in [Products -> Nat]
  <2>1. ASSUME NEW p \in Products, CartDrops(p)
        PROVE  units' \in [Products -> Nat]
    BY <1>0, <2>1 DEF CartDrops, FlowTypeOK
  <2>2. CASE \E p \in Products : CartDrops(p)
    BY <2>1, <2>2 DEF CartDrops, vars, tabs
  <2>3. CASE StopAll
    BY <1>0, <2>3 DEF StopAll, Stop, Serve, tabs, store, Configs, FlowTypeOK
  <2>4. CASE UNCHANGED flowVars
    BY <1>0, <2>4 DEF flowVars, vars, tabs, store, FlowTypeOK
  <2>. QED BY <2>2, <2>3, <2>4
<1>. QED BY <1>1, FaultElsewhere

\* What the store makes of Place Order, whatever is in the cart.
LEMMA PlacedFacts ==
  ASSUME FlowTypeOK, NEW t \in Owners, NEW p \in Products, PageOf[t] = p,
         NEW to \in Pages, PlaceOrder(t, to)
  PROVE  /\ st' = st /\ config' = config /\ abandoned' = abandoned /\ page' = [page EXCEPT ![t] = to]
         /\ units' \in [Products -> Nat] /\ orders' \in [Products -> Nat]
         /\ verdict' \in [Owners -> {"none", "accepted", "rejected"}]
         /\ \A u \in Owners \ {t} : verdict'[u] = verdict[u]
         /\ \A q \in Products \ {p} : orders'[q] = orders[q]
         /\ \/ orders'[p] = orders[p] /\ verdict'[t] # "accepted"
            \/ orders'[p] = orders[p] + 1 /\ verdict'[t] # "rejected"
<1>1. PICK accepted \in {0, 1}, shown \in BOOLEAN :
        /\ accepted <= units[p] /\ orders[p] + accepted <= MaxUnits
        /\ orders' = [orders EXCEPT ![p] = @ + accepted]
        /\ units' = [units EXCEPT ![p] = @ - accepted]
        /\ verdict' = [verdict EXCEPT ![t] =
                         CASE ~shown -> "none"
                           [] shown /\ accepted = 1 -> "accepted"
                           [] shown /\ accepted = 0 -> "rejected"]
        /\ page' = [page EXCEPT ![t] = to]
        /\ UNCHANGED <<vars, abandoned>>
  BY DEF PlaceOrder
<1>2. units[p] \in Nat /\ orders[p] \in Nat
  BY DEF FlowTypeOK
<1>3. \/ accepted = 0 /\ verdict'[t] \in {"none", "rejected"}
      \/ accepted = 1 /\ verdict'[t] \in {"none", "accepted"}
  BY <1>1 DEF FlowTypeOK
<1>4. orders'[p] = orders[p] + accepted
  BY <1>1 DEF FlowTypeOK
<1>5. \/ orders'[p] = orders[p] /\ verdict'[t] # "accepted"
      \/ orders'[p] = orders[p] + 1 /\ verdict'[t] # "rejected"
  BY <1>2, <1>3, <1>4
<1>6. units' \in [Products -> Nat] /\ orders' \in [Products -> Nat]
  <2>1. units[p] - accepted \in Nat /\ orders[p] + accepted \in Nat
    BY <1>1, <1>2
  <2>. QED BY <1>1, <2>1 DEF FlowTypeOK
<1>7. verdict' \in [Owners -> {"none", "accepted", "rejected"}]
  <2>. DEFINE v == CASE ~shown -> "none"
                     [] shown /\ accepted = 1 -> "accepted"
                     [] shown /\ accepted = 0 -> "rejected"
  <2>1. verdict' = [verdict EXCEPT ![t] = v]
    BY <1>1
  <2>. HIDE DEF v
  <2>2. v \in {"none", "accepted", "rejected"}
    BY <1>3, <2>1 DEF FlowTypeOK
  <2>. QED BY <2>1, <2>2 DEF FlowTypeOK
<1>8. /\ \A u \in Owners \ {t} : verdict'[u] = verdict[u]
      /\ \A q \in Products \ {p} : orders'[q] = orders[q]
  BY <1>1 DEF FlowTypeOK
<1>9. st' = st /\ config' = config /\ abandoned' = abandoned
  BY <1>1 DEF vars
<1>. QED BY <1>1, <1>5, <1>6, <1>7, <1>8, <1>9

\* Place Order, clicked by the page or by the user.
LEMMA FaultOrdered ==
  ASSUME FaultInv, LaneInv', NEW t \in Owners, ClickSubmit(t) \/ UserSubmits(t)
  PROVE  FaultInv'
<1>. DEFINE p == PageOf[t]
            to == IF ClickSubmit(t) THEN "submitting" ELSE "submitted"
<1>0. FlowTypeOK /\ config \in Configs /\ p \in Products /\ FaultPage(Cur, t, page[t])
      /\ RecordFits(Cur, p) /\ VerdictFits(t) /\ orders[p] \in Nat
      /\ LaneSafe(st) /\ st.run <= config.run
  BY FlowAssumption DEF FaultInv, LaneInv, FlowTypeOK
<1>1. \/ /\ page[t] = "intent" /\ call[t] = NoCall /\ PlaceOrder(t, to) /\ call' = call
         /\ to = "submitting"
      \/ /\ page[t] = "handoff" /\ call[t] = NoCall /\ PlaceOrder(t, to)
         /\ call' = [call EXCEPT ![t] = [op |-> "observed", config |-> config]] /\ to = "submitted"
  BY DEF ClickSubmit, UserSubmits, Idle
<1>. HIDE DEF to
<1>2. to \in Pages /\ "observed" \in Ops
  <2>1. {"submitting", "submitted"} \subseteq Pages
    BY CallPlaces, CallTable DEF Pages
  <2>. QED BY <1>1, <2>1, CallPlaces
<1>3. /\ st' = st /\ config' = config /\ abandoned' = abandoned /\ page' = [page EXCEPT ![t] = to]
      /\ units' \in [Products -> Nat] /\ orders' \in [Products -> Nat]
      /\ verdict' \in [Owners -> {"none", "accepted", "rejected"}]
      /\ \A u \in Owners \ {t} : verdict'[u] = verdict[u]
      /\ \A q \in Products \ {p} : orders'[q] = orders[q]
      /\ \/ orders'[p] = orders[p] /\ verdict'[t] # "accepted"
         \/ orders'[p] = orders[p] + 1 /\ verdict'[t] # "rejected"
  BY <1>0, <1>1, <1>2, PlacedFacts
<1>4. Cur' = Cur
  BY <1>3 DEF Cur
<1>5. FlowTypeOK'
  <2>1. call' \in [Owners -> [op : Ops \cup {"none"}, config : Configs]]
    BY <1>0, <1>1, <1>2 DEF FlowTypeOK
  <2>. QED BY <1>0, <1>2, <1>3, <2>1 DEF FlowTypeOK
<1>6. page'[t] = to /\ \A u \in Owners \ {t} : Unmoved(u)
  BY <1>0, <1>1, <1>3 DEF FlowTypeOK, Unmoved
<1>7. \/ page[t] = "handoff" /\ ActionOf[p] = "review"
      \/ /\ ActionOf[p] = "checkout" /\ orders[p] = 0 /\ Cur.sub[p].phase = "intent"
         /\ Cur.locks[ProductKey(p)] = Lock(p, t, TRUE)
  <2>1. ProductKey(p) \in LockKeys(p)
    BY <1>0, KeyFacts
  <2>. QED BY <1>0, <1>1, <2>1 DEF FaultPage
<1>8. ASSUME NEW u \in Owners
      PROVE  CallFits(u)' /\ FaultPage(Cur, u, page[u])' /\ VerdictFits(u)'
  <2>1. CASE u = t
    <3>1. CallFits(t)'
      <4>1. CASE call[t] = NoCall /\ call' = call
        BY <4>1 DEF CallFits
      <4>2. CASE call' = [call EXCEPT ![t] = [op |-> "observed", config |-> config]] /\ to = "submitted"
        <5>1. call'[t].op = "observed" /\ call'[t].config = config
          BY <1>0, <4>2 DEF FlowTypeOK
        <5>. QED BY <1>2, <1>3, <1>6, <4>2, <5>1, CallPlaces DEF CallFits
      <4>. QED BY <1>1, <4>1, <4>2
    <3>2. FaultPage(Cur, t, page[t])'
      BY <1>0, <1>1, <1>4, <1>6 DEF FaultPage
    <3>3. VerdictFits(t)'
      BY <1>0, <1>3 DEF VerdictFits
    <3>. QED BY <2>1, <3>1, <3>2, <3>3
  <2>2. CASE u # t
    <3>0. Unmoved(u) /\ CallFits(u) /\ FaultPage(Cur, u, page[u]) /\ VerdictFits(u) /\ PageOf[u] \in Products
      BY <1>6, <2>2, FlowAssumption DEF FaultInv
    <3>1. CallFits(u)'
      BY <1>3, <3>0, CallUnmoved
    <3>2. page[u] = "intent" => PageOf[u] # p
      <4>. SUFFICES ASSUME page[u] = "intent", PageOf[u] = p PROVE FALSE
        OBVIOUS
      <4>1. ActionOf[p] = "checkout" /\ \A k \in LockKeys(p) : Cur.locks[k] = Lock(p, u, TRUE)
        BY <3>0 DEF FaultPage
      <4>2. Cur.locks[ProductKey(p)] = Lock(p, u, TRUE) /\ Cur.locks[ProductKey(p)] = Lock(p, t, TRUE)
        BY <1>0, <1>7, <4>1, KeyFacts
      <4>. QED BY <2>2, <4>2 DEF Lock, Free
    <3>3. page[u] = "intent" => orders'[PageOf[u]] = orders[PageOf[u]]
      BY <1>3, <3>0, <3>2
    <3>4. FaultPage(Cur, u, page[u])'
      BY <1>4, <3>0, <3>3 DEF FaultPage, Unmoved
    <3>5. VerdictFits(u)'
      <4>1. orders[PageOf[u]] \in Nat /\ verdict'[u] = verdict[u]
        BY <1>0, <1>3, <2>2, <3>0 DEF FlowTypeOK
      <4>2. orders'[PageOf[u]] = orders[PageOf[u]] \/ orders'[PageOf[u]] = orders[PageOf[u]] + 1
        BY <1>3, <3>0
      <4>. QED BY <3>0, <4>1, <4>2 DEF VerdictFits
    <3>. QED BY <3>1, <3>4, <3>5
  <2>. QED BY <2>1, <2>2
<1>9. ASSUME NEW q \in Products PROVE RecordFits(Cur, q)'
  <2>0. RecordFits(Cur, q)
    BY DEF FaultInv
  <2>1. CASE q # p
    <3>1. \A u \in Owners : PageOf[u] = q => verdict'[u] = verdict[u]
      BY <1>3, <2>1
    <3>. QED BY <1>3, <1>4, <2>0, <2>1, <3>1 DEF RecordFits, OrderOpen
  <2>2. CASE q = p /\ ActionOf[p] = "review"
    BY <2>2 DEF RecordFits, OrderOpen
  <2>3. CASE q = p /\ ActionOf[p] = "checkout" /\ orders[p] = 0 /\ Cur.sub[p].phase = "intent"
             /\ Cur.locks[ProductKey(p)] = Lock(p, t, TRUE)
    <3>1. Cur.locks[ProductKey(p)].owner = t
      BY <2>3 DEF Lock, Free
    <3>2. orders'[p] <= 1 /\ (orders'[p] > 0 => verdict'[t] # "rejected")
      BY <1>3, <2>3
    <3>. QED BY <1>4, <2>3, <3>1, <3>2 DEF RecordFits, OrderOpen, MaybeSubmitted
  <2>. QED BY <1>7, <2>1, <2>2, <2>3
<1>10. LaneSafe(st') /\ st'.run <= config'.run
  BY <1>0, <1>3
<1>. QED BY <1>5, <1>8, <1>9, <1>10 DEF FaultInv

\* The end of a lease, even one that had a click authorized, leaves the pages ...
LEMMA LapsePages ==
  ASSUME NEW s \in AutomationStates, LaneSafe(s), NEW p \in Products, NEW r, LapseWrites(s, r, p),
         NEW u \in Owners, NEW x, FaultPage(s, u, x)
  PROVE  FaultPage(r, u, x)
<1>. DEFINE q == PageOf[u]
<1>0. q \in Products /\ LockKeys(q) \subseteq Keys
  BY FlowAssumption, KeyFacts
<1>1. r.sub = s.sub /\ r.done = s.done
  BY DEF LapseWrites
<1>2. r.add[q] = s.add[q] \/ r.add[q] = IdleAdd
  BY <1>0, LapseKeeps
<1>3. IdleAdd.owner # u /\ IdleAdd.phase = "idle"
  BY NobodysNames DEF IdleAdd
<1>4. ASSUME x \in {"authorized", "clicking"}, r.add[q] = [phase |-> "reserved", owner |-> u]
      PROVE  OwnsLane(r, q, u) /\ r.wf[q].owner = u
  <2>1. s.add[q] = [phase |-> "reserved", owner |-> u]
    BY <1>2, <1>3, <1>4
  <2>2. OwnsLane(s, q, u) /\ s.wf[q].owner = u
    BY <1>4, <2>1 DEF FaultPage
  <2>3. q # p
    BY <1>3, <1>4, <2>1 DEF LapseWrites
  <2>4. r.wf[q] = s.wf[q] /\ \A k \in Keys : s.locks[k].pid # p => r.locks[k] = s.locks[k]
    BY <1>0, <2>3 DEF LapseWrites
  <2>. QED BY <1>0, <2>2, <2>3, <2>4 DEF OwnsLane, OwnedBy
<1>5. ASSUME x = "intent", NEW k \in LockKeys(q)
      PROVE  r.locks[k] = Lock(q, u, TRUE)
  <2>1. s.locks[k] = Lock(q, u, TRUE)
    BY <1>5 DEF FaultPage
  <2>2. s.locks[k].hold /\ k \in Keys
    BY <1>0, <2>1 DEF Lock, Free
  <2>3. r.locks[k] = s.locks[k]
    BY <2>2 DEF LapseWrites
  <2>. QED BY <2>1, <2>3
<1>. QED BY <1>1, <1>2, <1>3, <1>4, <1>5 DEF FaultPage

\* ... and the orders on record.
LEMMA LapseRecord ==
  ASSUME NEW s \in AutomationStates, LaneSafe(s), NEW p \in Products, NEW r, LapseWrites(s, r, p),
         NEW q \in Products, RecordFits(s, q)
  PROVE  RecordFits(r, q)
<1>1. r.sub = s.sub /\ r.done = s.done
  BY DEF LapseWrites
<1>2. r.locks[ProductKey(q)].owner = s.locks[ProductKey(q)].owner \/ r.locks[ProductKey(q)].owner = Nobody
  <2>1. ProductKey(q) \in Keys
    BY KeyFacts
  <2>. QED BY <2>1, NobodysNames DEF LapseWrites
<1>3. \A u \in Owners : r.locks[ProductKey(q)].owner = u => s.locks[ProductKey(q)].owner = u
  BY <1>2, NobodysNames
<1>4. OrderOpen(r, q) <=> OrderOpen(s, q)
  BY <1>1 DEF OrderOpen
<1>. QED BY <1>1, <1>3, <1>4 DEF RecordFits

\* A pre-click lease lapses.
LEMMA FaultLapsed ==
  ASSUME FaultInv, LaneInv', NEW p \in Products, LeaseLapses(p)
  PROVE  FaultInv'
<1>0. FlowTypeOK /\ (\A u \in Owners : CallFits(u) /\ FaultPage(Cur, u, page[u]))
      /\ (\A q \in Products : RecordFits(Cur, q))
      /\ st \in AutomationStates /\ LaneSafe(st) /\ st.run <= config.run
  BY DEF FaultInv, LaneInv, StateInv
<1>1. /\ st' = Lapse(st, p) /\ config' = config /\ units' = units /\ orders' = orders
      /\ abandoned' = abandoned /\ page' = page /\ call' = call /\ verdict' = verdict
  BY DEF LeaseLapses, LeaseRunsOut, desktop, tabs, store
<1>2. LapseWrites(st, st', p)
  BY <1>0, <1>1, LapseIs DEF LaneSafe
<1>3. LaneSafe(st') /\ st'.run = st.run
  <2>1. LaneSafe(st')
    BY <1>0, <1>2, LapseSafe
  <2>. QED BY <1>2, <2>1 DEF LapseWrites
<1>4. \E r : Cur' = r /\ (\A u \in Owners : FaultPage(r, u, page[u])) /\ \A q \in Products : RecordFits(r, q)
  <2>1. CASE st.run = config.run
    <3>1. Cur' = st' /\ Cur = st
      BY <1>1, <1>3, <2>1 DEF Cur
    <3>2. ASSUME NEW u \in Owners PROVE FaultPage(st', u, page[u])
      <4>1. FaultPage(st, u, page[u])
        BY <1>0, <3>1
      <4>. QED BY <1>0, <1>2, <4>1, LapsePages
    <3>3. ASSUME NEW q \in Products PROVE RecordFits(st', q)
      <4>1. RecordFits(st, q)
        BY <1>0, <3>1
      <4>. QED BY <1>0, <1>2, <4>1, LapseRecord
    <3>. QED BY <3>1, <3>2, <3>3
  <2>2. CASE st.run # config.run
    <3>1. Cur' = Cur
      BY <1>1, <1>3, <2>2 DEF Cur
    <3>. QED BY <1>0, <3>1
  <2>. QED BY <2>1, <2>2
<1>5. PICK r : Cur' = r /\ (\A u \in Owners : FaultPage(r, u, page[u])) /\ \A q \in Products : RecordFits(r, q)
  BY <1>4
<1>6. \A u \in Owners : CallFits(u)' /\ FaultPage(r, u, page'[u]) /\ verdict'[u] \in {verdict[u], "none"}
  <2>1. \A u \in Owners : CallFits(u)'
    BY <1>0, <1>1 DEF CallFits
  <2>. QED BY <1>1, <1>5, <2>1
<1>7. FlowTypeOK' /\ st'.run <= config'.run
  BY <1>0, <1>1, <1>3 DEF FlowTypeOK
<1>. QED BY <1>1, <1>3, <1>5, <1>6, <1>7, FaultKept

\* Arming a new run, of which nothing is ordered.
LEMMA FaultArmed ==
  ASSUME FaultInv, LaneInv', ArmRun
  PROVE  FaultInv'
<1>0. FlowTypeOK /\ (\A u \in Owners : CallFits(u) /\ FaultPage(Cur, u, page[u]))
      /\ LaneSafe(st) /\ st.run <= config.run /\ config \in Configs /\ st.run \in Nat
  BY FieldTypes DEF FaultInv, LaneInv, StateInv
<1>1. /\ st' = st /\ config' = [run |-> config.run + 1, active |-> TRUE]
      /\ units' = [q \in Products |-> 0] /\ orders' = [q \in Products |-> 0]
      /\ abandoned' = {} /\ page' = page /\ call' = call /\ verdict' = [u \in Owners |-> "none"]
      /\ \A u \in Owners : call[u] = NoCall
           /\ page[u] \notin {"reserved", "authorized", "clicking", "intent", "submitting"}
  BY DEF ArmRun, Arm, Serve
<1>2. config.run \in Nat /\ config'.run = config.run + 1
  BY <1>0, <1>1 DEF Configs
<1>3. Cur' = CreateState(config'.run) /\ config'.run \in Nat /\ st'.run <= config'.run
  BY <1>0, <1>1, <1>2 DEF Cur
<1>4. \A q \in Products : Cur'.add[q] = IdleAdd
  BY <1>3, CreatedFits
<1>5. \A u \in Owners : CallFits(u)'
  BY <1>1 DEF CallFits
<1>6. ASSUME NEW u \in Owners PROVE FaultPage(Cur, u, page[u])' /\ VerdictFits(u)'
  <2>1. PageOf[u] \in Products /\ FaultPage(Cur, u, page[u])
    BY <1>0, FlowAssumption
  <2>2. Cur'.add[PageOf[u]].owner # u
    BY <1>4, <2>1, NobodysNames DEF IdleAdd
  <2>3. FaultPage(Cur, u, page[u])'
    BY <1>1, <2>1, <2>2 DEF FaultPage
  <2>4. VerdictFits(u)'
    BY <1>1 DEF VerdictFits
  <2>. QED BY <2>3, <2>4
<1>7. \A q \in Products : RecordFits(Cur, q)'
  <2>1. \A q \in Products : orders'[q] = 0
    BY <1>1
  <2>. QED BY <2>1 DEF RecordFits, OrderOpen
<1>8. FlowTypeOK'
  <2>1. page' \in [Owners -> Pages] /\ call' \in [Owners -> [op : Ops \cup {"none"}, config : Configs]]
    BY <1>0, <1>1 DEF FlowTypeOK
  <2>. QED BY <1>1, <2>1 DEF FlowTypeOK
<1>9. LaneSafe(st')
  BY <1>0, <1>1
<1>. QED BY <1>3, <1>5, <1>6, <1>7, <1>8, <1>9 DEF FaultInv

\* The operator gives up a mission without an order.
LEMMA FaultResolved ==
  ASSUME FaultInv, LaneInv', Members = {}, NEW t \in Owners, OperatorResolves(t)
  PROVE  FaultInv'
<1>. DEFINE p == PageOf[t]
<1>0. FlowTypeOK /\ (\A u \in Owners : CallFits(u)) /\ config.run \in Nat
  BY FaultReads DEF FaultInv
<1>1. FaultReady(Now) /\ Ready(Now) /\ LaneSafe(Now) /\ LaneReady(Now) /\ StateInv(Now)
      /\ Now.run = config.run /\ p \in Products
  BY FaultReads, FlowAssumption DEF FaultReady, Ready
<1>2. /\ orders[p] = 0 /\ call[t] = NoCall /\ page[t] \notin {"intent", "submitting"}
      /\ CanResolve(Now, p, t) /\ st' = Resolve(Now, p, t) /\ config' = config
      /\ abandoned' = abandoned \cup {p} /\ units' = [units EXCEPT ![p] = 0]
      /\ page' = page /\ call' = call /\ verdict' = verdict /\ orders' = orders
  BY DEF OperatorResolves, ResolveKnownNoOrder, Read, Now, Handle, desktop, tabs
<1>3. OwnStep(Now, st', p, t) /\ st'.add[p] = IdleAdd /\ st'.run = Now.run
  BY <1>1, <1>2, ResolveStep
<1>4. SureStep(Now, st', p, t)
  BY <1>2, <1>3 DEF SureStep, OrderOpen
<1>5. Cur' = st' /\ LaneSafe(st') /\ st'.run <= config'.run
  <2>1. LaneSafe(st')
    BY <1>1, <1>3, OwnStepSafe
  <2>. QED BY <1>0, <1>1, <1>2, <1>3, <2>1 DEF Cur
<1>6. FlowTypeOK'
  <2>1. units' \in [Products -> Nat]
    BY <1>0, <1>2 DEF FlowTypeOK
  <2>. QED BY <1>0, <1>1, <1>2, <2>1 DEF FlowTypeOK
<1>7. ASSUME NEW u \in Owners
      PROVE  CallFits(u)' /\ FaultPage(st', u, page'[u]) /\ verdict'[u] \in {verdict[u], "none"}
  <2>0. FaultPage(Now, u, page[u]) /\ CallFits(u)'
    BY <1>0, <1>1, <1>2 DEF FaultReady, CallFits
  <2>1. CASE u = t
    <3>1. IdleAdd.owner # t
      BY NobodysNames DEF IdleAdd
    <3>2. st'.add[p] # [phase |-> "reserved", owner |-> t] /\ st'.add[p].owner # t
      BY <1>3, <3>1
    <3>3. FaultPage(st', t, page[t])
      BY <1>2, <2>0, <2>1, <3>2 DEF FaultPage
    <3>. QED BY <1>2, <2>0, <2>1, <3>3
  <2>2. CASE u # t
    <3>1. FaultPage(st', u, page[u])
      BY <1>1, <1>3, <2>0, <2>2, SurePages
    <3>. QED BY <1>2, <2>0, <3>1
  <2>. QED BY <2>1, <2>2
<1>8. ASSUME NEW q \in Products PROVE RecordFits(st', q)
  <2>1. RecordFits(Now, q)
    BY <1>1 DEF FaultReady
  <2>. QED BY <1>1, <1>4, <2>1, SureRecord
<1>. QED BY <1>2, <1>5, <1>6, <1>7, <1>8, FaultKept

\* Before any call nothing is ordered and every tab shows its product.
LEMMA FaultStarts ==
  ASSUME FlowInit
  PROVE  FaultInv
<1>1. FlowInv
  BY FlowStarts
<1>2. /\ LaneInv /\ LaneSafe(st) /\ st.run <= config.run /\ FlowTypeOK
      /\ \A t \in Owners : CallFits(t)
  BY <1>1 DEF FlowInv
<1>3. /\ \A t \in Owners : page[t] = "product" /\ verdict[t] = "none"
      /\ \A p \in Products : orders[p] = 0
  BY DEF FlowInit
<1>4. ASSUME NEW t \in Owners PROVE FaultPage(Cur, t, page[t]) /\ VerdictFits(t)
  <2>1. FaultPage(Cur, t, "product")
    BY LoosePageFits DEF LoosePages, PlainPages
  <2>. QED BY <1>3, <2>1 DEF VerdictFits
<1>5. ASSUME NEW p \in Products PROVE RecordFits(Cur, p)
  <2>1. orders[p] = 0
    BY <1>3
  <2>2. ~OrderOpen(Cur, p) /\ orders[p] <= 1
    BY <2>1 DEF OrderOpen
  <2>. QED BY <2>1, <2>2 DEF RecordFits
<1>. QED BY <1>2, <1>4, <1>5 DEF FaultInv

\* Each step of the flow keeps the invariant, whatever fails.
LEMMA FaultStep ==
  ASSUME FaultInv, [FlowNext]_flowVars, Members = {}
  PROVE  FaultInv'
<1>1. LaneInv'
  <2>1. CallsKnown
    BY DEF FaultInv, FlowTypeOK, CallFits, CallsKnown
  <2>. QED BY <2>1, FlowStepsLane, LaneStep DEF FaultInv
<1>2. ASSUME NEW t \in Owners, TabStep(t) PROVE FaultInv'
  <2>1. CASE AskPrepare(t) \/ Withdraw(t) \/ AskAuthorize(t) \/ AskCancel(t) \/ AskClicked(t)
             \/ AskRejectedAdd(t) \/ AskStoreError(t) \/ AskFailed(t)
             \/ AskConfirmed(t) \/ AskComplete(t) \/ AskClaim(t)
    BY <1>1, <2>1, FaultShopAsks
  <2>2. CASE AskReclaim(t) \/ AskYield(t) \/ AskHandoff(t) \/ AskIntent(t) \/ AskSubmitted(t)
             \/ AskRejected(t) \/ AskConfirm(t)
    BY <1>1, <2>2, FaultCheckoutAsks
  <2>3. CASE ReturnToCart(t) \/ ControlGone(t) \/ OpenCart(t) \/ LineVerified(t) \/ SubmitGone(t)
    BY <1>1, <2>3, FaultGoes
  <2>4. CASE ClickAdd(t)
    BY <1>1, <2>4, FaultClickAdd
  <2>5. CASE ClickSubmit(t)
    BY <1>1, <2>5, FaultOrdered
  <2>. QED BY <1>2, <2>1, <2>2, <2>3, <2>4, <2>5 DEF TabStep
<1>3. ASSUME NEW t \in Owners, Handled(t) PROVE FaultInv'
  BY <1>1, <1>3, FaultHandled
<1>4. ASSUME NEW t \in Owners, OfferRefused(t) PROVE FaultInv'
  BY <1>1, <1>4, FaultOffer
<1>5. ASSUME NEW t \in Owners, Failed(t) PROVE FaultInv'
  BY <1>1, <1>5, FaultFailed
<1>6. ASSUME NEW t \in Owners, UserSubmits(t) PROVE FaultInv'
  BY <1>1, <1>6, FaultOrdered
<1>7. ASSUME NEW t \in Owners, Reload(t) PROVE FaultInv'
  BY <1>1, <1>7, FaultReload
<1>8. ASSUME NEW t \in Owners, OperatorResolves(t) PROVE FaultInv'
  BY <1>1, <1>8, FaultResolved
<1>9. ASSUME NEW p \in Products, LeaseLapses(p) PROVE FaultInv'
  BY <1>1, <1>9, FaultLapsed
<1>10. ASSUME NEW p \in Products, CartDrops(p) PROVE FaultInv'
  BY <1>1, <1>10, FaultQuiet
<1>11. CASE StopAll \/ UNCHANGED flowVars
  BY <1>1, <1>11, FaultQuiet
<1>12. CASE ArmRun
  BY <1>1, <1>12, FaultArmed
<1>. QED BY <1>2, <1>3, <1>4, <1>5, <1>6, <1>7, <1>8, <1>9, <1>10, <1>11, <1>12 DEF FlowNext

--------------------------------------------------------------------------------
(* The theorems *)

\* The page flows are one way to use the worker: what holds of the purchase lane
\* whatever messages its tabs send (background.js) holds of them, under every
\* fault and with combined orders.
THEOREM FlowRefinesLane == FlowSpec => Spec
<1>1. FlowInit => Init /\ CallsKnown
  BY DEF FlowInit, CallsKnown
<1>2. CallsKnown /\ [FlowNext]_flowVars => CallsKnown' /\ [Next]_vars
  BY CallsStayKnown, FlowStepsLane
<1>. QED BY <1>1, <1>2, PTL DEF FlowSpec, Spec

\* A wrong report is remembered until the next run is armed.
LEMMA MisreadStays ==
  ASSUME [FlowNext]_flowVars, misread' = {}
  PROVE  misread = {} \/ ArmRun
<1>1. ASSUME NEW t \in Owners, TabStep(t) PROVE misread = {}
  BY <1>1 DEF TabStep, AskPrepare, Withdraw, AskAuthorize, AskCancel, AskClicked, AskRejectedAdd,
     AskStoreError, AskFailed, AskConfirmed, AskComplete, AskClaim, AskReclaim, AskYield,
     AskHandoff, AskIntent, AskSubmitted, AskRejected, AskConfirm, ReturnToCart, ControlGone,
     OpenCart, LineVerified, SubmitGone, ClickAdd, ClickSubmit, PlaceOrder, ReportFailed, Ask, Goto
<1>2. ASSUME NEW t \in Owners,
             \/ Handled(t) \/ OfferRefused(t) \/ Failed(t)
             \/ UserSubmits(t) \/ Reload(t) \/ OperatorResolves(t)
      PROVE  misread = {}
  BY <1>2 DEF Handled, OfferRefused, Failed, UserSubmits, PlaceOrder, Reload, OperatorResolves, Reply
<1>3. ASSUME NEW p \in Products, CartDrops(p) \/ LeaseLapses(p) PROVE misread = {}
  BY <1>3 DEF CartDrops, LeaseLapses
<1>4. CASE StopAll \/ UNCHANGED flowVars
  BY <1>4 DEF StopAll, flowVars
<1>. QED BY <1>1, <1>2, <1>3, <1>4 DEF FlowNext

\* Each step keeps the invariant of a run in which no report was wrong; arming
\* starts the next such run from whatever the last one left.
LEMMA RunStep ==
  ASSUME FaultInv, misread = {} => FlowInv, [FlowNext]_flowVars, Faults = {}, Members = {}
  PROVE  misread' = {} => FlowInv'
<1>. SUFFICES ASSUME misread' = {} PROVE FlowInv'
  OBVIOUS
<1>1. CASE misread = {}
  BY <1>1, FlowStep
<1>2. CASE ArmRun
  <2>1. LaneInv /\ LaneSafe(st) /\ st.run <= config.run /\ FlowTypeOK /\ LaneInv'
    BY FaultStep DEF FaultInv
  <2>2. ASSUME NEW u \in Owners
        PROVE  CallFits(u) /\ (page[u] = "handoff" => ActionOf[PageOf[u]] = "review")
    BY DEF FaultInv, FaultPage
  <2>. QED BY <1>2, <2>1, <2>2, ArmedInv
<1>. QED BY <1>1, <1>2, MisreadStays

\* The invariant of the page flows under every fault: a click whose receipt is
\* lost, a lease that lapses between the authorization and the receipt, a cart
\* shown after an order by hand.
THEOREM FaultInvariant ==
  ASSUME Members = {}
  PROVE  FlowSpec => []FaultInv
<1>1. FlowInit => FaultInv
  BY FaultStarts
<1>2. FaultInv /\ [FlowNext]_flowVars => FaultInv'
  BY FaultStep
<1>. QED BY <1>1, <1>2, PTL DEF FlowSpec

\* The inductive invariant of the page flows, of every run in which the store's
\* pages deny no Add that was made (misread).
THEOREM FlowInvariant ==
  ASSUME Faults = {}, Members = {}
  PROVE  FlowSpec => [](misread = {} => FlowInv)
<1>. DEFINE Kept == misread = {} => FlowInv
<1>1. FlowInit => Kept
  BY FlowStarts
<1>2. FaultInv /\ Kept /\ [FlowNext]_flowVars => Kept'
  BY RunStep
<1>3. FlowSpec => []FaultInv
  BY FaultInvariant
<1>4. FlowSpec => []Kept
  <2>. HIDE DEF Kept
  <2>. QED BY <1>1, <1>2, <1>3, PTL DEF FlowSpec
<1>. QED BY <1>4

\* Until a store's page denies an Add that was made, whatever a tab has put in
\* a cart or ordered is on the durable record (content.js clicks only under an
\* authorized reservation, and the record is kept or completed by every handler
\* of background.js).
THEOREM ReceiptCoversStoreAlways ==
  ASSUME Faults = {}, Members = {}
  PROVE  FlowSpec => [](misread = {} => ReceiptCoversStore)
<1>1. FlowInv => ReceiptCoversStore
  BY OpenIsRecorded DEF ReceiptCoversStore, Unresolved, Clicking
<1>. QED BY <1>1, FlowInvariant, PTL

\* An automatic mission has one order accepted at most in a run, and one that
\* only watches or fills the cart none (content.js clicks Place Order only after
\* beginSubmission recorded the intent).
AutomaticOrdersOnce ==
  \A p \in Products :
    /\ ActionOf[p] = "checkout" => orders[p] <= 1
    /\ ActionOf[p] \in {"cart", "watch"} => orders[p] = 0

\* Whatever faults occur, nothing is ordered twice without the user.
THEOREM AutomaticOrdersOnceAlways ==
  ASSUME Members = {}
  PROVE  FlowSpec => []AutomaticOrdersOnce
<1>1. FaultInv => AutomaticOrdersOnce
  BY DEF FaultInv, RecordFits, AutomaticOrdersOnce
<1>. QED BY <1>1, FaultInvariant, PTL

\* An automatic order that is not confirmed keeps its mission's whole lane, so
\* no other mission of its store or item starts (markSubmission, failSubmission
\* and normalizeState of automation-state.js).
AutomaticOrdersHeld ==
  \A p \in Products :
    OrderOpen(Now, p) =>
      NeedsHold(Now, p) /\ \A k \in LockKeys(p) : Now.locks[k].pid = p /\ Now.locks[k].hold

\* Under every fault, too: such an order is never forgotten.
THEOREM AutomaticOrdersHeldAlways ==
  ASSUME Members = {}
  PROVE  FlowSpec => []AutomaticOrdersHeld
<1>1. FaultInv => AutomaticOrdersHeld
  <2>. SUFFICES ASSUME FaultInv, NEW p \in Products, OrderOpen(Now, p)
                PROVE  /\ NeedsHold(Now, p)
                       /\ \A k \in LockKeys(p) : Now.locks[k].pid = p /\ Now.locks[k].hold
    BY DEF AutomaticOrdersHeld
  <2>1. FaultReady(Now)
    BY FaultReads
  <2>. QED BY <2>1, OpenHeld
<1>. QED BY <1>1, FaultInvariant, PTL

\* A permanent lock always has a receipt of its mission behind it, under every
\* fault (automation-state.js: finishAdd, failSubmission and complete give the
\* lane back with the receipt).
THEOREM NoOrphanedHoldAlways ==
  ASSUME Members = {}
  PROVE  FlowSpec => []NoOrphanedHold
<1>1. FaultInv => NoOrphanedHold
  BY DEF FaultInv, LaneSafe, HoldsExplained, NoOrphanedHold
<1>. QED BY <1>1, FaultInvariant, PTL

\* No read finds two missions in need of one lock (the manual-resolution
\* conflict of normalizeState), under every fault.
THEOREM NoConflictAlways ==
  ASSUME Members = {}
  PROVE  FlowSpec => []NoConflict
<1>1. FaultInv => NoConflict
  <2>. SUFFICES ASSUME FaultInv, NEW k \in Keys PROVE Now.locks[k].pid # "conflict"
    BY DEF NoConflict
  <2>1. PlainLocks(Now)
    BY FaultReads DEF FaultReady, Ready, LaneSafe
  <2>2. Now.locks[k] = Free \/ Now.locks[k].pid \in Products
    BY <2>1 DEF PlainLocks
  <2>3. "conflict" \notin Products /\ Free.pid = "none"
    BY NobodysNames, ReservedNamesAssumption
  <2>. QED BY <2>2, <2>3
<1>. QED BY <1>1, FaultInvariant, PTL

\* A run puts at most one unit of a product in the cart, whatever replies are
\* lost, tabs reload or leases lapse (prepareAddLane, authorizeAddClick), until a
\* store's page denies an Add that was made.
THEOREM NoDuplicateAddAlways ==
  ASSUME Faults = {}, Members = {}
  PROVE  FlowSpec => [](misread = {} => NoDuplicateAdd)
<1>1. FlowInv => NoDuplicateAdd
  BY DEF FlowInv, StoreFits, CartFits, NoDuplicateAdd
<1>. QED BY <1>1, FlowInvariant, PTL

\* A run orders a product at most once (beginSubmission, markSubmission): here of
\* every mission, until a store's page denies an Add that was made; of automatic
\* missions without that condition, in AutomaticOrdersOnceAlways.
THEOREM NoDuplicateOrderAlways ==
  ASSUME Faults = {}, Members = {}
  PROVE  FlowSpec => [](misread = {} => NoDuplicateOrder)
<1>1. FlowInv => NoDuplicateOrder
  BY DEF FlowInv, StoreFits, CartFits, NoDuplicateOrder
<1>. QED BY <1>1, FlowInvariant, PTL

--------------------------------------------------------------------------------
(* The refinement: every step of the flow is a step of BuyOnce, or none *)

\* The watched missions put nothing in a cart.
WatchedUntouched == \A p \in Products : ActionOf[p] = "watch" => units[p] = 0

\* The completions a handler finds are those of its own run.
LEMMA ReadDone ==
  ASSUME NEW s \in AutomationStates, NEW run \in Nat
  PROVE  NormalizeState(s, run).done = IF s.run = run THEN s.done ELSE {}
<1>. DEFINE c == IF s.run = run THEN s ELSE CreateState(run)
<1>1. c \in AutomationStates
  BY CreateInv DEF StateInv
<1>2. NormalizeState(s, run) = Normalized(c)
  BY DEF NormalizeState, Normalized
<1>. HIDE DEF c
<1>3. NormalizeState(s, run).done = c.done
  BY <1>1, <1>2, NormalizedFields DEF SameReceipts
<1>. QED BY <1>3, CreatedFits DEF c, CreateState

\* A step that completes nothing.
KeepsDone(s, r) == r.done = s.done /\ r.run = s.run

\* Giving the lane back completes nothing.
LEMMA ReleaseKeepsDone ==
  ASSUME NEW s \in AutomationStates, NEW p \in Products, NEW o
  PROVE  KeepsDone(s, Release(s, p, o))
BY DEF KeepsDone, Release, Unlocked, AutomationStates

\* Nor does a mark on an Add.
LEMMA MarkAddKeepsDone ==
  ASSUME NEW s \in AutomationStates, NEW p \in Products, NEW o \in Owners,
         NEW outcome \in {"clicked", "confirmed", "canceled", "failed"}
  PROVE  KeepsDone(s, MarkAddAction(s, p, o, outcome))
<1>1. CASE outcome = "clicked"
  BY <1>1 DEF MarkAddAction, KeepsDone, Held, AutomationStates
<1>2. CASE outcome = "confirmed"
  BY <1>2 DEF MarkAddAction, KeepsDone, Held, AutomationStates
<1>3. CASE outcome \in {"canceled", "failed"}
  BY <1>3 DEF MarkAddAction, KeepsDone, LaneGivenBack, Unlocked, AutomationStates
<1>. QED BY <1>1, <1>2, <1>3

\* Nor does a mark on a submission, or the operator's resolution.
LEMMA SubmissionKeepsDone ==
  ASSUME NEW s \in AutomationStates, NEW p \in Products, NEW o \in Owners, NEW h,
         NEW outcome \in {"clicked", "canceled", "failed"}
  PROVE  /\ KeepsDone(s, BeginSubmission(s, p, h)) /\ KeepsDone(s, MarkSubmission(s, p, o, outcome))
         /\ KeepsDone(s, BeginManualReview(s, p, o, h)) /\ KeepsDone(s, MarkManualSubmit(s, p))
         /\ KeepsDone(s, Resolve(s, p, o))
<1>1. KeepsDone(s, BeginSubmission(s, p, h)) /\ KeepsDone(s, BeginManualReview(s, p, o, h))
      /\ KeepsDone(s, MarkManualSubmit(s, p)) /\ KeepsDone(s, Resolve(s, p, o))
  BY DEF KeepsDone, BeginSubmission, BeginManualReview, MarkManualSubmit, Resolve, Held,
     LaneGivenBack, Unlocked, AutomationStates
<1>2. CASE outcome = "clicked"
  BY <1>1, <1>2 DEF MarkSubmission, KeepsDone, Held, AutomationStates
<1>3. CASE outcome = "canceled"
  BY <1>1, <1>3 DEF MarkSubmission, KeepsDone, LosesLocks, Unlocked, AutomationStates
<1>4. CASE outcome = "failed" /\ s.add[p].phase = "confirmed"
  BY <1>1, <1>4 DEF MarkSubmission, KeepsDone, Held, AutomationStates
<1>5. CASE outcome = "failed" /\ s.add[p].phase # "confirmed"
  BY <1>1, <1>5 DEF MarkSubmission, KeepsDone, LosesLocks, Unlocked, AutomationStates
<1>. QED BY <1>1, <1>2, <1>3, <1>4, <1>5

\* At most one mission completes, and nothing else the store sees changes.
Completes(s, r) ==
  /\ r.run = s.run
  /\ r.done = s.done \/ \E q \in Products : r.done = s.done \cup {q}

\* A claim may first complete the mission whose finished cart held the lane.
LEMMA HealCompletes ==
  ASSUME NEW n, FlowReady(n), NEW p \in Products, NEW o \in Owners
  PROVE  Completes(n, HealStrandedCartHold(n, p, o))
<1>1. CASE \E q \in Products : Strands(n, p, o, q)
  <2>. DEFINE q == CHOOSE q \in Products : Strands(n, p, o, q)
  <2>1. q \in Products
    BY <1>1
  <2>2. HealStrandedCartHold(n, p, o) = Complete(n, q)
    BY <1>1 DEF HealStrandedCartHold
  <2>. HIDE DEF q
  <2>3. CompletionWrites(n, Complete(n, q), q)
    BY <2>1, CompleteIs DEF FlowReady
  <2>. QED BY <2>1, <2>2, <2>3 DEF CompletionWrites, Completes
<1>2. CASE ~\E q \in Products : Strands(n, p, o, q)
  BY <1>2 DEF HealStrandedCartHold, Completes
<1>. QED BY <1>1, <1>2

\* A handled call completes at most one mission.
LEMMA HandledCompletes ==
  ASSUME FlowInv, Members = {}, NEW t \in Owners, Handled(t)
  PROVE  /\ Completes(Now, st') /\ config' = config
         /\ units' = units /\ orders' = orders /\ abandoned' = abandoned
<1>. DEFINE p == PageOf[t]
            op == call[t].op
            c == call[t].config
<1>0. call[t] # NoCall
  BY DEF Handled
<1>1. FlowReady(Now) /\ Guarded(Now) /\ p \in Products /\ Read(c) = Now /\ op \in Ops
      /\ units \in [Products -> Nat] /\ orders \in [Products -> Nat]
  BY <1>0, Found
<1>2. Now \in AutomationStates /\ Ready(Now)
  BY <1>1 DEF FlowReady, Ready, StateInv
<1>3. units' = units /\ orders' = orders /\ abandoned' = abandoned
  BY DEF Handled, Reply, store
<1>4. HandledByLane(t, op, p, c)
  BY DEF Handled
<1>5. op = "prepare" => ActionOf[p] # "watch"
  BY <1>0 DEF FlowInv, CallFits
<1>6. op \in {"prepare", "authorize", "release", "cancel", "clicked", "confirmed",
        "failed", "claim", "reclaim", "yield", "handoff", "intent", "submitted", "observed",
        "rejected", "complete", "confirm"}
  BY <1>1 DEF Ops, Calls
<1>. HIDE DEF op, c, p
<1>7. Completes(Now, st') /\ config' = config
  <2>1. CASE op = "prepare"
    <3>1. st' = PrepareOutcome(Now, p, t) /\ config' = config
      BY <1>1, <1>4, <2>1 DEF HandledByLane, PrepareAdd, Handle, desktop
    <3>2. OwnStep(HealStrandedCartHold(Now, p, t), PrepareOutcome(Now, p, t), p, t)
      BY <1>1, <1>5, <2>1, PreparedGood DEF GoodStep
    <3>3. Completes(Now, HealStrandedCartHold(Now, p, t))
      BY <1>1, HealCompletes
    <3>. QED BY <3>1, <3>2, <3>3 DEF OwnStep, OtherReceiptsKept, Completes
  <2>2. CASE op \in {"claim", "reclaim"}
    <3>1. st' = ClaimOutcome(Now, p, t) /\ config' = config
      BY <1>1, <1>4, <2>2 DEF HandledByLane, ClaimProduct, Handle, desktop
    <3>2. OwnStep(HealStrandedCartHold(Now, p, t), ClaimOutcome(Now, p, t), p, t)
      BY <1>1, ClaimedGood DEF GoodStep
    <3>3. Completes(Now, HealStrandedCartHold(Now, p, t))
      BY <1>1, HealCompletes
    <3>. QED BY <3>1, <3>2, <3>3 DEF OwnStep, OtherReceiptsKept, Completes
  <2>3. CASE op \in {"release", "yield"}
    <3>1. st' = ReleaseOutcome(Now, p, t) /\ config' = config
      BY <1>1, <1>4, <2>3 DEF HandledByLane, ReleaseLane, Handle, desktop
    <3>2. KeepsDone(Now, Release(Now, p, t))
      BY <1>1, <1>2, ReleaseKeepsDone
    <3>. QED BY <3>1, <3>2 DEF ReleaseOutcome, KeepsDone, Completes
  <2>4. CASE op = "authorize"
    BY <1>1, <1>4, <2>4 DEF HandledByLane, AuthorizeAdd, AuthorizeOutcome, Handle, desktop,
       Completes
  <2>5. CASE op \in {"cancel", "clicked", "confirmed", "failed"}
    <3>1. PICK outcome \in {"clicked", "confirmed", "canceled", "failed"} :
            st' = MarkAddOutcome(Now, p, t, outcome) /\ config' = config
      BY <1>1, <1>4, <2>5 DEF HandledByLane, MarkAdd, Handle, desktop
    <3>2. KeepsDone(Now, MarkAddAction(Now, p, t, outcome))
      BY <1>1, <1>2, MarkAddKeepsDone
    <3>. QED BY <3>1, <3>2 DEF MarkAddOutcome, KeepsDone, Completes
  <2>6. CASE op = "handoff"
    <3>1. PICK h \in EvidenceHashes : st' = BeginReviewOutcome(Now, p, t, h) /\ config' = config
      BY <1>1, <1>4, <2>6 DEF HandledByLane, BeginReview, Handle, desktop
    <3>2. KeepsDone(Now, BeginManualReview(Now, p, t, h))
      BY <1>1, <1>2, SubmissionKeepsDone
    <3>. QED BY <3>1, <3>2 DEF BeginReviewOutcome, KeepsDone, Completes
  <2>7. CASE op = "intent"
    <3>1. PICK h \in EvidenceHashes : st' = BeginSubmissionOutcome(Now, p, t, h) /\ config' = config
      BY <1>1, <1>4, <2>7 DEF HandledByLane, BeginSubmit, Handle, desktop
    <3>2. KeepsDone(Now, BeginSubmission(Now, p, h))
      BY <1>1, <1>2, SubmissionKeepsDone
    <3>. QED BY <3>1, <3>2 DEF BeginSubmissionOutcome, KeepsDone, Completes
  <2>8. CASE op \in {"submitted", "rejected"}
    <3>1. PICK outcome \in {"clicked", "failed"} :
            st' = MarkSubmissionOutcome(Now, p, t, outcome) /\ config' = config
      BY <1>1, <1>4, <2>8 DEF HandledByLane, MarkSubmit, Handle, desktop
    <3>2. KeepsDone(Now, MarkSubmission(Now, p, t, outcome))
      BY <1>1, <1>2, SubmissionKeepsDone
    <3>. QED BY <3>1, <3>2 DEF MarkSubmissionOutcome, KeepsDone, Completes
  <2>9. CASE op = "observed"
    <3>1. (st' = Now \/ st' = MarkManualSubmit(Now, p)) /\ config' = config
      BY <1>1, <1>4, <2>9 DEF HandledByLane, MarkManual, Handle, desktop
    <3>2. KeepsDone(Now, MarkManualSubmit(Now, p))
      BY <1>1, <1>2, SubmissionKeepsDone
    <3>. QED BY <3>1, <3>2 DEF KeepsDone, Completes
  <2>10. CASE op \in {"complete", "confirm"}
    <3>1. st' = CompleteOutcome(Now, p) /\ config' = config
      BY <1>1, <1>4, <2>10 DEF HandledByLane, CompleteProduct, Handle, desktop
    <3>2. CompletionWrites(Now, Complete(Now, p), p)
      BY <1>1, <1>2, CompleteIs
    <3>. QED BY <1>1, <3>1, <3>2 DEF CompleteOutcome, CompletionWrites, Completes
  <2>. QED BY <1>6, <2>1, <2>2, <2>3, <2>4, <2>5, <2>6, <2>7, <2>8, <2>9, <2>10
<1>. QED BY <1>3, <1>7

\* A refused offer completes nothing.
LEMMA OfferRefusedCompletes ==
  ASSUME FlowInv, Members = {}, NEW t \in Owners, OfferRefused(t)
  PROVE  /\ Completes(Now, st') /\ config' = config
         /\ units' = units /\ orders' = orders /\ abandoned' = abandoned
<1>1. call[t] # NoCall
  BY DEF OfferRefused, NoCall
<1>2. FlowReady(Now) /\ PageOf[t] \in Products /\ Read(call[t].config) = Now /\ Now \in AutomationStates
  BY <1>1, Found DEF FlowReady, Ready, StateInv
<1>3. KeepsDone(Now, MarkAddAction(Now, PageOf[t], t, "canceled"))
  BY <1>2, MarkAddKeepsDone
<1>. QED BY <1>2, <1>3 DEF OfferRefused, AuthorizeAdd, AuthorizeOutcome, MarkAddOutcome, Handle,
     desktop, Reply, store, KeepsDone, Completes

\* Only a reserved Add is clicked, and a watched mission reserves none.
LEMMA WatchedStep ==
  ASSUME FlowInv, WatchedUntouched, [FlowNext]_flowVars, Members = {}
  PROVE  WatchedUntouched'
<1>0. /\ units \in [Products -> Nat] /\ \A t \in Owners : PageOf[t] \in Products
  BY FlowAssumption DEF FlowInv, FlowTypeOK
<1>1. ASSUME NEW t \in Owners, ClickAdd(t) PROVE WatchedUntouched'
  <2>1. Authorized(t) /\ page[t] = "authorized" /\ PageOf[t] \in Products
    BY <1>0, <1>1 DEF ClickAdd, Idle, Authorized
  <2>2. Now.add[PageOf[t]] = [phase |-> "reserved", owner |-> t]
    BY <2>1, ReadFacts DEF TabFits, ClickFits
  <2>3. ActionOf[PageOf[t]] # "watch"
    BY <2>1, <2>2, ReadFacts DEF LaneSafe, ReceiptsFit, AddFits
  <2>4. \A q \in Products : q # PageOf[t] => units'[q] = units[q]
    BY <1>0, <1>1 DEF ClickAdd
  <2>. QED BY <2>3, <2>4 DEF WatchedUntouched
<1>2. ASSUME NEW t \in Owners, ClickSubmit(t) \/ UserSubmits(t) PROVE WatchedUntouched'
  <2>1. PICK accepted \in {0, 1} :
          accepted <= units[PageOf[t]] /\ units' = [units EXCEPT ![PageOf[t]] = @ - accepted]
    BY <1>2 DEF ClickSubmit, UserSubmits, PlaceOrder
  <2>. QED BY <1>0, <2>1 DEF WatchedUntouched
<1>3. ASSUME NEW t \in Owners, OperatorResolves(t) PROVE WatchedUntouched'
  BY <1>0, <1>3 DEF OperatorResolves, WatchedUntouched
<1>4. ASSUME NEW p \in Products, CartDrops(p) PROVE WatchedUntouched'
  BY <1>0, <1>4 DEF CartDrops, WatchedUntouched
<1>5. CASE ArmRun
  BY <1>5 DEF ArmRun, WatchedUntouched
<1>6. ASSUME units' = units PROVE WatchedUntouched'
  BY <1>6 DEF WatchedUntouched
<1>7. ASSUME NEW t \in Owners, TabStep(t), ~ClickAdd(t), ~ClickSubmit(t) PROVE units' = units
  BY <1>7 DEF TabStep, AskPrepare, Withdraw, AskAuthorize, AskCancel, AskClicked, AskRejectedAdd,
     AskStoreError, AskFailed, AskConfirmed, AskComplete, AskClaim, AskReclaim, AskYield,
     AskHandoff, AskIntent, AskSubmitted, AskRejected, AskConfirm, ReturnToCart, ControlGone,
     OpenCart, LineVerified, SubmitGone, ReportFailed, Ask, Send, store
<1>8. ASSUME NEW t \in Owners, Handled(t) \/ OfferRefused(t) \/ Failed(t) \/ Reload(t)
      PROVE  units' = units
  BY <1>8 DEF Handled, OfferRefused, Failed, Reload, Reply, store
<1>9. ASSUME NEW p \in Products, LeaseLapses(p) PROVE units' = units
  BY <1>9 DEF LeaseLapses, store
<1>10. CASE StopAll \/ UNCHANGED flowVars
  BY <1>6, <1>10 DEF StopAll, flowVars, store
<1>. QED BY <1>1, <1>2, <1>3, <1>4, <1>5, <1>6, <1>7, <1>8, <1>9, <1>10 DEF FlowNext

\* The keys of a mission that is not watched.
LEMMA SharedKeys ==
  ASSUME NEW p \in Products, NEW q \in Products, ActionOf[p] # "watch", ActionOf[q] # "watch"
  PROVE  /\ RetailerOf[p] = RetailerOf[q] => StoreKey(p) \in LockKeys(p) \cap LockKeys(q)
         /\ ItemOf[p] = ItemOf[q] /\ ItemOf[p] # NoItem => ItemKey(p) \in LockKeys(p) \cap LockKeys(q)
BY DEF LockKeys, StoreKey, ItemKey

\* A mission with something open at the store keeps every rival off its lane.
LEMMA OpenExcludes ==
  ASSUME FlowInv, Members = {}, NEW p \in Products, NEW o \in Owners, OwnsLane(Now, p, o),
         NEW q \in Products, q # p, NeedsHold(Now, q) \/ Clicking(q)
  PROVE  ActionOf[q] # "watch" /\ LockKeys(p) \cap LockKeys(q) = {}
<1>1. LaneSafe(Now) /\ LaneReady(Now) /\ \A t \in Owners : PageOf[t] \in Products /\ TabFits(Now, t)
  BY ReadFacts
<1>2. \A k \in LockKeys(p) : Now.locks[k].pid = p
  BY DEF OwnsLane, OwnedBy
<1>3. CASE NeedsHold(Now, q)
  <2>1. ActionOf[q] # "watch"
    BY <1>1, <1>3, NeederActs DEF LaneSafe
  <2>2. \A k \in LockKeys(q) : Now.locks[k].pid = q
    BY <1>1, <1>3 DEF LaneReady
  <2>. QED BY <1>2, <2>1, <2>2
<1>4. CASE Clicking(q)
  <2>1. PICK t \in Owners : PageOf[t] = q /\ page[t] = "clicking"
    BY <1>4 DEF Clicking, ReceiptPending
  <2>2. Now.add[q] = [phase |-> "reserved", owner |-> t] /\ OwnsLane(Now, q, t)
    BY <1>1, <2>1 DEF TabFits, ClickFits, Authorized
  <2>3. ActionOf[q] # "watch"
    BY <1>1, <2>2 DEF LaneSafe, ReceiptsFit, AddFits
  <2>. QED BY <1>2, <2>2, <2>3 DEF OwnsLane, OwnedBy
<1>. QED BY <1>3, <1>4

\* An authorized tab's mission has no option of its item bought or completed.
LEMMA OptionsOpen ==
  ASSUME FlowInv, WatchedUntouched, Members = {}, NEW t \in Owners, page[t] = "authorized",
         NEW p \in Products, PageOf[t] = p, NEW q \in Products, q # p,
         ItemOf[p] = ItemOf[q], ItemOf[p] # NoItem
  PROVE  ~(units[q] > 0) /\ ~(orders[q] > 0)
<1>1. /\ LaneSafe(Now) /\ StateInv(Now) /\ TabFits(Now, t) /\ OrderFits(Now, q)
      /\ units[q] \in Nat /\ orders[q] \in Nat
  BY ReadFacts DEF FlowInv, FlowTypeOK, StoreFits
<1>2. Now.add[p] = [phase |-> "reserved", owner |-> t] /\ OwnsLane(Now, p, t) /\ p \notin Now.done
  BY <1>1 DEF TabFits, ClickFits, Authorized
<1>3. ActionOf[p] # "watch"
  BY <1>1, <1>2 DEF LaneSafe, ReceiptsFit, AddFits
<1>4. CASE ActionOf[q] = "watch"
  BY <1>1, <1>4 DEF OrderFits, WatchedUntouched
<1>5. CASE ActionOf[q] # "watch" /\ q \in Now.done
  <2>1. ItemOf[p] \in Now.itemDone
    BY <1>1, <1>5 DEF StateInv, ItemsRecorded, CountsForItem
  <2>2. ItemKey(p) \in LockKeys(p) /\ Settled(Now.locks[ItemKey(p)])
    BY <1>1, <1>3, <2>1 DEF StateInv, ItemLocksSettled, LockKeys, ItemKey
  <2>3. Now.locks[ItemKey(p)].pid = p
    BY <1>2, <2>2 DEF OwnsLane, OwnedBy
  <2>4. Now.locks[ItemKey(p)].hold /\ ItemKey(p) \in Keys
    BY <2>2, <2>3, NobodysNames, KeyFacts DEF Settled
  <2>5. NeedsHold(Now, p)
    BY <1>1, <2>3, <2>4 DEF LaneSafe, HoldsExplained
  <2>6. AddFits(Now, p) /\ WorkflowFits(Now, p) /\ SubmissionFits(Now, p)
    BY <1>1 DEF LaneSafe, ReceiptsFit
  <2>7. Now.sub[p].phase \notin MaybeSubmitted
    BY <1>2, <2>6 DEF SubmissionFits
  <2>8. Now.wf[p].phase \notin HeldWorkflowPhases
    BY <1>2, <2>6, <2>7 DEF WorkflowFits, HeldWorkflowPhases, MaybeSubmitted
  <2>. QED BY <1>2, <2>5, <2>7, <2>8 DEF NeedsHold
<1>6. CASE ActionOf[q] # "watch" /\ q \notin Now.done
  <2>1. ItemKey(p) \in LockKeys(p) \cap LockKeys(q)
    BY <1>3, <1>6, SharedKeys
  <2>2. ~(NeedsHold(Now, q) \/ Clicking(q))
    BY <1>2, <2>1, OpenExcludes
  <2>. QED BY <1>6, <2>2, OpenIsRecorded
<1>. QED BY <1>4, <1>5, <1>6

--------------------------------------------------------------------------------
(* The steps as BuyOnce sees them *)

\* Nothing that BuyOnce looks at changes.
LEMMA UnseenStep ==
  ASSUME units' = units, orders' = orders, abandoned' = abandoned, Now'.done = Now.done
  PROVE  UNCHANGED StoreView!buyVars
BY DEF StoreView!buyVars

\* A first unit of p reaches the cart, or the click adds nothing.
LEMMA SeenAdd ==
  ASSUME FlowInv, WatchedUntouched, Members = {}, NEW t \in Owners, ClickAdd(t), Now' = Now
  PROVE  StoreView!Next \/ UNCHANGED StoreView!buyVars
<1>. DEFINE p == PageOf[t]
<1>0. p \in Products /\ units \in [Products -> Nat] /\ orders \in [Products -> Nat]
  BY FlowAssumption DEF FlowInv, FlowTypeOK
<1>1. /\ page[t] = "authorized" /\ Authorized(t) /\ orders' = orders /\ abandoned' = abandoned
      /\ \E added \in {0, 1} : units' = [units EXCEPT ![p] = @ + added]
  BY DEF ClickAdd, Idle, Goto, Authorized
<1>2. /\ TabFits(Now, t) /\ LaneSafe(Now) /\ GivenUpFits(Now, p)
      /\ \A q \in Products : GivenUpFits(Now, q)
  BY <1>0, ReadFacts DEF StoreFits
<1>3. /\ units[p] = 0 /\ orders[p] = 0 /\ p \notin Now.done /\ OwnsLane(Now, p, t)
      /\ Now.add[p] = [phase |-> "reserved", owner |-> t]
  BY <1>1, <1>2 DEF TabFits, ClickFits
<1>4. p \notin abandoned /\ \A q \in abandoned : ~(units[q] > 0)
  <2>1. \A q \in Products : q \in abandoned => units[q] = 0
    BY <1>2 DEF GivenUpFits
  <2>2. abandoned \subseteq Products
    BY DEF FlowInv, FlowTypeOK
  <2>3. p \notin abandoned
    BY <1>1, <1>2 DEF GivenUpFits
  <2>. QED BY <1>0, <2>1, <2>2, <2>3
<1>5. ActionOf[p] # "watch"
  BY <1>0, <1>2, <1>3 DEF LaneSafe, ReceiptsFit, AddFits
<1>. HIDE DEF p
<1>6. CASE units' = [units EXCEPT ![p] = 1]
  <2>1. ASSUME NEW q \in Products, q # p, RetailerOf[p] = RetailerOf[q]
        PROVE  ~(units[q] > 0) \/ q \in Now.done \cup abandoned
    <3>1. CASE ActionOf[q] = "watch"
      BY <2>1, <3>1 DEF WatchedUntouched
    <3>2. CASE ActionOf[q] # "watch" /\ q \notin Now.done
      <4>1. LockKeys(p) \cap LockKeys(q) # {}
        BY <1>0, <1>5, <2>1, <3>2, SharedKeys
      <4>2. ~(NeedsHold(Now, q) \/ Clicking(q))
        BY <1>0, <1>3, <2>1, <4>1, OpenExcludes
      <4>. QED BY <2>1, <3>2, <4>2, OpenIsRecorded
    <3>. QED BY <3>1, <3>2
  <2>2. ASSUME NEW q \in Products, q # p, ItemOf[p] = ItemOf[q], ItemOf[p] # NoItem
        PROVE  ~(units[q] > 0) /\ ~(orders[q] > 0)
    BY <1>0, <1>1, <2>2, OptionsOpen DEF p
  <2>3. StoreView!MayAdd(p)
    BY <1>0, <1>3, <1>4, <2>1, <2>2 DEF StoreView!MayAdd
  <2>4. {q \in Products : units[q] > 0}' = {q \in Products : units[q] > 0} \cup {p}
    BY <1>0, <1>6
  <2>5. StoreView!Add(p)
    BY <1>1, <2>3, <2>4 DEF StoreView!Add
  <2>. QED BY <1>0, <2>5 DEF StoreView!Next
<1>7. CASE units' = units
  BY <1>1, <1>7, UnseenStep
<1>8. units' = [units EXCEPT ![p] = 1] \/ units' = units
  <2>1. PICK added \in {0, 1} : units' = [units EXCEPT ![p] = units[p] + added]
    BY <1>1 DEF p
  <2>2. CASE added = 0
    BY <1>0, <1>3, <2>1, <2>2
  <2>3. CASE added = 1
    BY <1>0, <1>3, <2>1, <2>3
  <2>. QED BY <2>2, <2>3
<1>. QED BY <1>6, <1>7, <1>8

\* The store accepts one order for the unit in the cart, or none.
LEMMA SeenOrder ==
  ASSUME FlowInv, Members = {}, NEW t \in Owners, ClickSubmit(t) \/ UserSubmits(t), Now' = Now
  PROVE  StoreView!Next \/ UNCHANGED StoreView!buyVars
<1>. DEFINE p == PageOf[t]
<1>0. p \in Products /\ units \in [Products -> Nat] /\ orders \in [Products -> Nat]
      /\ CartFits(Now, p) /\ OrderFits(Now, p) /\ GivenUpFits(Now, p) /\ TabFits(Now, t)
  BY FlowAssumption, ReadFacts DEF FlowInv, FlowTypeOK, StoreFits
<1>1. page[t] \in {"intent", "handoff"} /\ abandoned' = abandoned
  BY DEF ClickSubmit, UserSubmits, Idle, PlaceOrder
<1>2. PICK accepted \in {0, 1} :
        /\ accepted <= units[p] /\ orders' = [orders EXCEPT ![p] = orders[p] + accepted]
        /\ units' = [units EXCEPT ![p] = units[p] - accepted]
  BY DEF ClickSubmit, UserSubmits, PlaceOrder
<1>. HIDE DEF p
<1>3. CASE accepted = 0
  <2>1. units' = units /\ orders' = orders
    BY <1>0, <1>2, <1>3
  <2>. QED BY <1>1, <2>1, UnseenStep
<1>4. CASE accepted = 1
  <2>1. units[p] = 1 /\ orders[p] = 0
    BY <1>0, <1>2, <1>4 DEF CartFits
  <2>2. p \notin abandoned
    BY <1>0, <2>1 DEF GivenUpFits
  <2>3. p \notin Now.done
    <3>1. page[t] = "handoff" => ActionOf[p] = "review"
      BY <1>0 DEF TabFits, AddIsWhere, p
    <3>2. page[t] = "intent" => p \notin Now.done
      BY <1>0 DEF TabFits, SubmitFits, p
    <3>. QED BY <1>0, <1>1, <2>1, <3>1, <3>2 DEF OrderFits
  <2>4. {q \in Products : units[q] > 0}' = {q \in Products : units[q] > 0} \ {p}
    BY <1>0, <1>2, <1>4, <2>1
  <2>5. {q \in Products : orders[q] > 0}' = {q \in Products : orders[q] > 0} \cup {p}
    BY <1>0, <1>2, <1>4, <2>1
  <2>6. p \in {q \in Products : units[q] > 0} /\ p \notin {q \in Products : orders[q] > 0}
    BY <1>0, <2>1
  <2>7. StoreView!Order(p)
    BY <1>1, <2>2, <2>3, <2>4, <2>5, <2>6 DEF StoreView!Order
  <2>. QED BY <1>0, <2>7 DEF StoreView!Next
<1>. QED BY <1>3, <1>4

\* A line leaves the cart.
LEMMA SeenDrop ==
  ASSUME FlowTypeOK, NEW p \in Products, CartDrops(p), Now' = Now
  PROVE  StoreView!Next
<1>1. /\ units \in [Products -> Nat] /\ units[p] > 0 /\ units' = [units EXCEPT ![p] = 0]
      /\ orders' = orders /\ abandoned' = abandoned
  BY DEF FlowTypeOK, CartDrops
<1>2. {q \in Products : units[q] > 0}' = {q \in Products : units[q] > 0} \ {p}
  BY <1>1
<1>3. StoreView!Drop(p)
  BY <1>1, <1>2 DEF StoreView!Drop
<1>. QED BY <1>3 DEF StoreView!Next

\* The operator gives an unordered mission up, and its line with it.
LEMMA SeenGiveUp ==
  ASSUME FlowInv, Members = {}, NEW t \in Owners, OperatorResolves(t), Now'.done = Now.done
  PROVE  StoreView!Next \/ UNCHANGED StoreView!buyVars
<1>. DEFINE p == PageOf[t]
<1>0. p \in Products /\ units \in [Products -> Nat] /\ orders \in [Products -> Nat]
      /\ GivenUpFits(Now, p) /\ Now = Read(config)
  BY FlowAssumption, ReadFacts DEF FlowInv, FlowTypeOK, StoreFits, Now, Read
<1>1. /\ orders[p] = 0 /\ p \notin Now.done /\ abandoned' = abandoned \cup {p}
      /\ units' = [units EXCEPT ![p] = 0] /\ orders' = orders
  BY <1>0 DEF OperatorResolves, ResolveKnownNoOrder, CanResolve
<1>. HIDE DEF p
<1>2. CASE p \in abandoned
  <2>1. units' = units /\ abandoned' = abandoned
    BY <1>0, <1>1, <1>2 DEF GivenUpFits
  <2>. QED BY <1>1, <2>1, UnseenStep
<1>3. CASE p \notin abandoned
  <2>1. {q \in Products : units[q] > 0}' = {q \in Products : units[q] > 0} \ {p}
    BY <1>0, <1>1
  <2>2. p \notin {q \in Products : orders[q] > 0}
    BY <1>1
  <2>3. StoreView!GiveUp(p)
    BY <1>1, <1>3, <2>1, <2>2 DEF StoreView!GiveUp
  <2>. QED BY <1>0, <2>3 DEF StoreView!Next
<1>. QED BY <1>2, <1>3

\* A handler completes one mission, or none.
LEMMA SeenCompletion ==
  ASSUME units' = units, orders' = orders, abandoned' = abandoned,
         Now'.done = Now.done \/ \E q \in Products : Now'.done = Now.done \cup {q}
  PROVE  StoreView!Next \/ UNCHANGED StoreView!buyVars
<1>1. CASE Now'.done = Now.done
  BY <1>1, UnseenStep
<1>2. ASSUME NEW q \in Products, Now'.done = Now.done \cup {q}
      PROVE  StoreView!Next \/ UNCHANGED StoreView!buyVars
  <2>1. CASE q \in Now.done \cup abandoned
    BY <1>2, <2>1 DEF StoreView!buyVars
  <2>2. CASE q \notin Now.done \cup abandoned
    <3>1. StoreView!Complete(q)
      BY <1>2, <2>2 DEF StoreView!Complete
    <3>. QED BY <3>1 DEF StoreView!Next
  <2>. QED BY <2>1, <2>2
<1>. QED BY <1>1, <1>2

\* A new run starts with nothing bought.
LEMMA SeenRun ==
  ASSUME ArmRun, Now'.done = {}
  PROVE  StoreView!Next
<1>1. /\ {q \in Products : units[q] > 0}' = {} /\ {q \in Products : orders[q] > 0}' = {}
      /\ abandoned' = {}
  BY DEF ArmRun
<1>. QED BY <1>1 DEF StoreView!Next, StoreView!NewRun

\* Whatever happens, BuyOnce takes a step or none.
LEMMA SeenStep ==
  ASSUME FlowInv, FlowInv', WatchedUntouched, [FlowNext]_flowVars, Members = {}
  PROVE  StoreView!Next \/ UNCHANGED StoreView!buyVars
<1>0. /\ FlowTypeOK /\ st \in AutomationStates /\ st' \in AutomationStates
      /\ config.run \in Nat /\ config'.run \in Nat /\ Now.run = config.run
      /\ st.run <= config.run /\ \A t \in Owners : PageOf[t] \in Products
  BY ReadFacts, FlowAssumption DEF FlowInv, LaneInv, StateInv, Configs
<1>1. /\ Now.done = IF st.run = config.run THEN st.done ELSE {}
      /\ Now'.done = IF st'.run = config'.run THEN st'.done ELSE {}
  <2>1. NormalizeState(st, config.run).done = IF st.run = config.run THEN st.done ELSE {}
    BY <1>0, ReadDone
  <2>2. NormalizeState(st', config'.run).done = IF st'.run = config'.run THEN st'.done ELSE {}
    BY <1>0, ReadDone
  <2>. QED BY <2>1, <2>2 DEF Now
<1>2. UNCHANGED vars => Now' = Now
  BY DEF Now, vars
<1>3. ASSUME UNCHANGED vars, units' = units, orders' = orders, abandoned' = abandoned
      PROVE  UNCHANGED StoreView!buyVars
  BY <1>2, <1>3, UnseenStep
<1>4. ASSUME NEW t \in Owners, TabStep(t), ~ClickAdd(t), ~ClickSubmit(t)
      PROVE  UNCHANGED vars /\ units' = units /\ orders' = orders /\ abandoned' = abandoned
  BY <1>4 DEF TabStep, AskPrepare, Withdraw, AskAuthorize, AskCancel, AskClicked, AskRejectedAdd,
     AskStoreError, AskFailed, AskConfirmed, AskComplete, AskClaim, AskReclaim, AskYield,
     AskHandoff, AskIntent, AskSubmitted, AskRejected, AskConfirm, ReturnToCart, ControlGone,
     OpenCart, LineVerified, SubmitGone, ReportFailed, Ask, Send, Goto, store
<1>5. ASSUME NEW t \in Owners, Failed(t) \/ Reload(t)
      PROVE  UNCHANGED vars /\ units' = units /\ orders' = orders /\ abandoned' = abandoned
  BY <1>5 DEF Failed, Reload, Reply, store
<1>6. ASSUME NEW t \in Owners, ClickAdd(t)
      PROVE  StoreView!Next \/ UNCHANGED StoreView!buyVars
  <2>1. Now' = Now
    BY <1>2, <1>6 DEF ClickAdd, Goto
  <2>. QED BY <1>6, <2>1, SeenAdd
<1>7. ASSUME NEW t \in Owners, ClickSubmit(t) \/ UserSubmits(t)
      PROVE  StoreView!Next \/ UNCHANGED StoreView!buyVars
  <2>1. Now' = Now
    BY <1>2, <1>7 DEF ClickSubmit, UserSubmits, PlaceOrder
  <2>. QED BY <1>7, <2>1, SeenOrder
<1>8. ASSUME NEW p \in Products, CartDrops(p)
      PROVE  StoreView!Next
  <2>1. Now' = Now
    BY <1>2, <1>8 DEF CartDrops
  <2>. QED BY <1>0, <1>8, <2>1, SeenDrop
<1>9. ASSUME NEW t \in Owners, Handled(t) \/ OfferRefused(t)
      PROVE  StoreView!Next \/ UNCHANGED StoreView!buyVars
  <2>1. /\ Completes(Now, st') /\ config' = config
        /\ units' = units /\ orders' = orders /\ abandoned' = abandoned
    BY <1>9, HandledCompletes, OfferRefusedCompletes
  <2>2. Now'.done = Now.done \/ \E q \in Products : Now'.done = Now.done \cup {q}
    BY <1>0, <1>1, <2>1 DEF Completes
  <2>. QED BY <2>1, <2>2, SeenCompletion
<1>10. ASSUME NEW t \in Owners, OperatorResolves(t)
       PROVE  StoreView!Next \/ UNCHANGED StoreView!buyVars
  <2>1. st' = Resolve(Now, PageOf[t], t) /\ config' = config
    BY <1>10 DEF OperatorResolves, ResolveKnownNoOrder, Handle, desktop, Read, Now
  <2>2. Now \in AutomationStates
    BY ReadFacts DEF StateInv
  <2>3. st'.done = Now.done /\ st'.run = Now.run
    BY <1>0, <2>1, <2>2, SubmissionKeepsDone DEF KeepsDone
  <2>4. Now'.done = Now.done
    BY <1>0, <1>1, <2>1, <2>3
  <2>. QED BY <1>10, <2>4, SeenGiveUp
<1>11. ASSUME NEW p \in Products, LeaseLapses(p)
       PROVE  UNCHANGED StoreView!buyVars
  <2>1. st' = Lapse(st, p) /\ config' = config
        /\ units' = units /\ orders' = orders /\ abandoned' = abandoned
    BY <1>11 DEF LeaseLapses, LeaseRunsOut, desktop, store
  <2>2. PlainLocks(st)
    BY DEF FlowInv, LaneSafe
  <2>3. st'.done = st.done /\ st'.run = st.run
    BY <1>0, <2>1, <2>2, LapseIs DEF LapseWrites
  <2>4. Now'.done = Now.done
    BY <1>1, <2>1, <2>3
  <2>. QED BY <2>1, <2>4, UnseenStep
<1>12. CASE StopAll
  <2>1. st' = st /\ config' = [config EXCEPT !.active = FALSE]
        /\ units' = units /\ orders' = orders /\ abandoned' = abandoned
    BY <1>12 DEF StopAll, Stop, Serve, store
  <2>2. config'.run = config.run
    BY <2>1 DEF FlowInv, LaneInv, Configs
  <2>3. Now'.done = Now.done
    BY <1>1, <2>1, <2>2
  <2>. QED BY <2>1, <2>3, UnseenStep
<1>13. CASE ArmRun
  <2>1. st' = st /\ config' = [run |-> config.run + 1, active |-> TRUE]
    BY <1>13 DEF ArmRun, Arm, Serve
  <2>2. st.run \in Nat /\ st'.run # config'.run
    BY <1>0, <2>1 DEF AutomationStates
  <2>3. Now'.done = {}
    BY <1>1, <2>2
  <2>. QED BY <1>13, <2>3, SeenRun
<1>14. CASE UNCHANGED flowVars
  <2>1. UNCHANGED vars /\ units' = units /\ orders' = orders /\ abandoned' = abandoned
    BY <1>14 DEF flowVars, store
  <2>. QED BY <1>3, <2>1
<1>15. ASSUME NEW t \in Owners, TabStep(t)
       PROVE  StoreView!Next \/ UNCHANGED StoreView!buyVars
  BY <1>3, <1>4, <1>6, <1>7, <1>15
<1>. QED BY <1>3, <1>5, <1>7, <1>8, <1>9, <1>10, <1>11, <1>12, <1>13, <1>14, <1>15 DEF FlowNext

\* At first the store has nothing.
LEMMA SeenStart ==
  ASSUME FlowInit
  PROVE  StoreView!Init /\ WatchedUntouched
<1>1. /\ st = CreateState(0) /\ config = [run |-> 0, active |-> FALSE] /\ abandoned = {}
      /\ units = [p \in Products |-> 0] /\ orders = [p \in Products |-> 0]
  BY DEF FlowInit, Init
<1>2. Now.done = {}
  <2>1. CreateState(0) \in AutomationStates /\ CreateState(0).run = 0 /\ CreateState(0).done = {}
    BY CreateType DEF CreateState
  <2>2. NormalizeState(CreateState(0), 0).done = {}
    BY <2>1, ReadDone
  <2>. QED BY <1>1, <2>2 DEF Now
<1>3. {p \in Products : units[p] > 0} = {} /\ {p \in Products : orders[p] > 0} = {}
  BY <1>1
<1>. QED BY <1>1, <1>2, <1>3 DEF StoreView!Init, WatchedUntouched

\* A new run starts so whatever the last one left.
LEMMA ArmSeen ==
  ASSUME FaultInv, ArmRun
  PROVE  StoreView!Next /\ WatchedUntouched'
<1>1. /\ st \in AutomationStates /\ config \in Configs /\ st.run <= config.run
      /\ st' = st /\ config' = [run |-> config.run + 1, active |-> TRUE]
  BY DEF FaultInv, LaneInv, StateInv, ArmRun, Arm, Serve
<1>2. st'.run # config'.run /\ config'.run \in Nat /\ st' \in AutomationStates
  BY <1>1, FieldTypes DEF Configs
<1>3. Now'.done = {}
  BY <1>2, ReadDone DEF Now
<1>4. WatchedUntouched'
  BY DEF ArmRun, WatchedUntouched
<1>. QED BY <1>3, <1>4, SeenRun

\* Each step of a run in which no report was wrong is a step of BuyOnce.
LEMMA RunSeen ==
  ASSUME FaultInv, misread = {} => FlowInv /\ WatchedUntouched, misread' = {} => FlowInv',
         [FlowNext]_flowVars, Members = {}, misread' = {}
  PROVE  [StoreView!Next]_StoreView!buyVars /\ WatchedUntouched'
<1>1. CASE misread = {}
  BY <1>1, SeenStep, WatchedStep
<1>2. CASE ArmRun
  BY <1>2, ArmSeen
<1>. QED BY <1>1, <1>2, MisreadStays

\* The page flows and the worker keep the promise of BuyOnce: one unit and one
\* order for a mission, one option bought of an item, and no open outcomes of
\* two missions mixed in the cart of a store, until a store's page denies an Add
\* that was made.
THEOREM FlowRefinesBuyOnce ==
  ASSUME Faults = {}, Members = {}
  PROVE  FlowSpec => FlowBuysOnce
<1>. DEFINE Kept == misread = {} => FlowInv
            Untouched == misread = {} => WatchedUntouched
<1>1. FlowInit => StoreView!Init /\ Untouched
  BY SeenStart
<1>2. FaultInv /\ Kept /\ Kept' /\ Untouched /\ [FlowNext]_flowVars => Untouched'
  BY RunSeen
<1>3. FaultInv /\ Kept /\ Kept' /\ Untouched /\ [FlowNext]_flowVars
        => [misread' = {} => [StoreView!Next]_StoreView!buyVars]_flowVars
  BY RunSeen
<1>4. FlowSpec => []FaultInv /\ []Kept
  BY FaultInvariant, FlowInvariant, PTL
<1>. HIDE DEF Kept, Untouched
<1>. QED BY <1>1, <1>2, <1>3, <1>4, PTL DEF FlowSpec, FlowBuysOnce

================================================================================
