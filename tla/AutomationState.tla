---------------------------- MODULE AutomationState ----------------------------
(***************************************************************************)
(* The durable automation state of the Chrome extension as pure operators: *)
(* src/extension/automation-state.js.  The state is one record; every      *)
(* operation of the library is a guard (Can...) and an effect, both        *)
(* functions of that record.  PurchaseLane turns them into actions.        *)
(*                                                                         *)
(* Wall-clock leases are abstracted: all the pre-click locks of a product  *)
(* and its reservation expire at one instant (they are always renewed      *)
(* together), and Lapse is what the first read after that instant sees.    *)
(* Fields no operation of the library reads are left out: the attempt      *)
(* counter, the offer proof (judged by the content script) and timestamps. *)
(***************************************************************************)
EXTENDS Naturals

CONSTANTS
  Products,      \* configured store options (product ids)
  Owners,        \* browser tabs: ownerId is "tab:<id>"
  Retailers,
  Items,         \* wanted items; several products may be options for one
  NoItem,        \* the value of ItemOf for a product outside any item
  RetailerOf,    \* [Products -> Retailers]
  ItemOf,        \* [Products -> Items \cup {NoItem}]
  ActionOf,      \* [Products -> {"watch", "cart", "review", "checkout"}]
  Members,       \* combined-order members; {} when combined ordering is off
  EvidenceHashes

ASSUME ConfigAssumption ==
  /\ NoItem \notin Items
  /\ RetailerOf \in [Products -> Retailers]
  /\ ItemOf \in [Products -> Items \cup {NoItem}]
  /\ ActionOf \in [Products -> {"watch", "cart", "review", "checkout"}]
  /\ Members \subseteq {p \in Products : ActionOf[p] = "checkout"}

\* Placeholder product ids used in locks are not configured products, and the
\* owner names the library writes itself are not tabs.
ASSUME ReservedNamesAssumption ==
  /\ {"none", "conflict", "combined"} \cap Products = {}
  /\ {"", "operator", "recovered", "combined-batch",
      "manual-resolution-required"} \cap Owners = {}
  /\ "" \notin EvidenceHashes

--------------------------------------------------------------------------------
(* Values *)

AddPhases == {"idle", "reserved", "clicked", "confirmed"}
SubmissionPhases ==
  {"idle", "intent", "uncertain", "confirmed", "explicitly-failed", "abandoned"}
HeldWorkflowPhases ==
  {"cart-confirmed", "awaiting-manual-outcome", "manual-submit-observed",
   "submission-uncertain"}
TerminalWorkflowPhases ==
  {"confirmed", "explicitly-failed", "abandoned", "legacy-outcome-unknown"}
WorkflowPhases == {"active"} \cup HeldWorkflowPhases \cup TerminalWorkflowPhases
MaybeSubmitted == {"intent", "uncertain"}

Nobody == ""
NoHash == ""
OwnerIds == Owners \cup {Nobody, "operator", "recovered", "combined-batch",
                         "manual-resolution-required"}
Hashes == EvidenceHashes \cup {NoHash}
Holders == Products \cup {"none", "conflict", "combined"}

ProductKey(p) == <<"product", p>>
StoreKey(p) == <<"store", RetailerOf[p]>>
ItemKey(p) == <<"item", ItemOf[p]>>
Keys == ({"product"} \X Products) \cup ({"store"} \X Retailers) \cup ({"item"} \X Items)

Claims == [pid : Holders, owner : OwnerIds]
NoClaim == [pid |-> "none", owner |-> Nobody]

\* members # {} marks a combined lock; claim is the sub-claim inside it.
Locks == [pid : Holders, owner : OwnerIds, hold : BOOLEAN,
          members : SUBSET Holders, claim : Claims]
Free == [pid |-> "none", owner |-> Nobody, hold |-> FALSE,
         members |-> {}, claim |-> NoClaim]
Lock(p, o, held) == [Free EXCEPT !.pid = p, !.owner = o, !.hold = held]
ConflictLock == Lock("conflict", "manual-resolution-required", TRUE)
BatchLock(ms, c) ==
  [pid |-> "combined", owner |-> "combined-batch", hold |-> TRUE,
   members |-> ms, claim |-> c]

IdleAdd == [phase |-> "idle", owner |-> Nobody]
IdleSubmission == [phase |-> "idle", hash |-> NoHash]
Workflow(phase, o, h) == [phase |-> phase, owner |-> o, hash |-> h]

AutomationStates ==
  [run : Nat,
   locks : [Keys -> Locks],
   add : [Products -> [phase : AddPhases, owner : OwnerIds]],
   sub : [Products -> [phase : SubmissionPhases, hash : Hashes]],
   wf : [Products -> [phase : WorkflowPhases, owner : OwnerIds, hash : Hashes]],
   done : SUBSET Products,
   itemDone : SUBSET Items]

CreateState(run) ==
  [run |-> run,
   locks |-> [k \in Keys |-> Free],
   add |-> [p \in Products |-> IdleAdd],
   sub |-> [p \in Products |-> IdleSubmission],
   wf |-> [p \in Products |-> Workflow("active", Nobody, NoHash)],
   done |-> {},
   itemDone |-> {}]

--------------------------------------------------------------------------------
(* Locks *)

LockKeys(p) ==
  {ProductKey(p)} \cup
  (IF ActionOf[p] = "watch" THEN {}
   ELSE {StoreKey(p)} \cup (IF ItemOf[p] = NoItem THEN {} ELSE {ItemKey(p)}))

\* normalizeState holds the store lane whatever the action is.
HoldKeys(p) == LockKeys(p) \cup {StoreKey(p)}

OwnedBy(l, p, o) == l.pid = p /\ l.owner = o

\* s with the locks on the keys ks deleted
Unlocked(s, ks) ==
  [s EXCEPT !.locks = [k \in Keys |-> IF k \in ks THEN Free ELSE @[k]]]

\* s with every lock of p deleted
LosesLocks(s, p) == Unlocked(s, {k \in Keys : s.locks[k].pid = p})

\* s with the locks p has on its own keys made permanent
Held(s, p) ==
  [s EXCEPT !.locks = [k \in Keys |->
     IF k \in LockKeys(p) /\ @[k].pid = p THEN [@[k] EXCEPT !.hold = TRUE] ELSE @[k]]]

\* Mutant: only the product lock is given back.
LaneGivenBackProductOnly(s, p, o) ==
  Unlocked(s, {k \in {ProductKey(p)} : OwnedBy(s.locks[k], p, o)})

\* s with the locks o has on the keys of p deleted
LaneGivenBack(s, p, o) ==
  Unlocked(s, {k \in LockKeys(p) : OwnedBy(s.locks[k], p, o)})

--------------------------------------------------------------------------------
(* normalizeState: what every read of the stored object does to it *)

\* The retailer may have changed the cart or the order of p.
NeedsHold(s, p) ==
  /\ p \notin s.done
  /\ \/ s.add[p].phase \in {"clicked", "confirmed"}
     \/ s.sub[p].phase \in MaybeSubmitted
     \/ s.wf[p].phase \in HeldWorkflowPhases

\* A workflow without an owner takes the Add's (normalizeWorkflow).
WorkflowOwner(s, p) ==
  IF s.wf[p].owner # Nobody THEN s.wf[p].owner ELSE s.add[p].owner

HoldOwner(s, p, cur) ==
  IF WorkflowOwner(s, p) # Nobody THEN WorkflowOwner(s, p)
  ELSE IF cur.owner # Nobody THEN cur.owner ELSE "recovered"

\* The lock on k once every product that needs it has asked for a hold
\* (ensureHeldLock, in any order: the outcome does not depend on it).
EnsuredLock(s, k, cur) ==
  LET needers == {p \in Products : NeedsHold(s, p) /\ k \in HoldKeys(p)}
      holders == needers \cup (IF cur.hold THEN {cur.pid} ELSE {})
      batch == /\ k[1] = "store" /\ needers \cap Members # {}
               /\ holders \subseteq Members \cup {"combined"}
      sole == CHOOSE p \in holders : TRUE
  IN IF needers = {} THEN cur
     ELSE IF batch THEN BatchLock(cur.members \cup (holders \ {"combined"}), cur.claim)
     ELSE IF holders # {sole} THEN ConflictLock
     ELSE IF cur.hold THEN cur
     ELSE Lock(sole, HoldOwner(s, sole, cur), TRUE)

\* A combined lock goes when every member has completed.
BatchFinished(s, l) == l.members # {} /\ l.members \subseteq s.done

\* Mutant: the holds are not re-created.
NormalLockWithoutHolds(s, k) ==
  LET cur == IF s.locks[k].pid \in s.done THEN Free ELSE s.locks[k]
  IN IF BatchFinished(s, cur) THEN Free ELSE cur

NormalLock(s, k) ==
  LET cur == IF s.locks[k].pid \in s.done THEN Free ELSE s.locks[k]
      ensured == EnsuredLock(s, k, cur)
  IN IF BatchFinished(s, ensured) THEN Free ELSE ensured

NormalizeState(stored, run) ==
  LET s == IF stored.run = run THEN stored ELSE CreateState(run)
  IN [s EXCEPT
       !.locks = [k \in Keys |-> NormalLock(s, k)],
       !.wf = [p \in Products |->
                Workflow(IF p \in s.done THEN "confirmed" ELSE @[p].phase,
                         WorkflowOwner(s, p), @[p].hash)],
       !.itemDone = @ \cup {ItemOf[p] : p \in {q \in s.done :
                              ActionOf[q] # "watch" /\ ItemOf[q] # NoItem}}]

\* Mutant: the lease takes a clicked or confirmed Add with it.
LapseLosesReceipt(s, p) ==
  LET free == [k \in Keys |-> s.locks[k].pid = p /\ ~s.locks[k].hold]
  IN [s EXCEPT !.locks = [k \in Keys |-> IF free[k] THEN Free ELSE @[k]],
               !.add[p] = IdleAdd,
               !.wf[p] = Workflow("active", Nobody, NoHash)]

\* The pre-click lease of p has run out: its non-held locks are gone and a
\* reservation is back to idle.  A held lock never lapses.
Lapse(s, p) ==
  LET cut == [s EXCEPT !.locks = [k \in Keys |->
                 IF @[k].pid = p /\ ~@[k].hold THEN Free
                 ELSE IF @[k].claim.pid = p THEN [@[k] EXCEPT !.claim = NoClaim]
                 ELSE @[k]]]
  IN IF s.add[p].phase # "reserved" THEN cut
     ELSE [cut EXCEPT
            !.add[p] = IdleAdd,
            !.wf[p] = IF @.phase = "active"
                      THEN Workflow("active", Nobody, NoHash) ELSE @]

--------------------------------------------------------------------------------
(* claim, release *)

ItemCompleted(s, p) ==
  ActionOf[p] # "watch" /\ ItemOf[p] # NoItem /\ ItemOf[p] \in s.itemDone

\* Mutant: the item's completion is not looked at.
ClaimableRecordIgnoringItem(s, p, o) ==
  /\ p \notin s.done
  /\ s.sub[p].phase \notin MaybeSubmitted
  /\ s.wf[p].phase \in {"active", "confirmed", "cart-confirmed"}
  /\ s.add[p].phase \notin {"reserved", "clicked"}
  /\ s.add[p].phase = "confirmed" => s.add[p].owner = o

\* The record of p itself allows a claim by o.
ClaimableRecord(s, p, o) ==
  /\ p \notin s.done
  /\ ~ItemCompleted(s, p)
  /\ s.sub[p].phase \notin MaybeSubmitted
  /\ s.wf[p].phase \in {"active", "confirmed", "cart-confirmed"}
  /\ s.add[p].phase \notin {"reserved", "clicked"}
  /\ s.add[p].phase = "confirmed" => s.add[p].owner = o

\* A held lock of p that its record does not explain still blocks p.
Orphaned(s, p, l) == l.hold /\ s.add[p].phase = "idle" /\ s.wf[p].phase = "active"

\* Mutant: the store lane of another mission does not block.
BlocksIgnoringStore(s, k, p, o) ==
  LET l == s.locks[k]
  IN k[1] # "store" /\ l # Free /\ (~OwnedBy(l, p, o) \/ Orphaned(s, p, l))

Blocks(s, k, p, o) ==
  LET l == s.locks[k]
  IN IF l.members # {}
     THEN p \notin Members \/ l.claim \notin {NoClaim, [pid |-> p, owner |-> o]}
     ELSE l # Free /\ (~OwnedBy(l, p, o) \/ Orphaned(s, p, l))

CanClaim(s, p, o) ==
  ClaimableRecord(s, p, o) /\ \A k \in LockKeys(p) : ~Blocks(s, k, p, o)

\* Inside a combined lane a claim is a sub-claim of the batch's lock.
ClaimedLock(l, p, o) ==
  IF l.members # {} THEN [l EXCEPT !.claim = [pid |-> p, owner |-> o]]
  ELSE Lock(p, o, FALSE)

Claim(s, p, o) ==
  [s EXCEPT
    !.locks = [k \in Keys |->
                 IF k \in LockKeys(p) THEN ClaimedLock(@[k], p, o) ELSE @[k]],
    !.wf[p] = IF s.add[p].phase = "idle" /\ @.phase = "active"
              THEN [@ EXCEPT !.owner = o] ELSE @]

CanRelease(s, p) ==
  /\ s.sub[p].phase \notin MaybeSubmitted
  /\ s.wf[p].phase \notin HeldWorkflowPhases
  /\ s.add[p].phase \notin {"clicked", "confirmed"}

Release(s, p, o) == Unlocked(s, {k \in Keys : OwnedBy(s.locks[k], p, o)})

--------------------------------------------------------------------------------
(* The Add: reserved before the click, clicked, confirmed in the cart *)

\* Mutant: a combined lane counts as owned by each of its members.
OwnsLaneOrBatch(s, p, o) ==
  \A k \in LockKeys(p) : OwnedBy(s.locks[k], p, o) \/ p \in s.locks[k].members

OwnsLane(s, p, o) == \A k \in LockKeys(p) : OwnedBy(s.locks[k], p, o)

CanBeginAddAction(s, p, o) == s.add[p].phase = "idle" /\ OwnsLane(s, p, o)

BeginAddAction(s, p, o) ==
  [s EXCEPT !.add[p] = [phase |-> "reserved", owner |-> o],
            !.wf[p] = Workflow("active", o, NoHash)]

\* The effect of an authorization is only the renewed lease.
CanAuthorizeAddClick(s, p, o) ==
  /\ p \notin s.done
  /\ s.add[p] = [phase |-> "reserved", owner |-> o]
  /\ OwnsLane(s, p, o)
  /\ \A k \in LockKeys(p) : ~s.locks[k].hold

CanMarkAddAction(s, p, o, outcome) ==
  /\ s.add[p].owner \in {Nobody, o}
  /\ outcome = "clicked" => s.add[p].phase = "reserved"
  /\ outcome = "confirmed" => s.add[p].phase = "clicked"
  /\ outcome = "canceled" => s.add[p].phase # "clicked"

\* Mutant: a failed Add also forgets the submission.
MarkAddActionForgetsSubmission(s, p, o, outcome) ==
  CASE outcome = "clicked" ->
         Held([s EXCEPT !.add[p].phase = "clicked"], p)
    [] outcome = "confirmed" ->
         Held([s EXCEPT !.add[p].phase = "confirmed",
                        !.wf[p] = Workflow("cart-confirmed", o, NoHash)], p)
    [] outcome \in {"canceled", "failed"} ->
         LaneGivenBack([s EXCEPT !.add[p] = IdleAdd, !.sub[p] = IdleSubmission,
                                 !.wf[p] = Workflow("active", Nobody, NoHash)], p, o)

MarkAddAction(s, p, o, outcome) ==
  CASE outcome = "clicked" ->
         Held([s EXCEPT !.add[p].phase = "clicked"], p)
    [] outcome = "confirmed" ->
         Held([s EXCEPT !.add[p].phase = "confirmed",
                        !.wf[p] = Workflow("cart-confirmed", o, NoHash)], p)
    [] outcome \in {"canceled", "failed"} ->
         LaneGivenBack([s EXCEPT !.add[p] = IdleAdd,
                                 !.wf[p] = Workflow("active", Nobody, NoHash)], p, o)

--------------------------------------------------------------------------------
(* The submission: intent before the click, uncertain after it *)

CanBeginSubmission(s, p, o) ==
  /\ ActionOf[p] = "checkout"
  /\ p \notin s.done
  /\ OwnsLane(s, p, o)
  /\ s.sub[p].phase \notin MaybeSubmitted

BeginSubmission(s, p, h) ==
  Held([s EXCEPT !.sub[p] = [phase |-> "intent", hash |-> h]], p)

CanMarkSubmission(s, p, o, outcome) ==
  /\ \A k \in LockKeys(p) : s.locks[k] = Free \/ OwnedBy(s.locks[k], p, o)
  /\ outcome = "clicked" => s.sub[p].phase = "intent"

MarkSubmission(s, p, o, outcome) ==
  CASE outcome = "clicked" ->
         Held([s EXCEPT !.sub[p].phase = "uncertain",
                        !.wf[p] = Workflow("submission-uncertain", o, s.sub[p].hash)], p)
    [] outcome = "failed" /\ s.add[p].phase = "confirmed" ->
         Held([s EXCEPT !.sub[p] = IdleSubmission,
                        !.wf[p] = Workflow("cart-confirmed", o, NoHash)], p)
    [] outcome = "failed" /\ s.add[p].phase # "confirmed" ->
         LosesLocks([s EXCEPT
                      !.sub[p] = [phase |-> "explicitly-failed", hash |-> NoHash],
                      !.wf[p] = Workflow("explicitly-failed", o, NoHash)], p)
    [] outcome = "canceled" ->
         LosesLocks([s EXCEPT !.sub[p] = IdleSubmission,
                              !.wf[p] = Workflow("active", o, NoHash)], p)

--------------------------------------------------------------------------------
(* The review hand-off to the operator *)

ReviewReady(s, p, h) ==
  s.wf[p].phase = "awaiting-manual-outcome" /\ s.wf[p].hash = h

\* A repeated call for the same evidence is answered ok without an effect.
CanBeginManualReview(s, p, o) ==
  /\ ActionOf[p] = "review"
  /\ p \notin s.done
  /\ s.wf[p].phase = "cart-confirmed"
  /\ OwnsLane(s, p, o)

BeginManualReview(s, p, o, h) ==
  Held([s EXCEPT !.wf[p] = Workflow("awaiting-manual-outcome", o, h)], p)

CanMarkManualSubmit(s, p, o, h) ==
  /\ ActionOf[p] = "review"
  /\ s.wf[p].phase = "awaiting-manual-outcome"
  /\ s.wf[p].owner \in {Nobody, o}
  /\ s.wf[p].hash \in {NoHash, h}

MarkManualSubmit(s, p) == [s EXCEPT !.wf[p].phase = "manual-submit-observed"]

CanResolve(s, p, o) ==
  /\ p \notin s.done
  /\ NeedsHold(s, p)
  /\ OwnsLane(s, p, o)
  /\ {s.wf[p].owner, s.add[p].owner} \subseteq {Nobody, o}

\* The operator has checked that no order exists and abandons the mission.
Resolve(s, p, o) ==
  LaneGivenBack([s EXCEPT !.wf[p] = Workflow("abandoned", "operator", NoHash),
                          !.sub[p] = [phase |-> "abandoned", hash |-> NoHash],
                          !.add[p] = IdleAdd], p, o)

--------------------------------------------------------------------------------
(* Completion *)

CanComplete(s, p) ==
  /\ p \notin s.done
  /\ ActionOf[p] = "checkout" => s.sub[p].phase \in MaybeSubmitted
  /\ ActionOf[p] = "review" =>
       s.wf[p].phase \in HeldWorkflowPhases \ {"cart-confirmed"}
  /\ ActionOf[p] = "cart" => s.add[p].phase = "confirmed"

\* Mutant: the Add of a completed mission stays.
MarkDoneKeepsAdd(s, p) ==
  [s EXCEPT !.done = @ \cup {p},
            !.itemDone = @ \cup (IF ActionOf[p] = "watch" THEN {} ELSE {ItemOf[p]} \ {NoItem}),
            !.wf[p].phase = "confirmed"]

MarkDone(s, p) ==
  [s EXCEPT !.done = @ \cup {p},
            !.itemDone = @ \cup (IF ActionOf[p] = "watch" THEN {} ELSE {ItemOf[p]} \ {NoItem}),
            !.wf[p].phase = "confirmed",
            !.add[p] = IdleAdd]

Complete(s, p) ==
  LET submitted == IF ActionOf[p] = "checkout"
                   THEN [s EXCEPT !.sub[p].phase = "confirmed"] ELSE s
  IN LosesLocks(MarkDone(submitted, p), p)

\* A combined member is closed out by its captain's confirmed submission.
CanCompleteMember(s, p, captain) ==
  /\ p \notin s.done
  /\ captain \in s.done
  /\ s.sub[captain].phase \in MaybeSubmitted \cup {"confirmed"}
  /\ s.add[p].phase = "confirmed"

CompleteMember(s, p) ==
  LosesLocks(MarkDone([s EXCEPT !.sub[p].phase = "confirmed"], p), p)

================================================================================
