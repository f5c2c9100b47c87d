--------------------------- MODULE PurchaseLane_proofs ---------------------------
(***************************************************************************)
(* The purchase lane is safe for every configuration: whatever messages    *)
(* the tabs send, in any order and with any configuration the desktop has  *)
(* served.  StateInv, an invariant of the stored state, is shown to        *)
(* survive normalizeState and every operation of the library; Guarded is   *)
(* what normalizeState establishes before a handler decides.               *)
(***************************************************************************)
EXTENDS PurchaseLane, TLAPS

--------------------------------------------------------------------------------
(* Types *)

\* The locks the library writes are locks.
LEMMA LockTypes ==
  /\ Free \in Locks /\ NoClaim \in Claims /\ ConflictLock \in Locks
  /\ \A p \in Holders, o \in OwnerIds, h \in BOOLEAN : Lock(p, o, h) \in Locks
  /\ \A ms \in SUBSET Holders, c \in Claims : BatchLock(ms, c) \in Locks
BY DEF Free, NoClaim, Locks, Claims, ConflictLock, Lock, BatchLock, Holders, OwnerIds, Nobody

\* A new run starts from a state.
LEMMA CreateType ==
  ASSUME NEW run \in Nat PROVE CreateState(run) \in AutomationStates
BY LockTypes DEF CreateState, AutomationStates, IdleAdd, IdleSubmission, Workflow,
  AddPhases, SubmissionPhases, WorkflowPhases, Hashes, NoHash, OwnerIds, Nobody

\* Replacing the locks of a state by locks gives a state.
LEMMA RelockType ==
  ASSUME NEW s \in AutomationStates, NEW locks \in [Keys -> Locks]
  PROVE  [s EXCEPT !.locks = locks] \in AutomationStates
BY DEF AutomationStates

\* Deleting locks, and making them permanent, gives a state.
LEMMA LocksTypes ==
  ASSUME NEW s \in AutomationStates, NEW p \in Products, NEW o \in Owners, NEW ks
  PROVE  /\ Unlocked(s, ks) \in AutomationStates
         /\ LosesLocks(s, p) \in AutomationStates
         /\ LaneGivenBack(s, p, o) \in AutomationStates
         /\ Release(s, p, o) \in AutomationStates
         /\ Held(s, p) \in AutomationStates
<1>1. ASSUME NEW ls PROVE Unlocked(s, ls) \in AutomationStates
  <2>. DEFINE locks == [k \in Keys |-> IF k \in ls THEN Free ELSE s.locks[k]]
  <2>1. locks \in [Keys -> Locks]
    BY LockTypes DEF AutomationStates
  <2>. QED BY <2>1, RelockType DEF Unlocked
<1>2. Held(s, p) \in AutomationStates
  <2>. DEFINE locks == [k \in Keys |->
         IF k \in LockKeys(p) /\ s.locks[k].pid = p
         THEN [s.locks[k] EXCEPT !.hold = TRUE] ELSE s.locks[k]]
  <2>1. ASSUME NEW l \in Locks PROVE [l EXCEPT !.hold = TRUE] \in Locks
    BY DEF Locks
  <2>2. s.locks \in [Keys -> Locks]
    BY DEF AutomationStates
  <2>3. locks \in [Keys -> Locks]
    BY <2>1, <2>2
  <2>. QED BY <2>3, RelockType DEF Held
<1>. QED BY <1>1, <1>2 DEF LosesLocks, LaneGivenBack, Release

Phases == [phase : AddPhases, owner : OwnerIds]
Submissions == [phase : SubmissionPhases, hash : Hashes]
Workflows == [phase : WorkflowPhases, owner : OwnerIds, hash : Hashes]

\* The records of a state have the types of its fields.
LEMMA FieldTypes ==
  ASSUME NEW s \in AutomationStates
  PROVE  /\ s.run \in Nat /\ s.locks \in [Keys -> Locks]
         /\ s.add \in [Products -> Phases] /\ s.sub \in [Products -> Submissions]
         /\ s.wf \in [Products -> Workflows]
         /\ s.done \in SUBSET Products /\ s.itemDone \in SUBSET Items
BY DEF AutomationStates, Phases, Submissions, Workflows

\* Rewriting the submission and the workflow of one product gives a state.
LEMMA RemarkType ==
  ASSUME NEW s \in AutomationStates, NEW p \in Products,
         NEW b \in Submissions, NEW w \in Workflows
  PROVE  [s EXCEPT !.sub[p] = b, !.wf[p] = w] \in AutomationStates
<1>1. [s.sub EXCEPT ![p] = b] \in [Products -> Submissions]
  BY FieldTypes
<1>2. [s.wf EXCEPT ![p] = w] \in [Products -> Workflows]
  BY FieldTypes
<1>. QED BY <1>1, <1>2 DEF AutomationStates, Submissions, Workflows

\* The receipts the library writes are well formed.
LEMMA ReceiptValues ==
  /\ IdleAdd \in Phases /\ IdleSubmission \in Submissions
  /\ \A phase \in WorkflowPhases, o \in OwnerIds, h \in Hashes :
       Workflow(phase, o, h) \in Workflows
  /\ Owners \subseteq OwnerIds /\ Nobody \in OwnerIds /\ "operator" \in OwnerIds
  /\ NoHash \in Hashes /\ EvidenceHashes \subseteq Hashes
BY DEF Phases, Submissions, Workflows, IdleAdd, IdleSubmission, Workflow, AddPhases,
  SubmissionPhases, OwnerIds, Hashes, Nobody, NoHash

\* Lapse gives a state.
LEMMA LapseType ==
  ASSUME NEW s \in AutomationStates, NEW p \in Products
  PROVE  Lapse(s, p) \in AutomationStates
<1>. DEFINE locks == [k \in Keys |->
       IF s.locks[k].pid = p /\ ~s.locks[k].hold THEN Free
       ELSE IF s.locks[k].claim.pid = p THEN [s.locks[k] EXCEPT !.claim = NoClaim]
       ELSE s.locks[k]]
<1>. DEFINE cut == [s EXCEPT !.locks = locks]
<1>1. locks \in [Keys -> Locks]
  <2>1. ASSUME NEW l \in Locks PROVE [l EXCEPT !.claim = NoClaim] \in Locks
    BY LockTypes DEF Locks
  <2>2. s.locks \in [Keys -> Locks]
    BY FieldTypes
  <2>. QED BY <2>1, <2>2, LockTypes
<1>2. cut \in AutomationStates /\ cut.wf = s.wf
  BY <1>1, RelockType DEF AutomationStates
<1>. HIDE DEF cut
<1>. DEFINE w == IF cut.wf[p].phase = "active"
                 THEN Workflow("active", Nobody, NoHash) ELSE cut.wf[p]
<1>3. w \in Workflows
  BY <1>2, FieldTypes, ReceiptValues DEF WorkflowPhases
<1>4. [cut EXCEPT !.add[p] = IdleAdd, !.wf[p] = w] \in AutomationStates
  BY <1>2, <1>3, ReceiptValues DEF AutomationStates, Phases, Workflows
<1>. QED BY <1>2, <1>4 DEF Lapse, cut, w

\* The operations on the Add give a state.
LEMMA AddTypes ==
  ASSUME NEW s \in AutomationStates, NEW p \in Products, NEW o \in Owners,
         NEW outcome \in {"clicked", "confirmed", "canceled", "failed"}
  PROVE  /\ BeginAddAction(s, p, o) \in AutomationStates
         /\ MarkAddAction(s, p, o, outcome) \in AutomationStates
<1>1. BeginAddAction(s, p, o) \in AutomationStates
  BY ReceiptValues DEF BeginAddAction, AutomationStates, AddPhases, Workflows, WorkflowPhases
<1>. DEFINE add(phase) == [s.add EXCEPT ![p].phase = phase]
<1>2. \A phase \in AddPhases : add(phase) \in [Products -> Phases]
  BY FieldTypes DEF Phases
<1>3. [s EXCEPT !.add[p].phase = "clicked"] \in AutomationStates
  BY <1>2 DEF AutomationStates, Phases, AddPhases
<1>5. [s EXCEPT !.add[p].phase = "confirmed",
                !.wf[p] = Workflow("cart-confirmed", o, NoHash)] \in AutomationStates
  <2>1. [s.wf EXCEPT ![p] = Workflow("cart-confirmed", o, NoHash)] \in [Products -> Workflows]
    BY FieldTypes, ReceiptValues DEF WorkflowPhases, HeldWorkflowPhases
  <2>. QED BY <1>2, <2>1 DEF AutomationStates, Phases, Workflows, AddPhases
<1>4. [s EXCEPT !.add[p] = IdleAdd,
                !.wf[p] = Workflow("active", Nobody, NoHash)] \in AutomationStates
  BY ReceiptValues DEF AutomationStates, Phases, Workflows, WorkflowPhases
<1>. QED BY <1>1, <1>3, <1>4, <1>5, LocksTypes DEF MarkAddAction

\* The receipts markSubmission writes.
Marked(s, p, o, outcome) ==
  IF outcome = "clicked"
  THEN [s EXCEPT !.sub[p] = [s.sub[p] EXCEPT !.phase = "uncertain"],
                 !.wf[p] = Workflow("submission-uncertain", o, s.sub[p].hash)]
  ELSE IF outcome = "canceled"
  THEN [s EXCEPT !.sub[p] = IdleSubmission, !.wf[p] = Workflow("active", o, NoHash)]
  ELSE IF s.add[p].phase = "confirmed"
  THEN [s EXCEPT !.sub[p] = IdleSubmission, !.wf[p] = Workflow("cart-confirmed", o, NoHash)]
  ELSE [s EXCEPT !.sub[p] = [phase |-> "explicitly-failed", hash |-> NoHash],
                 !.wf[p] = Workflow("explicitly-failed", o, NoHash)]

\* They give a state, and the locks are then made permanent or deleted.
LEMMA MarkedType ==
  ASSUME NEW s \in AutomationStates, NEW p \in Products, NEW o \in Owners,
         NEW outcome \in {"clicked", "canceled", "failed"}
  PROVE  /\ Marked(s, p, o, outcome) \in AutomationStates
         /\ MarkSubmission(s, p, o, outcome) \in
              {Held(Marked(s, p, o, outcome), p), LosesLocks(Marked(s, p, o, outcome), p)}
<1>1. s.sub[p] \in Submissions /\ s.sub[p].hash \in Hashes
  BY FieldTypes DEF Submissions
<1>2. [s.sub[p] EXCEPT !.phase = "uncertain"] \in Submissions
  BY <1>1 DEF Submissions, SubmissionPhases
<1>3. [phase |-> "explicitly-failed", hash |-> NoHash] \in Submissions
  BY ReceiptValues DEF Submissions, SubmissionPhases
<1>4. Workflow("submission-uncertain", o, s.sub[p].hash) \in Workflows
  BY <1>1, ReceiptValues DEF WorkflowPhases, HeldWorkflowPhases
<1>5. \A phase \in {"cart-confirmed", "explicitly-failed", "active"} :
        Workflow(phase, o, NoHash) \in Workflows
  BY ReceiptValues DEF WorkflowPhases, HeldWorkflowPhases, TerminalWorkflowPhases
<1>6. Marked(s, p, o, outcome) \in AutomationStates
  BY <1>2, <1>3, <1>4, <1>5, ReceiptValues, RemarkType DEF Marked
<1>7. CASE outcome = "clicked"
  BY <1>6, <1>7 DEF Marked, MarkSubmission
<1>8. CASE outcome = "canceled"
  BY <1>6, <1>8 DEF Marked, MarkSubmission
<1>9. CASE outcome = "failed"
  BY <1>6, <1>9 DEF Marked, MarkSubmission
<1>. QED BY <1>7, <1>8, <1>9

\* The operations on the submission give a state.
LEMMA SubmissionTypes ==
  ASSUME NEW s \in AutomationStates, NEW p \in Products, NEW o \in Owners,
         NEW h \in EvidenceHashes, NEW outcome \in {"clicked", "canceled", "failed"}
  PROVE  /\ [s EXCEPT !.sub[p] = [phase |-> "intent", hash |-> h]] \in AutomationStates
         /\ BeginSubmission(s, p, h) \in AutomationStates
         /\ MarkSubmission(s, p, o, outcome) \in AutomationStates
<1>1. [s EXCEPT !.sub[p] = [phase |-> "intent", hash |-> h]] \in AutomationStates
  <2>1. [phase |-> "intent", hash |-> h] \in Submissions
    BY ReceiptValues DEF Submissions, SubmissionPhases
  <2>. QED BY <2>1 DEF AutomationStates, Submissions
<1>2. BeginSubmission(s, p, h) \in AutomationStates
  BY <1>1, LocksTypes DEF BeginSubmission
<1>3. MarkSubmission(s, p, o, outcome) \in AutomationStates
  <2>. DEFINE u == Marked(s, p, o, outcome)
  <2>1. u \in AutomationStates /\ MarkSubmission(s, p, o, outcome) \in {Held(u, p), LosesLocks(u, p)}
    BY MarkedType
  <2>. HIDE DEF u
  <2>. QED BY <2>1, LocksTypes
<1>. QED BY <1>1, <1>2, <1>3

\* The operations of the manual review give a state.
LEMMA ReviewTypes ==
  ASSUME NEW s \in AutomationStates, NEW p \in Products, NEW o \in Owners,
         NEW h \in EvidenceHashes
  PROVE  /\ BeginManualReview(s, p, o, h) \in AutomationStates
         /\ MarkManualSubmit(s, p) \in AutomationStates
         /\ Resolve(s, p, o) \in AutomationStates
<1>1. \A w \in Workflows : [s.wf EXCEPT ![p] = w] \in [Products -> Workflows]
  BY FieldTypes
<1>2. BeginManualReview(s, p, o, h) \in AutomationStates
  <2>1. Workflow("awaiting-manual-outcome", o, h) \in Workflows
    BY ReceiptValues DEF WorkflowPhases, HeldWorkflowPhases
  <2>2. [s EXCEPT !.wf[p] = Workflow("awaiting-manual-outcome", o, h)] \in AutomationStates
    BY <1>1, <2>1 DEF AutomationStates, Workflows
  <2>. QED BY <2>2, LocksTypes DEF BeginManualReview
<1>3. MarkManualSubmit(s, p) \in AutomationStates
  <2>1. [s.wf[p] EXCEPT !.phase = "manual-submit-observed"] \in Workflows
    BY FieldTypes DEF Workflows, WorkflowPhases, HeldWorkflowPhases
  <2>. QED BY <1>1, <2>1 DEF AutomationStates, Workflows, MarkManualSubmit
<1>4. Resolve(s, p, o) \in AutomationStates
  <2>. DEFINE b == [phase |-> "abandoned", hash |-> NoHash]
              w == Workflow("abandoned", "operator", NoHash)
  <2>1. b \in Submissions
    BY ReceiptValues DEF Submissions, SubmissionPhases
  <2>2. w \in Workflows
    BY ReceiptValues DEF WorkflowPhases, TerminalWorkflowPhases
  <2>3. [s EXCEPT !.wf[p] = w, !.sub[p] = b, !.add[p] = IdleAdd] \in AutomationStates
    BY <2>1, <2>2, ReceiptValues DEF AutomationStates, Phases, Submissions, Workflows
  <2>. QED BY <2>3, LocksTypes DEF Resolve
<1>. QED BY <1>2, <1>3, <1>4

\* Completion gives a state.
LEMMA CompletionTypes ==
  ASSUME NEW s \in AutomationStates, NEW p \in Products
  PROVE  /\ MarkDone(s, p) \in AutomationStates
         /\ Complete(s, p) \in AutomationStates
         /\ CompleteMember(s, p) \in AutomationStates
<1>1. ASSUME NEW t \in AutomationStates PROVE MarkDone(t, p) \in AutomationStates
  <2>1. [t.wf[p] EXCEPT !.phase = "confirmed"] \in Workflows
    BY FieldTypes DEF Workflows, WorkflowPhases, TerminalWorkflowPhases
  <2>2. [t.wf EXCEPT ![p].phase = "confirmed"] \in [Products -> Workflows]
    BY <2>1, FieldTypes
  <2>3. [t.add EXCEPT ![p] = IdleAdd] \in [Products -> Phases]
    BY ReceiptValues, FieldTypes
  <2>4. t.done \cup {p} \in SUBSET Products
    BY FieldTypes
  <2>5. t.itemDone \cup (IF ActionOf[p] = "watch" THEN {} ELSE {ItemOf[p]} \ {NoItem})
          \in SUBSET Items
    BY FieldTypes, ConfigAssumption
  <2>. QED BY <2>2, <2>3, <2>4, <2>5 DEF MarkDone, AutomationStates, Phases, Workflows
<1>2. [s EXCEPT !.sub[p].phase = "confirmed"] \in AutomationStates
  <2>1. [s.sub[p] EXCEPT !.phase = "confirmed"] \in Submissions
    BY FieldTypes DEF Submissions, SubmissionPhases
  <2>. QED BY <2>1 DEF AutomationStates, Submissions
<1>. DEFINE submitted == IF ActionOf[p] = "checkout"
                         THEN [s EXCEPT !.sub[p].phase = "confirmed"] ELSE s
<1>3. submitted \in AutomationStates
  BY <1>2
<1>4. \A t \in AutomationStates : LosesLocks(MarkDone(t, p), p) \in AutomationStates
  <2>. SUFFICES ASSUME NEW t \in AutomationStates
                PROVE  LosesLocks(MarkDone(t, p), p) \in AutomationStates
    OBVIOUS
  <2>1. MarkDone(t, p) \in AutomationStates
    BY <1>1
  <2>. DEFINE u == MarkDone(t, p)
  <2>. HIDE DEF u
  <2>2. u \in AutomationStates
    BY <2>1 DEF u
  <2>3. Unlocked(u, {k \in Keys : u.locks[k].pid = p}) \in AutomationStates
    <3>. DEFINE locks == [k \in Keys |->
           IF k \in {j \in Keys : u.locks[j].pid = p} THEN Free ELSE u.locks[k]]
    <3>1. locks \in [Keys -> Locks]
      BY <2>2, FieldTypes, LockTypes
    <3>. QED BY <2>2, <3>1, RelockType DEF Unlocked
  <2>. QED BY <2>3 DEF LosesLocks, u
<1>. QED BY <1>1, <1>2, <1>3, <1>4 DEF Complete, CompleteMember

\* A claim gives a state.
LEMMA ClaimType ==
  ASSUME NEW s \in AutomationStates, NEW p \in Products, NEW o \in Owners
  PROVE  Claim(s, p, o) \in AutomationStates
<1>. DEFINE locks == [k \in Keys |->
       IF k \in LockKeys(p) THEN ClaimedLock(s.locks[k], p, o) ELSE s.locks[k]]
            w == IF s.add[p].phase = "idle" /\ s.wf[p].phase = "active"
                 THEN [s.wf[p] EXCEPT !.owner = o] ELSE s.wf[p]
<1>1. \A l \in Locks : ClaimedLock(l, p, o) \in Locks
  <2>1. [pid |-> p, owner |-> o] \in Claims
    BY ReceiptValues DEF Claims, Holders
  <2>2. \A l \in Locks : [l EXCEPT !.claim = [pid |-> p, owner |-> o]] \in Locks
    BY <2>1 DEF Locks
  <2>3. Lock(p, o, FALSE) \in Locks
    BY LockTypes, ReceiptValues DEF Holders
  <2>. QED BY <2>2, <2>3 DEF ClaimedLock
<1>2. locks \in [Keys -> Locks]
  BY <1>1, FieldTypes
<1>3. w \in Workflows
  BY FieldTypes, ReceiptValues DEF Workflows
<1>4. [s.wf EXCEPT ![p] = w] \in [Products -> Workflows]
  BY <1>3, FieldTypes
<1>5. [s EXCEPT !.locks = locks, !.wf[p] = w] \in AutomationStates
  BY <1>2, <1>4 DEF AutomationStates, Workflows
<1>. QED BY <1>5 DEF Claim

--------------------------------------------------------------------------------
(* normalizeState *)

\* What normalizeState does to a state of the run it is asked for.
Normalized(s) ==
  [s EXCEPT
    !.locks = [k \in Keys |-> NormalLock(s, k)],
    !.wf = [p \in Products |->
             Workflow(IF p \in s.done THEN "confirmed" ELSE s.wf[p].phase,
                      WorkflowOwner(s, p), s.wf[p].hash)],
    !.itemDone = s.itemDone \cup {ItemOf[p] : p \in {q \in s.done :
                           ActionOf[q] # "watch" /\ ItemOf[q] # NoItem}}]

\* It normalises the stored state of that run, or a new one.
LEMMA NormalizeCases ==
  ASSUME NEW s \in AutomationStates, NEW run \in Nat
  PROVE  \/ NormalizeState(s, run) = Normalized(s)
         \/ NormalizeState(s, run) = Normalized(CreateState(run))
BY DEF NormalizeState, Normalized

\* Ensuring the holds on a lock gives a lock.
LEMMA EnsuredType ==
  ASSUME NEW s \in AutomationStates, NEW k \in Keys, NEW cur \in Locks
  PROVE  EnsuredLock(s, k, cur) \in Locks
<1>. DEFINE needers == {p \in Products : NeedsHold(s, p) /\ k \in HoldKeys(p)}
            holders == needers \cup (IF cur.hold THEN {cur.pid} ELSE {})
            sole == CHOOSE p \in holders : TRUE
<1>1. cur.pid \in Holders /\ cur.owner \in OwnerIds /\ cur.hold \in BOOLEAN
        /\ cur.members \in SUBSET Holders /\ cur.claim \in Claims
  BY DEF Locks
<1>2. needers \subseteq Holders /\ holders \in SUBSET Holders
  BY <1>1 DEF Holders
<1>3. BatchLock(cur.members \cup (holders \ {"combined"}), cur.claim) \in Locks
  BY <1>1, <1>2, LockTypes
<1>4. ASSUME needers # {} PROVE sole \in holders
  <2>1. holders # {}
    BY <1>4
  <2>. QED BY <2>1
<1>5. ASSUME needers # {}, ~cur.hold PROVE sole \in Products
  <2>1. holders = needers
    BY <1>5
  <2>. QED BY <1>4, <1>5, <2>1
<1>6. ASSUME NEW p \in Products PROVE Lock(p, HoldOwner(s, p, cur), TRUE) \in Locks
  <2>1. WorkflowOwner(s, p) \in OwnerIds
    BY FieldTypes DEF WorkflowOwner, Workflows, Phases
  <2>2. HoldOwner(s, p, cur) \in OwnerIds
    BY <1>1, <2>1 DEF HoldOwner, OwnerIds
  <2>. QED BY <2>2, LockTypes DEF Holders
<1>. QED BY <1>3, <1>5, <1>6, LockTypes DEF EnsuredLock

\* Normalising gives a state.
LEMMA NormalizedType ==
  ASSUME NEW s \in AutomationStates PROVE Normalized(s) \in AutomationStates
<1>1. [k \in Keys |-> NormalLock(s, k)] \in [Keys -> Locks]
  <2>. SUFFICES ASSUME NEW k \in Keys PROVE NormalLock(s, k) \in Locks
    OBVIOUS
  <2>. DEFINE cur == IF s.locks[k].pid \in s.done THEN Free ELSE s.locks[k]
  <2>1. cur \in Locks
    BY FieldTypes, LockTypes
  <2>2. EnsuredLock(s, k, cur) \in Locks
    BY <2>1, EnsuredType
  <2>. QED BY <2>2, LockTypes DEF NormalLock
<1>2. ASSUME NEW p \in Products
      PROVE  Workflow(IF p \in s.done THEN "confirmed" ELSE s.wf[p].phase,
                      WorkflowOwner(s, p), s.wf[p].hash) \in Workflows
  <2>1. s.wf[p].phase \in WorkflowPhases /\ s.wf[p].hash \in Hashes
    BY FieldTypes DEF Workflows
  <2>2. WorkflowOwner(s, p) \in OwnerIds
    BY FieldTypes DEF WorkflowOwner, Workflows, Phases
  <2>3. "confirmed" \in WorkflowPhases
    BY DEF WorkflowPhases, TerminalWorkflowPhases
  <2>. QED BY <2>1, <2>2, <2>3, ReceiptValues
<1>3. s.itemDone \cup {ItemOf[p] : p \in {q \in s.done :
                           ActionOf[q] # "watch" /\ ItemOf[q] # NoItem}} \in SUBSET Items
  BY FieldTypes, ConfigAssumption
<1>. QED BY <1>1, <1>2, <1>3 DEF Normalized, AutomationStates, Workflows

\* normalizeState gives a state.
LEMMA NormalizeType ==
  ASSUME NEW s \in AutomationStates, NEW run \in Nat
  PROVE  NormalizeState(s, run) \in AutomationStates
BY NormalizeCases, NormalizedType, CreateType

--------------------------------------------------------------------------------
(* The invariant of the stored state *)

Settled(l) == l = Free \/ l.hold

Sealed(s) ==
  \A p \in s.done :
    /\ s.add[p] = IdleAdd
    /\ s.sub[p].phase \notin MaybeSubmitted
    /\ \A k \in Keys : s.locks[k].pid # p

\* Only automatic checkouts submit.
OnlyCheckoutsSubmit(s) ==
  \A p \in Products : s.sub[p].phase \in MaybeSubmitted => ActionOf[p] = "checkout"

Exclusive(s) ==
  \A p, q \in Products :
    Rivals(p, q) => ~({s.sub[p].phase, s.sub[q].phase} \subseteq MaybeSubmitted)

CountsForItem(p) == ActionOf[p] # "watch" /\ ItemOf[p] # NoItem

ItemsRecorded(s) ==
  \A p \in s.done : CountsForItem(p) => ItemOf[p] \in s.itemDone

\* No pre-click lease is left on a completed item.
ItemLocksSettled(s) == \A i \in s.itemDone : Settled(s.locks[<<"item", i>>])

StateInv(s) ==
  /\ s \in AutomationStates
  /\ Sealed(s) /\ OnlyCheckoutsSubmit(s) /\ Exclusive(s)
  /\ ItemsRecorded(s) /\ ItemLocksSettled(s)

\* Locks only go away or stay with their product, and no settled one is
\* replaced by a lease.
LocksShrink(s, t) ==
  \A k \in Keys :
    /\ t.locks[k].pid \in {s.locks[k].pid, "none"}
    /\ Settled(s.locks[k]) => Settled(t.locks[k])

SameButLocks(s, t) ==
  /\ t.add = s.add /\ t.sub = s.sub /\ t.wf = s.wf
  /\ t.done = s.done /\ t.itemDone = s.itemDone

\* Deleting locks and making them permanent only shrinks the locks.
LEMMA LocksShrinking ==
  ASSUME NEW s \in AutomationStates, NEW p \in Products, NEW o \in Owners
  PROVE  \A t \in {LosesLocks(s, p), LaneGivenBack(s, p, o), Release(s, p, o), Held(s, p)} :
           LocksShrink(s, t) /\ SameButLocks(s, t)
<1>1. ASSUME NEW ks PROVE LocksShrink(s, Unlocked(s, ks)) /\ SameButLocks(s, Unlocked(s, ks))
  <2>. DEFINE u == Unlocked(s, ks)
  <2>1. \A k \in Keys : u.locks[k] = IF k \in ks THEN Free ELSE s.locks[k]
    BY DEF Unlocked, AutomationStates
  <2>2. LocksShrink(s, u)
    <3>1. Free.pid = "none" /\ Settled(Free)
      BY DEF Free, Settled
    <3>. HIDE DEF u
    <3>. QED BY <2>1, <3>1 DEF LocksShrink
  <2>3. SameButLocks(s, u)
    BY DEF SameButLocks, Unlocked, AutomationStates
  <2>. QED BY <2>2, <2>3
<1>2. LocksShrink(s, Held(s, p)) /\ SameButLocks(s, Held(s, p))
  <2>. DEFINE u == Held(s, p)
  <2>1. \A k \in Keys : u.locks[k] =
          IF k \in LockKeys(p) /\ s.locks[k].pid = p
          THEN [s.locks[k] EXCEPT !.hold = TRUE] ELSE s.locks[k]
    BY DEF Held, AutomationStates
  <2>2. \A l \in Locks : [l EXCEPT !.hold = TRUE].pid = l.pid /\ [l EXCEPT !.hold = TRUE].hold
    BY DEF Locks
  <2>3. LocksShrink(s, u)
    <3>. SUFFICES ASSUME NEW k \in Keys
                  PROVE  /\ u.locks[k].pid \in {s.locks[k].pid, "none"}
                         /\ Settled(s.locks[k]) => Settled(u.locks[k])
      BY DEF LocksShrink
    <3>1. s.locks[k] \in Locks
      BY FieldTypes
    <3>2. CASE k \in LockKeys(p) /\ s.locks[k].pid = p
      <4>1. u.locks[k] = [s.locks[k] EXCEPT !.hold = TRUE]
        BY <2>1, <3>2
      <4>2. u.locks[k].pid = s.locks[k].pid /\ u.locks[k].hold
        BY <2>2, <3>1, <4>1
      <4>. QED BY <4>2 DEF Settled
    <3>3. CASE ~(k \in LockKeys(p) /\ s.locks[k].pid = p)
      BY <2>1, <3>3
    <3>. QED BY <3>2, <3>3
  <2>4. SameButLocks(s, u)
    BY DEF SameButLocks, Held, AutomationStates
  <2>. QED BY <2>3, <2>4
<1>. QED BY <1>1, <1>2 DEF LosesLocks, LaneGivenBack, Release

\* A step that takes no lock, completes nothing and starts no submission
\* keeps the invariant.
LEMMA QuietStep ==
  ASSUME NEW s, StateInv(s), NEW t \in AutomationStates, LocksShrink(s, t),
         t.done = s.done, t.itemDone = s.itemDone,
         \A p \in s.done : t.add[p] = IdleAdd,
         \A p \in Products : t.sub[p].phase \in MaybeSubmitted => s.sub[p].phase \in MaybeSubmitted
  PROVE  StateInv(t)
<1>1. s \in AutomationStates /\ s.done \subseteq Products /\ s.itemDone \subseteq Items
  BY FieldTypes DEF StateInv
<1>2. Sealed(t)
  BY <1>1, ReservedNamesAssumption DEF StateInv, Sealed, LocksShrink
<1>3. OnlyCheckoutsSubmit(t)
  BY DEF StateInv, OnlyCheckoutsSubmit
<1>4. Exclusive(t)
  BY DEF StateInv, Exclusive
<1>5. ItemsRecorded(t)
  BY DEF StateInv, ItemsRecorded
<1>6. ItemLocksSettled(t)
  <2>1. \A i \in Items : <<"item", i>> \in Keys
    BY DEF Keys
  <2>. QED BY <1>1, <2>1 DEF StateInv, ItemLocksSettled, LocksShrink
<1>. QED BY <1>2, <1>3, <1>4, <1>5, <1>6 DEF StateInv

\* Rewriting receipts first and shrinking the locks then is a quiet step.
LEMMA QuietOperation ==
  ASSUME NEW s, StateInv(s), NEW u \in AutomationStates, NEW t \in AutomationStates,
         u.locks = s.locks, u.done = s.done, u.itemDone = s.itemDone,
         LocksShrink(u, t), SameButLocks(u, t),
         \A p \in s.done : u.add[p] = IdleAdd,
         \A p \in Products : u.sub[p].phase \in MaybeSubmitted => s.sub[p].phase \in MaybeSubmitted
  PROVE  StateInv(t)
<1>1. LocksShrink(s, t)
  BY DEF LocksShrink
<1>. QED BY <1>1, QuietStep DEF SameButLocks

\* The same with the locks left alone.
LEMMA QuietReceipts ==
  ASSUME NEW s, StateInv(s), NEW t \in AutomationStates,
         t.locks = s.locks, t.done = s.done, t.itemDone = s.itemDone,
         \A p \in s.done : t.add[p] = IdleAdd,
         \A p \in Products : t.sub[p].phase \in MaybeSubmitted => s.sub[p].phase \in MaybeSubmitted
  PROVE  StateInv(t)
<1>1. LocksShrink(s, t)
  BY DEF LocksShrink
<1>. QED BY <1>1, QuietStep

\* The owner of a lane is not done: a completed product holds no lock.
LEMMA OwnerNotDone ==
  ASSUME NEW s, StateInv(s), NEW p \in Products, NEW o, OwnsLane(s, p, o)
  PROVE  p \notin s.done
<1>1. ProductKey(p) \in LockKeys(p) /\ ProductKey(p) \in Keys
  BY DEF LockKeys, Keys, ProductKey
<1>. QED BY <1>1 DEF StateInv, Sealed, OwnsLane, OwnedBy

\* The lease, the release and the hand-overs of the manual review are quiet.
LEMMA QuietHandlers ==
  ASSUME NEW s, StateInv(s), NEW p \in Products, NEW o \in Owners, NEW h \in EvidenceHashes
  PROVE  /\ StateInv(Release(s, p, o))
         /\ StateInv(BeginManualReview(s, p, o, h))
         /\ StateInv(MarkManualSubmit(s, p))
<1>1. s \in AutomationStates /\ \A q \in s.done : s.add[q] = IdleAdd
  BY DEF StateInv, Sealed
<1>2. StateInv(Release(s, p, o))
  BY <1>1, LocksShrinking, LocksTypes, QuietOperation
<1>3. StateInv(BeginManualReview(s, p, o, h))
  <2>. DEFINE u == [s EXCEPT !.wf[p] = Workflow("awaiting-manual-outcome", o, h)]
  <2>1. u \in AutomationStates
    <3>1. Workflow("awaiting-manual-outcome", o, h) \in Workflows
      BY ReceiptValues DEF WorkflowPhases, HeldWorkflowPhases
    <3>. QED BY <1>1, <3>1 DEF AutomationStates, Workflows
  <2>2. u.locks = s.locks /\ u.add = s.add /\ u.sub = s.sub /\ u.done = s.done
          /\ u.itemDone = s.itemDone
    BY <1>1 DEF AutomationStates
  <2>3. BeginManualReview(s, p, o, h) = Held(u, p)
    BY DEF BeginManualReview
  <2>. HIDE DEF u
  <2>. QED BY <1>1, <2>1, <2>2, <2>3, LocksShrinking, LocksTypes, QuietOperation
<1>4. StateInv(MarkManualSubmit(s, p))
  <2>. DEFINE t == MarkManualSubmit(s, p)
  <2>1. t.locks = s.locks /\ t.add = s.add /\ t.sub = s.sub /\ t.done = s.done
          /\ t.itemDone = s.itemDone
    BY <1>1 DEF AutomationStates, MarkManualSubmit
  <2>. HIDE DEF t
  <2>2. t \in AutomationStates
    BY <1>1, ReviewTypes DEF t
  <2>3. StateInv(t)
    BY <1>1, <2>1, <2>2, QuietReceipts
  <2>. QED BY <2>3 DEF t
<1>. QED BY <1>2, <1>3, <1>4

\* The operator's resolution is quiet.
LEMMA ResolveInv ==
  ASSUME NEW s, StateInv(s), NEW p \in Products, NEW o \in Owners
  PROVE  StateInv(Resolve(s, p, o))
<1>1. s \in AutomationStates /\ \A q \in s.done : s.add[q] = IdleAdd
  BY DEF StateInv, Sealed
<1>. DEFINE u == [s EXCEPT !.wf[p] = Workflow("abandoned", "operator", NoHash),
                           !.sub[p] = [phase |-> "abandoned", hash |-> NoHash],
                           !.add[p] = IdleAdd]
<1>2. u \in AutomationStates
  <2>1. [phase |-> "abandoned", hash |-> NoHash] \in Submissions
    BY ReceiptValues DEF Submissions, SubmissionPhases
  <2>2. Workflow("abandoned", "operator", NoHash) \in Workflows
    BY ReceiptValues DEF WorkflowPhases, TerminalWorkflowPhases
  <2>. QED BY <1>1, <2>1, <2>2, ReceiptValues DEF AutomationStates, Phases, Submissions, Workflows
<1>3. u.locks = s.locks /\ u.done = s.done /\ u.itemDone = s.itemDone
  BY <1>1 DEF AutomationStates
<1>4. \A q \in Products : u.add[q] = IF q = p THEN IdleAdd ELSE s.add[q]
  BY <1>1 DEF AutomationStates
<1>5. \A q \in Products : u.sub[q].phase = IF q = p THEN "abandoned" ELSE s.sub[q].phase
  BY <1>1 DEF AutomationStates
<1>6. Resolve(s, p, o) = LaneGivenBack(u, p, o)
  BY DEF Resolve
<1>7. s.done \subseteq Products
  BY <1>1, FieldTypes
<1>. HIDE DEF u
<1>8. LocksShrink(u, LaneGivenBack(u, p, o)) /\ SameButLocks(u, LaneGivenBack(u, p, o))
  BY <1>2, LocksShrinking
<1>9. LaneGivenBack(u, p, o) \in AutomationStates
  BY <1>2, LocksTypes
<1>10. \A q \in Products : u.sub[q].phase \in MaybeSubmitted => s.sub[q].phase \in MaybeSubmitted
  BY <1>5 DEF MaybeSubmitted
<1>11. ASSUME NEW q \in s.done PROVE u.add[q] = IdleAdd
  <2>1. q \in Products
    BY <1>7
  <2>2. u.add[q] = IdleAdd \/ u.add[q] = s.add[q]
    BY <1>4, <2>1
  <2>3. s.add[q] = IdleAdd
    BY <1>1
  <2>. QED BY <2>2, <2>3
<1>. QED BY <1>2, <1>3, <1>6, <1>8, <1>9, <1>10, <1>11, QuietOperation

\* The lapse of a pre-click lease is quiet.
LEMMA QuietLapse ==
  ASSUME NEW s, StateInv(s), NEW p \in Products PROVE StateInv(Lapse(s, p))
<1>. DEFINE t == Lapse(s, p)
<1>1. s \in AutomationStates /\ s.done \subseteq Products
  BY FieldTypes DEF StateInv
<1>2. t \in AutomationStates
  BY <1>1, LapseType
<1>3. \A k \in Keys : t.locks[k] =
        IF s.locks[k].pid = p /\ ~s.locks[k].hold THEN Free
        ELSE IF s.locks[k].claim.pid = p THEN [s.locks[k] EXCEPT !.claim = NoClaim]
        ELSE s.locks[k]
  BY <1>1 DEF Lapse, AutomationStates
<1>4. t.sub = s.sub /\ t.done = s.done /\ t.itemDone = s.itemDone
  BY <1>1 DEF Lapse, AutomationStates
<1>5. \A q \in Products : t.add[q] = s.add[q] \/ t.add[q] = IdleAdd
  BY <1>1 DEF Lapse, AutomationStates
<1>6. LocksShrink(s, t)
  <2>. HIDE DEF t
  <2>. SUFFICES ASSUME NEW k \in Keys
                PROVE  /\ t.locks[k].pid \in {s.locks[k].pid, "none"}
                       /\ Settled(s.locks[k]) => Settled(t.locks[k])
    BY DEF LocksShrink
  <2>1. s.locks[k] \in Locks
    BY <1>1, FieldTypes
  <2>2. Free.pid = "none" /\ Settled(Free) /\ Free.claim.pid = "none" /\ p # "none"
    BY ReservedNamesAssumption DEF Free, NoClaim, Settled
  <2>3. \A l \in Locks : /\ [l EXCEPT !.claim = NoClaim].pid = l.pid
                         /\ [l EXCEPT !.claim = NoClaim].hold = l.hold
    BY DEF Locks
  <2>. DEFINE cut == [s.locks[k] EXCEPT !.claim = NoClaim]
  <2>4. cut.pid = s.locks[k].pid /\ cut.hold = s.locks[k].hold
    BY <2>1, <2>3
  <2>5. CASE s.locks[k].pid = p /\ ~s.locks[k].hold
    BY <1>3, <2>2, <2>5
  <2>6. CASE ~(s.locks[k].pid = p /\ ~s.locks[k].hold) /\ s.locks[k].claim.pid = p
    <3>1. t.locks[k] = cut /\ s.locks[k] # Free
      BY <1>3, <2>2, <2>6
    <3>. HIDE DEF cut
    <3>. QED BY <3>1, <2>4 DEF Settled
  <2>7. CASE ~(s.locks[k].pid = p /\ ~s.locks[k].hold) /\ s.locks[k].claim.pid # p
    BY <1>3, <2>7
  <2>. QED BY <2>5, <2>6, <2>7
<1>. HIDE DEF t
<1>7. ASSUME NEW q \in s.done PROVE t.add[q] = IdleAdd
  BY <1>1, <1>5 DEF StateInv, Sealed
<1>8. StateInv(t)
  BY <1>2, <1>4, <1>6, <1>7, QuietStep
<1>. QED BY <1>8 DEF t

\* Reserving and marking an Add is quiet.
LEMMA QuietAdd ==
  ASSUME NEW s, StateInv(s), NEW p \in Products, NEW o \in Owners,
         NEW outcome \in {"clicked", "confirmed", "canceled", "failed"}
  PROVE  /\ CanBeginAddAction(s, p, o) => StateInv(BeginAddAction(s, p, o))
         /\ CanMarkAddAction(s, p, o, outcome) => StateInv(MarkAddAction(s, p, o, outcome))
<1>1. s \in AutomationStates /\ s.done \subseteq Products /\ \A q \in s.done : s.add[q] = IdleAdd
  BY FieldTypes DEF StateInv, Sealed
<1>2. ASSUME CanBeginAddAction(s, p, o) PROVE StateInv(BeginAddAction(s, p, o))
  <2>. DEFINE t == BeginAddAction(s, p, o)
  <2>1. t.locks = s.locks /\ t.sub = s.sub /\ t.done = s.done /\ t.itemDone = s.itemDone
    BY <1>1 DEF BeginAddAction, AutomationStates
  <2>2. \A q \in Products : q # p => t.add[q] = s.add[q]
    BY <1>1 DEF BeginAddAction, AutomationStates
  <2>3. p \notin s.done
    BY <1>2, OwnerNotDone DEF CanBeginAddAction
  <2>4. t \in AutomationStates
    BY <1>1, AddTypes
  <2>. HIDE DEF t
  <2>5. ASSUME NEW q \in s.done PROVE t.add[q] = IdleAdd
    BY <1>1, <2>2, <2>3
  <2>6. StateInv(t)
    BY <2>1, <2>4, <2>5, QuietReceipts
  <2>. QED BY <2>6 DEF t
<1>3. ASSUME CanMarkAddAction(s, p, o, outcome), outcome \in {"clicked", "confirmed"}
      PROVE  StateInv(MarkAddAction(s, p, o, outcome))
  <2>. DEFINE u == IF outcome = "clicked" THEN [s EXCEPT !.add[p].phase = "clicked"]
                   ELSE [s EXCEPT !.add[p].phase = "confirmed",
                                  !.wf[p] = Workflow("cart-confirmed", o, NoHash)]
  <2>1. MarkAddAction(s, p, o, outcome) = Held(u, p)
    BY <1>3 DEF MarkAddAction
  <2>2. u.locks = s.locks /\ u.sub = s.sub /\ u.done = s.done /\ u.itemDone = s.itemDone
    BY <1>1 DEF AutomationStates
  <2>3. \A q \in Products : q # p => u.add[q] = s.add[q]
    BY <1>1 DEF AutomationStates
  <2>4. u \in AutomationStates
    <3>1. \A phase \in AddPhases : [s.add EXCEPT ![p].phase = phase] \in [Products -> Phases]
      BY <1>1, FieldTypes DEF Phases
    <3>2. [s EXCEPT !.add[p].phase = "clicked"] \in AutomationStates
      BY <1>1, <3>1 DEF AutomationStates, Phases, AddPhases
    <3>3. [s.wf EXCEPT ![p] = Workflow("cart-confirmed", o, NoHash)] \in [Products -> Workflows]
      BY <1>1, FieldTypes, ReceiptValues DEF WorkflowPhases, HeldWorkflowPhases
    <3>4. [s EXCEPT !.add[p].phase = "confirmed",
                    !.wf[p] = Workflow("cart-confirmed", o, NoHash)] \in AutomationStates
      BY <1>1, <3>1, <3>3 DEF AutomationStates, Phases, Workflows, AddPhases
    <3>. QED BY <3>2, <3>4
  <2>5. s.add[p] # IdleAdd
    BY <1>3 DEF CanMarkAddAction, IdleAdd
  <2>. HIDE DEF u
  <2>6. ASSUME NEW q \in s.done PROVE u.add[q] = IdleAdd
    BY <1>1, <2>3, <2>5
  <2>7. LocksShrink(u, Held(u, p)) /\ SameButLocks(u, Held(u, p)) /\ Held(u, p) \in AutomationStates
    BY <2>4, LocksShrinking, LocksTypes
  <2>. QED BY <2>1, <2>2, <2>4, <2>6, <2>7, QuietOperation
<1>4. ASSUME outcome \in {"canceled", "failed"}
      PROVE  StateInv(MarkAddAction(s, p, o, outcome))
  <2>. DEFINE u == [s EXCEPT !.add[p] = IdleAdd, !.wf[p] = Workflow("active", Nobody, NoHash)]
  <2>1. MarkAddAction(s, p, o, outcome) = LaneGivenBack(u, p, o)
    BY <1>4 DEF MarkAddAction
  <2>2. u.locks = s.locks /\ u.sub = s.sub /\ u.done = s.done /\ u.itemDone = s.itemDone
    BY <1>1 DEF AutomationStates
  <2>3. \A q \in Products : u.add[q] = s.add[q] \/ u.add[q] = IdleAdd
    BY <1>1 DEF AutomationStates
  <2>4. u \in AutomationStates
    BY <1>1, ReceiptValues DEF AutomationStates, Phases, Workflows, WorkflowPhases
  <2>. HIDE DEF u
  <2>5. ASSUME NEW q \in s.done PROVE u.add[q] = IdleAdd
    BY <1>1, <2>3
  <2>6. /\ LocksShrink(u, LaneGivenBack(u, p, o)) /\ SameButLocks(u, LaneGivenBack(u, p, o))
        /\ LaneGivenBack(u, p, o) \in AutomationStates
    BY <2>4, LocksShrinking, LocksTypes
  <2>. QED BY <2>1, <2>2, <2>4, <2>5, <2>6, QuietOperation
<1>. QED BY <1>2, <1>3, <1>4

\* Marking a submission is quiet.
LEMMA QuietMark ==
  ASSUME NEW s, StateInv(s), NEW p \in Products, NEW o \in Owners,
         NEW outcome \in {"clicked", "canceled", "failed"},
         CanMarkSubmission(s, p, o, outcome)
  PROVE  StateInv(MarkSubmission(s, p, o, outcome))
<1>. DEFINE u == Marked(s, p, o, outcome)
            t == MarkSubmission(s, p, o, outcome)
<1>1. s \in AutomationStates /\ \A q \in s.done : s.add[q] = IdleAdd
  BY DEF StateInv, Sealed
<1>2. u.locks = s.locks /\ u.add = s.add /\ u.done = s.done /\ u.itemDone = s.itemDone
  BY <1>1 DEF AutomationStates, Marked
<1>3. \A q \in Products : q # p => u.sub[q] = s.sub[q]
  BY <1>1 DEF AutomationStates, Marked
<1>4. u.sub[p].phase \in MaybeSubmitted => s.sub[p].phase \in MaybeSubmitted
  <2>1. CASE outcome = "clicked"
    BY <2>1 DEF CanMarkSubmission, MaybeSubmitted
  <2>2. CASE outcome # "clicked"
    <3>1. u.sub[p].phase \in {"idle", "explicitly-failed"}
      BY <1>1, <2>2 DEF AutomationStates, Marked, IdleSubmission
    <3>. QED BY <3>1 DEF MaybeSubmitted
  <2>. QED BY <2>1, <2>2
<1>5. u \in AutomationStates /\ t \in {Held(u, p), LosesLocks(u, p)}
  BY <1>1, MarkedType
<1>. HIDE DEF u, t
<1>6. LocksShrink(u, t) /\ SameButLocks(u, t) /\ t \in AutomationStates
  BY <1>5, LocksShrinking, LocksTypes
<1>7. StateInv(t)
  BY <1>1, <1>2, <1>3, <1>4, <1>5, <1>6, QuietOperation
<1>. QED BY <1>7 DEF t

--------------------------------------------------------------------------------
(* What a handler can rely on once it has read the state *)

\* A mission whose cart or order may have changed keeps its rivals out, and
\* leaves no lease on its keys.
Guarded(s) ==
  \A p \in Products : \A k \in HoldKeys(p) :
    NeedsHold(s, p) => Settled(s.locks[k]) /\ s.locks[k].pid \notin Products \ {p}

\* The keys of a product are keys.
LEMMA HoldKeysAreKeys ==
  ASSUME NEW p \in Products
  PROVE  HoldKeys(p) \subseteq Keys /\ LockKeys(p) \subseteq HoldKeys(p)
<1>1. RetailerOf[p] \in Retailers /\ ItemOf[p] \in Items \cup {NoItem}
  BY ConfigAssumption
<1>. QED BY <1>1 DEF HoldKeys, LockKeys, Keys, ProductKey, StoreKey, ItemKey

\* Normalising does not change which missions need a hold.
LEMMA NormalizedNeeds ==
  ASSUME NEW s \in AutomationStates, NEW p \in Products
  PROVE  NeedsHold(Normalized(s), p) <=> NeedsHold(s, p)
<1>. DEFINE t == Normalized(s)
<1>1. t.done = s.done /\ t.add = s.add /\ t.sub = s.sub
  BY DEF Normalized, AutomationStates
<1>2. p \notin s.done => t.wf[p].phase = s.wf[p].phase
  BY DEF Normalized, AutomationStates, Workflow
<1>. QED BY <1>1, <1>2 DEF NeedsHold

\* normalizeState (re-)creates the holds.
LEMMA NormalizedGuards ==
  ASSUME NEW s \in AutomationStates PROVE Guarded(Normalized(s))
<1>. SUFFICES ASSUME NEW p \in Products, NEW k \in HoldKeys(p), NeedsHold(s, p)
              PROVE  /\ Settled(NormalLock(s, k))
                     /\ NormalLock(s, k).pid \notin Products \ {p}
  <2>1. \A p \in Products : \A k \in HoldKeys(p) :
          Normalized(s).locks[k] = NormalLock(s, k)
    BY HoldKeysAreKeys DEF Normalized, AutomationStates
  <2>. QED BY <2>1, NormalizedNeeds DEF Guarded
<1>. DEFINE cur == IF s.locks[k].pid \in s.done THEN Free ELSE s.locks[k]
            needers == {q \in Products : NeedsHold(s, q) /\ k \in HoldKeys(q)}
            holders == needers \cup (IF cur.hold THEN {cur.pid} ELSE {})
            sole == CHOOSE q \in holders : TRUE
            ensured == EnsuredLock(s, k, cur)
<1>1. p \in needers /\ p \in holders
  OBVIOUS
<1>2. \/ \E ms, c : ensured = BatchLock(ms, c)
      \/ ensured = ConflictLock
      \/ holders = {sole} /\ cur.hold /\ ensured = cur
      \/ holders = {sole} /\ ensured = Lock(sole, HoldOwner(s, sole, cur), TRUE)
  BY <1>1 DEF EnsuredLock
<1>3. ensured.hold /\ ensured.pid \notin Products \ {p}
  <2>0. \A ms, c : BatchLock(ms, c).hold /\ BatchLock(ms, c).pid \notin Products
    BY ReservedNamesAssumption DEF BatchLock
  <2>1. ASSUME NEW ms, NEW c, ensured = BatchLock(ms, c)
        PROVE  ensured.hold /\ ensured.pid \notin Products
    <3>. HIDE DEF ensured
    <3>. QED BY <2>0, <2>1
  <2>2. CASE ensured = ConflictLock
    BY <2>2, ReservedNamesAssumption DEF ConflictLock, Lock, Free
  <2>3. CASE holders = {sole} /\ cur.hold /\ ensured = cur
    BY <1>1, <2>3
  <2>4. CASE holders = {sole} /\ ensured = Lock(sole, HoldOwner(s, sole, cur), TRUE)
    <3>1. sole = p
      BY <1>1, <2>4
    <3>2. ensured.hold /\ ensured.pid = p
      BY <2>4, <3>1 DEF Lock, Free
    <3>. QED BY <3>2
  <2>. QED BY <1>2, <2>1, <2>2, <2>3, <2>4
<1>4. NormalLock(s, k) \in {Free, ensured}
  BY DEF NormalLock
<1>5. Settled(Free) /\ Free.pid \notin Products
  BY ReservedNamesAssumption DEF Settled, Free
<1>. HIDE DEF ensured
<1>. QED BY <1>3, <1>4, <1>5 DEF Settled

\* Normalising a lock keeps it settled and never gives it to a completed
\* product.
LEMMA NormalLockFacts ==
  ASSUME NEW s \in AutomationStates, NEW k \in Keys
  PROVE  /\ Settled(s.locks[k]) => Settled(NormalLock(s, k))
         /\ NormalLock(s, k).pid \notin s.done
<1>. DEFINE cur == IF s.locks[k].pid \in s.done THEN Free ELSE s.locks[k]
            needers == {q \in Products : NeedsHold(s, q) /\ k \in HoldKeys(q)}
            holders == needers \cup (IF cur.hold THEN {cur.pid} ELSE {})
            sole == CHOOSE q \in holders : TRUE
            ensured == EnsuredLock(s, k, cur)
<1>1. s.done \subseteq Products
  BY FieldTypes
<1>2. Settled(Free) /\ Free.pid = "none" /\ Free.pid \notin s.done
  BY <1>1, ReservedNamesAssumption DEF Settled, Free
<1>3. cur.pid \notin s.done /\ (Settled(s.locks[k]) => Settled(cur))
  BY <1>2
<1>4. \/ ensured = cur
      \/ \E ms, c : ensured = BatchLock(ms, c)
      \/ ensured = ConflictLock
      \/ needers # {} /\ ~cur.hold /\ ensured = Lock(sole, HoldOwner(s, sole, cur), TRUE)
  BY DEF EnsuredLock
<1>5. (Settled(s.locks[k]) => Settled(ensured)) /\ ensured.pid \notin s.done
  <2>1. \A ms, c : BatchLock(ms, c).hold /\ BatchLock(ms, c).pid \notin Products
    BY ReservedNamesAssumption DEF BatchLock
  <2>2. ConflictLock.hold /\ ConflictLock.pid \notin Products
    BY ReservedNamesAssumption DEF ConflictLock, Lock, Free
  <2>3. \A q, o : Lock(q, o, TRUE).hold /\ Lock(q, o, TRUE).pid = q
    BY DEF Lock, Free
  <2>4. ASSUME needers # {}, ~cur.hold PROVE sole \in Products \ s.done
    <3>1. holders = needers
      BY <2>4
    <3>2. sole \in needers
      BY <2>4, <3>1
    <3>. QED BY <3>2 DEF NeedsHold
  <2>. HIDE DEF ensured, cur, needers, holders, sole
  <2>. QED BY <1>1, <1>3, <1>4, <2>1, <2>2, <2>3, <2>4 DEF Settled
<1>6. NormalLock(s, k) \in {Free, ensured}
  BY DEF NormalLock
<1>. HIDE DEF ensured
<1>. QED BY <1>2, <1>5, <1>6

\* A new run starts in the invariant.
LEMMA CreateInv ==
  ASSUME NEW run \in Nat PROVE StateInv(CreateState(run))
<1>. DEFINE s == CreateState(run)
<1>1. s.done = {} /\ s.itemDone = {} /\ \A p \in Products : s.sub[p].phase = "idle"
  BY DEF CreateState, IdleSubmission
<1>2. s \in AutomationStates
  BY CreateType
<1>. HIDE DEF s
<1>3. StateInv(s)
  BY <1>1, <1>2 DEF StateInv, Sealed, OnlyCheckoutsSubmit, Exclusive, ItemsRecorded,
    ItemLocksSettled, MaybeSubmitted
<1>. QED BY <1>3 DEF s

\* Normalising keeps the invariant.
LEMMA NormalizedInv ==
  ASSUME NEW s, StateInv(s) PROVE StateInv(Normalized(s))
<1>. DEFINE t == Normalized(s)
<1>1. s \in AutomationStates /\ s.done \subseteq Products /\ s.itemDone \subseteq Items
  BY FieldTypes DEF StateInv
<1>2. t \in AutomationStates
  BY <1>1, NormalizedType
<1>3. t.add = s.add /\ t.sub = s.sub /\ t.done = s.done
  BY <1>1 DEF Normalized, AutomationStates
<1>4. t.itemDone = s.itemDone
  <2>1. t.itemDone = s.itemDone \cup {ItemOf[p] : p \in {q \in s.done :
                           ActionOf[q] # "watch" /\ ItemOf[q] # NoItem}}
    BY <1>1 DEF Normalized, AutomationStates
  <2>. QED BY <2>1 DEF StateInv, ItemsRecorded, CountsForItem
<1>5. \A k \in Keys : t.locks[k] = NormalLock(s, k)
  BY <1>1 DEF Normalized, AutomationStates
<1>. HIDE DEF t
<1>6. Sealed(t)
  BY <1>1, <1>3, <1>5, NormalLockFacts DEF StateInv, Sealed
<1>7. ItemLocksSettled(t)
  <2>1. \A i \in Items : <<"item", i>> \in Keys
    BY DEF Keys
  <2>. QED BY <1>1, <1>4, <1>5, <2>1, NormalLockFacts DEF StateInv, ItemLocksSettled
<1>8. OnlyCheckoutsSubmit(t) /\ Exclusive(t) /\ ItemsRecorded(t)
  BY <1>3, <1>4 DEF StateInv, OnlyCheckoutsSubmit, Exclusive, ItemsRecorded
<1>9. StateInv(t)
  BY <1>2, <1>6, <1>7, <1>8 DEF StateInv
<1>. QED BY <1>9 DEF t

\* Every handler starts from a state with the invariant and the holds.
LEMMA ReadInv ==
  ASSUME NEW s, StateInv(s), NEW run \in Nat
  PROVE  StateInv(NormalizeState(s, run)) /\ Guarded(NormalizeState(s, run))
<1>1. s \in AutomationStates /\ CreateState(run) \in AutomationStates
  BY CreateType DEF StateInv
<1>2. StateInv(CreateState(run))
  BY CreateInv
<1>. QED BY <1>1, <1>2, NormalizeCases, NormalizedInv, NormalizedGuards

--------------------------------------------------------------------------------
(* The operations that are not quiet *)

\* While a mission needs its hold, no rival owns the lane.
LEMMA RivalsOwnNothing ==
  ASSUME NEW s, Guarded(s), NEW p \in Products, NEW q \in Products, NEW o,
         Rivals(p, q), NeedsHold(s, p)
  PROVE  ~OwnsLane(s, q, o)
<1>1. PICK k \in HoldKeys(p) \cap LockKeys(q) : TRUE
  BY DEF Rivals
<1>2. s.locks[k].pid # q
  BY <1>1 DEF Guarded, Rivals
<1>. QED BY <1>1, <1>2 DEF OwnsLane, OwnedBy

\* A submit intent keeps the invariant.
LEMMA SubmissionInv ==
  ASSUME NEW s, StateInv(s), Guarded(s), NEW p \in Products, NEW o \in Owners,
         NEW h \in EvidenceHashes, CanBeginSubmission(s, p, o)
  PROVE  StateInv(BeginSubmission(s, p, h))
<1>. DEFINE u == [s EXCEPT !.sub[p] = [phase |-> "intent", hash |-> h]]
<1>1. s \in AutomationStates
  BY DEF StateInv
<1>2. u.locks = s.locks /\ u.add = s.add /\ u.done = s.done /\ u.itemDone = s.itemDone
  BY <1>1 DEF AutomationStates
<1>3. \A q \in Products : q # p => u.sub[q] = s.sub[q]
  BY <1>1 DEF AutomationStates
<1>4. u \in AutomationStates
  BY <1>1, SubmissionTypes
<1>5. p \notin s.done /\ ActionOf[p] = "checkout" /\ OwnsLane(s, p, o)
  BY DEF CanBeginSubmission
<1>6. BeginSubmission(s, p, h) = Held(u, p)
  BY DEF BeginSubmission
<1>. HIDE DEF u
<1>7. Sealed(u) /\ OnlyCheckoutsSubmit(u) /\ ItemsRecorded(u) /\ ItemLocksSettled(u)
  <2>1. s.done \subseteq Products
    BY <1>1, FieldTypes
  <2>. QED BY <1>2, <1>3, <1>5, <2>1
    DEF StateInv, Sealed, OnlyCheckoutsSubmit, ItemsRecorded, ItemLocksSettled
<1>8. ASSUME NEW q \in Products, q # p, s.sub[q].phase \in MaybeSubmitted
      PROVE  ~Rivals(q, p) /\ ~Rivals(p, q)
  <2>1. q \notin s.done
    BY <1>8 DEF StateInv, Sealed
  <2>2. NeedsHold(s, q)
    BY <1>8, <2>1 DEF NeedsHold
  <2>3. ~Rivals(q, p)
    BY <1>5, <2>2, RivalsOwnNothing
  <2>4. Rivals(p, q) => Rivals(q, p)
    <3>1. HoldKeys(p) = LockKeys(p)
      BY <1>5 DEF HoldKeys, LockKeys
    <3>2. LockKeys(q) \subseteq HoldKeys(q)
      BY HoldKeysAreKeys
    <3>. QED BY <3>1, <3>2 DEF Rivals
  <2>. QED BY <2>3, <2>4
<1>9. Exclusive(u)
  <2>. SUFFICES ASSUME NEW a \in Products, NEW b \in Products, Rivals(a, b),
                       u.sub[a].phase \in MaybeSubmitted, u.sub[b].phase \in MaybeSubmitted
                PROVE  FALSE
    BY DEF Exclusive
  <2>1. a # b
    BY DEF Rivals
  <2>2. CASE a = p
    BY <1>3, <1>8, <2>1, <2>2
  <2>3. CASE b = p
    BY <1>3, <1>8, <2>1, <2>3
  <2>4. CASE a # p /\ b # p
    BY <1>3, <2>4 DEF StateInv, Exclusive
  <2>. QED BY <2>2, <2>3, <2>4
<1>10. StateInv(u)
  BY <1>4, <1>7, <1>9 DEF StateInv
<1>11. LocksShrink(u, Held(u, p)) /\ SameButLocks(u, Held(u, p)) /\ Held(u, p) \in AutomationStates
  BY <1>4, LocksShrinking, LocksTypes
<1>12. \A q \in u.done : u.add[q] = IdleAdd
  BY <1>10 DEF StateInv, Sealed
<1>. QED BY <1>4, <1>6, <1>10, <1>11, <1>12, QuietOperation

\* Completing a mission that was held, or that only watched, keeps the
\* invariant: it leaves no lock of its own and no lease on its item.
LEMMA FinishInv ==
  ASSUME NEW s, StateInv(s), Guarded(s), NEW p \in Products,
         ActionOf[p] = "watch" \/ NeedsHold(s, p),
         NEW u \in AutomationStates, u.locks = s.locks, u.add = s.add,
         u.done = s.done, u.itemDone = s.itemDone,
         \A q \in Products : q # p => u.sub[q] = s.sub[q],
         u.sub[p].phase \notin MaybeSubmitted
  PROVE  StateInv(LosesLocks(MarkDone(u, p), p))
<1>. DEFINE m == MarkDone(u, p)
            t == LosesLocks(m, p)
<1>1. s \in AutomationStates /\ s.done \subseteq Products /\ s.itemDone \subseteq Items
  BY FieldTypes DEF StateInv
<1>2. /\ m.locks = s.locks /\ m.sub = u.sub /\ m.done = s.done \cup {p}
      /\ m.add[p] = IdleAdd /\ \A q \in Products : q # p => m.add[q] = s.add[q]
  BY DEF MarkDone, AutomationStates
<1>3. m.itemDone = s.itemDone \cup (IF ActionOf[p] = "watch" THEN {} ELSE {ItemOf[p]} \ {NoItem})
  BY DEF MarkDone, AutomationStates
<1>4. m \in AutomationStates
  BY CompletionTypes
<1>. HIDE DEF m
<1>5. SameButLocks(m, t) /\ LocksShrink(m, t)
  <2>2. \A k \in Keys : t.locks[k] = IF m.locks[k].pid = p THEN Free ELSE m.locks[k]
    BY <1>4 DEF LosesLocks, Unlocked, AutomationStates
  <2>3. Free.pid = "none" /\ Settled(Free)
    BY DEF Free, Settled
  <2>4. SameButLocks(m, t)
    BY <1>4 DEF SameButLocks, LosesLocks, Unlocked, AutomationStates
  <2>. HIDE DEF t
  <2>. QED BY <2>2, <2>3, <2>4 DEF LocksShrink
<1>6. \A k \in Keys : t.locks[k].pid # p
  <2>1. \A k \in Keys : t.locks[k] = IF m.locks[k].pid = p THEN Free ELSE m.locks[k]
    BY <1>4 DEF LosesLocks, Unlocked, AutomationStates
  <2>2. Free.pid # p
    BY ReservedNamesAssumption DEF Free
  <2>. HIDE DEF t
  <2>. QED BY <2>1, <2>2
<1>7. t \in AutomationStates
  <2>. DEFINE locks == [k \in Keys |->
         IF k \in {j \in Keys : m.locks[j].pid = p} THEN Free ELSE m.locks[k]]
  <2>1. locks \in [Keys -> Locks]
    BY <1>4, FieldTypes, LockTypes
  <2>. QED BY <1>4, <2>1, RelockType DEF LosesLocks, Unlocked
<1>. HIDE DEF t
<1>8. Sealed(t)
  <2>. SUFFICES ASSUME NEW q \in s.done \cup {p}
                PROVE  /\ t.add[q] = IdleAdd /\ t.sub[q].phase \notin MaybeSubmitted
                       /\ \A k \in Keys : t.locks[k].pid # q
    BY <1>2, <1>5 DEF Sealed, SameButLocks
  <2>1. CASE q = p
    BY <1>2, <1>5, <1>6, <2>1 DEF SameButLocks
  <2>2. CASE q # p
    <3>1. q \in s.done
      BY <1>2, <1>5, <2>2 DEF SameButLocks
    <3>2. q # "none" /\ q \in Products
      BY <1>1, <3>1, ReservedNamesAssumption
    <3>. QED BY <1>2, <1>5, <2>2, <3>1, <3>2 DEF StateInv, Sealed, SameButLocks, LocksShrink
  <2>. QED BY <2>1, <2>2
<1>9. OnlyCheckoutsSubmit(t) /\ Exclusive(t)
  <2>1. \A q \in Products : t.sub[q].phase \in MaybeSubmitted => s.sub[q].phase \in MaybeSubmitted
    BY <1>2, <1>5 DEF SameButLocks
  <2>. QED BY <2>1 DEF StateInv, OnlyCheckoutsSubmit, Exclusive
<1>10. ItemsRecorded(t)
  BY <1>2, <1>3, <1>5 DEF StateInv, ItemsRecorded, CountsForItem, SameButLocks
<1>11. ItemLocksSettled(t)
  <2>1. t.itemDone \subseteq Items
    BY <1>7, FieldTypes
  <2>. SUFFICES ASSUME NEW i \in Items, i \in t.itemDone PROVE Settled(t.locks[<<"item", i>>])
    BY <2>1 DEF ItemLocksSettled
  <2>2. <<"item", i>> \in Keys
    BY DEF Keys
  <2>3. Settled(s.locks[<<"item", i>>])
    <3>1. CASE i \in s.itemDone
      BY <3>1 DEF StateInv, ItemLocksSettled
    <3>2. CASE i \notin s.itemDone
      <4>1. ActionOf[p] # "watch" /\ i = ItemOf[p] /\ ItemOf[p] # NoItem
        BY <1>3, <1>5, <3>2 DEF SameButLocks
      <4>2. <<"item", i>> \in HoldKeys(p)
        BY <4>1 DEF HoldKeys, LockKeys, ItemKey
      <4>. QED BY <4>1, <4>2 DEF Guarded
    <3>. QED BY <3>1, <3>2
  <2>. QED BY <1>2, <1>5, <2>2, <2>3 DEF LocksShrink
<1>12. StateInv(t)
  BY <1>7, <1>8, <1>9, <1>10, <1>11 DEF StateInv
<1>. QED BY <1>12 DEF t, m

\* Completing a mission keeps the invariant.
LEMMA CompleteInv ==
  ASSUME NEW s, StateInv(s), Guarded(s), NEW p \in Products, CanComplete(s, p)
  PROVE  StateInv(Complete(s, p))
<1>. DEFINE u == IF ActionOf[p] = "checkout"
                 THEN [s EXCEPT !.sub[p].phase = "confirmed"] ELSE s
<1>1. s \in AutomationStates
  BY DEF StateInv
<1>2. ActionOf[p] \in {"watch", "cart", "review", "checkout"}
  BY ConfigAssumption
<1>3. ActionOf[p] = "watch" \/ NeedsHold(s, p)
  BY <1>2 DEF CanComplete, NeedsHold
<1>4. [s EXCEPT !.sub[p].phase = "confirmed"] \in AutomationStates
  <2>1. [s.sub[p] EXCEPT !.phase = "confirmed"] \in Submissions
    BY <1>1, FieldTypes DEF Submissions, SubmissionPhases
  <2>. QED BY <1>1, <2>1 DEF AutomationStates, Submissions
<1>5. u \in AutomationStates
  BY <1>1, <1>4
<1>6. /\ u.locks = s.locks /\ u.add = s.add /\ u.done = s.done /\ u.itemDone = s.itemDone
      /\ \A q \in Products : q # p => u.sub[q] = s.sub[q]
  BY <1>1 DEF AutomationStates
<1>7. u.sub[p].phase \notin MaybeSubmitted
  <2>1. CASE ActionOf[p] = "checkout"
    BY <1>1, <2>1 DEF AutomationStates, MaybeSubmitted
  <2>2. CASE ActionOf[p] # "checkout"
    BY <2>2 DEF StateInv, OnlyCheckoutsSubmit
  <2>. QED BY <2>1, <2>2
<1>8. Complete(s, p) = LosesLocks(MarkDone(u, p), p)
  BY DEF Complete
<1>. HIDE DEF u
<1>. QED BY <1>3, <1>5, <1>6, <1>7, <1>8, FinishInv

\* So does closing out a member of a combined order.
LEMMA CompleteMemberInv ==
  ASSUME NEW s, StateInv(s), Guarded(s), NEW p \in Products, NEW captain,
         CanCompleteMember(s, p, captain)
  PROVE  StateInv(CompleteMember(s, p))
<1>. DEFINE u == [s EXCEPT !.sub[p].phase = "confirmed"]
<1>1. s \in AutomationStates
  BY DEF StateInv
<1>2. NeedsHold(s, p)
  BY DEF CanCompleteMember, NeedsHold
<1>3. u \in AutomationStates
  <2>1. [s.sub[p] EXCEPT !.phase = "confirmed"] \in Submissions
    BY <1>1, FieldTypes DEF Submissions, SubmissionPhases
  <2>. QED BY <1>1, <2>1 DEF AutomationStates, Submissions
<1>4. /\ u.locks = s.locks /\ u.add = s.add /\ u.done = s.done /\ u.itemDone = s.itemDone
      /\ \A q \in Products : q # p => u.sub[q] = s.sub[q]
      /\ u.sub[p].phase \notin MaybeSubmitted
  BY <1>1 DEF AutomationStates, MaybeSubmitted
<1>5. CompleteMember(s, p) = LosesLocks(MarkDone(u, p), p)
  BY DEF CompleteMember
<1>. HIDE DEF u
<1>. QED BY <1>2, <1>3, <1>4, <1>5, FinishInv

\* A claim keeps the invariant: a completed item is never claimed again.
LEMMA ClaimInv ==
  ASSUME NEW s, StateInv(s), NEW p \in Products, NEW o \in Owners, CanClaim(s, p, o)
  PROVE  StateInv(Claim(s, p, o))
<1>. DEFINE t == Claim(s, p, o)
<1>1. s \in AutomationStates /\ s.done \subseteq Products /\ p \notin s.done
  BY FieldTypes DEF StateInv, CanClaim, ClaimableRecord
<1>2. t \in AutomationStates
  BY <1>1, ClaimType
<1>3. t.add = s.add /\ t.sub = s.sub /\ t.done = s.done /\ t.itemDone = s.itemDone
  BY <1>1 DEF Claim, AutomationStates
<1>4. \A k \in Keys : t.locks[k] =
        IF k \in LockKeys(p) THEN ClaimedLock(s.locks[k], p, o) ELSE s.locks[k]
  BY <1>1 DEF Claim, AutomationStates
<1>. HIDE DEF t
<1>5. \A l \in Locks : ClaimedLock(l, p, o).pid \in {l.pid, p}
  BY DEF ClaimedLock, Lock, Free, Locks
<1>6. \A k \in Keys : s.locks[k] \in Locks
  BY <1>1, FieldTypes
<1>7. Sealed(t)
  BY <1>1, <1>3, <1>4, <1>5, <1>6 DEF StateInv, Sealed
<1>8. ItemLocksSettled(t)
  <2>. SUFFICES ASSUME NEW i \in s.itemDone PROVE Settled(t.locks[<<"item", i>>])
    BY <1>3 DEF ItemLocksSettled
  <2>1. i \in Items /\ <<"item", i>> \in Keys
    BY <1>1, FieldTypes DEF Keys
  <2>2. <<"item", i>> \notin LockKeys(p)
    <3>1. ~ItemCompleted(s, p)
      BY DEF CanClaim, ClaimableRecord
    <3>. QED BY <3>1 DEF ItemCompleted, LockKeys, ProductKey, StoreKey, ItemKey
  <2>. QED BY <1>4, <2>1, <2>2 DEF StateInv, ItemLocksSettled
<1>9. StateInv(t)
  BY <1>2, <1>3, <1>7, <1>8 DEF StateInv, OnlyCheckoutsSubmit, Exclusive, ItemsRecorded
<1>. QED BY <1>9 DEF t

--------------------------------------------------------------------------------
(* The handlers *)

\* Healing a stranded cart hold keeps the invariant.
LEMMA HealInv ==
  ASSUME NEW s, StateInv(s), Guarded(s), NEW p \in Products, NEW o \in Owners
  PROVE  StateInv(HealStrandedCartHold(s, p, o))
<1>1. CASE \E q \in Products : Strands(s, p, o, q)
  <2>. DEFINE q == CHOOSE q \in Products : Strands(s, p, o, q)
  <2>1. q \in Products /\ Strands(s, p, o, q)
    BY <1>1
  <2>2. HealStrandedCartHold(s, p, o) = Complete(s, q)
    BY <1>1 DEF HealStrandedCartHold
  <2>. HIDE DEF q
  <2>. QED BY <2>1, <2>2, CompleteInv DEF Strands
<1>2. CASE ~\E q \in Products : Strands(s, p, o, q)
  BY <1>2 DEF HealStrandedCartHold
<1>. QED BY <1>1, <1>2

\* Claiming, and claiming and reserving in one write, keep the invariant.
LEMMA ClaimOutcomeInv ==
  ASSUME NEW s, StateInv(s), Guarded(s), NEW p \in Products, NEW o \in Owners
  PROVE  StateInv(ClaimOutcome(s, p, o)) /\ StateInv(PrepareOutcome(s, p, o))
<1>1. StateInv(ClaimOutcome(s, p, o))
  BY HealInv, ClaimInv DEF ClaimOutcome
<1>2. StateInv(PrepareOutcome(s, p, o))
  <2>. DEFINE claimed == ClaimOutcome(s, p, o)
  <2>1. Prepared(s, p, o) => CanBeginAddAction(claimed, p, o)
    BY DEF Prepared
  <2>2. PrepareOutcome(s, p, o) \in {BeginAddAction(claimed, p, o), Release(claimed, p, o), claimed}
    BY DEF PrepareOutcome
  <2>3. Prepared(s, p, o) \/ PrepareOutcome(s, p, o) \in {Release(claimed, p, o), claimed}
    BY DEF PrepareOutcome
  <2>4. StateInv(claimed)
    BY <1>1
  <2>. HIDE DEF claimed
  <2>5. CanBeginAddAction(claimed, p, o) => StateInv(BeginAddAction(claimed, p, o))
    BY <2>4, QuietAdd
  <2>6. StateInv(Release(claimed, p, o))
    <3>1. claimed \in AutomationStates /\ \A q \in claimed.done : claimed.add[q] = IdleAdd
      BY <2>4 DEF StateInv, Sealed
    <3>. QED BY <2>4, <3>1, LocksShrinking, LocksTypes, QuietOperation
  <2>. QED BY <2>1, <2>2, <2>3, <2>4, <2>5, <2>6
<1>. QED BY <1>1, <1>2

\* Every message leaves a state with the invariant.
LEMMA MessageInv ==
  ASSUME StateInv(st), served \subseteq Configs,
         NEW p \in Products, NEW o \in Owners, NEW c \in served, Message(p, o, c)
  PROVE  StateInv(st') /\ UNCHANGED desktop
<1>. DEFINE s == Read(c)
<1>1. c.run \in Nat
  BY DEF Configs
<1>2. StateInv(s) /\ Guarded(s)
  BY <1>1, ReadInv DEF Read
<1>. HIDE DEF s
<1>3. ASSUME NEW result, Handle(c, result), StateInv(result)
      PROVE  StateInv(st') /\ UNCHANGED desktop
  BY <1>3 DEF Handle
<1>4. ASSUME NEW outcome \in {"clicked", "confirmed", "canceled", "failed"}
      PROVE  StateInv(MarkAddOutcome(s, p, o, outcome))
  BY <1>2, QuietAdd DEF MarkAddOutcome
<1>5. CASE ClaimProduct(p, o, c)
  BY <1>2, <1>3, <1>5, ClaimOutcomeInv DEF ClaimProduct, s
<1>6. CASE PrepareAdd(p, o, c)
  BY <1>2, <1>3, <1>6, ClaimOutcomeInv DEF PrepareAdd, s
<1>7. CASE BeginAdd(p, o, c)
  <2>1. StateInv(BeginAddOutcome(s, p, o))
    BY <1>2, QuietAdd DEF BeginAddOutcome
  <2>. QED BY <1>3, <1>7, <2>1 DEF BeginAdd, s
<1>8. CASE \E offerOk \in BOOLEAN : AuthorizeAdd(p, o, c, offerOk)
  <2>1. \A offerOk \in BOOLEAN : StateInv(AuthorizeOutcome(s, p, o, offerOk))
    BY <1>2, <1>4 DEF AuthorizeOutcome
  <2>. QED BY <1>3, <1>8, <2>1 DEF AuthorizeAdd, s
<1>9. CASE \E outcome \in {"clicked", "confirmed", "canceled", "failed"} : MarkAdd(p, o, c, outcome)
  BY <1>3, <1>4, <1>9 DEF MarkAdd, s
<1>10. CASE ReleaseLane(p, o, c)
  <2>1. StateInv(Release(s, p, o))
    <3>1. s \in AutomationStates /\ \A q \in s.done : s.add[q] = IdleAdd
      BY <1>2 DEF StateInv, Sealed
    <3>. QED BY <1>2, <3>1, LocksShrinking, LocksTypes, QuietOperation
  <2>2. StateInv(ReleaseOutcome(s, p, o))
    BY <1>2, <2>1 DEF ReleaseOutcome
  <2>. QED BY <1>3, <1>10, <2>2 DEF ReleaseLane, s
<1>11. CASE \E h \in EvidenceHashes : BeginSubmit(p, o, c, h)
  <2>1. \A h \in EvidenceHashes : StateInv(BeginSubmissionOutcome(s, p, o, h))
    BY <1>2, SubmissionInv DEF BeginSubmissionOutcome
  <2>. QED BY <1>3, <1>11, <2>1 DEF BeginSubmit, s
<1>12. CASE \E outcome \in {"clicked", "canceled", "failed"} : MarkSubmit(p, o, c, outcome)
  <2>1. \A outcome \in {"clicked", "canceled", "failed"} :
          StateInv(MarkSubmissionOutcome(s, p, o, outcome))
    BY <1>2, QuietMark DEF MarkSubmissionOutcome
  <2>. QED BY <1>3, <1>12, <2>1 DEF MarkSubmit, s
<1>13. CASE \E h \in EvidenceHashes : BeginReview(p, o, c, h)
  <2>1. \A h \in EvidenceHashes : StateInv(BeginReviewOutcome(s, p, o, h))
    BY <1>2, QuietHandlers DEF BeginReviewOutcome
  <2>. QED BY <1>3, <1>13, <2>1 DEF BeginReview, s
<1>14. CASE \E h \in EvidenceHashes : MarkManual(p, o, c, h)
  <2>1. ASSUME NEW h \in EvidenceHashes, MarkManual(p, o, c, h)
        PROVE  StateInv(st') /\ UNCHANGED desktop
    <3>1. StateInv(MarkManualSubmit(s, p))
      BY <1>2, <2>1, QuietHandlers
    <3>. QED BY <1>2, <1>3, <2>1, <3>1 DEF MarkManual, s
  <2>. QED BY <1>14, <2>1
<1>15. CASE CompleteProduct(p, c)
  <2>1. StateInv(CompleteOutcome(s, p))
    BY <1>2, CompleteInv DEF CompleteOutcome
  <2>. QED BY <1>3, <1>15, <2>1 DEF CompleteProduct, s
<1>16. CASE \E captain \in Products : CompleteCombinedMember(p, captain, c)
  <2>1. ASSUME NEW captain \in Products, CompleteCombinedMember(p, captain, c)
        PROVE  StateInv(st') /\ UNCHANGED desktop
    <3>1. CanCompleteMember(s, p, captain) => StateInv(CompleteMember(s, p))
      BY <1>2, CompleteMemberInv
    <3>. QED BY <1>2, <1>3, <2>1, <3>1 DEF CompleteCombinedMember, s
  <2>. QED BY <1>16, <2>1
<1>17. CASE ResolveKnownNoOrder(p, o, c)
  <2>1. StateInv(Resolve(s, p, o))
    BY <1>2, ResolveInv
  <2>. QED BY <1>3, <1>17, <2>1 DEF ResolveKnownNoOrder, s
<1>. QED BY <1>5, <1>6, <1>7, <1>8, <1>9, <1>10, <1>11, <1>12, <1>13, <1>14,
         <1>15, <1>16, <1>17 DEF Message

--------------------------------------------------------------------------------
(* The theorems *)

\* The inductive invariant of the purchase lane.
LaneInv ==
  /\ StateInv(st)
  /\ config \in Configs /\ config.run <= MaxRun
  /\ served \subseteq Configs

\* Before any message the stored state is a new one.
LEMMA LaneInit ==
  ASSUME Init
  PROVE  LaneInv
BY CreateInv, MaxRunAssumption DEF Init, LaneInv, Configs

\* One message, one lapse of a lease, or the desktop's Stop or Arm.
LEMMA LaneStep ==
  ASSUME LaneInv, [Next]_vars
  PROVE  LaneInv'
<1>1. CASE Arm
  <2>1. config.run \in Nat /\ config.run + 1 \in Nat /\ config.run + 1 <= MaxRun
    BY <1>1, MaxRunAssumption DEF LaneInv, Arm, Configs
  <2>2. config' = [run |-> config.run + 1, active |-> TRUE] /\ config' \in Configs
    BY <1>1, <2>1 DEF Arm, Serve, Configs
  <2>3. config'.run = config.run + 1 /\ served' = served \cup {config'} /\ st' = st
    BY <1>1, <2>2 DEF Arm, Serve
  <2>. QED BY <2>1, <2>2, <2>3 DEF LaneInv
<1>2. CASE Stop
  BY <1>2 DEF LaneInv, Stop, Serve, Configs
<1>3. CASE \E p \in Products : LeaseRunsOut(p)
  BY <1>3, QuietLapse DEF LaneInv, LeaseRunsOut, desktop
<1>4. CASE \E p \in Products, o \in Owners, c \in served : Message(p, o, c)
  BY <1>4, MessageInv DEF LaneInv, desktop
<1>5. CASE UNCHANGED vars
  BY <1>5 DEF LaneInv, vars
<1>. QED BY <1>1, <1>2, <1>3, <1>4, <1>5 DEF Next

\* Whatever the tabs send and the desktop serves, the stored state has the
\* invariant: the sealed, exclusive and recorded missions of StateInv.
THEOREM LaneInvariant == Spec => []LaneInv
<1>1. Init => LaneInv
  BY LaneInit
<1>2. LaneInv /\ [Next]_vars => LaneInv'
  BY LaneStep
<1>. QED BY <1>1, <1>2, PTL DEF Spec

\* Every variable of the service worker keeps its type.
THEOREM TypeCorrect == Spec => []TypeOK
<1>1. LaneInv => TypeOK
  BY DEF LaneInv, TypeOK, StateInv
<1>. QED BY <1>1, LaneInvariant, PTL

\* A completed mission keeps no Add, no possible order and no lock, whatever
\* late message of its tabs arrives (automation-state.js complete, markSubmission).
THEOREM CompletionIsFinal == Spec => []ProductSealed
<1>1. LaneInv => ProductSealed
  BY DEF LaneInv, StateInv, Sealed, ProductSealed
<1>. QED BY <1>1, LaneInvariant, PTL

\* Of two missions that share a store or an item, at most one may have an
\* order in flight (beginSubmission against the holds of normalizeState).
THEOREM OneSubmission == Spec => []SubmitExclusive
<1>1. LaneInv => SubmitExclusive
  BY DEF LaneInv, StateInv, Exclusive, SubmitExclusive
<1>. QED BY <1>1, LaneInvariant, PTL

\* While a cart or an order may have changed, no rival is authorized to click
\* or to submit, because every read re-creates the hold.
THEOREM HoldsExcludeRivals == Spec => []RivalExcluded
<1>1. LaneInv => Guarded(Now)
  BY ReadInv DEF LaneInv, Now, Configs
<1>2. ASSUME Guarded(Now) PROVE RivalExcluded
  <2>. SUFFICES ASSUME NEW p \in Products, NEW q \in Products, NEW o \in Owners,
                       Rivals(p, q), NeedsHold(Now, p)
                PROVE  ~CanAuthorizeAddClick(Now, q, o) /\ ~CanBeginSubmission(Now, q, o)
    BY DEF RivalExcluded
  <2>1. ~OwnsLane(Now, q, o)
    BY <1>2, RivalsOwnNothing
  <2>. QED BY <2>1 DEF CanAuthorizeAddClick, CanBeginSubmission
<1>3. LaneInv => RivalExcluded
  BY <1>1, <1>2
<1>. QED BY <1>3, LaneInvariant, PTL

\* Once an option of an item has completed, no click is authorized for any
\* option of it: no lease is left on the item's lock.
THEOREM ItemsAreSecuredOnce == Spec => []ItemSecuredOnce
<1>1. LaneInv => StateInv(Now)
  BY ReadInv DEF LaneInv, Now, Configs
<1>2. ASSUME StateInv(Now) PROVE ItemSecuredOnce
  <2>. SUFFICES ASSUME NEW q \in Products, NEW o \in Owners,
                       ItemCompleted(Now, q), CanAuthorizeAddClick(Now, q, o)
                PROVE  FALSE
    BY DEF ItemSecuredOnce
  <2>1. ItemKey(q) \in LockKeys(q) /\ ItemOf[q] \in Now.itemDone
    BY DEF ItemCompleted, LockKeys
  <2>2. Settled(Now.locks[ItemKey(q)])
    BY <1>2, <2>1 DEF StateInv, ItemLocksSettled, ItemKey
  <2>3. Now.locks[ItemKey(q)].pid = q /\ ~Now.locks[ItemKey(q)].hold
    BY <2>1 DEF CanAuthorizeAddClick, OwnsLane, OwnedBy
  <2>4. Free.pid # q
    BY ReservedNamesAssumption DEF Free
  <2>. QED BY <2>2, <2>3, <2>4 DEF Settled
<1>3. LaneInv => ItemSecuredOnce
  BY <1>1, <1>2
<1>. QED BY <1>3, LaneInvariant, PTL

================================================================================
