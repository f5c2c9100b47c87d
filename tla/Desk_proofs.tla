----------------------------- MODULE Desk_proofs -----------------------------
(***************************************************************************)
(* What the operator decides and looks at, for plans, stores and queues of *)
(* any size: Stop and the plan it leaves, the review of an order, the      *)
(* Catalog Inbox, the update, and the push enrollment.  The parts share no *)
(* state; each has its own inductive invariant.                            *)
(***************************************************************************)
EXTENDS Plan, Review, Catalog, Update, Enrollment,
        FunctionTheorems, FiniteSetTheorems, SequenceTheorems, TLAPS

-----------------------------------------------------------------------------
(* Queues.                                                                 *)

LEMMA AppendedIs ==
  ASSUME NEW S, NEW q \in Seq(S), NEW e \in S, NEW w, w = Append(q, e)
  PROVE  /\ w \in Seq(S) /\ Len(q) \in Nat /\ DOMAIN q = 1 .. Len(q)
         /\ DOMAIN w = 1 .. Len(q) + 1 /\ w[Len(q) + 1] = e
         /\ \A i \in 1 .. Len(q) : w[i] = q[i]
<1>1. w \in Seq(S) /\ Len(w) = Len(q) + 1 /\ w[Len(q) + 1] = e
      /\ \A i \in 1 .. Len(q) : w[i] = q[i]
  BY AppendProperties
<1>. QED BY <1>1, LenProperties

LEMMA TailIs ==
  ASSUME NEW S, NEW q \in Seq(S), q # <<>>, NEW w, w = Tail(q)
  PROVE  /\ w \in Seq(S) /\ Len(q) \in Nat /\ DOMAIN q = 1 .. Len(q) /\ 1 \in DOMAIN q
         /\ DOMAIN w = 1 .. Len(q) - 1
         /\ \A i \in 1 .. Len(q) - 1 : w[i] = q[i + 1]
         /\ Head(q) = q[1] /\ Head(q) \in S
<1>1. Len(q) \in Nat /\ DOMAIN q = 1 .. Len(q) /\ Len(q) # 0
  BY LenProperties, EmptySeq
<1>2. w \in Seq(S) /\ Len(w) = Len(q) - 1 /\ Head(q) \in S
      /\ \A i \in 1 .. Len(w) : w[i] = q[i + 1]
  BY HeadTailProperties
<1>3. Head(q) = q[1]
  OBVIOUS
<1>. QED BY <1>1, <1>2, <1>3, LenProperties

-----------------------------------------------------------------------------
(* Stop and the plan.                                                      *)

Plans == [Products -> Contracts \cup {None}]
Thens == {"record", "imported", "render", "error", "autopilot", "signals", "resumed",
          "launch", "launched", "stopped"}
CallType  == [kind : {"save", "stop", "open", "import"}, mode : Modes, plan : Plans,
              then : Thens, at : Nat, before : Plans]
ReplyType == [snap : [mode : Modes, plan : Plans], then : Thens, at : Nat, before : Plans]

PlanTypeOK ==
  /\ mode \in Modes /\ plan \in Plans /\ evidence \in Plans
  /\ view \in [mode : Modes, plan : Plans]
  /\ edits \in [open : BOOLEAN, resume : Modes, undo : Seq(Plans)]
  /\ timer \in BOOLEAN /\ clicks \in Nat /\ stopped \in BOOLEAN
  /\ requests \in Seq(CallType) /\ replies \in Seq(ReplyType)

\* A call that turns a purchase mode on, and a list of calls that has none.
Arming(r) == r.kind = "save" /\ r.mode # "off"
Calm      == \A i \in DOMAIN requests : ~Arming(requests[i])

\* The answer of this call, or this answer, opens a session that resumes a mode.
Reopens(m) == m.then \in {"autopilot", "signals"} /\ m.at = clicks

\* Stop is on its way, and nothing behind it arms.
StopUnderWay ==
  /\ ~timer
  /\ \E i \in DOMAIN requests :
       /\ requests[i].kind = "stop" /\ requests[i].then = "stopped"
       /\ \A j \in DOMAIN requests : j > i => ~Arming(requests[j])

\* It was done, and the window will hear of it; what it hears after that is as quiet.
StopAnswered ==
  /\ ~timer /\ mode = "off" /\ Calm
  /\ \E i \in DOMAIN replies :
       /\ replies[i].then = "stopped"
       /\ \A j \in DOMAIN replies : j >= i => replies[j].snap.mode = "off"

\* The window knows.
StopKnown ==
  /\ mode = "off" /\ Calm /\ view.mode = "off"
  /\ \A j \in DOMAIN replies : replies[j].snap.mode = "off"

\* No session of the time before Stop is left, nor a call that would open one.
NoSession ==
  /\ edits.resume = "off"
  /\ \A i \in DOMAIN requests : ~Reopens(requests[i])
  /\ \A i \in DOMAIN replies : ~Reopens(replies[i])

AtsPast ==
  /\ \A i \in DOMAIN requests : requests[i].at <= clicks
  /\ \A i \in DOMAIN replies : replies[i].at <= clicks

AfterStop == stopped => NoSession /\ (StopUnderWay \/ StopAnswered \/ StopKnown)

PlanInv == PlanTypeOK /\ EvidenceForContract /\ AtsPast /\ AfterStop

\* A call or an answer that is put in leaves the others where they are.
LEMMA NotWaitingKnows ==
  ASSUME PlanInv, stopped, ~Waiting
  PROVE  StopKnown /\ NoSession
BY DEF PlanInv, AfterStop, StopUnderWay, StopAnswered, Waiting, Quiet

LEMMA TimerKnows ==
  ASSUME PlanInv, stopped, timer
  PROVE  StopKnown /\ NoSession
BY DEF PlanInv, AfterStop, StopUnderWay, StopAnswered

Quietly(r) == ~Arming(r) /\ r.then \notin {"autopilot", "signals"}

\* A gesture puts at most one call in; while Stop holds, one that arms nothing.
LEMMA GestureKeeps ==
  ASSUME PlanInv, UNCHANGED <<settings, view, clicks, replies>>,
         edits' \in [open : BOOLEAN, resume : Modes, undo : Seq(Plans)],
         timer' \in BOOLEAN, stopped' \in BOOLEAN,
         \/ UNCHANGED requests
         \/ \E r \in CallType : /\ requests' = Append(requests, r) /\ r.at <= clicks
                                /\ stopped' => Quietly(r),
         stopped' => StopKnown /\ NoSession /\ edits'.resume = "off"
  PROVE  PlanInv'
<1>1. PlanTypeOK /\ UNCHANGED <<mode, plan, evidence>>
  BY DEF PlanInv, settings
<1>2. EvidenceForContract'
  BY <1>1 DEF PlanInv, EvidenceForContract
<1>3. CASE UNCHANGED requests
  <2>1. PlanTypeOK'
    BY <1>1, <1>3 DEF PlanTypeOK
  <2>2. AtsPast'
    BY <1>3 DEF PlanInv, AtsPast
  <2>3. AfterStop'
    BY <1>1, <1>3 DEF AfterStop, StopKnown, NoSession, Calm, Reopens, Arming
  <2>. QED BY <1>2, <2>1, <2>2, <2>3 DEF PlanInv
<1>4. ASSUME NEW r \in CallType, requests' = Append(requests, r), r.at <= clicks,
             stopped' => Quietly(r)
      PROVE  PlanInv'
  <2>1. /\ requests' \in Seq(CallType) /\ Len(requests) \in Nat
        /\ DOMAIN requests = 1 .. Len(requests)
        /\ DOMAIN requests' = 1 .. Len(requests) + 1 /\ requests'[Len(requests) + 1] = r
        /\ \A i \in 1 .. Len(requests) : requests'[i] = requests[i]
    BY <1>1, <1>4, AppendedIs DEF PlanTypeOK
  <2>2. \A i \in DOMAIN requests' : requests'[i] = r \/ (i \in DOMAIN requests /\ requests'[i] = requests[i])
    BY <2>1
  <2>3. PlanTypeOK'
    BY <1>1, <2>1 DEF PlanTypeOK
  <2>4. AtsPast'
    BY <1>4, <2>2 DEF PlanInv, AtsPast
  <2>5. AfterStop'
    BY <1>1, <1>4, <2>2 DEF AfterStop, StopKnown, NoSession, Calm, Reopens, Arming, Quietly
  <2>. QED BY <1>2, <2>3, <2>4, <2>5 DEF PlanInv
<1>. QED BY <1>3, <1>4

LEMMA CallTyped ==
  ASSUME PlanTypeOK, NEW kind \in {"save", "stop", "open", "import"}, NEW m \in Modes,
         NEW products \in Plans, NEW then \in Thens
  PROVE  LET r == Request(kind, m, products, then)
         IN /\ r \in CallType /\ r.at <= clicks /\ r.then = then /\ r.kind = kind /\ r.mode = m
            /\ (then \in {"autopilot", "signals"} => r.at = clicks)
<1>1. NoPlan \in Plans /\ view.plan \in Plans /\ clicks \in Nat
  BY DEF PlanTypeOK, NoPlan, Plans
<1>2. Request(kind, m, products, then).before \in Plans
  BY <1>1 DEF Request
<1>. QED BY <1>1, <1>2 DEF Request, CallType

LEMMA NoEditsTyped ==
  NoEdits \in [open : BOOLEAN, resume : Modes, undo : Seq(Plans)] /\ NoEdits.resume = "off"
<1>1. <<>> \in Seq(Plans)
  OBVIOUS
<1>. QED BY <1>1 DEF NoEdits, Modes

LEMMA GesturesKeep ==
  ASSUME PlanInv,
         \/ BeginEdit \/ Reorder \/ Import \/ ChangeSetting \/ TimerFires \/ Undo
         \/ FinishEdit \/ EndRun \/ (\E m \in {"autopilot", "signals"} : StartRun(m))
         \/ (\E p \in Products, c \in Contracts \cup {None} : Edit(p, c))
  PROVE  PlanInv'
<1>1. PlanTypeOK /\ view.mode \in Modes /\ view.plan \in Plans /\ NoPlan \in Plans
      /\ edits \in [open : BOOLEAN, resume : Modes, undo : Seq(Plans)]
  BY DEF PlanInv, PlanTypeOK, NoPlan, Plans
<1>2. {"off", "autopilot", "signals"} \subseteq Modes
  BY DEF Modes
\* What a call of a gesture is like.
<1>3. ASSUME NEW m \in Modes, NEW products \in Plans, NEW then \in Thens,
             NEW kind \in {"save", "import"}, Call(kind, m, products, then),
             stopped' => (kind = "save" => m = "off") /\ then \notin {"autopilot", "signals"}
      PROVE  \E r \in CallType : /\ requests' = Append(requests, r) /\ r.at <= clicks
                                 /\ stopped' => Quietly(r)
  <2>1. LET r == Request(kind, m, products, then)
        IN r \in CallType /\ r.at <= clicks /\ r.then = then /\ r.kind = kind /\ r.mode = m
    BY <1>1, CallTyped
  <2>. QED BY <1>3, <2>1 DEF Call, Quietly, Arming
<1>4. stopped /\ ~Waiting => StopKnown /\ NoSession
  BY NotWaitingKnows
<1>5. stopped /\ timer => StopKnown /\ NoSession
  BY TimerKnows
<1>6. stopped \in BOOLEAN /\ timer \in BOOLEAN
  BY <1>1 DEF PlanTypeOK
<1>7. CASE BeginEdit
  <2>1. /\ UNCHANGED <<settings, view, clicks, replies, timer, stopped>> /\ ~Waiting
    BY <1>7 DEF BeginEdit, Clicks, history
  <2>2. CASE ViewArmed
    <3>1. ~stopped
      BY <1>4, <2>1, <2>2 DEF ViewArmed, StopKnown
    <3>2. Call("save", "off", view.plan, view.mode) /\ UNCHANGED edits
      BY <1>7, <2>2 DEF BeginEdit, SaveModeCall
    <3>3. view.mode \in Thens
      BY <1>1, <2>2 DEF ViewArmed, Modes, Thens
    <3>. QED BY <1>1, <1>2, <1>3, <1>6, <2>1, <3>1, <3>2, <3>3, GestureKeeps
  <2>3. CASE ~ViewArmed
    <3>1. edits' = [NoEdits EXCEPT !.open = TRUE] /\ UNCHANGED requests
      BY <1>7, <2>3 DEF BeginEdit
    <3>2. edits' \in [open : BOOLEAN, resume : Modes, undo : Seq(Plans)] /\ edits'.resume = "off"
      BY <3>1, NoEditsTyped
    <3>. QED BY <1>4, <1>6, <2>1, <3>1, <3>2, GestureKeeps
  <2>. QED BY <2>2, <2>3
<1>8. CASE Reorder
  <2>1. UNCHANGED <<settings, view, clicks, replies, timer, stopped, edits>> /\ ~Waiting
        /\ Call("save", view.mode, view.plan, "record")
    BY <1>8 DEF Reorder, Clicks, history, window, SaveList
  <2>2. stopped => StopKnown /\ NoSession /\ view.mode = "off" /\ edits.resume = "off"
    BY <1>4, <2>1 DEF StopKnown, NoSession
  <2>. QED BY <1>1, <1>3, <1>6, <2>1, <2>2, GestureKeeps DEF Thens
<1>9. CASE Import
  <2>1. UNCHANGED <<settings, view, clicks, replies, timer, stopped, edits>> /\ ~Waiting
        /\ Call("import", "off", NoPlan, "imported")
    BY <1>9 DEF Import, Clicks, history, window
  <2>2. stopped => StopKnown /\ NoSession /\ edits.resume = "off"
    BY <1>4, <2>1 DEF NoSession
  <2>. QED BY <1>1, <1>2, <1>3, <1>6, <2>1, <2>2, GestureKeeps DEF Thens
<1>10. CASE ChangeSetting
  <2>1. UNCHANGED <<settings, view, clicks, replies, stopped, edits, requests>> /\ ~Waiting
        /\ timer' = TRUE
    BY <1>10 DEF ChangeSetting, Clicks, history
  <2>2. stopped => StopKnown /\ NoSession /\ edits.resume = "off"
    BY <1>4, <2>1 DEF NoSession
  <2>. QED BY <1>1, <1>6, <2>1, <2>2, GestureKeeps
<1>11. CASE TimerFires
  <2>1. UNCHANGED <<settings, view, clicks, replies, stopped, edits>> /\ timer /\ timer' = FALSE
        /\ Call("save", view.mode, view.plan, "record")
    BY <1>11 DEF TimerFires, history, SaveList
  <2>2. stopped => StopKnown /\ NoSession /\ view.mode = "off" /\ edits.resume = "off"
    BY <1>5, <2>1 DEF StopKnown, NoSession
  <2>. QED BY <1>1, <1>3, <1>6, <2>1, <2>2, GestureKeeps DEF Thens
<1>12. CASE Undo
  <2>1. UNCHANGED <<settings, view, clicks, replies, timer, stopped>> /\ ~Waiting /\ edits.undo # <<>>
    BY <1>12 DEF Undo, Clicks, history
  <2>2. edits.undo \in Seq(Plans) /\ Len(edits.undo) \in Nat /\ 1 \in 1 .. Len(edits.undo)
        /\ Len(edits.undo) \in 1 .. Len(edits.undo)
    BY <1>1, <2>1, LenProperties, EmptySeq
  <2>3. edits.undo[1] \in Plans /\ edits.undo[Len(edits.undo)] \in Plans
    BY <2>2, ElementOfSeq
  <2>4. SubSeq(edits.undo, 1, Len(edits.undo) - 1) \in Seq(Plans) /\ <<>> \in Seq(Plans)
    <3>1. \A i \in 1 .. Len(edits.undo) - 1 : edits.undo[i] \in Plans
      BY <2>2, ElementOfSeq
    <3>. QED BY <2>2, <3>1, SubSeqProperties
  <2>5. PICK before \in Plans :
          /\ Call("save", view.mode, before, "render")
          /\ edits' \in {[edits EXCEPT !.undo = SubSeq(edits.undo, 1, Len(edits.undo) - 1)],
                         [edits EXCEPT !.undo = <<>>]}
    BY <1>12, <2>3 DEF Undo, SaveList
  <2>6. edits' \in [open : BOOLEAN, resume : Modes, undo : Seq(Plans)] /\ edits'.resume = edits.resume
    BY <1>1, <2>4, <2>5
  <2>7. stopped => StopKnown /\ NoSession /\ view.mode = "off" /\ edits'.resume = "off"
    BY <1>4, <2>1, <2>6 DEF StopKnown, NoSession
  <2>. QED BY <1>1, <1>3, <1>6, <2>1, <2>5, <2>6, <2>7, GestureKeeps DEF Thens
<1>13. CASE FinishEdit
  <2>1. UNCHANGED <<settings, view, clicks, replies, timer, stopped>> /\ ~Waiting /\ edits' = NoEdits
    BY <1>13 DEF FinishEdit, Clicks, history
  <2>2. stopped => StopKnown /\ NoSession /\ edits.resume = "off"
    BY <1>4, <2>1 DEF NoSession
  <2>3. \/ ~stopped /\ Call("save", edits.resume, view.plan, "resumed")
        \/ UNCHANGED requests
    BY <1>13, <2>2 DEF FinishEdit, SaveModeCall
  <2>. QED BY <1>1, <1>3, <1>6, <2>1, <2>2, <2>3, NoEditsTyped, GestureKeeps DEF Thens
<1>14. CASE EndRun
  <2>1. UNCHANGED <<settings, view, clicks, replies, timer, stopped, edits>> /\ ~Waiting
        /\ Call("save", "off", view.plan, "launched")
    BY <1>14 DEF EndRun, Clicks, SaveModeCall
  <2>2. stopped => StopKnown /\ NoSession /\ edits.resume = "off"
    BY <1>4, <2>1 DEF NoSession
  <2>. QED BY <1>1, <1>2, <1>3, <1>6, <2>1, <2>2, GestureKeeps DEF Thens
<1>15. ASSUME NEW m \in {"autopilot", "signals"}, StartRun(m) PROVE PlanInv'
  <2>1. UNCHANGED <<settings, view, clicks, replies, timer, edits>> /\ stopped' = FALSE
        /\ Call("save", m, view.plan, IF m = "autopilot" THEN "launch" ELSE "launched")
    BY <1>15 DEF StartRun, SaveModeCall
  <2>. QED BY <1>1, <1>2, <1>3, <1>6, <2>1, GestureKeeps DEF Thens
<1>16. ASSUME NEW p \in Products, NEW c \in Contracts \cup {None}, Edit(p, c) PROVE PlanInv'
  <2>1. UNCHANGED <<settings, view, clicks, replies, timer, stopped, edits>> /\ ~Waiting
        /\ Call("save", view.mode, [view.plan EXCEPT ![p] = c], "record")
    BY <1>16 DEF Edit, Clicks, history, SaveList
  <2>2. [view.plan EXCEPT ![p] = c] \in Plans
    BY <1>1 DEF Plans
  <2>3. stopped => StopKnown /\ NoSession /\ view.mode = "off" /\ edits.resume = "off"
    BY <1>4, <2>1 DEF StopKnown, NoSession
  <2>. QED BY <1>1, <1>3, <1>6, <2>1, <2>2, <2>3, GestureKeeps DEF Thens
<1>. QED BY <1>7, <1>8, <1>9, <1>10, <1>11, <1>12, <1>13, <1>14, <1>15, <1>16

LEMMA StopClickKeeps ==
  ASSUME PlanInv, StopClick
  PROVE  PlanInv'
<1>1. PlanTypeOK /\ NoPlan \in Plans
  BY DEF PlanInv, PlanTypeOK, NoPlan, Plans
<1>2. UNCHANGED <<mode, plan, evidence, view, replies>> /\ clicks' = clicks + 1
      /\ edits' = NoEdits /\ timer' = FALSE /\ stopped' = TRUE /\ clicks \in Nat
  BY <1>1 DEF StopClick, settings, TimerAfterStop, PlanTypeOK
<1>3. PICK r \in CallType : /\ requests' = Append(requests, r) /\ r.at <= clicks
                            /\ r.kind = "stop" /\ r.then = "stopped"
  BY <1>1, CallTyped DEF StopClick, Call, Modes, Thens
<1>4. /\ requests' \in Seq(CallType) /\ Len(requests) \in Nat
      /\ DOMAIN requests = 1 .. Len(requests)
      /\ DOMAIN requests' = 1 .. Len(requests) + 1 /\ requests'[Len(requests) + 1] = r
      /\ \A i \in 1 .. Len(requests) : requests'[i] = requests[i]
  BY <1>1, <1>3, AppendedIs DEF PlanTypeOK
<1>5. \A i \in DOMAIN requests' : requests'[i] = r \/ (i \in DOMAIN requests /\ requests'[i] = requests[i])
  BY <1>4
<1>6. PlanTypeOK'
  <2>1. edits' \in [open : BOOLEAN, resume : Modes, undo : Seq(Plans)]
    BY <1>2, NoEditsTyped
  <2>2. timer' \in BOOLEAN /\ stopped' \in BOOLEAN
    BY <1>2
  <2>3. clicks' \in Nat
    BY <1>2
  <2>4. requests' \in Seq(CallType)
    BY <1>4
  <2>. QED BY <1>1, <1>2, <2>1, <2>2, <2>3, <2>4 DEF PlanTypeOK
<1>7. \A i \in DOMAIN requests' : requests'[i].at \in Nat /\ requests'[i].at <= clicks
  <2>1. \A i \in DOMAIN requests : requests[i] \in CallType /\ requests[i].at <= clicks
    <3>1. requests \in Seq(CallType)
      BY <1>1 DEF PlanTypeOK
    <3>2. \A i \in DOMAIN requests : requests[i] \in CallType
      BY <1>4, <3>1, ElementOfSeq
    <3>. QED BY <3>2 DEF PlanInv, AtsPast
  <2>2. \A i \in DOMAIN requests' : requests'[i] \in CallType /\ requests'[i].at <= clicks
    BY <1>3, <1>5, <2>1
  <2>. QED BY <2>2 DEF CallType
<1>8. \A i \in DOMAIN replies : replies[i].at \in Nat /\ replies[i].at <= clicks
  <2>1. replies \in Seq(ReplyType) /\ DOMAIN replies = 1 .. Len(replies)
    BY <1>1, LenProperties DEF PlanTypeOK
  <2>2. \A i \in DOMAIN replies : replies[i] \in ReplyType
    BY <2>1, ElementOfSeq
  <2>. QED BY <2>2 DEF PlanInv, AtsPast, ReplyType
<1>9. AtsPast'
  <2>1. \A n \in Nat : n <= clicks => n <= clicks'
    BY <1>2
  <2>. QED BY <1>2, <1>7, <1>8, <2>1 DEF AtsPast
\* What was counted before this click opens no session any more.
<1>10. NoSession'
  BY <1>2, <1>7, <1>8, NoEditsTyped DEF NoSession, Reopens
<1>11. StopUnderWay'
  <2>1. Len(requests) + 1 \in DOMAIN requests'
    BY <1>4
  <2>. QED BY <1>2, <1>3, <1>4, <2>1 DEF StopUnderWay
<1>12. EvidenceForContract'
  BY <1>2 DEF PlanInv, EvidenceForContract
<1>. QED BY <1>6, <1>9, <1>10, <1>11, <1>12 DEF PlanInv, AfterStop

\* The desktop puts in an answer, or an update: it shows the mode of now.
LEMMA ReplyKeeps ==
  ASSUME PlanInv, UNCHANGED <<view, edits, timer, clicks, stopped>>,
         mode' \in Modes, plan' \in Plans, evidence' \in Plans, EvidenceForContract',
         mode' # "off" => mode # "off",
         UNCHANGED requests,
         NEW m \in ReplyType, replies' = Append(replies, m),
         m.snap.mode = mode', m.at <= clicks, m.then \notin {"autopilot", "signals"}
  PROVE  PlanInv'
<1>1. PlanTypeOK
  BY DEF PlanInv
<1>2. /\ replies' \in Seq(ReplyType) /\ Len(replies) \in Nat
      /\ DOMAIN replies = 1 .. Len(replies)
      /\ DOMAIN replies' = 1 .. Len(replies) + 1 /\ replies'[Len(replies) + 1] = m
      /\ \A i \in 1 .. Len(replies) : replies'[i] = replies[i]
  BY <1>1, AppendedIs DEF PlanTypeOK
<1>3. \A i \in DOMAIN replies' : replies'[i] = m \/ (i \in DOMAIN replies /\ replies'[i] = replies[i])
  BY <1>2
<1>4. PlanTypeOK'
  BY <1>1, <1>2 DEF PlanTypeOK
<1>5. AtsPast'
  BY <1>3 DEF PlanInv, AtsPast
<1>6. ASSUME stopped PROVE NoSession' /\ (StopUnderWay' \/ StopAnswered' \/ StopKnown')
  <2>1. NoSession'
    BY <1>3, <1>6 DEF PlanInv, AfterStop, NoSession, Reopens
  <2>2. CASE StopUnderWay
    BY <2>1, <2>2 DEF StopUnderWay, Arming
  <2>3. CASE StopAnswered
    <3>1. PICK i \in DOMAIN replies :
            /\ replies[i].then = "stopped"
            /\ \A j \in DOMAIN replies : j >= i => replies[j].snap.mode = "off"
      BY <2>3 DEF StopAnswered
    <3>2. i \in DOMAIN replies' /\ replies'[i].then = "stopped"
          /\ \A j \in DOMAIN replies' : j >= i => replies'[j].snap.mode = "off"
      BY <1>2, <1>3, <2>3, <3>1 DEF StopAnswered
    <3>. QED BY <2>1, <2>3, <3>2 DEF StopAnswered, Calm, Arming
  <2>4. CASE StopKnown
    BY <1>3, <2>1, <2>4 DEF StopKnown, Calm, Arming
  <2>. QED BY <1>6, <2>2, <2>3, <2>4 DEF PlanInv, AfterStop
<1>. QED BY <1>4, <1>5, <1>6 DEF PlanInv, AfterStop

LEMMA AppendedTyped ==
  ASSUME PlanInv, NEW p \in Products, NEW c \in Contracts, plan[p] = None, Appended(p, c)
  PROVE  /\ plan' \in Plans /\ evidence' \in Plans /\ mode' = mode /\ EvidenceForContract'
         /\ \A q \in Products \ {p} : plan'[q] = plan[q]
<1>1. plan \in Plans /\ evidence \in Plans
  BY DEF PlanInv, PlanTypeOK
<1>2. evidence[p] = None
  BY DEF PlanInv, EvidenceForContract
<1>3. plan' = [plan EXCEPT ![p] = c] /\ evidence' = evidence /\ mode' = mode
  BY DEF Appended
<1>. QED BY <1>1, <1>2, <1>3 DEF PlanInv, EvidenceForContract, Plans

\* No update that is sent without being asked for disturbs Stop or the plan.
LEMMA UpdatesKeep ==
  ASSUME PlanInv, NEW p \in Products, QuickAdd(p) \/ SignalAdds(p) \/ Preflight(p)
  PROVE  PlanInv'
<1>1. PlanTypeOK /\ NoPlan \in Plans /\ clicks \in Nat
  BY DEF PlanInv, PlanTypeOK, NoPlan, Plans
<1>2. UNCHANGED <<view, edits, timer, clicks, stopped, requests>>
      /\ replies' = Append(replies, [snap |-> Shown', then |-> "render", at |-> 0, before |-> NoPlan])
  BY DEF QuickAdd, SignalAdds, Preflight, Broadcast, window, history
<1>3. mode' = mode /\ plan' \in Plans /\ evidence' \in Plans /\ EvidenceForContract'
  <2>1. ASSUME NEW c \in Contracts, plan[p] = None, Appended(p, c)
        PROVE  mode' = mode /\ plan' \in Plans /\ evidence' \in Plans /\ EvidenceForContract'
    BY <2>1, AppendedTyped
  <2>2. CASE QuickAdd(p) \/ SignalAdds(p)
    BY <2>1, <2>2 DEF QuickAdd, SignalAdds, Appendable
  <2>3. CASE Preflight(p)
    BY <1>1, <2>3 DEF Preflight, Approved, PlanInv, PlanTypeOK, EvidenceForContract, Plans
  <2>. QED BY <2>2, <2>3
<1>4. mode' \in Modes /\ Shown' = [mode |-> mode', plan |-> plan']
  BY <1>1, <1>3 DEF Shown, PlanTypeOK
<1> DEFINE m == [snap |-> Shown', then |-> "render", at |-> 0, before |-> NoPlan]
<1>5. m \in ReplyType /\ m.snap.mode = mode' /\ m.at <= clicks /\ m.then = "render"
  BY <1>1, <1>3, <1>4 DEF ReplyType, Thens
<1>6. replies' = Append(replies, m)
  BY <1>2
<1> HIDE DEF m
<1>. QED BY <1>2, <1>3, <1>4, <1>5, <1>6, ReplyKeeps

\* The desktop takes the first call and answers it.
LEMMA AnswerKeeps ==
  ASSUME PlanInv, UNCHANGED <<view, edits, timer, clicks, stopped>>,
         requests # <<>>, requests' = Tail(requests),
         mode' \in Modes, plan' \in Plans, evidence' \in Plans, EvidenceForContract',
         mode' # "off" => mode # "off" \/ Arming(Head(requests)),
         NEW m \in ReplyType, replies' = Append(replies, m), m.snap.mode = mode',
         m.at = Head(requests).at,
         m.then \in {"autopilot", "signals"} => m.then = Head(requests).then,
         Head(requests).kind = "stop" => mode' = "off" /\ m.then = "stopped"
  PROVE  PlanInv'
<1>1. PlanTypeOK /\ mode \in Modes
  BY DEF PlanInv, PlanTypeOK
<1>2. /\ replies' \in Seq(ReplyType) /\ Len(replies) \in Nat
      /\ DOMAIN replies = 1 .. Len(replies)
      /\ DOMAIN replies' = 1 .. Len(replies) + 1 /\ replies'[Len(replies) + 1] = m
      /\ \A i \in 1 .. Len(replies) : replies'[i] = replies[i]
  BY <1>1, AppendedIs DEF PlanTypeOK
<1>3. \A i \in DOMAIN replies' : replies'[i] = m \/ (i \in DOMAIN replies /\ replies'[i] = replies[i])
  BY <1>2
<1>4. /\ requests' \in Seq(CallType) /\ Len(requests) \in Nat
      /\ DOMAIN requests = 1 .. Len(requests) /\ 1 \in DOMAIN requests
      /\ DOMAIN requests' = 1 .. Len(requests) - 1
      /\ \A i \in 1 .. Len(requests) - 1 : requests'[i] = requests[i + 1]
      /\ Head(requests) = requests[1]
  BY <1>1, TailIs DEF PlanTypeOK
<1>5. \A i \in DOMAIN requests' : i + 1 \in DOMAIN requests /\ i + 1 > 1 /\ requests'[i] = requests[i + 1]
  BY <1>4
<1>6. PlanTypeOK'
  BY <1>1, <1>2, <1>4 DEF PlanTypeOK
<1>7. AtsPast'
  BY <1>3, <1>4, <1>5 DEF PlanInv, AtsPast
<1>8. ASSUME stopped PROVE NoSession' /\ (StopUnderWay' \/ StopAnswered' \/ StopKnown')
  <2>1. NoSession
    BY <1>8 DEF PlanInv, AfterStop
  <2>2. ~Reopens(m) /\ \A i \in DOMAIN requests : ~Reopens(requests[i])
    BY <1>4, <2>1 DEF NoSession, Reopens
  <2>3. NoSession'
    BY <1>3, <1>5, <2>1, <2>2 DEF NoSession, Reopens
  <2>4. CASE StopUnderWay
    <3>1. PICK i \in DOMAIN requests :
            /\ requests[i].kind = "stop" /\ requests[i].then = "stopped"
            /\ \A j \in DOMAIN requests : j > i => ~Arming(requests[j])
      BY <2>4 DEF StopUnderWay
    <3>2. CASE i = 1
      <4>1. mode' = "off" /\ m.then = "stopped"
        BY <1>4, <3>1, <3>2
      <4>2. Calm'
        BY <1>5, <3>1, <3>2 DEF Calm, Arming
      <4>3. Len(replies) + 1 \in DOMAIN replies'
        BY <1>2
      <4>4. \A j \in DOMAIN replies' : j >= Len(replies) + 1 => replies'[j].snap.mode = "off"
        BY <1>2, <4>1
      <4>5. timer' = FALSE
        BY <2>4 DEF StopUnderWay
      <4>. QED BY <1>2, <2>3, <4>1, <4>2, <4>3, <4>4, <4>5 DEF StopAnswered
    <3>3. CASE i # 1
      <4>1. i - 1 \in DOMAIN requests' /\ requests'[i - 1] = requests[i]
        BY <1>4, <3>1, <3>3
      <4>2. \A j \in DOMAIN requests' : j > i - 1 => ~Arming(requests'[j])
        BY <1>4, <1>5, <3>1
      <4>. QED BY <2>3, <2>4, <3>1, <4>1, <4>2 DEF StopUnderWay, Arming
    <3>. QED BY <3>2, <3>3
  <2>5. ASSUME Calm, mode = "off" PROVE Calm' /\ mode' = "off"
    BY <1>4, <1>5, <2>5 DEF Calm, Arming
  <2>6. CASE StopAnswered
    <3>1. PICK i \in DOMAIN replies :
            /\ replies[i].then = "stopped"
            /\ \A j \in DOMAIN replies : j >= i => replies[j].snap.mode = "off"
      BY <2>6 DEF StopAnswered
    <3>2. Calm' /\ mode' = "off"
      BY <2>5, <2>6 DEF StopAnswered
    <3>3. i \in DOMAIN replies' /\ replies'[i].then = "stopped"
          /\ \A j \in DOMAIN replies' : j >= i => replies'[j].snap.mode = "off"
      BY <1>2, <1>3, <3>1, <3>2
    <3>. QED BY <2>3, <2>6, <3>2, <3>3 DEF StopAnswered
  <2>7. CASE StopKnown
    <3>1. Calm' /\ mode' = "off"
      BY <2>5, <2>7 DEF StopKnown
    <3>. QED BY <1>3, <2>3, <2>7, <3>1 DEF StopKnown
  <2>. QED BY <1>8, <2>4, <2>6, <2>7 DEF PlanInv, AfterStop
<1>. QED BY <1>6, <1>7, <1>8 DEF PlanInv, AfterStop

\* What the desktop does with the plan and the mode for a call.
LEMMA DesktopKeeps ==
  ASSUME PlanInv, Desktop
  PROVE  PlanInv'
<1> DEFINE r == Head(requests)
<1>1. PlanTypeOK /\ mode \in Modes /\ plan \in Plans /\ evidence \in Plans
      /\ requests # <<>> /\ UNCHANGED <<view, edits, timer, clicks, stopped>>
  BY DEF PlanInv, PlanTypeOK, Desktop, window, history
<1>2. r \in CallType
  BY <1>1, TailIs DEF PlanTypeOK
<1>3. ASSUME NEW then \in Thens, NEW snap, snap = [mode |-> mode', plan |-> plan'],
             requests' = Tail(requests),
             replies' = Append(replies, [snap |-> snap, then |-> then, at |-> r.at, before |-> r.before]),
             mode' \in Modes, plan' \in Plans, evidence' \in Plans, EvidenceForContract',
             mode' # "off" => mode # "off" \/ Arming(r),
             then \in {"autopilot", "signals"} => then = r.then,
             r.kind = "stop" => mode' = "off" /\ then = "stopped"
      PROVE  PlanInv'
  <2> DEFINE m == [snap |-> snap, then |-> then, at |-> r.at, before |-> r.before]
  <2>1. m \in ReplyType /\ m.snap.mode = mode' /\ m.at = r.at /\ m.then = then
    BY <1>2, <1>3 DEF ReplyType, CallType
  <2>2. replies' = Append(replies, m)
    BY <1>3
  <2> HIDE DEF m
  <2>. QED BY <1>1, <1>3, <2>1, <2>2, AnswerKeeps
<1>4. ASSUME NEW then, Answered(then, r.at, r.before)
      PROVE  /\ requests' = Tail(requests) /\ Shown' = [mode |-> mode', plan |-> plan']
             /\ replies' = Append(replies, [snap |-> Shown', then |-> then, at |-> r.at, before |-> r.before])
  BY <1>4 DEF Answered, Shown
<1>5. CASE r.kind = "save" /\ Saved(r)
  <2>1. mode' = r.mode /\ plan' = r.plan /\ evidence' = [p \in Products |-> KeptEvidence(p, r.plan)]
        /\ Answered(r.then, r.at, r.before)
    BY <1>5 DEF Saved
  <2>2. mode' \in Modes /\ plan' \in Plans /\ r.then \in Thens
    BY <1>2, <2>1 DEF CallType
  <2>3. evidence' \in Plans /\ EvidenceForContract'
    BY <1>1, <2>1, <2>2 DEF PlanInv, EvidenceForContract, KeptEvidence, Plans
  <2>4. mode' # "off" => Arming(r)
    BY <1>5, <2>1 DEF Arming
  <2>. QED BY <1>3, <1>4, <1>5, <2>1, <2>2, <2>3, <2>4
<1>6. CASE r.kind = "save" /\ Refused(r)
  <2>1. UNCHANGED <<mode, plan, evidence>> /\ requests' = Tail(requests)
        /\ replies' = Append(replies, [snap |-> Shown, then |-> "error", at |-> r.at, before |-> r.before])
    BY <1>6 DEF Refused, settings
  <2>2. EvidenceForContract' /\ Shown = [mode |-> mode', plan |-> plan']
    BY <2>1 DEF PlanInv, EvidenceForContract, Shown
  <2>. QED BY <1>1, <1>3, <1>6, <2>1, <2>2 DEF Thens
<1>7. CASE r.kind = "stop" /\ Stopped(r)
  <2>1. mode' = "off" /\ UNCHANGED <<plan, evidence>> /\ Answered("stopped", r.at, r.before)
    BY <1>7 DEF Stopped
  <2>2. EvidenceForContract' /\ mode' \in Modes
    BY <2>1 DEF PlanInv, EvidenceForContract, Modes
  <2>. QED BY <1>1, <1>3, <1>4, <1>7, <2>1, <2>2 DEF Thens
<1>8. CASE r.kind = "open" /\ Opened(r)
  <2>1. UNCHANGED <<mode, plan, evidence>> /\ Answered("launched", r.at, r.before)
    BY <1>8 DEF Opened, settings
  <2>2. EvidenceForContract'
    BY <2>1 DEF PlanInv, EvidenceForContract
  <2>. QED BY <1>1, <1>3, <1>4, <1>8, <2>1, <2>2 DEF Thens
<1>9. CASE r.kind = "import" /\ Imported(r)
  <2>1. Answered("imported", r.at, r.before)
    BY <1>9 DEF Imported
  <2>2. plan' \in Plans /\ evidence' \in Plans /\ mode' = mode /\ EvidenceForContract'
    <3>1. CASE UNCHANGED settings
      BY <1>1, <3>1 DEF settings, PlanInv, EvidenceForContract
    <3>2. ASSUME NEW p \in Products, NEW c \in Contracts, Appendable(p), Appended(p, c)
          PROVE  plan' \in Plans /\ evidence' \in Plans /\ mode' = mode /\ EvidenceForContract'
      BY <3>2, AppendedTyped DEF Appendable
    <3>. QED BY <1>9, <3>1, <3>2 DEF Imported
  <2>. QED BY <1>1, <1>3, <1>4, <1>9, <2>1, <2>2 DEF Thens
<1>10. r.kind \in {"save", "stop", "open", "import"}
  BY <1>2 DEF CallType
<1>. QED BY <1>5, <1>6, <1>7, <1>8, <1>9, <1>10 DEF Desktop

\* The window handles an answer. It hears of Stop no later than of what follows it.
LEMMA ReceiveKeeps ==
  ASSUME PlanInv, Receive
  PROVE  PlanInv'
<1> DEFINE m == Head(replies)
<1>1. PlanTypeOK /\ replies # <<>> /\ replies' = Tail(replies) /\ NoPlan \in Plans
      /\ UNCHANGED <<mode, plan, evidence, timer, clicks, stopped>>
  BY DEF PlanInv, PlanTypeOK, Receive, settings, history, NoPlan, Plans
<1>2. /\ replies' \in Seq(ReplyType) /\ Len(replies) \in Nat
      /\ DOMAIN replies = 1 .. Len(replies) /\ 1 \in DOMAIN replies
      /\ DOMAIN replies' = 1 .. Len(replies) - 1
      /\ \A i \in 1 .. Len(replies) - 1 : replies'[i] = replies[i + 1]
      /\ m = replies[1] /\ m \in ReplyType
  BY <1>1, TailIs DEF PlanTypeOK
<1>3. \A i \in DOMAIN replies' : i + 1 \in DOMAIN replies /\ i + 1 > 1 /\ replies'[i] = replies[i + 1]
  BY <1>2
<1>4. view' = IF m.then = "error" THEN view ELSE m.snap
  BY DEF Receive
<1>5. edits' = IF SessionOpens(m) THEN [open |-> TRUE, resume |-> m.then, undo |-> <<>>]
               ELSE IF Recorded(m) THEN [edits EXCEPT !.undo = Append(@, m.before)]
               ELSE edits
  BY DEF Receive
<1>6. IF m.then = "launch" THEN Call("open", "off", NoPlan, "launched") ELSE UNCHANGED requests
  BY DEF Receive
<1> HIDE DEF m
<1>7. view' \in [mode : Modes, plan : Plans]
  BY <1>1, <1>2, <1>4 DEF PlanTypeOK, ReplyType
<1>8. edits' \in [open : BOOLEAN, resume : Modes, undo : Seq(Plans)]
      /\ (~Reopens(m) => edits'.resume = edits.resume)
  <2>1. edits \in [open : BOOLEAN, resume : Modes, undo : Seq(Plans)] /\ m.before \in Plans
    BY <1>1, <1>2 DEF PlanTypeOK, ReplyType
  <2>2. Append(edits.undo, m.before) \in Seq(Plans) /\ <<>> \in Seq(Plans)
    BY <2>1, AppendProperties
  <2>3. CASE SessionOpens(m)
    <3>1. m.then \in Modes /\ Reopens(m)
      BY <2>3 DEF SessionOpens, Modes, Reopens
    <3>. QED BY <1>5, <2>2, <2>3, <3>1
  <2>4. CASE ~SessionOpens(m) /\ Recorded(m)
    BY <1>5, <2>1, <2>2, <2>4
  <2>5. CASE ~SessionOpens(m) /\ ~Recorded(m)
    BY <1>5, <2>1, <2>5
  <2>. QED BY <2>3, <2>4, <2>5
\* The only call an answer makes opens pages.
<1>9. /\ requests' \in Seq(CallType)
      /\ \A i \in DOMAIN requests : i \in DOMAIN requests' /\ requests'[i] = requests[i]
      /\ \A i \in DOMAIN requests' :
           \/ i \in DOMAIN requests /\ requests'[i] = requests[i]
           \/ /\ ~Arming(requests'[i]) /\ requests'[i].then = "launched" /\ requests'[i].at <= clicks
  <2>1. CASE m.then = "launch"
    <3>1. PICK r \in CallType : /\ requests' = Append(requests, r) /\ r.at <= clicks
                                /\ r.kind = "open" /\ r.then = "launched"
      BY <1>1, <1>6, <2>1, CallTyped DEF Call, Modes, Thens
    <3>2. /\ requests' \in Seq(CallType) /\ Len(requests) \in Nat
          /\ DOMAIN requests = 1 .. Len(requests)
          /\ DOMAIN requests' = 1 .. Len(requests) + 1 /\ requests'[Len(requests) + 1] = r
          /\ \A i \in 1 .. Len(requests) : requests'[i] = requests[i]
      BY <1>1, <3>1, AppendedIs DEF PlanTypeOK
    <3>3. \A i \in DOMAIN requests' : requests'[i] = r \/ (i \in DOMAIN requests /\ requests'[i] = requests[i])
      BY <3>2
    <3>4. \A i \in DOMAIN requests : i \in DOMAIN requests' /\ requests'[i] = requests[i]
      BY <3>2
    <3>. QED BY <3>1, <3>2, <3>3, <3>4 DEF Arming
  <2>2. CASE m.then # "launch"
    BY <1>1, <1>6, <2>2 DEF PlanTypeOK
  <2>. QED BY <2>1, <2>2
<1>10. PlanTypeOK'
  BY <1>1, <1>2, <1>7, <1>8, <1>9 DEF PlanTypeOK
<1>11. AtsPast'
  BY <1>1, <1>3, <1>9 DEF PlanInv, AtsPast
<1>12. EvidenceForContract'
  BY <1>1 DEF PlanInv, EvidenceForContract
<1>13. ASSUME stopped PROVE NoSession' /\ (StopUnderWay' \/ StopAnswered' \/ StopKnown')
  <2>1. NoSession
    BY <1>13 DEF PlanInv, AfterStop
  <2>2. ~Reopens(m)
    BY <1>2, <2>1 DEF NoSession, Reopens
  <2>3. NoSession'
    <3>1. edits'.resume = "off"
      BY <1>8, <2>1, <2>2 DEF NoSession
    <3>2. \A i \in DOMAIN requests' : ~Reopens(requests'[i])
      BY <1>9, <2>1 DEF NoSession, Reopens
    <3>3. \A i \in DOMAIN replies' : ~Reopens(replies'[i])
      BY <1>3, <2>1 DEF NoSession
    <3>. QED BY <1>1, <3>1, <3>2, <3>3 DEF NoSession, Reopens
  <2>4. Calm => Calm'
    BY <1>9 DEF Calm, Arming
  <2>5. CASE StopUnderWay
    <3>1. PICK i \in DOMAIN requests :
            /\ requests[i].kind = "stop" /\ requests[i].then = "stopped"
            /\ \A j \in DOMAIN requests : j > i => ~Arming(requests[j])
      BY <2>5 DEF StopUnderWay
    <3>2. i \in DOMAIN requests' /\ requests'[i] = requests[i]
          /\ \A j \in DOMAIN requests' : j > i => ~Arming(requests'[j])
      BY <1>9, <3>1
    <3>. QED BY <1>1, <2>3, <2>5, <3>1, <3>2 DEF StopUnderWay, Arming
  <2>6. CASE StopAnswered
    <3>1. PICK i \in DOMAIN replies :
            /\ replies[i].then = "stopped"
            /\ \A j \in DOMAIN replies : j >= i => replies[j].snap.mode = "off"
      BY <2>6 DEF StopAnswered
    <3>2. CASE i = 1
      <4>1. view'.mode = "off"
        BY <1>2, <1>4, <3>1, <3>2
      <4>2. \A j \in DOMAIN replies' : replies'[j].snap.mode = "off"
        BY <1>2, <1>3, <3>1, <3>2
      <4>. QED BY <1>1, <2>3, <2>4, <2>6, <4>1, <4>2 DEF StopAnswered, StopKnown
    <3>3. CASE i # 1
      <4>1. i - 1 \in DOMAIN replies' /\ replies'[i - 1] = replies[i]
        BY <1>2, <3>1, <3>3
      <4>2. \A j \in DOMAIN replies' : j >= i - 1 => replies'[j].snap.mode = "off"
        BY <1>2, <1>3, <3>1
      <4>. QED BY <1>1, <2>3, <2>4, <2>6, <3>1, <4>1, <4>2 DEF StopAnswered
    <3>. QED BY <3>2, <3>3
  <2>7. CASE StopKnown
    <3>1. view'.mode = "off"
      BY <1>2, <1>4, <2>7 DEF StopKnown
    <3>2. \A j \in DOMAIN replies' : replies'[j].snap.mode = "off"
      BY <1>3, <2>7 DEF StopKnown
    <3>. QED BY <1>1, <2>3, <2>4, <2>7, <3>1, <3>2 DEF StopKnown
  <2>. QED BY <1>13, <2>5, <2>6, <2>7 DEF PlanInv, AfterStop
<1>. QED BY <1>1, <1>10, <1>11, <1>12, <1>13 DEF PlanInv, AfterStop

LEMMA PlanStarts == Init => PlanInv
<1> SUFFICES ASSUME Init PROVE PlanInv
  OBVIOUS
<1>1. NoPlan \in Plans /\ "off" \in Modes /\ <<>> \in Seq(CallType) /\ <<>> \in Seq(ReplyType)
  BY DEF NoPlan, Plans, Modes
<1>2. PlanTypeOK
  BY <1>1, NoEditsTyped DEF Init, PlanTypeOK, Shown
<1>. QED BY <1>2 DEF Init, PlanInv, EvidenceForContract, NoPlan, AtsPast, AfterStop

LEMMA PlanStep == PlanInv /\ [Next]_vars => PlanInv'
<1> SUFFICES ASSUME PlanInv, [Next]_vars PROVE PlanInv'
  OBVIOUS
<1>1. CASE UNCHANGED vars
  BY <1>1 DEF vars, settings, window, history, PlanInv, PlanTypeOK, EvidenceForContract, AtsPast,
     AfterStop, NoSession, StopUnderWay, StopAnswered, StopKnown, Calm, Arming, Reopens
<1>. QED BY <1>1, DesktopKeeps, ReceiveKeeps, GesturesKeep, StopClickKeeps, UpdatesKeep DEF Next

THEOREM PlanInvAlways == Spec => []PlanInv
BY PlanStarts, PlanStep, PTL DEF Spec

\* Once Stop was clicked and the calls under way are through, no purchase mode is on
\* until the operator asks for a run.
THEOREM StopHoldsAlways == Spec => []StopHolds
<1>1. PlanInv => StopHolds
  BY DEF PlanInv, AfterStop, StopHolds, StopUnderWay, StopAnswered, StopKnown, Armed
<1>. QED BY <1>1, PlanInvAlways, PTL

\* An approval is for the contract its mission has.
THEOREM EvidenceForContractAlways == Spec => []EvidenceForContract
<1>1. PlanInv => EvidenceForContract
  BY DEF PlanInv
<1>. QED BY <1>1, PlanInvAlways, PTL

\* An armed run works with the plan it was started with.
THEOREM ArmedPlanFrozenHolds == Spec => ArmedPlanFrozen
<1> DEFINE Frozen == Armed /\ mode' # "off" =>
             \A p \in Products : plan'[p] # plan[p] => mode = "signals" /\ plan[p] = None
<1>1. ASSUME PlanInv, Next PROVE Frozen
  <2>1. UNCHANGED plan => Frozen
    OBVIOUS
  <2>2. ASSUME NEW p \in Products, NEW c \in Contracts, plan[p] = None, Appended(p, c)
        PROVE  \A q \in Products : plan'[q] # plan[q] => plan[q] = None
    BY <1>1, <2>2, AppendedTyped
  <2>3. CASE Desktop
    <3> DEFINE r == Head(requests)
    <3>1. ASSUME Saved(r) PROVE Frozen
      BY <3>1 DEF Saved, SafeUpdate
    <3>2. ASSUME Refused(r) \/ Stopped(r) \/ Opened(r) PROVE UNCHANGED plan
      BY <3>2 DEF Refused, Stopped, Opened, settings
    <3>3. ASSUME Imported(r) PROVE Frozen
      BY <2>1, <3>3 DEF Imported, Appendable, settings
    <3>4. r.kind \in {"save", "stop", "open", "import"}
      <4>1. r \in CallType
        BY <1>1, <2>3, TailIs DEF Desktop, PlanInv, PlanTypeOK
      <4>. QED BY <4>1 DEF CallType
    <3>. QED BY <2>1, <2>3, <3>1, <3>2, <3>3, <3>4 DEF Desktop
  <2>4. ASSUME NEW p \in Products, QuickAdd(p) \/ SignalAdds(p) \/ Preflight(p) PROVE Frozen
    <3>1. CASE QuickAdd(p)
      BY <3>1 DEF QuickAdd, Appendable
    <3>2. CASE SignalAdds(p)
      BY <2>2, <3>2 DEF SignalAdds
    <3>3. CASE Preflight(p)
      BY <3>3 DEF Preflight
    <3>. QED BY <2>4, <3>1, <3>2, <3>3
  <2>5. CASE Receive \/ BeginEdit \/ Reorder \/ Import \/ ChangeSetting \/ TimerFires \/ Undo
             \/ FinishEdit \/ EndRun \/ StopClick
    BY <2>5 DEF Receive, BeginEdit, Reorder, Import, ChangeSetting, TimerFires, Undo,
       FinishEdit, EndRun, StopClick, settings
  <2>6. ASSUME NEW m \in {"autopilot", "signals"}, StartRun(m) PROVE Frozen
    BY <2>6 DEF StartRun, settings
  <2>7. ASSUME NEW p \in Products, NEW c \in Contracts \cup {None}, Edit(p, c) PROVE Frozen
    BY <2>7 DEF Edit, settings
  <2>. QED BY <1>1, <2>3, <2>4, <2>5, <2>6, <2>7 DEF Next
<1>2. PlanInv /\ [Next]_vars => [Frozen]_vars
  BY <1>1
<1>. QED BY <1>2, PlanInvAlways, PTL DEF Spec, ArmedPlanFrozen

-----------------------------------------------------------------------------
(* The review of an order.                                                 *)

Skus0     == Missions \cup {Other}
Sellers   == {"store", "third", "blank"}
PageType  == [cart : Seq(Skus0), unit : [Missions -> Prices], qty : [Missions -> Nat \ {0}],
              shows : Displays, seller : Sellers, account : Accounts, mode : BOOLEAN,
              flags : SUBSET Flags]
ProofType == [price : Nat, firstParty : BOOLEAN, source : {"product", "cart"}, age : Nat,
              lines : Nat, sku : Skus0 \cup {Nothing}]
ReadSteps == {"idle", "reading", "read", "reviewed", "granted", "reread", "intent"}

\* What a page must be for its order to be one that was asked for.
WithinCaps(p) ==
  /\ Total(p) <= Len(p.cart) * TotalCap
  /\ \A m \in Missions \cap ToSet(p.cart) :
       p.unit[m] <= UnitCap \/ (p.shows = "none" /\ m \in seen) \/ TakenForSubtotal(m, p)

OnlyMissions(p) ==
  /\ IsInjective(p.cart) /\ ToSet(p.cart) \subseteq Missions
  /\ ~combined => Len(p.cart) = 1
  /\ \A i \in DOMAIN p.cart : p.qty[p.cart[i]] = Quantity \/ "hidden" \in p.flags

Proper(p) == WithinCaps(p) /\ OnlyMissions(p)

ReviewTypeOK ==
  /\ page \in PageType
  /\ proofs \in [Missions -> ProofType \cup {Nothing}]
  /\ carted \subseteq Missions
  /\ DOMAIN checkout = {"step", "mission", "lines", "expected"}
  /\ checkout.step \in ReadSteps
  /\ checkout.step # "idle" => checkout.mission \in Missions

\* A page that stands still is the page that was read; an intent rests on its verdict.
ReviewInv ==
  /\ ReviewTypeOK
  /\ Missions \cap ToSet(page.cart) \subseteq seen
  /\ order # Nothing => checkout.step = "idle"
  /\ still /\ checkout.step = "reread" => checkout.lines = LinesOf(page)
  /\ still /\ checkout.step = "intent" => Proper(page)
  /\ Placed => Proper(order)

LEMMA Cancelled ==
  ASSUME NEW a \in Nat, NEW b \in Nat, NEW q \in Nat \ {0}, a * q = b * q
  PROVE  a = b
OBVIOUS

\* A line that is proven is within the cap, hidden, or taken for a subtotal.
LEMMA ProvenLine ==
  ASSUME page \in PageType, proofs \in [Missions -> ProofType \cup {Nothing}],
         NEW m \in Missions, m \in seen, NEW n, LineProven(m, Line(m, page), n)
  PROVE  /\ page.unit[m] <= UnitCap \/ (page.shows = "none" /\ m \in seen) \/ TakenForSubtotal(m, page)
         /\ page.qty[m] = Quantity \/ "hidden" \in page.flags
<1> DEFINE l == Line(m, page)
           proof == proofs[m]
           a == Anchor(proof)
<1>1. /\ page.unit[m] \in Nat \ {0} /\ page.qty[m] \in Nat \ {0} /\ page.shows \in {"unit", "sum", "none"}
      /\ Quantity \in Nat \ {0} /\ UnitCap \in Nat \ {0}
  BY ReviewAssumption DEF PageType
<1>2. /\ l.qty \in {0, page.qty[m]} /\ (l.qty = 0 => "hidden" \in page.flags) /\ l.qty \in {0, Quantity}
  BY <1>1 DEF Line, LineProven
<1>3. page.qty[m] = Quantity \/ "hidden" \in page.flags
  BY <1>1, <1>2
<1>4. a \in Nat
  BY DEF Anchor, ProofType
<1>5. UnitPrice(l, proof) > 0 /\ UnitPrice(l, proof) <= UnitCap
  BY DEF LineProven, LineOk, ValidOffer
<1>6. page.unit[m] * page.qty[m] \in Nat \ {0} /\ page.unit[m] <= page.unit[m] * page.qty[m]
  <2>1. PICK a0 \in Nat \ {0}, b0 \in Nat \ {0} : a0 = page.unit[m] /\ b0 = page.qty[m]
    BY <1>1
  <2>2. a0 * b0 \in Nat \ {0} /\ a0 <= a0 * b0
    OBVIOUS
  <2>. QED BY <2>1, <2>2
<1>7. page.unit[m] <= UnitCap \/ page.shows = "none" \/ TakenForSubtotal(m, page)
  <2>1. CASE page.shows = "none"
    BY <2>1
  <2>2. CASE page.shows = "unit"
    <3>1. l.price = page.unit[m]
      BY <2>2 DEF Line
    <3>2. CASE l.qty > 1 /\ l.price > UnitCap /\ l.price = a * l.qty
      <4>1. l.qty = Quantity /\ Quantity > 1
        BY <1>1, <1>2, <3>2
      <4>2. UnitPrice(l, proof) = a
        BY <3>2 DEF UnitPrice
      <4>3. a \in 1 .. UnitCap
        BY <1>1, <1>4, <1>5, <4>2
      <4>. QED BY <2>2, <3>1, <3>2, <4>1, <4>3 DEF TakenForSubtotal
    <3>3. CASE ~(l.qty > 1 /\ l.price > UnitCap /\ l.price = a * l.qty)
      <4>1. l.price # 0
        BY <1>1, <3>1
      <4>2. UnitPrice(l, proof) = l.price
        BY <3>3, <4>1 DEF UnitPrice
      <4>. QED BY <1>5, <3>1, <4>2
    <3>. QED BY <3>2, <3>3
  <2>3. CASE page.shows = "sum"
    <3>1. l.price = page.unit[m] * page.qty[m]
      BY <2>3 DEF Line
    <3>2. CASE l.qty > 1 /\ l.price > UnitCap /\ l.price = a * l.qty
      <4>1. l.qty = page.qty[m]
        BY <1>1, <1>2, <3>2
      <4>2. UnitPrice(l, proof) = a
        BY <3>2 DEF UnitPrice
      <4>3. page.unit[m] * page.qty[m] = a * page.qty[m]
        BY <3>1, <3>2, <4>1
      <4>4. page.unit[m] = a
        BY <1>1, <1>4, <4>3, Cancelled
      <4>. QED BY <1>5, <4>2, <4>4
    <3>3. CASE ~(l.qty > 1 /\ l.price > UnitCap /\ l.price = a * l.qty)
      <4>1. UnitPrice(l, proof) = l.price
        BY <1>6, <3>1, <3>3 DEF UnitPrice
      <4>2. page.unit[m] * page.qty[m] <= UnitCap
        BY <1>5, <3>1, <4>1
      <4>3. page.unit[m] <= UnitCap
        <5> DEFINE x == page.unit[m] * page.qty[m]
        <5>1. x \in Nat /\ page.unit[m] <= x /\ x <= UnitCap /\ page.unit[m] \in Nat
          BY <1>1, <1>6, <4>2
        <5> HIDE DEF x
        <5>. QED BY <1>1, <5>1
      <4>. QED BY <4>3
    <3>. QED BY <3>2, <3>3
  <2>. QED BY <1>1, <2>1, <2>2, <2>3
<1>. QED BY <1>3, <1>7

LEMMA CartIs ==
  ASSUME page \in PageType
  PROVE  /\ page.cart \in Seq(Skus0) /\ Len(page.cart) \in Nat /\ DOMAIN page.cart = 1 .. Len(page.cart)
         /\ ToSet(page.cart) = {page.cart[i] : i \in DOMAIN page.cart}
         /\ \A m \in Missions \cap ToSet(page.cart) : LinesOf(page).line[m] = Line(m, page)
         /\ LinesOf(page).inventory.skus = page.cart
<1>1. page.cart \in Seq(Skus0)
  BY DEF PageType
<1>. QED BY <1>1, LenProperties DEF ToSet, LinesOf, Inventory

LEMMA CappedTotal ==
  ASSUME NEW n, Capped(OrderTotal(page), n)
  PROVE  Total(page) <= n * TotalCap
BY DEF Capped, OrderTotal

LEMMA CountedOnce ==
  ASSUME page \in PageType, IsInjective(page.cart)
  PROVE  Cardinality(ToSet(page.cart)) = Len(page.cart)
<1> DEFINE n == Len(page.cart)
           S == ToSet(page.cart)
<1>1. n \in Nat /\ DOMAIN page.cart = 1 .. n /\ S = {page.cart[i] : i \in 1 .. n}
  BY CartIs
<1>2. page.cart \in [1 .. n -> S]
  <2>1. page.cart \in [1 .. n -> Skus0]
    BY CartIs, LenProperties
  <2>. QED BY <1>1, <2>1
<1>3. \A t \in S : \E i \in 1 .. n : page.cart[i] = t
  BY <1>1
<1>4. \A i, j \in 1 .. n : page.cart[i] = page.cart[j] => i = j
  BY <1>1 DEF IsInjective
<1>5. page.cart \in Bijection(1 .. n, S)
  BY <1>2, <1>3, <1>4, Fun_IsBij
<1>6. ExistsBijection(1 .. n, S)
  BY <1>5 DEF ExistsBijection
<1>. QED BY <1>1, <1>6, FS_CountingElements

\* A page that passes its review, read while it stood still, is a proper one.
LEMMA VerdictIsProper ==
  ASSUME ReviewTypeOK, Missions \cap ToSet(page.cart) \subseteq seen, checkout.mission \in Missions,
         Verdict(LinesOf(page), page)
  PROVE  Proper(page)
<1> DEFINE read == LinesOf(page)
<1>1. page \in PageType /\ proofs \in [Missions -> ProofType \cup {Nothing}] /\ carted \subseteq Missions
  BY DEF ReviewTypeOK
<1>2. CASE ~combined
  <2> DEFINE m == checkout.mission
  <2>1. SingleSafe(m, read, page)
    BY <1>2 DEF Verdict, SingleReview
  <2>2. page.cart = <<m>>
    BY <1>1, <2>1, CartIs DEF SingleSafe, SingleCart
  <2>3. Len(page.cart) = 1 /\ DOMAIN page.cart = {1} /\ page.cart[1] = m /\ ToSet(page.cart) = {m}
    BY <2>2 DEF ToSet
  <2>4. m \in seen /\ LineProven(m, Line(m, page), 1)
    BY <1>1, <2>1, <2>3, CartIs DEF SingleSafe
  <2>5. Total(page) <= Len(page.cart) * TotalCap
    BY <2>1, <2>3, CappedTotal DEF SingleSafe
  <2>6. WithinCaps(page)
    BY <1>1, <2>3, <2>4, <2>5, ProvenLine DEF WithinCaps
  <2>7. OnlyMissions(page)
    BY <1>1, <2>3, <2>4, ProvenLine DEF OnlyMissions, IsInjective
  <2>. QED BY <2>6, <2>7 DEF Proper
<1>3. CASE combined
  <2>1. CombinedSafe(carted, read, page)
    BY <1>3 DEF Verdict, CombinedReview
  <2>2. IsInjective(page.cart) /\ ToSet(page.cart) = carted
    BY <1>1, <2>1, CartIs DEF CombinedSafe
  <2>3. \A m \in carted : m \in Missions /\ m \in seen /\ LineProven(m, Line(m, page), Cardinality(carted))
    BY <1>1, <2>1, <2>2, CartIs DEF CombinedSafe
  <2>4. Total(page) <= Len(page.cart) * TotalCap
    <3>1. Total(page) <= Cardinality(carted) * TotalCap
      BY <2>1, CappedTotal DEF CombinedSafe
    <3>2. Cardinality(carted) = Len(page.cart)
      BY <1>1, <2>2, CountedOnce
    <3>. QED BY <3>1, <3>2
  <2>5. \A m \in carted :
          /\ page.unit[m] <= UnitCap \/ (page.shows = "none" /\ m \in seen) \/ TakenForSubtotal(m, page)
          /\ page.qty[m] = Quantity \/ "hidden" \in page.flags
    BY <1>1, <2>3, ProvenLine
  <2>6. WithinCaps(page)
    BY <2>2, <2>4, <2>5 DEF WithinCaps
  <2>7. OnlyMissions(page)
    BY <1>1, <1>3, <2>2, <2>5, CartIs DEF OnlyMissions
  <2>. QED BY <2>6, <2>7 DEF Proper
<1>. QED BY <1>2, <1>3

LEMMA PageStarts == Page0 \in PageType /\ ToSet(Page0.cart) = {}
<1>1. (CHOOSE x \in Prices : x <= UnitCap) \in Prices
  BY ReviewAssumption
<1>2. (CHOOSE d \in Displays : TRUE) \in Displays /\ (CHOOSE a \in Accounts : TRUE) \in Accounts
  BY ReviewAssumption
<1>3. Quantity \in Nat \ {0} /\ <<>> \in Seq(Skus0) /\ {} \in SUBSET Flags
  BY ReviewAssumption
<1>4. Page0 \in PageType
  BY <1>1, <1>2, <1>3 DEF Page0, PageType, Sellers
<1>5. Page0.cart = <<>>
  BY DEF Page0
<1>. QED BY <1>4, <1>5 DEF ToSet

LEMMA ReviewStarts == ReviewInit => ReviewInv
<1> SUFFICES ASSUME ReviewInit PROVE ReviewInv
  OBVIOUS
<1>1. /\ page = Page0 /\ proofs = [m \in Missions |-> Nothing] /\ carted = {} /\ checkout = NoCheckout
      /\ order = Nothing /\ still = FALSE
  BY DEF ReviewInit
<1>2. /\ DOMAIN NoCheckout = {"step", "mission", "lines", "expected"} /\ NoCheckout.step = "idle"
  BY DEF NoCheckout
<1>3. ReviewTypeOK
  BY <1>1, <1>2, PageStarts DEF ReviewTypeOK, ReadSteps
<1>. QED BY <1>1, <1>2, <1>3, PageStarts DEF ReviewInv, Placed

\* The page and the reading stay; what was still is still.
LEMMA ReviewFrame ==
  ASSUME ReviewInv, UNCHANGED <<combined, page, order, seen>>, ReviewTypeOK',
         UNCHANGED <<checkout, still>>
         \/ (order = Nothing /\ checkout'.step \notin {"reread", "intent"})
  PROVE  ReviewInv'
<1>1. LinesOf(page)' = LinesOf(page) /\ Proper(page)' = Proper(page) /\ Proper(order)' = Proper(order)
  BY DEF Proper, WithinCaps, OnlyMissions
<1>2. ToSet(page.cart)' = ToSet(page.cart)
  BY DEF ToSet
<1>. QED BY <1>1, <1>2 DEF ReviewInv, Placed

\* The page changes under the script, before anything is ordered.
LEMMA PageFrame ==
  ASSUME ReviewInv, UNCHANGED <<order, proofs, carted, checkout>>, order = Nothing,
         page' \in PageType, Missions \cap ToSet(page'.cart) \subseteq seen',
         still' = FALSE \/ (checkout.step = "idle" /\ UNCHANGED still)
  PROVE  ReviewInv'
BY DEF ReviewInv, ReviewTypeOK, Placed

\* Another product in the cart, in front or behind, or one less.
LEMMA CartsTyped ==
  ASSUME page \in PageType, NEW m \in Skus0
  PROVE  /\ Append(page.cart, m) \in Seq(Skus0)
         /\ ToSet(Append(page.cart, m)) = ToSet(page.cart) \cup {m}
         /\ <<m>> \o page.cart \in Seq(Skus0)
         /\ ToSet(<<m>> \o page.cart) = ToSet(page.cart) \cup {m}
         /\ Len(page.cart) > 1 =>
              Tail(page.cart) \in Seq(Skus0) /\ ToSet(Tail(page.cart)) \subseteq ToSet(page.cart)
<1> DEFINE q == page.cart
           n == Len(q)
<1>1. q \in Seq(Skus0) /\ n \in Nat /\ DOMAIN q = 1 .. n
  BY CartIs
<1>2. /\ Append(q, m) \in Seq(Skus0) /\ DOMAIN Append(q, m) = 1 .. n + 1
      /\ Append(q, m)[n + 1] = m /\ \A i \in 1 .. n : Append(q, m)[i] = q[i]
  BY <1>1, AppendedIs
<1>3. ToSet(Append(q, m)) = ToSet(q) \cup {m}
  BY <1>1, <1>2 DEF ToSet
<1>4. /\ <<m>> \o q \in Seq(Skus0) /\ Len(<<m>> \o q) = n + 1
      /\ \A i \in 1 .. n + 1 : (<<m>> \o q)[i] = IF i <= 1 THEN m ELSE q[i - 1]
  <2>1. <<m>> \in Seq(Skus0) /\ Len(<<m>>) = 1 /\ <<m>>[1] = m
    OBVIOUS
  <2>2. /\ <<m>> \o q \in Seq(Skus0) /\ Len(<<m>> \o q) = 1 + n
        /\ \A i \in 1 .. 1 + n : (<<m>> \o q)[i] = IF i <= 1 THEN <<m>>[i] ELSE q[i - 1]
    BY <1>1, <2>1, ConcatProperties
  <2>. QED BY <1>1, <2>1, <2>2
<1>5. ToSet(<<m>> \o q) = ToSet(q) \cup {m}
  <2> DEFINE w == <<m>> \o q
  <2>1. DOMAIN w = 1 .. n + 1 /\ w[1] = m
    BY <1>1, <1>4, LenProperties
  <2>2. \A i \in 1 .. n + 1 : w[i] \in ToSet(q) \cup {m}
    <3> SUFFICES ASSUME NEW i \in 1 .. n + 1, ~(i <= 1) PROVE w[i] \in ToSet(q)
      BY <1>1, <1>4
    <3>1. i - 1 \in 1 .. n /\ w[i] = q[i - 1]
      BY <1>1, <1>4
    <3>. QED BY <1>1, <3>1 DEF ToSet
  <2>3. \A i \in 1 .. n : i + 1 \in 1 .. n + 1 /\ w[i + 1] = q[i]
    BY <1>1, <1>4
  <2> HIDE DEF w
  <2>4. ToSet(w) \subseteq ToSet(q) \cup {m}
    BY <2>1, <2>2 DEF ToSet
  <2>5. ToSet(q) \subseteq ToSet(w)
    BY <1>1, <2>1, <2>3 DEF ToSet
  <2>6. m \in ToSet(w)
    BY <1>1, <2>1 DEF ToSet
  <2>. QED BY <2>4, <2>5, <2>6 DEF w
<1>6. ASSUME n > 1
      PROVE  Tail(q) \in Seq(Skus0) /\ ToSet(Tail(q)) \subseteq ToSet(q)
  <2>1. q # <<>>
    BY <1>6
  <2>2. /\ Tail(q) \in Seq(Skus0) /\ DOMAIN Tail(q) = 1 .. n - 1
        /\ \A i \in 1 .. n - 1 : Tail(q)[i] = q[i + 1]
    BY <1>1, <2>1, TailIs
  <2>3. \A i \in 1 .. n - 1 : i + 1 \in 1 .. n
    BY <1>1
  <2>. QED BY <1>1, <2>2, <2>3 DEF ToSet
<1>. QED BY <1>2, <1>3, <1>4, <1>5, <1>6

LEMMA PagesTyped ==
  ASSUME page \in PageType, NEW p, Alters(p) \/ \E m \in Missions : p = [page EXCEPT !.qty[m] = Quantity]
  PROVE  p \in PageType /\ ToSet(p.cart) \subseteq ToSet(page.cart) \cup {Other}
<1>1. /\ page.cart \in Seq(Skus0) /\ page.unit \in [Missions -> Prices]
      /\ page.qty \in [Missions -> Nat \ {0}] /\ page.flags \in SUBSET Flags
  BY DEF PageType
<1>2. Quantity \in Nat \ {0}
  BY ReviewAssumption
\* Nothing but the cart is replaced, or the cart.
<1>3. ASSUME NEW u \in [Missions -> Prices], p = [page EXCEPT !.unit = u] PROVE p \in PageType /\ p.cart = page.cart
  BY <1>3 DEF PageType
<1>4. ASSUME NEW u \in [Missions -> Nat \ {0}], p = [page EXCEPT !.qty = u] PROVE p \in PageType /\ p.cart = page.cart
  BY <1>4 DEF PageType
<1>5. ASSUME NEW c \in Seq(Skus0), p = [page EXCEPT !.cart = c] PROVE p \in PageType /\ p.cart = c
  BY <1>5 DEF PageType
<1>6. ASSUME NEW m \in Missions, NEW x \in Prices, p = [page EXCEPT !.unit[m] = x]
      PROVE  p \in PageType /\ p.cart = page.cart
  <2>1. p = [page EXCEPT !.unit = [page.unit EXCEPT ![m] = x]] /\ [page.unit EXCEPT ![m] = x] \in [Missions -> Prices]
    BY <1>1, <1>6
  <2>. QED BY <1>3, <2>1
<1>7. ASSUME NEW m \in Missions, NEW x \in Nat \ {0}, p = [page EXCEPT !.qty[m] = x]
      PROVE  p \in PageType /\ p.cart = page.cart
  <2>1. p = [page EXCEPT !.qty = [page.qty EXCEPT ![m] = x]] /\ [page.qty EXCEPT ![m] = x] \in [Missions -> Nat \ {0}]
    BY <1>1, <1>7
  <2>. QED BY <1>4, <2>1
<1>8. CASE \E m \in Missions : p = [page EXCEPT !.qty[m] = Quantity]
  BY <1>2, <1>7, <1>8
<1>9. CASE Alters(p)
  <2>1. CASE \E m \in Missions : \/ \E x \in Prices : p = [page EXCEPT !.unit[m] = x]
                                 \/ \E n \in 1 .. Quantity + 1 : p = [page EXCEPT !.qty[m] = n]
    <3>1. \A n \in 1 .. Quantity + 1 : n \in Nat \ {0}
      BY <1>2
    <3>. QED BY <1>6, <1>7, <2>1, <3>1
  <2>2. ASSUME NEW d \in Displays, p = [page EXCEPT !.shows = d] PROVE p \in PageType /\ p.cart = page.cart
    BY <2>2 DEF PageType
  <2>3. ASSUME NEW s \in Sellers, p = [page EXCEPT !.seller = s] PROVE p \in PageType /\ p.cart = page.cart
    BY <2>3 DEF PageType
  <2>4. ASSUME NEW a \in Accounts, p = [page EXCEPT !.account = a] PROVE p \in PageType /\ p.cart = page.cart
    BY <2>4 DEF PageType
  <2>5. ASSUME NEW f \in Flags, p = [page EXCEPT !.flags = SymDiff(@, {f})] PROVE p \in PageType /\ p.cart = page.cart
    <3>1. SymDiff(page.flags, {f}) \in SUBSET Flags
      BY <1>1 DEF SymDiff
    <3>2. p = [page EXCEPT !.flags = SymDiff(page.flags, {f})]
      BY <2>5
    <3>. QED BY <3>1, <3>2 DEF PageType
  <2>6. ASSUME p = [page EXCEPT !.mode = ~@] PROVE p \in PageType /\ p.cart = page.cart
    <3>1. (~page.mode) \in BOOLEAN
      OBVIOUS
    <3>2. p = [page EXCEPT !.mode = ~page.mode]
      BY <2>6
    <3>. QED BY <3>1, <3>2 DEF PageType
  <2>7. ASSUME p = [page EXCEPT !.cart = Append(@, Other)]
        PROVE  p \in PageType /\ ToSet(p.cart) \subseteq ToSet(page.cart) \cup {Other}
    <3>1. Other \in Skus0
      BY DEF Skus0
    <3>2. Append(page.cart, Other) \in Seq(Skus0) /\ p = [page EXCEPT !.cart = Append(page.cart, Other)]
      BY <2>7, <3>1, CartsTyped
    <3>. QED BY <1>5, <3>1, <3>2, CartsTyped
  <2>8. ASSUME Len(page.cart) > 1, p = [page EXCEPT !.cart = Tail(@)]
        PROVE  p \in PageType /\ ToSet(p.cart) \subseteq ToSet(page.cart) \cup {Other}
    <3>1. Other \in Skus0
      BY DEF Skus0
    <3>2. Tail(page.cart) \in Seq(Skus0) /\ ToSet(Tail(page.cart)) \subseteq ToSet(page.cart)
      BY <2>8, <3>1, CartsTyped
    <3>3. p = [page EXCEPT !.cart = Tail(page.cart)]
      BY <2>8
    <3>. QED BY <1>5, <3>2, <3>3
  <2>. QED BY <1>9, <2>1, <2>2, <2>3, <2>4, <2>5, <2>6, <2>7, <2>8 DEF Alters, Sellers
<1>. QED BY <1>8, <1>9

\* One mission's proof, one step of the checkout.
LEMMA ProofTyped ==
  ASSUME page \in PageType, proofs \in [Missions -> ProofType \cup {Nothing}]
  PROVE  /\ \A m \in Missions : Proof(page.unit[m], "product", <<>>) \in ProofType
         /\ \A price \in Nat : page.cart # <<>> => Proof(price, "cart", Inventory(page)) \in ProofType
         /\ \A m \in Missions : Older(proofs[m]) \in ProofType \cup {Nothing}
<1>1. \A m \in Missions : page.unit[m] \in Nat
  BY ReviewAssumption DEF PageType
<1>2. \A m \in Missions : Proof(page.unit[m], "product", <<>>) \in ProofType
  BY <1>1 DEF Proof, ProofType
<1>3. ASSUME NEW price \in Nat, page.cart # <<>>
      PROVE  Proof(price, "cart", Inventory(page)) \in ProofType
  <2>1. /\ page.cart \in Seq(Skus0) /\ Len(page.cart) \in Nat /\ Len(page.cart) # 0
        /\ DOMAIN page.cart = 1 .. Len(page.cart)
    BY <1>3, CartIs, EmptySeq
  <2>2. page.cart[1] \in Skus0
    BY <2>1
  <2>. QED BY <2>1, <2>2 DEF Proof, ProofType, Inventory
<1>4. ASSUME NEW m \in Missions PROVE Older(proofs[m]) \in ProofType \cup {Nothing}
  <2>1. CASE proofs[m] = Nothing
    BY <2>1 DEF Older
  <2>2. CASE proofs[m] # Nothing
    <3>1. proofs[m] \in ProofType
      BY <2>2
    <3>2. PICK n \in Nat : Older(proofs[m]) = [proofs[m] EXCEPT !.age = n]
      <4>1. proofs[m].age \in Nat /\ proofs[m].age + 1 \in Nat
        BY <3>1 DEF ProofType
      <4>2. PICK n \in {proofs[m].age, proofs[m].age + 1} : Older(proofs[m]) = [proofs[m] EXCEPT !.age = n]
        BY <2>2 DEF Older
      <4>. QED BY <4>1, <4>2
    <3>. QED BY <3>1, <3>2 DEF ProofType
  <2>. QED BY <2>1, <2>2
<1>. QED BY <1>2, <1>3, <1>4

LEMMA PriceTyped ==
  ASSUME page \in PageType, proofs \in [Missions -> ProofType \cup {Nothing}], NEW m \in Missions,
         NEW backing \in {proofs[m], Nothing}
  PROVE  UnitPrice(Line(m, page), backing) \in Nat
<1>1. page.unit[m] \in Nat \ {0} /\ page.qty[m] \in Nat \ {0}
  BY ReviewAssumption DEF PageType
<1>2. page.unit[m] * page.qty[m] \in Nat
  BY <1>1
<1>3. Line(m, page).price \in Nat
  BY <1>1, <1>2 DEF Line
<1>4. Anchor(backing) \in Nat
  BY DEF Anchor, ProofType
<1>. QED BY <1>3, <1>4 DEF UnitPrice

\* The checkout as a whole moves on, or is given up.
LEMMA CheckoutTyped ==
  /\ DOMAIN NoCheckout = {"step", "mission", "lines", "expected"} /\ NoCheckout.step = "idle"
  /\ \A c, s : DOMAIN c = {"step", "mission", "lines", "expected"} =>
       LET d == [c EXCEPT !.step = s]
       IN /\ DOMAIN d = DOMAIN c /\ d.step = s /\ d.mission = c.mission /\ d.lines = c.lines
  /\ \A c, s, l : DOMAIN c = {"step", "mission", "lines", "expected"} =>
       LET d == [c EXCEPT !.step = s, !.lines = l]
       IN /\ DOMAIN d = DOMAIN c /\ d.step = s /\ d.mission = c.mission /\ d.lines = l
<1>1. DOMAIN NoCheckout = {"step", "mission", "lines", "expected"} /\ NoCheckout.step = "idle"
  BY DEF NoCheckout
<1>. QED BY <1>1

LEMMA CartActions ==
  ASSUME ReviewInv, NEW m \in Missions, Add(m) \/ SetQuantity(m) \/ CartPage(m) \/ OpenCheckout(m)
  PROVE  ReviewInv'
<1>1. /\ page \in PageType /\ proofs \in [Missions -> ProofType \cup {Nothing}] /\ carted \subseteq Missions
      /\ m \in Skus0 /\ Missions \cap ToSet(page.cart) \subseteq seen
  BY DEF ReviewInv, ReviewTypeOK, Skus0
<1>2. CASE Add(m)
  <2>1. PICK cart \in {Append(page.cart, m), <<m>> \o page.cart} : page' = [page EXCEPT !.cart = cart]
    BY <1>2 DEF Add
  <2>2. cart \in Seq(Skus0) /\ ToSet(cart) = ToSet(page.cart) \cup {m}
    BY <1>1, CartsTyped
  <2>3. page' \in PageType /\ page'.cart = cart
    BY <1>1, <2>1, <2>2 DEF PageType
  <2>4. /\ proofs' = [proofs EXCEPT ![m] = Proof(page.unit[m], "product", <<>>)] /\ seen' = seen \cup {m}
        /\ still' = FALSE /\ order = Nothing /\ UNCHANGED <<carted, checkout, order>>
    BY <1>2 DEF Add
  <2>5. proofs' \in [Missions -> ProofType \cup {Nothing}]
    BY <1>1, <2>4, ProofTyped
  <2>. QED BY <1>1, <2>2, <2>3, <2>4, <2>5 DEF ReviewInv, ReviewTypeOK, Placed
<1>3. CASE SetQuantity(m)
  <2>1. page' = [page EXCEPT !.qty[m] = Quantity] /\ checkout.step = "idle" /\ order = Nothing
        /\ UNCHANGED <<order, proofs, carted, checkout, still, seen>>
    BY <1>3 DEF SetQuantity
  <2>2. page' \in PageType /\ page'.cart = page.cart
    <3>1. page.qty \in [Missions -> Nat \ {0}] /\ Quantity \in Nat \ {0}
      BY <1>1, ReviewAssumption DEF PageType
    <3>2. [page.qty EXCEPT ![m] = Quantity] \in [Missions -> Nat \ {0}]
      BY <3>1
    <3>3. page' = [page EXCEPT !.qty = [page.qty EXCEPT ![m] = Quantity]]
      BY <2>1
    <3>. QED BY <1>1, <3>2, <3>3 DEF PageType
  <2>. QED BY <1>1, <2>1, <2>2, PageFrame
<1>4. CASE CartPage(m)
  <2>1. /\ order = Nothing /\ m \in ToSet(page.cart) /\ carted' = carted \cup {m}
        /\ UNCHANGED <<combined, page, checkout, order, still, seen>>
    BY <1>4 DEF CartPage, context
  <2>2. page.cart # <<>>
    BY <1>1, <2>1 DEF ToSet
  <2>3. proofs' \in [Missions -> ProofType \cup {Nothing}]
    <3>1. PICK backing \in {proofs[m], Nothing} :
            proofs' \in {proofs, [proofs EXCEPT ![m] = Proof(UnitPrice(Line(m, page), backing), "cart", Inventory(page))]}
      BY <1>4 DEF CartPage
    <3>2. Proof(UnitPrice(Line(m, page), backing), "cart", Inventory(page)) \in ProofType
      BY <1>1, <2>2, PriceTyped, ProofTyped
    <3>. QED BY <1>1, <3>1, <3>2
  <2>4. ReviewTypeOK'
    BY <2>1, <2>3 DEF ReviewInv, ReviewTypeOK
  <2>. QED BY <2>1, <2>4, ReviewFrame
<1>5. CASE OpenCheckout(m)
  <2>1. /\ order = Nothing /\ UNCHANGED <<combined, page, proofs, carted, order, seen>>
        /\ checkout' = [NoCheckout EXCEPT !.step = "reading", !.mission = m]
    BY <1>5 DEF OpenCheckout, context
  <2>2. /\ DOMAIN checkout' = {"step", "mission", "lines", "expected"}
        /\ checkout'.step = "reading" /\ checkout'.mission = m
    BY <2>1 DEF NoCheckout
  <2>3. ReviewTypeOK'
    BY <2>1, <2>2 DEF ReviewInv, ReviewTypeOK, ReadSteps
  <2>. QED BY <2>1, <2>2, <2>3, ReviewFrame
<1>. QED BY <1>2, <1>3, <1>4, <1>5

LEMMA CheckoutActions ==
  ASSUME ReviewInv, ReadLines \/ FirstReview \/ Grant \/ SecondReview \/ Click
  PROVE  ReviewInv'
<1>1. /\ DOMAIN checkout = {"step", "mission", "lines", "expected"} /\ order = Nothing
      /\ (checkout.step # "idle" => checkout.mission \in Missions) /\ checkout.step # "idle"
      /\ UNCHANGED <<combined, proofs, carted, page, seen>>
  BY DEF ReviewInv, ReviewTypeOK, ReadLines, FirstReview, Grant, SecondReview, Click, context
<1>2. ASSUME checkout'.step \in ReadSteps, DOMAIN checkout' = {"step", "mission", "lines", "expected"},
             checkout'.step # "idle" => checkout'.mission = checkout.mission
      PROVE  ReviewTypeOK'
  BY <1>1, <1>2 DEF ReviewInv, ReviewTypeOK
<1>3. CASE ReadLines
  <2>1. CASE checkout' = NoCheckout
    <3>1. ReviewTypeOK' /\ checkout'.step = "idle"
      BY <1>2, <2>1, CheckoutTyped DEF ReadSteps
    <3>. QED BY <1>1, <1>3, <3>1, ReviewFrame DEF ReadLines
  <2>2. CASE checkout' # NoCheckout
    <3>1. PICK s \in {"read", "reread"} :
            /\ checkout' = [checkout EXCEPT !.step = s, !.lines = LinesOf(page)]
            /\ UNCHANGED order
      BY <1>1, <1>3, <2>2 DEF ReadLines
    <3>2. /\ checkout'.step = s /\ DOMAIN checkout' = {"step", "mission", "lines", "expected"}
          /\ checkout'.mission = checkout.mission /\ checkout'.lines = LinesOf(page)
      BY <1>1, <3>1, CheckoutTyped
    <3>3. ReviewTypeOK'
      BY <1>2, <3>2 DEF ReadSteps
    <3>4. LinesOf(page)' = LinesOf(page)
      BY <1>1
    <3>. QED BY <1>1, <3>1, <3>2, <3>3, <3>4 DEF ReviewInv, Placed
  <2>. QED BY <2>1, <2>2
<1>4. CASE FirstReview
  <2>1. checkout'.step \in {"reviewed", "idle"} /\ DOMAIN checkout' = {"step", "mission", "lines", "expected"}
        /\ (checkout'.step # "idle" => checkout'.mission = checkout.mission)
    <3>1. CASE checkout' = NoCheckout
      BY <3>1, CheckoutTyped
    <3>2. CASE checkout' = [checkout EXCEPT !.step = "reviewed", !.lines = Nothing,
                                            !.expected = Evidence(checkout.lines, page)]
      BY <1>1, <3>2
    <3>. QED BY <1>4, <3>1, <3>2 DEF FirstReview
  <2>2. ReviewTypeOK'
    BY <1>2, <2>1 DEF ReadSteps
  <2>. QED BY <1>1, <1>4, <2>1, <2>2, ReviewFrame DEF FirstReview
<1>5. CASE Grant
  <2>1. checkout' = [checkout EXCEPT !.step = "granted"] /\ UNCHANGED order
    BY <1>5 DEF Grant, AfterGrant
  <2>2. checkout'.step = "granted" /\ DOMAIN checkout' = {"step", "mission", "lines", "expected"}
        /\ checkout'.mission = checkout.mission
    BY <1>1, <2>1, CheckoutTyped
  <2>3. ReviewTypeOK'
    BY <1>2, <2>2 DEF ReadSteps
  <2>. QED BY <1>1, <2>1, <2>2, <2>3, ReviewFrame
<1>6. CASE SecondReview
  <2>1. UNCHANGED <<order, still>> /\ checkout.step = "reread"
    BY <1>6 DEF SecondReview
  <2>2. CASE checkout' = NoCheckout
    <3>1. ReviewTypeOK' /\ checkout'.step = "idle"
      BY <1>2, <2>2, CheckoutTyped DEF ReadSteps
    <3>. QED BY <1>1, <2>1, <3>1, ReviewFrame
  <2>3. CASE checkout' # NoCheckout
    <3>1. /\ Verdict(checkout.lines, page) /\ checkout' = [checkout EXCEPT !.step = "intent"]
      BY <1>6, <2>3 DEF SecondReview
    <3>2. checkout'.step = "intent" /\ DOMAIN checkout' = {"step", "mission", "lines", "expected"}
          /\ checkout'.mission = checkout.mission
      BY <1>1, <3>1, CheckoutTyped
    <3>3. ReviewTypeOK'
      BY <1>2, <3>2 DEF ReadSteps
    <3>4. still => Proper(page)
      <4>1. still => checkout.lines = LinesOf(page)
        BY <2>1 DEF ReviewInv
      <4>. QED BY <1>1, <3>1, <4>1, VerdictIsProper DEF ReviewInv
    <3>5. Proper(page)' = Proper(page) /\ ToSet(page.cart)' = ToSet(page.cart)
      BY <1>1 DEF Proper, WithinCaps, OnlyMissions
    <3>. QED BY <1>1, <2>1, <3>2, <3>3, <3>4, <3>5 DEF ReviewInv, Placed
  <2>. QED BY <2>2, <2>3
<1>7. CASE Click
  <2>1. checkout' = NoCheckout /\ checkout.step = "intent" /\ order' = page /\ UNCHANGED still
    BY <1>7 DEF Click
  <2>2. ReviewTypeOK' /\ checkout'.step = "idle"
    BY <1>2, <2>1, CheckoutTyped DEF ReadSteps
  <2>3. still => Proper(page)
    BY <2>1 DEF ReviewInv
  <2>4. Proper(order)' = Proper(page) /\ ToSet(page.cart)' = ToSet(page.cart)
    BY <1>1, <2>1 DEF Proper, WithinCaps, OnlyMissions
  <2>. QED BY <1>1, <2>1, <2>2, <2>3, <2>4 DEF ReviewInv, Placed
<1>. QED BY <1>3, <1>4, <1>5, <1>6, <1>7

LEMMA ReviewStep ==
  ASSUME ReviewInv, [ReviewNext]_reviewVars
  PROVE  ReviewInv'
<1>1. ReviewTypeOK
  BY DEF ReviewInv
<1>2. CASE UNCHANGED reviewVars
  <2>1. UNCHANGED <<combined, page, proofs, carted, checkout, order, still, seen>>
    BY <1>2 DEF reviewVars, context
  <2>2. ReviewTypeOK'
    BY <1>1, <2>1 DEF ReviewTypeOK
  <2>. QED BY <2>1, <2>2, ReviewFrame
<1>3. CASE ProofsAge
  <2>1. /\ proofs' = [m \in Missions |-> Older(proofs[m])]
        /\ UNCHANGED <<combined, page, carted, checkout, order, still, seen>>
    BY <1>3 DEF ProofsAge, context
  <2>2. proofs' \in [Missions -> ProofType \cup {Nothing}]
    BY <1>1, <2>1, ProofTyped DEF ReviewTypeOK
  <2>3. ReviewTypeOK'
    BY <1>1, <2>1, <2>2 DEF ReviewTypeOK
  <2>. QED BY <2>1, <2>3, ReviewFrame
<1>4. CASE PageChanges
  <2>1. Alters(page') /\ still' = FALSE /\ order = Nothing
        /\ UNCHANGED <<combined, proofs, carted, checkout, order, seen>>
    BY <1>4 DEF PageChanges, context
  <2>2. page' \in PageType /\ ToSet(page'.cart) \subseteq ToSet(page.cart) \cup {Other}
    BY <1>1, <2>1, PagesTyped DEF ReviewTypeOK
  <2>3. Missions \cap ToSet(page'.cart) \subseteq seen'
    BY <2>1, <2>2, ReviewAssumption DEF ReviewInv
  <2>. QED BY <2>1, <2>2, <2>3, PageFrame
<1>5. CASE ReadLines \/ FirstReview \/ Grant \/ SecondReview \/ Click
  BY <1>5, CheckoutActions
<1>6. ASSUME NEW m \in Missions, Add(m) \/ SetQuantity(m) \/ CartPage(m) \/ OpenCheckout(m)
      PROVE  ReviewInv'
  BY <1>6, CartActions
<1>. QED BY <1>2, <1>3, <1>4, <1>5, <1>6 DEF ReviewNext

\* What is ordered on a page that stood still is within its caps, the two exceptions of
\* the code apart, for any missions, prices, quantity and caps.
THEOREM OrderWithinCapsAlways == ReviewSpec => []OrderWithinCaps
<1>1. ReviewInv => OrderWithinCaps
  BY DEF ReviewInv, Proper, WithinCaps, OrderWithinCaps
<1>. QED BY <1>1, ReviewStarts, ReviewStep, PTL DEF ReviewSpec

\* It holds each of its missions once, at its quantity, and nothing else.
THEOREM NothingElseOrderedAlways == ReviewSpec => []NothingElseOrdered
<1>1. ReviewInv => NothingElseOrdered
  BY DEF ReviewInv, Proper, OnlyMissions, NothingElseOrdered
<1>. QED BY <1>1, ReviewStarts, ReviewStep, PTL DEF ReviewSpec

-----------------------------------------------------------------------------
(* The Catalog Inbox.                                                      *)

SearchType == [id : Nat, query : Queries, stores : SUBSET Stores, pass : SUBSET Items, live : BOOLEAN]

CatalogInv ==
  /\ searches \in Nat
  /\ search # NoSearch => search \in SearchType
  /\ ListedForItsSearch

LEMMA CatalogStep ==
  ASSUME CatalogInv, [CatalogNext]_catalogVars
  PROVE  CatalogInv'
<1>1. CASE UNCHANGED catalogVars
  BY <1>1 DEF catalogVars, CatalogInv, ListedForItsSearch
<1>2. ASSUME NEW q \in Queries, NEW stores \in SUBSET Stores \ {{}},
             NEW pass \in {Items} \cup {Items \ {i} : i \in Items},
             StartCatalogSearch(q, stores, pass)
      PROVE  CatalogInv'
  BY <1>2 DEF StartCatalogSearch, CatalogInv, SearchType, ListedForItsSearch
<1>3. CASE ClearCatalog
  BY <1>3 DEF ClearCatalog, CatalogInv, ListedForItsSearch
\* What is listed and the search it is listed for stay as they are.
<1>4. ASSUME UNCHANGED <<search, inbox, searches>> PROVE CatalogInv'
  BY <1>4 DEF CatalogInv, ListedForItsSearch
<1>5. CASE SearchExpires
  <2>1. /\ search \in SearchType /\ search' \in SearchType
        /\ search'.id = search.id /\ search'.pass = search.pass
    BY <1>5 DEF SearchExpires, CatalogInv, SearchType
  <2>. QED BY <1>5, <2>1 DEF SearchExpires, CatalogInv, ListedForItsSearch
<1>6. CASE CatalogRestart
  BY <1>6 DEF CatalogRestart, CatalogInv, ListedForItsSearch
<1>7. ASSUME NEW r \in reports, Report(r) PROVE CatalogInv'
  <2>1. CASE AcceptsReport(r)
    BY <1>7, <2>1 DEF Report, AcceptsReport, AcceptsAnySearch, CatalogInv, ListedForItsSearch
  <2>2. CASE ~AcceptsReport(r)
    BY <1>4, <1>7, <2>2 DEF Report
  <2>. QED BY <2>1, <2>2
<1>8. CASE RenderCatalog \/ AddSelectedCatalogMissions
           \/ (\E i \in Items : Tick(i) \/ RemoveMission(i))
           \/ (\E t \in SearchTabs : \/ RefreshConfig(t) \/ Capture(t)
                                     \/ \E q \in Queries, cards \in SUBSET Items : Shows(t, q, cards))
           \/ (\E r \in reports : ReportLost(r))
  BY <1>4, <1>8 DEF RenderCatalog, AddSelectedCatalogMissions, Tick, RemoveMission, RefreshConfig,
     Capture, Shows, ReportLost
<1>. QED BY <1>1, <1>2, <1>3, <1>5, <1>6, <1>7, <1>8 DEF CatalogNext

\* What the inbox lists was read for the search that lists it, with any number of tabs,
\* searches and reports on their way.
THEOREM ListedForItsSearchAlways == CatalogSpec => []ListedForItsSearch
<1>1. CatalogInit => CatalogInv
  BY DEF CatalogInit, CatalogInv, ListedForItsSearch
<1>2. CatalogInv => ListedForItsSearch
  BY DEF CatalogInv
<1>. QED BY <1>1, <1>2, CatalogStep, PTL DEF CatalogSpec

-----------------------------------------------------------------------------
(* The push enrollment.                                                    *)

\* This device was registered after request n was made, or what is stored was reported
\* ready with its nonce; nonce 0 is nobody's request.
Certified(n) == n = 0 \/ n \in reported \/ registered >= n

DeskType    == [enabled : BOOLEAN, nonce : Nat, made : Nat, waits : Nat,
                outcome : [nonce : Nat, ready : BOOLEAN]]
States == {"", "disabled", "awaiting-page", "subscribing", "registering", "ready", "error"}
Phases == {"idle", "begin", "subscribe", "found", "register", "accepted", "refused"}
PushType    == [enabled : BOOLEAN, state : States, ready : BOOLEAN, fingerprint : Nat]
AttemptType == [phase : Phases, nonce : Nat, found : Nat, moved : BOOLEAN]
ApplyType   == [running : BOOLEAN, nonce : Nat, enabled : BOOLEAN, state : States, ready : BOOLEAN]
WorkerType  == [nonce : Nat, opened : Nat, attempt : AttemptType, apply : ApplyType, owed : BOOLEAN,
                passing : SUBSET Nat]

EnrollTypeOK ==
  /\ desk \in DeskType /\ push \in PushType /\ worker \in WorkerType
  /\ answers \in [1 .. MaxRequests -> {"none", "open", "ready", "failed", "timeout"}]
  /\ posts \subseteq [nonce : Nat, ready : BOOLEAN]
  /\ sub \in [id : Nat, silent : BOOLEAN, last : Nat]
  /\ desk.nonce <= desk.made /\ worker.attempt.nonce <= desk.made
  /\ registered \in Nat /\ registered <= desk.made /\ reported \subseteq Nat

CertifiedPosts == \A s \in posts : s.ready => Certified(s.nonce)

\* What is applied for a request is not ready.
AppliedIsNot == worker.apply.ready => worker.apply.nonce = 0

\* Whatever says "ready" to a request says so of a device registered since, or of what
\* was reported with its nonce.
EnrollInv ==
  /\ EnrollTypeOK /\ AppliedIsNot
  /\ ConfirmedIsRegistered
  /\ desk.outcome.ready => Certified(desk.outcome.nonce)
  /\ CertifiedPosts
  /\ worker.attempt.phase = "accepted" => Certified(worker.attempt.nonce)

LEMMA AsleepTyped ==
  /\ NoApply \in ApplyType /\ Idle \in AttemptType /\ Idle.nonce = 0 /\ Idle.phase = "idle"
  /\ Asleep \in WorkerType /\ Asleep.attempt = Idle /\ Asleep.apply = NoApply /\ ~NoApply.ready
<1>1. NoApply \in ApplyType /\ Idle \in AttemptType /\ Idle.nonce = 0 /\ Idle.phase = "idle"
  BY DEF NoApply, ApplyType, Idle, AttemptType, States, Phases
<1>2. ~NoApply.ready
  BY DEF NoApply
<1>. QED BY <1>1, <1>2 DEF Asleep, WorkerType

LEMMA EnrollStarts == EnrollInit => EnrollInv
<1> SUFFICES ASSUME EnrollInit PROVE EnrollInv
  OBVIOUS
<1>1. /\ desk \in DeskType /\ desk.nonce <= desk.made /\ ~desk.outcome.ready /\ desk.made = 0
      /\ push \in PushType
  BY DEF EnrollInit, DeskType, NoOutcome, PushType, States
<1>2. /\ worker \in WorkerType /\ worker.attempt.nonce <= desk.made /\ worker.attempt.phase # "accepted"
      /\ registered = 0 /\ reported = {} /\ AppliedIsNot
  BY <1>1, AsleepTyped DEF EnrollInit, AppliedIsNot
<1>3. /\ answers \in [1 .. MaxRequests -> {"none", "open", "ready", "failed", "timeout"}]
      /\ posts \subseteq [nonce : Nat, ready : BOOLEAN]
      /\ sub \in [id : Nat, silent : BOOLEAN, last : Nat]
      /\ ConfirmedIsRegistered /\ CertifiedPosts
  <2>1. /\ answers \in [1 .. MaxRequests -> {"none", "open", "ready", "failed", "timeout"}]
        /\ \A n \in 1 .. MaxRequests : answers[n] # "ready"
    BY DEF EnrollInit
  <2>2. sub \in [id : Nat, silent : BOOLEAN, last : Nat]
    <3>1. sub \in {[id |-> 0, silent |-> TRUE, last |-> 0], [id |-> 1, silent |-> FALSE, last |-> 1]}
      BY DEF EnrollInit
    <3>2. [id |-> 0, silent |-> TRUE, last |-> 0] \in [id : Nat, silent : BOOLEAN, last : Nat]
      OBVIOUS
    <3>3. [id |-> 1, silent |-> FALSE, last |-> 1] \in [id : Nat, silent : BOOLEAN, last : Nat]
      OBVIOUS
    <3>. QED BY <3>1, <3>2, <3>3
  <2>3. posts = {}
    BY DEF EnrollInit
  <2>. QED BY <2>1, <2>2, <2>3 DEF ConfirmedIsRegistered, CertifiedPosts
<1>. QED BY <1>1, <1>2, <1>3 DEF EnrollInv, EnrollTypeOK

\* A status that is put in is a typed one, and certified if it says ready.
LEMMA PostedKeeps ==
  ASSUME EnrollInv, UNCHANGED registered, reported \subseteq reported',
         NEW n \in Nat, NEW p \in PushType, Posted(n, p), SaysReady(p) => Certified(n)'
  PROVE  /\ posts' \subseteq [nonce : Nat, ready : BOOLEAN]
         /\ CertifiedPosts'
<1> DEFINE status == [nonce |-> n, ready |-> SaysReady(p)]
<1>1. status \in [nonce : Nat, ready : BOOLEAN] /\ status.ready = SaysReady(p) /\ status.nonce = n
  BY DEF SaysReady, PushType
<1>2. posts' \subseteq posts \cup {status}
  BY DEF Posted
<1> HIDE DEF status
<1>. QED BY <1>1, <1>2 DEF EnrollInv, EnrollTypeOK, CertifiedPosts, Certified

\* The desktop's state and its answers move alone.
LEMMA DeskKeeps ==
  ASSUME EnrollInv, UNCHANGED <<push, worker, sub, registered, reported>>, posts' \subseteq posts,
         desk' \in DeskType, desk'.nonce <= desk'.made, desk'.made >= desk.made,
         answers' \in [1 .. MaxRequests -> {"none", "open", "ready", "failed", "timeout"}],
         desk'.outcome.ready => Certified(desk'.outcome.nonce),
         \A n \in 1 .. MaxRequests : answers'[n] = "ready" => answers[n] = "ready" \/ Certified(n)
  PROVE  EnrollInv'
<1>1. /\ worker.attempt.nonce \in Nat /\ desk.made \in Nat /\ desk'.made \in Nat
      /\ registered \in Nat /\ registered <= desk.made
  BY DEF EnrollInv, EnrollTypeOK, WorkerType, AttemptType, DeskType
<1>2. worker.attempt.nonce <= desk'.made /\ registered <= desk'.made
  BY <1>1 DEF EnrollInv, EnrollTypeOK
<1>3. EnrollTypeOK'
  BY <1>2 DEF EnrollInv, EnrollTypeOK
<1>4. ConfirmedIsRegistered'
  BY DEF EnrollInv, ConfirmedIsRegistered, Certified
<1>5. CertifiedPosts'
  BY DEF EnrollInv, CertifiedPosts, Certified
<1>. QED BY <1>3, <1>4, <1>5 DEF EnrollInv, AppliedIsNot, Certified

LEMMA DeskActions ==
  ASSUME EnrollInv,
         \/ (\E chrome \in BOOLEAN : Ask(chrome)) \/ Observe \/ GiveUp \/ Toggle
         \/ (\E status \in posts : PushStatus(status))
  PROVE  EnrollInv'
<1>1. /\ desk \in DeskType /\ desk.made \in Nat /\ desk.nonce \in Nat /\ desk.nonce <= desk.made
      /\ desk.outcome \in [nonce : Nat, ready : BOOLEAN]
      /\ answers \in [1 .. MaxRequests -> {"none", "open", "ready", "failed", "timeout"}]
      /\ NoOutcome \in [nonce : Nat, ready : BOOLEAN] /\ ~NoOutcome.ready
      /\ (desk.outcome.ready => Certified(desk.outcome.nonce))
  BY DEF EnrollInv, EnrollTypeOK, DeskType, NoOutcome
<1>2. ASSUME NEW chrome \in BOOLEAN, Ask(chrome) PROVE EnrollInv'
  <2>1. desk.made + 1 \in Nat /\ 0 <= desk.made + 1 /\ desk.made + 1 >= desk.made
    BY <1>1
  <2>2. PICK n \in {0, desk.made + 1} :
           desk' = [desk EXCEPT !.made = desk.made + 1, !.outcome = NoOutcome,
                                !.nonce = n, !.waits = n]
    <3>1. CASE chrome
      BY <1>2, <3>1 DEF Ask
    <3>2. CASE ~chrome
      BY <1>2, <3>2 DEF Ask
    <3>. QED BY <3>1, <3>2
  <2>3. n \in Nat /\ n <= desk.made + 1
    BY <2>1
  <2>4. /\ desk' \in DeskType /\ desk'.made = desk.made + 1 /\ desk'.nonce = n
        /\ desk'.outcome = NoOutcome
    BY <1>1, <2>1, <2>2, <2>3 DEF DeskType
  <2>5. /\ answers' \in [1 .. MaxRequests -> {"none", "open", "ready", "failed", "timeout"}]
        /\ \A k \in 1 .. MaxRequests : answers'[k] = "ready" => answers[k] = "ready"
    BY <1>1, <1>2 DEF Ask
  <2>. QED BY <1>1, <1>2, <2>1, <2>3, <2>4, <2>5, DeskKeeps DEF Ask
<1>3. CASE Observe
  <2>1. /\ desk' \in DeskType /\ desk'.nonce <= desk'.made /\ desk'.made >= desk.made
        /\ ~desk'.outcome.ready
    <3>1. desk' = [desk EXCEPT !.waits = 0, !.outcome = NoOutcome]
      BY <1>3 DEF Observe
    <3>2. /\ desk' \in DeskType /\ desk'.nonce = desk.nonce /\ desk'.made = desk.made
          /\ desk'.outcome = NoOutcome
      BY <1>1, <3>1 DEF DeskType
    <3>. QED BY <1>1, <3>2
  <2>2. /\ answers' \in [1 .. MaxRequests -> {"none", "open", "ready", "failed", "timeout"}]
        /\ \A n \in 1 .. MaxRequests : answers'[n] = "ready" => answers[n] = "ready" \/ Certified(n)
    BY <1>1, <1>3 DEF Observe, Replied
  <2>. QED BY <1>3, <2>1, <2>2, DeskKeeps DEF Observe, Replied
<1>4. CASE GiveUp
  <2>1. PICK n \in {0, desk.nonce} :
           desk' = [desk EXCEPT !.waits = 0, !.outcome = NoOutcome, !.nonce = n]
    BY <1>1, <1>4 DEF GiveUp
  <2>2. /\ desk' \in DeskType /\ desk'.nonce <= desk'.made /\ desk'.made >= desk.made
        /\ ~desk'.outcome.ready
    <3>1. n \in Nat /\ n <= desk.made
      BY <1>1
    <3>2. /\ desk' \in DeskType /\ desk'.nonce = n /\ desk'.made = desk.made
          /\ desk'.outcome = NoOutcome
      BY <1>1, <2>1, <3>1 DEF DeskType
    <3>. QED BY <1>1, <3>1, <3>2
  <2>3. /\ answers' \in [1 .. MaxRequests -> {"none", "open", "ready", "failed", "timeout"}]
        /\ \A k \in 1 .. MaxRequests : answers'[k] = "ready" => answers[k] = "ready"
    BY <1>1, <1>4 DEF GiveUp, Replied
  <2>. QED BY <1>4, <2>2, <2>3, DeskKeeps DEF GiveUp, Replied
<1>5. CASE Toggle
  <2>1. /\ desk' \in DeskType /\ desk'.nonce = desk.nonce /\ desk'.made = desk.made
        /\ desk'.outcome = desk.outcome
    BY <1>1, <1>5 DEF Toggle, DeskType
  <2>. QED BY <1>1, <1>5, <2>1, DeskKeeps DEF Toggle
<1>6. ASSUME NEW s \in posts, PushStatus(s) PROVE EnrollInv'
  <2>1. s \in [nonce : Nat, ready : BOOLEAN] /\ (s.ready => Certified(s.nonce))
    BY DEF EnrollInv, EnrollTypeOK, CertifiedPosts
  <2>2. desk' = desk \/ desk' = [desk EXCEPT !.nonce = 0, !.outcome = s]
    BY <1>6 DEF PushStatus
  <2>3. /\ desk' \in DeskType /\ desk'.nonce \in {0, desk.nonce} /\ desk'.made = desk.made
        /\ desk'.outcome \in {desk.outcome, s}
    <3>1. CASE desk' = desk
      BY <1>1, <3>1
    <3>2. CASE desk' = [desk EXCEPT !.nonce = 0, !.outcome = s]
      BY <1>1, <2>1, <3>2 DEF DeskType
    <3>. QED BY <2>2, <3>1, <3>2
  <2>4. desk'.nonce <= desk'.made /\ desk'.made >= desk.made
    BY <1>1, <2>3
  <2>5. desk'.outcome.ready => Certified(desk'.outcome.nonce)
    BY <1>1, <2>1, <2>3
  <2>6. UNCHANGED <<answers, push, worker, sub, registered, reported>> /\ posts' \subseteq posts
    BY <1>6 DEF PushStatus
  <2>. QED BY <1>1, <2>3, <2>4, <2>5, <2>6, DeskKeeps
<1>. QED BY <1>2, <1>3, <1>4, <1>5, <1>6

\* The companion moves: what it posts as ready, and what was accepted, is certified.
LEMMA CompanionKeeps ==
  ASSUME EnrollInv, UNCHANGED <<desk, answers, registered>>,
         reported \subseteq reported', reported' \subseteq Nat,
         push' \in PushType, worker' \in WorkerType, AppliedIsNot',
         sub' \in [id : Nat, silent : BOOLEAN, last : Nat],
         worker'.attempt.nonce <= desk.made,
         worker'.attempt.phase = "accepted" => Certified(worker'.attempt.nonce),
         \/ UNCHANGED posts
         \/ \E n \in Nat : Posted(n, push') /\ (SaysReady(push') => Certified(n)')
  PROVE  EnrollInv'
<1>1. /\ posts' \subseteq [nonce : Nat, ready : BOOLEAN]
      /\ CertifiedPosts'
  BY PostedKeeps DEF EnrollInv, EnrollTypeOK, CertifiedPosts, Certified
<1>2. EnrollTypeOK'
  BY <1>1 DEF EnrollInv, EnrollTypeOK
<1>. QED BY <1>1, <1>2 DEF EnrollInv, ConfirmedIsRegistered, Certified

\* An update of the stored state with its post, and the attempt's next phase.
LEMMA RecordsKeeps ==
  ASSUME EnrollInv, UNCHANGED <<desk, answers, registered, reported>>,
         sub' \in [id : Nat, silent : BOOLEAN, last : Nat],
         NEW p \in PushType, NEW n \in Nat, NEW a \in AttemptType, Records(p, n, a),
         a.nonce <= desk.made, a.phase # "accepted", p.ready => Certified(n)
  PROVE  EnrollInv'
<1>1. worker \in WorkerType /\ worker' = [worker EXCEPT !.attempt = a] /\ push' = p /\ Posted(n, push')
  BY DEF EnrollInv, EnrollTypeOK, Records
<1>2. worker' \in WorkerType /\ worker'.attempt = a /\ worker'.apply = worker.apply
  BY <1>1 DEF WorkerType
<1>3. AppliedIsNot' /\ reported \subseteq reported' /\ reported' \subseteq Nat
  BY <1>2 DEF EnrollInv, EnrollTypeOK, AppliedIsNot
<1>4. SaysReady(push') => Certified(n)'
  BY <1>1 DEF SaysReady, Certified
<1>. QED BY <1>1, <1>2, <1>3, <1>4, CompanionKeeps

LEMMA BegunTyped ==
  ASSUME NEW w \in WorkerType
  PROVE  /\ Begun(w) \in WorkerType /\ Begun(w).attempt.nonce = w.attempt.nonce
         /\ Begun(w).apply = w.apply
         /\ Begun(w).attempt.phase = "accepted" => w.attempt.phase = "accepted"
<1>1. w.attempt \in AttemptType
  BY DEF WorkerType
<1>2. [w.attempt EXCEPT !.phase = "begin"] \in AttemptType
  BY <1>1 DEF AttemptType, Phases
<1>. QED BY <1>1, <1>2 DEF Begun, WorkerType, AttemptType

LEMMA SubsTyped ==
  ASSUME sub \in [id : Nat, silent : BOOLEAN, last : Nat]
  PROVE  /\ NoSub \in [id : Nat, silent : BOOLEAN, last : Nat]
         /\ sub.silent \in BOOLEAN /\ sub.id \in Nat
         /\ \A silent \in BOOLEAN : NewSub(silent) \in [id : Nat, silent : BOOLEAN, last : Nat]
<1>1. sub.last + 1 \in Nat /\ sub.silent \in BOOLEAN /\ sub.id \in Nat
  OBVIOUS
<1>2. NoSub \in [id : Nat, silent : BOOLEAN, last : Nat]
  BY DEF NoSub
<1>3. \A silent \in BOOLEAN : NewSub(silent) \in [id : Nat, silent : BOOLEAN, last : Nat]
  BY <1>1 DEF NewSub
<1>. QED BY <1>1, <1>2, <1>3

LEMMA WorkerActions ==
  ASSUME EnrollInv,
         \/ Discover \/ ApplyWrites \/ PageReady \/ PageCloses \/ Reenroll \/ WorkerStart
         \/ PushEvent \/ DrainBegins \/ DrainEnds
         \/ (\E s \in {NoSub} \cup (IF sub.last < MaxSubs THEN {NewSub(sub.silent)} ELSE {}) :
               SubscriptionChange(s))
  PROVE  EnrollInv'
<1>1. /\ desk \in DeskType /\ desk.nonce \in Nat /\ desk.enabled \in BOOLEAN /\ desk.made \in Nat
      /\ push \in PushType /\ push.ready \in BOOLEAN /\ push.enabled \in BOOLEAN
      /\ push.fingerprint \in Nat /\ push.state \in States
      /\ worker \in WorkerType /\ worker.nonce \in Nat /\ worker.apply \in ApplyType
      /\ worker.attempt \in AttemptType /\ worker.attempt.nonce <= desk.made
      /\ (worker.attempt.phase = "accepted" => Certified(worker.attempt.nonce))
      /\ sub \in [id : Nat, silent : BOOLEAN, last : Nat]
      /\ reported \subseteq Nat /\ AppliedIsNot /\ worker.passing \in SUBSET Nat
  BY DEF EnrollInv, EnrollTypeOK, DeskType, PushType, WorkerType
\* The worker's memory moves alone, and no attempt is accepted by it.
<1>2. ASSUME UNCHANGED <<desk, answers, push, posts, sub, registered, reported>>,
             worker' \in WorkerType, AppliedIsNot',
             worker'.attempt.nonce <= desk.made,
             worker'.attempt.phase = "accepted" => Certified(worker'.attempt.nonce)
      PROVE  EnrollInv'
  BY <1>1, <1>2, CompanionKeeps
<1>3. CASE Discover
  <2>1. AppliedReady \in BOOLEAN /\ (AppliedReady => desk.nonce = 0)
    BY <1>1 DEF AppliedReady
  <2>2. AppliedState \in States
    BY <1>1, <2>1 DEF AppliedState, States
  <2> DEFINE a == [running |-> TRUE, nonce |-> desk.nonce, enabled |-> desk.enabled,
                   state |-> AppliedState, ready |-> AppliedReady]
  <2>3. a \in ApplyType /\ a.ready = AppliedReady /\ a.nonce = desk.nonce
    BY <1>1, <2>1, <2>2 DEF ApplyType
  <2>4. worker' = [worker EXCEPT !.nonce = desk.nonce, !.apply = a]
    BY <1>3 DEF Discover
  <2> HIDE DEF a
  <2>5. worker' \in WorkerType /\ worker'.attempt = worker.attempt /\ worker'.apply = a
    BY <1>1, <2>3, <2>4 DEF WorkerType
  <2>6. AppliedIsNot'
    BY <2>1, <2>3, <2>5 DEF AppliedIsNot
  <2>. QED BY <1>1, <1>2, <1>3, <2>5, <2>6 DEF Discover
<1>4. CASE ApplyWrites
  <2> DEFINE a == worker.apply
  <2>1. /\ a.nonce \in Nat /\ a.enabled \in BOOLEAN /\ a.ready \in BOOLEAN /\ a.state \in States
        /\ worker.opened \in Nat /\ NoApply \in ApplyType /\ (a.ready => a.nonce = 0)
    BY <1>1, AsleepTyped DEF ApplyType, WorkerType, AppliedIsNot
  <2>2. push' = [push EXCEPT !.enabled = a.enabled, !.state = a.state, !.ready = a.ready]
    BY <1>4 DEF ApplyWrites
  <2>3. push' \in PushType /\ push'.ready = a.ready
    BY <1>1, <2>1, <2>2 DEF PushType
  <2>4. PICK n \in {a.nonce, worker.opened} : worker' = [worker EXCEPT !.apply = NoApply, !.opened = n]
    BY <1>4 DEF ApplyWrites
  <2>5. worker' \in WorkerType /\ worker'.attempt = worker.attempt /\ worker'.apply = NoApply
    BY <1>1, <2>1, <2>4 DEF WorkerType
  <2>6. AppliedIsNot'
    BY <2>5, AsleepTyped DEF AppliedIsNot
  <2>7. \E k \in Nat : Posted(k, push') /\ (SaysReady(push') => Certified(k)')
    <3>1. PICK k \in Nat : k = a.nonce
      BY <2>1
    <3>2. Posted(k, push')
      BY <1>4, <3>1 DEF ApplyWrites
    <3>3. SaysReady(push') => Certified(k)'
      BY <2>1, <2>3, <3>1 DEF Certified, SaysReady
    <3>. QED BY <3>2, <3>3
  <2>8. UNCHANGED <<desk, answers, sub, registered, reported>>
    BY <1>4 DEF ApplyWrites
  <2>. QED BY <1>1, <2>1, <2>3, <2>5, <2>6, <2>7, <2>8, CompanionKeeps
<1>5. CASE PageReady
  BY <1>1, <1>2, <1>5, BegunTyped DEF PageReady, AppliedIsNot
<1>6. CASE PageCloses
  BY <1>1, <1>2, <1>6 DEF PageCloses, AppliedIsNot
<1>7. CASE Reenroll
  <2>1. PICK w \in {worker, Begun(worker)} : worker' = [w EXCEPT !.owed = FALSE]
    BY <1>7 DEF Reenroll
  <2>2. /\ w \in WorkerType /\ w.attempt.nonce <= desk.made
        /\ (w.attempt.phase = "accepted" => Certified(w.attempt.nonce)) /\ w.apply = worker.apply
    BY <1>1, BegunTyped
  <2>3. worker' \in WorkerType /\ worker'.attempt = w.attempt /\ worker'.apply = worker.apply
    BY <2>1, <2>2 DEF WorkerType
  <2>. QED BY <1>1, <1>2, <1>7, <2>2, <2>3 DEF Reenroll, AppliedIsNot
<1>8. CASE WorkerStart
  <2>1. PICK same \in BOOLEAN, state \in {"disabled", "ready", "awaiting-page"} :
          push' = [push EXCEPT !.ready = same, !.state = state]
    BY <1>8 DEF WorkerStart
  <2>2. push' \in PushType
    BY <1>1, <2>1 DEF PushType, States
  <2>3. worker' = Asleep /\ UNCHANGED <<desk, answers, posts, sub, registered, reported>>
    BY <1>8 DEF WorkerStart
  <2>4. AppliedIsNot'
    BY <2>3, AsleepTyped DEF AppliedIsNot
  <2>. QED BY <1>1, <2>2, <2>3, <2>4, AsleepTyped, CompanionKeeps
<1>9. ASSUME NEW s \in {NoSub} \cup (IF sub.last < MaxSubs THEN {NewSub(sub.silent)} ELSE {}),
             SubscriptionChange(s)
      PROVE  EnrollInv'
  <2>1. s \in [id : Nat, silent : BOOLEAN, last : Nat]
    BY <1>1, SubsTyped
  <2>2. PICK state \in {"disabled", "awaiting-page"} :
          push' = [push EXCEPT !.fingerprint = 0, !.ready = FALSE, !.state = state]
    BY <1>9 DEF SubscriptionChange
  <2>3. push' \in PushType /\ push'.ready = FALSE
    BY <1>1, <2>2 DEF PushType, States
  <2>4. worker' = [worker EXCEPT !.owed = push.enabled]
    BY <1>9 DEF SubscriptionChange
  <2>5. worker' \in WorkerType /\ worker'.attempt = worker.attempt /\ worker'.apply = worker.apply
    BY <1>1, <2>4 DEF WorkerType
  <2>6. /\ Posted(worker.nonce, push') /\ UNCHANGED <<desk, answers, registered, reported>>
        /\ sub' = s
    BY <1>9 DEF SubscriptionChange
  <2>7. AppliedIsNot' /\ ~SaysReady(push')
    BY <1>1, <2>3, <2>5 DEF AppliedIsNot, SaysReady
  <2>. QED BY <1>1, <2>1, <2>3, <2>5, <2>6, <2>7, CompanionKeeps
\* What is reported ready is remembered as reported.
<1>10. ASSUME NEW n \in AtHand \cup worker.passing, Reports(n), worker' \in WorkerType,
              UNCHANGED <<worker.attempt, worker.apply>>
       PROVE  EnrollInv'
  <2>1. n \in Nat
    BY <1>1 DEF AtHand
  <2>2. /\ Posted(n, push) /\ UNCHANGED <<desk, answers, push, sub, registered>>
        /\ reported' \in {reported, reported \cup {n}} /\ (SaysReady(push) => n \in reported')
    BY <1>10 DEF Reports
  <2>3. AppliedIsNot' /\ (SaysReady(push') => Certified(n)')
    BY <1>1, <1>10, <2>2 DEF AppliedIsNot, Certified
  <2>4. reported \subseteq reported' /\ reported' \subseteq Nat
    BY <1>1, <2>1, <2>2
  <2>5. /\ worker'.attempt.nonce <= desk.made
        /\ (worker'.attempt.phase = "accepted" => Certified(worker'.attempt.nonce))
    BY <1>1, <1>10
  <2>. QED BY <1>1, <1>10, <2>1, <2>2, <2>3, <2>4, <2>5, CompanionKeeps
<1>11. CASE PushEvent
  BY <1>1, <1>10, <1>11 DEF PushEvent
<1>12. CASE DrainBegins
  <2>1. PICK n \in AtHand : worker' = [worker EXCEPT !.passing = {n}]
    BY <1>12 DEF DrainBegins
  <2>2. {n} \in SUBSET Nat
    BY <1>1 DEF AtHand
  <2>3. worker' \in WorkerType /\ worker'.attempt = worker.attempt /\ worker'.apply = worker.apply
    BY <1>1, <2>1, <2>2 DEF WorkerType
  <2>. QED BY <1>1, <1>2, <1>12, <2>3 DEF DrainBegins, AppliedIsNot
<1>13. CASE DrainEnds
  <2>1. PICK n \in worker.passing : Reports(n)
    BY <1>13 DEF DrainEnds
  <2>2. worker' = [worker EXCEPT !.passing = {}]
    BY <1>13 DEF DrainEnds
  <2>3. worker' \in WorkerType /\ worker'.attempt = worker.attempt /\ worker'.apply = worker.apply
    BY <1>1, <2>2 DEF WorkerType
  <2>. QED BY <1>10, <2>1, <2>3
<1>. QED BY <1>3, <1>4, <1>5, <1>6, <1>7, <1>8, <1>9, <1>11, <1>12, <1>13

LEMMA AttemptActions ==
  ASSUME EnrollInv,
         \/ Begin \/ Subscribe \/ Found \/ Registers \/ Throws
         \/ (\E accepted, heard \in BOOLEAN : Register(accepted, heard))
  PROVE  EnrollInv'
<1> DEFINE a == worker.attempt
<1>1. /\ desk \in DeskType /\ desk.nonce \in Nat /\ desk.made \in Nat /\ desk.nonce <= desk.made
      /\ push \in PushType /\ worker \in WorkerType /\ worker.nonce \in Nat
      /\ a \in AttemptType /\ a.nonce \in Nat /\ a.found \in Nat /\ a.nonce <= desk.made
      /\ (a.phase = "accepted" => Certified(a.nonce))
      /\ sub \in [id : Nat, silent : BOOLEAN, last : Nat]
  BY DEF EnrollInv, EnrollTypeOK, DeskType, WorkerType, AttemptType
<1>2. /\ Rejected \in PushType /\ ~Rejected.ready
      /\ Idle \in AttemptType /\ Idle.nonce <= desk.made /\ Idle.phase # "accepted"
  <2>1. Rejected \in PushType /\ ~Rejected.ready
    BY <1>1 DEF Rejected, PushType, States
  <2>2. Idle \in AttemptType /\ Idle.nonce <= desk.made /\ Idle.phase # "accepted"
    BY <1>1, AsleepTyped
  <2>. QED BY <2>1, <2>2
<1>3. CASE Begin
  <2>1. CASE desk.enabled
    <3> DEFINE p == [push EXCEPT !.enabled = TRUE, !.state = "subscribing", !.ready = FALSE]
               b == [a EXCEPT !.phase = "subscribe", !.nonce = desk.nonce]
    <3>1. p \in PushType /\ ~p.ready /\ b \in AttemptType /\ b.nonce = desk.nonce /\ b.phase = "subscribe"
      BY <1>1 DEF PushType, States, AttemptType, Phases
    <3>2. Records(p, desk.nonce, b) /\ UNCHANGED <<desk, answers, sub, registered, reported>>
      BY <1>3, <2>1 DEF Begin
    <3> HIDE DEF p, b
    <3>. QED BY <1>1, <3>1, <3>2, RecordsKeeps
  <2>2. CASE ~desk.enabled
    <3> DEFINE p == [push EXCEPT !.enabled = FALSE, !.state = "disabled", !.ready = FALSE]
    <3>1. p \in PushType /\ ~p.ready
      BY <1>1 DEF PushType, States
    <3>2. Records(p, desk.nonce, Idle) /\ UNCHANGED <<desk, answers, sub, registered, reported>>
      BY <1>3, <2>2 DEF Begin
    <3> HIDE DEF p
    <3>. QED BY <1>1, <1>2, <3>1, <3>2, RecordsKeeps
  <2>. QED BY <2>1, <2>2
<1>4. CASE Subscribe
  <2>1. sub' \in [id : Nat, silent : BOOLEAN, last : Nat]
    BY <1>1, <1>4, SubsTyped DEF Subscribe
  <2>2. UNCHANGED <<desk, answers, registered, reported>>
    BY <1>4 DEF Subscribe
  <2>3. CASE Records(Rejected, a.nonce, Idle)
    BY <1>1, <1>2, <2>1, <2>2, <2>3, RecordsKeeps
  <2>4. ASSUME ~Records(Rejected, a.nonce, Idle) PROVE EnrollInv'
    <3>1. PICK s \in {sub, NewSub(TRUE), NewSub(FALSE)} :
            /\ worker' = [worker EXCEPT !.attempt =
                            [a EXCEPT !.phase = "found", !.found = s.id, !.moved = sub.id \notin {0, s.id}]]
            /\ UNCHANGED <<push, posts>>
      BY <1>4, <2>4 DEF Subscribe
    <3>2. s.id \in Nat /\ (sub.id \notin {0, s.id}) \in BOOLEAN
      BY <1>1, SubsTyped
    <3> DEFINE b == [a EXCEPT !.phase = "found", !.found = s.id, !.moved = sub.id \notin {0, s.id}]
    <3>3. b \in AttemptType /\ b.nonce = a.nonce /\ b.phase = "found"
      BY <1>1, <3>2 DEF AttemptType, Phases
    <3>4. worker' = [worker EXCEPT !.attempt = b]
      BY <3>1
    <3> HIDE DEF b
    <3>5. worker' \in WorkerType /\ worker'.attempt = b /\ worker'.apply = worker.apply
      BY <1>1, <3>3, <3>4 DEF WorkerType
    <3>6. AppliedIsNot' /\ reported \subseteq reported' /\ reported' \subseteq Nat
      BY <2>2, <3>5 DEF EnrollInv, EnrollTypeOK, AppliedIsNot
    <3>. QED BY <1>1, <2>1, <2>2, <3>1, <3>3, <3>5, <3>6, CompanionKeeps
  <2>. QED BY <2>3, <2>4
<1>5. CASE Found
  <2>1. UNCHANGED <<desk, answers, sub, registered, reported>>
    BY <1>5 DEF Found
  <2>2. CASE Records(Rejected, a.nonce, Idle)
    BY <1>1, <1>2, <2>1, <2>2, RecordsKeeps
  <2>3. CASE RestsOn(a)
    <3> DEFINE p == [push EXCEPT !.state = "ready", !.ready = TRUE]
    <3>1. p \in PushType
      BY <1>1 DEF PushType, States
    <3>2. Records(p, a.nonce, Idle) /\ Certified(a.nonce)
      BY <1>5, <2>3 DEF Found, RestsOn, Certified
    <3> HIDE DEF p
    <3>. QED BY <1>1, <1>2, <2>1, <3>1, <3>2, RecordsKeeps
  <2>4. ASSUME ~RestsOn(a), ~Records(Rejected, a.nonce, Idle) PROVE EnrollInv'
    <3> DEFINE p == [push EXCEPT !.state = "registering", !.ready = FALSE]
               b == [a EXCEPT !.phase = "register"]
    <3>1. p \in PushType /\ ~p.ready /\ b \in AttemptType /\ b.nonce = a.nonce /\ b.phase = "register"
      BY <1>1 DEF PushType, States, AttemptType, Phases
    <3>2. Records(p, a.nonce, b)
      BY <1>5, <2>4 DEF Found
    <3> HIDE DEF p, b
    <3>. QED BY <1>1, <2>1, <3>1, <3>2, RecordsKeeps
  <2>. QED BY <2>2, <2>3, <2>4
<1>6. CASE Registers
  <2>1. UNCHANGED <<desk, answers, sub, registered, reported>>
    BY <1>6 DEF Registers
  <2>2. CASE Records(Rejected, a.nonce, Idle)
    BY <1>1, <1>2, <2>1, <2>2, RecordsKeeps
  <2>3. ASSUME ~Records(Rejected, a.nonce, Idle) PROVE EnrollInv'
    <3> DEFINE p == [push EXCEPT !.state = "ready", !.ready = TRUE, !.fingerprint = a.found]
    <3>1. p \in PushType
      BY <1>1 DEF PushType, States
    <3>2. Records(p, a.nonce, Idle) /\ Certified(a.nonce)
      BY <1>1, <1>6, <2>3 DEF Registers
    <3> HIDE DEF p
    <3>. QED BY <1>1, <1>2, <2>1, <3>1, <3>2, RecordsKeeps
  <2>. QED BY <2>2, <2>3
<1>7. CASE Throws
  <2>1. UNCHANGED <<desk, answers, sub, registered, reported>> /\ Records(Rejected, worker.nonce, Idle)
    BY <1>7 DEF Throws
  <2>. QED BY <1>1, <1>2, <2>1, RecordsKeeps
\* What is accepted is registered now, after every request made so far.
<1>8. ASSUME NEW accepted \in BOOLEAN, NEW heard \in BOOLEAN, Register(accepted, heard)
      PROVE  EnrollInv'
  <2>1. /\ UNCHANGED <<desk, answers, push, posts, sub, reported>>
        /\ registered' \in {registered, desk.made} /\ (heard => registered' = desk.made)
    BY <1>8 DEF Register
  <2>2. /\ registered \in Nat /\ registered' \in Nat
        /\ registered <= registered' /\ registered' <= desk.made
    BY <1>1, <2>1 DEF EnrollInv, EnrollTypeOK
  <2>3. PICK phase \in {"accepted", "refused"} :
          worker' = [worker EXCEPT !.attempt.phase = phase] /\ (phase = "accepted" => heard)
    BY <1>8 DEF Register
  <2> DEFINE b == [a EXCEPT !.phase = phase]
  <2>4. b \in AttemptType /\ b.nonce = a.nonce /\ b.phase = phase
    BY <1>1 DEF AttemptType, Phases
  <2>5. worker' = [worker EXCEPT !.attempt = b]
    BY <1>1, <2>3 DEF WorkerType
  <2> HIDE DEF b
  <2>6. worker' \in WorkerType /\ worker'.attempt = b /\ worker'.apply = worker.apply
    BY <1>1, <2>4, <2>5 DEF WorkerType
  <2>7. EnrollTypeOK' /\ AppliedIsNot'
    BY <1>1, <2>1, <2>2, <2>4, <2>6 DEF EnrollInv, EnrollTypeOK, AppliedIsNot
  <2>8. (worker.attempt.phase = "accepted" => Certified(worker.attempt.nonce))'
    BY <1>1, <2>1, <2>3, <2>4, <2>6 DEF Certified
  <2>9. \A n \in Nat : Certified(n) => Certified(n)'
    BY <2>1, <2>2 DEF Certified
  <2>10. ConfirmedIsRegistered'
    <3>1. SUFFICES ASSUME NEW n \in 1 .. MaxRequests, answers[n] = "ready"
                   PROVE  n \in reported \/ registered' >= n
      BY <2>1 DEF ConfirmedIsRegistered
    <3>2. n \in Nat /\ (n \in reported \/ registered >= n)
      BY <3>1 DEF EnrollInv, ConfirmedIsRegistered
    <3>. QED BY <2>2, <3>2
  <2>11. CertifiedPosts'
    BY <2>1, <2>9 DEF EnrollInv, EnrollTypeOK, CertifiedPosts
  <2>12. (desk.outcome.ready => Certified(desk.outcome.nonce))'
    BY <1>1, <2>1, <2>2 DEF EnrollInv, DeskType, Certified
  <2>. QED BY <2>7, <2>8, <2>10, <2>11, <2>12 DEF EnrollInv
<1>. QED BY <1>3, <1>4, <1>5, <1>6, <1>7, <1>8

\* A request is answered "ready" only when this device was registered after it was made,
\* or the stored state was reported ready with its nonce, with any number of requests,
\* subscriptions and statuses on their way.
THEOREM ConfirmedIsRegisteredAlways == EnrollSpec => []ConfirmedIsRegistered
<1>1. EnrollInv /\ [EnrollNext]_enrollVars => EnrollInv'
  <2>1. ASSUME EnrollInv, UNCHANGED enrollVars PROVE EnrollInv'
    BY <2>1 DEF enrollVars, EnrollInv, EnrollTypeOK, AppliedIsNot, ConfirmedIsRegistered,
                CertifiedPosts, Certified
  <2>2. ASSUME EnrollInv, EnrollNext PROVE EnrollInv'
    BY <2>2, DeskActions, WorkerActions, AttemptActions DEF EnrollNext
  <2>. QED BY <2>1, <2>2
<1>2. EnrollInv => ConfirmedIsRegistered
  BY DEF EnrollInv
<1>. QED BY <1>1, <1>2, EnrollStarts, PTL DEF EnrollSpec

-----------------------------------------------------------------------------
(* The update.                                                             *)

Steps     == {"idle", "finding", "asking", "checksum", "downloading", "installing"}
JobType   == [step : Steps, plan : Nat]
PanelType == [status : {"idle", "checking", "current", "available", "cancelled",
                        "checksum", "downloading", "verifying", "installing", "error"},
              version : Nat]

UpdateTypeOK ==
  /\ latest \in Nat \ {0} /\ offer \in Nat /\ app \in [version : Nat, on : BOOLEAN]
  /\ job \in [Jobs -> JobType] /\ installing \in BOOLEAN
  /\ outbox \in Seq(PanelType) /\ panel \in PanelType

\* What the dashboard shows offers an update, in progress or to be started.
Offering(p) == p.version # 0 /\ p.status \notin {"idle", "current", "unavailable"}

Busy(j) == job[j].step \notin {"idle", "finding"}

\* One request at a time, and a check it waits for is the one under way.
OneJob ==
  /\ \A j \in Jobs : job[j].step = "idle" => job[j] = NoJob
  /\ \A j, k \in Jobs : job[j].step # "idle" /\ job[k].step # "idle" => j = k
  /\ installing <=> \E j \in Jobs : job[j].step # "idle"
  /\ \A j \in Jobs : j \in discovery <=> job[j].step = "finding"
  /\ \A j \in Jobs : Busy(j) => job[j].plan # 0 /\ offer # 0

\* When the dialog is up the last the dashboard hears is the offer; from then on all it
\* hears is an offer, so that it has no button for a check.
Announced ==
  \A j \in Jobs :
    /\ job[j].step = "asking" => IF outbox = <<>> THEN Offering(panel) ELSE Offering(outbox[Len(outbox)])
    /\ Busy(j) /\ job[j].step # "asking" =>
         Offering(panel) /\ \A i \in DOMAIN outbox : Offering(outbox[i])

UpdateInv == UpdateTypeOK /\ OneJob /\ Announced /\ InstallUndisturbed

LEMMA UpdateStarts == UpdateInit => UpdateInv
<1> SUFFICES ASSUME UpdateInit PROVE UpdateInv
  OBVIOUS
<1>1. NoJob \in JobType /\ NoJob.step = "idle"
  BY DEF NoJob, JobType, Steps
<1>2. \A j \in Jobs : job[j] = NoJob
  BY DEF UpdateInit
<1>3. UpdateTypeOK
  <2>1. panel \in PanelType
    BY DEF UpdateInit, PanelType
  <2>2. outbox \in Seq(PanelType)
    BY DEF UpdateInit
  <2>3. app \in [version : Nat, on : BOOLEAN]
    BY DEF UpdateInit
  <2>4. job \in [Jobs -> JobType]
    BY <1>1 DEF UpdateInit
  <2>5. latest \in Nat \ {0} /\ offer \in Nat
    BY DEF UpdateInit
  <2>6. installing \in BOOLEAN
    BY DEF UpdateInit
  <2>. QED BY <2>1, <2>2, <2>3, <2>4, <2>5, <2>6 DEF UpdateTypeOK
<1>4. discovery = {} /\ installing = FALSE
  BY DEF UpdateInit
<1>. QED BY <1>1, <1>2, <1>3, <1>4 DEF UpdateInv, OneJob, Announced, Busy, InstallUndisturbed

\* What is published comes behind what was.
LEMMA PublishedIs ==
  ASSUME NEW q \in Seq(PanelType), NEW n \in Seq(PanelType), NEW w, w = q \o n
  PROVE  /\ w \in Seq(PanelType)
         /\ \A i \in DOMAIN w : (i \in DOMAIN q /\ w[i] = q[i]) \/ \E k \in DOMAIN n : w[i] = n[k]
         /\ n # <<>> => w # <<>> /\ w[Len(w)] = n[Len(n)]
<1>1. /\ w \in Seq(PanelType) /\ Len(w) = Len(q) + Len(n)
      /\ \A i \in 1 .. Len(w) : w[i] = IF i <= Len(q) THEN q[i] ELSE n[i - Len(q)]
  BY ConcatProperties
<1>2. Len(q) \in Nat /\ Len(n) \in Nat /\ DOMAIN q = 1 .. Len(q) /\ DOMAIN n = 1 .. Len(n)
      /\ DOMAIN w = 1 .. Len(w)
  BY <1>1, LenProperties
<1>3. n # <<>> => Len(n) # 0
  BY EmptySeq
<1>4. \A i \in DOMAIN w : (i \in DOMAIN q /\ w[i] = q[i]) \/ \E k \in DOMAIN n : w[i] = n[k]
  <2> SUFFICES ASSUME NEW i \in 1 .. Len(w)
               PROVE  (i \in DOMAIN q /\ w[i] = q[i]) \/ \E k \in DOMAIN n : w[i] = n[k]
    BY <1>2
  <2>1. CASE i <= Len(q)
    BY <1>1, <1>2, <2>1
  <2>2. CASE ~(i <= Len(q))
    <3>1. i - Len(q) \in DOMAIN n /\ w[i] = n[i - Len(q)]
      BY <1>1, <1>2, <2>2
    <3>. QED BY <3>1
  <2>. QED BY <2>1, <2>2
<1>5. ASSUME n # <<>> PROVE w # <<>> /\ w[Len(w)] = n[Len(n)]
  <2>1. Len(w) \in 1 .. Len(w) /\ ~(Len(w) <= Len(q)) /\ Len(w) - Len(q) = Len(n)
    BY <1>1, <1>2, <1>3, <1>5
  <2>2. Len(w) # 0
    BY <1>2, <2>1
  <2>3. w # <<>>
    BY <2>2, EmptySeq
  <2>. QED BY <1>1, <2>1, <2>3
<1>. QED BY <1>1, <1>4, <1>5

LEMMA MessageTyped ==
  ASSUME NEW status \in {"idle", "checking", "current", "available", "cancelled",
                         "checksum", "downloading", "verifying", "installing", "error"},
         NEW version \in Nat
  PROVE  Panel(status, version) \in PanelType
BY DEF Panel, PanelType

LEMMA NoJobTyped == NoJob \in JobType /\ NoJob.step = "idle" /\ NoJob.plan = 0
BY DEF NoJob, JobType, Steps

\* When no request is left, nothing is to be kept.
LEMMA AllIdle ==
  ASSUME UpdateTypeOK', \A j \in Jobs : job'[j] = NoJob, installing' = FALSE, Jobs \cap discovery' = {}
  PROVE  UpdateInv'
BY NoJobTyped DEF UpdateInv, OneJob, Announced, Busy, InstallUndisturbed

\* Where a check runs, no request is past it.
LEMMA CheckKeeps ==
  ASSUME UpdateInv, UpdateTypeOK', UNCHANGED <<job, installing, offer>>, \A j \in Jobs : ~Busy(j),
         Jobs \cap discovery' = Jobs \cap discovery
  PROVE  UpdateInv'
<1>1. OneJob'
  BY DEF UpdateInv, OneJob, Busy
<1>2. \A j \in Jobs : ~Busy(j)'
  BY DEF Busy
<1>. QED BY <1>1, <1>2 DEF UpdateInv, Announced, Busy, InstallUndisturbed

\* The request under way ends.
LEMMA OverKeeps ==
  ASSUME UpdateInv, UpdateTypeOK', NEW j \in Jobs, Busy(j), Over(j), UNCHANGED discovery
  PROVE  UpdateInv'
<1>1. \A k \in Jobs : job'[k] = NoJob
  BY DEF UpdateInv, UpdateTypeOK, OneJob, Busy, Over
<1>2. discovery' = {}
  BY DEF UpdateInv, InstallUndisturbed, Busy
<1>. QED BY <1>1, <1>2, AllIdle DEF Over

\* The request under way goes on, and says so.
LEMMA ProceedsKeeps ==
  ASSUME UpdateInv, NEW j \in Jobs, Busy(j), NEW s \in {"checksum", "downloading", "installing"},
         job' = [job EXCEPT ![j].step = s], app' \in [version : Nat, on : BOOLEAN],
         UNCHANGED <<latest, discovery, installing, offer, panel>>,
         NEW n \in Seq(PanelType), Publish(n), \A k \in DOMAIN n : Offering(n[k]),
         job[j].step = "asking" => outbox = <<>>
  PROVE  UpdateInv'
<1>1. /\ job \in [Jobs -> JobType] /\ outbox \in Seq(PanelType) /\ panel \in PanelType
      /\ \A k \in Jobs : k # j => job[k].step = "idle"
      /\ discovery = {} /\ job[j].plan \in Nat
  BY DEF UpdateInv, UpdateTypeOK, OneJob, Busy, InstallUndisturbed, JobType
<1>2. /\ job' \in [Jobs -> JobType] /\ job'[j].step = s /\ job'[j].plan = job[j].plan
      /\ \A k \in Jobs : k # j => job'[k] = job[k]
  BY <1>1 DEF JobType, Steps
<1>3. /\ outbox' \in Seq(PanelType)
      /\ \A i \in DOMAIN outbox' : (i \in DOMAIN outbox /\ outbox'[i] = outbox[i]) \/ \E k \in DOMAIN n : outbox'[i] = n[k]
  BY <1>1, PublishedIs DEF Publish
<1>4. UpdateTypeOK'
  BY <1>2, <1>3 DEF UpdateInv, UpdateTypeOK
<1>5. OneJob'
  BY <1>1, <1>2 DEF UpdateInv, OneJob, Busy
<1>6. Offering(panel) /\ \A i \in DOMAIN outbox : Offering(outbox[i])
  BY DEF UpdateInv, Announced, Busy
<1>7. Announced'
  <2>1. \A k \in Jobs : job'[k].step # "idle" => k = j
    BY <1>1, <1>2
  <2>2. job'[j].step # "asking"
    BY <1>2
  <2>3. Offering(panel')
    BY <1>6
  <2>4. \A i \in DOMAIN outbox' : Offering(outbox'[i])
    BY <1>3, <1>6
  <2>. QED BY <2>1, <2>2, <2>3, <2>4 DEF Announced, Busy
<1>8. InstallUndisturbed'
  BY <1>1 DEF InstallUndisturbed
<1>. QED BY <1>4, <1>5, <1>7, <1>8 DEF UpdateInv

\* The desktop starts anew.
LEMMA StartsKeeps ==
  ASSUME UpdateInv, NEW v \in Nat, Starts(v), UNCHANGED latest
  PROVE  UpdateInv'
<1>1. job' = [j \in Jobs |-> NoJob] /\ installing' = FALSE /\ discovery' = {} /\ offer' = 0
  BY DEF Starts
<1>2. app' \in [version : Nat, on : BOOLEAN]
  BY DEF Starts
<1>3. panel' \in PanelType /\ outbox' \in Seq(PanelType)
  BY MessageTyped DEF Starts
<1>4. UpdateTypeOK'
  BY <1>1, <1>2, <1>3, NoJobTyped DEF UpdateInv, UpdateTypeOK
<1>. QED BY <1>1, <1>4, AllIdle

LEMMA OneMessage ==
  ASSUME NEW p \in PanelType
  PROVE  /\ <<p>> \in Seq(PanelType) /\ <<p>> # <<>> /\ Len(<<p>>) = 1 /\ <<p>>[1] = p
         /\ \A k \in DOMAIN <<p>> : <<p>>[k] = p
OBVIOUS

LEMMA TwoMessages ==
  ASSUME NEW p \in PanelType, NEW q \in PanelType
  PROVE  <<p, q>> \in Seq(PanelType) /\ \A k \in DOMAIN <<p, q>> : <<p, q>>[k] \in {p, q}
OBVIOUS

\* The check is over, with an offer or without.
LEMMA DiscoveryEnds ==
  ASSUME UpdateInv, Discovered \/ DiscoveryFails
  PROVE  UpdateInv'
<1>1. /\ latest \in Nat \ {0} /\ app \in [version : Nat, on : BOOLEAN] /\ job \in [Jobs -> JobType]
      /\ outbox \in Seq(PanelType) /\ panel \in PanelType /\ offer \in Nat
      /\ installing \in BOOLEAN
      /\ \A j \in Jobs : ~Busy(j) /\ (j \in discovery <=> job[j].step = "finding")
      /\ \A j \in Jobs : job[j].step = "idle" => job[j] = NoJob
      /\ \A j, k \in Jobs : job[j].step # "idle" /\ job[k].step # "idle" => j = k
      /\ (installing <=> \E j \in Jobs : job[j].step # "idle")
  BY DEF UpdateInv, UpdateTypeOK, OneJob, InstallUndisturbed, Busy, Discovered, DiscoveryFails
<1>2. \A j \in Jobs : j \notin WaitingJobs => job[j] = NoJob
  BY <1>1 DEF WaitingJobs, Busy
<1>3. installing <=> WaitingJobs # {}
  BY <1>1, <1>2, NoJobTyped DEF WaitingJobs
<1>4. \A status \in {"error", "current", "available"}, v \in Nat :
        /\ CheckReply(status, v) \in Seq(PanelType)
        /\ CheckReply(status, v) = <<>> \/ CheckReply(status, v)
             = <<Panel(IF status = "error" THEN "idle" ELSE status, IF status = "available" THEN v ELSE 0)>>
        /\ InstallReply(status, v) \in Seq(PanelType)
  BY MessageTyped, OneMessage DEF CheckReply, InstallReply
<1>5. CASE DiscoveryFails
  <2>1. \A j \in Jobs : job'[j] = NoJob
    BY <1>2, <1>5 DEF DiscoveryFails
  <2>2. installing' = FALSE /\ discovery' = {}
    BY <1>3, <1>5 DEF DiscoveryFails
  <2>3. outbox' \in Seq(PanelType)
    <3> DEFINE n == <<Panel("error", offer)>> \o CheckReply("error", 0) \o InstallReply("error", ShownVersion)
    <3>0. ShownVersion \in Nat
      BY <1>1 DEF ShownVersion, WaitingJobs, JobType
    <3>1. Panel("error", offer) \in PanelType
      BY <1>1, MessageTyped
    <3>2. <<Panel("error", offer)>> \o CheckReply("error", 0) \in Seq(PanelType)
      BY <1>4, <3>1, OneMessage, ConcatProperties
    <3>3. n \in Seq(PanelType)
      BY <1>1, <1>4, <3>0, <3>2, ConcatProperties
    <3>4. outbox' = outbox \o n
      BY <1>5 DEF DiscoveryFails, Publish
    <3> HIDE DEF n
    <3>. QED BY <1>1, <3>3, <3>4, ConcatProperties
  <2>4. job' \in [Jobs -> JobType]
    BY <1>1, <1>5, NoJobTyped DEF DiscoveryFails
  <2>5. UNCHANGED <<latest, app, offer, panel>>
    BY <1>5 DEF DiscoveryFails
  <2>6. UpdateTypeOK'
    BY <1>1, <2>2, <2>3, <2>4, <2>5 DEF UpdateTypeOK
  <2>. QED BY <2>1, <2>2, <2>6, AllIdle
<1>6. CASE Discovered
  <2> DEFINE status == IF offer' = 0 THEN "current" ELSE "available"
             behind == IF offer' = 0 THEN InstallReply("current", 0) ELSE <<>>
             first  == <<Panel(status, offer')>> \o CheckReply(status, offer')
  <2>1. offer' \in Nat /\ UNCHANGED <<latest, app, panel>> /\ discovery' = {}
    <3>1. SelectUpdate \in Nat
      BY <1>1 DEF SelectUpdate
    <3>. QED BY <1>6, <3>1 DEF Discovered
  <2>2. /\ first \in Seq(PanelType) /\ behind \in Seq(PanelType) /\ first # <<>>
        /\ offer' # 0 => first[Len(first)] = Panel("available", offer')
    <3>1. Panel(status, offer') \in PanelType
      BY <2>1, MessageTyped
    <3>2. status \in {"current", "available"} /\ (offer' # 0 => status = "available")
      OBVIOUS
    <3>3. behind \in Seq(PanelType)
      BY <1>4
    <3> HIDE DEF behind
    <3> DEFINE p == Panel(status, offer')
    <3>4. CASE CheckReply(status, offer') = <<>>
      <4>1. first = <<p>>
        BY <3>1, <3>4, OneMessage, ConcatEmptySeq
      <4>. QED BY <3>1, <3>2, <3>3, <4>1, OneMessage
    <3>5. CASE CheckReply(status, offer') # <<>>
      <4> DEFINE r == CheckReply(status, offer')
      <4>1. r \in Seq(PanelType) /\ (offer' # 0 => r = <<p>>)
        BY <1>4, <2>1, <3>2, <3>5
      <4>2. <<p>> \in Seq(PanelType) /\ Len(<<p>>) = 1 /\ <<p>>[1] = p
        BY <3>1, OneMessage
      <4>3. first \in Seq(PanelType) /\ first # <<>> /\ first[Len(first)] = r[Len(r)]
        BY <3>5, <4>1, <4>2, PublishedIs
      <4> HIDE DEF r, first
      <4>. QED BY <3>2, <3>3, <4>1, <4>2, <4>3
    <3>. QED BY <3>4, <3>5
  <2>3. outbox' = outbox \o (first \o behind)
    BY <1>6 DEF Discovered, Publish
  <2>4. /\ job' = [j \in Jobs |-> IF j \notin WaitingJobs THEN job[j]
                                  ELSE IF offer' = 0 THEN NoJob ELSE [step |-> "asking", plan |-> offer']]
        /\ installing' = (installing /\ (WaitingJobs = {} \/ offer' # 0))
    BY <1>6 DEF Discovered
  <2> HIDE DEF first, behind
  <2>5. first \o behind \in Seq(PanelType) /\ outbox' \in Seq(PanelType)
    BY <1>1, <2>2, <2>3, ConcatProperties
  <2>6. [step |-> "asking", plan |-> offer'] \in JobType
    BY <2>1 DEF JobType, Steps
  <2>7. UpdateTypeOK'
    BY <1>1, <2>1, <2>4, <2>5, <2>6, NoJobTyped DEF UpdateTypeOK
  <2>8. CASE WaitingJobs = {} \/ offer' = 0
    <3>1. \A j \in Jobs : job'[j] = NoJob
      BY <1>2, <2>4, <2>8
    <3>2. installing' = FALSE
      BY <1>3, <2>4, <2>8
    <3>. QED BY <2>1, <2>7, <3>1, <3>2, AllIdle
  <2>9. CASE WaitingJobs # {} /\ offer' # 0
    <3>1. PICK j \in Jobs : j \in WaitingJobs
      BY <2>9 DEF WaitingJobs
    <3>2. \A k \in Jobs : k # j => k \notin WaitingJobs
      BY <1>1, <3>1 DEF WaitingJobs
    <3>3. /\ job'[j].step = "asking" /\ job'[j].plan = offer'
          /\ \A k \in Jobs : k # j => job'[k] = NoJob
      BY <1>2, <2>4, <2>9, <3>1, <3>2
    <3>4. installing' = TRUE
      BY <1>3, <2>4, <2>9
    <3>5. OneJob'
      BY <2>1, <2>9, <3>3, <3>4, NoJobTyped DEF OneJob, Busy
    <3>6. outbox' # <<>> /\ outbox'[Len(outbox')] = Panel("available", offer')
      <4>1. behind = <<>>
        BY <2>9 DEF behind
      <4>2. first \o behind = first
        BY <2>2, <4>1, ConcatEmptySeq
      <4>. QED BY <1>1, <2>2, <2>3, <2>9, <4>2, PublishedIs
    <3>7. Offering(Panel("available", offer'))
      BY <2>9 DEF Offering, Panel
    <3>8. Announced'
      <4>1. \A k \in Jobs : ~(Busy(k)' /\ job'[k].step # "asking")
        BY <3>3, NoJobTyped DEF Busy
      <4>2. Offering(outbox'[Len(outbox')])
        BY <3>6, <3>7
      <4>. QED BY <3>6, <4>1, <4>2 DEF Announced, Busy, Offering
    <3>9. InstallUndisturbed'
      BY <2>1 DEF InstallUndisturbed
    <3>. QED BY <2>7, <3>5, <3>8, <3>9 DEF UpdateInv
  <2>. QED BY <2>8, <2>9
<1>. QED BY <1>5, <1>6

\* A state has arrived at the dashboard: what is shown last stays what it was.
LEMMA RenderKeeps ==
  ASSUME UpdateInv, RenderUpdaterState
  PROVE  UpdateInv'
<1>1. /\ outbox \in Seq(PanelType) /\ outbox # <<>> /\ panel' = Head(outbox) /\ outbox' = Tail(outbox)
      /\ UNCHANGED <<latest, app, offer, discovery, installing, job>>
  BY DEF UpdateInv, UpdateTypeOK, RenderUpdaterState
<1>2. /\ outbox' \in Seq(PanelType) /\ Len(outbox) \in Nat /\ DOMAIN outbox = 1 .. Len(outbox)
      /\ 1 \in DOMAIN outbox /\ DOMAIN outbox' = 1 .. Len(outbox) - 1
      /\ \A i \in 1 .. Len(outbox) - 1 : outbox'[i] = outbox[i + 1]
      /\ panel' = outbox[1] /\ panel' \in PanelType
  BY <1>1, TailIs
<1>3. UpdateTypeOK' /\ OneJob' /\ InstallUndisturbed'
  BY <1>1, <1>2 DEF UpdateInv, UpdateTypeOK, OneJob, Busy, InstallUndisturbed
<1>4. IF outbox' = <<>> THEN panel' = outbox[Len(outbox)] ELSE outbox'[Len(outbox')] = outbox[Len(outbox)]
  <2>1. Len(outbox') = Len(outbox) - 1
    BY <1>1, HeadTailProperties
  <2>2. CASE outbox' = <<>>
    <3>1. Len(outbox') = 0
      BY <2>2
    <3>2. Len(outbox) = 1
      BY <1>2, <2>1, <3>1
    <3>3. panel' = outbox[Len(outbox)]
      BY <1>2, <3>2
    <3>. QED BY <2>2, <3>3
  <2>3. CASE outbox' # <<>>
    <3>1. Len(outbox') # 0
      BY <1>2, <2>3, EmptySeq
    <3>2. Len(outbox') \in 1 .. Len(outbox) - 1 /\ Len(outbox') + 1 = Len(outbox)
      BY <1>2, <2>1, <3>1
    <3>. QED BY <1>2, <2>3, <3>2
  <2>. QED BY <2>2, <2>3
<1>5. \A i \in DOMAIN outbox' : \E k \in DOMAIN outbox : outbox'[i] = outbox[k]
  <2> SUFFICES ASSUME NEW i \in 1 .. Len(outbox) - 1 PROVE \E k \in DOMAIN outbox : outbox'[i] = outbox[k]
    BY <1>2
  <2>1. i + 1 \in DOMAIN outbox
    BY <1>2
  <2>. QED BY <1>2, <2>1
<1>6. Announced'
  <2> SUFFICES ASSUME NEW j \in Jobs
               PROVE  /\ job[j].step = "asking" =>
                           IF outbox' = <<>> THEN Offering(panel') ELSE Offering(outbox'[Len(outbox')])
                      /\ Busy(j) /\ job[j].step # "asking" =>
                           Offering(panel') /\ \A i \in DOMAIN outbox' : Offering(outbox'[i])
    BY <1>1 DEF Announced, Busy
  <2>1. ASSUME job[j].step = "asking"
        PROVE  IF outbox' = <<>> THEN Offering(panel') ELSE Offering(outbox'[Len(outbox')])
    <3>1. Offering(outbox[Len(outbox)])
      BY <1>1, <2>1 DEF UpdateInv, Announced
    <3>. QED BY <1>4, <3>1
  <2>2. ASSUME Busy(j), job[j].step # "asking"
        PROVE  Offering(panel') /\ \A i \in DOMAIN outbox' : Offering(outbox'[i])
    <3>1. \A i \in DOMAIN outbox : Offering(outbox[i])
      BY <2>2 DEF UpdateInv, Announced
    <3>. QED BY <1>2, <1>5, <3>1
  <2>. QED BY <2>1, <2>2
<1>. QED BY <1>3, <1>6 DEF UpdateInv

LEMMA RefreshTyped ==
  ASSUME UpdateTypeOK, NEW who, Refresh(who)
  PROVE  outbox' \in Seq(PanelType)
<1>1. Panel("checking", offer) \in PanelType /\ outbox \in Seq(PanelType)
  BY MessageTyped DEF UpdateTypeOK
<1>. QED BY <1>1, OneMessage, ConcatProperties DEF Refresh, Publish

\* The dashboard offers a check only when no installation is on.
LEMMA ChecksKeep ==
  ASSUME UpdateInv, Timer \/ RequestUpdateCheck
  PROVE  UpdateInv'
<1>1. CASE Timer
  <2>1. Refresh("timer") /\ ~installing
        /\ UNCHANGED <<latest, app, offer, installing, job, panel>>
    BY <1>1 DEF Timer, TimerAlways
  <2>2. UpdateTypeOK'
    BY <2>1, RefreshTyped DEF UpdateInv, UpdateTypeOK
  <2>3. \A j \in Jobs : ~Busy(j)
    BY <2>1 DEF UpdateInv, OneJob, Busy
  <2>4. Jobs \cap discovery' = Jobs \cap discovery
    BY <2>1, UpdateAssumption DEF Refresh
  <2>. QED BY <2>1, <2>2, <2>3, <2>4, CheckKeeps
<1>2. CASE RequestUpdateCheck
  <2>1. /\ Refresh("operator") /\ Clickable /\ ~Offers /\ panel' = Panel("checking", 0)
        /\ UNCHANGED <<latest, app, offer, installing, job>>
    BY <1>2 DEF RequestUpdateCheck
  <2>2. UpdateTypeOK'
    BY <2>1, RefreshTyped, MessageTyped DEF UpdateInv, UpdateTypeOK
  <2>3. \A j \in Jobs : ~Busy(j)
    <3>1. ~Offering(panel)
      BY <2>1 DEF Offers, Offering
    <3>. QED BY <2>1, <3>1 DEF UpdateInv, Announced, Clickable
  <2>4. Jobs \cap discovery' = Jobs \cap discovery
    BY <2>1, UpdateAssumption DEF Refresh
  <2>. QED BY <2>1, <2>2, <2>3, <2>4, CheckKeeps
<1>. QED BY <1>1, <1>2

LEMMA RequestKeeps ==
  ASSUME UpdateInv, NEW j \in Jobs, RequestAppUpdate(j)
  PROVE  UpdateInv'
<1>1. /\ Clickable /\ Offers /\ job[j] = NoJob /\ panel' = Panel("checking", panel.version)
      /\ UNCHANGED <<latest, app, offer>>
      /\ outbox \in Seq(PanelType) /\ panel \in PanelType /\ offer \in Nat /\ job \in [Jobs -> JobType]
      /\ panel.version \in Nat /\ panel.version # 0
  BY DEF RequestAppUpdate, UpdateInv, UpdateTypeOK, PanelType, Offers
<1>2. panel' \in PanelType /\ Offering(panel')
  BY <1>1, MessageTyped DEF Offering, Panel
<1>3. CASE installing
  <2> DEFINE v == IF offer # 0 THEN offer ELSE panel.version
  <2>1. v \in Nat /\ v # 0
    BY <1>1
  <2> HIDE DEF v
  <2>2. Panel("available", v) \in PanelType /\ Offering(Panel("available", v))
    BY <2>1, MessageTyped DEF Offering, Panel
  <2>3. Publish(<<Panel("available", v)>>) /\ UNCHANGED <<installing, job, discovery>>
    BY <1>3 DEF RequestAppUpdate, RefusedWhileBusy, v
  <2>4. /\ outbox' \in Seq(PanelType)
        /\ \A i \in DOMAIN outbox' : (i \in DOMAIN outbox /\ outbox'[i] = outbox[i])
                                     \/ outbox'[i] = Panel("available", v)
    <3>1. /\ <<Panel("available", v)>> \in Seq(PanelType)
          /\ \A k \in DOMAIN <<Panel("available", v)>> : <<Panel("available", v)>>[k] = Panel("available", v)
      BY <2>2, OneMessage
    <3> DEFINE n == <<Panel("available", v)>>
    <3>2. n \in Seq(PanelType) /\ outbox' = outbox \o n /\ \A k \in DOMAIN n : n[k] = Panel("available", v)
      BY <2>3, <3>1 DEF Publish
    <3> HIDE DEF n
    <3>. QED BY <1>1, <3>2, PublishedIs
  <2>5. UpdateTypeOK' /\ OneJob' /\ InstallUndisturbed'
    BY <1>1, <1>2, <2>3, <2>4 DEF UpdateInv, UpdateTypeOK, OneJob, Busy, InstallUndisturbed
  <2>6. Announced'
    <3>1. \A k \in Jobs : job'[k].step # "asking"
      BY <1>1, <2>3 DEF Clickable
    <3>2. ASSUME NEW k \in Jobs, Busy(k) PROVE \A i \in DOMAIN outbox' : Offering(outbox'[i])
      <4>1. \A i \in DOMAIN outbox : Offering(outbox[i])
        BY <2>3, <3>1, <3>2 DEF UpdateInv, Announced
      <4>. QED BY <2>2, <2>4, <4>1
    <3>. QED BY <1>2, <2>3, <3>1, <3>2 DEF Announced, Busy
  <2>. QED BY <2>5, <2>6 DEF UpdateInv
<1>4. CASE ~installing
  <2>1. /\ installing' = TRUE /\ job' = [job EXCEPT ![j] = [step |-> "finding", plan |-> panel.version]] /\ Refresh(j)
        /\ discovery' = discovery \cup {j}
    BY <1>4 DEF RequestAppUpdate, RefusedWhileBusy, Refresh
  <2>2. \A k \in Jobs : job[k] = NoJob /\ k \notin discovery
    BY <1>4, NoJobTyped DEF UpdateInv, OneJob
  <2>3. /\ job' \in [Jobs -> JobType] /\ job'[j].step = "finding"
        /\ \A k \in Jobs : k # j => job'[k] = NoJob
    BY <1>1, <2>1, <2>2 DEF JobType, Steps
  <2>4. UpdateTypeOK'
    BY <1>1, <1>2, <2>1, <2>3, RefreshTyped DEF UpdateInv, UpdateTypeOK
  <2>5. OneJob'
    BY <2>1, <2>2, <2>3, NoJobTyped DEF OneJob, Busy
  <2>6. \A k \in Jobs : ~Busy(k)'
    BY <2>3, NoJobTyped DEF Busy
  <2>. QED BY <2>4, <2>5, <2>6 DEF UpdateInv, Announced, Busy, InstallUndisturbed
<1>. QED BY <1>3, <1>4

\* A request ends with an error.
LEMMA FailsKeeps ==
  ASSUME UpdateInv, NEW j \in Jobs, Busy(j), UpdateFails(j)
  PROVE  UpdateInv'
<1>1. /\ outbox \in Seq(PanelType) /\ offer \in Nat /\ job \in [Jobs -> JobType] /\ job[j].plan \in Nat
      /\ UNCHANGED <<latest, app, offer, discovery, panel>> /\ Over(j)
      /\ outbox' = outbox \o <<Panel("error", offer), Panel("error", offer)>>
  BY DEF UpdateInv, UpdateTypeOK, UpdateFails, JobType, Publish
<1>2. <<Panel("error", offer), Panel("error", offer)>> \in Seq(PanelType)
  BY <1>1, MessageTyped, TwoMessages
<1>3. outbox' \in Seq(PanelType)
  BY <1>1, <1>2, ConcatProperties
<1>4. UpdateTypeOK'
  BY <1>1, <1>3, NoJobTyped DEF UpdateInv, UpdateTypeOK, Over
<1>. QED BY <1>1, <1>4, OverKeeps

LEMMA JobActions ==
  ASSUME UpdateInv, NEW j \in Jobs,
         \/ RequestAppUpdate(j) \/ Decline(j) \/ Approve(j) \/ Download(j)
         \/ DownloadFails(j) \/ Install(j) \/ SpawnFails(j) \/ Relaunch(j)
  PROVE  UpdateInv'
<1>1. /\ outbox \in Seq(PanelType) /\ job \in [Jobs -> JobType]
      /\ job[j].plan \in Nat /\ app \in [version : Nat, on : BOOLEAN]
      /\ (Busy(j) => job[j].plan # 0)
  BY DEF UpdateInv, UpdateTypeOK, OneJob, JobType
<1>2. CASE RequestAppUpdate(j)
  BY <1>2, RequestKeeps
<1>3. CASE Decline(j)
  <2>1. /\ Busy(j) /\ Over(j) /\ UNCHANGED <<latest, app, offer, discovery, panel>>
        /\ outbox' = outbox \o <<Panel("cancelled", job[j].plan), Panel("cancelled", job[j].plan)>>
    BY <1>3 DEF Decline, Confirmable, Busy, Publish
  <2>2. outbox' \in Seq(PanelType)
    BY <1>1, <2>1, MessageTyped, TwoMessages, ConcatProperties
  <2>3. UpdateTypeOK'
    BY <1>1, <2>1, <2>2, NoJobTyped DEF UpdateInv, UpdateTypeOK, Over
  <2>. QED BY <2>1, <2>3, OverKeeps
<1>4. ASSUME NEW status \in {"checksum", "downloading", "verifying", "installing"}, Busy(j)
      PROVE  Panel(status, job[j].plan) \in PanelType /\ Offering(Panel(status, job[j].plan))
  BY <1>1, <1>4, MessageTyped DEF Offering, Panel
<1>5. CASE Approve(j)
  <2> DEFINE n == <<Panel("checksum", job[j].plan)>>
  <2>1. /\ Busy(j) /\ outbox = <<>> /\ job' = [job EXCEPT ![j].step = "checksum"] /\ Publish(n)
        /\ UNCHANGED <<latest, app, offer, discovery, installing, panel>>
    BY <1>5 DEF Approve, Confirmable, Busy
  <2>2. n \in Seq(PanelType) /\ \A k \in DOMAIN n : Offering(n[k])
    BY <1>4, <2>1, OneMessage
  <2> HIDE DEF n
  <2>. QED BY <1>1, <2>1, <2>2, ProceedsKeeps
<1>6. CASE Download(j)
  <2> DEFINE n == <<Panel("downloading", job[j].plan)>>
  <2>1. /\ Busy(j) /\ job[j].step # "asking" /\ job' = [job EXCEPT ![j].step = "downloading"] /\ Publish(n)
        /\ UNCHANGED <<latest, app, offer, discovery, installing, panel>>
    BY <1>6 DEF Download, Busy
  <2>2. n \in Seq(PanelType) /\ \A k \in DOMAIN n : Offering(n[k])
    BY <1>4, <2>1, OneMessage
  <2> HIDE DEF n
  <2>. QED BY <1>1, <2>1, <2>2, ProceedsKeeps
<1>7. CASE DownloadFails(j)
  BY <1>7, FailsKeeps DEF DownloadFails, Busy
<1>8. CASE Install(j)
  <2>1. Busy(j) /\ job[j].step # "asking"
    BY <1>8 DEF Install, Busy
  <2>2. CASE Written(j) = NoFile
    BY <1>8, <2>1, <2>2, FailsKeeps DEF Install
  <2>3. CASE Written(j) # NoFile
    <3> DEFINE v == job[j].plan
               n == <<Panel("verifying", v), Panel("installing", v)>>
    <3>1. /\ job' = [job EXCEPT ![j].step = "installing"] /\ app' = [app EXCEPT !.on = FALSE] /\ Publish(n)
          /\ UNCHANGED <<latest, offer, discovery, installing, panel>>
      BY <1>8, <2>3 DEF Install
    <3>2. n \in Seq(PanelType) /\ \A k \in DOMAIN n : Offering(n[k])
      BY <1>4, <2>1, TwoMessages
    <3>3. app' \in [version : Nat, on : BOOLEAN]
      BY <1>1, <3>1
    <3> HIDE DEF n
    <3>. QED BY <1>1, <2>1, <3>1, <3>2, <3>3, ProceedsKeeps
  <2>. QED BY <2>2, <2>3
<1>9. CASE SpawnFails(j)
  BY <1>9, FailsKeeps DEF SpawnFails, Busy
<1>10. CASE Relaunch(j)
  BY <1>1, <1>10, StartsKeeps DEF Relaunch
<1>. QED BY <1>2, <1>3, <1>5, <1>6, <1>7, <1>8, <1>9, <1>10

LEMMA UpdateStep ==
  ASSUME UpdateInv, [UpdateNext]_updateVars
  PROVE  UpdateInv'
<1>1. /\ latest \in Nat \ {0} /\ app \in [version : Nat, on : BOOLEAN] /\ app.version \in Nat
  BY DEF UpdateInv, UpdateTypeOK
\* What the requests, the checks and the dashboard say stays as it is.
<1>2. ASSUME UNCHANGED <<offer, discovery, installing, job, outbox, panel>>,
             latest' \in Nat \ {0}, app' \in [version : Nat, on : BOOLEAN]
      PROVE  UpdateInv'
  BY <1>2 DEF UpdateInv, UpdateTypeOK, OneJob, Announced, Busy, InstallUndisturbed
<1>3. CASE UNCHANGED updateVars
  BY <1>1, <1>2, <1>3 DEF updateVars
<1>4. CASE RenderUpdaterState \/ Timer \/ RequestUpdateCheck \/ Discovered \/ DiscoveryFails
  BY <1>4, RenderKeeps, ChecksKeep, DiscoveryEnds
<1>5. ASSUME NEW j \in Jobs,
             \/ RequestAppUpdate(j) \/ Decline(j) \/ Approve(j) \/ Download(j)
             \/ DownloadFails(j) \/ Install(j) \/ SpawnFails(j) \/ Relaunch(j)
      PROVE  UpdateInv'
  BY <1>5, JobActions
<1>6. CASE DesktopCrash
  BY <1>1, <1>6, StartsKeeps DEF DesktopCrash
<1>7. CASE Rollback
  <2>1. app.version - 1 \in Nat /\ Starts(app.version - 1) /\ UNCHANGED latest
    BY <1>1, <1>7 DEF Rollback
  <2>. QED BY <2>1, StartsKeeps
<1>8. CASE Release
  <2>1. latest' \in Nat \ {0}
    BY <1>1, <1>8 DEF Release
  <2>. QED BY <1>1, <1>2, <1>8, <2>1 DEF Release, dashboard
<1>9. CASE SwitchOn
  <2>1. app' \in [version : Nat, on : BOOLEAN]
    BY <1>1, <1>9 DEF SwitchOn
  <2>. QED BY <1>1, <1>2, <1>9, <2>1 DEF SwitchOn, dashboard
<1>10. CASE AcceptDesktopIdentity \/ ReadMark \/ WriteMark \/ Reload \/ WorkerStops
  BY <1>1, <1>2, <1>10 DEF AcceptDesktopIdentity, ReadMark, WriteMark, Reload, WorkerStops,
     desktopSide, dashboard
<1>. QED BY <1>3, <1>4, <1>5, <1>6, <1>7, <1>8, <1>9, <1>10 DEF UpdateNext

\* From approval on no check runs beside an installation, with any number of requests,
\* releases and messages on their way to the dashboard.
THEOREM InstallUndisturbedAlways == UpdateSpec => []InstallUndisturbed
<1>1. UpdateInv => InstallUndisturbed
  BY DEF UpdateInv
<1>. QED BY <1>1, UpdateStarts, UpdateStep, PTL DEF UpdateSpec

\* A reload under way belongs to the pair of versions there is; once it was in vain, the
\* pair is the one attempted.
ReloadInv ==
  /\ folder \in Nat /\ app.version \in Nat
  /\ ext \in [version : Nat, reading : Nat, timer : BOOLEAN] /\ reloads \in {0, 1}
  /\ ext.reading > 0 \/ ext.timer => ext.version # app.version
  /\ ext.timer => Attempted
  /\ reloads = 1 => ReloadOver /\ Attempted /\ ext.version # app.version

LEMMA ReloadStep ==
  ASSUME UpdateInv, ReloadInv, [UpdateNext]_updateVars
  PROVE  ReloadInv'
<1>1. /\ ext \in [version : Nat, reading : Nat, timer : BOOLEAN] /\ ext.reading \in Nat
      /\ ext.timer \in BOOLEAN /\ ext.version \in Nat /\ folder \in Nat /\ app.version \in Nat
      /\ app \in [version : Nat, on : BOOLEAN]
  BY DEF ReloadInv, UpdateInv, UpdateTypeOK
\* The versions and the companion stay as they are.
<1>2. ASSUME app'.version = app.version, UNCHANGED companion PROVE ReloadInv'
  BY <1>2 DEF companion, ReloadInv, ReloadOver, Attempted, Transition
\* A version is put in while no reload is under way.
<1>3. ASSUME ReloadOver, app'.version \in Nat, folder' \in Nat, UNCHANGED <<ext, attempt>>, reloads' = 0
      PROVE  ReloadInv'
  BY <1>1, <1>3 DEF ReloadInv, ReloadOver
<1>4. CASE UNCHANGED updateVars
  BY <1>2, <1>4 DEF updateVars, companion
<1>5. CASE RenderUpdaterState \/ Timer \/ RequestUpdateCheck \/ Discovered \/ DiscoveryFails \/ Release
  BY <1>2, <1>5 DEF RenderUpdaterState, Timer, TimerAlways, RequestUpdateCheck, Discovered,
     DiscoveryFails, Release
<1>6. ASSUME NEW j \in Jobs,
             \/ RequestAppUpdate(j) \/ Decline(j) \/ Approve(j) \/ Download(j)
             \/ DownloadFails(j) \/ SpawnFails(j)
      PROVE  ReloadInv'
  BY <1>2, <1>6 DEF RequestAppUpdate, Decline, Approve, Download, DownloadFails, SpawnFails, UpdateFails
<1>7. ASSUME NEW j \in Jobs, Install(j) PROVE ReloadInv'
  <2>1. app'.version = app.version /\ UNCHANGED companion
    BY <1>1, <1>7 DEF Install, UpdateFails
  <2>. QED BY <1>2, <2>1
<1>8. ASSUME NEW j \in Jobs, Relaunch(j) PROVE ReloadInv'
  <2>1. job[j].plan \in Nat
    BY DEF UpdateInv, UpdateTypeOK, JobType
  <2>2. app'.version = job[j].plan /\ folder' \in {folder, job[j].plan}
    BY <1>8 DEF Relaunch, Starts
  <2>. QED BY <1>1, <1>3, <1>8, <2>1, <2>2 DEF Relaunch
<1>9. CASE Rollback
  <2>1. app.version - 1 \in Nat
    BY <1>1, <1>9 DEF Rollback
  <2>2. app'.version = app.version - 1 /\ folder' \in {folder, app.version - 1}
    BY <1>9 DEF Rollback, Starts
  <2>. QED BY <1>1, <1>3, <1>9, <2>1, <2>2 DEF Rollback
<1>10. CASE DesktopCrash \/ SwitchOn
  <2>1. app'.version = app.version /\ UNCHANGED companion
    BY <1>1, <1>10 DEF DesktopCrash, Starts, SwitchOn
  <2>. QED BY <1>2, <2>1
<1>11. CASE AcceptDesktopIdentity
  BY <1>1, <1>11 DEF AcceptDesktopIdentity, desktopSide, ReloadInv, ReloadOver
<1>12. CASE ReadMark
  <2>1. ext' \in [version : Nat, reading : Nat, timer : BOOLEAN]
        /\ ext'.version = ext.version /\ ext'.timer = ext.timer
    BY <1>1, <1>12 DEF ReadMark
  <2>2. ~Attempted /\ ext.version # app.version /\ UNCHANGED <<app, folder, attempt, reloads>>
    BY <1>12 DEF ReadMark, desktopSide
  <2>. QED BY <2>1, <2>2 DEF ReloadInv, Attempted, Transition
<1>13. CASE WriteMark
  <2>1. /\ ext.reading > 0 /\ attempt' = Transition /\ UNCHANGED <<app, folder, reloads>>
        /\ ext' = [ext EXCEPT !.reading = @ - 1, !.timer = TRUE]
    BY <1>13 DEF WriteMark, desktopSide
  <2>2. ext.reading - 1 \in Nat
    BY <1>1, <2>1
  <2>3. ext' \in [version : Nat, reading : Nat, timer : BOOLEAN] /\ ext'.version = ext.version
    BY <1>1, <2>1, <2>2
  <2>. QED BY <1>1, <2>1, <2>3 DEF ReloadInv, ReloadOver, Attempted, Transition
<1>14. CASE Reload
  <2>1. /\ ext.timer /\ UNCHANGED <<app, folder, attempt>>
        /\ ext' = [version |-> folder, reading |-> 0, timer |-> FALSE]
        /\ reloads' = IF folder = ext.version THEN reloads + 1 ELSE 0
    BY <1>14 DEF Reload, desktopSide
  <2>2. reloads = 0 /\ Attempted /\ ext.version # app.version
    BY <2>1 DEF ReloadInv, ReloadOver
  <2>3. /\ ext' \in [version : Nat, reading : Nat, timer : BOOLEAN] /\ ReloadOver'
        /\ ext'.version = folder
    BY <1>1, <2>1 DEF ReloadOver
  <2>4. reloads' \in {0, 1} /\ (reloads' = 1 => folder = ext.version)
    BY <2>1, <2>2
  <2>. QED BY <1>1, <2>1, <2>2, <2>3, <2>4 DEF ReloadInv, ReloadOver, Attempted, Transition
<1>15. CASE WorkerStops
  <2>1. /\ ext' \in [version : Nat, reading : Nat, timer : BOOLEAN]
        /\ ext'.version = ext.version /\ ~ext'.timer /\ ext'.reading = 0
    BY <1>1, <1>15 DEF WorkerStops
  <2>2. UNCHANGED <<app, folder, attempt, reloads>>
    BY <1>15 DEF WorkerStops, desktopSide
  <2>. QED BY <1>1, <2>1, <2>2 DEF ReloadInv, ReloadOver, Attempted, Transition
<1>. QED BY <1>4, <1>5, <1>6, <1>7, <1>8, <1>9, <1>10, <1>11, <1>12, <1>13, <1>14, <1>15 DEF UpdateNext

\* Between two changes of a version the companion reloads at most once.
THEOREM ReloadsOnceAlways == UpdateSpec => []ReloadsOnce
<1>1. UpdateInit => ReloadInv
  <2> SUFFICES ASSUME UpdateInit PROVE ReloadInv
    OBVIOUS
  <2>1. ext = [version |-> 1, reading |-> 0, timer |-> FALSE] /\ app.version = 1 /\ folder = 1 /\ reloads = 0
    BY DEF UpdateInit
  <2>. QED BY <2>1 DEF ReloadInv
<1>2. ReloadInv => ReloadsOnce
  BY DEF ReloadInv, ReloadsOnce
<1>. QED BY <1>1, <1>2, UpdateStarts, UpdateStep, ReloadStep, PTL DEF UpdateSpec
=============================================================================
