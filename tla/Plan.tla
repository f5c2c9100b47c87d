-------------------------------- MODULE Plan --------------------------------
(***************************************************************************)
(* The item plan and the purchase mode: the desktop's process keeps them,  *)
(* the operator edits them in a window that shows the last snapshot it was *)
(* sent, and the companion adds missions and approves checkouts by itself. *)
(* A save carries the whole plan and the mode the window believes in.      *)
(***************************************************************************)
EXTENDS Naturals, Sequences

CONSTANTS
  Products,    \* store options the plan may hold
  Contracts,   \* values of a mission's purchase fields (caps, quantity, action, ...)
  MaxPending,  \* bound: calls, answers and updates under way
  MaxUndo,     \* bound: changes the editor can undo
  MaxStops     \* bound: clicks on Stop

ASSUME PlanAssumption ==
  /\ {MaxPending, MaxUndo, MaxStops} \subseteq Nat
  /\ Contracts \cap {"none"} = {}

None    == "none"
Modes   == {"off", "autopilot", "signals"}
NoEdits == [open |-> FALSE, resume |-> "off", undo |-> <<>>]
NoPlan  == [p \in Products |-> None]

VARIABLES
  mode, plan,  \* settings of the desktop
  evidence,   \* checkoutEvidence: the contract each approval was given for
  view,       \* the window's currentSnapshot
  edits,      \* its plan-edit session: whether open, the mode to resume, the undo stack
  timer,      \* whether a settings save waits for its 600 ms
  clicks,     \* stopUiEpoch
  busy,       \* openRunInFlight
  requests,   \* calls of the window the desktop has not answered
  replies,    \* answers and updates the window has not handled
  wanted,     \* history: the modes asked for since the last switch-off or Stop
  stopped     \* history: whether Stop was clicked since a run was last asked for

settings == <<mode, plan, evidence>>
window   == <<view, edits, timer, clicks, busy>>
history  == <<wanted, stopped>>
vars     == <<settings, window, requests, replies, history>>

Armed == mode # "off"

Room == Len(requests) + Len(replies) < MaxPending

Shown == [mode |-> mode, plan |-> plan]

ViewArmed == view.mode # "off"

Init ==
  /\ mode = "off"
  /\ plan = NoPlan /\ evidence = NoPlan
  /\ view = Shown
  /\ edits = NoEdits /\ timer = FALSE /\ clicks = 0 /\ busy = FALSE
  /\ requests = <<>> /\ replies = <<>>
  /\ wanted = {} /\ stopped = FALSE

-----------------------------------------------------------------------------
(* The desktop.                                                            *)

\* Mutant: any change of the mission keeps its approval.
KeptEvidenceAlways(p, products) == IF products[p] = None THEN None ELSE evidence[p]

\* preserveCheckoutEvidence: an approval outlives a save only with its contract.
KeptEvidence(p, products) == IF products[p] # None /\ products[p] = plan[p] THEN evidence[p] ELSE None

\* Mutant: an armed plan may be saved over.
SafeUpdateAlways(m, products) == TRUE

\* assertSafeArmedUpdate: no purchase field changes under a purchase mode that stays
\* on, not even from one purchase mode into the other.
SafeUpdate(m, products) == Armed /\ m # "off" => products = plan

\* What normalizeSettings asks of a plan that is armed: a mission with a price, or a
\* push connection that can make one.
MayArm(m, products) == m \in {"off", "signals"} \/ \E p \in Products : products[p] # None

Answered(then, at, before) ==
  /\ requests' = Tail(requests)
  /\ replies' = Append(replies, [snap |-> Shown', then |-> then, at |-> at, before |-> before])

\* save-settings throws: nothing changes, the window gets an error.
Refused(r) ==
  /\ ~(SafeUpdate(r.mode, r.plan) /\ MayArm(r.mode, r.plan))
  /\ UNCHANGED settings
  /\ requests' = Tail(requests)
  /\ replies' = Append(replies, [snap |-> Shown, then |-> "error", at |-> r.at, before |-> r.before])

\* The whole settings are replaced.
Saved(r) ==
  /\ SafeUpdate(r.mode, r.plan) /\ MayArm(r.mode, r.plan)
  /\ mode' = r.mode
  /\ plan' = r.plan
  /\ evidence' = [p \in Products |-> KeptEvidence(p, r.plan)]
  /\ Answered(r.then, r.at, r.before)

Stopped(r) ==
  /\ mode' = "off"
  /\ UNCHANGED <<plan, evidence>>
  /\ Answered("stopped", r.at, r.before)

\* openBuyList opens the due pages.
Opened(r) ==
  /\ UNCHANGED settings
  /\ Answered("launched", r.at, r.before)

\* appendMissionProducts and its callers.
Appendable(p) == ~Armed /\ plan[p] = None

Appended(p, c) ==
  /\ plan' = [plan EXCEPT ![p] = c]
  /\ UNCHANGED <<mode, evidence>>

\* bulk-import, catalog-add-missions and trackalacker-add-missions: refused while
\* armed, or skipped as a duplicate.
Imported(r) ==
  /\ \/ \E p \in Products, c \in Contracts : Appendable(p) /\ Appended(p, c)
     \/ UNCHANGED settings
  /\ Answered("imported", r.at, r.before)

Desktop ==
  /\ requests # <<>>
  /\ LET r == Head(requests)
     IN CASE r.kind = "save"   -> Saved(r) \/ Refused(r)
          [] r.kind = "stop"   -> Stopped(r)
          [] r.kind = "open"   -> Opened(r)
          [] r.kind = "import" -> Imported(r)
  /\ UNCHANGED <<window, history>>

\* Every change is sent to the window.
Broadcast ==
  /\ Room
  /\ replies' = Append(replies, [snap |-> Shown', then |-> "render", at |-> 0, before |-> NoPlan])
  /\ UNCHANGED <<window, requests, history>>

\* The companion's Quick add.
QuickAdd(p) ==
  /\ Appendable(p)
  /\ \E c \in Contracts : Appended(p, c)
  /\ Broadcast

\* In Signals mode a push may create the mission it is missing.
SignalAdds(p) ==
  /\ mode = "signals" /\ plan[p] = None
  /\ \E c \in Contracts : Appended(p, c)
  /\ Broadcast

\* applyCheckoutPreflight: what the review page showed was checked against the mission
\* as it is now, and approves that contract.
Approved(p) == [evidence EXCEPT ![p] = plan[p]]

\* The companion sends the evidence of a final review page.
Preflight(p) ==
  /\ ~Armed /\ plan[p] # None
  /\ evidence' = Approved(p)
  /\ UNCHANGED <<mode, plan>>
  /\ Broadcast

-----------------------------------------------------------------------------
(* The operator's gestures in the window.                                  *)

\* What the window does with an answer that changes no mode.
Quiet == {"record", "imported", "render", "error"}

\* A Stop, or another change of mode, that was clicked and is not answered yet.
Waiting == \/ \E i \in DOMAIN requests : requests[i].then \notin Quiet
           \/ \E i \in DOMAIN replies : replies[i].then \notin Quiet

\* A gesture: room for a call, and the operator waits for a change of mode.
Clicks == Room /\ ~Waiting

\* A call notes what its answer will need: Stop's count when it may open a session,
\* the list shown before a change when it may be undone.
Request(kind, m, products, then) ==
  [kind |-> kind, mode |-> m, plan |-> products, then |-> then,
   at |-> IF then \in {"autopilot", "signals"} THEN clicks ELSE 0,
   before |-> IF edits.open /\ then \in {"record", "imported"} THEN view.plan ELSE NoPlan]

Call(kind, m, products, then) ==
  requests' = Append(requests, Request(kind, m, products, then))

\* saveMissionList with a new list: the mode is the one the window shows.
SaveList(products, then) == Call("save", view.mode, products, then)

\* saveSettings with the settings of the snapshot and another mode.
SaveModeCall(m, then) == Call("save", m, view.plan, then)

\* beginPlanEditSession: an armed mode is switched off first.
BeginEdit ==
  /\ Clicks /\ ~edits.open /\ ~busy
  /\ IF ViewArmed
     THEN SaveModeCall("off", view.mode) /\ UNCHANGED edits
     ELSE edits' = [NoEdits EXCEPT !.open = TRUE] /\ UNCHANGED requests
  /\ UNCHANGED <<settings, view, timer, clicks, busy, replies, history>>

\* setMissionsEnabled, the editor of an item, its removal: not while armed.
Edit(p, c) ==
  /\ Clicks /\ ~ViewArmed /\ view.plan[p] # c
  /\ SaveList([view.plan EXCEPT ![p] = c], "record")
  /\ UNCHANGED <<settings, view, edits, timer, clicks, busy, replies, history>>

\* Reordering and grouping cards is allowed at any time.
Reorder ==
  /\ Clicks
  /\ SaveList(view.plan, "record")
  /\ UNCHANGED <<settings, window, replies, history>>

Import ==
  /\ Clicks /\ ~ViewArmed
  /\ Call("import", "off", NoPlan, "imported")
  /\ UNCHANGED <<settings, window, replies, history>>

\* scheduleSettingsSave, and its timer.
ChangeSetting ==
  /\ Clicks /\ timer' = TRUE
  /\ UNCHANGED <<settings, view, edits, clicks, busy, requests, replies, history>>

TimerFires ==
  /\ timer /\ Room
  /\ timer' = FALSE
  /\ SaveList(view.plan, "record")
  /\ UNCHANGED <<settings, view, edits, clicks, busy, replies, history>>

Undo ==
  /\ Clicks /\ edits.open /\ edits.undo # <<>>
  /\ \/ SaveList(edits.undo[Len(edits.undo)], "render")
        /\ edits' = [edits EXCEPT !.undo = SubSeq(@, 1, Len(@) - 1)]
     \/ SaveList(edits.undo[1], "render")
        /\ edits' = [edits EXCEPT !.undo = <<>>]
  /\ UNCHANGED <<settings, view, timer, clicks, busy, replies, history>>

\* finishPlanEditSession, and its confirmation when orders may be submitted.
FinishEdit ==
  /\ Clicks /\ edits.open /\ ~busy
  /\ edits' = NoEdits
  /\ \/ edits.resume # "off" /\ SaveModeCall(edits.resume, "resumed")
     \/ UNCHANGED requests
  /\ UNCHANGED <<settings, view, timer, clicks, busy, replies, history>>

\* runReviewModel: the mode may be started with the plan the window shows.
Startable(m) == m = "signals" \/ \E p \in Products : view.plan[p] # None

\* The run is reviewed and started: autopilotToggle, signalsToggle.
StartRun(m) ==
  /\ Clicks /\ ~busy /\ ~edits.open /\ view.mode # m /\ Startable(m)
  /\ SaveModeCall(m, IF m = "autopilot" THEN "launch" ELSE "launched")
  /\ busy' = TRUE /\ wanted' = wanted \cup {m} /\ stopped' = FALSE
  /\ UNCHANGED <<settings, view, edits, timer, clicks, replies>>

EndRun ==
  /\ Clicks /\ ~busy /\ ViewArmed
  /\ SaveModeCall("off", "launched")
  /\ busy' = TRUE /\ wanted' = {} /\ UNCHANGED stopped
  /\ UNCHANGED <<settings, view, edits, timer, clicks, replies>>

\* Mutant: the settings save that waits is left to its timer.
TimerAfterStopKept == timer

TimerAfterStop == FALSE

\* disarmButton: the window forgets its session and its timer before it calls.
StopClick ==
  /\ Room /\ clicks < MaxStops
  /\ clicks' = clicks + 1
  /\ edits' = NoEdits
  /\ timer' = TimerAfterStop
  /\ Call("stop", "off", NoPlan, "stopped")
  /\ wanted' = {} /\ stopped' = TRUE
  /\ UNCHANGED <<settings, view, busy, replies>>

-----------------------------------------------------------------------------
(* The window handles what it is sent.                                     *)

\* The pause of a run was answered, and Stop was not clicked in between.
SessionOpens(m) == m.then \in {"autopilot", "signals"} /\ m.at = clicks

\* recordPlanChange
Recorded(m) ==
  /\ edits.open /\ m.then \in {"record", "imported"}
  /\ m.before # m.snap.plan /\ Len(edits.undo) < MaxUndo

Receive ==
  /\ replies # <<>>
  /\ LET m == Head(replies)
     IN /\ view' = IF m.then = "error" THEN view ELSE m.snap
        /\ edits' = IF SessionOpens(m) THEN [open |-> TRUE, resume |-> m.then, undo |-> <<>>]
                    ELSE IF Recorded(m) THEN [edits EXCEPT !.undo = Append(@, m.before)]
                    ELSE edits
        /\ busy' = IF m.then \in {"launched", "error"} THEN FALSE ELSE busy
        /\ IF m.then = "launch"
           THEN Call("open", "off", NoPlan, "launched")
           ELSE UNCHANGED requests
  /\ replies' = Tail(replies)
  /\ UNCHANGED <<settings, timer, clicks, history>>

Next ==
  \/ Desktop \/ Receive
  \/ BeginEdit \/ Reorder \/ Import \/ ChangeSetting \/ TimerFires
  \/ Undo \/ FinishEdit \/ EndRun \/ StopClick
  \/ \E m \in {"autopilot", "signals"} : StartRun(m)
  \/ \E p \in Products :
       \/ QuickAdd(p) \/ SignalAdds(p) \/ Preflight(p)
       \/ \E c \in Contracts \cup {None} : Edit(p, c)

Spec == Init /\ [][Next]_vars

-----------------------------------------------------------------------------
\* README.md:79: Stop is a hard boundary. Once it was clicked and the calls under way
\* are through, no save that was on its way, no timer and no session that it
\* interrupted has a purchase mode on, until the operator asks for a run.
StopHolds == requests = <<>> /\ stopped => ~Armed

\* "Disarm automation before changing products" (core.js:1262): a run works with the
\* plan it was started with, to which only Signals may add a missing mission.
ArmedPlanFrozen ==
  [][Armed /\ mode' # "off" =>
       \A p \in Products : plan'[p] # plan[p] => mode = "signals" /\ plan[p] = None]_vars

\* An approved checkout stays approved only for the contract it was given for.
EvidenceForContract == \A p \in Products : evidence[p] \in {None, plan[p]}
=============================================================================
