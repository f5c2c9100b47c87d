--------------------------------- MODULE Traffic ---------------------------------
(***************************************************************************)
(* The traffic governor of one store: src/extension/traffic.js and its     *)
(* handlers in src/extension/background.js, and the page reloads of        *)
(* src/extension/content.js that it spaces.                                *)
(*                                                                         *)
(* A retry of a page goes through the steps                                *)
(*   reserve   the page asks the worker for a slot                         *)
(*   notice    it has one and reports the retry to the desktop             *)
(*   timer     it waits for the slot, perhaps in a hidden tab              *)
(*   check     the timer has fired and the worker revalidates the slot     *)
(* and the page goes on scanning meanwhile.  An answer of the worker is    *)
(* acted on as it is given: a slow answer is a slow request.  The worker   *)
(* keeps its lock on the traffic state while it asks the desktop for       *)
(* budget; what that answers is left open.                                 *)
(***************************************************************************)
EXTENDS Naturals

CONSTANTS
  Tabs,       \* a tab and the product it works on: the owner of a reservation
  Adders,     \* those of them whose mission adds to the cart; the others watch
  Intervals,  \* navigation intervals in use: normal and pre-eligibility
  Delays,     \* how far ahead a page asks for its slot
  Cooldowns,  \* lengths of an overload cool-down (escalation, Retry-After)
  Grace,      \* a slot this old is pruned
  MaxTime, MaxId, MaxRuns, MaxDrops  \* bounds of the model

ASSUME TrafficAssumption ==
  /\ Adders \subseteq Tabs
  /\ Intervals \subseteq Nat \ {0} /\ Delays \subseteq Nat /\ Cooldowns \subseteq Nat
  /\ Grace \in Nat

VARIABLES
  now,      \* the clock
  run,      \* the desktop's current run
  traffic,  \* the stored traffic state; drops counts the runs it was cleared for
  asking,   \* the retry for which the worker awaits the desktop's budget, or NoAsk
  retries,  \* the retries under way
  page,     \* page[t]: "watch", "add" while the page adds to the cart, or "cut"
            \* after a retry has reloaded it in the middle of that
  handle,   \* handle[t]: the retry whose timer the page can clear, or 0
  slot,     \* slot[t]: the reservation the page can cancel, or 0
  serial,   \* reservation ids used so far
  cancels   \* cancellations on their way to the worker

trafficVars == <<now, run, traffic, asking, retries, page, handle, slot, serial, cancels>>
tabs == <<page, handle, slot, serial>>

NoSlot == [id |-> 0, at |-> 0, every |-> 0]
NoAsk == [tab |-> "none", id |-> 0]

TrafficInit ==
  /\ now = 1 /\ run = 0
  /\ traffic = [run |-> 0, until |-> 0, last |-> 0, drops |-> 0,
                slots |-> [t \in Tabs |-> NoSlot]]
  /\ asking = NoAsk
  /\ retries = {} /\ cancels = {}
  /\ page = [t \in Tabs |-> "watch"]
  /\ handle = [t \in Tabs |-> 0]
  /\ slot = [t \in Tabs |-> 0]
  /\ serial = 0

--------------------------------------------------------------------------------
(* The stored state *)

\* What a handler with a configuration of run r reads: reservations of another
\* run are dropped.
ReadTraffic(r) ==
  IF r = traffic.run THEN traffic
  ELSE [run |-> r, until |-> traffic.until, last |-> traffic.last,
        drops |-> traffic.drops + 1, slots |-> [t \in Tabs |-> NoSlot]]

\* The configuration of a handler is of this run or of an earlier one.
Served == {r \in 0..run : r # traffic.run => traffic.drops < MaxDrops}

Pruned(s) ==
  [s EXCEPT !.slots = [t \in Tabs |-> IF @[t].at + Grace < now THEN NoSlot ELSE @[t]]]

\* Mutant: neither the last navigation nor the other slots are kept distance from.
SlotBoundsCrowded(s, t, every, notBefore) == {now, notBefore, s.until}

\* The instants a new slot of t may not precede; t's own slot is replaced.
SlotBounds(s, t, every, notBefore) ==
  {now, notBefore, s.until}
    \cup (IF s.last = 0 THEN {} ELSE {s.last + every})
    \cup {s.slots[u].at + every : u \in {v \in Tabs \ {t} : s.slots[v] # NoSlot}}

Latest(at, bounds) == at \in bounds /\ \A b \in bounds : b <= at

Placed(s, t, new) == [s EXCEPT !.slots[t] = new]

--------------------------------------------------------------------------------
(* Retries *)

\* Retry c goes on as d.
Goes(c, d) == retries' = (retries \ {c}) \cup {d}

\* A scan of t is inside scheduleRetry; there is one scan at a time.
Scanning(t) ==
  \E c \in retries : c.tab = t /\ c.scan /\ c.step \in {"reserve", "notice"}

NewRetry(t, scan) ==
  [tab |-> t, id |-> serial + 1, scan |-> scan, step |-> "reserve",
   at |-> 0, drops |-> 0, holds |-> FALSE]

\* scheduleRetry up to its request, from a scan.
Schedule(t) ==
  /\ handle[t] = 0 /\ page[t] # "add" /\ ~Scanning(t) /\ serial < MaxId
  /\ retries' = retries \cup {NewRetry(t, TRUE)}
  /\ serial' = serial + 1
  /\ UNCHANGED <<now, run, traffic, asking, page, handle, slot, cancels>>

\* The worker serves the request of retry c; holds says whether the slot of c
\* is still its own, and a newer one of the tab replaces it.
Reserve(c, every, delay, r) ==
  LET s == Pruned(ReadTraffic(r))
      bounds == SlotBounds(s, c.tab, every, now + delay)
  IN /\ asking = NoAsk /\ c.step = "reserve"
     /\ \E at \in bounds :
          /\ Latest(at, bounds)
          /\ traffic' = Placed(s, c.tab, [id |-> c.id, at |-> at, every |-> every])
          /\ retries' = {IF d.tab = c.tab THEN [d EXCEPT !.holds = FALSE] ELSE d
                           : d \in retries \ {c}}
                 \cup {[c EXCEPT !.step = "notice", !.at = at, !.drops = s.drops, !.holds = TRUE]}
     /\ slot' = [slot EXCEPT ![c.tab] = c.id]
     /\ UNCHANGED <<now, run, asking, page, handle, serial, cancels>>

\* The worker does not serve retry c: automation is off, or the desktop is away.
Refuse(c) ==
  /\ c.step \in {"reserve", "check"} /\ c.id # asking.id
  /\ retries' = retries \ {c}
  /\ UNCHANGED <<now, run, traffic, asking, tabs, cancels>>

\* armNavigationRetry: an earlier timer of the page is forgotten, not cleared.
ArmRetry(c) ==
  /\ c.step = "notice"
  /\ Goes(c, [c EXCEPT !.step = "timer"])
  /\ handle' = [handle EXCEPT ![c.tab] = c.id]
  /\ UNCHANGED <<now, run, traffic, asking, page, slot, serial, cancels>>

Fire(c) ==
  /\ c.step = "timer" /\ c.at <= now
  /\ Goes(c, [c EXCEPT !.step = "check"])
  /\ handle' = [handle EXCEPT ![c.tab] = 0]
  /\ slot' = [slot EXCEPT ![c.tab] = IF @ = c.id THEN 0 ELSE @]
  /\ UNCHANGED <<now, run, traffic, asking, page, serial, cancels>>

\* clearNavigationRetry; the cancellation is not awaited.
Clear(t) ==
  /\ retries' = {IF c.tab = t /\ c.id = slot[t] THEN [c EXCEPT !.holds = FALSE] ELSE c
       : c \in {d \in retries : ~(d.tab = t /\ d.id = handle[t] /\ d.step = "timer")}}
  /\ cancels' = IF slot[t] = 0 THEN cancels ELSE cancels \cup {[tab |-> t, id |-> slot[t]]}
  /\ handle' = [handle EXCEPT ![t] = 0]
  /\ slot' = [slot EXCEPT ![t] = 0]

\* Automation is off, or the page asks for something else.
Withdraw(t) ==
  /\ handle[t] # 0 \/ slot[t] # 0
  /\ Clear(t)
  /\ UNCHANGED <<now, run, traffic, asking, page, serial>>

\* Mutant: any slot of the tab is canceled.
CanceledAny(s, m) == Placed(s, m.tab, NoSlot)

Canceled(s, m) == IF s.slots[m.tab].id = m.id THEN Placed(s, m.tab, NoSlot) ELSE s

Cancel(m, r) ==
  /\ asking = NoAsk
  /\ traffic' = Canceled(Pruned(ReadTraffic(r)), m)
  /\ cancels' = cancels \ {m}
  /\ UNCHANGED <<now, run, asking, retries, tabs>>

--------------------------------------------------------------------------------
(* Revalidation *)

\* Mutant: the cool-down is looked at when the slot is reserved, not again.
RevalidatedAtUnshifted(s, t, at) == at = s.slots[t].at

\* When the slot of t may be used: a cool-down that reaches past it moves it
\* behind everything else.
RevalidatedAt(s, t, at) ==
  IF s.until > s.slots[t].at
  THEN Latest(at, SlotBounds(s, t, s.slots[t].every, s.until))
  ELSE at = s.slots[t].at

\* The slot is gone: the page asks for another, unless it waits for one already
\* or its mission has nothing to retry any more.
SlotMissing(s, c) ==
  /\ s.slots[c.tab].id # c.id
  /\ traffic' = s
  /\ \/ /\ handle[c.tab] = 0 /\ serial < MaxId
        /\ Goes(c, NewRetry(c.tab, FALSE)) /\ serial' = serial + 1
     \/ retries' = retries \ {c} /\ UNCHANGED serial
  /\ UNCHANGED <<asking, handle, slot>>

\* Too early: the page waits again.
SlotWaits(s, c, at) ==
  /\ now < at
  /\ traffic' = Placed(s, c.tab, [s.slots[c.tab] EXCEPT !.at = at])
  /\ Goes(c, [c EXCEPT !.step = "timer", !.at = at])
  /\ handle' = [handle EXCEPT ![c.tab] = c.id]
  /\ slot' = [slot EXCEPT ![c.tab] = c.id]
  /\ UNCHANGED <<asking, serial>>

SlotUsed(s, c, at) ==
  /\ at <= now
  /\ traffic' = [Placed(s, c.tab, NoSlot) EXCEPT !.last = now]
  /\ asking' = [tab |-> c.tab, id |-> c.id]
  /\ Goes(c, [c EXCEPT !.holds = FALSE])
  /\ UNCHANGED <<handle, slot, serial>>

Revalidate(c, r) ==
  LET s == Pruned(ReadTraffic(r))
      mine == s.slots[c.tab]
  IN /\ asking = NoAsk /\ c.step = "check"
     /\ \/ SlotMissing(s, c)
        \/ /\ mine.id = c.id
           /\ \E at \in SlotBounds(s, c.tab, mine.every, s.until) \cup {mine.at} :
                RevalidatedAt(s, c.tab, at) /\ (SlotWaits(s, c, at) \/ SlotUsed(s, c, at))
     /\ UNCHANGED <<now, run, page, cancels>>

--------------------------------------------------------------------------------
(* The page *)

\* A new document: what the old one had under way is gone, its slot is not.
NewPage(t, as) ==
  /\ page' = [page EXCEPT ![t] = as]
  /\ retries' = {c \in retries : c.tab # t}
  /\ handle' = [handle EXCEPT ![t] = 0]
  /\ slot' = [slot EXCEPT ![t] = 0]
  /\ UNCHANGED <<now, run, traffic, serial, cancels>>

\* The page, if it is still there, gives up its retry.
NoReload ==
  /\ retries' = {c \in retries : ~(c.tab = asking.tab /\ c.id = asking.id)}
  /\ UNCHANGED <<now, run, traffic, tabs, cancels>>

\* Budget is granted and the page, if it is still there, reloads.
Reloads ==
  /\ \E c \in retries : c.tab = asking.tab /\ c.id = asking.id
  /\ NewPage(asking.tab, IF page[asking.tab] = "add" THEN "cut" ELSE "watch")

\* The desktop's answer for the budget of a used slot, or its loss.
Answer ==
  /\ asking # NoAsk
  /\ asking' = NoAsk
  /\ NoReload \/ Reloads

\* A scan qualifies the mission, withdraws the retry and begins to add.
Qualify(t) ==
  /\ t \in Adders /\ page[t] # "add" /\ ~Scanning(t)
  /\ Clear(t)
  /\ page' = [page EXCEPT ![t] = "add"]
  /\ UNCHANGED <<now, run, traffic, asking, serial>>

\* The Add is over and the page stays.
Added(t) ==
  /\ page[t] = "add"
  /\ page' = [page EXCEPT ![t] = "watch"]
  /\ UNCHANGED <<now, run, traffic, asking, retries, handle, slot, serial, cancels>>

\* The tab goes to another page, or is closed.
Leave(t) ==
  /\ page[t] = "add" \/ \E c \in retries : c.tab = t
  /\ NewPage(t, "watch")
  /\ UNCHANGED asking

--------------------------------------------------------------------------------
(* The store and the desktop *)

\* A page of the store is opened by the user or by the desktop.
OpenPage(r) ==
  /\ asking = NoAsk
  /\ traffic' = [ReadTraffic(r) EXCEPT !.last = now]
  /\ UNCHANGED <<now, run, asking, retries, tabs, cancels>>

\* The store answers with an overload.
Overload(d, r) ==
  LET s == Pruned(ReadTraffic(r))
  IN /\ asking = NoAsk
     /\ traffic' = [s EXCEPT !.until = IF s.until > now + d THEN s.until ELSE now + d]
     /\ UNCHANGED <<now, run, asking, retries, tabs, cancels>>

NewRun ==
  /\ run < MaxRuns
  /\ run' = run + 1
  /\ UNCHANGED <<now, traffic, asking, retries, tabs, cancels>>

Tick ==
  /\ now < MaxTime
  /\ now' = now + 1
  /\ UNCHANGED <<run, traffic, asking, retries, tabs, cancels>>

--------------------------------------------------------------------------------

TrafficNext ==
  \/ \E t \in Tabs : Schedule(t) \/ Withdraw(t) \/ Qualify(t) \/ Added(t) \/ Leave(t)
  \/ \E c \in retries : Refuse(c) \/ ArmRetry(c) \/ Fire(c)
  \/ \E c \in retries, every \in Intervals, delay \in Delays, r \in Served :
       Reserve(c, every, delay, r)
  \/ \E c \in retries, r \in Served : Revalidate(c, r)
  \/ \E m \in cancels, r \in Served : Cancel(m, r)
  \/ Answer
  \/ \E r \in Served : OpenPage(r) \/ \E d \in Cooldowns : Overload(d, r)
  \/ NewRun \/ Tick

TrafficSpec == TrafficInit /\ [][TrafficNext]_trafficVars

--------------------------------------------------------------------------------
(* Properties *)

Slots == [id : Nat, at : Nat, every : Nat]
Steps == {"reserve", "notice", "timer", "check"}
Retries == [tab : Tabs, id : Nat, scan : BOOLEAN, step : Steps,
            at : Nat, drops : Nat, holds : BOOLEAN]

TrafficTypeOK ==
  /\ now \in Nat /\ run \in Nat
  /\ traffic \in [run : Nat, until : Nat, last : Nat, drops : Nat, slots : [Tabs -> Slots]]
  /\ asking \in [tab : Tabs \cup {"none"}, id : Nat]
  /\ retries \subseteq Retries
  /\ page \in [Tabs -> {"watch", "add", "cut"}]
  /\ handle \in [Tabs -> Nat] /\ slot \in [Tabs -> Nat] /\ serial \in Nat
  /\ cancels \subseteq [tab : Tabs, id : Nat]

\* Two slots are apart by the interval of the one reserved later: however tabs
\* replace, cancel and lose their reservations, no two are promised the store
\* at once ("serialized per store", README.md 34).
SlotsSpaced ==
  \A t, u \in Tabs :
    t # u /\ NoSlot \notin {traffic.slots[t], traffic.slots[u]}
      => LET a == traffic.slots[t]
             b == traffic.slots[u]
         IN a.at >= b.at + a.every \/ b.at >= a.at + b.every

\* A tab never uses its slot in a cool-down the worker knows of, though the
\* overload may be met after the slot was reserved, and by any other tab.
CooldownRespected == asking # NoAsk => traffic.until <= now

\* The slot of a retry is there, at the instant its page waits for, until it
\* expires, a change of run drops it or its own page withdraws or replaces it:
\* no other tab, late cancellation or overload takes it away ("no product can
\* starve the others", README.md 264).
WaitersKeepTheirSlot ==
  \A c \in retries :
    /\ c.holds /\ c.step # "reserve"
    /\ c.drops = traffic.drops
    /\ now <= c.at + Grace
    => traffic.slots[c.tab].id = c.id /\ traffic.slots[c.tab].at = c.at

================================================================================
