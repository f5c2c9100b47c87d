------------------------------ MODULE Openings ------------------------------
(***************************************************************************)
(* How the desktop opens the pages of one store.  The operator's sweeps    *)
(* and single openings, the watchers, the calendar and the queue fan-out   *)
(* ask for openings.  Each passes the store's queue, asks the companion    *)
(* (Chrome's service worker) to show the page in one of its tabs, and      *)
(* falls back to opening the page itself.  Stop, a crash of the desktop    *)
(* and the death of the worker may come between any two steps.             *)
(***************************************************************************)
EXTENDS Naturals, Sequences, FiniteSets, Functions

CONSTANTS
  Products,      \* enabled missions of the store without a calendar time
  Tabs,          \* tabs of the store Chrome can hold
  Spacing,       \* ticks between two openings that are not parallel
  CoolDown,      \* ticks of an overload's cool-down
  MaxTasks,      \* bound: openings asked for
  MaxStops,      \* bound: Stop, and a new run mode
  MaxFaults      \* bound: crashes, worker deaths and overloads

ASSUME OpeningsAssumption ==
  /\ Products # {} /\ IsFiniteSet(Products)
  /\ {Spacing, CoolDown, MaxTasks, MaxStops, MaxFaults} \subseteq Nat
  /\ Products \cap {"none", "other", "purchase"} = {}

Stages  == {"queued", "asking", "handed", "opened", "dropped"}
NoSweep == [plan |-> {}, boot |-> 0, epoch |-> 0]
NewTab  == "new"
Worker  == {"idle", "listed", "claiming", "won", "go"}

VARIABLES
  paused,     \* settings: monitoringPaused
  stopEpoch,  \* stopEpoch, bumped together with the queue's own epoch
  task,       \* the openings, in the order they were asked for
  requests,   \* openings the companion can still claim
  gap,        \* ticks until the spacing after the last opening is over
  cool,       \* ticks until the store's overload deadline
  sweep,      \* a sweep that waits for the companion to connect
  ext,        \* what the worker does with each opening
  choice,     \* the tab it chose for it
  tab,        \* the page of each tab; "none" is a tab that does not exist
  opens,      \* history: pages opened for each opening
  faults

desktop == <<stopEpoch, task, requests, gap, cool, sweep>>
chrome  == <<ext, choice, tab>>
vars    == <<paused, desktop, chrome, opens, faults>>

Ids   == 1 .. MaxTasks
Tasks == DOMAIN task

\* Mutant: a refused opening breaks the chain of the ones behind it.
SettledUnlessRefused(t) == task[t].stage \in {"handed", "opened"}

-----------------------------------------------------------------------------
Settled(t) == task[t].stage \in {"handed", "opened", "dropped"}

\* pendingNavigationKeys: the same page is not queued twice.
Pending == {task[t].product : t \in {u \in Tasks : ~Settled(u)}}

Orders(P) == Injection(1 .. Cardinality(P), P)

NewTask(p, burst) == [product |-> p, burst |-> burst, epoch |-> stopEpoch, stage |-> "queued"]

\* The missions are asked for in the order of the item plan.
Ask(P, burst) ==
  \E s \in Orders(P \ Pending) :
    /\ Len(task) + Len(s) <= MaxTasks
    /\ task' = task \o [i \in DOMAIN s |-> NewTask(s[i], burst)]

To(t, stage) == [task EXCEPT ![t].stage = stage]

\* Openings of a drop's burst do not wait for one another.  Every other one starts
\* when those before it in the chain have settled and the spacing is over.
Turn(t) ==
  /\ cool = 0
  /\ ~task[t].burst =>
       /\ gap = 0
       /\ \A u \in 1 .. t - 1 : task[u].burst \/ Settled(u)

Current(t) == task[t].epoch = stopEpoch

(* The worker's choice of a tab.                                           *)

\* Mutant: a burst reuses the same free tab.
ReusableByAll(t) ==
  LET own == {c \in Tabs : tab[c] = task[t].product}
      all == {c \in Tabs : tab[c] = "other"}
  IN IF own # {} THEN own ELSE IF all # {} THEN all ELSE {NewTab}

\* The mission's own tab, else for a burst a new one, else a tab that is no
\* other mission's and no cart, checkout or confirmation page.
Reusable(t) ==
  LET p    == task[t].product
      own  == {c \in Tabs : tab[c] = p}
      free == {c \in Tabs : tab[c] = "other"}
  IN IF own # {} THEN own
     ELSE IF task[t].burst \/ free = {} THEN {NewTab}
     ELSE free

-----------------------------------------------------------------------------
Init ==
  /\ paused = TRUE /\ stopEpoch = 0
  /\ task = <<>> /\ requests = {}
  /\ gap = 0 /\ cool = 0
  /\ sweep = NoSweep
  /\ ext = [t \in Ids |-> "idle"]
  /\ choice = [t \in Ids |-> NewTab]
  /\ \E c \in Tabs : tab = [d \in Tabs |-> IF d = c THEN "other" ELSE "none"]
  /\ opens = [t \in Ids |-> 0]
  /\ faults = 0

(* Who asks for openings.                                                  *)

\* openProduct from a mission's row: any explicit Open lifts the pause.
OpenProduct(p) ==
  /\ p \notin Pending
  /\ Ask({p}, FALSE)
  /\ paused' = FALSE
  /\ UNCHANGED <<stopEpoch, requests, gap, cool, sweep, chrome, opens, faults>>

\* openProduct for a watcher or a signal, a calendar firing or a queue fan-out:
\* it never lifts the pause.
OpenReleased(p, burst) ==
  /\ ~paused
  /\ p \notin Pending
  /\ Ask({p}, burst)
  /\ UNCHANGED <<paused, stopEpoch, requests, gap, cool, sweep, chrome, opens, faults>>

\* openBuyList plans the sweep.  Without a companion it first opens the page of one
\* mission and waits for the companion to connect.
Sweep(connected) ==
  /\ sweep = NoSweep
  /\ paused' = FALSE
  /\ IF connected
     THEN Ask(Products, FALSE) /\ UNCHANGED sweep
     ELSE \E b \in Products \ Pending :
            /\ Ask({b}, FALSE)
            /\ sweep' = [plan |-> Products \ {b}, boot |-> Len(task) + 1, epoch |-> stopEpoch]
  /\ UNCHANGED <<stopEpoch, requests, gap, cool, chrome, opens, faults>>

\* The companion's heartbeat arrives after the page was opened: the rest of the
\* sweep follows.  Nothing here looks at Stop again.
SweepConnected ==
  /\ sweep # NoSweep
  /\ task[sweep.boot].stage \in {"opened", "handed"}
  /\ Ask(sweep.plan, FALSE)
  /\ sweep' = NoSweep
  /\ UNCHANGED <<paused, stopEpoch, requests, gap, cool, chrome, opens, faults>>

\* The page could not be opened, or no heartbeat came in time.
SweepFails ==
  /\ sweep # NoSweep
  /\ Settled(sweep.boot)
  /\ sweep' = NoSweep
  /\ UNCHANGED <<paused, stopEpoch, task, requests, gap, cool, chrome, opens, faults>>

-----------------------------------------------------------------------------
(* Stop.                                                                   *)

\* Mutant: requests already handed out stay claimable.
WithdrawnNone == requests

\* cancelAll: no request is on offer after Stop.
Withdrawn == {}

\* stop-all, or save-settings that leaves one run mode for another, which then
\* resumes monitoring.
Stop(resumes) ==
  /\ stopEpoch < MaxStops
  /\ stopEpoch' = stopEpoch + 1
  /\ requests' = Withdrawn
  /\ paused' = ~resumes
  /\ UNCHANGED <<task, gap, cool, sweep, chrome, opens, faults>>

-----------------------------------------------------------------------------
(* A task passes the opening queue.                                        *)

OpenPage(t) ==
  /\ task' = To(t, "opened")
  /\ opens' = [opens EXCEPT ![t] = @ + 1]

\* A page the desktop opens is a new tab of Chrome.
OpenDirectly(t) ==
  IF Current(t)
  THEN /\ OpenPage(t)
       /\ \E c \in Tabs : tab[c] = "none" /\ tab' = [tab EXCEPT ![c] = task[t].product]
  ELSE task' = To(t, "dropped") /\ UNCHANGED <<opens, tab>>

\* The action budget refuses, a companion is asked, or the page is opened.
Cross(t) ==
  /\ task[t].stage = "queued" /\ Current(t) /\ Turn(t)
  /\ \/ task' = To(t, "dropped") /\ UNCHANGED <<opens, requests, gap, tab>>
     \/ task' = To(t, "asking") /\ requests' = requests \cup {t} /\ UNCHANGED <<opens, gap, tab>>
     \/ OpenDirectly(t) /\ gap' = Spacing /\ UNCHANGED requests
  /\ UNCHANGED <<paused, stopEpoch, cool, sweep, ext, choice, faults>>

\* A stale task leaves the queue without opening anything.
Cancelled(t) ==
  /\ task[t].stage = "queued" /\ ~Current(t)
  /\ task' = To(t, "dropped")
  /\ UNCHANGED <<paused, stopEpoch, requests, gap, cool, sweep, chrome, opens, faults>>

\* A request that was not claimed in time is taken back.
TakenBack(t) == requests \ {t}

\* waitForClaim ends unclaimed: its timer, the pruning of old requests, or Stop.
NotClaimed(t) ==
  /\ task[t].stage = "asking"
  /\ requests' = TakenBack(t)
  /\ OpenDirectly(t)
  /\ gap' = Spacing
  /\ UNCHANGED <<paused, stopEpoch, cool, sweep, ext, choice, faults>>

-----------------------------------------------------------------------------
(* The companion.                                                          *)

\* The worker fetches the list of requests, empty while paused; one list at a time.
Poll ==
  /\ \A t \in Ids : ext[t] = "idle"
  /\ requests # {} /\ ~paused
  /\ ext' = [t \in Ids |-> IF t \in requests THEN "listed" ELSE "idle"]
  /\ UNCHANGED <<paused, desktop, choice, tab, opens, faults>>

\* Bursts are worked on together, then the others one by one.
NextUp(t) ==
  \A u \in Ids \ {t} : ext[u] # "idle" =>
    \/ task[t].burst
    \/ ~task[u].burst /\ ext[u] = "listed" /\ t < u

\* It chooses a tab, then sends its claim.
Choose(t) ==
  /\ ext[t] = "listed" /\ NextUp(t)
  /\ \E c \in Reusable(t) : choice' = [choice EXCEPT ![t] = c]
  /\ ext' = [ext EXCEPT ![t] = "claiming"]
  /\ UNCHANGED <<paused, desktop, tab, opens, faults>>

\* Mutant: a request that fell back can still be claimed.
ClaimableLate(t) == t \in Tasks /\ ~paused

Claimable(t) == t \in requests /\ ~paused

Done(t) == ext' = [ext EXCEPT ![t] = "idle"] /\ choice' = [choice EXCEPT ![t] = NewTab]

\* The desktop answers the claim; the answer may get lost.
Claim(t) ==
  /\ ext[t] = "claiming"
  /\ IF Claimable(t)
     THEN /\ requests' = requests \ {t}
          /\ gap' = Spacing
          /\ \/ ext' = [ext EXCEPT ![t] = "won"] /\ task' = To(t, "handed") /\ UNCHANGED choice
             \/ Done(t) /\ task' = To(t, "dropped")
     ELSE Done(t) /\ UNCHANGED <<requests, gap, task>>
  /\ UNCHANGED <<paused, stopEpoch, cool, sweep, tab, opens, faults>>

\* The worker fetches the configuration again before it touches a tab.
Recheck(t) ==
  /\ ext[t] = "won"
  /\ \/ paused /\ Done(t) /\ task' = To(t, "dropped")
     \/ ~paused /\ ext' = [ext EXCEPT ![t] = "go"] /\ UNCHANGED <<task, choice>>
  /\ UNCHANGED <<paused, stopEpoch, requests, gap, cool, sweep, tab, opens, faults>>

\* It navigates the chosen tab, or a new one when that is gone (TabMoves).
Navigate(t) ==
  /\ ext[t] = "go"
  /\ LET c == choice[t]
     IN \E d \in IF c # NewTab THEN {c} ELSE {n \in Tabs : tab[n] = "none"} :
          tab' = [tab EXCEPT ![d] = task[t].product]
  /\ Done(t)
  /\ OpenPage(t)
  /\ UNCHANGED <<paused, stopEpoch, requests, gap, cool, sweep, faults>>

-----------------------------------------------------------------------------
(* Time, the pages themselves, and faults.                                 *)

Tick ==
  /\ gap + cool > 0
  /\ gap' = IF gap > 0 THEN gap - 1 ELSE 0
  /\ cool' = IF cool > 0 THEN cool - 1 ELSE 0
  /\ UNCHANGED <<paused, stopEpoch, task, requests, sweep, chrome, opens, faults>>

\* A tab goes on from the product page to cart and checkout, and is closed.  Chrome
\* never gives the id of a closed tab to another: who chose it needs a new one.
TabMoves(c) ==
  /\ tab[c] \in Products \cup {"purchase"}
  /\ tab' = [tab EXCEPT ![c] = IF tab[c] = "purchase" THEN "none" ELSE "purchase"]
  /\ choice' = [t \in Ids |-> IF choice[t] = c /\ tab[c] = "purchase" THEN NewTab ELSE choice[t]]
  /\ UNCHANGED <<paused, desktop, ext, opens, faults>>

Fault == faults < MaxFaults /\ faults' = faults + 1

Overload ==
  /\ Fault
  /\ cool' = CoolDown
  /\ UNCHANGED <<paused, stopEpoch, task, requests, gap, sweep, chrome, opens>>

\* The browser restarts the worker: what it had claimed is not opened.
WorkerDies ==
  /\ Fault
  /\ \E t \in Ids : ext[t] # "idle"
  /\ ext' = [t \in Ids |-> "idle"]
  /\ choice' = [t \in Ids |-> NewTab]
  /\ task' = [t \in Tasks |-> IF ext[t] \in {"won", "go"} THEN [task[t] EXCEPT !.stage = "dropped"] ELSE task[t]]
  /\ UNCHANGED <<paused, stopEpoch, requests, gap, cool, sweep, tab, opens>>

\* The desktop starts again: every launch is paused, the queue is empty.
Crash ==
  /\ Fault
  /\ paused' = TRUE
  /\ task' = [t \in Tasks |-> IF Settled(t) THEN task[t] ELSE [task[t] EXCEPT !.stage = "dropped"]]
  /\ requests' = {}
  /\ gap' = 0
  /\ sweep' = NoSweep
  /\ UNCHANGED <<stopEpoch, cool, chrome, opens>>

Operator ==
  \/ \E resumes \in BOOLEAN : Stop(resumes)
  \/ \E p \in Products : OpenProduct(p)
  \/ \E connected \in BOOLEAN : Sweep(connected)

Desktop ==
  \/ \E p \in Products, burst \in BOOLEAN : OpenReleased(p, burst)
  \/ SweepConnected \/ SweepFails

Opening(t)   == t \in Tasks /\ (Cross(t) \/ Cancelled(t) \/ NotClaimed(t))
Companion(t) == t \in Tasks /\ (Choose(t) \/ Claim(t) \/ Recheck(t) \/ Navigate(t))

Environment ==
  \/ Tick \/ Overload \/ WorkerDies \/ Crash
  \/ \E c \in Tabs : TabMoves(c)

Next ==
  \/ Operator \/ Desktop \/ Environment \/ Poll
  \/ \E t \in Ids : Opening(t) \/ Companion(t)

Spec == Init /\ [][Next]_vars

\* Timers fire and awaited calls answer: setTimeout bounds every wait of the
\* desktop, fetchWithTimeout every call of the worker.  The operator, faults, the
\* pages and the next poll of the worker owe nothing.
FairSpec ==
  /\ Spec
  /\ WF_vars(Tick)
  /\ \A t \in Ids : WF_vars(Opening(t)) /\ WF_vars(Companion(t))

-----------------------------------------------------------------------------
\* The claim of the worker and the fallback of the desktop race for every request,
\* answers get lost, and both processes may start again: still no request opens
\* two pages, and none opens a page after it was given up.
Promise == INSTANCE OpenOnce WITH
  Requests <- Ids, accepted <- Tasks,
  dropped <- {t \in Tasks : task[t].stage = "dropped"}, opens <- opens

RequestsOpenOnce == Promise!Spec

\* "Stop everything is a hard cancellation boundary" (README.md:79): an opening
\* asked for before Stop is neither handed to the worker nor opened by the
\* desktop after it, whether it was queued, waiting or offered to the worker.
StopIsABoundary ==
  [][\A t \in Tasks : task[t].stage \in {"queued", "asking"} /\ task[t].epoch # stopEpoch =>
        task'[t].stage \in {task[t].stage, "dropped"}]_vars

\* Every mission keeps its tab: whatever is asked for at the same time, the worker
\* never shows one mission's page in the tab that shows another's.
MissionTabsKept ==
  [][\A c \in Tabs : {tab[c], tab'[c]} \subseteq Products => tab'[c] = tab[c]]_vars

\* An opening that was asked for is eventually opened or dropped: no wait of the
\* queue, of a claim or of the companion lasts for ever.
EveryOpeningSettles ==
  \A t \in Ids : t \in Tasks ~> (t \in Tasks /\ task[t].stage \in {"opened", "dropped"})

=============================================================================
