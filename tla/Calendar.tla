------------------------------ MODULE Calendar ------------------------------
(***************************************************************************)
(* Missions with an Open-at time.  The scheduler releases a due mission    *)
(* once: it writes a receipt to the state file, then clears the time in    *)
(* the settings file, then asks for the page.  A time that is long past is *)
(* marked missed and keeps its mission shut.                               *)
(***************************************************************************)
EXTENDS RunMode

CONSTANTS
  Products,   \* enabled missions
  Times,      \* minutes the operator picks from
  Grace       \* SCHEDULE_GRACE_MS

ASSUME CalendarAssumption ==
  /\ Times \subseteq 1 .. MaxNow
  /\ Grace \in Nat

NoTime == 0

VARIABLES
  openAt,    \* settings: the mission's time, or NoTime
  receipt,   \* state file: productScheduleReceipts, by mission and time
  launch,    \* openings under way: the time and the epoch of each firing
  firings,   \* history: how often each time was fired
  cut        \* history: missions a crash caught between the two files

calendar == <<openAt, receipt, launch, firings, cut>>

\* Neither pause nor Signals mode lets the scheduler run.
SchedulerRuns == mode \in {"monitor", "autopilot"}

CalendarOwned(p) == openAt[p] # NoTime

\* CONSUMED_SCHEDULE_STATES: every receipt consumes its time.
Consumed(p) == receipt[p][openAt[p]] # "none"

\* Mutant: an interrupted firing counts as not fired.
DueAgain(p) ==
  /\ CalendarOwned(p) /\ openAt[p] <= now
  /\ receipt[p][openAt[p]] \notin {"fired", "missed"}

Due(p) == CalendarOwned(p) /\ openAt[p] <= now /\ ~Consumed(p)

Late(p) == now - openAt[p] > Grace

\* assertNoNewPastProductSchedules: a save may not set a time in the past, unless
\* the mission already has it.
AcceptsTime(p, t) == t = NoTime \/ t > now \/ t = openAt[p]

CalendarInit ==
  /\ openAt = [p \in Products |-> NoTime]
  /\ receipt = [p \in Products |-> [t \in Times |-> "none"]]
  /\ launch = [p \in Products |-> {}]
  /\ firings = [p \in Products |-> [t \in Times |-> 0]]
  /\ cut = {}

\* save-settings stores the time its form holds, however old the form is.
SaveTime(p, t) ==
  /\ t # openAt[p] /\ AcceptsTime(p, t)
  /\ openAt' = [openAt EXCEPT ![p] = t]
  /\ UNCHANGED <<runMode, receipt, launch, firings, cut>>

\* The receipt and the blitz context are on disk before anything else happens.
Receipted(p, status) == receipt' = [receipt EXCEPT ![p][openAt[p]] = status]

Counted(p) == firings' = [firings EXCEPT ![p][openAt[p]] = @ + 1]

\* handleProductSchedule: fire.
Fire(p) ==
  /\ SchedulerRuns /\ Due(p) /\ ~Late(p)
  /\ Receipted(p, "firing") /\ Counted(p)
  /\ openAt' = [openAt EXCEPT ![p] = NoTime]
  /\ launch' = [launch EXCEPT ![p] = @ \cup {[at |-> openAt[p], epoch |-> epoch]}]
  /\ UNCHANGED <<runMode, cut>>

\* The same, cut short by a crash after the first file: the next launch finds the
\* time and its receipt.
FireCut(p) ==
  /\ SchedulerRuns /\ Due(p) /\ ~Late(p)
  /\ Receipted(p, "firing") /\ Counted(p)
  /\ cut' = cut \cup {p}
  /\ launch' = [q \in Products |-> {}]
  /\ UNCHANGED openAt
  /\ Restart

\* handleProductSchedule: missed.  The time stays.
Miss(p) ==
  /\ SchedulerRuns /\ Due(p) /\ Late(p)
  /\ Receipted(p, "missed")
  /\ UNCHANGED <<runMode, openAt, launch, firings, cut>>

\* The opening ends: opened, refused by the budget, or cancelled by Stop, after
\* which its receipt is left alone.
LaunchEnds(p, l) ==
  /\ l \in launch[p]
  /\ launch' = [launch EXCEPT ![p] = @ \ {l}]
  /\ \/ l.epoch = epoch /\ receipt' = [receipt EXCEPT ![p][l.at] = "fired"]
     \/ UNCHANGED receipt
  /\ UNCHANGED <<runMode, openAt, firings, cut>>

CalendarRestart ==
  /\ launch' = [p \in Products |-> {}]
  /\ UNCHANGED <<openAt, receipt, firings, cut>>

\* Mutant: a time that is long past is passed over.
SchedulerFires(p) == Fire(p)

\* startScheduler, once a second
Scheduler(p) == Fire(p) \/ Miss(p)

CalendarStep ==
  \E p \in Products :
    \/ \E t \in Times \cup {NoTime} : SaveTime(p, t)
    \/ Scheduler(p)
    \/ \E l \in launch[p] : LaunchEnds(p, l)

-----------------------------------------------------------------------------
\* "Receipts make firing exactly-once" (schedule.js): whatever the operator saves
\* and wherever the desktop crashes, no time is fired twice.
FiresOnce == \A p \in Products, t \in Times : firings[p][t] <= 1

\* Every due time gets its receipt while the scheduler runs.
DueIsResolved ==
  \A p \in Products :
    (SchedulerRuns /\ Due(p)) ~> (~SchedulerRuns \/ ~Due(p))
=============================================================================
