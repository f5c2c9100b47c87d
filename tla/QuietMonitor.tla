---------------------------- MODULE QuietMonitor ----------------------------
(***************************************************************************)
(* The background reads of one store's public product pages: the deadlines *)
(* of the watched products, the dispatcher that starts at most one read at *)
(* a time, the reads in flight, pages that fail, the store's cool-downs,   *)
(* and the persisted start times that outlive Stop and a restart.          *)
(*                                                                         *)
(* Instants are countdowns in ticks of the start gap (750 ms): a deadline  *)
(* that has passed is zero or negative.  The desktop's limit of four reads *)
(* in all cannot bind with two stores of two reads each.                   *)
(***************************************************************************)
EXTENDS Integers, FiniteSets

CONSTANTS
  Products,      \* missions of the store
  MinInterval,   \* least ticks between two starts of a product
  MaxInterval,
  Limit,         \* reads in flight
  Timeout,       \* ticks after which a read is aborted
  CoolDown,      \* ticks of a cool-down
  RetryAfter,    \* a longer wait a store asks for
  FailLimit,     \* failures in a row after which a product rests
  Quarantine,    \* ticks of that rest
  ClusterLimit,  \* distinct products whose failures pause the store
  ClusterWindow, \* ticks within which they must fail
  MaxLate,       \* bound: how far in the past a deadline is remembered
  MaxStops,      \* bound: Stop, and leaving the run mode
  MaxFaults      \* bound: overloads, refusals, crashes

ASSUME QuietAssumption ==
  /\ IsFiniteSet(Products) /\ Products # {}
  /\ {MinInterval, MaxInterval, Limit, Timeout, CoolDown, RetryAfter} \subseteq Nat \ {0}
  /\ {FailLimit, Quarantine, ClusterLimit, ClusterWindow} \subseteq Nat \ {0}
  /\ {MaxLate, MaxStops, MaxFaults} \subseteq Nat
  /\ MinInterval <= MaxInterval /\ CoolDown <= RetryAfter

VARIABLES
  on,         \* monitoringActive: Autopilot and not paused
  wanted,     \* missions no tab, calendar time or progress of their item takes
              \* off the list
  failures,   \* failures in a row of each mission's page
  rest,       \* ticks of each mission's quarantine that are left
  cluster,    \* ticks for which a mission's last failure counts for the store
  known,      \* entries of the schedule
  eligible,   \* entries eligible at the dispatcher's last run
  due,        \* ticks to each entry's dueAt
  reading,    \* entries marked in flight
  counter,    \* storeInFlight
  wire,       \* reads of this run that were not answered
  age,        \* ticks since their start
  gap,        \* ticks until the next start may be made
  late,       \* missions with a read in flight from before a Stop
  since,      \* ticks since the persisted start of each mission, up to MinInterval
  shared,     \* ticks to the shared overload deadline, persisted
  own,        \* ticks to the quiet lane's own deadline
  asked,      \* history: ticks the store still asked to be left alone
  stops, faults

schedule == <<known, eligible, due, reading, counter, wire, age, gap>>
cools    == <<shared, own, asked>>
health   == <<failures, rest, cluster>>
bounds   == <<stops, faults>>
vars     == <<on, wanted, health, schedule, late, since, cools, bounds>>

Larger(a, b) == IF a >= b THEN a ELSE b
Down(n)      == IF n > 0 THEN n - 1 ELSE 0

\* quietProductEligible
watched == {p \in wanted : rest[p] = 0}

\* Mutant: only the lane's own deadline.
CoolOwn == own

\* quietStoreCooldown
Cool == Larger(shared, own)

-----------------------------------------------------------------------------
(* The schedule.                                                           *)

\* Mutant: the persisted start is not looked at.
FirstDueNow(p) == 0

\* A new entry is due at once, or MinInterval after its persisted start.
FirstDue(p) == MinInterval - since[p]

\* reconcileQuietMonitorSchedule
Entries == {p \in known : p \in watched \/ p \in reading} \cup watched

Due(p) == IF p \in known THEN due[p] ELSE FirstDue(p)

\* Mutant: any due entry, not the one that waited longest.
OldestOrNot(S) == S

Oldest(S) == {p \in S : \A q \in S : Due(p) <= Due(q)}

\* Entries that may be started now, ties broken at random.
Candidates ==
  IF ~on \/ Cool > 0 \/ gap > 0 \/ counter >= Limit THEN {}
  ELSE Oldest({p \in watched \ reading : Due(p) <= 0})

NoTicks == [p \in Products |-> 0]

NoSchedule ==
  /\ known' = {} /\ eligible' = {} /\ reading' = {} /\ counter' = 0
  /\ wire' = {} /\ gap' = 0
  /\ due' = NoTicks /\ age' = NoTicks

\* resetQuietProductState
NoResidue == failures' = NoTicks /\ rest' = NoTicks /\ cluster' = NoTicks

\* deferQuietMonitorStore: entries in flight keep their deadline.
Deferred(p, d, deadline) == IF p \in reading THEN d ELSE Larger(d, deadline)

-----------------------------------------------------------------------------
Init ==
  /\ on = FALSE
  /\ wanted \in SUBSET Products
  /\ failures = NoTicks /\ rest = NoTicks /\ cluster = NoTicks
  /\ known = {} /\ eligible = {} /\ reading = {} /\ counter = 0
  /\ wire = {} /\ gap = 0
  /\ due = NoTicks /\ age = NoTicks
  /\ late = {}
  /\ since = [p \in Products |-> MinInterval]
  /\ shared = 0 /\ own = 0 /\ asked = 0
  /\ stops = 0 /\ faults = 0

Fault == faults < MaxFaults /\ faults' = faults + 1

(* The dispatcher's timer.  Every run first reconciles the entries.        *)

Reconciled ==
  /\ known' = Entries
  /\ eligible' = watched

\* Nothing may be started.
DispatchIdle ==
  /\ on /\ Candidates = {}
  /\ Entries # known \/ eligible # watched
  /\ Reconciled
  /\ due' = [p \in Products |-> IF p \in Entries THEN Due(p) ELSE 0]
  /\ UNCHANGED <<on, wanted, health, reading, counter, wire, age, gap, late, since, cools, bounds>>

\* The start is persisted, then marked in the schedule with a random interval.
DispatchStart(p) ==
  /\ p \in Candidates
  /\ known' = Entries /\ eligible' = watched
  /\ since' = [since EXCEPT ![p] = 0]
  /\ \E i \in MinInterval .. MaxInterval :
       due' = [q \in Products |-> IF q = p THEN i ELSE IF q \in Entries THEN Due(q) ELSE 0]
  /\ reading' = reading \cup {p}
  /\ wire' = wire \cup {p}
  /\ age' = [age EXCEPT ![p] = 0]
  /\ counter' = counter + 1
  /\ gap' = 1
  /\ UNCHANGED <<on, wanted, health, late, cools, bounds>>

\* The read budget refuses and names the time it will have room.
DispatchRefused(p) ==
  /\ p \in Candidates
  /\ Fault
  /\ Reconciled
  /\ due' = [q \in Products |-> IF q \notin Entries THEN 0
                                ELSE IF q \in watched THEN Deferred(q, Due(q), CoolDown) ELSE Due(q)]
  /\ UNCHANGED <<on, wanted, health, reading, counter, wire, age, gap, late, since, cools, stops>>

Dispatch == DispatchIdle \/ \E p \in Products : DispatchStart(p)

-----------------------------------------------------------------------------
(* Answers.                                                                *)

\* Mutant: any read of the product ends it.
EndsAny(p, current) == p \in reading

\* markQuietMonitorFinished: only the read whose token the entry holds ends it.
Ends(p, current) == current /\ p \in reading

Finish(p, current) ==
  IF Ends(p, current)
  THEN /\ reading' = reading \ {p}
       /\ counter' = IF counter > 0 THEN counter - 1 ELSE 0
       /\ known' = IF p \in eligible THEN known ELSE known \ {p}
  ELSE UNCHANGED <<reading, counter, known>>

Answered(p, a) ==
  /\ p \in wire
  /\ wire' = wire \ {p}
  /\ age' = [a EXCEPT ![p] = 0]

\* The page was read; it is looked at if the mission is still to be read.
AnswerRead(p) ==
  /\ Answered(p, age)
  /\ Finish(p, TRUE)
  /\ IF p \in watched
     THEN /\ failures' = [failures EXCEPT ![p] = 0]
          /\ cluster' = [cluster EXCEPT ![p] = 0]
          /\ UNCHANGED rest
     ELSE UNCHANGED health
  /\ UNCHANGED <<on, wanted, eligible, due, gap, late, since, cools, bounds>>

\* pauseQuietStore: deadlines only grow.
Pause(ticks) ==
  due' = [q \in Products |-> IF q \in eligible THEN Deferred(q, due[q], Larger(ticks, Cool)) ELSE due[q]]

\* The store's reads are due to answer at once.
Aborted == [q \in Products |-> IF q \in wire THEN Timeout ELSE 0]

\* The store is overloaded or shows a challenge: a deadline all lanes share.
AnswerOverload(p, ticks) ==
  /\ Answered(p, Aborted)
  /\ Fault
  /\ ticks \in {CoolDown, RetryAfter}
  /\ Pause(ticks)
  /\ shared' = Larger(shared, ticks)
  /\ own' = Larger(own, Larger(shared, ticks))
  /\ asked' = Larger(asked, ticks)
  /\ Finish(p, TRUE)
  /\ UNCHANGED <<on, wanted, health, eligible, gap, late, since, stops>>

\* registerStoreFailure: p is the last of several distinct products to fail.
Tripped(p) == Cardinality({q \in Products : cluster[q] > 0} \cup {p}) >= ClusterLimit

\* registerProductFailure; a page without readable stock rests at once.
ProductFails(p, kind) ==
  LET rests == kind = "unreadable" \/ failures[p] + 1 >= FailLimit
  IN /\ failures' = [failures EXCEPT ![p] = IF rests THEN 0 ELSE @ + 1]
     /\ rest' = [rest EXCEPT ![p] = IF rests THEN Quarantine ELSE @]

\* Several distinct products failed within the window: only the quiet lane pauses.
StorePauses(p) ==
  /\ Answered(p, Aborted)
  /\ Pause(CoolDown)
  /\ own' = Larger(own, CoolDown)
  /\ cluster' = NoTicks
  /\ UNCHANGED <<shared, asked>>

\* The page had no readable stock, the product is missing, or the read failed, was
\* aborted or timed out.  In a pause all lanes share, and for a mission that is not
\* to be read any more, that says nothing.
AnswerFailed(p, kind) ==
  /\ Finish(p, TRUE)
  /\ IF shared > 0 \/ p \notin watched
     THEN Answered(p, age) /\ UNCHANGED <<health, due, cools>>
     ELSE /\ ProductFails(p, kind)
          /\ IF kind = "transport" /\ Tripped(p) THEN StorePauses(p)
             ELSE /\ Answered(p, age)
                  /\ cluster' = IF kind = "transport" THEN [cluster EXCEPT ![p] = ClusterWindow]
                                ELSE cluster
                  /\ UNCHANGED <<due, cools>>
  /\ UNCHANGED <<on, wanted, eligible, gap, late, since, bounds>>

Answer(p) ==
  \/ AnswerRead(p)
  \/ \E kind \in {"unreadable", "missing", "transport"} : AnswerFailed(p, kind)
  \/ \E ticks \in {CoolDown, RetryAfter} : AnswerOverload(p, ticks)

\* A read from before Stop ends: its result is dropped, its token is stale.
AnswerLate(p) ==
  /\ p \in late
  /\ late' = late \ {p}
  /\ Finish(p, FALSE)
  /\ UNCHANGED <<on, wanted, health, eligible, due, wire, age, gap, since, cools, bounds>>

-----------------------------------------------------------------------------
(* The operator, the tabs, time and crashes.                               *)

Arm ==
  /\ ~on
  /\ on' = TRUE
  /\ NoSchedule /\ NoResidue
  /\ UNCHANGED <<wanted, late, since, cools, bounds>>

\* stop-all, or save-settings with another run mode.
Stop ==
  /\ on /\ stops < MaxStops
  /\ on' = FALSE
  /\ stops' = stops + 1
  /\ late' = late \cup wire
  /\ NoSchedule /\ NoResidue
  /\ UNCHANGED <<wanted, since, cools, faults>>

\* A live tab, a calendar time or protected progress of the item takes a mission off
\* the list, and it comes back.
Watch(p) ==
  /\ wanted' = IF p \in wanted THEN wanted \ {p} ELSE wanted \cup {p}
  /\ UNCHANGED <<on, health, schedule, late, since, cools, bounds>>

\* A tick is longer than the dispatcher's interval, and a read that reached its
\* timeout is aborted at once.
Tick ==
  /\ Candidates = {} /\ (on => Entries = known /\ eligible = watched)
  /\ \A p \in wire : age[p] < Timeout
  /\ due' = [p \in Products |-> IF p \in known /\ due[p] > -MaxLate THEN due[p] - 1 ELSE due[p]]
  /\ age' = [p \in Products |-> IF p \in wire THEN age[p] + 1 ELSE 0]
  /\ gap' = Down(gap)
  /\ since' = [p \in Products |-> IF since[p] < MinInterval THEN since[p] + 1 ELSE since[p]]
  /\ shared' = Down(shared) /\ own' = Down(own) /\ asked' = Down(asked)
  /\ rest' = [p \in Products |-> Down(rest[p])]
  /\ cluster' = [p \in Products |-> Down(cluster[p])]
  /\ UNCHANGED <<on, wanted, failures, known, eligible, reading, counter, wire, late, bounds>>

\* The desktop starts again, paused: the quiet deadline is lost, what is
\* persisted is read back.
Crash ==
  /\ Fault
  /\ on' = FALSE /\ late' = {}
  /\ NoSchedule /\ NoResidue
  /\ own' = 0
  /\ UNCHANGED <<wanted, since, shared, asked, stops>>

Next ==
  \/ Arm \/ Stop \/ Tick \/ Crash
  \/ DispatchIdle
  \/ \E p \in Products :
       \/ DispatchStart(p) \/ DispatchRefused(p)
       \/ Answer(p) \/ AnswerLate(p)
       \/ Watch(p)

Spec == Init /\ [][Next]_vars

\* The dispatcher's interval runs, clocks go on, and setTimeout aborts a read that
\* does not answer.
FairSpec ==
  /\ Spec
  /\ SF_vars(Tick) /\ WF_vars(Dispatch)
  /\ \A p \in Products : WF_vars(Answer(p))

-----------------------------------------------------------------------------
QuietTypeOK ==
  /\ on \in BOOLEAN /\ wanted \subseteq Products
  /\ failures \in [Products -> 0 .. FailLimit - 1]
  /\ rest \in [Products -> 0 .. Quarantine] /\ cluster \in [Products -> 0 .. ClusterWindow]
  /\ known \subseteq Products /\ eligible \subseteq known /\ reading \subseteq known
  /\ due \in [Products -> -MaxLate .. Larger(MaxInterval, RetryAfter)]
  /\ wire \subseteq Products /\ age \in [Products -> 0 .. Timeout]
  /\ counter \in 0 .. Limit /\ gap \in 0 .. 1
  /\ late \subseteq Products
  /\ since \in [Products -> 0 .. MinInterval]
  /\ {shared, own, asked} \subseteq 0 .. RetryAfter
  /\ stops \in 0 .. MaxStops /\ faults \in 0 .. MaxFaults

\* What the schedule holds for in flight is in flight, so that a product has one
\* read and the store at most Limit, whatever reads from before a Stop come in late.
LimitKept == reading = wire /\ counter = Cardinality(wire) /\ counter <= Limit

Starts(p) == since'[p] = 0 /\ p \in reading' /\ p \notin reading

\* "a persisted 45-second per-product floor" (README.md:33): two starts of a product
\* are MinInterval apart, across Stop, arming, eligibility and restarts.
CadenceKept == [][\A p \in Products : Starts(p) => since[p] = MinInterval]_vars

\* Overload cool-downs "always override cadence" (README.md:33): once a store asked
\* to be left alone nothing is read until the longest wait it asked for is over.
StoreLeftAlone == [][asked > 0 => \A p \in Products : ~Starts(p)]_vars

\* "without starving later products" (README.md:79): a product that is to be watched
\* while monitoring stays on is read again, whatever pages fail and rest.
NoneStarves ==
  \A p \in Products : on /\ p \in wanted ~> ~on \/ p \notin wanted \/ since[p] = 0
=============================================================================
