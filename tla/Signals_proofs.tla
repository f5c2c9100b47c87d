---------------------------- MODULE Signals_proofs ----------------------------
(***************************************************************************)
(* Signals: no open time is fired twice, pushes that tell the same news    *)
(* open one page, and no push is lost without a trace.                     *)
(***************************************************************************)
EXTENDS Signals, WellFoundedInduction, SequenceTheorems, TLAPS

-----------------------------------------------------------------------------
(* The calendar: a time that was fired has its receipt, which is written   *)
(* in the same file write as the firing begins and never taken back.       *)

Receipts == {"none", "firing", "fired", "missed"}

CalendarTyped ==
  /\ openAt \in [Products -> Times \cup {NoTime}]
  /\ receipt \in [Products -> [Times -> Receipts]]
  /\ firings \in [Products -> [Times -> Nat]]
  /\ \A p \in Products : \A l \in launch[p] : l.at \in Times

ReceiptsFirst ==
  \A p \in Products, t \in Times :
    firings[p][t] <= 1 /\ (receipt[p][t] = "none" => firings[p][t] = 0)

CalendarInv == CalendarTyped /\ ReceiptsFirst

-----------------------------------------------------------------------------
(* The signals.                                                            *)

Acting    == {"queued", "failed", "offer_mismatch"}
Decisions == Acting \cup {"none", "declined", "corroborated"}
Actions   == {"none", "pending", "opening", "opened", "failed", "cancelled"}
Answers   == {"none", "ok", "busy", "refused"}
Stages    == {"none", "asked", "over"}
Records   == [decision : Decisions, action : Actions]

SignalsTyped ==
  /\ epoch \in Nat /\ now \in Nat
  /\ push \in Seq([product : Products, seen : Nat]) /\ Len(push) <= MaxPushes
  /\ queue \subseteq Received /\ flight \subseteq Received
  /\ drain \in [id : Received \cup {Nobody}, answer : Answers]
  /\ journal \in [Ids -> Records] /\ saved \in [Ids -> Records]
  /\ active \in [Products -> Received \cup {Nobody, Browser}]
  /\ entry \in [Ids -> [stage : Stages, epoch : Nat]]

\* What is in memory and what is on disk differ in the action of a record at most.
FileAgrees ==
  \A i \in Ids :
    /\ journal[i].decision = saved[i].decision
    /\ journal[i].decision = "none" => journal[i] = NoRecord /\ saved[i] = NoRecord

\* A page is asked for only by a push whose decision says so.
EntriesRecorded ==
  \A i \in Ids : entry[i].stage # "none" => i \in Received /\ journal[i].decision \in Acting

Traced(i) == \E j \in Received : saved[j] # NoRecord /\ SameEvent(i, j)

\* The worker hears "ok" only of news on disk.
OkIsTraced == drain.answer = "ok" => drain.id \in Received /\ Traced(drain.id)

SignalsInv ==
  SignalsTyped /\ FileAgrees /\ EntriesRecorded /\ ActedOnce /\ OkIsTraced /\ NothingLost

-----------------------------------------------------------------------------
(* The calendar's proof.                                                   *)

LEMMA NoTimeIsNoTime == NoTime \notin Times
BY CalendarAssumption, RunModeAssumption DEF NoTime

LEMMA CalendarStarts == ASSUME CalendarInit PROVE CalendarInv
BY DEF CalendarInit, CalendarInv, CalendarTyped, ReceiptsFirst, Receipts

LEMMA CalendarStutters == ASSUME CalendarInv, UNCHANGED calendar PROVE CalendarInv'
BY DEF CalendarInv, CalendarTyped, ReceiptsFirst, calendar

LEMMA SaveTimeKeeps ==
  ASSUME CalendarInv, NEW p \in Products, NEW t \in Times \cup {NoTime}, SaveTime(p, t)
  PROVE  CalendarInv'
BY DEF CalendarInv, CalendarTyped, ReceiptsFirst, SaveTime

\* A due time has no receipt yet, hence was never fired.
LEMMA DueIsNew ==
  ASSUME CalendarInv, NEW p \in Products, Due(p)
  PROVE  openAt[p] \in Times /\ receipt[p][openAt[p]] = "none" /\ firings[p][openAt[p]] = 0
<1>1. openAt[p] \in Times
  BY DEF CalendarInv, CalendarTyped, Due, CalendarOwned
<1> QED BY <1>1 DEF CalendarInv, CalendarTyped, ReceiptsFirst, Due, Consumed, Receipts

\* The receipt and the count of one firing.
LEMMA FiringKeeps ==
  ASSUME CalendarInv, NEW p \in Products, Due(p), Receipted(p, "firing"), Counted(p)
  PROVE  /\ receipt' \in [Products -> [Times -> Receipts]]
         /\ firings' \in [Products -> [Times -> Nat]]
         /\ ReceiptsFirst'
<1>1. openAt[p] \in Times /\ receipt[p][openAt[p]] = "none" /\ firings[p][openAt[p]] = 0
  BY DueIsNew
<1>2. receipt' \in [Products -> [Times -> Receipts]]
  BY <1>1 DEF CalendarInv, CalendarTyped, Receipted, Receipts
<1>3. firings' \in [Products -> [Times -> Nat]]
  BY <1>1 DEF CalendarInv, CalendarTyped, Counted
<1>4. ASSUME NEW q \in Products, NEW t \in Times
      PROVE  firings'[q][t] <= 1 /\ (receipt'[q][t] = "none" => firings'[q][t] = 0)
  <2>1. CASE q = p /\ t = openAt[p]
    BY <1>1, <2>1 DEF CalendarInv, CalendarTyped, Receipted, Counted
  <2>2. CASE ~(q = p /\ t = openAt[p])
    <3>1. firings'[q][t] = firings[q][t]
      BY <1>1, <2>2 DEF CalendarInv, CalendarTyped, Counted
    <3>2. receipt'[q][t] = receipt[q][t]
      BY <1>1, <2>2 DEF CalendarInv, CalendarTyped, Receipted
    <3> QED BY <3>1, <3>2 DEF CalendarInv, ReceiptsFirst
  <2> QED BY <2>1, <2>2
<1> QED BY <1>2, <1>3, <1>4 DEF ReceiptsFirst

LEMMA FireKeeps ==
  ASSUME CalendarInv, NEW p \in Products, Fire(p)
  PROVE  CalendarInv'
<1>1. Due(p) /\ Receipted(p, "firing") /\ Counted(p)
  BY DEF Fire
<1>2. /\ receipt' \in [Products -> [Times -> Receipts]]
      /\ firings' \in [Products -> [Times -> Nat]]
      /\ ReceiptsFirst'
  BY <1>1, FiringKeeps
<1>3. openAt[p] \in Times
  BY <1>1, DueIsNew
<1>4. openAt' \in [Products -> Times \cup {NoTime}]
  BY DEF CalendarInv, CalendarTyped, Fire
<1>5. ASSUME NEW q \in Products, NEW l \in launch'[q] PROVE l.at \in Times
  <2>1. PICK e : launch' = [launch EXCEPT ![p] = @ \cup {[at |-> openAt[p], epoch |-> e]}]
    BY DEF Fire
  <2>2. l \in launch[q] \/ l.at = openAt[p]
    BY <1>5, <2>1
  <2> QED BY <1>3, <2>2 DEF CalendarInv, CalendarTyped
<1> QED BY <1>2, <1>4, <1>5 DEF CalendarInv, CalendarTyped

LEMMA FireCutKeeps ==
  ASSUME CalendarInv, NEW p \in Products, FireCut(p)
  PROVE  CalendarInv'
<1>1. Due(p) /\ Receipted(p, "firing") /\ Counted(p)
  BY DEF FireCut
<1>2. /\ receipt' \in [Products -> [Times -> Receipts]]
      /\ firings' \in [Products -> [Times -> Nat]]
      /\ ReceiptsFirst'
  BY <1>1, FiringKeeps
<1>3. openAt' = openAt /\ launch' = [q \in Products |-> {}]
  BY DEF FireCut
<1>4. \A q \in Products : launch'[q] = {}
  BY <1>3
<1> QED BY <1>2, <1>3, <1>4 DEF CalendarInv, CalendarTyped

LEMMA MissKeeps ==
  ASSUME CalendarInv, NEW p \in Products, Miss(p)
  PROVE  CalendarInv'
<1>1. openAt[p] \in Times
  BY DueIsNew DEF Miss
<1>2. receipt' \in [Products -> [Times -> Receipts]]
  BY <1>1 DEF CalendarInv, CalendarTyped, Miss, Receipted, Receipts
<1>3. \A q \in Products, t \in Times : receipt'[q][t] = "none" => receipt[q][t] = "none"
  BY <1>1 DEF CalendarInv, CalendarTyped, Miss, Receipted
<1>4. openAt' = openAt /\ launch' = launch /\ firings' = firings
  BY DEF Miss
<1> QED BY <1>2, <1>3, <1>4 DEF CalendarInv, CalendarTyped, ReceiptsFirst

LEMMA LaunchEndsKeeps ==
  ASSUME CalendarInv, NEW p \in Products, NEW l \in launch[p], LaunchEnds(p, l)
  PROVE  CalendarInv'
<1>1. l.at \in Times
  BY DEF CalendarInv, CalendarTyped
<1>2. receipt' = [receipt EXCEPT ![p][l.at] = "fired"] \/ receipt' = receipt
  BY DEF LaunchEnds
<1> PICK at \in Times : l.at = at
  BY <1>1
<1>3. receipt' \in [Products -> [Times -> Receipts]]
  <2>1. receipt \in [Products -> [Times -> Receipts]] /\ receipt[p] \in [Times -> Receipts]
    BY DEF CalendarInv, CalendarTyped
  <2>2. [receipt[p] EXCEPT ![at] = "fired"] \in [Times -> Receipts]
    BY <2>1 DEF Receipts
  <2>3. receipt' = [receipt EXCEPT ![p] = [receipt[p] EXCEPT ![at] = "fired"]] \/ receipt' = receipt
    BY <1>2, <2>1
  <2> QED BY <2>1, <2>2, <2>3
<1>4. \A q \in Products, t \in Times : receipt'[q][t] = "none" => receipt[q][t] = "none"
  BY <1>2 DEF CalendarInv, CalendarTyped
<1>5. openAt' = openAt /\ firings' = firings /\ launch' = [launch EXCEPT ![p] = @ \ {l}]
  BY DEF LaunchEnds
<1>6. \A q \in Products : \A k \in launch'[q] : k \in launch[q]
  BY <1>5
<1> QED BY <1>3, <1>4, <1>5, <1>6 DEF CalendarInv, CalendarTyped, ReceiptsFirst

LEMMA CalendarRestartKeeps ==
  ASSUME CalendarInv, CalendarRestart
  PROVE  CalendarInv'
BY DEF CalendarInv, CalendarTyped, ReceiptsFirst, CalendarRestart

LEMMA CalendarStepKeeps ==
  ASSUME CalendarInv, CalendarStep
  PROVE  CalendarInv'
<1>1. PICK p \in Products :
        \/ \E t \in Times \cup {NoTime} : SaveTime(p, t)
        \/ Scheduler(p)
        \/ \E l \in launch[p] : LaunchEnds(p, l)
  BY DEF CalendarStep
<1>2. CASE \E t \in Times \cup {NoTime} : SaveTime(p, t)
  BY <1>2, SaveTimeKeeps
<1>3. CASE Scheduler(p)
  BY <1>3, FireKeeps, MissKeeps DEF Scheduler
<1>4. CASE \E l \in launch[p] : LaunchEnds(p, l)
  BY <1>4, LaunchEndsKeeps
<1> QED BY <1>1, <1>2, <1>3, <1>4

\* The receipt of a time comes with its firing and stays: whatever the operator
\* saves and wherever the desktop crashes between the state file and the settings
\* file (handleProductSchedule, evaluateProductSchedules).
THEOREM CalendarAlways == Spec => []CalendarInv
<1>1. Init => CalendarInv
  BY CalendarStarts DEF Init
<1>2. ASSUME CalendarInv, [Next]_vars PROVE CalendarInv'
  <2>1. CASE UNCHANGED calendar
    BY <1>2, <2>1, CalendarStutters
  <2>2. CASE Crash
    BY <1>2, <2>2, CalendarRestartKeeps DEF Crash
  <2>3. CASE \E p \in Products : ScheduleCut(p)
    BY <1>2, <2>3, FireCutKeeps DEF ScheduleCut
  <2>4. CASE Calendars
    BY <1>2, <2>4, CalendarStepKeeps DEF Calendars
  <2>5. CASE \E i \in Received : HandlerCut(i)
    BY <1>2, <2>5, CalendarRestartKeeps DEF HandlerCut
  <2>6. CASE Operator \/ OpenByHand \/ (Minute /\ UNCHANGED <<calendar, signals>>)
    BY <2>6, <2>1 DEF Operator, OpenByHand
  <2>7. CASE Send \/ Answered \/ GivesUp
    BY <2>7, <2>1 DEF Send, Answered, GivesUp
  <2>8. CASE \E p \in Products : Receive(p) \/ Mismatch(p) \/ Expire(p) \/ BrowserSignal(p)
    BY <2>8, <2>1 DEF Receive, Mismatch, Expire, BrowserSignal
  <2>9. CASE \E i \in Received : Handle(i) \/ EntryEnds(i)
    BY <2>9, <2>1 DEF Handle, EntryEnds
  <2>10. CASE UNCHANGED vars
    BY <2>10, <2>1 DEF vars
  <2> QED BY <1>2, <2>2, <2>3, <2>4, <2>5, <2>6, <2>7, <2>8, <2>9, <2>10 DEF Next
<1> QED BY <1>1, <1>2, PTL DEF Spec

\* "Receipts make firing exactly-once" (schedule.js): no time is fired twice.
THEOREM FiresOnceAlways == Spec => []FiresOnce
<1>1. CalendarInv => FiresOnce
  BY DEF CalendarInv, ReceiptsFirst, FiresOnce
<1> QED BY <1>1, CalendarAlways, PTL

-----------------------------------------------------------------------------
(* What a step does to the pushes, the files and the entries.              *)

LEMMA ReceivedAre == ASSUME SignalsTyped PROVE Received = 1 .. Len(push) /\ Received \subseteq Ids
<1>1. push \in Seq([product : Products, seen : Nat]) /\ Len(push) \in Nat /\ Len(push) <= MaxPushes
  BY DEF SignalsTyped
<1> QED BY <1>1, SignalsAssumption DEF Received, Ids

Grows ==
  \/ push' = push
  \/ Len(push) < MaxPushes /\ \E p \in Products :
       push' = Append(push, [product |-> p, seen |-> now])

\* Pushes stay what they are, and so does which of them tell the same news.
LEMMA PushesKept ==
  ASSUME SignalsTyped, Grows
  PROVE  /\ push' \in Seq([product : Products, seen : Nat]) /\ Len(push') <= MaxPushes
         /\ Received' = 1 .. Len(push') /\ Received \subseteq Received' /\ Received' \subseteq Ids
         /\ \A i, j \in Received : SameEvent(i, j)' <=> SameEvent(i, j)
<1>1. push \in Seq([product : Products, seen : Nat]) /\ Len(push) \in Nat /\ Len(push) <= MaxPushes
  BY DEF SignalsTyped
<1>2. push' \in Seq([product : Products, seen : Nat]) /\ Len(push') \in Nat /\ Len(push') <= MaxPushes
      /\ Len(push') >= Len(push) /\ \A i \in 1 .. Len(push) : push'[i] = push[i]
  <2>1. CASE push' = push
    BY <1>1, <2>1
  <2>2. CASE push' # push
    <3>1. PICK p \in Products : push' = Append(push, [product |-> p, seen |-> now])
      BY <2>2 DEF Grows
    <3>2. [product |-> p, seen |-> now] \in [product : Products, seen : Nat]
      BY DEF SignalsTyped
    <3> DEFINE m == [product |-> p, seen |-> now]
    <3>3. m \in [product : Products, seen : Nat] /\ push' = Append(push, m) /\ Len(push) < MaxPushes
      BY <2>2, <3>1, <3>2 DEF Grows
    <3> HIDE DEF m
    <3> QED BY <1>1, <3>3, SignalsAssumption
  <2> QED BY <2>1, <2>2
<1>3. Received = 1 .. Len(push) /\ Received' = 1 .. Len(push')
  BY <1>1, <1>2 DEF Received
<1>4. \A i, j \in Received : SameEvent(i, j)' <=> SameEvent(i, j)
  BY <1>2, <1>3 DEF SameEvent
<1> QED BY <1>1, <1>2, <1>3, <1>4, SignalsAssumption DEF Ids

FileKept == \A j \in Ids : saved[j] # NoRecord => saved'[j] # NoRecord

LEMMA TracesKept ==
  ASSUME SignalsTyped, Grows, FileKept
  PROVE  \A i \in Received : Traced(i) => Traced(i)'
<1>1. /\ Received \subseteq Received' /\ Received \subseteq Ids
      /\ \A i, j \in Received : SameEvent(i, j)' <=> SameEvent(i, j)
  BY PushesKept, ReceivedAre
<1>2. ASSUME NEW i \in Received, Traced(i) PROVE Traced(i)'
  <2>1. PICK j \in Received : saved[j] # NoRecord /\ SameEvent(i, j)
    BY <1>2 DEF Traced
  <2>2. j \in Received' /\ saved'[j] # NoRecord /\ SameEvent(i, j)'
    BY <1>1, <2>1 DEF FileKept
  <2> QED BY <2>2 DEF Traced
<1> QED BY <1>2

\* No new entry, and no decision goes back on what it allowed.
Settled ==
  \A i \in Ids :
    /\ entry'[i].stage # "none" => entry[i].stage # "none"
    /\ journal[i].decision = "offer_mismatch" => journal'[i].decision = "offer_mismatch"
    /\ journal[i].decision \in Acting => journal'[i].decision \in Acting

LEMMA SettledKeeps ==
  ASSUME SignalsInv, Grows, Settled
  PROVE  EntriesRecorded' /\ ActedOnce'
<1>1. /\ Received \subseteq Received' /\ Received' \subseteq Ids
      /\ \A i, j \in Received : SameEvent(i, j)' <=> SameEvent(i, j)
  BY PushesKept DEF SignalsInv
<1>2. EntriesRecorded'
  BY <1>1 DEF SignalsInv, EntriesRecorded, Settled
<1>3. ASSUME NEW i \in Received', NEW j \in Received', i < j, SameEvent(i, j)',
             entry'[i].stage # "none", entry'[j].stage # "none"
      PROVE  "offer_mismatch" \in {journal'[i].decision, journal'[j].decision}
  <2>1. i \in Ids /\ j \in Ids
    BY <1>1
  <2>2. entry[i].stage # "none" /\ entry[j].stage # "none"
    BY <1>3, <2>1 DEF Settled
  <2>3. i \in Received /\ j \in Received
    BY <2>1, <2>2 DEF SignalsInv, EntriesRecorded
  <2>4. SameEvent(i, j)
    BY <1>1, <1>3, <2>3
  <2>5. "offer_mismatch" \in {journal[i].decision, journal[j].decision}
    BY <1>3, <2>2, <2>3, <2>4 DEF SignalsInv, ActedOnce
  <2> QED BY <2>1, <2>5 DEF Settled
<1>4. ActedOnce'
  BY <1>3 DEF ActedOnce
<1> QED BY <1>2, <1>4

\* What remains to be said of a step that gives up no trace and settles.
Safe == SignalsTyped' /\ FileAgrees' /\ Grows /\ FileKept

\* The new push waits; of the others none leaves the queue without a trace.
Accounted ==
  \A i \in Received' : i \in queue' \cup gone' \/ (i \in Received /\ (i \in queue \cup gone => Traced(i)'))

LEMMA NothingLostKept ==
  ASSUME SignalsInv, Grows, FileKept, Accounted
  PROVE  NothingLost'
<1>1. \A i \in Received : Traced(i) => Traced(i)'
  BY TracesKept DEF SignalsInv
<1>2. ASSUME NEW i \in Received' PROVE i \in queue' \cup gone' \/ Traced(i)'
  <2>1. CASE i \in queue' \cup gone'
    BY <2>1
  <2>2. CASE i \in Received /\ i \in queue \cup gone /\ Traced(i)'
    BY <2>2
  <2>3. CASE i \in Received /\ i \notin queue \cup gone
    <3>1. Traced(i)
      BY <2>3 DEF SignalsInv, NothingLost, Traced
    <3> QED BY <1>1, <2>3, <3>1
  <2> QED BY <2>1, <2>2, <2>3 DEF Accounted
<1> QED BY <1>2 DEF NothingLost, Traced

LEMMA StepKeeps ==
  ASSUME SignalsInv, Safe, Settled, Accounted, OkIsTraced'
  PROVE  SignalsInv'
BY SettledKeeps, NothingLostKept DEF SignalsInv, Safe

-----------------------------------------------------------------------------
(* Step by step.                                                           *)

LEMMA ConstantsAre ==
  /\ MaxPushes \in Nat /\ Nobody = 0 /\ Browser = MaxPushes + 1 /\ Nobody \notin Ids
  /\ Browser \notin Ids
BY SignalsAssumption DEF Nobody, Browser, Ids

\* Every step that leaves the pushes, the queue, the journal and the entries alone.
LEMMA AsideKeeps ==
  ASSUME SignalsInv, UNCHANGED <<push, queue, journal, saved, entry, gone>>,
         SignalsTyped', OkIsTraced'
  PROVE  SignalsInv'
<1>1. FileAgrees'
  BY DEF SignalsInv, FileAgrees
<1>2. Grows /\ FileKept /\ Settled
  BY DEF Grows, FileKept, Settled
<1>3. Accounted
  BY DEF Accounted, Received
<1> QED BY <1>1, <1>2, <1>3, StepKeeps DEF Safe

LEMMA OkAside ==
  ASSUME SignalsInv, UNCHANGED <<push, saved, drain>>
  PROVE  OkIsTraced'
BY DEF SignalsInv, OkIsTraced, Traced, Received, SameEvent

LEMMA SignalsStarts == ASSUME Init PROVE SignalsInv
<1>1. /\ push = <<>> /\ queue = {} /\ drain = [id |-> 0, answer |-> "none"] /\ flight = {}
      /\ journal = [i \in Ids |-> NoRecord] /\ saved = journal
      /\ active = [p \in Products |-> 0] /\ entry = [i \in Ids |-> NoEntry]
      /\ epoch = 0 /\ now = 0
  BY DEF Init, SignalsInit, RunModeInit, Idle, Nobody
<1>2. Received = {} /\ push \in Seq([product : Products, seen : Nat]) /\ Len(push) = 0
  BY <1>1 DEF Received
<1>3. NoRecord \in Records /\ NoRecord.decision = "none"
  BY DEF NoRecord, Records, Decisions, Actions
<1>4. NoEntry \in [stage : Stages, epoch : Nat] /\ NoEntry.stage = "none"
  BY DEF NoEntry, Stages
<1>5. journal \in [Ids -> Records] /\ saved \in [Ids -> Records]
  BY <1>1, <1>3
<1>6. entry \in [Ids -> [stage : Stages, epoch : Nat]] /\ \A i \in Ids : entry[i].stage = "none"
  BY <1>1, <1>4
<1>7. active \in [Products -> Received \cup {Nobody, Browser}]
  BY <1>1 DEF Nobody
<1>8. drain \in [id : Received \cup {Nobody}, answer : Answers]
  BY <1>1 DEF Answers, Nobody
<1>9. SignalsTyped
  BY <1>1, <1>2, <1>5, <1>6, <1>7, <1>8, SignalsAssumption DEF SignalsTyped
<1>10. FileAgrees
  BY <1>1, <1>3 DEF FileAgrees
<1>11. EntriesRecorded /\ ActedOnce /\ NothingLost /\ OkIsTraced
  BY <1>1, <1>2, <1>6 DEF EntriesRecorded, ActedOnce, NothingLost, OkIsTraced
<1> QED BY <1>9, <1>10, <1>11 DEF SignalsInv

LEMMA SignalsStutters ==
  ASSUME SignalsInv, UNCHANGED signals, epoch' \in Nat, now' \in Nat
  PROVE  SignalsInv'
<1>1. UNCHANGED <<push, queue, drain, flight, journal, saved, active, entry, gone>>
  BY DEF signals, worker, receipts
<1>2. SignalsTyped'
  BY <1>1 DEF SignalsInv, SignalsTyped, Received
<1> QED BY <1>1, <1>2, AsideKeeps, OkAside

LEMMA CalendarActionsKeepClock ==
  ASSUME CalendarStep
  PROVE  UNCHANGED runMode
<1>1. PICK p \in Products :
        \/ \E t \in Times \cup {NoTime} : SaveTime(p, t)
        \/ Scheduler(p)
        \/ \E l \in launch[p] : LaunchEnds(p, l)
  BY DEF CalendarStep
<1>2. CASE \E t \in Times \cup {NoTime} : SaveTime(p, t)
  BY <1>2 DEF SaveTime
<1>3. CASE Scheduler(p)
  BY <1>3 DEF Scheduler, Fire, Miss
<1>4. CASE \E l \in launch[p] : LaunchEnds(p, l)
  BY <1>4 DEF LaunchEnds
<1> QED BY <1>1, <1>2, <1>3, <1>4

LEMMA ClearedTyped == ASSUME SignalsTyped PROVE Cleared \in [Products -> Received \cup {Nobody, Browser}]
BY DEF Cleared

LEMMA OperatorKeeps == ASSUME SignalsInv, Operator PROVE SignalsInv'
<1>1. UNCHANGED <<push, queue, drain, flight, journal, saved, entry, gone>> /\ active' = Cleared
  BY DEF Operator, worker, receipts
<1>2. epoch' \in Nat /\ now' \in Nat
  BY DEF Operator, StopAll, SaveMode, NextEpoch, SignalsInv, SignalsTyped
<1>3. SignalsTyped'
  BY <1>1, <1>2, ClearedTyped DEF SignalsInv, SignalsTyped, Received
<1> QED BY <1>1, <1>3, AsideKeeps, OkAside

LEMMA ExpireKeeps ==
  ASSUME SignalsInv, NEW p \in Products, Expire(p) \/ BrowserSignal(p)
  PROVE  SignalsInv'
<1>1. UNCHANGED <<push, queue, drain, flight, journal, saved, entry, gone, epoch, now>>
  BY DEF Expire, BrowserSignal, worker, receipts, runMode
<1>2. PICK a \in {Nobody, Browser} : active' = [active EXCEPT ![p] = a]
  BY DEF Expire, BrowserSignal
<1>3. SignalsTyped'
  BY <1>1, <1>2 DEF SignalsInv, SignalsTyped, Received
<1> QED BY <1>1, <1>3, AsideKeeps, OkAside

\* The oldest of some pushes is one of them.
LEMMA OldestIs ==
  ASSUME NEW S \in SUBSET Nat, S # {}
  PROVE  Oldest(S) \in S
<1>1. PICK i \in S : \A j \in S : ~ (<<j, i>> \in OpToRel(<, Nat))
  BY NatLessThanWellFounded, WFMin
<1>2. OpToRel(<, Nat) = {ss \in Nat \X Nat : ss[1] < ss[2]}
  BY Zenon DEF OpToRel
<1>3. ASSUME NEW j \in S, j < i PROVE <<j, i>> \in {ss \in Nat \X Nat : ss[1] < ss[2]}
  BY <1>3
<1>4. \A j \in S : ~ (j < i)
  BY <1>1, <1>2, <1>3, Zenon
<1>5. \E k \in S : \A j \in S : k <= j
  BY <1>4
<1> QED BY <1>5, Zenon DEF Oldest

LEMMA SendKeeps == ASSUME SignalsInv, Send PROVE SignalsInv'
<1>1. UNCHANGED <<push, queue, journal, saved, active, entry, gone, epoch, now>>
  BY DEF Send, receipts, runMode
<1>2. queue \subseteq Nat /\ queue # {}
  BY ReceivedAre DEF SignalsInv, SignalsTyped, Send, Ids
<1>3. Oldest(queue) \in Received
  BY <1>2, OldestIs DEF SignalsInv, SignalsTyped
<1>4. PICK i \in Received : drain' = [id |-> i, answer |-> "none"] /\ flight' = flight \cup {i}
  BY <1>3 DEF Send
<1>5. SignalsTyped'
  BY <1>1, <1>4 DEF SignalsInv, SignalsTyped, Received, Answers
<1>6. OkIsTraced'
  BY <1>4 DEF OkIsTraced
<1> QED BY <1>1, <1>5, <1>6, AsideKeeps

LEMMA GivesUpKeeps == ASSUME SignalsInv, GivesUp PROVE SignalsInv'
<1>1. UNCHANGED <<push, queue, flight, journal, saved, active, entry, gone, epoch, now>>
  BY DEF GivesUp, receipts, runMode
<1>2. drain' = [id |-> 0, answer |-> "none"]
  BY DEF GivesUp, Idle, Nobody
<1>3. SignalsTyped'
  BY <1>1, <1>2 DEF SignalsInv, SignalsTyped, Received, Answers, Nobody
<1>4. OkIsTraced'
  BY <1>2 DEF OkIsTraced
<1> QED BY <1>1, <1>3, <1>4, AsideKeeps

\* A push leaves the queue once it is traced or refused.
LEMMA AnsweredKeeps == ASSUME SignalsInv, Answered PROVE SignalsInv'
<1>1. UNCHANGED <<push, flight, journal, saved, active, entry, epoch, now>>
  BY DEF Answered, receipts, runMode
<1>2. drain' = [id |-> 0, answer |-> "none"]
  BY DEF Answered, Idle, Nobody
<1>3. queue' = queue \/ (queue' = queue \ {drain.id} /\ drain.answer # "busy")
  BY DEF Answered, Without
<1>4. gone \subseteq gone' /\ (drain.answer = "refused" => drain.id \in gone')
  BY DEF Answered
<1>5. SignalsTyped'
  BY <1>1, <1>2, <1>3 DEF SignalsInv, SignalsTyped, Received, Answers, Nobody
<1>6. OkIsTraced'
  BY <1>2 DEF OkIsTraced
<1>7. FileAgrees' /\ Grows /\ FileKept /\ Settled /\ Received' = Received
  BY <1>1 DEF SignalsInv, FileAgrees, Grows, FileKept, Settled, Received
<1>8. ASSUME NEW i \in Received, i \in queue \cup gone, i \notin queue' \cup gone' PROVE Traced(i)'
  <2>1. i = drain.id /\ drain.answer # "busy" /\ drain.answer # "refused"
    BY <1>3, <1>4, <1>8
  <2>2. drain.answer \in Answers /\ drain.answer # "none"
    BY DEF SignalsInv, SignalsTyped, Answered
  <2>3. Traced(i)
    BY <2>1, <2>2 DEF SignalsInv, OkIsTraced, Answers
  <2> QED BY <1>7, <2>3, TracesKept DEF SignalsInv
<1>9. Accounted
  BY <1>7, <1>8 DEF Accounted
<1> QED BY <1>5, <1>6, <1>7, <1>9, StepKeeps DEF Safe

LEMMA SameEventIs ==
  ASSUME SignalsTyped, NEW i \in Received, NEW j \in Received
  PROVE  SameEvent(i, i) /\ (SameEvent(i, j) => SameEvent(j, i))
<1> DEFINE Pushes == [product : Products, seen : Nat]
<1>0. i \in 1 .. Len(push) /\ j \in 1 .. Len(push) /\ push \in Seq(Pushes)
  BY ReceivedAre DEF SignalsTyped
<1>3. push[i] \in Pushes /\ push[j] \in Pushes
  <2> HIDE DEF Pushes
  <2> QED BY <1>0
<1>1. push[i].seen \in Nat /\ push[j].seen \in Nat
  BY <1>3
<1>2. Distance(push[i].seen, push[j].seen) = Distance(push[j].seen, push[i].seen)
  BY <1>1 DEF Distance
<1> QED BY <1>2 DEF SameEvent

LEMMA ReceiveKeeps == ASSUME SignalsInv, NEW p \in Products, Receive(p) PROVE SignalsInv'
<1>1. UNCHANGED <<drain, flight, journal, saved, active, entry, epoch, now>>
  BY DEF Receive, receipts, runMode
<1>2. Grows
  BY DEF Receive, Grows
<1>3. /\ push' \in Seq([product : Products, seen : Nat]) /\ Len(push') <= MaxPushes
      /\ Received' = 1 .. Len(push') /\ Received \subseteq Received'
  BY <1>2, PushesKept DEF SignalsInv
<1>4. Len(push) \in Nat /\ Len(push') = Len(push) + 1
  BY DEF Receive, SignalsInv, SignalsTyped
<1>5. queue' \subseteq queue \cup {Len(push) + 1}
      /\ gone' = gone \cup ((queue \cup {Len(push) + 1}) \ queue')
  BY DEF Receive
<1>6. Len(push) + 1 \in Received'
  BY <1>3, <1>4
<1>7. queue' \subseteq Received'
  BY <1>3, <1>5, <1>6 DEF SignalsInv, SignalsTyped
<1>8. SignalsTyped'
  BY <1>1, <1>3, <1>7 DEF SignalsInv, SignalsTyped
<1>9. FileAgrees' /\ FileKept /\ Settled
  BY <1>1 DEF SignalsInv, FileAgrees, FileKept, Settled
<1>10. OkIsTraced'
  <2>1. \A i \in Received : Traced(i) => Traced(i)'
    BY <1>2, <1>9, TracesKept DEF SignalsInv
  <2> QED BY <1>1, <1>3, <2>1 DEF SignalsInv, OkIsTraced
<1>11. Accounted
  <2>1. ASSUME NEW i \in Received', i \notin Received PROVE i \in queue' \cup gone'
    <3>1. i = Len(push) + 1
      BY <1>3, <1>4, <2>1, ReceivedAre DEF SignalsInv
    <3> QED BY <1>5, <3>1
  <2>2. queue \cup gone \subseteq queue' \cup gone'
    BY <1>5
  <2> QED BY <2>1, <2>2 DEF Accounted
<1> QED BY <1>2, <1>8, <1>9, <1>10, <1>11, StepKeeps DEF Safe

LEMMA NoRecordIs == NoRecord.decision = "none" /\ NoRecord \in Records
BY DEF NoRecord, Records, Decisions, Actions

\* A journal of which every changed record says something.
LEMMA JournalKept ==
  ASSUME SignalsInv, NEW memory \in [Ids -> Records], NEW disk \in [Ids -> Records],
         journal' = memory, saved' = disk,
         \A k \in Ids : memory[k].decision = disk[k].decision,
         \A k \in Ids : \/ {memory[k], disk[k]} \subseteq {journal[k], saved[k]}
                        \/ memory[k].decision # "none"
  PROVE  FileAgrees' /\ FileKept
<1>1. FileAgrees'
  BY DEF SignalsInv, FileAgrees
<1>2. ASSUME NEW k \in Ids, saved[k] # NoRecord PROVE saved'[k] # NoRecord
  <2>1. journal[k].decision # "none" /\ saved[k].decision # "none"
    BY <1>2 DEF SignalsInv, FileAgrees
  <2>2. memory[k].decision # "none"
    BY <2>1
  <2> QED BY <2>2, NoRecordIs
<1> QED BY <1>1, <1>2 DEF FileKept

LEMMA RecordIs ==
  ASSUME SignalsTyped, NEW i \in Ids, NEW d \in Decisions, NEW a \in Actions
  PROVE  /\ Record(i, d, a) \in [Ids -> Records]
         /\ Record(i, d, a)[i].decision = d
         /\ \A k \in Ids \ {i} : Record(i, d, a)[k] = journal[k]
<1> DEFINE r == [decision |-> d, action |-> a]
<1>1. r \in Records /\ r.decision = d
  BY DEF Records
<1>2. Record(i, d, a) = [journal EXCEPT ![i] = r]
  BY DEF Record
<1> HIDE DEF r
<1> QED BY <1>1, <1>2 DEF SignalsTyped

LEMMA MismatchKeeps == ASSUME SignalsInv, NEW p \in Products, Mismatch(p) PROVE SignalsInv'
<1>1. UNCHANGED <<push, queue, drain, flight, entry, gone, epoch, now>>
      /\ active' = [active EXCEPT ![p] = Nobody]
  BY DEF Mismatch, worker, runMode
<1>2. active' \in [Products -> Received' \cup {Nobody, Browser}]
  BY <1>1 DEF SignalsInv, SignalsTyped, Received
<1>3. CASE active[p] = Browser
  <2>1. UNCHANGED <<journal, saved>>
    BY <1>3 DEF Mismatch, receipts
  <2>2. SignalsTyped'
    BY <1>1, <1>2, <2>1 DEF SignalsInv, SignalsTyped, Received
  <2> QED BY <1>1, <2>1, <2>2, AsideKeeps, OkAside
<1>4. CASE active[p] # Browser
  <2>1. PICK i \in Ids : i = active[p]
    BY <1>4, ReceivedAre DEF SignalsInv, SignalsTyped, Mismatch
  <2>2. journal' = Record(i, "offer_mismatch", "cancelled") /\ saved' = journal'
    BY <1>4, <2>1 DEF Mismatch, Persist
  <2> DEFINE m == Record(i, "offer_mismatch", "cancelled")
  <2>3. m \in [Ids -> Records] /\ m[i].decision = "offer_mismatch"
        /\ \A k \in Ids \ {i} : m[k] = journal[k]
    BY RecordIs DEF Decisions, Acting, Actions, SignalsInv
  <2> HIDE DEF m
  <2>4. journal' = m /\ saved' = m
    BY <2>2 DEF m
  <2>5. FileAgrees' /\ FileKept
    BY <2>3, <2>4, JournalKept
  <2>6. SignalsTyped'
    BY <1>1, <1>2, <2>3, <2>4 DEF SignalsInv, SignalsTyped, Received
  <2>7. Settled
    BY <1>1, <2>3, <2>4 DEF Settled, Acting
  <2>8. Grows /\ Received' = Received
    BY <1>1 DEF Grows, Received
  <2>9. OkIsTraced' /\ Accounted
    <3>1. \A k \in Received : Traced(k) => Traced(k)'
      BY <2>5, <2>8, TracesKept DEF SignalsInv
    <3> QED BY <1>1, <2>8, <3>1 DEF SignalsInv, OkIsTraced, Accounted
  <2> QED BY <2>5, <2>6, <2>7, <2>8, <2>9, StepKeeps DEF Safe
<1> QED BY <1>3, <1>4

\* openProduct ends: the record of its push keeps a decision that allowed it.
LEMMA EntryEndsKeeps == ASSUME SignalsInv, NEW i \in Received, EntryEnds(i) PROVE SignalsInv'
<1>1. UNCHANGED <<push, queue, drain, flight, active, gone, epoch, now>>
      /\ entry' = [entry EXCEPT ![i].stage = "over"] /\ entry[i].stage = "asked"
  BY DEF EntryEnds, EntryOver, worker, runMode
<1>2. i \in Ids /\ Received \subseteq Ids
  BY ReceivedAre DEF SignalsInv
<1>3. entry' \in [Ids -> [stage : Stages, epoch : Nat]]
      /\ \A k \in Ids : entry'[k].stage # "none" => entry[k].stage # "none"
  BY <1>1, <1>2 DEF SignalsInv, SignalsTyped, Stages
<1>4. journal[i].decision \in Acting
  BY <1>1, <1>2 DEF SignalsInv, EntriesRecorded
<1>5. saved' = journal' /\ journal' \in {[journal EXCEPT ![i].action = "cancelled"], Opened(i), Failed(i)}
  BY DEF EntryEnds, Persist
<1>6. PICK memory : memory = journal'
  OBVIOUS
<1>7. memory \in [Ids -> Records] /\ (\A k \in Ids \ {i} : memory[k] = journal[k])
      /\ memory[i].decision \in Acting
      /\ (journal[i].decision = "offer_mismatch" => memory[i].decision = "offer_mismatch")
  <2>1. journal \in [Ids -> Records]
    BY DEF SignalsInv, SignalsTyped
  <2>2. ASSUME NEW a \in Actions, memory = [journal EXCEPT ![i].action = a] PROVE <1>7
    <3>1. [journal[i] EXCEPT !.action = a] \in Records
          /\ [journal[i] EXCEPT !.action = a].decision = journal[i].decision
      BY <1>2, <2>1 DEF Records
    <3> QED BY <1>2, <1>4, <2>1, <2>2, <3>1
  <2>3. CASE memory = journal
    BY <1>2, <1>4, <2>1, <2>3
  <2>4. CASE journal[i].decision # "offer_mismatch" /\ memory = Record(i, "failed", "failed")
    BY <1>2, <2>4, RecordIs DEF Decisions, Acting, Actions, SignalsInv
  <2>5. "cancelled" \in Actions /\ "opened" \in Actions
    BY DEF Actions
  <2> QED BY <1>5, <1>6, <2>2, <2>3, <2>4, <2>5 DEF Opened, Failed
<1>8. journal' = memory /\ saved' = memory
  BY <1>5, <1>6
<1>9. FileAgrees' /\ FileKept
  BY <1>7, <1>8, JournalKept DEF Acting
<1>10. SignalsTyped'
  BY <1>1, <1>3, <1>7, <1>8 DEF SignalsInv, SignalsTyped, Received
<1>11. Settled
  BY <1>3, <1>7, <1>8 DEF Settled
<1>12. Grows /\ Received' = Received
  BY <1>1 DEF Grows, Received
<1>13. OkIsTraced' /\ Accounted
  <2>1. \A k \in Received : Traced(k) => Traced(k)'
    BY <1>9, <1>12, TracesKept DEF SignalsInv
  <2> QED BY <1>1, <1>12, <2>1 DEF SignalsInv, OkIsTraced, Accounted
<1> QED BY <1>9, <1>10, <1>11, <1>12, <1>13, StepKeeps DEF Safe

-----------------------------------------------------------------------------
(* The desktop's turn.                                                     *)

\* What every answer has in common: "ok" is heard only of news on disk.
LEMMA AnswerIs ==
  ASSUME SignalsInv, NEW i \in Received, NEW a \in Answers, Answer(i, a), gone' = gone
  PROVE  /\ Received' = Received /\ Grows /\ flight' \subseteq Received
         /\ drain' \in [id : Received \cup {Nobody}, answer : Answers]
         /\ FileKept /\ (a # "ok" \/ Traced(i)') => OkIsTraced' /\ Accounted
<1>1. push' = push /\ queue' = queue /\ Received' = Received /\ Grows
  BY DEF Answer, Received, Grows
<1>2. flight' \subseteq Received
  BY DEF Answer, SignalsInv, SignalsTyped
<1>3. drain' = drain \/ (drain.id = i /\ drain' = [drain EXCEPT !.answer = a])
  BY DEF Answer
<1>4. drain' \in [id : Received \cup {Nobody}, answer : Answers]
  BY <1>3 DEF SignalsInv, SignalsTyped
<1>5. ASSUME FileKept PROVE \A k \in Received : Traced(k) => Traced(k)'
  BY <1>1, <1>5, TracesKept DEF SignalsInv
<1>6. ASSUME FileKept, a # "ok" \/ Traced(i)' PROVE OkIsTraced'
  <2>1. CASE drain' = drain
    BY <1>1, <1>5, <1>6, <2>1 DEF SignalsInv, OkIsTraced
  <2>2. CASE drain.id = i /\ drain' = [drain EXCEPT !.answer = a]
    <3>1. drain'.id = i /\ drain'.answer = a
      BY <2>2 DEF SignalsInv, SignalsTyped
    <3> QED BY <1>1, <1>6, <3>1 DEF OkIsTraced
  <2> QED BY <1>3, <2>1, <2>2
<1>7. FileKept => Accounted
  BY <1>1, <1>5 DEF Accounted
<1> QED BY <1>1, <1>2, <1>4, <1>6, <1>7

\* A duplicate is news of which there is a record, its own or another's.
LEMMA KnownIsTraced ==
  ASSUME SignalsInv, NEW i \in Received, Known(i)
  PROVE  \E j \in Received : journal[j] # NoRecord /\ SameEvent(i, j)
BY SameEventIs DEF Known, SignalsInv

LEMMA UnknownIsNew ==
  ASSUME SignalsInv, NEW i \in Received, ~Known(i)
  PROVE  i \in Ids /\ journal[i] = NoRecord /\ journal[i].decision = "none" /\ entry[i].stage = "none"
<1>1. i \in Ids /\ journal[i] = NoRecord
  BY ReceivedAre DEF Known, SignalsInv
<1> QED BY <1>1, NoRecordIs DEF SignalsInv, EntriesRecorded, Acting

\* A first record for a push that had none.
LEMMA FirstRecord ==
  ASSUME SignalsInv, NEW i \in Received, journal[i].decision = "none", i \in Ids,
         Received' = Received, push' = push,
         NEW d \in Decisions \ {"none"}, NEW a \in Actions, NEW b \in Actions,
         journal' = Record(i, d, a), saved' = Record(i, d, b)
  PROVE  /\ journal' \in [Ids -> Records] /\ saved' \in [Ids -> Records]
         /\ journal'[i].decision = d /\ \A k \in Ids \ {i} : journal'[k] = journal[k]
         /\ FileAgrees' /\ FileKept /\ Traced(i)'
<1>1. PICK memory : memory = journal'
  OBVIOUS
<1>2. PICK disk : disk = saved'
  OBVIOUS
<1>3. /\ memory \in [Ids -> Records] /\ disk \in [Ids -> Records]
      /\ memory[i].decision = d /\ disk[i].decision = d
      /\ \A k \in Ids \ {i} : memory[k] = journal[k] /\ disk[k] = journal[k]
  BY <1>1, <1>2, RecordIs DEF SignalsInv
<1>4. FileAgrees' /\ FileKept
  BY <1>1, <1>2, <1>3, JournalKept
<1>5. saved'[i] # NoRecord
  BY <1>2, <1>3, NoRecordIs
<1>6. SameEvent(i, i)'
  BY SameEventIs DEF SameEvent, SignalsInv
<1>7. Traced(i)'
  BY <1>5, <1>6 DEF Traced
<1> QED BY <1>1, <1>2, <1>3, <1>4, <1>7

LEMMA DuplicateKeeps ==
  ASSUME SignalsInv, NEW i \in Received, Duplicate(i), UNCHANGED runMode
  PROVE  SignalsInv'
<1>1. UNCHANGED <<push, queue, active, entry, gone, epoch, now>>
      /\ journal' = journal /\ saved' = journal /\ Answer(i, "ok") /\ "ok" \in Answers
  BY DEF Duplicate, Answer, Persist, runMode, Answers
<1>2. FileAgrees' /\ FileKept
  BY <1>1, JournalKept DEF SignalsInv, SignalsTyped
<1>3. Traced(i)'
  <2>1. PICK j \in Received : journal[j] # NoRecord /\ SameEvent(i, j)
    BY KnownIsTraced DEF Duplicate
  <2>2. saved'[j] # NoRecord /\ SameEvent(i, j)' /\ j \in Received'
    BY <1>1, <2>1 DEF SameEvent, Received
  <2> QED BY <2>2 DEF Traced
<1>4. /\ Received' = Received /\ Grows /\ flight' \subseteq Received
      /\ drain' \in [id : Received \cup {Nobody}, answer : Answers]
      /\ OkIsTraced' /\ Accounted
  BY <1>1, <1>2, <1>3, AnswerIs
<1>5. SignalsTyped'
  BY <1>1, <1>4 DEF SignalsInv, SignalsTyped
<1>6. Settled
  BY <1>1 DEF Settled
<1> QED BY <1>2, <1>4, <1>5, <1>6, StepKeeps DEF Safe

\* Not acted on.
LEMMA DeclineKeeps ==
  ASSUME SignalsInv, NEW i \in Received, Decline(i) \/ Corroborate(i), UNCHANGED runMode
  PROVE  SignalsInv'
<1>1. PICK d \in {"declined", "corroborated"} :
        journal' = Record(i, d, "none") /\ saved' = Record(i, d, "none")
  BY DEF Decline, Corroborate, Persist
<1>2. UNCHANGED <<push, queue, active, entry, gone, epoch, now>> /\ Answer(i, "ok") /\ "ok" \in Answers
  BY DEF Decline, Corroborate, Answer, runMode, Answers
<1>3. i \in Ids /\ journal[i].decision = "none"
  BY UnknownIsNew DEF Decline, Corroborate
<1>4. Received' = Received /\ d \in Decisions \ {"none"} /\ "none" \in Actions
  BY <1>2 DEF Received, Decisions, Actions
<1>5. /\ journal' \in [Ids -> Records] /\ saved' \in [Ids -> Records]
      /\ journal'[i].decision = d /\ \A k \in Ids \ {i} : journal'[k] = journal[k]
      /\ FileAgrees' /\ FileKept /\ Traced(i)'
  BY <1>1, <1>2, <1>3, <1>4, FirstRecord
<1>6. /\ Grows /\ flight' \subseteq Received
      /\ drain' \in [id : Received \cup {Nobody}, answer : Answers]
      /\ OkIsTraced' /\ Accounted
  BY <1>2, <1>5, AnswerIs
<1>7. SignalsTyped'
  BY <1>2, <1>4, <1>5, <1>6 DEF SignalsInv, SignalsTyped
<1>8. Settled
  BY <1>2, <1>3, <1>5 DEF Settled, Acting
<1> QED BY <1>5, <1>6, <1>7, <1>8, StepKeeps DEF Safe

LEMMA StoreFailsKeeps ==
  ASSUME SignalsInv, NEW i \in Received, StoreFails(i), UNCHANGED runMode
  PROVE  SignalsInv'
<1>1. UNCHANGED <<push, queue, active, entry, gone, journal, saved, epoch, now>>
      /\ Answer(i, "busy") /\ "busy" \in Answers
  BY DEF StoreFails, Answer, Restored, runMode, Answers
<1>2. FileKept
  BY <1>1 DEF FileKept
<1>3. /\ Received' = Received /\ flight' \subseteq Received
      /\ drain' \in [id : Received \cup {Nobody}, answer : Answers]
      /\ OkIsTraced'
  BY <1>1, <1>2, AnswerIs
<1>4. SignalsTyped'
  BY <1>1, <1>3 DEF SignalsInv, SignalsTyped
<1> QED BY <1>1, <1>3, <1>4, AsideKeeps

\* The second write fails: the record stands, and no page is asked for.
LEMMA ActivateStuckKeeps ==
  ASSUME SignalsInv, NEW i \in Received, ActivateStuck(i), UNCHANGED runMode
  PROVE  SignalsInv'
<1>1. journal' = Record(i, "queued", "opening") /\ saved' = Record(i, "queued", "pending")
  BY DEF ActivateStuck
<1>2. UNCHANGED <<push, queue, entry, gone, epoch, now>> /\ Answer(i, "refused") /\ "refused" \in Answers
  BY DEF ActivateStuck, Answer, runMode, Answers
<1>3. i \in Ids /\ journal[i].decision = "none"
  BY UnknownIsNew DEF ActivateStuck, Activates
<1>4. Received' = Received /\ "queued" \in Decisions \ {"none"} /\ "opening" \in Actions /\ "pending" \in Actions
  BY <1>2 DEF Received, Decisions, Actions, Acting
<1>5. /\ journal' \in [Ids -> Records] /\ saved' \in [Ids -> Records]
      /\ journal'[i].decision = "queued" /\ \A k \in Ids \ {i} : journal'[k] = journal[k]
      /\ FileAgrees' /\ FileKept /\ Traced(i)'
  BY <1>1, <1>2, <1>3, <1>4, FirstRecord
<1>6. /\ Grows /\ flight' \subseteq Received
      /\ drain' \in [id : Received \cup {Nobody}, answer : Answers]
      /\ OkIsTraced' /\ Accounted
  BY <1>2, <1>5, AnswerIs
<1>7. active' \in [Products -> Received \cup {Nobody, Browser}]
  BY DEF ActivateStuck, Activates, SignalsInv, SignalsTyped
<1>8. SignalsTyped'
  BY <1>2, <1>4, <1>5, <1>6, <1>7 DEF SignalsInv, SignalsTyped
<1>9. Settled
  BY <1>2, <1>3, <1>5 DEF Settled, Acting
<1> QED BY <1>5, <1>6, <1>8, <1>9, StepKeeps DEF Safe

\* A page is asked for: every other push of the same news that has one was disproved,
\* for any other record of it would have made this push known.
LEMMA ActivateKeeps ==
  ASSUME SignalsInv, NEW i \in Received, Activate(i), UNCHANGED runMode
  PROVE  SignalsInv'
<1>1. journal' = Record(i, "queued", "opening") /\ saved' = Record(i, "queued", "opening")
  BY DEF Activate, Persist
<1>2. UNCHANGED <<push, queue, gone, epoch, now>> /\ Answer(i, "ok") /\ "ok" \in Answers
      /\ entry' = [entry EXCEPT ![i] = [stage |-> "asked", epoch |-> epoch]]
  BY DEF Activate, Answer, runMode, Answers
<1>3. i \in Ids /\ journal[i].decision = "none" /\ ~Known(i)
  BY UnknownIsNew DEF Activate, Activates
<1>4. Received' = Received /\ "queued" \in Decisions \ {"none"} /\ "opening" \in Actions
  BY <1>2 DEF Received, Decisions, Actions, Acting
<1>5. /\ journal' \in [Ids -> Records] /\ saved' \in [Ids -> Records]
      /\ journal'[i].decision = "queued" /\ \A k \in Ids \ {i} : journal'[k] = journal[k]
      /\ FileAgrees' /\ FileKept /\ Traced(i)'
  BY <1>1, <1>2, <1>3, <1>4, FirstRecord
<1>6. /\ Grows /\ flight' \subseteq Received
      /\ drain' \in [id : Received \cup {Nobody}, answer : Answers]
      /\ OkIsTraced' /\ Accounted
  BY <1>2, <1>5, AnswerIs
<1>7. active' \in [Products -> Received \cup {Nobody, Browser}]
  BY DEF Activate, Activates, SignalsInv, SignalsTyped
<1>8. entry' \in [Ids -> [stage : Stages, epoch : Nat]]
      /\ \A k \in Ids \ {i} : entry'[k] = entry[k]
  BY <1>2, <1>3 DEF SignalsInv, SignalsTyped, Stages
<1>9. SignalsTyped'
  BY <1>2, <1>4, <1>5, <1>6, <1>7, <1>8 DEF SignalsInv, SignalsTyped
<1>10. EntriesRecorded'
  <2>1. ASSUME NEW k \in Ids, entry'[k].stage # "none" PROVE k \in Received' /\ journal'[k].decision \in Acting
    <3>1. CASE k = i
      BY <1>4, <1>5, <3>1 DEF Acting
    <3>2. CASE k # i
      BY <1>4, <1>5, <1>8, <2>1, <3>2 DEF SignalsInv, EntriesRecorded
    <3> QED BY <3>1, <3>2
  <2> QED BY <2>1 DEF EntriesRecorded
<1>11. ASSUME NEW k \in Received, k # i, SameEvent(i, k), entry[k].stage # "none"
       PROVE  journal'[k].decision = "offer_mismatch"
  <2>1. k \in Ids /\ journal[k].decision \in Acting
    BY <1>11, ReceivedAre DEF SignalsInv, EntriesRecorded
  <2>2. journal[k] # NoRecord /\ journal[k].decision # "corroborated"
    BY <2>1, NoRecordIs DEF Acting
  <2>3. journal[k] = [decision |-> "offer_mismatch", action |-> "cancelled"]
    BY <1>3, <1>11, <2>2 DEF Known
  <2> QED BY <1>5, <1>11, <2>1, <2>3
<1>12. ActedOnce'
  <2>1. ASSUME NEW a \in Received, NEW b \in Received, a < b, SameEvent(a, b),
               entry'[a].stage # "none", entry'[b].stage # "none"
        PROVE  "offer_mismatch" \in {journal'[a].decision, journal'[b].decision}
    <3>1. a \in Ids /\ b \in Ids /\ a # b
      BY <2>1, ReceivedAre DEF SignalsInv, Ids
    <3>2. CASE a = i
      BY <1>8, <1>11, <2>1, <3>1, <3>2
    <3>3. CASE b = i
      <4>1. SameEvent(i, a)
        BY <2>1, <3>3, SameEventIs DEF SignalsInv
      <4> QED BY <1>8, <1>11, <2>1, <3>1, <3>3, <4>1
    <3>4. CASE a # i /\ b # i
      <4>1. entry[a].stage # "none" /\ entry[b].stage # "none"
        BY <1>8, <2>1, <3>1, <3>4
      <4>2. "offer_mismatch" \in {journal[a].decision, journal[b].decision}
        BY <2>1, <4>1 DEF SignalsInv, ActedOnce
      <4> QED BY <1>5, <3>1, <3>4, <4>2
    <3> QED BY <3>2, <3>3, <3>4
  <2>2. \A a, b \in Received : SameEvent(a, b)' <=> SameEvent(a, b)
    BY <1>6, PushesKept DEF SignalsInv
  <2> QED BY <1>4, <2>1, <2>2 DEF ActedOnce
<1>13. NothingLost'
  BY <1>5, <1>6, NothingLostKept
<1> QED BY <1>5, <1>6, <1>9, <1>10, <1>12, <1>13 DEF SignalsInv

LEMMA HandleKeeps == ASSUME SignalsInv, NEW i \in Received, Handle(i) PROVE SignalsInv'
BY DuplicateKeeps, DeclineKeeps, ActivateKeeps, ActivateStuckKeeps, StoreFailsKeeps DEF Handle

\* Nothing but the files survives.
LEMMA RebootKeeps ==
  ASSUME SignalsInv, NEW disk \in [Ids -> Records], Reboot(disk), epoch' \in Nat, now' \in Nat,
         \A k \in Ids :
           \/ disk[k] \in {journal[k], saved[k]}
           \/ k \in Received /\ journal[k].decision = "none" /\ disk[k].decision = "queued"
  PROVE  SignalsInv'
<1>1. UNCHANGED <<push, queue, gone>> /\ journal' = disk /\ saved' = disk /\ flight' = {}
      /\ active' = Cleared
  BY DEF Reboot
<1>2. Received' = Received /\ Grows
  BY <1>1 DEF Received, Grows
<1>3. FileAgrees' /\ FileKept
  BY <1>1, JournalKept
<1>4. drain' = drain \/ drain' = [drain EXCEPT !.answer = "busy"]
  BY DEF Reboot
<1>5. drain' \in [id : Received \cup {Nobody}, answer : Answers]
      /\ (drain' = drain \/ drain'.answer = "busy")
  BY <1>4 DEF SignalsInv, SignalsTyped, Answers
<1>6. entry' = [i \in Ids |-> IF entry[i].stage = "asked" THEN [entry[i] EXCEPT !.stage = "over"] ELSE entry[i]]
  BY DEF Reboot
<1>7. ASSUME NEW i \in Ids
      PROVE  entry'[i] \in [stage : Stages, epoch : Nat] /\ (entry'[i].stage # "none" => entry[i].stage # "none")
  <2>1. entry[i] \in [stage : Stages, epoch : Nat]
    BY DEF SignalsInv, SignalsTyped
  <2>2. CASE entry[i].stage = "asked"
    BY <1>6, <2>1, <2>2 DEF Stages
  <2>3. CASE entry[i].stage # "asked"
    BY <1>6, <2>1, <2>3
  <2> QED BY <2>2, <2>3
<1>8. entry' \in [Ids -> [stage : Stages, epoch : Nat]]
  BY <1>6, <1>7
<1>9. SignalsTyped'
  BY <1>1, <1>2, <1>5, <1>8, ClearedTyped DEF SignalsInv, SignalsTyped
<1>10. Settled
  BY <1>1, <1>7 DEF Settled, SignalsInv, FileAgrees, Acting
<1>11. OkIsTraced' /\ Accounted
  <2>1. \A k \in Received : Traced(k) => Traced(k)'
    BY <1>2, <1>3, TracesKept DEF SignalsInv
  <2> QED BY <1>1, <1>2, <1>5, <2>1 DEF SignalsInv, OkIsTraced, Accounted
<1> QED BY <1>2, <1>3, <1>9, <1>10, <1>11, StepKeeps DEF Safe

LEMMA RestartClock == ASSUME SignalsInv, Restart PROVE epoch' \in Nat /\ now' \in Nat
BY DEF Restart, NextEpoch, SignalsInv, SignalsTyped

LEMMA RebootFromFile == ASSUME SignalsInv, Restart, Reboot(saved) PROVE SignalsInv'
<1>1. saved \in [Ids -> Records]
  BY DEF SignalsInv, SignalsTyped
<1> QED BY <1>1, RestartClock, RebootKeeps

LEMMA HandlerCutKeeps == ASSUME SignalsInv, NEW i \in Received, HandlerCut(i) PROVE SignalsInv'
<1>1. Restart /\ (Reboot(saved) \/ Reboot(Record(i, "queued", "pending")))
  BY DEF HandlerCut
<1>2. i \in Ids /\ journal[i].decision = "none"
  BY UnknownIsNew DEF HandlerCut
<1>3. CASE Reboot(Record(i, "queued", "pending"))
  <2> DEFINE disk == Record(i, "queued", "pending")
  <2>1. /\ disk \in [Ids -> Records] /\ disk[i].decision = "queued"
        /\ \A k \in Ids \ {i} : disk[k] = journal[k]
    BY <1>2, RecordIs DEF Decisions, Acting, Actions, SignalsInv
  <2> HIDE DEF disk
  <2>2. Reboot(disk)
    BY <1>3 DEF disk
  <2> QED BY <1>1, <1>2, <2>1, <2>2, RestartClock, RebootKeeps
<1> QED BY <1>1, <1>3, RebootFromFile

LEMMA SignalsStepKeeps == ASSUME SignalsInv, [Next]_vars PROVE SignalsInv'
<1>0. epoch \in Nat /\ now \in Nat
  BY DEF SignalsInv, SignalsTyped
<1>1. CASE Operator
  BY <1>1, OperatorKeeps
<1>2. CASE OpenByHand \/ (Minute /\ UNCHANGED <<calendar, signals>>)
  BY <1>0, <1>2, SignalsStutters DEF OpenByHand, ResumeMonitoring, Minute
<1>3. CASE Crash
  BY <1>3, RebootFromFile DEF Crash
<1>4. CASE \E p \in Products : ScheduleCut(p)
  BY <1>4, RebootFromFile DEF ScheduleCut, FireCut
<1>5. CASE Calendars
  BY <1>0, <1>5, CalendarActionsKeepClock, SignalsStutters DEF Calendars, runMode
<1>6. CASE Send \/ Answered \/ GivesUp
  BY <1>6, SendKeeps, AnsweredKeeps, GivesUpKeeps
<1>7. CASE \E p \in Products : Receive(p) \/ Mismatch(p) \/ Expire(p) \/ BrowserSignal(p)
  BY <1>7, ReceiveKeeps, MismatchKeeps, ExpireKeeps
<1>8. CASE \E i \in Received : Handle(i) \/ EntryEnds(i) \/ HandlerCut(i)
  BY <1>8, HandleKeeps, EntryEndsKeeps, HandlerCutKeeps
<1>9. CASE UNCHANGED vars
  BY <1>0, <1>9, SignalsStutters DEF vars, runMode
<1> QED BY <1>1, <1>2, <1>3, <1>4, <1>5, <1>6, <1>7, <1>8, <1>9 DEF Next

\* What the files, the journal in memory, the queue and the entries have to do with
\* one another, through failing writes, lost answers and crashes.
THEOREM SignalsAlways == Spec => []SignalsInv
BY SignalsStarts, SignalsStepKeeps, PTL DEF Spec

\* "Simultaneous sources corroborate one purchase flow instead of opening
\* duplicates" (README.md:227): pushes that tell the same news ask for one page.
THEOREM ActedOnceAlways == Spec => []ActedOnce
<1>1. SignalsInv => ActedOnce
  BY DEF SignalsInv
<1> QED BY <1>1, SignalsAlways, PTL

\* Every push is in the queue, on disk, refused or fallen out of the full queue.
THEOREM NothingLostAlways == Spec => []NothingLost
<1>1. SignalsInv => NothingLost
  BY DEF SignalsInv
<1> QED BY <1>1, SignalsAlways, PTL
=============================================================================
