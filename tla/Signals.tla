------------------------------ MODULE Signals ------------------------------
(***************************************************************************)
(* From a push of the signal service to a page of the store.  The service  *)
(* worker of Chrome keeps pushes in a bounded queue and posts them, oldest *)
(* first, until the desktop has answered.  The desktop keeps a receipt for *)
(* each, and in Signals mode activates its mission and opens its page.     *)
(* Composed with the calendar, whose missions no signal may open.          *)
(***************************************************************************)
EXTENDS Calendar, Sequences, FiniteSets

CONSTANTS
  Window,      \* trackalackerSignalDedupeWindowSeconds, in minutes
  Fresh,       \* SIGNAL_FRESH_MS
  QueueLimit,  \* TRACKALACKER_PUSH_QUEUE_LIMIT
  MaxPushes,   \* bound: pushes received
  MaxFaults    \* bound: failed writes, lost answers and deaths of the worker

ASSUME SignalsAssumption ==
  /\ {Window, Fresh, MaxPushes, MaxFaults} \subseteq Nat
  /\ QueueLimit \in Nat \ {0}

Ids      == 1 .. MaxPushes
Nobody   == 0
Browser  == MaxPushes + 1      \* an offer the operator's own tab observed
NoRecord == [decision |-> "none", action |-> "none"]

VARIABLES
  push,      \* every push so far: its mission and its time
  queue,     \* chrome.storage: pushes not yet delivered, in the order of their ids
  drain,     \* the push the worker waits for an answer to, and the answer
  flight,    \* requests on their way to the desktop
  journal,   \* signalJournal, by push
  saved,     \* the journal's file
  missions,  \* missions that exist
  active,    \* signalActivations: the signal that activated a mission
  entry,     \* the opening asked for by a push: its stage and epoch
  faults,
  gone       \* history: pushes that fell out of the full queue or were refused

worker  == <<push, queue, drain, flight>>
receipts == <<journal, saved>>
signals == <<worker, receipts, missions, active, entry, faults, gone>>
vars    == <<runMode, calendar, signals>>

Received == DOMAIN push
Idle     == [id |-> Nobody, answer |-> "none"]
NoEntry  == [stage |-> "none", epoch |-> 0]

SignalsInit ==
  /\ push = <<>> /\ queue = {}
  /\ drain = Idle /\ flight = {}
  /\ journal = [i \in Ids |-> NoRecord] /\ saved = journal
  /\ missions \in SUBSET Products
  /\ active = [p \in Products |-> Nobody]
  /\ entry = [i \in Ids |-> NoEntry]
  /\ faults = 0 /\ gone = {}

Fault == faults < MaxFaults /\ faults' = faults + 1

-----------------------------------------------------------------------------
(* The service worker.                                                     *)

Oldest(ids) == CHOOSE i \in ids : \A j \in ids : i <= j

\* handleTrackalackerPushEvent: every push gets an id of its own, also when it
\* tells the same news again.  A full queue drops its oldest.
Receive(p) ==
  /\ Len(push) < MaxPushes
  /\ push' = Append(push, [product |-> p, seen |-> now])
  /\ LET all  == queue \cup {Len(push) + 1}
         kept == IF Cardinality(all) > QueueLimit THEN all \ {Oldest(all)} ELSE all
     IN queue' = kept /\ gone' = gone \cup (all \ kept)
  /\ UNCHANGED <<runMode, calendar, drain, flight, receipts, missions, active, entry, faults>>

\* drainTrackalackerPushQueue posts the oldest push.
Send ==
  /\ drain = Idle /\ queue # {}
  /\ drain' = [id |-> Oldest(queue), answer |-> "none"]
  /\ flight' = flight \cup {Oldest(queue)}
  /\ UNCHANGED <<runMode, calendar, push, queue, receipts, missions, active, entry, faults, gone>>

\* Mutant: the head of the queue is dropped, whatever it is by now.
WithoutHead(i) == IF queue = {} THEN queue ELSE queue \ {Oldest(queue)}

\* Mutant: a delivered push stays queued.
WithoutNone(i) == queue

\* removeQueuedTrackalackerPush
Without(i) == queue \ {i}

\* Accepted and refused pushes leave the queue; any other answer ends this round.
Answered ==
  /\ drain.answer # "none"
  /\ drain' = Idle
  /\ queue' = IF drain.answer = "busy" THEN queue ELSE Without(drain.id)
  /\ gone' = IF drain.answer = "refused" THEN gone \cup {drain.id} ELSE gone
  /\ UNCHANGED <<runMode, calendar, push, flight, receipts, missions, active, entry, faults>>

\* The call times out or the worker dies; the request may still arrive.
GivesUp ==
  /\ Fault
  /\ drain # Idle
  /\ drain' = Idle
  /\ UNCHANGED <<runMode, calendar, push, queue, flight, receipts, missions, active, entry, gone>>

-----------------------------------------------------------------------------
(* The desktop handles a push in one turn of its loop.                     *)

\* The request is taken off the wire and answered, if the worker still waits.
Answer(i, answer) ==
  /\ i \in flight
  /\ flight' = flight \ {i}
  /\ drain' = IF drain.id = i THEN [drain EXCEPT !.answer = answer] ELSE drain
  /\ UNCHANGED <<push, queue>>

Record(i, decision, action) ==
  [journal EXCEPT ![i] = [decision |-> decision, action |-> action]]

\* persistSignalJournal after a change
Persist(j) == journal' = j /\ saved' = j

Distance(a, b) == IF a < b THEN b - a ELSE a - b

SameEvent(i, j) ==
  /\ push[i].product = push[j].product
  /\ i = j \/ Distance(push[i].seen, push[j].seen) < Window

\* Mutant: only a repeated id is a duplicate.
KnownById(i) == journal[i] # NoRecord

\* duplicateSignalRecord, duplicateSemanticRecord: a page that has disproved its
\* signal, and a signal that only confirmed another, do not hide later news.
Known(i) ==
  \/ journal[i] # NoRecord
  \/ \E j \in Received \ {i} :
       /\ journal[j] # NoRecord /\ SameEvent(i, j)
       /\ journal[j].decision # "corroborated"
       /\ journal[j] # [decision |-> "offer_mismatch", action |-> "cancelled"]

\* A mission of the listing is created when there is none.
Creates(i) == mode = "signals" /\ push[i].product \notin missions

\* planSignalRoute can reach "pending".
Routable(i) ==
  /\ mode = "signals"
  /\ ~CalendarOwned(push[i].product)
  /\ now - push[i].seen <= Fresh

Duplicate(i) ==
  /\ Known(i)
  /\ Answer(i, "ok")
  /\ Persist(journal)
  /\ UNCHANGED <<missions, active, entry, faults, gone>>

\* Not armed, no mission, stale, over its price, no strategy, notify only...
Decline(i) ==
  /\ ~Known(i)
  /\ Answer(i, "ok")
  /\ Persist(Record(i, "declined", "none"))
  /\ missions' \in {missions} \cup (IF Creates(i) THEN {missions \cup {push[i].product}} ELSE {})
  /\ UNCHANGED <<active, entry, faults, gone>>

\* activateMatchedSignal finds a live activation: nothing is opened.
Corroborate(i) ==
  /\ ~Known(i) /\ Routable(i) /\ active[push[i].product] # Nobody
  /\ Answer(i, "ok")
  /\ Persist(Record(i, "corroborated", "none"))
  /\ missions' = missions \cup {push[i].product}
  /\ UNCHANGED <<active, entry, faults, gone>>

Activates(i) ==
  /\ ~Known(i) /\ Routable(i) /\ active[push[i].product] = Nobody
  /\ active' = [active EXCEPT ![push[i].product] = i]
  /\ missions' = missions \cup {push[i].product}

\* The receipt is on disk, the mission activated, its page asked for.
Activate(i) ==
  /\ Activates(i)
  /\ Answer(i, "ok")
  /\ Persist(Record(i, "queued", "opening"))
  /\ entry' = [entry EXCEPT ![i] = [stage |-> "asked", epoch |-> epoch]]
  /\ UNCHANGED <<faults, gone>>

\* The second write of the journal fails: the request is refused, the mission stays
\* activated and no page is asked for.
ActivateStuck(i) ==
  /\ Fault
  /\ Activates(i)
  /\ Answer(i, "refused")
  /\ journal' = Record(i, "queued", "opening") /\ saved' = Record(i, "queued", "pending")
  /\ UNCHANGED <<entry, gone>>

\* previousJournal
Restored(i) == journal' = journal

\* The first write fails: everything is put back and the worker told to retry.
StoreFails(i) ==
  /\ Fault
  /\ ~Known(i) /\ Routable(i)
  /\ Answer(i, "busy")
  /\ Restored(i) /\ saved' = saved
  /\ UNCHANGED <<missions, active, entry, gone>>

Handle(i) ==
  /\ \/ Duplicate(i) \/ Decline(i) \/ Corroborate(i)
     \/ Activate(i) \/ ActivateStuck(i) \/ StoreFails(i)
  /\ UNCHANGED <<runMode, calendar>>

-----------------------------------------------------------------------------
(* What becomes of an activation.                                          *)

EntryOver(i) == entry' = [entry EXCEPT ![i].stage = "over"]

Failed(i) ==
  IF journal[i].decision = "offer_mismatch" THEN journal ELSE Record(i, "failed", "failed")

Opened(i) ==
  IF active[push[i].product] = i THEN [journal EXCEPT ![i].action = "opened"] ELSE journal

\* openProduct ends: cancelled by Stop, opened, or failed.
EntryEnds(i) ==
  /\ entry[i].stage = "asked"
  /\ EntryOver(i)
  /\ \/ entry[i].epoch # epoch /\ Persist([journal EXCEPT ![i].action = "cancelled"])
     \/ Persist(Opened(i))
     \/ Persist(Failed(i))
  /\ UNCHANGED <<runMode, calendar, worker, missions, active, faults, gone>>

\* cancelMatchedSignalActivation: the page disproves the signal.
Mismatch(p) ==
  /\ mode = "signals" /\ active[p] # Nobody
  /\ active' = [active EXCEPT ![p] = Nobody]
  /\ IF active[p] = Browser THEN UNCHANGED receipts
     ELSE Persist(Record(active[p], "offer_mismatch", "cancelled"))
  /\ UNCHANGED <<runMode, calendar, worker, missions, entry, faults, gone>>

\* SIGNAL_ACTIVATION_TTL_MS is over.
Expire(p) ==
  /\ active[p] # Nobody
  /\ active' = [active EXCEPT ![p] = Nobody]
  /\ UNCHANGED <<runMode, calendar, worker, receipts, missions, entry, faults, gone>>

\* handleBrowserSignalEvent: a page that is open anyway shows the offer.
BrowserSignal(p) ==
  /\ mode = "signals" /\ p \in missions /\ ~CalendarOwned(p)
  /\ active[p] = Nobody
  /\ active' = [active EXCEPT ![p] = Browser]
  /\ UNCHANGED <<runMode, calendar, worker, receipts, missions, entry, faults, gone>>

-----------------------------------------------------------------------------
(* Stop, changes of mode, and the desktop's own death.                     *)

\* clearSignalActivations
Cleared == [p \in Products |-> Nobody]

Operator ==
  /\ StopAll \/ \E m \in Modes : SaveMode(m)
  /\ active' = Cleared
  /\ UNCHANGED <<calendar, worker, receipts, missions, entry, faults, gone>>

OpenByHand == ResumeMonitoring /\ UNCHANGED <<calendar, signals>>

\* Nothing but the files survives; a request on its way is lost.
Reboot(disk) ==
  /\ journal' = disk /\ saved' = disk
  /\ active' = Cleared
  /\ entry' = [i \in Ids |-> IF entry[i].stage = "asked" THEN [entry[i] EXCEPT !.stage = "over"] ELSE entry[i]]
  /\ flight' = {}
  /\ drain' = IF drain # Idle /\ drain.answer = "none" THEN [drain EXCEPT !.answer = "busy"] ELSE drain
  /\ UNCHANGED <<push, queue, gone>>

Crash ==
  /\ Restart /\ CalendarRestart
  /\ Reboot(saved)
  /\ UNCHANGED <<missions, faults>>

\* It dies while it handles a push: the new mission may be on disk, and the receipt
\* too, without the activation that should follow.
HandlerCut(i) ==
  /\ i \in flight /\ ~Known(i) /\ Routable(i)
  /\ Restart /\ CalendarRestart
  /\ \E disk \in {saved, Record(i, "queued", "pending")} : Reboot(disk)
  /\ missions' = missions \cup {push[i].product}
  /\ UNCHANGED faults

\* The scheduler's own crash takes the rest of the desktop with it.
ScheduleCut(p) ==
  /\ FireCut(p)
  /\ Reboot(saved)
  /\ UNCHANGED <<missions, faults>>

Init == RunModeInit /\ CalendarInit /\ SignalsInit

Calendars ==
  /\ CalendarStep
  /\ \A p \in Products \ missions : openAt'[p] = NoTime
  /\ UNCHANGED signals

Next ==
  \/ Operator \/ OpenByHand \/ Crash
  \/ \E p \in Products : ScheduleCut(p)
  \/ Minute /\ UNCHANGED <<calendar, signals>>
  \/ Calendars
  \/ Send \/ Answered \/ GivesUp
  \/ \E p \in Products : Receive(p) \/ Mismatch(p) \/ Expire(p) \/ BrowserSignal(p)
  \/ \E i \in Received : Handle(i) \/ EntryEnds(i) \/ HandlerCut(i)

Spec == Init /\ [][Next]_vars

\* The scheduler's interval, the worker's config poll, which drains the queue, and
\* the desktop's request loop run again and again; calls are answered or time out.
FairSpec ==
  /\ Spec
  /\ \A p \in Products : WF_vars(Scheduler(p) /\ UNCHANGED signals)
  /\ WF_vars(Send) /\ WF_vars(Answered)
  /\ WF_vars(\E i \in Received : Handle(i))

-----------------------------------------------------------------------------
\* "Simultaneous sources corroborate one purchase flow instead of opening
\* duplicates" (README.md:227): pushes that tell the same news ask for one page,
\* unless the page itself has disproved the first of them; lost answers, failed
\* writes and crashes notwithstanding.
ActedOnce ==
  \A i, j \in Received :
    /\ i < j /\ SameEvent(i, j)
    /\ entry[i].stage # "none" /\ entry[j].stage # "none"
    => "offer_mismatch" \in {journal[i].decision, journal[j].decision}

\* No push is lost without a trace: it waits in the queue, the desktop has a receipt
\* on disk for it or for the same news, it was refused, or it fell out of the full
\* queue.
NothingLost ==
  \A i \in Received :
    \/ i \in queue \cup gone
    \/ \E j \in Received : saved[j] # NoRecord /\ SameEvent(i, j)

\* Every push leaves the queue.
QueueDrains == \A i \in Ids : i \in queue ~> i \notin queue
=============================================================================
