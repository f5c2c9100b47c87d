------------------------------ MODULE Enrollment ------------------------------
(***************************************************************************)
(* Connecting TrackaLacker push.  The operator asks in the desktop, which  *)
(* issues a nonce and opens the notification page in Chrome; the page, as  *)
(* soon as it reads the nonce in the companion's configuration, has the    *)
(* companion's worker subscribe and register its device; the worker posts  *)
(* its status, and the desktop waits 45 seconds for the status that        *)
(* settles its nonce.  An enrollment posts with the nonce of the           *)
(* configuration it acted on; a received push and every pass over the      *)
(* queue of received ones post the stored state, whatever produced it,     *)
(* with the nonce of the configuration at hand.  The worker's every read   *)
(* of the desktop applies the configuration to the stored state as well,   *)
(* and the browser may replace the subscription.                           *)
(* (main.js:309-363 and 2681-2740, extension/background.js:87-157,         *)
(* 207-334, 837-848, 1386-1722, extension/trackalacker-push.js)            *)
(***************************************************************************)
EXTENDS Naturals, FiniteSets

CONSTANTS
  MaxRequests,   \* requests of the operator; request n has nonce n
  MaxSubs,       \* push subscriptions the browser hands out
  MaxPosts,      \* statuses on their way at once
  MaxUpsets      \* times the setting is toggled, the page closed, the subscription
                 \* replaced, the worker restarted or an enrollment throws

ASSUME EnrollmentAssumption ==
  MaxRequests \in Nat /\ MaxSubs \in Nat /\ MaxPosts \in Nat /\ MaxUpsets \in Nat

VARIABLES
  desk,      \* the desktop: bridge setting, nonce, outcome, request awaited
  answers,   \* what each request of the operator was answered
  push,      \* the companion's stored state (chrome.storage.local)
  worker,    \* the worker's memory
  fetcher,      \* the TrackaLacker page: open, and the nonce it has handled
  posts,     \* statuses posted and not received
  sub,       \* the browser's present subscription (0: none), silent or visible, and the last
  registered, \* history: the last request made when a registration was last accepted
  reported,  \* history: requests whose nonce a report of the stored state said ready with
  upsets

enrollVars == <<desk, answers, push, worker, fetcher, posts, sub, registered, reported, upsets>>

NoOutcome == [nonce |-> 0, ready |-> FALSE]
Idle == [phase |-> "idle", nonce |-> 0, found |-> 0, moved |-> FALSE]
NoApply == [running |-> FALSE, nonce |-> 0, enabled |-> FALSE, state |-> "", ready |-> FALSE]
Asleep == [nonce |-> 0, opened |-> 0, attempt |-> Idle, apply |-> NoApply, owed |-> FALSE,
           passing |-> {}]   \* the nonce the pass over the queue was begun with

EnrollInit ==
  /\ desk = [enabled |-> TRUE, nonce |-> 0, made |-> 0, waits |-> 0,
             outcome |-> NoOutcome]
  /\ answers = [n \in 1 .. MaxRequests |-> "none"]
  /\ push = [enabled |-> FALSE, state |-> "disabled", ready |-> FALSE, fingerprint |-> 0]
  /\ worker = Asleep
  /\ fetcher = [open |-> FALSE, handled |-> 0]
  /\ posts = {}
  /\ sub \in {[id |-> 0, silent |-> TRUE, last |-> 0], [id |-> 1, silent |-> FALSE, last |-> 1]}
  /\ registered = 0 /\ reported = {}
  /\ upsets = 0

SaysReady(p) == p.state = "ready" /\ p.ready

\* Statuses travel in any order; a full channel loses the next one.  One that is no
\* outcome of its nonce only changes what the operator is shown (main.js:2712-2728).
Posted(nonce, p) ==
  LET outcome == [nonce |-> nonce, ready |-> SaysReady(p)]
  IN IF nonce # 0 /\ (outcome.ready \/ p.state = "error")
     THEN posts' \in {posts} \cup {s \in {posts \cup {outcome}} : Cardinality(s) <= MaxPosts}
     ELSE posts' = posts

Upset == upsets < MaxUpsets /\ upsets' = upsets + 1

-----------------------------------------------------------------------------
(* The desktop.                                                            *)

\* main.js:331-348 and 364-372: a request while one is awaited joins it.
Ask(chrome) ==
  /\ desk.enabled /\ desk.waits = 0 /\ desk.made < MaxRequests
  /\ LET n == desk.made + 1
     IN /\ desk' = [desk EXCEPT !.made = n, !.outcome = NoOutcome,
                                !.nonce = IF chrome THEN n ELSE 0,
                                !.waits = IF chrome THEN n ELSE 0]
        /\ answers' = [answers EXCEPT ![n] = IF chrome THEN "open" ELSE "failed"]
  /\ fetcher' = IF chrome /\ ~fetcher.open THEN [open |-> TRUE, handled |-> 0] ELSE fetcher
  /\ UNCHANGED <<push, worker, posts, sub, registered, reported, upsets>>

Replied(n, how) ==
  /\ answers' = [answers EXCEPT ![n] = how]
  /\ UNCHANGED <<push, worker, fetcher, posts, sub, registered, reported, upsets>>

Observe ==
  /\ desk.waits # 0 /\ desk.outcome.nonce = desk.waits
  /\ Replied(desk.waits, IF desk.outcome.ready THEN "ready" ELSE "failed")
  /\ desk' = [desk EXCEPT !.waits = 0, !.outcome = NoOutcome]

GiveUp ==
  /\ desk.waits # 0 /\ desk.outcome.nonce # desk.waits
  /\ Replied(desk.waits, "timeout")
  /\ desk' = [desk EXCEPT !.waits = 0, !.outcome = NoOutcome,
                          !.nonce = IF @ = desk.waits THEN 0 ELSE @]

\* main.js:2709-2711 and 2724-2728: a request is settled by a status of its own.
Settles(status) == status.nonce = desk.nonce

PushStatus(status) ==
  /\ status \in posts
  /\ posts' = posts \ {status}
  /\ desk' = IF Settles(status) THEN [desk EXCEPT !.nonce = 0, !.outcome = status] ELSE desk
  /\ UNCHANGED <<answers, push, worker, fetcher, sub, registered, reported, upsets>>

Toggle ==
  /\ Upset
  /\ desk' = [desk EXCEPT !.enabled = ~@]
  /\ UNCHANGED <<answers, push, worker, fetcher, posts, sub, registered, reported>>

-----------------------------------------------------------------------------
(* The worker applies the configuration it reads.                          *)

FreshRequest == desk.nonce \notin {0, worker.nonce}

\* An explicit request is never answered from the state of an earlier one.
AppliedReady == desk.enabled /\ desk.nonce = 0 /\ push.ready /\ push.fingerprint # 0

AppliedState ==
  CASE ~desk.enabled -> "disabled"
    [] desk.enabled /\ desk.nonce # 0 ->
         IF ~FreshRequest /\ push.state \in {"subscribing", "registering", "error"}
         THEN push.state ELSE "awaiting-page"
    [] desk.enabled /\ desk.nonce = 0 ->
         IF AppliedReady THEN "ready" ELSE IF push.state = "error" THEN "error" ELSE "awaiting-page"

\* background.js:1104-1132 and 298-324: the configuration is cached, and applied by
\* one task at a time, which reads the stored state before it queues the update that
\* rests on it.
Discover ==
  /\ ~worker.apply.running
  /\ worker' = [worker EXCEPT !.nonce = desk.nonce,
       !.apply = [running |-> TRUE, nonce |-> desk.nonce, enabled |-> desk.enabled,
                  state |-> AppliedState, ready |-> AppliedReady]]
  /\ UNCHANGED <<desk, answers, push, fetcher, posts, sub, registered, reported, upsets>>

ApplyWrites ==
  LET a == worker.apply
      opens == a.enabled /\ a.nonce # 0 /\ a.nonce # worker.opened
  IN /\ a.running
     /\ push' = [push EXCEPT !.enabled = a.enabled, !.state = a.state, !.ready = a.ready]
     /\ Posted(a.nonce, push')
     /\ worker' = [worker EXCEPT !.apply = NoApply, !.opened = IF opens THEN a.nonce ELSE @]
     /\ fetcher' = IF opens /\ ~fetcher.open THEN [open |-> TRUE, handled |-> 0] ELSE fetcher
     /\ UNCHANGED <<desk, answers, sub, registered, reported, upsets>>

-----------------------------------------------------------------------------
(* The page and the enrollment.                                            *)

\* background.js:1625-1627: a call while an enrollment is in flight shares it.
Begun(w) == IF w.attempt.phase = "idle" THEN [w EXCEPT !.attempt.phase = "begin"] ELSE w

\* trackalacker-ingest.js:782-797: once for each nonce the page reads.
PageReady ==
  /\ fetcher.open /\ desk.enabled /\ desk.nonce \notin {0, fetcher.handled}
  /\ fetcher' = [fetcher EXCEPT !.handled = desk.nonce]
  /\ worker' = Begun(worker)
  /\ UNCHANGED <<desk, answers, push, posts, sub, registered, reported, upsets>>

PageCloses ==
  /\ Upset
  /\ fetcher.open
  /\ fetcher' = [open |-> FALSE, handled |-> 0]
  /\ UNCHANGED <<desk, answers, push, worker, posts, sub, registered, reported>>

\* An update of the stored state, its forced post, and what the attempt does next.
Records(changes, nonce, attempt) ==
  /\ push' = changes
  /\ Posted(nonce, push')
  /\ worker' = [worker EXCEPT !.attempt = attempt]

Rejected == [push EXCEPT !.state = "error", !.ready = FALSE]

Begin ==
  /\ worker.attempt.phase = "begin"
  /\ IF desk.enabled
     THEN Records([push EXCEPT !.enabled = TRUE, !.state = "subscribing", !.ready = FALSE],
                  desk.nonce,
                  [worker.attempt EXCEPT !.phase = "subscribe", !.nonce = desk.nonce])
     ELSE Records([push EXCEPT !.enabled = FALSE, !.state = "disabled", !.ready = FALSE],
                  desk.nonce, Idle)
  /\ UNCHANGED <<desk, answers, fetcher, sub, registered, reported, upsets>>

\* trackalacker-push.js:124-193: a silent subscription is kept, a visible one is
\* given up for a silent one, restored when the browser refuses, or lost.
NewSub(silent) == [id |-> sub.last + 1, silent |-> silent, last |-> sub.last + 1]

NoSub == [sub EXCEPT !.id = 0, !.silent = TRUE]

Subscribe ==
  LET a == worker.attempt
      keeps == sub.id # 0 /\ sub.silent
      found(s) == /\ worker' = [worker EXCEPT !.attempt =
                       [a EXCEPT !.phase = "found", !.found = s.id,
                                 !.moved = sub.id \notin {0, s.id}]]
                  /\ sub' = s
                  /\ UNCHANGED <<push, posts>>
  IN /\ a.phase = "subscribe"
     /\ \/ keeps /\ found(sub)
        \/ /\ ~keeps /\ sub.last < MaxSubs
           /\ \E silent \in {TRUE, sub.id = 0} : found(NewSub(silent))
        \/ Records(Rejected, a.nonce, Idle) /\ sub' \in {sub, IF keeps THEN sub ELSE NoSub}
     /\ UNCHANGED <<desk, answers, fetcher, registered, reported, upsets>>

RestsOnAny(a) == ~a.moved /\ push.fingerprint = a.found

\* background.js:1514-1516: only an attempt nobody asked for may rest on what was
\* registered before.
RestsOn(a) == a.nonce = 0 /\ ~a.moved /\ push.fingerprint = a.found

Found ==
  LET a == worker.attempt
  IN /\ a.phase = "found"
     /\ IF RestsOn(a)
        THEN Records([push EXCEPT !.state = "ready", !.ready = TRUE], a.nonce, Idle)
        ELSE \/ Records([push EXCEPT !.state = "registering", !.ready = FALSE], a.nonce,
                        [a EXCEPT !.phase = "register"])
             \/ Records(Rejected, a.nonce, Idle)
     /\ UNCHANGED <<desk, answers, fetcher, sub, registered, reported, upsets>>

\* The signed-in page's own request, to move the old endpoint or to register the
\* new one (trackalacker-push.js:278-387).  Its answer may be lost.
Register(accepted, heard) ==
  LET a == worker.attempt
  IN /\ a.phase = "register" /\ (heard => accepted)
     /\ registered' = IF accepted THEN desk.made ELSE registered
     /\ worker' = [worker EXCEPT !.attempt.phase = IF heard THEN "accepted" ELSE "refused"]
     /\ UNCHANGED <<desk, answers, push, fetcher, posts, sub, reported, upsets>>

Registers ==
  LET a == worker.attempt
  IN /\ \/ /\ a.phase = "accepted"
           /\ Records([push EXCEPT !.state = "ready", !.ready = TRUE, !.fingerprint = a.found],
                      a.nonce, Idle)
        \/ a.phase = "refused" /\ Records(Rejected, a.nonce, Idle)
     /\ UNCHANGED <<desk, answers, fetcher, sub, registered, reported, upsets>>

\* background.js:1629-1638: an exception, posted with whatever nonce is cached.
Throws ==
  /\ Upset
  /\ worker.attempt.phase # "idle"
  /\ Records(Rejected, worker.nonce, Idle)
  /\ UNCHANGED <<desk, answers, fetcher, sub, registered, reported>>

-----------------------------------------------------------------------------
(* Reports of the stored state, whatever produced it.                      *)

\* The nonce of the configuration at hand, the cached one or one just read; a report
\* without a nonce is no outcome.
AtHand == {worker.nonce, desk.nonce} \ {0}

Reports(nonce) ==
  /\ Posted(nonce, push)
  /\ reported' = IF SaysReady(push) THEN reported \cup {nonce} ELSE reported
  /\ UNCHANGED <<desk, answers, push, fetcher, sub, registered, upsets>>

\* background.js:1651-1696: a push is received.
PushEvent ==
  /\ push.enabled /\ sub.id # 0
  /\ \E nonce \in AtHand : Reports(nonce)
  /\ UNCHANGED worker

\* background.js:1386-1390: after a push, an alarm and every configuration applied the
\* worker goes over the queue of received pushes, one pass at a time.
DrainBegins ==
  /\ push.enabled /\ worker.passing = {}
  /\ \E nonce \in AtHand : worker' = [worker EXCEPT !.passing = {nonce}]
  /\ UNCHANGED <<desk, answers, push, fetcher, posts, sub, registered, reported, upsets>>

\* background.js:1426-1427: what is stored at its end, with the nonce of its beginning.
DrainEnds ==
  /\ \E nonce \in worker.passing : Reports(nonce)
  /\ worker' = [worker EXCEPT !.passing = {}]

-----------------------------------------------------------------------------
(* The browser.                                                            *)

\* background.js:1705-1722: the subscription has been replaced or withdrawn.
SubscriptionChange(s) ==
  /\ Upset
  /\ sub.id # 0
  /\ sub' = s
  /\ push' = [push EXCEPT !.fingerprint = 0, !.ready = FALSE,
                !.state = IF push.enabled THEN "awaiting-page" ELSE "disabled"]
  /\ Posted(worker.nonce, push')
  /\ worker' = [worker EXCEPT !.owed = push.enabled]
  /\ UNCHANGED <<desk, answers, fetcher, registered, reported>>

Reenroll ==
  /\ worker.owed
  /\ worker' = [(IF fetcher.open THEN Begun(worker) ELSE worker) EXCEPT !.owed = FALSE]
  /\ UNCHANGED <<desk, answers, push, fetcher, posts, sub, registered, reported, upsets>>

\* background.js:2544-2570: the worker starts anew and compares what it has.
WorkerStart ==
  LET same == sub.id # 0 /\ sub.silent /\ push.fingerprint = sub.id
  IN /\ Upset
     /\ worker' = Asleep
     /\ push' = [push EXCEPT !.ready = same,
                   !.state = IF ~push.enabled THEN "disabled"
                             ELSE IF same THEN "ready" ELSE "awaiting-page"]
     /\ UNCHANGED <<desk, answers, fetcher, posts, sub, registered, reported>>

EnrollNext ==
  \/ \E chrome \in BOOLEAN : Ask(chrome)
  \/ Observe \/ GiveUp \/ Toggle
  \/ \E status \in posts : PushStatus(status)
  \/ Discover \/ ApplyWrites
  \/ PageReady \/ PageCloses
  \/ Begin \/ Subscribe \/ Found \/ Registers \/ Throws
  \/ \E accepted, heard \in BOOLEAN : Register(accepted, heard)
  \/ \E s \in {NoSub} \cup (IF sub.last < MaxSubs THEN {NewSub(sub.silent)} ELSE {}) :
       SubscriptionChange(s)
  \/ PushEvent \/ DrainBegins \/ DrainEnds
  \/ Reenroll \/ WorkerStart

EnrollSpec == EnrollInit /\ [][EnrollNext]_enrollVars

-----------------------------------------------------------------------------
\* The operator is told that push is connected only when this device was registered
\* after the request was made, or a report of the stored state said so with its nonce:
\* neither an earlier registration that TrackaLacker may have forgotten, nor a status
\* that was on its way, nor an enrollment the request happens to share, nor one that
\* threw confirms it (main.js:2709-2735, background.js:1512-1516).
ConfirmedIsRegistered ==
  \A n \in 1 .. MaxRequests :
    answers[n] = "ready" => n \in reported \/ registered >= n
=============================================================================
