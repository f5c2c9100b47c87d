# Cart Confirm Desktop in TLA+

Cart Confirm is an Electron desktop application with a companion Chrome
extension. The desktop keeps the operator's missions (a store option of a wanted
item with a price cap and an action: watch, add to cart, stop at the final
review, or submit the order), reads public product pages in the background,
listens to restock signals, opens store pages, and arms or stops automation. The
extension's content script walks the store's pages; its service worker owns the
durable state that decides which tab may touch which cart. This directory holds
TLA+ modules of that decision-making, the TLC configurations that check them on
small instances, and TLAPS proofs for every value of the constants.

Run everything from this directory:

    tlc -workers 2 -config MCFlowStore.cfg MCFlow      # one run
    tlc -workers 2 -config MCQuiet.cfg QuietMonitor
    tlapm QuietMonitor_proofs.tla                       # the proofs of a module

`PROJECT.json` lists runs, mutants, theorems, findings and hazards, and maps each
definition to the source lines it translates.

## 1. The system

### 1.1 Components

| Component | State | Operations | Hard behaviour | What makes it correct | Modelled in |
|---|---|---|---|---|---|
| Automation state (`extension/automation-state.js`) | one stored object: locks per product, store and item; the Add, the submission and the workflow of each product; completed products and items | claim, release, begin/authorize/mark Add, begin/mark submission, review hand-off, resolution, completion, normalisation on every read | leases that lapse, holds that must not, combined lanes, records of an earlier run | exclusive Adds and submissions; holds while an outcome is open; completed missions sealed | `AutomationState` |
| Service worker (`extension/background.js`) | the stored object and a promise queue around it; cached configuration | one handler per message | configuration fetched before the queue is entered; a claim that succeeds before a step that fails | the same, for any messages in any order | `PurchaseLane` |
| Content script (`extension/content.js`) | the page it is on, what it awaits, timers | product, cart, checkout, confirmation pages | awaits around every click, reloads, lost replies, stale views of the state | one unit, one order; nothing in a cart that the state does not account for | `PurchaseFlow`, `BuyOnce` |
| Order review (`extension/safety.js`, `evidence.js`, `offer-policy.js`, `content.js`) | the proofs a cart page left, the lines read, the intent | cart proof, first and second review, grant, click | the page changes between reading and clicking; hidden or multiplied prices; a combined batch | what is ordered is within its caps and nothing else | `Review` |
| Traffic governor (`extension/traffic.js`, `background.js`, retry timers of `content.js`) | a store's reservations, cool-down and last navigation; a page's timer and reservation | reserve, cancel, revalidate, overload, observe an opening | timers that fire late or can no longer be cleared, overloads between reservation and use, late cancellations | slots apart, none used in a cool-down, none taken from the page that waits for it | `Traffic` |
| Action budget (`lib/action-budget.js`, `lib/quiet-read-budget.js`, `main.js`) | two ledgers and a deadline per store, persisted | use, rest, restart | the edge of the rolling hour, truncation on a restart | never above the ceiling, refused only at it, the right time named | `Budgets` |
| Openings (`lib/open-requests.js`, `lib/store-open-queue.js`, `extension/open-request-tabs.js`, `main.js`) | tasks, offers to the companion, a queue per store, epochs; Chrome's tabs | open, sweep, claim, fall back, navigate, Stop | a claim racing the fallback; Stop at every await; a worker that dies; two missions and one tab | each page opened once or dropped, none after Stop | `Openings`, `OpenOnce` |
| Quiet monitor (`lib/quiet-monitor*.js`, `main.js`) | deadlines, tokens, failures, quarantines, cool-downs | start, finish, fail, pause, reset | late results, aborted reads, failing pages, starvation | cadence across restarts, one read at a time, a store left alone, no product starved | `QuietMonitor` |
| Schedules (`lib/schedule.js`, `main.js`) | open times in one file, receipts in another | fire, miss, end | a crash between the two files | fired once, never left | `Calendar`, `RunMode` |
| Signals and pushes (`lib/signal-*.js`, `lib/trackalacker-signal-service.js`, `extension/trackalacker-push.js`) | bounded queue in Chrome, journal and activations in the desktop | receive, queue, send, deduplicate, activate, expire | at-least-once delivery, failing writes, a full queue, restarts | acted on once, lost only by overflow | `Signals` |
| Push enrollment (`main.js`, `extension/background.js`) | nonce, subscription, status of each side | ask, subscribe, register, report | statuses of earlier requests, shared enrollments, a browser that replaces the subscription | "connected" means registered since it was asked | `Enrollment` |
| Discord (`lib/discord-*.js`, `main.js`) | token, channel, cursor, signals | connect, forget, poll | restarts and clicks between a fetch and its writes | nothing skipped, history quiet, a removed token stays removed | `Discord` |
| Followed-products scan (`lib/trackalacker-import.js`, `extension/trackalacker-ingest.js`) | the scan, its staging, the collection | start, claim, capture, checkpoint, complete, cancel, expire | two tabs, restarts, lost captures | the collection is replaced by whole scans only | `Scan` |
| Catalog Inbox (`lib/catalog.js`, `extension/content.js`) | search, listed cards, selection | search, report, select, add | a report that arrives after another search | results belong to the search that lists them | `Catalog` |
| Item plan and purchase mode (`lib/core.js`, `main.js`, `src/renderer.js`) | settings; the window's snapshot, timers, undo list | save, arm, stop, undo, import, approve | saves and replies that overtake each other | Stop holds, an armed plan is frozen, approvals fit their contract | `Plan` |
| App update (`lib/app-update.js`, `main.js`, `extension/update-state.js`) | discovery, offer, job, versions | check, approve, download, install, reload | two clicks, a timer beside the installation, a folder left as it was | the installation is undisturbed, one reload | `Update` |
| Combined order (`lib/core.js`, `extension/content.js`) | members of a store's batch | gate, captain's checkout, member completion | one lock for several missions | exclusion inside the batch | lane in `AutomationState`, cart in `Review`; the gate is not |
| Run mode (`main.js`) | mode, epoch, run id | arm, stop, resume, restart | work begun before a Stop | every path looks at it | `RunMode`, `PurchaseLane`, `Plan`, `Openings` |
| State file (`lib/runtime-state.js`) | what outlives a restart | load, save | a crash between two writes | per component | in the modules above |
| Queue fan-out, tab context, price research, short links, text imports, adapters, start-up, rendering | various | parsing, DOM, network, forms | | | not modelled (section 6) |

### 1.2 How they interact

A tab's content script fetches the configuration (armed, run id, missions) and
the state of its mission from the worker, judges the page, and calls the worker
before and after each click. A handler of the worker first awaits the desktop's
configuration, then enters a queue (`withAutomationStateLock`) in which it reads
the stored object, normalises it for the run of *its* configuration, applies one
operation, and writes it back. Between the tab's call and the reply anything else
may happen: other tabs, Stop, a new run, a lapsed lease, a reload of the tab.

A mission that adds to the cart goes

    prepare (claim + reserve) -> authorize -> CLICK -> clicked -> cart page -> confirmed
      -> complete                                    (add to cart only)
      -> claim -> review -> hand-off -> the operator  (stop at final review)
      -> claim -> review -> intent -> CLICK -> submitted -> confirmation page -> complete

A lock is either a 15-second lease (before the Add click) or a permanent hold
(after it). Holds are not trusted as stored: every read derives them again from
the records of the products (`normalizeState`).

The desktop and the companion share no memory. The worker polls the desktop's
local server for its configuration, which carries open requests, the Catalog
search, the scan and the push enrollment; it posts claims, events, captures,
pushes and statuses back. Each side may start again at any time, an answer may be
lost after the request was carried out, and only the desktop's files and Chrome's
storage survive. Inside the desktop everything that opens a page (the operator,
sweeps, calendar, signals, quiet reads) passes the run mode with its epoch, the
store's queue and the action budget.

### 1.3 Hazards

`PROJECT.json` lists them with their lines. The ones the models are built around:
the click that precedes its receipt; a lease that lapses under a working tab; two
tabs on one mission; two missions on one store or one item; a prepare that fails
half-way; a handler with an older configuration; a cart that changed behind the
tab's back; a page that changes between its review and the click; a retry that is
under way when its page stops needing it; a claim that races the fallback timer;
Stop between any two awaits; a read that answers after the schedule forgot it; a
store whose products fail together; a crash between two files; a push that is
delivered twice or whose write fails; saves that overtake each other; a status or
a report that belongs to an earlier request.

## 2. The modules

| Module | Role |
|---|---|
| `AutomationState` | the library as pure operators: a guard `Can...` and an effect per operation, on one record |
| `PurchaseLane` | the service worker: one action per message handler, the desktop's arm and stop, the lapse of a lease; any tab may send any message at any time |
| `PurchaseFlow` | the tabs' page flows composed with `PurchaseLane` and with the store (cart, orders) and the operator |
| `BuyOnce` | what the operator is promised, seen from the store only; `PurchaseFlow` implements it |
| `Review` | the cart proof, both reviews and the click, against a page that changes; one mission or a combined batch |
| `Traffic` | the traffic governor of one store with the retries of its pages |
| `Budgets` | the rolling ledgers of store actions and quiet reads |
| `RunMode` | the run mode and its epoch, which `Calendar` and `Signals` extend |
| `Calendar`, `Signals` | open times and their two files; pushes from Chrome's queue to an activation, composed with the calendar |
| `Openings` | the desktop's openings, the companion's claim and its tabs |
| `OpenOnce` | what an opening promises; `Openings` implements it |
| `QuietMonitor` | the background reads of one store |
| `Plan`, `Catalog`, `Update`, `Enrollment` | what the operator works with |
| `Discord`, `Scan` | the Discord poll, the scan of followed products |
| `MCLane`, `MCStore`, `MCFlow`, `MCDesk`, `MCBridge` | instances for TLC; `MCStore`, `MCDesk` and `MCBridge` run several independent modules, one moving in each behaviour, so that the state space is their sum |
| `PurchaseLane_proofs`, `Traffic_proofs`, `QuietMonitor_proofs`, `Openings_proofs`, `Desk_proofs`, `Signals_proofs`, `Bridge_proofs`, `PurchaseFlow_proofs` | the inductive invariants and theorems of section 5; `Desk_proofs` is about `Plan`, `Review`, `Catalog`, `Update` and `Enrollment`, `Signals_proofs` about `Calendar` and `Signals`, `Bridge_proofs` about `Discord`, `Scan` and `Budgets`, `PurchaseFlow_proofs` about `PurchaseFlow` |

### 2.1 AutomationState

The record `st` has the fields of the stored object: `run` (runId), `locks`
(keyed by `<<"product", p>>`, `<<"store", r>>`, `<<"item", i>>`), `add`
(addAction), `sub` (submission), `wf` (workflow), `done` (completed), `itemDone`
(completedItems). A lock is `[pid, owner, hold, members, claim]`; `members # {}`
is the code's `combined: true`, `Free` an absent key.

Abstractions:

* Time. `expiresAt` is replaced by `hold` (`Number.MAX_SAFE_INTEGER`) and by
  `Lapse(s, p)`: what the first read after the lease of `p` ran out does to its
  non-held locks and its reservation. All the locks of a product and its
  reservation are renewed together, so one instant per product is enough. A lease
  may lapse at any moment.
* Attempt counters, attempt history, Target persistence counters and the offer
  proof are left out: no lock or phase depends on them, except that an
  authorization may be refused on the offer, which `AuthorizeAdd` lets happen.
* `EnsuredLock` gives the outcome of calling `ensureHeldLock` for each product in
  turn; the outcome is the same in every order.
* Stored objects of version 1 (migration to `legacy-outcome-unknown`) are not
  initial states.

### 2.2 PurchaseLane

`config` is what the desktop answers now and `served` everything it has answered;
a handler's `c \in served` is the configuration it fetched before it entered the
queue, which may be out of date. `Read(c)` is `readAutomationState`: the stored
record normalised for `c.run`, so a configuration of another run resets it. `Handle` writes the result. `ClaimOutcome`
includes `healStrandedCartHold`, `PrepareOutcome` the release when the
reservation fails after the claim, `AuthorizeOutcome` the cancellation on a bad
offer. `ResolveKnownNoOrder` is the popup's and requires automation to be off.

Members are the combined order's members; the worker recomputes them on every
read, the model keeps them constant.

### 2.3 PurchaseFlow

`page[t]` is where tab `t` is (between two awaits), `call[t]` what it awaits
together with the configuration the worker fetched for it, `units` and `orders`
what the store really holds for the run, `abandoned` what the operator gave up.
Every page action names the part of `content.js` it stands for in the map. The
worker's part of a call (`Handled`) and its loss (`Failed`) are separate from the
call, so every other actor can act in between. A handled call may still go
unanswered (`heard`): the page then takes the refused path of a call that was granted. Guards on the state use `Now`, the
state as the next handler will see it; a page that acted on an older reading is
covered by the calls being checked again in the worker and by `Reload`, which may
move a tab to any page at any time.

Not modelled: queue pages, sign-in and security pages, raising the quantity,
retry timers and traffic budget (a refusal is `Withdraw`), the batch walk of a
combined checkout.

Assumptions about the surroundings:

* `ClickAdd` adds one unit or silently none.
* A fully loaded cart page without the line (`AskFailed`) tells the truth about the
  cart; it says nothing of an order placed by hand. Nothing of the kind is assumed of
  the other two ways in which the code learns that an Add failed: a dismissible error
  on Target's product page (`AskRejectedAdd`, `content.js:866`) and out-of-stock words
  anywhere on Target's cart page (`AskStoreError`, `content.js:1785`, which comes
  before the lines are read and before the mission's own state). Either may be shown
  at any time, whatever the cart holds.
* `OperatorResolves`: the operator states that no order exists only when none
  does, and clears the line.
* `ArmRun`: automation is armed again when no tab has a call outstanding or is
  about to click.
* The store may drop a line from the cart at any time (`CartDrops`).

`misread` is history: the missions of this run that were reported as not added although
a unit was in the cart or an order had been placed by hand (`ReportFailed`). The code
believes such a page and loses the receipt, so `ReceiptCoversStore` and `NoDuplicateAdd`
say nothing of these missions, `NoDuplicateOrder` nothing of those of them that are
ordered by hand, and `FlowBuysOnce` is the promise up to the first of them. No guard
reads `misread`. `CartProvesAbsence` is what the documents promise instead; section 4
says how the code breaks it.

`Faults` opens the windows that the passing runs keep closed:
`"receipt-lost"` (tab, worker or desktop lost between the Add click and its
receipt) and `"lease-short"` (the lease lapses between authorization and receipt).
Both are real behaviours of the code; section 4 says what it does.

### 2.4 Traffic

`traffic` is one store's entry of the stored state, with the reservations
(`slots`) kept per owner because a new one replaces the owner's old one
(`traffic.js:78`). `retries` holds every invocation of `scheduleRetry` that is
under way, each with the step it has reached; `handle` and `slot` are the page's
`retryTimer` and `retryReservationId`, which may be those of another invocation:
scans of a page are serialised (`Scanning`), but the continuation of a fired timer
is not one of them, so a page can have two retries under way and forget the first
one's timer. `holds` records that a retry's slot has not been given up or replaced
by its own page; no guard reads it. `drops` counts the runs for which the
reservations were cleared; only the properties and a bound read it.

Each handler of the worker holds the traffic lock from its read to its write, so
it is one action, guarded by `asking = NoAsk`. `revalidateNavigation` alone keeps
the lock over an await (the desktop's budget), hence `asking` and `Answer`. A
handler's configuration may be of an earlier run (`Served`), in which case it
clears the reservations (`ReadTraffic`). The page acts on an answer in the step that
gives it: a slow answer is the same as a slow request, since nothing else reads
the state in between. `ArmRetry` is separate because the page reports the retry to the
desktop between the answer and the timer and can be told to withdraw it there.

Not modelled: how long a cool-down lasts (`Cooldowns` is any set of lengths), the
Target overload bypass, the budget's arithmetic, the pause of a watcher after a
refused budget (`Schedule` may follow at any time), and the deduplication of
overloads (a deduplicated one changes nothing).

### 2.5 Review

The page is a record of what it would show at this instant (cart lines, unit
prices, quantities, how a price is displayed, seller, account, flags for what it
hides); the script reads it in parts, and `PageChanges` may alter it between any
two of them. `still` says that the page did not change from the second reading to
the click, which no program on the page's side can exclude; `seen` which prices
were within the cap while the script read them. The combined review takes
quantities from the configuration, as the code does. One account is enough in the
run: no property depends on which one it is.

Not modelled: words and sellers of the offer policy beyond their verdict, how
evidence is fingerprinted.

### 2.6 Budgets

A ledger is the sequence of the instants of the uses granted. `Consume` is
`consumeStoreAction` and `consumeQuietRead`, `Deadline` what their callers pass
(nothing for Target's persistence steps), `BudgetRestart` the normalisation of
`lib/runtime-state.js`. The clock is never set back: the code would forget the
uses of the future; and a ledger is therefore sorted as it is. `granted` is history.

### 2.7 Openings and OpenOnce

A task is one call that opens a page: queued behind its store, waiting for its
spacing, offered to the companion, or opened by the desktop itself. `chrome` is
what the worker has claimed and not yet done; `tab` what each tab of Chrome shows.
Every await of `openProduct`, `openAll` and of the worker's `handleOpenRequest` is
between two actions, and at each of them Stop, an overload, the worker's death or
the desktop's crash may come. `opens` counts pages shown for a task and is read by
the refinement only: `RequestsOpenOnce` is `OpenOnce!Spec` under the mapping
`accepted <- Tasks`, `dropped <-` the dropped ones.
`choice` is the tab an opening means to reuse; `TabMoves` takes it away from whoever
chose a tab that is closed, because Chrome never gives a tab's id to another tab and
the worker then opens a new one.

Not modelled: Walmart and Amazon entry pages, a tab moved by hand from one
mission's page to another's, the mission's own tab that moved on to its cart while
the worker awaited its claim (the code navigates over it).

### 2.8 QuietMonitor

One tick is the start gap. `due` counts down to an entry's `dueAt` and may be in
the past; `wire` is what is really in flight, `reading` and `counter` what the
schedule believes, `late` the reads of before a Stop. Every run of the dispatcher
reconciles the entries first, so that `Candidates` and the next deadlines are
computed over `Entries`. Failures count up to a quarantine, and distinct products
failing within a window pause the store; both are modelled with the abort of the
other reads. `asked` is history: how long the store still asked to be left alone.

Not modelled: the verdict on a readable page and the opening it may lead to, the
desktop's limit of four reads (two stores with two reads each cannot exceed it).

### 2.9 RunMode, Calendar, Signals

`RunMode` is extended, not instantiated: its actions are conjoined with what the
calendar and the signals do in the same step. `Calendar` keeps receipts and open
times apart because they are in two files, with `FireCut` the crash between the
writes. `Signals` keeps what is on disk (`saved`) apart from what is in memory
(`journal`), and the queue in Chrome apart from both. A push's id is its place in
the order of reception, so that the queue is a set of ids and its head (`Oldest`) the
least of them. The bridge to the desktop is
enabled and not paused.

Not modelled: journal retention (2000 entries, 30 days), two failed writes of one
receipt, strategies and rule matching beyond their verdict; the time at which an
activation expires (it may expire at any time).

### 2.10 Plan, Catalog, Update, Enrollment

`Plan` has the desktop's settings, the window's last snapshot and the calls and
replies between them, each a queue, since every save carries a whole plan and the
mode the window believed in. Normalisation of fields is left out; a mission's
purchase fields are one value (its contract). The operator waits for a change of
mode to be answered before the next click, except for Stop.

`Catalog`: reports overtake each other; a report is remembered before it is sent,
so a refused or lost one is not repeated (`Capture`, `ReportLost`). A page's
address and its results change together.

`Update`: the dashboard renders messages in order and is at most `MaxUnread`
behind; each request to install goes through its dialog, its download and its
checksum; an older version may be put back with or without the
companion's folder (`Rollback`), an installation may leave the folder as it was, and
replacing the desktop takes longer than a reload that has begun.

`Update` shows of a request that fails the offer it knows or else the version the
request was made for (`ShownVersion`).

`Enrollment`: a request is its nonce. An enrollment posts with the nonce of the
configuration it acted on, the application of a configuration with that
configuration's, an exception and a changed subscription with the cached one's. A
received push (`PushEvent`) and a pass over the queue of received pushes (`DrainBegins`,
`DrainEnds`) change nothing and post the stored state as they find it, with the nonce of
the configuration at hand; `reported` is history and keeps the requests whose nonce such
a report said ready with. Of the statuses only those that can be an outcome travel.

### 2.11 Discord and Scan

Both keep memory and file apart and let the process end between two writes.
`Discord`'s messages are recognised restock signals in the order they were posted. A
fetch with a cursor answers with the page behind it, one without a cursor with the newest
page (`First`, `LastFetched`). Recorded signals leave the inbox when the operator clears
it or too many come (`SignalsGone`), and with them the memory of what was recorded.
`before`, `acted`, `behind` and `forgotten` are history. `Scan`'s items carry the scan that captured
them, so that the property can tell; two looks of one tab may run the scan twice.

## 3. The runs

| Run | Module, instance | Shows |
|---|---|---|
| `store` | `MCStore`: `PurchaseLane` with two members of a combined order, 2 tabs, 1 run; `Traffic` with two tabs, two intervals, two retries, a change of run | `SubmitExclusive` under every message order; `SlotsSpaced`, `CooldownRespected`, `WaitersKeepTheirSlot` |
| `flow_store` | `MCFlow`: checkout and cart mission in one store, a tab each | `ReceiptCoversStore`, `NoOrphanedHold`, `NoConflict` |
| `flow_item` | `MCFlow`: one item in two stores (review, checkout), a tab each | `ItemSecuredOnce`, `ProductSealed`, `RivalExcluded`, and the refinement `FlowBuysOnce` of `BuyOnce` |
| `flow_tabs` | `MCFlow`: one checkout mission, two tabs, 2 runs | `NoDuplicateAdd`, `NoDuplicateOrder` |
| `receipt_lost` | `flow_tabs` with `receipt-lost` and `lease-short` | `NoDuplicateAdd` is violated |
| `store_error` | `flow_tabs` with one run | `CartProvesAbsence` is violated |
| `combined_add` | `MCLane`: the lane of `store` | `ClaimedMayAdd` is violated |
| `openings` | `Openings`: two missions, three tabs, two openings, one Stop, one fault | `RequestsOpenOnce` (refinement of `OpenOnce`), `StopIsABoundary`, `MissionTabsKept`, `EveryOpeningSettles` (liveness) |
| `quiet` | `QuietMonitor`: two products, one read at a time, one Stop, two faults | `LimitKept`, `CadenceKept`, `StoreLeftAlone`, `NoneStarves` (liveness) |
| `signals` | `Signals`: one mission, two pushes, a queue of one, one fault | `ActedOnce`, `NothingLost`, `FiresOnce`, `QueueDrains` and `DueIsResolved` (liveness) |
| `desk` | `MCDesk`: `Plan`, `Review`, `Update`, `Enrollment` | `StopHolds`, `EvidenceForContract`, `ArmedPlanFrozen`; `OrderWithinCaps`, `NothingElseOrdered`; `InstallUndisturbed`, `ReloadsOnce`; `ConfirmedIsRegistered` |
| `bridge` | `MCBridge`: `Discord`, `Scan`, `Catalog`, `Budgets` | `NothingSkipped`, `HistoryIsQuiet`, `RemovedStaysRemoved`; `WholeScansOnly`; `ListedForItsSearch`; `CeilingExact` |

`MCStore`, `MCDesk` and `MCBridge` explore each of their modules completely: a module's
variables stay in their initial state while another moves, and the modules share
no variable, so that the union of their behaviours is what matters to properties
that each name one module.

**Bounds.**

* The lane. Every conflict the code decides is between two missions (`Rivals`) or
  two owners, so two of each reach every branch; a third adds no new comparison.
  `MaxRun` bounds the number of times automation is armed: the initial
  configuration (run 0, off) and run 1 already give handlers an outdated
  configuration that resets the state, `flow_tabs` adds a real second run.
  `MaxUnits = 2` is one more than the properties allow. One evidence hash is
  enough: the code only compares it with the recorded one, and the empty hash is
  the other value. The lane runs use symmetry on tabs; they check invariants only.
* Traffic (`store`). The clock runs to 3 with intervals 1 and 2, a cool-down of 2 and a
  grace of 1, so that slots wait, expire, are shifted and lie apart by different
  intervals; `MaxId = 2` retries are two of one page (a replaced slot, a late
  cancellation) or one of each. A replaced slot beside another tab's needs a third:
  that case is left to the proofs, which have no bounds.
* `openings`. Two openings meet in every pair of steps: the same mission or not,
  parallel or spaced, by hand or by the desktop. Three tabs are one for each
  mission and a free one. One Stop and one fault fall anywhere.
* `quiet`. With one read at a time, an interval of 2 or 3 ticks and a timeout of 2,
  the two products compete for every start. A second failure in a row, and the two
  products failing together, are the limits. Failing pages are unbounded;
  overloads, budget refusals and crashes are two in all, so that the first cool-down
  is followed by a longer one.
* `signals`. A queue of one overflows with the second push; two pushes are the same
  news or not, one before and one after any fault. Minute 2 is past the time's
  grace and past the window of deduplication.
* `desk`. Two calls under way are what it takes for replies to overtake. The store
  page changes twice; a proof ages past `MaxAge` in one step. The prices are the cap,
  its double, which is what a quantity of two makes of it, and one above both. Two
  installs, two requests of enrollment and two subscriptions are one of before and
  one of after.
* `bridge`. Two messages of a channel are one that is history and one that is news,
  with fetches of one (`Limit` stands for the 50 and 100 of the code). Scans: two
  products, two looks, a checkpoint on every second product. Catalog: two searches,
  one before and one after. Budgets: a window of 2
  instants with limits 1 and 2, `KeptUses` no smaller than a limit, as in the code.

**Deadlock** is checked in the `store` and `quiet` runs and in `combined_add`. The other runs say
`CHECK_DEADLOCK FALSE`: their systems are meant to rest when the last run is
stopped, the last request settled or a bound of the instance reached.

**Fairness.** It is stated where a liveness property needs it, and never of an
operator, a fault, a page or a store.

* `Openings`: weak fairness of `Tick` and, for each task, of its next step in the
  desktop (`Opening`) and in the worker (`Companion`). Each wait of the desktop is a
  `setTimeout`, each call of the worker goes through `fetchWithTimeout`, and a
  worker that dies gives its tasks up (`WorkerDies` is a step of its own). The
  worker's next poll is not fair: a request nobody claims must settle by the
  fallback alone.
* `QuietMonitor`: weak fairness of the dispatcher's interval and of each read's
  answer (a read that does not answer is aborted by its timer), strong fairness of
  `Tick`. Strong, because other steps (a mission taken off the list and put back)
  may disable a tick again and again; real time passes all the same.
* `Signals`: weak fairness of the scheduler's interval per mission, of `Send`
  (the worker drains its queue on every poll), of `Answered` (a call is answered or
  times out) and of handling some received push (the desktop's request loop). Lost
  answers and failed writes are bounded by `MaxFaults`: a desktop that never
  answers keeps the queue waiting, as it should.

**Mutants.** For each property of a passing run `PROJECT.json` names a plausible
bug (an operator preceded by "Mutant:" in the modules, or one named for it) with
which TLC finds the property violated under the same configuration.

## 4. Where the code and its documents disagree

Checked by a run:

* `receipt_lost`. `README.md:18`: "Every add gets a durable receipt before the
  click." What is durable before the click is a reservation with a lease; the
  receipt that keeps the lane is written after it (`content.js:1710`). If tab,
  worker or desktop is lost in between, the lease lapses and the Add is repeated.
* `store_error`. `content.js:1855`: "A new Add click is allowed only if the fully loaded
  cart proves that exact SKU is absent"; `README.md:19`: "Once Add may have been clicked,
  the lane is held indefinitely until exact cart evidence resolves it." On Target's cart
  page out-of-stock words in the text of the whole page (`retailers.js:677-692`) are
  reported as a failed Add (`content.js:1783-1787`) before any line is looked at, and the
  tab goes back to the product to Add again (`content.js:1796-1801`, `1815`). A unit in
  the cart next to another line that is "no longer available" loses its receipt and its
  lane; a second unit and a rival's Add may follow. An automatic order is not affected:
  `markAddAction("failed")` leaves a submission alone (`AutomaticOrdersOnce`).
* `combined_add`. `WHATS-NEW.md:127`: "every in-stock item is added to the cart
  and held". Once the first member holds the lane, another member's claim is
  granted as a sub-claim, but `beginAddAction`, `authorizeAddClick` and
  `beginSubmission` compare the lock's product with the member and always refuse.

Found while modelling, with the step that leads there; the properties above leave
them out of what they promise, by name where the models contain them:

* An order placed by hand. `README.md:249`: "a possibly submitted order
  deliberately remains locked for manual review." When the tab of a review mission
  shows the emptied cart after the operator placed the order, `content.js:1866`
  reports the Add as failed and `markAddAction` resets even an observed manual
  submission. In the model such a mission is `misread`.
* A retry that reloads an Add. `content.js:1454` cancels timer and slot "so an
  obsolete reload cannot interrupt Add"; `navigateWhenAllowed` forgets both before
  it awaits the revalidation (`content.js:743`, `801`).
* A sweep behind Stop. `openAll` waits for the companion's first heartbeat
  (`main.js:1698`) and goes on after a Stop in that wait; its openings carry the
  new epoch. `StopIsABoundary` is about openings asked for before Stop.
* Automation off does not stay off. The settings-save timer fires while the toggle
  is on its way and its save re-arms (`renderer.js:889-929`, `5825-5851`, against
  `renderer.js:4977`). The same save sent between Stop's click and its reply
  re-arms; `StopHolds` is about the state once the calls under way are through.
  Autopilot's click followed by Stop while its save is in flight lets `openBuyList`
  lift the pause (`main.js:1549-1557`, `1666`).
* Proofs of a combined batch. `content.js:386` stores the first line's product for
  every member, and `safety.js:66` demands the member's own: a second member's proof
  is never accepted, against `test/combined-order.test.js:85`.
* A proof of a hidden price. A cart that hides a price lets the old proof's price be
  saved again as a fresh one (`content.js:2047`), against the bounded age of
  `automation-state.js:498`. 
* A price taken for a subtotal. `safety.js:14-19` says that "a price that changed
  since verification breaks the match and still fails closed", and `README.md:12`
  that an item over its cap is not bought. With a quantity above one, where the cart
  shows unit prices, a unit price that has become exactly the quantity times a proven
  one is taken for the subtotal of the proven one (`safety.js:22-26`); only the cap on
  the total stands behind it. `TakenForSubtotal` names this case and
  `OrderWithinCaps` excepts it and nothing else; without the exception TLC violates
  it in the instance of the run.
* Cancelling a scan. `README.md:143` says products already captured are kept;
  `cancelTrackalackerImport` drops them, and its test agrees with the code.
* Queue fan-out. `README.md:31` describes it; `main.js:4239` always passes one
  participant, so it cannot happen.
* Deduplication of signals (`trackalacker-signal-service.js:61`) also hides the
  next match of the same product within the window (`README.md:227`). A failed
  activation or a crash between receipt and activation (`main.js:2249`, `2345`)
  leaves a journal entry whose activation never comes, or an activation whose page
  was never opened.
* A crash between the calendar's two files leaves the mission owned by the calendar
  until the operator touches it (`main.js:4251-4267`). A Stop while an opening of
  the calendar is under way loses the time, although stop-all preserves times.
* Overloads and fairness of reads. `README.md:79` promises "without starving later
  products". `deferQuietMonitorStore` skips the product in flight, which is
  therefore retried first: `NoneStarves` holds because the overloads of a behaviour
  are bounded, and would not if they never ceased. Reads aborted by a pause of the
  quiet lane count as failures of their products. A restock seen while the
  five-minute cool-down of openings runs is consumed without an opening.
* `canBypassStoreOverload` lets Target's persistence steps pass the cool-down that
  "always overrides cadence" (`README.md:33`).
* Settings. Save-settings replaces the whole plan: Undo restores an older list
  without what Quick add put there meanwhile (`renderer.js:1086-1109`); a stale card
  that brings back a past time has its whole save refused.
* Update. A failing manual check right after another discovery hides a known update;
  a worker that dies within 250 ms after its mark keeps its old folder until it is
  reloaded by hand; automation can be switched on between the pause for the update
  and the quit, and a failed installer leaves it off.
* Enrollment. A request that shares an enrollment begun with an older nonce is
  answered by it or times out after 45 s; a configuration applied from a stale read
  can overwrite "ready".
* An enrollment confirmed by a report. `README.md:219`: "The desktop waits for a
  correlated ready/error receipt, so opening a page alone is never reported as success",
  and `README.md:223` that an explicit Connect "deliberately repairs or rotates" the
  endpoint. A push that arrives after the new configuration is cached
  (`background.js:1125`) and before the stored state is reset for it
  (`background.js:310-323`) posts the old "ready" with the new nonce
  (`background.js:1686`, `1695`), as does a pass over the queue that began with it
  (`1427`), and `main.js:2724-2735` takes it for the answer: nothing was registered.
  `ConfirmedIsRegistered` excepts exactly the requests so reported, and TLC violates it
  without the exception.
* Discord. `README.md:338` says that changing the channel starts a new history baseline.
  Without a cursor the next poll asks for no `after` (`main.js:2454-2459`) and gets the
  newest page: of a channel that was empty at its baseline, news beyond one page are
  never seen (`behind`). Clearing the inbox (`main.js:3674-3679`), the only memory
  of what was recorded (`main.js:2089`), lets a message whose poll died before its
  cursor was written be recorded and acted on once more while it is fresh (`forgotten`).
* Scan. A scan whose products were all unreadable completes and empties the
  collection; a product whose answer was lost is counted as failed though stored; a
  desktop restart loses what was captured since the last checkpoint.

## 5. The proofs

### 5.1 The purchase lane

`PurchaseLane_proofs` proves for every set of products, tabs, stores, items and
every configuration that satisfies `ConfigAssumption`, `ReservedNamesAssumption`
and `MaxRunAssumption`:

| Theorem | Statement |
|---|---|
| `LaneInvariant` | `Spec => []LaneInv` |
| `TypeCorrect` | `Spec => []TypeOK` |
| `CompletionIsFinal` | `Spec => []ProductSealed` |
| `OneSubmission` | `Spec => []SubmitExclusive` |
| `HoldsExcludeRivals` | `Spec => []RivalExcluded` |
| `ItemsAreSecuredOnce` | `Spec => []ItemSecuredOnce` |

The assumptions say that combined members are checkout missions and that the
placeholder names the library writes into locks are not product or tab ids.

**The inductive invariant.** None of the properties is inductive: exclusion in
the stored record says nothing about the state a handler decides on, which is the
*normalised* record. `LaneInv` is `StateInv(st)` plus the types of the
configurations. `StateInv` has the types and

* `Sealed`: a completed product has no Add in flight, no possible order, no lock;
* `OnlyCheckoutsSubmit`: only checkout missions have a submission;
* `Exclusive`: two rivals never both have a possible submission;
* `ItemsRecorded`: every completed product's item is recorded;
* `ItemLocksSettled`: no lock of a product outlives its item's completion.

From it `ReadInv` derives what holds after normalisation (`Guarded`: whoever
needs a hold has one on each of its keys, or the key is in conflict or combined).
Every handler's operation is then either *quiet*, in that locks only disappear and
phases only go back, or one of three that need exclusion: a claim (`ClaimInv`), a
submission (`SubmissionInv`), a completion (`FinishInv`). `MessageInv` has one
step per handler and `LaneInvariant` combines Init, step and PTL.

The four safety theorems follow from `LaneInv` and `ReadInv`.

### 5.2 The traffic governor

`Traffic_proofs` proves from `TrafficAssumption` (intervals, delays, cool-downs
and the grace are natural numbers), for any tabs and without the bounds of the runs:

| Theorem | Statement |
|---|---|
| `TrafficInvariant` | `TrafficSpec => []Inv` |
| `TrafficTyped` | `TrafficSpec => []TrafficTypeOK` |
| `SlotsAreSpaced` | `TrafficSpec => []SlotsSpaced` |
| `CooldownIsRespected` | `TrafficSpec => []CooldownRespected` |
| `WaitersKeepSlots` | `TrafficSpec => []WaitersKeepTheirSlot` |

`SlotsSpaced` and `CooldownRespected` are inductive with the types: reading and
pruning only lose slots (`Reading`, `SlotsLost`), and a slot is placed or shifted
behind all others and behind the cool-down (`Bounds`, `SlotPlaced`).
`WaitersKeepTheirSlot` is not: a late cancellation would take a newer slot if it
could name it. `IdsOK` adds that ids are used once, that no retry is served before
it has asked, and that a cancellation under way names a slot its page gave up.
`PageSteps` covers what pages do on their own; the worker's four handlers have a
lemma each.

### 5.3 The quiet monitor

`QuietMonitor_proofs` proves from `QuietAssumption` (a finite set of products,
positive lengths, `MinInterval <= MaxInterval`, `CoolDown <= RetryAfter`):

| Theorem | Statement |
|---|---|
| `QuietTypes` | `Spec => []QuietTypeOK` |
| `LimitIsKept` | `Spec => []LimitKept` |
| `CadenceIsKept` | `Spec => CadenceKept` |
| `StoreIsLeftAlone` | `Spec => StoreLeftAlone` |

`LimitKept` is inductive with the types: schedule and wire gain and lose a read
together (`Ending`), and a read of before a Stop loses nothing. The two action
properties are not about one state. What makes a start safe is that the product is
due and no cool-down runs (`CandidateDue`), so the invariant has to say what "due"
guarantees:

* `DueKept`: an entry whose last start is less than `MinInterval` ago is not due
  before the rest has passed. The lemmas `DueTyped`, `Reconciling` and `Pausing`
  show that entries which are made, reconciled or deferred keep it, `InvTick` that a
  tick takes no more off the deadline than it adds to the time since;
* `asked <= shared`: the shared deadline is no shorter than what the store asked for.

`OnlyDispatchStarts` then says that a read can begin in one action only.

### 5.4 Openings

`Openings_proofs` proves from `OpeningsAssumption`, for any missions, tabs and
number of openings:

| Theorem | Statement |
|---|---|
| `RequestsTyped` | `Spec => []RequestInv` |
| `RequestsOpenOnceHolds` | `Spec => RequestsOpenOnce`, the refinement of `OpenOnce` |
| `StopIsABoundaryHolds` | `Spec => StopIsABoundary` |
| `MissionTabsKeptHolds` | `Spec => MissionTabsKept` |

The first three rest on `RequestInv`: an opening has been shown as often as its
stage says (`OpensCounted`); what the companion can claim is what the queue still
waits for in the present epoch (`OfferedIsAsked`); the worker goes on only with what
was handed to it (`HandedOver`). The refinement is then a case per action: a step
accepts an opening, drops one, shows one that was never shown, or stutters.

`MissionTabsKept` is about the tab a worker chose two awaits ago. `TabInv` says what
that choice is still worth: it belongs to an opening under way (`ChosenWhileGoing`),
openings that are no bursts go on alone (`AloneUnlessBurst`), a tab is chosen by two
openings only for one mission (`ChosenForOne`), and it shows that mission's page or
what the page went on to (`ChoiceStands`). An earlier form of the model, in which a
closed tab's id could be used again, kept the property with the two openings of the
run and not with three: the invariant failed there first. TLC checked `OpeningsInv`
with three openings (7.0 million states).

### 5.5 The plan, the review, the Inbox, the update and the enrollment

`Desk_proofs` has one inductive invariant per part:

| Theorem | Statement |
|---|---|
| `PlanInvAlways`, `StopHoldsAlways`, `EvidenceForContractAlways` | `Spec => []PlanInv`, `[]StopHolds`, `[]EvidenceForContract` (`Plan`) |
| `ArmedPlanFrozenHolds` | `Spec => ArmedPlanFrozen` |
| `OrderWithinCapsAlways`, `NothingElseOrderedAlways` | `ReviewSpec => []OrderWithinCaps`, `[]NothingElseOrdered` |
| `ListedForItsSearchAlways` | `CatalogSpec => []ListedForItsSearch` |
| `InstallUndisturbedAlways`, `ReloadsOnceAlways` | `UpdateSpec => []InstallUndisturbed`, `[]ReloadsOnce` |
| `ConfirmedIsRegisteredAlways` | `EnrollSpec => []ConfirmedIsRegistered` |

* `PlanInv`. `StopHolds` speaks of the moment when nothing is under way. On the way
  there Stop is in one of three places: still a call with no arming call behind it
  (`StopUnderWay`), carried out and not yet heard of, with every later answer as quiet
  (`StopAnswered`), or known to the window (`StopKnown`). In none of them is there a
  session, or a call that would open one on its return, of the time before Stop
  (`NoSession`). Queues may be of any length; the lemmas `AppendedIs` and `TailIs`
  say what a queue is after one call more or less.
* `ReviewInv`. While the page stands still after its second reading, what was read is
  what it shows, and an intent rests on a verdict about that page (`Proper`). The
  arithmetic is in `Cancelled` and the lemmas after it: a line that a proof explains
  as a subtotal is within the cap or is `TakenForSubtotal`. `PageChanges` ends
  `still`; nothing is assumed of it.
* `CatalogInv` is the property and the types of the search.
* `UpdateInv`. That nothing disturbs an installation is a matter of what the dashboard
  still has to render: `OneJob` says there is one request at a time, `Announced` that
  behind an offer every message under way offers it too, so that no message brings a
  button for a check back. `ReloadInv` binds a reload under way to the pair of
  versions there is, and a reload in vain to the pair remembered.
* `EnrollInv`. "Ready" is carried by a status on its way, by the outcome the desktop
  keeps and by an accepted registration: each is about a device registered since its
  request, or about a request of `reported` (`Certified`). The exception is part of the
  claim: without it the code does not keep it (section 4).

TLC checked them first with larger bounds than the run has: `PlanInv` with three calls
under way and two Stops (31.8 million states), `UpdateInv` and `ReloadInv`, `ReviewInv` and `CatalogInv` in the run's instance.

### 5.6 The calendar and the signals

`Signals_proofs`, for any number of missions, times, pushes and faults and any length
of the queue:

| Theorem | Statement |
|---|---|
| `CalendarAlways`, `FiresOnceAlways` | `Spec => []CalendarInv`, `[]FiresOnce` |
| `SignalsAlways` | `Spec => []SignalsInv` |
| `ActedOnceAlways`, `NothingLostAlways` | `Spec => []ActedOnce`, `[]NothingLost` |

`ReceiptsFirst`: a time is fired at most once, and not before it has its receipt.
For the pushes, `FileAgrees` says that disk and memory differ in the action of a record
at most, so that a restart takes no receipt back; `EntriesRecorded` that only a push
decided so asks for a page; `OkIsTraced` that the worker hears "ok" only of news that is
on disk, which is what allows it to take the push off its queue. `ActedOnce` needs
that two pushes of the same news within the window are never both decided to act on:
the desktop decides on what is in memory, and memory holds every receipt on disk. When
a write fails the memory is put back, and the lemmas on `StoreFails` show that this
loses nothing that was told. TLC checked `SignalsInv` with three pushes of one mission
(6.2 million states) and with two missions (19 million, not to the end).

### 5.7 Discord, the scan and the ledgers

`Bridge_proofs`, for any channels, page lengths, products, tabs, ceilings and restarts:

| Theorem | Statement |
|---|---|
| `DiscordAlways`, `NothingSkippedAlways` | `DiscordSpec => []DiscordInv`, `[]NothingSkipped` |
| `HistoryIsQuietHolds`, `RemovedStaysRemovedHolds` | `DiscordSpec => HistoryIsQuiet`, `RemovedStaysRemoved` |
| `ScanAlways` | `ScanSpec => []ScanInv` |
| `WholeScansOnlyHolds` | `ScanSpec => WholeScansOnly` |
| `LedgersRemember`, `CeilingIsExact` | `BudgetSpec => []BudgetInv`, `[]CeilingExact` |

An answer of Discord is used only in the epoch it was asked in. `NoWayBack` says that
within an epoch a channel, once left, is not chosen again, because each epoch has at
most one request (`OneRequest`); hence the cursor a wanted poll was sent with is still
the channel's cursor (`CursorHeld`), and what a first poll calls history is at least
what was posted when the channel was chosen (`HistoryRead`). That the inbox may forget
signals and a first page may leave older ones behind is in the properties themselves.

A scan's collection replaces the old one when every product of its inventory is staged
or given up. What a page was told is stored must then still be staged (`HeldIsStaged`),
on disk as in memory only items of the scan under way are staged (`StagedForThis`), and
the file lags in staging and counters only (`FileLags`). TLC checked `ScanInv`
with two setbacks (1.7 million states).

The ceiling is a claim about `granted`, every use there ever was, and the code knows its
ledger only. `BudgetInv` says that the history is in order and that the ledger is the end
of it, nothing missing that is younger than the window (`Remembers`), and no longer than
the allowance. The last part is what a restart needs: it reads `KeptUses` back, which
`BudgetAssumption` requires to be no less than an allowance (the code has 500 for 120 and
5,000 for 4,000), so that it forgets nothing that counts. What still counts of the
ledger is then the part of the history in the window (`RecentIsWindow`), so a refused use
met a full window, and the window has room exactly when its oldest use leaves it
(`WindowMoves`).

`Filtered` is a recursive function of the ledger's length, and what it returns is the one
place where a proof needs induction. The library's induction theorems take an operator
and cannot be used, but `WFMin` takes a set: `LeastOf` gets from it that a set of naturals
has a least element, and `FilterTable` and `FilteredTail` descend to the least length at
which they would fail.

### 5.8 The page flows

`PurchaseFlow_proofs` proves, for any missions, tabs, stores, items, assignment of
tabs and number of runs:

| Theorem | Statement | Faults | Combined orders |
|---|---|---|---|
| `FlowRefinesLane` | `FlowSpec => Spec`, the refinement of `PurchaseLane` | any | any |
| `FaultInvariant` | `FlowSpec => []FaultInv` | any | none |
| `NoOrphanedHoldAlways` | `FlowSpec => []NoOrphanedHold` | any | none |
| `NoConflictAlways` | `FlowSpec => []NoConflict` | any | none |
| `AutomaticOrdersOnceAlways` | `FlowSpec => []AutomaticOrdersOnce` | any | none |
| `AutomaticOrdersHeldAlways` | `FlowSpec => []AutomaticOrdersHeld` | any | none |
| `FlowInvariant` | `FlowSpec => [](misread = {} => FlowInv)` | none | none |
| `ReceiptCoversStoreAlways` | `FlowSpec => [](misread = {} => ReceiptCoversStore)` | none | none |
| `NoDuplicateAddAlways` | `FlowSpec => [](misread = {} => NoDuplicateAdd)` | none | none |
| `NoDuplicateOrderAlways` | `FlowSpec => [](misread = {} => NoDuplicateOrder)` | none | none |
| `FlowRefinesBuyOnce` | `FlowSpec => FlowBuysOnce`, the refinement of `BuyOnce` | none | none |

"None" is a hypothesis of the theorem (`Faults = {}`, `Members = {}`) and the scope of
the claim. With a lost receipt or a short lease the code does add twice (finding
`receipt_lost`), and so it does when a page denies an Add that was made (finding
`store_error`): the last five theorems therefore speak of behaviours up to that moment
(`misread = {}`; a new run starts afresh). The runs check more: a mission misread harms
no property of the others but the refinement. After each of the three a review mission
can be ordered by hand a second time (TLC shows each), so `NoDuplicateOrder` as a whole
needs its hypotheses. The members of a combined order lay their locks out in another way
and walk other pages. The theorems above these five need no hypothesis about what pages
say.

**Under every fault.** `FlowRefinesLane` has no hypothesis: a tab is one more sender of
messages, a call it awaits is one of the worker's (`CallsKnown`), and every other step
leaves the worker alone. The theorems of 5.1 thus hold of the flows whatever is lost.
`FaultInv` says what remains of the rest. The worker's record stays `LaneSafe`; each tab's
page fits it (`FaultPage`): one that may click has the lane if it still has the
reservation, one that may submit has the recorded intent, every lock of the mission and
nothing ordered, one past its Add has no Add in flight. And the record knows the automatic
orders (`RecordFits`): one at most, and until it is completed its submission stays possible
and the tab with the lane does not take it for rejected (`VerdictFits` is the other
direction). A handler's write is then a `SureStep`: an `OwnStep` (below) that leaves a
possible order possible and gives its lane to nobody else. Two theorems come out that need
no hypothesis about faults or pages: nothing is ordered twice without the user
(`AutomaticOrdersOnce`), and an order the store accepted blocks its rivals until it is
confirmed (`AutomaticOrdersHeld`).

**Without faults.** None of these properties is inductive, and `LaneInv` alone does not
help: the worker keeps its record consistent, but nothing in it says what the store has.
`FlowInv` adds three layers:

* `LaneSafe`, of the stored record: every lock is free or of a mission of its key, a
  permanent one has its receipt (`HoldsExplained`), missions that need a hold share no
  key (`NeedersApart`), and the receipts of a mission fit each other and its locks
  (`ReceiptsFit`);
* `CallFits` and `TabFits`, of each tab: which page makes which call, what a tab that
  is allowed to click or about to submit still has (`ClickFits`, `SubmitFits`), and
  that a report of a failed Add is about nothing (`ReportFits`), which is where
  `misread = {}` is needed;
* `StoreFits`, of each mission: the unit in the cart and the order of the store are on
  record (`CartFits`, `OrderFits`), unless the operator gave the mission up
  (`GivenUpFits`).

The last two are stated of `Cur`, the record a handler of the present run starts from,
because arming resets it only when the next handler reads it.

The argument follows a handler. Reading keeps all three layers and gives every mission
in need its locks (`ReadFacts`, `NormalizedSafe`). What the handler of tab `o` then writes
for mission `p` is an `OwnStep`: it changes locks that were free or `o`'s for `p`, and
receipts only with the right to them; `OwnStepSafe`, `OwnStepTabs` and `OwnStepStore` say that
no such step disturbs another tab or mission. What is left is `p` and `o`: each operation
of the library is such a step and keeps what the store asks for (`ClaimGood`, `ReserveGood`,
`ClickedGood` ... `RejectedGood`: `GoodStep`), and the page the reply leads to fits
(`PageFits`). Completion, which releases what others wait for, and the healing of a stranded
cart hold have their own lemmas. The steps of the store, the operator, the desktop and
of time follow one by one, and `FlowStep` combines them.

The proof also changed the model. A lost reply to a call that was granted (`heard`)
was missing, and the guards that keep watched missions from preparing and claiming had
been left to what the runs happened to have. TLC checked `FlowInv` and `FaultInv`, in
the form they first had, on the instances of the three runs and on nineteen more with
other actions, stores, items and faults before they were proved.

For the refinement, `closed` is what the next handler reads as completed and what the
operator gave up. A handler completes at most one mission (`HandledCompletes`). That a
click may add (`SeenAdd`) rests on the lane: whoever still has something open at the store
or for the item excludes the tab (`OpenExcludes`, `OpenIsRecorded`), and a completed option
has left no lease on the item's lock (`OptionsOpen`, from `ItemLocksSettled`).

### 5.9 Only model-checked

* Combined orders among the page flows, beyond what they inherit from the lane (5.8).
* Liveness (`NoneStarves`, `EveryOpeningSettles`, `QueueDrains`, `DueIsResolved`) and
  ENABLED, which are out of the provers' reach.

## 6. Not modelled

* Queue fan-out: unreachable in this version. Capturing a queue page is one field of
  a mission.
* Statuses of products and the combined order's gate (`combinedOrderStatus`,
  `reduceProductStatus`): events carry no run id, a status event with an older
  timestamp is dropped whole, and every save resets them. The captain may therefore
  believe a batch ready or not; what it then orders is decided by the final review,
  which `Review` models for any cart.
* Reading a page: selectors, texts, prices, words of an offer. The models take
  every reading the page's state allows.
* Rendering, forms, popup and onboarding; tab context; start-up and status of the
  companion; price research, short links, text imports, profiles, migrations of
  older files; encryption of credentials; network protocols beyond answered, refused
  and lost.
* A clock that is set back; files damaged by hand.

## 7. Plan

1. The combined order's gate with the statuses it reads, composed with the lane; its
   members among the page flows, and `FlowInv` for them.
2. A handler that carries an earlier run's configuration while a receipt exists:
   the property that a receipt survives it, and its verdict.
3. `FlowInv` with one fault at a time, and per mission after one was misread: `FaultInv`
   says what remains under all of them (5.8), each of them alone leaves more.
