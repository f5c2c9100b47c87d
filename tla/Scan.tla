--------------------------------- MODULE Scan ---------------------------------
(***************************************************************************)
(* The scan of the products followed on TrackaLacker.  The desktop holds   *)
(* the scan; a page of the companion claims it from the worker, reads the  *)
(* products one after another and posts each; the collection used for      *)
(* matching is replaced when the page says that it is complete.  A tab may *)
(* look twice at once, the worker forgets who owns the scan after 90       *)
(* seconds or when it dies, and the desktop keeps what it has only every   *)
(* few products.                                                           *)
(* (lib/trackalacker-import.js:163-204, 316-476, main.js:520-556,          *)
(* 1244-1335, 2790-2798, extension/background.js:1315-1358, 1757-1797,     *)
(* extension/trackalacker-ingest.js:538-560, 591-778, 782-810)             *)
(***************************************************************************)
EXTENDS Naturals, FiniteSets

CONSTANTS
  Followed,      \* the followed products
  Runs,          \* looks of tabs at the configuration, and the scans they begin
  ScanTabs,
  CheckpointProducts,  \* products between two writes of the file
  MaxScans,
  MaxSetbacks    \* restarts of the desktop, clearings and expiries

ASSUME ScanAssumption ==
  /\ IsFiniteSet(Followed)
  /\ CheckpointProducts \in Nat \ {0} /\ MaxScans \in Nat /\ MaxSetbacks \in Nat

VARIABLES
  import,    \* memory of the desktop: scan, collection, counters of its checkpoints
  file,      \* trackalacker-import.json
  awaited,   \* whether the desktop still waits for the scan it started to begin
  owner,     \* the worker's memory of who scans
  run,       \* the pages
  tabOf,     \* the tab of each run
  setbacks

scanVars == <<import, file, awaited, owner, run, tabOf, setbacks>>

NoOwner == [scan |-> 0, tab |-> "none"]
NotRunning == [phase |-> "idle", scan |-> 0, todo |-> {}, at |-> {}, held |-> {}]
Empty == [scan |-> 0, state |-> "none", expired |-> FALSE, items |-> {}, staging |-> {},
          since |-> 0, mark |-> 0]

\* The tabs differ in nothing but their names.
FirstRun == CHOOSE r \in Runs : TRUE
FirstTab == CHOOSE t \in ScanTabs : TRUE

ScanInit ==
  /\ import = Empty /\ file = Empty /\ awaited = FALSE /\ owner = NoOwner
  /\ run = [r \in Runs |-> NotRunning]
  /\ tabOf \in {f \in [Runs -> ScanTabs] : f[FirstRun] = FirstTab}
  /\ setbacks = 0

Setback == setbacks < MaxSetbacks /\ setbacks' = setbacks + 1

Active(d) == d.state \in {"waiting", "scanning"}
Served == Active(import) /\ ~import.expired

-----------------------------------------------------------------------------
(* The desktop and its operator.                                           *)

Writes(d) == import' = [d EXCEPT !.since = 0, !.mark = 0] /\ file' = import'

\* lib/trackalacker-import.js:348-385: a new scan starts from nothing.
Fresh(d) == [d EXCEPT !.scan = @ + 1, !.state = "waiting", !.expired = FALSE, !.staging = {}]

StartScan ==
  /\ ~Active(import) \/ import.expired
  /\ import.scan < MaxScans /\ ~awaited
  /\ Writes(Fresh(import)) /\ awaited' = TRUE
  /\ UNCHANGED <<owner, run, tabOf, setbacks>>

\* An expired scan is an error already, and its captures are left where they are.
Cancelled(d) ==
  IF ~Active(d) THEN d
  ELSE IF d.expired THEN [d EXCEPT !.state = "error"]
  ELSE [d EXCEPT !.state = "cancelled", !.staging = {}]

CancelScan ==
  /\ Writes(Cancelled(import))
  /\ UNCHANGED <<awaited, owner, run, tabOf, setbacks>>

\* main.js:1287-1303: the wait looks every 200 ms and cancels after 45 seconds, even
\* when the page has begun since the last look.
StartSeen ==
  /\ awaited /\ import.state # "waiting"
  /\ awaited' = FALSE
  /\ UNCHANGED <<import, file, owner, run, tabOf, setbacks>>

StartTimesOut ==
  /\ awaited /\ awaited' = FALSE
  /\ Writes(Cancelled(import))
  /\ UNCHANGED <<owner, run, tabOf, setbacks>>

ClearScan ==
  /\ Setback
  /\ Writes([Empty EXCEPT !.scan = import.scan])
  /\ UNCHANGED <<awaited, owner, run, tabOf>>

\* Twenty-four hours after its start.
Expires ==
  /\ Setback
  /\ Served
  /\ import' = [import EXCEPT !.expired = TRUE] /\ file' = [file EXCEPT !.expired = TRUE]
  /\ UNCHANGED <<awaited, owner, run, tabOf>>

\* A page that was told of a product the file does not have keeps it no longer.
Restart ==
  /\ Setback
  /\ LET loaded == IF Active(file) /\ file.expired THEN [file EXCEPT !.state = "error"] ELSE file
         kept == {i.product : i \in file.staging}
     IN /\ Writes(loaded)
        /\ run' = [r \in Runs |-> [run[r] EXCEPT !.held = @ \cap kept]]
  /\ awaited' = FALSE
  /\ UNCHANGED <<owner, tabOf>>

-----------------------------------------------------------------------------
(* Captures.                                                               *)

AcceptsAny(r) == Active(import)

\* lib/trackalacker-import.js:425-432: only the scan under way takes captures, and it
\* does not look at its own expiry.
Accepts(r) == Active(import) /\ run[r].scan = import.scan

Staged(r) == {i \in import.staging : i.product \notin run[r].at}
             \cup [product : run[r].at, scan : {run[r].scan}]

Processed(r) == Cardinality(Followed \ run[r].todo)

\* main.js:1244-1278: what a capture makes of the scan, and when the file is written.
Accepted(r, kind) ==
  LET d == CASE kind = "started" -> [import EXCEPT !.state = "scanning"]
             [] kind = "product" -> [import EXCEPT !.staging = Staged(r), !.since = @ + 1]
             [] kind = "complete" -> [import EXCEPT !.state = "complete", !.items = import.staging,
                                                  !.staging = {}]
             [] kind = "error" -> [import EXCEPT !.state = "error", !.staging = {}]
             [] kind \in {"inventory", "progress"} -> import
      checkpoint == \/ kind \in {"started", "inventory", "complete", "error"}
                    \/ kind = "progress" /\ Processed(r) >= import.mark + CheckpointProducts
                    \/ d.since >= CheckpointProducts
      mark == IF kind \in {"product", "progress"} THEN Processed(r) ELSE 0
  IN IF checkpoint
     THEN import' = [d EXCEPT !.since = 0, !.mark = mark] /\ file' = import'
     ELSE import' = d /\ UNCHANGED file

\* The capture of a page and what it does next, by whether it hears that the capture
\* was accepted.  An accepted capture refreshes the lease, which only time ends here.
Posts(r, kind, heard, unheard) ==
  /\ \/ Accepts(r) /\ Accepted(r, kind) /\ run' = [run EXCEPT ![r] = heard]
     \/ Accepts(r) /\ Accepted(r, kind) /\ run' = [run EXCEPT ![r] = unheard]
     \/ ~Accepts(r) /\ UNCHANGED <<import, file>> /\ run' = [run EXCEPT ![r] = unheard]
  /\ UNCHANGED <<awaited, tabOf, setbacks>>

-----------------------------------------------------------------------------
(* The worker and the pages.                                               *)

\* background.js:1766-1789
MayScan(r) ==
  /\ Served /\ import.scan = run[r].scan
  /\ owner.scan # run[r].scan \/ owner.tab = tabOf[r]

StillActive(r) == MayScan(r) /\ owner' = [scan |-> run[r].scan, tab |-> tabOf[r]]

\* Ninety seconds without a claim or a capture, or the worker's end.
OwnerForgotten ==
  /\ owner' = NoOwner
  /\ UNCHANGED <<import, file, awaited, run, tabOf, setbacks>>

Gives(r, phase) == [run[r] EXCEPT !.phase = phase]

\* trackalacker-ingest.js:785-802: a tab notices that it is running only after two
\* answers, so that two looks may both begin.
Look(r) ==
  /\ run[r].phase = "idle" /\ Served
  /\ \A s \in Runs : tabOf[s] = tabOf[r] => run[s].phase \in {"idle", "looking"}
  /\ run' = [run EXCEPT ![r] = [NotRunning EXCEPT !.phase = "looking", !.scan = import.scan]]
  /\ UNCHANGED <<import, file, awaited, owner, tabOf, setbacks>>

Claim(r) ==
  /\ run[r].phase = "looking"
  /\ \/ StillActive(r) /\ run' = [run EXCEPT ![r] = Gives(r, "begin")]
     \/ ~MayScan(r) /\ run' = [run EXCEPT ![r] = NotRunning] /\ UNCHANGED owner
  /\ UNCHANGED <<import, file, awaited, tabOf, setbacks>>

Started(r) ==
  /\ run[r].phase = "begin" /\ UNCHANGED owner
  /\ Posts(r, "started", Gives(r, "inventory"), Gives(r, "failing"))

\* Every further step first asks whether the scan is still this tab's; a page that
\* cannot be read fails as well.
Fails(r) ==
  /\ run[r].phase \in {"inventory", "next"}
  /\ run' = [run EXCEPT ![r] = Gives(r, "failing")]
  /\ UNCHANGED <<import, file, awaited, owner, tabOf, setbacks>>

Inventory(r) ==
  /\ run[r].phase = "inventory" /\ StillActive(r)
  /\ Posts(r, "inventory", [Gives(r, "next") EXCEPT !.todo = Followed], Gives(r, "failing"))

ReadNext(r, p) ==
  /\ run[r].phase = "next" /\ p \in run[r].todo /\ StillActive(r)
  /\ Posts(r, "progress", [Gives(r, "read") EXCEPT !.at = {p}], Gives(r, "failing"))

Done(r, phase) == [Gives(r, phase) EXCEPT !.todo = @ \ run[r].at]

\* A capture that is not heard counts as an unreadable product, whether or not the
\* desktop has it.
Product(r) ==
  /\ run[r].phase = "read" /\ UNCHANGED owner
  /\ Posts(r, "product", [Done(r, "next") EXCEPT !.held = @ \cup run[r].at, !.at = {}],
                         Done(r, "skip"))

Unreadable(r) ==
  /\ run[r].phase = "read"
  /\ run' = [run EXCEPT ![r] = Done(r, "skip")]
  /\ UNCHANGED <<import, file, awaited, owner, tabOf, setbacks>>

Skip(r) ==
  /\ run[r].phase = "skip" /\ UNCHANGED owner
  /\ Posts(r, "progress", [Gives(r, "next") EXCEPT !.at = {}], Gives(r, "failing"))

\* The lease is given up at the end; asking once more has taken it anew.
Released(r, asked) ==
  owner' = IF asked \/ owner = [scan |-> run[r].scan, tab |-> tabOf[r]]
           THEN NoOwner ELSE owner

Complete(r) ==
  /\ run[r].phase = "next" /\ run[r].todo = {}
  /\ Posts(r, "complete", NotRunning, Gives(r, "failing"))
  /\ IF run'[r] = NotRunning THEN Released(r, FALSE) ELSE UNCHANGED owner

Failing(r) ==
  /\ run[r].phase = "failing"
  /\ \/ MayScan(r) /\ Posts(r, "error", NotRunning, NotRunning)
     \/ /\ ~MayScan(r)
        /\ run' = [run EXCEPT ![r] = NotRunning]
        /\ UNCHANGED <<import, file, awaited, tabOf, setbacks>>
  /\ Released(r, MayScan(r))

ScanNext ==
  \/ StartScan \/ CancelScan \/ StartSeen \/ StartTimesOut \/ ClearScan \/ Expires \/ Restart
  \/ OwnerForgotten
  \/ \E r \in Runs :
       \/ Look(r) \/ Claim(r) \/ Started(r) \/ Inventory(r) \/ Fails(r)
       \/ \E p \in Followed : ReadNext(r, p)
       \/ Product(r) \/ Unreadable(r) \/ Skip(r) \/ Complete(r) \/ Failing(r)

ScanSpec == ScanInit /\ [][ScanNext]_scanVars

-----------------------------------------------------------------------------
\* The collection that signals are matched with changes only when a scan completes or
\* the operator clears it, and it then holds what that scan captured: every product
\* the page knows to be stored, none of an earlier, cancelled or failed scan
\* (trackalacker-import.js:444-455, trackalacker-import.test.js:323-351).
WholeScansOnly ==
  [][import'.items # import.items /\ import'.state # "none" =>
       /\ import'.state = "complete"
       /\ \A i \in import'.items : i.scan = import'.scan
       /\ \E r \in Runs : /\ run[r].todo = {} /\ run[r].scan = import'.scan
                          /\ run[r].held \subseteq {i.product : i \in import'.items}]_scanVars
=============================================================================
