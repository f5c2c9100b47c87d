--------------------------------- MODULE Update ---------------------------------
(***************************************************************************)
(* The application's update and the companion's reload that follows it.    *)
(* Checks for a newer release share one discovery; the operator approves   *)
(* one release, whose installer is received, compared with the release's   *)
(* checksum, moved into place and started.  The relaunched desktop serves  *)
(* its new version to the companion, which reloads its unpacked folder     *)
(* once for each pair of differing versions.                               *)
(* (main.js:843-1042, 3205-3218, lib/app-update.js, src/renderer.js:384-486, *)
(* 6030-6033, extension/background.js:375-405, extension/update-state.js)  *)
(*                                                                         *)
(* Releases are numbered; 0 stands for none.  A received installer is      *)
(* "good" when its hash is the one in the release's checksum file.         *)
(***************************************************************************)
EXTENDS Naturals, Sequences

CONSTANTS
  Jobs,          \* requests to install
  MaxVersion,    \* newest version ever published
  MaxUnread,      \* messages the dashboard may still have to render at a click
  MaxTrouble     \* failed requests, crashes, rollbacks, incomplete installations

ASSUME UpdateAssumption ==
  /\ MaxVersion \in Nat \ {0} /\ MaxUnread \in Nat /\ MaxTrouble \in Nat
  /\ {"timer", "operator"} \cap Jobs = {}

VARIABLES
  latest,      \* newest release on the server
  app,         \* the desktop: its version, and whether automation is on
  offer,       \* availableUpdatePlan
  discovery,   \* updateDiscoveryPromise: who waits for it, {} when there is none
  installing,  \* updateInFlight
  job,         \* how far each request has come; its release, at first the one it was made for
  temp,        \* the .download file of a version: who created it, what it holds
  dest,        \* the installer of a version
  ran,         \* the installer last started
  outbox,      \* states and replies on their way to the dashboard
  panel,       \* what the dashboard last rendered
  folder,      \* version of the extension's files
  ext,         \* the companion: its version, readers of `attempt', reload timer
  attempt,     \* versionReloadState: the transition attempted last
  reloads,     \* reloads since either version last changed
  trouble

updateVars == <<latest, app, offer, discovery, installing, job, temp, dest, ran, outbox, panel,
                folder, ext, attempt, reloads, trouble>>
dashboard == <<outbox, panel>>
companion == <<folder, ext, attempt, reloads>>
installer == <<temp, dest, ran>>

Versions == 1 .. MaxVersion
NoFile == [data |-> "none"]
NoJob == [step |-> "idle", plan |-> 0]

UpdateInit ==
  /\ latest = 1 /\ app = [version |-> 1, on |-> FALSE] /\ offer = 0
  /\ discovery = {} /\ installing = FALSE
  /\ job = [j \in Jobs |-> NoJob]
  /\ temp = [v \in Versions |-> NoFile] /\ dest = [v \in Versions |-> NoFile] /\ ran = NoFile
  /\ outbox = <<>> /\ panel = [status |-> "idle", version |-> 0]
  /\ folder = 1 /\ ext = [version |-> 1, reading |-> 0, timer |-> FALSE]
  /\ attempt = <<>> /\ reloads = 0 /\ trouble = 0

Trouble == trouble < MaxTrouble /\ trouble' = trouble + 1

-----------------------------------------------------------------------------
(* The dashboard.  States and replies come in the order they were sent; the *)
(* revision only keeps a snapshot from repeating a state.                   *)

Panel(status, version) == [status |-> status, version |-> version]

Publish(messages) == outbox' = outbox \o messages

InFlight == panel.status \in {"checking", "checksum", "downloading", "verifying", "installing"}

\* updateButtonMode: "Update" needs a version, in a state that keeps it.
Offers == panel.version # 0 /\ panel.status \notin {"idle", "current", "unavailable"}

RenderUpdaterState ==
  /\ outbox # <<>>
  /\ panel' = Head(outbox) /\ outbox' = Tail(outbox)
  /\ UNCHANGED <<latest, app, offer, discovery, installing, job, installer, companion, trouble>>

\* The approval dialog belongs to the dashboard's window and holds its clicks.
Clickable == ~InFlight /\ Len(outbox) <= MaxUnread /\ \A j \in Jobs : job[j].step # "asking"

-----------------------------------------------------------------------------
(* Checks.                                                                 *)

\* refreshUpdateAvailability: a check joins the one under way.
Refresh(who) ==
  /\ discovery' = discovery \cup {who}
  /\ IF discovery = {} THEN Publish(<<Panel("checking", offer)>>) ELSE UNCHANGED outbox

TimerAlways ==
  /\ "timer" \notin discovery /\ outbox = <<>>
  /\ Refresh("timer")
  /\ UNCHANGED <<latest, app, offer, installing, job, installer, panel, companion, trouble>>

\* At the start and every six hours, unless an update is being installed.
Timer == ~installing /\ TimerAlways

RequestUpdateCheck ==
  /\ Clickable /\ ~Offers /\ "operator" \notin discovery
  /\ Refresh("operator")
  /\ panel' = Panel("checking", 0)
  /\ UNCHANGED <<latest, app, offer, installing, job, installer, companion, trouble>>

SelectUpdate == IF latest > app.version THEN latest ELSE 0

\* The reply to the operator's check, rendered like a state.
CheckReply(status, version) ==
  IF "operator" \notin discovery THEN <<>>
  ELSE <<Panel(IF status = "error" THEN "idle" ELSE status, IF status = "available" THEN version ELSE 0)>>

WaitingJobs == Jobs \cap discovery

InstallReply(status, version) == IF WaitingJobs = {} THEN <<>> ELSE <<Panel(status, version)>>

Discovered ==
  /\ discovery # {} /\ discovery' = {}
  /\ offer' = SelectUpdate
  /\ job' = [j \in Jobs |-> IF j \notin WaitingJobs THEN job[j]
                            ELSE IF offer' = 0 THEN NoJob ELSE [step |-> "asking", plan |-> offer']]
  /\ installing' = (installing /\ (WaitingJobs = {} \/ offer' # 0))
  /\ LET status == IF offer' = 0 THEN "current" ELSE "available"
     IN Publish(<<Panel(status, offer')>> \o CheckReply(status, offer')
                \o (IF offer' = 0 THEN InstallReply("current", 0) ELSE <<>>))
  /\ UNCHANGED <<latest, app, installer, panel, companion, trouble>>

\* Of a request that finds no release the dashboard shows the version it was made for.
ShownVersion == IF offer # 0 \/ WaitingJobs = {} THEN offer
                ELSE job[CHOOSE j \in WaitingJobs : TRUE].plan

DiscoveryFails ==
  /\ discovery # {} /\ discovery' = {}
  /\ Trouble
  /\ job' = [j \in Jobs |-> IF j \in WaitingJobs THEN NoJob ELSE job[j]]
  /\ installing' = (installing /\ WaitingJobs = {})
  /\ Publish(<<Panel("error", offer)>> \o CheckReply("error", 0) \o InstallReply("error", ShownVersion))
  /\ UNCHANGED <<latest, app, offer, installer, panel, companion>>

-----------------------------------------------------------------------------
(* An installation.                                                        *)

RefusedWhileBusy == installing

RequestAppUpdate(j) ==
  /\ Clickable /\ Offers /\ job[j] = NoJob
  /\ panel' = Panel("checking", panel.version)
  /\ IF RefusedWhileBusy
     THEN Publish(<<Panel("available", IF offer # 0 THEN offer ELSE panel.version)>>)
          /\ UNCHANGED <<installing, job, discovery>>
     ELSE /\ installing' = TRUE
          /\ job' = [job EXCEPT ![j] = [step |-> "finding", plan |-> panel.version]]
          /\ Refresh(j)
  /\ UNCHANGED <<latest, app, offer, installer, companion, trouble>>

Over(j) == job' = [job EXCEPT ![j] = NoJob] /\ installing' = FALSE

\* Nobody answers the dialog before the dashboard has rendered what was sent to it.
Confirmable(j) == job[j].step = "asking" /\ outbox = <<>>

Decline(j) ==
  /\ Confirmable(j)
  /\ Over(j)
  /\ Publish(<<Panel("cancelled", job[j].plan), Panel("cancelled", job[j].plan)>>)
  /\ UNCHANGED <<latest, app, offer, discovery, installer, panel, companion, trouble>>

Approve(j) ==
  /\ Confirmable(j)
  /\ job' = [job EXCEPT ![j].step = "checksum"]
  /\ Publish(<<Panel("checksum", job[j].plan)>>)
  /\ UNCHANGED <<latest, app, offer, discovery, installing, installer, panel, companion, trouble>>

\* The checksum file has come; the temporary file is made anew.
Download(j) ==
  /\ job[j].step = "checksum"
  /\ job' = [job EXCEPT ![j].step = "downloading"]
  /\ temp' = [temp EXCEPT ![job[j].plan] = [by |-> j, data |-> "part"]]
  /\ Publish(<<Panel("downloading", job[j].plan)>>)
  /\ UNCHANGED <<latest, app, offer, discovery, installing, dest, ran, panel, companion, trouble>>

UpdateFails(j) ==
  /\ Over(j)
  /\ Publish(<<Panel("error", offer), Panel("error", offer)>>)
  /\ UNCHANGED <<latest, app, offer, discovery, dest, ran, panel, companion>>

\* A request breaks off, or what came has another size or another hash.
DownloadFails(j) ==
  /\ job[j].step \in {"checksum", "downloading"}
  /\ Trouble
  /\ temp' = IF job[j].step = "downloading" THEN [temp EXCEPT ![job[j].plan] = NoFile] ELSE temp
  /\ UpdateFails(j)

\* What the running job wrote is in the file it made, if that is still there.
Written(j) ==
  LET t == temp[job[j].plan]
  IN IF t # NoFile /\ t.by = j THEN [t EXCEPT !.data = "good"] ELSE t

\* The hash is right: the file is moved into place, automation is switched off and
\* the installer started.
Install(j) ==
  LET v == job[j].plan
  IN /\ job[j].step = "downloading"
     /\ IF Written(j) = NoFile
        THEN temp' = temp /\ UpdateFails(j) /\ UNCHANGED trouble
        ELSE /\ dest' = [dest EXCEPT ![v] = Written(j)]
             /\ temp' = [temp EXCEPT ![v] = NoFile]
             /\ ran' = dest'[v]
             /\ app' = [app EXCEPT !.on = FALSE]
             /\ job' = [job EXCEPT ![j].step = "installing"]
             /\ Publish(<<Panel("verifying", v), Panel("installing", v)>>)
             /\ UNCHANGED <<latest, offer, discovery, installing, panel, companion, trouble>>

SpawnFails(j) == job[j].step = "installing" /\ Trouble /\ UpdateFails(j) /\ UNCHANGED temp

\* The process is gone: a crash, or the quit after the installer has started.
Starts(v) ==
  /\ app' = [version |-> v, on |-> FALSE]
  /\ offer' = 0 /\ discovery' = {} /\ installing' = FALSE
  /\ job' = [j \in Jobs |-> NoJob]
  /\ outbox' = <<>> /\ panel' = Panel("idle", 0)

\* Replacing the desktop takes seconds, a reload that was begun a quarter of one.
ReloadOver == ext.reading = 0 /\ ~ext.timer

\* The installer replaces the desktop, and the companion's folder unless a file was held.
Relaunch(j) ==
  /\ job[j].step = "installing" /\ ReloadOver
  /\ Starts(job[j].plan)
  /\ \/ folder' = job[j].plan /\ UNCHANGED trouble
     \/ Trouble /\ UNCHANGED folder
  /\ reloads' = 0
  /\ UNCHANGED <<latest, installer, ext, attempt>>

DesktopCrash == Trouble /\ Starts(app.version) /\ UNCHANGED <<latest, installer, companion>>

\* The operator puts an older version back.
Rollback ==
  /\ app.version > 1 /\ ReloadOver /\ Trouble
  /\ Starts(app.version - 1)
  /\ folder' \in {folder, app.version - 1}
  /\ reloads' = 0
  /\ UNCHANGED <<latest, installer, ext, attempt>>

Release ==
  /\ latest < MaxVersion /\ latest' = latest + 1
  /\ UNCHANGED <<app, offer, discovery, installing, job, installer, dashboard, companion, trouble>>

SwitchOn ==
  /\ ~app.on /\ app' = [app EXCEPT !.on = TRUE]
  /\ UNCHANGED <<latest, offer, discovery, installing, job, installer, dashboard, companion, trouble>>

-----------------------------------------------------------------------------
(* The companion.                                                          *)

desktopSide == <<latest, app, offer, discovery, installing, job, installer, dashboard, folder>>

\* acceptDesktopIdentity: equal versions forget the attempt.
AcceptDesktopIdentity ==
  /\ ext.version = app.version /\ attempt # <<>> /\ attempt' = <<>>
  /\ UNCHANGED <<desktopSide, ext, reloads, trouble>>

Transition == <<ext.version, app.version>>
AttemptedNever == FALSE
Attempted == attempt = Transition

\* Two configurations may be fetched at once: each reads `attempt' before it writes it.
ReadMark ==
  /\ ext.version # app.version /\ ~Attempted /\ ext.reading < 2
  /\ ext' = [ext EXCEPT !.reading = @ + 1]
  /\ UNCHANGED <<desktopSide, attempt, reloads, trouble>>

WriteMark ==
  /\ ext.reading > 0
  /\ attempt' = Transition
  /\ ext' = [ext EXCEPT !.reading = @ - 1, !.timer = TRUE]
  /\ UNCHANGED <<desktopSide, reloads, trouble>>

Reload ==
  /\ ext.timer
  /\ ext' = [version |-> folder, reading |-> 0, timer |-> FALSE]
  /\ reloads' = IF folder = ext.version THEN reloads + 1 ELSE 0
  /\ UNCHANGED <<desktopSide, attempt, trouble>>

\* The worker is stopped, and its timer with it.
WorkerStops ==
  /\ Trouble
  /\ ext' = [ext EXCEPT !.reading = 0, !.timer = FALSE]
  /\ UNCHANGED <<desktopSide, attempt, reloads>>

UpdateNext ==
  \/ RenderUpdaterState \/ Timer \/ RequestUpdateCheck \/ Discovered \/ DiscoveryFails
  \/ \E j \in Jobs : \/ RequestAppUpdate(j) \/ Decline(j) \/ Approve(j) \/ Download(j)
                     \/ DownloadFails(j) \/ Install(j) \/ SpawnFails(j) \/ Relaunch(j)
  \/ DesktopCrash \/ Rollback \/ Release \/ SwitchOn
  \/ AcceptDesktopIdentity \/ ReadMark \/ WriteMark \/ Reload \/ WorkerStops

UpdateSpec == UpdateInit /\ [][UpdateNext]_updateVars

-----------------------------------------------------------------------------
(* Properties.                                                             *)

\* From approval on, nothing but the installation speaks through the updater's state:
\* no check, whether the timer's or one of the operator's clicks that was on its way,
\* runs beside it and replaces the progress or the plan.
InstallUndisturbed == (\E j \in Jobs : job[j].step \notin {"idle", "finding"}) => discovery = {}

\* README.md:346, test/update-state.test.js:13: the companion does not reload in a
\* loop.  While neither version changes it reloads at most once, with configurations
\* fetched side by side, and with a folder the installer has left as it was.
ReloadsOnce == reloads <= 1
=============================================================================
