------------------------------ MODULE RunMode ------------------------------
(***************************************************************************)
(* The desktop's run mode, which every way of opening a page looks at, and *)
(* the epoch that tells work begun before a Stop from work begun after it. *)
(***************************************************************************)
EXTENDS Naturals

CONSTANTS
  MaxEpoch,   \* bound: Stops, changes of an armed mode and restarts
  MaxNow      \* bound: the clock's last minute

ASSUME RunModeAssumption == {MaxEpoch, MaxNow} \subseteq Nat

Modes == {"stopped", "monitor", "autopilot", "signals"}

VARIABLES
  mode,    \* stopped: monitoringPaused; the others: not paused, and purchaseRunMode
  epoch,   \* stopEpoch
  now      \* Date.now(), in minutes

runMode == <<mode, epoch, now>>

Armed == mode \in {"autopilot", "signals"}

RunModeInit == mode = "stopped" /\ epoch = 0 /\ now = 0

NextEpoch == epoch < MaxEpoch /\ epoch' = epoch + 1

\* stop-all, and the pause before an update is installed.
StopAll == mode' = "stopped" /\ NextEpoch /\ UNCHANGED now

\* Every launch starts stopped.  Nothing of the old process runs on, as if the
\* epoch had changed.
Restart == mode' = "stopped" /\ NextEpoch /\ UNCHANGED now

\* save-settings turns a purchase mode on, off or into the other one.  Turning it
\* on resumes monitoring; turning it off does not pause.
SaveMode(m) ==
  /\ m # mode /\ m # "stopped"
  /\ m = "monitor" => Armed
  /\ mode' = m
  /\ IF Armed THEN NextEpoch ELSE UNCHANGED epoch
  /\ UNCHANGED now

\* An explicit Open resumes monitoring and changes no mode.
ResumeMonitoring ==
  /\ mode = "stopped"
  /\ mode' = "monitor"
  /\ UNCHANGED <<epoch, now>>

Minute == now < MaxNow /\ now' = now + 1 /\ UNCHANGED <<mode, epoch>>
=============================================================================
