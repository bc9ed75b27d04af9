----------------------------- MODULE SleepCycle -----------------------------
(***************************************************************************)
(* The rest of the PRS-T1's loop (runtime.rs): the power key, the trigger  *)
(* and the events of synchronization, the hand-off of a new bundle, sleep  *)
(* and wake.  What the pages ask of it (Shell) is an event here.           *)
(*                                                                         *)
(* A pass reads every waiting event, starts and polls a synchronization,   *)
(* hands a bundle over, and then sleeps, restarts or draws.                *)
(***************************************************************************)
EXTENDS Naturals

VARIABLES
  button,       \* the power key: "up", "down", "long" (for two seconds)
  power,        \* power_press_us: "none", "recent", "old" (two seconds)
  ignorePower,  \* within two seconds of a wake
  powerAction,  \* the power action of this pass
  syncActive,   \* the state holds that an attempt is under way
  taskBusy,     \* the task does
  wakeSync, manualSync,
  approval,     \* the address to approve the attempt at is shown
  bundleReady,  \* a published bundle waits to be opened
  loop          \* where the loop is

syncState == <<syncActive, taskBusy, wakeSync, manualSync, approval, bundleReady>>
keys == <<button, power, ignorePower>>
sleepVars == <<keys, powerAction, syncState, loop>>

LoopPhases == {"reading", "polling", "ending", "asleep", "ended"}
Actions == {"none", "Sleep", "Reboot", "PowerOff"}

\* The runtime starts a synchronization before its first pass.
SleepInit ==
  /\ button = "up" /\ power = "none" /\ ignorePower = FALSE /\ powerAction = "none"
  /\ syncActive = TRUE /\ taskBusy = TRUE /\ wakeSync = FALSE /\ manualSync = FALSE
  /\ approval = FALSE /\ bundleReady = FALSE /\ loop = "reading"

-----------------------------------------------------------------------------
(* observe_power.  A press that was never seen released is kept.           *)

Press ==
  /\ loop = "reading" /\ button = "up" /\ button' = "down"
  /\ power' = IF ~ignorePower /\ power = "none" THEN "recent" ELSE power
  /\ UNCHANGED <<ignorePower, powerAction, syncState, loop>>

Release ==
  /\ loop = "reading" /\ button # "up" /\ button' = "up"
  /\ ignorePower' = FALSE
  /\ power' = IF ignorePower THEN power ELSE "none"
  /\ powerAction' = IF ignorePower THEN powerAction ELSE IF power = "old" THEN "Reboot" ELSE "Sleep"
  /\ UNCHANGED <<syncState, loop>>

\* What the pages ask for, in Shell.
Ask ==
  /\ loop = "reading"
  /\ \/ manualSync' = TRUE /\ UNCHANGED powerAction
     \/ powerAction' \in {"Reboot", "PowerOff"} /\ UNCHANGED manualSync
  /\ UNCHANGED <<keys, syncActive, taskBusy, wakeSync, approval, bundleReady, loop>>

\* Two seconds pass.
TwoSecondsPass ==
  /\ loop \in {"reading", "asleep"}
  /\ power' = IF power = "recent" THEN "old" ELSE power
  /\ button' = IF button = "down" THEN "long" ELSE button
  /\ ignorePower' = FALSE
  /\ UNCHANGED <<powerAction, syncState, loop>>

-----------------------------------------------------------------------------
(* Synchronization and the hand-off.                                       *)

\* take_sync_trigger and start_requested_sync: a trigger is taken whether or
\* not an attempt can be started.
EndOfEvents ==
  /\ loop = "reading" /\ loop' = "polling"
  /\ wakeSync' = FALSE
  /\ manualSync' = (wakeSync /\ manualSync)
  /\ IF (wakeSync \/ manualSync) /\ ~taskBusy
     THEN syncActive' = TRUE /\ taskBusy' = TRUE /\ approval' = FALSE
     ELSE UNCHANGED <<syncActive, taskBusy, approval>>
  /\ UNCHANGED <<keys, powerAction, bundleReady>>

\* try_event and apply_sync_event
Approve ==
  /\ loop = "polling" /\ taskBusy /\ approval' = TRUE
  /\ UNCHANGED <<keys, powerAction, syncActive, taskBusy, wakeSync, manualSync, bundleReady, loop>>

FinishTask ==
  /\ loop = "polling" /\ taskBusy
  /\ taskBusy' = FALSE /\ syncActive' = FALSE /\ approval' = FALSE
  /\ bundleReady' \in {bundleReady, TRUE}
  /\ UNCHANGED <<keys, powerAction, wakeSync, manualSync, loop>>

\* A bundle is opened when nobody has touched the device for two seconds; a
\* reload that fails is tried again in the next pass.
HandOff ==
  /\ loop = "polling" /\ loop' = "ending"
  /\ bundleReady' \in IF powerAction = "none" THEN {bundleReady, FALSE} ELSE {bundleReady}
  /\ UNCHANGED <<keys, powerAction, syncActive, taskBusy, wakeSync, manualSync, approval>>

-----------------------------------------------------------------------------
(* The end of a pass.                                                      *)

\* Mutant: the attempt is dropped from the state, and the task keeps it.
FaultyCancelTask == syncActive' = FALSE /\ approval' = FALSE /\ UNCHANGED taskBusy

\* SyncTask::cancel and sync_cancelled
CancelTask == syncActive' = FALSE /\ approval' = FALSE /\ taskBusy' = FALSE

\* A display that fails ends the shell, after a clean-up.
DrawPass ==
  /\ loop = "ending" /\ powerAction = "none"
  /\ \/ loop' = "reading" /\ UNCHANGED syncState
     \/ loop' = "ended" /\ CancelTask /\ UNCHANGED <<wakeSync, manualSync, bundleReady>>
  /\ UNCHANGED <<keys, powerAction>>

\* Nobody holds the power key for the five minutes of inactivity.
Inactive == powerAction = "none" /\ ~syncActive /\ button = "up"

\* sleep_cycle up to the wait for the display.
Sleep ==
  /\ loop = "ending" /\ (powerAction = "Sleep" \/ Inactive)
  /\ IF syncActive THEN CancelTask ELSE UNCHANGED <<syncActive, taskBusy, approval>>
  /\ loop' \in {"asleep", "ended"}
  /\ wakeSync' = FALSE
  /\ UNCHANGED <<keys, powerAction, manualSync, bundleReady>>

\* wait_for_display_wake reads every event and acts on none but to wake.
Swallow ==
  /\ loop = "asleep"
  /\ button' = IF button = "up" THEN "down" ELSE "up"
  /\ UNCHANGED <<power, ignorePower, powerAction, syncState, loop>>

Wake ==
  /\ loop = "asleep" /\ loop' \in {"reading", "ended"}
  /\ powerAction' = "none" /\ wakeSync' = TRUE /\ ignorePower' = TRUE
  /\ UNCHANGED <<button, power, syncActive, taskBusy, manualSync, approval, bundleReady>>

Restart ==
  /\ loop = "ending" /\ powerAction \in {"Reboot", "PowerOff"} /\ loop' = "ended"
  /\ UNCHANGED <<keys, powerAction, syncState>>

SleepNext ==
  \/ Press \/ Release \/ Ask \/ TwoSecondsPass \/ EndOfEvents \/ Approve \/ FinishTask \/ HandOff
  \/ DrawPass \/ Sleep \/ Swallow \/ Wake \/ Restart

SleepSpec == SleepInit /\ [][SleepNext]_sleepVars

-----------------------------------------------------------------------------
(* Properties.                                                             *)

SleepTypeOK ==
  /\ button \in {"up", "down", "long"} /\ power \in {"none", "recent", "old"}
  /\ ignorePower \in BOOLEAN /\ powerAction \in Actions /\ loop \in LoopPhases
  /\ {syncActive, taskBusy, wakeSync, manualSync, approval, bundleReady} \subseteq BOOLEAN

\* The state and the task agree on whether an attempt is under way, an
\* approval is shown only for one that is, and the synchronization a wake
\* asks for (wake_sync_requested) is never dropped for one still counted.
WakeIsNotDropped ==
  /\ syncActive <=> taskBusy
  /\ approval => syncActive
  /\ wakeSync => ~taskBusy

=============================================================================
