---------------------------- MODULE WifiLifecycle ---------------------------
(***************************************************************************)
(* The Wi-Fi of the PRS-T1 around one operation (wifi.rs): `wifi-up`,      *)
(* `wifi-down`, `wifi-probe`, a synchronization attempt, and the clean-up  *)
(* after a cancelled attempt.  Driver, supplicant and dhcpcd are programs  *)
(* of the device that helpers and properties start and stop; each of them  *)
(* may refuse, crash, or answer late.  The operations of the command line  *)
(* block; an attempt waits at `await` points and can be dropped there.     *)
(***************************************************************************)
EXTENDS Naturals, Sequences, FiniteSets

CONSTANTS
  Sockets,          \* number of paths the supplicant's socket may be at
  AssociationPolls, \* polls before ASSOCIATION_TIMEOUT
  DhcpPolls,        \* polls before DHCP_TIMEOUT
  StopPolls         \* polls before DHCP_STOP_TIMEOUT

ASSUME PollsAssumption ==
  /\ Sockets \in Nat \ {0}
  /\ {AssociationPolls, DhcpPolls, StopPolls} \subseteq Nat \ {0}

VARIABLES
  driver,      \* the driver is loaded
  supplicant,  \* wpa_supplicant
  dhcp,        \* init.svc.dhcpcd
  lease,       \* dhcp.wlan0.result: written by dhcpcd, never reset by the agent
  op,          \* the operation that runs
  stage,       \* where it is
  polls,       \* polls made in the current wait
  started,     \* result of the start-up, or of the client behind it
  failures,    \* the shut-down steps that failed
  report       \* what the last operation reported

wifi == <<driver, supplicant, dhcp, lease>>
wifiVars == <<wifi, op, stage, polls, started, failures, report>>

Operations == {"up", "down", "probe", "sync"}
Steps == {"stop_dhcp", "stop_supplicant", "unload_driver"}
WifiStages == {"idle", "load_driver", "start_supplicant", "associate", "start_dhcp", "await_lease",
           "client", "await_stop"} \union Steps

WifiInit ==
  /\ driver = FALSE /\ supplicant = "stopped" /\ dhcp = "stopped" /\ lease = "none"
  /\ op = "none" /\ stage = "idle" /\ polls = 0 /\ started = TRUE
  /\ failures = {} /\ report = "none"

-----------------------------------------------------------------------------
(* One read of the supplicant's status.                                    *)

Answers == {"completed", "associating", "stateless", "protocol", "denied",
            "timeout", "unavailable", "missing"}

\* What the paths can answer: a socket file may outlive its supplicant, and
\* only a supplicant that completed an association says so.
Answerable ==
  IF supplicant = "stopped" THEN {"denied", "unavailable", "missing"}
  ELSE {"associating", "stateless", "protocol", "denied", "timeout", "unavailable", "missing"}
         \union (IF supplicant = "completed" THEN {"completed"} ELSE {})

\* The paths are tried in order until one of them decides.
Decisive == {"completed", "associating", "stateless", "protocol", "denied"}

AssociationStatus(answers) ==
  LET decided == {i \in DOMAIN answers : answers[i] \in Decisive}
      heard == {answers[i] : i \in DOMAIN answers}
  IN  IF decided # {} THEN answers[CHOOSE i \in decided : \A j \in decided : i <= j]
      ELSE IF "timeout" \in heard THEN "timeout"
      ELSE IF "unavailable" \in heard THEN "unavailable"
      ELSE "missing"

\* A status without a state, and any state but COMPLETED, only uses up time.
AssociationFails(status) ==
  \/ status = "denied"
  \/ status \notin {"completed", "associating", "stateless"} /\ supplicant = "stopped"
  \/ status # "completed" /\ polls + 1 >= AssociationPolls

-----------------------------------------------------------------------------
(* Stages.                                                                 *)

GoToStage(next) == stage' = next /\ polls' = 0

\* Every failure of the start-up leads to the whole shut-down.
StartupFails == GoToStage("stop_dhcp") /\ started' = FALSE

\* A helper or setprop may fail before or after it had its effect.
Helper(effect, otherwise, onSuccess, onFailure) ==
  \/ effect /\ onSuccess
  \/ (effect \/ otherwise) /\ onFailure

BeginOperation(o) ==
  /\ stage = "idle"
  /\ op' = o
  /\ GoToStage(IF o = "down" THEN "stop_dhcp" ELSE "load_driver")
  /\ started' = TRUE /\ failures' = {} /\ report' = "none"
  /\ UNCHANGED wifi

LoadDriver ==
  /\ stage = "load_driver"
  /\ Helper(driver' = TRUE, driver' = driver,
            GoToStage("start_supplicant") /\ UNCHANGED started, StartupFails)
  /\ UNCHANGED <<supplicant, dhcp, lease, op, failures, report>>

StartSupplicant ==
  /\ stage = "start_supplicant"
  /\ Helper(supplicant' = IF supplicant = "stopped" THEN "running" ELSE supplicant,
            supplicant' = supplicant,
            GoToStage("associate") /\ UNCHANGED started, StartupFails)
  /\ UNCHANGED <<driver, dhcp, lease, op, failures, report>>

WaitForAssociation ==
  /\ stage = "associate"
  /\ \E answers \in [1 .. Sockets -> Answerable] :
       LET status == AssociationStatus(answers) IN
         \/ AssociationFails(status) /\ StartupFails
         \/ status = "completed" /\ GoToStage("start_dhcp") /\ UNCHANGED started
         \/ /\ status # "completed" /\ ~AssociationFails(status)
            /\ polls' = polls + 1
            /\ UNCHANGED <<stage, started>>
  /\ UNCHANGED <<wifi, op, failures, report>>

StartDhcp ==
  /\ stage = "start_dhcp"
  /\ Helper(dhcp' = "running", dhcp' = dhcp,
            GoToStage("await_lease") /\ UNCHANGED started, StartupFails)
  /\ UNCHANGED <<driver, supplicant, lease, op, failures, report>>

\* The property is all that is read: whoever wrote it.  getprop may fail.
WaitForDhcp ==
  /\ stage = "await_lease"
  /\ \/ /\ lease = "bound"
        /\ GoToStage(IF op = "up" THEN "idle" ELSE "client")
        /\ report' = IF op = "up" THEN "success" ELSE report
        /\ UNCHANGED started
     \/ /\ IF polls + 1 >= DhcpPolls
           THEN StartupFails
           ELSE polls' = polls + 1 /\ UNCHANGED <<stage, started>>
        /\ UNCHANGED report
  /\ UNCHANGED <<wifi, op, failures>>

\* The probe, or the synchronization client of module DeviceSync.
Client ==
  /\ stage = "client"
  /\ started' \in BOOLEAN
  /\ GoToStage("stop_dhcp")
  /\ UNCHANGED <<wifi, op, failures, report>>

\* Whatever setprop answers, the service's state is waited for.
StopDhcp ==
  /\ stage = "stop_dhcp"
  /\ Helper(dhcp' = IF dhcp = "running" THEN "stopping" ELSE dhcp, dhcp' = dhcp,
            UNCHANGED failures, failures' = failures \union {"stop_dhcp"})
  /\ GoToStage("await_stop")
  /\ UNCHANGED <<driver, supplicant, lease, op, started, report>>

\* Mutant: a service that has not stopped in time is stopped again.
FaultyWaitForDhcpStop ==
  /\ stage = "await_stop"
  /\ \/ dhcp = "stopped" /\ GoToStage("stop_supplicant")
     \/ IF polls + 1 >= StopPolls THEN GoToStage("stop_dhcp")
        ELSE polls' = polls + 1 /\ UNCHANGED stage
  /\ UNCHANGED <<wifi, op, started, failures, report>>

WaitForDhcpStop ==
  /\ stage = "await_stop"
  /\ \/ dhcp = "stopped" /\ GoToStage("stop_supplicant") /\ UNCHANGED failures
     \/ IF polls + 1 >= StopPolls
        THEN GoToStage("stop_supplicant") /\ failures' = failures \union {"stop_dhcp"}
        ELSE polls' = polls + 1 /\ UNCHANGED <<stage, failures>>
  /\ UNCHANGED <<wifi, op, started, report>>

\* Mutant: the shut-down returns with the first step that fails.
FaultyStopSupplicant ==
  /\ stage = "stop_supplicant"
  /\ \/ supplicant' = "stopped" /\ GoToStage("unload_driver") /\ UNCHANGED <<failures, report>>
     \/ /\ GoToStage("idle") /\ report' = "failure" /\ UNCHANGED supplicant
        /\ failures' = failures \union {"stop_supplicant"}
  /\ UNCHANGED <<driver, dhcp, lease, op, started>>

\* The later steps are taken whatever became of the earlier ones.
StopSupplicant ==
  /\ stage = "stop_supplicant"
  /\ Helper(supplicant' = "stopped", supplicant' = supplicant,
            UNCHANGED failures, failures' = failures \union {"stop_supplicant"})
  /\ GoToStage("unload_driver")
  /\ UNCHANGED <<driver, dhcp, lease, op, started, report>>

UnloadDriver ==
  /\ stage = "unload_driver"
  /\ Helper(driver' = FALSE, driver' = driver,
            UNCHANGED failures, failures' = failures \union {"unload_driver"})
  /\ GoToStage("idle")
  /\ report' = IF started /\ failures' = {} THEN "success" ELSE "failure"
  /\ UNCHANGED <<supplicant, dhcp, lease, op, started>>

\* Sleep, or a redraw that fails, drops an attempt at an await and shuts
\* Wi-Fi down from the beginning; the report is that of this clean-up.
Cancel ==
  /\ op = "sync" /\ stage \in {"associate", "await_lease", "client", "await_stop"}
  /\ op' = "cancel"
  /\ GoToStage("stop_dhcp")
  /\ failures' = {} /\ started' = TRUE
  /\ UNCHANGED <<wifi, report>>

\* The process ends; what it started stays.
Die ==
  /\ stage # "idle"
  /\ GoToStage("idle")
  /\ report' = "killed"
  /\ UNCHANGED <<wifi, op, started, failures>>

WifiStep ==
  \/ LoadDriver \/ StartSupplicant \/ WaitForAssociation \/ StartDhcp \/ WaitForDhcp
  \/ Client \/ StopDhcp \/ WaitForDhcpStop \/ StopSupplicant \/ UnloadDriver

-----------------------------------------------------------------------------
(* The device's programs, driven by the radio and by the network.          *)

SupplicantMoves ==
  /\ supplicant' \in IF supplicant = "stopped" THEN {} ELSE {"stopped", "running", "completed"}
  /\ supplicant' # supplicant
  /\ UNCHANGED <<driver, dhcp, lease, op, stage, polls, started, failures, report>>

DhcpMoves ==
  /\ \/ dhcp = "running" /\ lease' \in {"bound", "failed"} \ {lease} /\ UNCHANGED dhcp
     \/ dhcp # "stopped" /\ dhcp' = "stopped" /\ lease' \in {lease, "failed"}
  /\ UNCHANGED <<driver, supplicant, op, stage, polls, started, failures, report>>

Environment == SupplicantMoves \/ DhcpMoves

WifiNext == (\E o \in Operations : BeginOperation(o)) \/ WifiStep \/ Cancel \/ Die \/ Environment

WifiFairness == WF_wifiVars(WifiStep)

WifiSpec == WifiInit /\ [][WifiNext]_wifiVars /\ WifiFairness

-----------------------------------------------------------------------------
(* Properties.                                                             *)

WifiTypeOK ==
  /\ driver \in BOOLEAN
  /\ supplicant \in {"stopped", "running", "completed"}
  /\ dhcp \in {"stopped", "running", "stopping"}
  /\ lease \in {"none", "bound", "failed"}
  /\ op \in Operations \union {"none", "cancel"} /\ stage \in WifiStages
  /\ polls \in Nat /\ started \in BOOLEAN /\ failures \subseteq Steps
  /\ report \in {"none", "success", "failure", "killed"}

\* What is on when an operation that has to leave Wi-Fi off is over, for any
\* reason but the end of the process, is on because its own shut-down step
\* failed and was reported; a successful operation leaves nothing on.  Steps
\* after a failed one are taken all the same (README: "attempts all three
\* cleanup steps even when one step fails").
LeftOnIsReported ==
  (stage = "idle" /\ report \in {"success", "failure"} /\ ~(op = "up" /\ report = "success")) =>
    /\ dhcp # "stopped" => "stop_dhcp" \in failures
    /\ supplicant # "stopped" => "stop_supplicant" \in failures
    /\ driver => "unload_driver" \in failures
    /\ failures # {} => report = "failure"

\* Every operation ends, whatever the supplicant, dhcpcd and the helpers do:
\* each wait of the start-up and of the shut-down has a limit of its own.
OperationEnds == (stage # "idle") ~> (stage = "idle")

=============================================================================
