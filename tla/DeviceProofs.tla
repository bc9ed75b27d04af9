---------------------------- MODULE DeviceProofs ----------------------------
(***************************************************************************)
(* Proofs about the PRS-T1.  Settings: without a bound on what a loss of   *)
(* power chooses from, display, reader, shell and file agree and no torn   *)
(* file survives.  WifiLifecycle: what an operation leaves on is on because*)
(* its own step failed, and that was reported.  SleepCycle: state and task *)
(* agree on the attempt.  Shell, for any points of the screen: what the    *)
(* user asked of the reader is done before the pass ends, a tap activates  *)
(* only what the finger was put on, and the history is a path to the page  *)
(* shown; the last needs that focus and finger only find what a page shows,*)
(* which is proved of the layout of the pages (Screen).  Display: the      *)
(* controller never copies a mixture of frames, the panel shows what was   *)
(* drawn where the draw vouches for it, and the page is refreshed in       *)
(* quality within the configured number of turns.  The last section proves *)
(* of each component that every step keeps the types of its variables.     *)
(***************************************************************************)
EXTENDS Settings, WifiLifecycle, SleepCycle, Shell, Display, WellFoundedInduction, TLAPS

-----------------------------------------------------------------------------
(* Settings.                                                               *)

\* A save writes the settings of the process and renames what is on disk; the
\* file that is named is among those that may survive.
SaveInv ==
  /\ preferences \in Chosen
  /\ stored \in survivors
  /\ saving # "idle" => process = "running"
  /\ saving \in {"sync", "rename"} => temporary.content = preferences
  /\ saving = "rename" => temporary.synced = TRUE
  /\ saving \in {"sync", "rename"} =>
       temporary = [content |-> temporary.content, synced |-> temporary.synced]

SettingsIInv == SaveInv /\ SettingsAgree

\* The settings that are there without a file are valid ones.
LEMMA Loads ==
  /\ Default \in Chosen
  /\ Torn \notin Chosen
  /\ NoFile # Torn
  /\ \A content : Loaded(content) \in Chosen
  /\ \A content \in Chosen : Loaded(content) = content
BY DEF Default, Chosen, Torn, NoFile, Loaded, Turns, Scales

\* The process is not running.
LEMMA SettingsInitInv == SettingsInit => SettingsIInv
BY Loads DEF SettingsInit, SettingsIInv, SaveInv, SettingsAgree

\* The start, and a change of orientation or font size.
LEMMA ChangesKeep ==
  ASSUME SettingsIInv,
         Launch \/ FrameworkStops \/ AwaitFramework \/ Start \/ ChangeOrientation \/ ChangeFails \/ ChangeFont
  PROVE  SettingsIInv'
<1>1. SaveInv /\ SettingsAgree BY DEF SettingsIInv
<1> USE DEF fileState, turns, life, Idle
<1>2. CASE Launch BY <1>1, <1>2 DEF Launch, SettingsIInv, SaveInv, SettingsAgree
<1>3. CASE FrameworkStops BY <1>1, <1>3 DEF FrameworkStops, SettingsIInv, SaveInv, SettingsAgree
<1>4. CASE AwaitFramework BY <1>1, <1>4 DEF AwaitFramework, SettingsIInv, SaveInv, SettingsAgree
<1>5. CASE Start
  <2>1. /\ UNCHANGED <<stored, survivors>> /\ process' = "running" /\ saving' = "idle"
        /\ preferences' = Loaded(stored) /\ preferences' \in Chosen
        /\ shellTurn' = preferences'.turn /\ displayTurn' = preferences'.turn
        /\ readerTurn' = preferences'.turn
    BY <1>5, Loads DEF Start
  <2>2. SaveInv' BY <1>1, <2>1 DEF SaveInv
  <2>3. SettingsAgree' BY <1>1, <2>1 DEF SettingsAgree, Loaded
  <2> QED BY <2>2, <2>3 DEF SettingsIInv
<1>6. CASE ChangeOrientation
  <2>1. /\ UNCHANGED <<stored, survivors, process>> /\ saving' = "create" /\ process = "running"
    BY <1>6 DEF ChangeOrientation
  <2>2. PICK new \in Turns :
          /\ displayTurn' = new /\ readerTurn' = new /\ shellTurn' = new
          /\ preferences' = [preferences EXCEPT !.turn = new]
    BY <1>6 DEF ChangeOrientation
  <2>3. preferences' \in Chosen /\ preferences'.turn = new BY <1>1, <2>2 DEF SaveInv, Chosen
  <2>4. SaveInv' BY <1>1, <2>1, <2>3 DEF SaveInv
  <2>5. SettingsAgree' BY <1>1, <2>1, <2>2, <2>3 DEF SettingsAgree
  <2> QED BY <2>4, <2>5 DEF SettingsIInv
<1>7. CASE ChangeFails
  <2>1. /\ UNCHANGED <<stored, survivors, temporary, saving, process, preferences, unsaved, shellTurn, readerTurn>>
        /\ (displayTurn' = shellTurn /\ UNCHANGED skewed) \/ skewed' = TRUE
    BY <1>7 DEF ChangeFails, RollBack
  <2>2. SaveInv' BY <1>1, <2>1 DEF SaveInv
  <2>3. SettingsAgree' BY <1>1, <2>1 DEF SettingsAgree, Loaded
  <2> QED BY <2>2, <2>3 DEF SettingsIInv
<1>8. CASE ChangeFont
  <2>1. /\ UNCHANGED <<stored, survivors, process, shellTurn, displayTurn, readerTurn, skewed>>
        /\ saving' = "create" /\ process = "running"
    BY <1>8 DEF ChangeFont
  <2>2. PICK scale \in Scales : preferences' = [preferences EXCEPT !.scale = scale]
    BY <1>8 DEF ChangeFont, NewScales
  <2>3. preferences' \in Chosen /\ preferences'.turn = preferences.turn
    BY <1>1, <2>2 DEF SaveInv, Chosen
  <2>4. SaveInv' BY <1>1, <2>1, <2>3 DEF SaveInv
  <2>5. SettingsAgree' BY <1>1, <2>1, <2>3 DEF SettingsAgree
  <2> QED BY <2>4, <2>5 DEF SettingsIInv
<1> QED BY <1>2, <1>3, <1>4, <1>5, <1>6, <1>7, <1>8

\* The steps of a save: what is renamed is complete, on disk, and what the
\* process holds.
LEMMA SavingKeeps ==
  ASSUME SettingsIInv,
         CreateTemporary \/ WriteTemporary \/ SyncTemporary \/ RenameTemporary \/ SaveFails
  PROVE  SettingsIInv'
<1>1. SaveInv /\ SettingsAgree BY DEF SettingsIInv
<1> USE DEF fileState, turns, life
<1>2. CASE CreateTemporary BY <1>1, <1>2 DEF CreateTemporary, SettingsIInv, SaveInv, SettingsAgree, Loaded
<1>3. CASE WriteTemporary BY <1>1, <1>3 DEF WriteTemporary, SettingsIInv, SaveInv, SettingsAgree, Loaded
<1>4. CASE SyncTemporary
  <2>1. /\ saving = "sync" /\ saving' = "rename" /\ temporary' = [temporary EXCEPT !.synced = TRUE]
        /\ UNCHANGED <<stored, survivors, preferences, turns, life, unsaved>>
    BY <1>4 DEF SyncTemporary, Synchronized
  <2>2. temporary'.content = preferences /\ temporary'.synced = TRUE
        /\ temporary' = [content |-> temporary'.content, synced |-> temporary'.synced]
    BY <1>1, <2>1 DEF SaveInv
  <2>3. SaveInv' BY <1>1, <2>1, <2>2 DEF SaveInv
  <2>4. SettingsAgree' BY <1>1, <2>1 DEF SettingsAgree
  <2> QED BY <2>3, <2>4 DEF SettingsIInv
<1>5. CASE RenameTemporary
  <2>1. /\ saving = "rename" /\ saving' = "idle" /\ stored' = temporary.content
        /\ survivors' = survivors \union {stored'} \union (IF temporary.synced THEN {} ELSE {Torn})
        /\ UNCHANGED <<preferences, shellTurn, displayTurn, readerTurn, skewed, process>>
    BY <1>5 DEF RenameTemporary
  <2>2. stored' = preferences /\ temporary.synced = TRUE BY <1>1, <2>1 DEF SaveInv
  <2>3. survivors' = survivors \union {preferences} BY <2>1, <2>2
  <2>4. SaveInv' BY <1>1, <2>1, <2>2, <2>3 DEF SaveInv
  <2>5. Torn \notin survivors' /\ Loaded(stored') = preferences'
    BY <1>1, <2>1, <2>2, <2>3, Loads DEF SaveInv, SettingsAgree
  <2>6. SettingsAgree' BY <1>1, <2>1, <2>5 DEF SettingsAgree, Loaded
  <2> QED BY <2>4, <2>6 DEF SettingsIInv
<1>6. CASE SaveFails BY <1>1, <1>6 DEF SaveFails, SettingsIInv, SaveInv, SettingsAgree, Loaded
<1> QED BY <1>2, <1>3, <1>4, <1>5, <1>6

\* The file system, and the ends of the process.
LEMMA EndsKeep == ASSUME SettingsIInv, Settle \/ Kill \/ LosePower PROVE SettingsIInv'
<1>1. SaveInv /\ SettingsAgree BY DEF SettingsIInv
<1> USE DEF fileState, turns, life
<1>2. CASE Settle BY <1>1, <1>2 DEF Settle, SettingsIInv, SaveInv, SettingsAgree, Loaded
<1>3. CASE Kill BY <1>1, <1>3, Loads DEF Kill, Forgotten, SettingsIInv, SaveInv, SettingsAgree
<1>4. CASE LosePower BY <1>1, <1>4, Loads DEF LosePower, Forgotten, SettingsIInv, SaveInv, SettingsAgree
<1> QED BY <1>2, <1>3, <1>4

\* Every step keeps the invariant.
LEMMA SettingsNextInv == SettingsIInv /\ [SettingsNext]_settingsVars => SettingsIInv'
<1> SUFFICES ASSUME SettingsIInv, [SettingsNext]_settingsVars PROVE SettingsIInv' OBVIOUS
<1>1. CASE UNCHANGED settingsVars
  BY <1>1 DEF settingsVars, fileState, turns, life, SettingsIInv, SaveInv, SettingsAgree, Loaded
<1>2. CASE SettingsNext BY <1>2, ChangesKeep, SavingKeeps, EndsKeep DEF SettingsNext
<1> QED BY <1>1, <1>2

-----------------------------------------------------------------------------

\* The invariant the theorem below follows from.
THEOREM SettingsInductive == SettingsSpec => []SettingsIInv
<1> QED BY SettingsInitInv, SettingsNextInv, PTL DEF SettingsSpec

\* No loss of power leaves a torn file, and all parts of the shell agree with
\* the settings, and those with the file, unless a failure was reported.
THEOREM Agreement == SettingsSpec => []SettingsAgree
<1>1. SettingsIInv => SettingsAgree BY DEF SettingsIInv
<1> QED BY SettingsInductive, <1>1, PTL

-----------------------------------------------------------------------------
(* WifiLifecycle.                                                          *)

\* What a shut-down has passed is off, or its failure has been noted: for the
\* stages behind each step, and for the end, when that is not a killed
\* process or a successful start.
PassedStepsInv ==
  LET over == stage = "idle" /\ report \in {"success", "failure"}
                /\ ~(op = "up" /\ report = "success")
  IN  /\ over \/ stage \in {"stop_supplicant", "unload_driver"} =>
           (dhcp # "stopped" => "stop_dhcp" \in failures)
      /\ over \/ stage = "unload_driver" =>
           (supplicant # "stopped" => "stop_supplicant" \in failures)
      /\ over => /\ driver => "unload_driver" \in failures
                 /\ failures # {} => report = "failure"

\* Before the tool starts no step has been passed.
LEMMA WifiInitInv == WifiInit => PassedStepsInv
BY DEF WifiInit, PassedStepsInv, WifiStages, Steps, Operations

\* The steps of a start-up, and the client behind it, come before any step of
\* the shut-down, and only a successful `wifi-up` ends there.
LEMMA StartupKeeps ==
  ASSUME PassedStepsInv,
         LoadDriver \/ StartSupplicant \/ WaitForAssociation \/ StartDhcp \/ WaitForDhcp \/ Client
  PROVE  PassedStepsInv'
<1> USE DEF PassedStepsInv, WifiStages, Steps, Operations, wifi, GoToStage,
            StartupFails, Helper
<1>1. CASE LoadDriver BY <1>1 DEF LoadDriver
<1>2. CASE StartSupplicant BY <1>2 DEF StartSupplicant
<1>3. CASE WaitForAssociation
  <2>1. UNCHANGED <<wifi, op, failures, report>> BY <1>3 DEF WaitForAssociation
  <2>2. stage = "associate" BY <1>3 DEF WaitForAssociation
  <2>3. \/ stage' = "stop_dhcp" /\ polls' = 0 /\ started' = FALSE
        \/ stage' = "start_dhcp" /\ polls' = 0 /\ UNCHANGED started
        \/ polls' = polls + 1 /\ UNCHANGED <<stage, started>>
    BY <1>3 DEF WaitForAssociation
  <2> QED BY <2>1, <2>2, <2>3
<1>4. CASE StartDhcp BY <1>4 DEF StartDhcp
<1>5. CASE WaitForDhcp BY <1>5 DEF WaitForDhcp
<1>6. CASE Client BY <1>6 DEF Client
<1> QED BY <1>1, <1>2, <1>3, <1>4, <1>5, <1>6

\* Each step of the shut-down goes on to the next, with its own failure noted.
LEMMA ShutdownKeeps ==
  ASSUME PassedStepsInv, StopDhcp \/ WaitForDhcpStop \/ StopSupplicant \/ UnloadDriver
  PROVE  PassedStepsInv'
<1> USE DEF PassedStepsInv, WifiStages, Steps, Operations, wifi, GoToStage,
            Helper
<1>1. CASE StopDhcp BY <1>1 DEF StopDhcp
<1>2. CASE WaitForDhcpStop BY <1>2 DEF WaitForDhcpStop
<1>3. CASE StopSupplicant BY <1>3 DEF StopSupplicant
<1>4. CASE UnloadDriver BY <1>4 DEF UnloadDriver
<1> QED BY <1>1, <1>2, <1>3, <1>4

\* Whatever else happens: what the supplicant and dhcpcd do of themselves
\* never starts one that has stopped.
LEMMA OthersKeep ==
  ASSUME PassedStepsInv, (\E o \in Operations : BeginOperation(o)) \/ Cancel \/ Die \/ Environment
  PROVE  PassedStepsInv'
<1> USE DEF PassedStepsInv, WifiStages, Steps, Operations, wifi, GoToStage
<1>1. CASE \E o \in Operations : BeginOperation(o) BY <1>1 DEF BeginOperation
<1>2. CASE Cancel BY <1>2 DEF Cancel
<1>3. CASE Die BY <1>3 DEF Die
<1>4. CASE SupplicantMoves BY <1>4 DEF SupplicantMoves
<1>5. CASE DhcpMoves BY <1>5 DEF DhcpMoves
<1> QED BY <1>1, <1>2, <1>3, <1>4, <1>5 DEF Environment

\* Every step of the life cycle keeps the invariant.
LEMMA WifiNextInv == PassedStepsInv /\ [WifiNext]_wifiVars => PassedStepsInv'
<1> SUFFICES ASSUME PassedStepsInv, [WifiNext]_wifiVars PROVE PassedStepsInv' OBVIOUS
<1>1. CASE UNCHANGED wifiVars
  BY <1>1 DEF wifiVars, wifi, PassedStepsInv
<1>2. CASE WifiNext BY <1>2, StartupKeeps, ShutdownKeeps, OthersKeep DEF WifiNext, WifiStep
<1> QED BY <1>1, <1>2

\* The invariant of the operation, of which the theorem below is a part.
THEOREM WifiInductive == WifiSpec => []PassedStepsInv
<1> QED BY WifiInitInv, WifiNextInv, PTL DEF WifiSpec

\* What an operation leaves on is on because its own step failed, and that
\* was reported: cancelled, crashed and refusing programs included.
THEOREM LeftOnReported == WifiSpec => []LeftOnIsReported
<1>1. PassedStepsInv => LeftOnIsReported BY DEF PassedStepsInv, LeftOnIsReported
<1> QED BY WifiInductive, <1>1, PTL

-----------------------------------------------------------------------------
(* SleepCycle.                                                             *)

\* The type invariant, and that nothing is under way while the device sleeps.
SleepInv ==
  /\ SleepTypeOK
  /\ loop = "asleep" => ~taskBusy

SleepIInv == SleepInv /\ WakeIsNotDropped

\* The runtime starts with an attempt under way.
LEMMA SleepInitInv == SleepInit => SleepIInv
BY DEF SleepInit, SleepIInv, SleepInv, SleepTypeOK, WakeIsNotDropped, Actions, LoopPhases

\* The power key, what the pages ask for and the clock leave the attempt alone.
LEMMA KeysKeep ==
  ASSUME SleepIInv, Press \/ Release \/ Ask \/ TwoSecondsPass \/ Swallow \/ Restart \/ HandOff
  PROVE  SleepIInv'
<1> USE DEF SleepIInv, SleepInv, SleepTypeOK, WakeIsNotDropped, Actions, LoopPhases, syncState, keys
<1>1. CASE Press BY <1>1 DEF Press
<1>2. CASE Release BY <1>2 DEF Release
<1>3. CASE Ask BY <1>3 DEF Ask
<1>4. CASE TwoSecondsPass BY <1>4 DEF TwoSecondsPass
<1>5. CASE Swallow BY <1>5 DEF Swallow
<1>6. CASE Restart BY <1>6 DEF Restart
<1>7. CASE HandOff BY <1>7 DEF HandOff
<1> QED BY <1>1, <1>2, <1>3, <1>4, <1>5, <1>6, <1>7

\* An attempt begins when the trigger is taken, and ends in state and task at
\* once; none is under way when a wake asks for one.
LEMMA AttemptsKeep ==
  ASSUME SleepIInv, EndOfEvents \/ Approve \/ FinishTask \/ DrawPass \/ Sleep \/ Wake
  PROVE  SleepIInv'
<1> USE DEF SleepIInv, SleepInv, SleepTypeOK, WakeIsNotDropped, Actions, LoopPhases, syncState, keys
<1>1. CASE EndOfEvents BY <1>1 DEF EndOfEvents
<1>2. CASE Approve BY <1>2 DEF Approve
<1>3. CASE FinishTask BY <1>3 DEF FinishTask
<1>4. CASE DrawPass
  <2>1. UNCHANGED <<button, power, ignorePower, powerAction, wakeSync, manualSync, bundleReady>>
    BY <1>4 DEF DrawPass
  <2>2. CASE UNCHANGED syncState /\ loop' = "reading" BY <2>1, <2>2
  <2>3. CASE CancelTask /\ loop' = "ended" BY <2>1, <2>3 DEF CancelTask
  <2> QED BY <1>4, <2>2, <2>3 DEF DrawPass
<1>5. CASE Sleep BY <1>5 DEF Sleep, CancelTask
<1>6. CASE Wake BY <1>6 DEF Wake
<1> QED BY <1>1, <1>2, <1>3, <1>4, <1>5, <1>6

\* Every step keeps the invariant.
LEMMA SleepNextInv == SleepIInv /\ [SleepNext]_sleepVars => SleepIInv'
<1> SUFFICES ASSUME SleepIInv, [SleepNext]_sleepVars PROVE SleepIInv' OBVIOUS
<1>1. CASE UNCHANGED sleepVars
  BY <1>1 DEF sleepVars, syncState, keys, SleepIInv, SleepInv, SleepTypeOK, WakeIsNotDropped
<1>2. CASE SleepNext BY <1>2, KeysKeep, AttemptsKeep DEF SleepNext
<1> QED BY <1>1, <1>2

\* The invariant of the loop, of which the two theorems below are parts.
THEOREM SleepInductive == SleepSpec => []SleepIInv
<1> QED BY SleepInitInv, SleepNextInv, PTL DEF SleepSpec

\* State and task agree on the attempt, and the synchronization a wake asks
\* for is never met by one still counted.
THEOREM WakeKept == SleepSpec => []WakeIsNotDropped
<1>1. SleepIInv => WakeIsNotDropped BY DEF SleepIInv
<1> QED BY SleepInductive, <1>1, PTL

-----------------------------------------------------------------------------
(* Shell: what the user asked of the reader.                               *)

\* Between the events nothing is asked for but, after the inverted control
\* of a tap was drawn, the return to the entry point.
NothingAsked == ~tap /\ ~turn /\ operation \in {"none", "entry"}

RequestInv ==
  /\ phase \in PassPhases
  /\ phase # "applying" \/ dirty = "action" => NothingAsked

\* The shell starts reading events with nothing asked of the reader.
LEMMA RequestInitInv == ShellInit => RequestInv
BY DEF ShellInit, RequestInv, NothingAsked, PassPhases

\* An event that leaves an inverted control to be drawn asks the reader for
\* nothing, with the exception of the return to the entry point.
LEMMA ActivateAsks ==
  ASSUME NothingAsked, NEW control, Activate(control)
  PROVE  dirty' = "action" => NothingAsked'
BY DEF NothingAsked, NoRequest, requests, Activate

\* A tap that leaves an inverted control to be drawn asks for no more than the
\* return to the entry point.
LEMMA TapAsks ==
  ASSUME NothingAsked, ActivateTap
  PROVE  dirty' = "action" => NothingAsked'
<1> USE DEF NothingAsked, NoRequest, requests, Only
<1>1. CASE \E control : Activate(control) BY <1>1, ActivateAsks
<1>2. CASE ~ \E control : Activate(control) BY <1>2 DEF ActivateTap
<1> QED BY <1>1, <1>2

\* So does any event of the touch screen or the keys.
LEMMA EventAsks ==
  ASSUME NothingAsked, TouchEvent \/ KeyEvent
  PROVE  dirty' = "action" => NothingAsked'
<1> USE DEF NothingAsked, NoRequest, requests, Only
<1>1. CASE \E p \in TouchPoints : Move(p) BY <1>1 DEF Move, Invert
<1>2. CASE Contact BY <1>2 DEF Contact
<1>3. CASE Lift BY <1>3 DEF Lift
<1>4. CASE ButtonUp BY <1>4, TapAsks DEF ButtonUp
<1>5. CASE Report BY <1>5, TapAsks DEF Report
<1>6. CASE LateInversion BY <1>6 DEF LateInversion, Invert
<1>7. CASE \E forward \in BOOLEAN : PageKey(forward) BY <1>7 DEF PageKey
<1>8. CASE HomeKey BY <1>8 DEF HomeKey
<1>9. CASE BackKey BY <1>9 DEF BackKey
<1>10. CASE MenuPress BY <1>10 DEF MenuPress
<1>11. CASE MenuRepeat BY <1>11 DEF MenuRepeat
<1>12. CASE MenuRelease BY <1>12, ActivateAsks DEF MenuRelease
<1> QED
  BY <1>1, <1>2, <1>3, <1>4, <1>5, <1>6, <1>7, <1>8, <1>9, <1>10, <1>11, <1>12
  DEF TouchEvent, KeyEvent

\* A step of the loop keeps RequestInv: a request is made while events are
\* applied and gone when the pass ends.
LEMMA RequestNextInv == RequestInv /\ [ShellNext]_shellVars => RequestInv'
<1> SUFFICES ASSUME RequestInv, [ShellNext]_shellVars PROVE RequestInv' OBVIOUS
<1> USE DEF RequestInv, PassPhases
<1>1. CASE Event
  <2>1. NothingAsked BY <1>1 DEF Event
  <2> QED BY <1>1, <2>1, EventAsks DEF Event
<1>2. CASE Apply BY <1>2 DEF Apply, NothingAsked, requests
<1>3. CASE NoMoreEvents BY <1>3 DEF NoMoreEvents, NothingAsked, requests
<1>4. CASE FinishPass BY <1>4 DEF FinishPass, NothingAsked, requests
<1>5. CASE SecondPasses BY <1>5 DEF SecondPasses, NothingAsked, requests
<1>6. CASE UNCHANGED shellVars BY <1>6 DEF shellVars, NothingAsked, requests
<1> QED BY <1>1, <1>2, <1>3, <1>4, <1>5, <1>6 DEF ShellNext

\* What was asked of the reader is done before the pass ends that read it.
THEOREM RequestsCarriedOut == ShellSpec => []RequestsAreCarriedOut
<1>1. RequestInv => RequestsAreCarriedOut BY DEF RequestInv, NothingAsked, RequestsAreCarriedOut
<1> QED BY RequestInitInv, RequestNextInv, <1>1, PTL DEF ShellSpec

-----------------------------------------------------------------------------
(* Shell: what a tap activates.                                            *)

\* A finger on the screen is known by the control it was put on, and only its
\* lift is waited for; what a tap activated is forgotten with the next event.
TouchInv ==
  /\ DOMAIN touch = DOMAIN NoTouch
  /\ touch.down => touch.known /\ touch.action = began
  /\ touch.releasing => touch.down
  /\ activated # NoControl => activated = began /\ phase = "applying"

\* The screen is untouched when the shell starts.
LEMMA TouchInitInv == ShellInit => TouchInv
BY DEF ShellInit, TouchInv, NoTouch

\* The request of a control has nothing to do with the touch.
LEMMA TapActivates ==
  ASSUME TouchInv, touch.down, ActivateTap, UNCHANGED began, phase = "reading", phase' = "applying"
  PROVE  TouchInv'
<1> DEFINE control == IF touch.action # NoControl THEN touch.action
                      ELSE IF ~touch.known /\ IsSettingsPage THEN Hit(touch.at) ELSE NoControl
<1>1. touch' = [NoTouch EXCEPT !.at = touch.at] BY DEF ActivateTap
<1>2. UNCHANGED activated \/ (control # NoControl /\ activated' = control)
  BY DEF ActivateTap
<1>3. control # NoControl => control = began BY DEF TouchInv
<1> QED BY <1>1, <1>2, <1>3 DEF TouchInv, NoTouch

\* Every event of the touch screen keeps what the shell knows of the finger.
LEMMA TouchEventKeeps ==
  ASSUME TouchInv, TouchEvent, phase = "reading", phase' = "applying"
  PROVE  TouchInv'
<1> USE DEF TouchInv, NoTouch
<1>1. CASE \E p \in TouchPoints : Move(p) BY <1>1 DEF Move, Invert
<1>2. CASE Contact BY <1>2 DEF Contact, BeginTouch
<1>3. CASE Lift BY <1>3 DEF Lift
<1>4. CASE ButtonUp BY <1>4, TapActivates DEF ButtonUp
<1>5. CASE Report BY <1>5, TapActivates DEF Report
<1>6. CASE LateInversion BY <1>6 DEF LateInversion, Invert
<1> QED BY <1>1, <1>2, <1>3, <1>4, <1>5, <1>6 DEF TouchEvent

\* Every step of the loop keeps it.
LEMMA TouchNextInv == TouchInv /\ [ShellNext]_shellVars => TouchInv'
<1> SUFFICES ASSUME TouchInv, [ShellNext]_shellVars PROVE TouchInv' OBVIOUS
<1> USE DEF TouchInv
<1>1. CASE Event BY <1>1, TouchEventKeeps DEF Event, KeyEvent
<1>2. CASE Apply BY <1>2 DEF Apply
<1>3. CASE NoMoreEvents BY <1>3 DEF NoMoreEvents
<1>4. CASE FinishPass BY <1>4 DEF FinishPass
<1>5. CASE SecondPasses BY <1>5 DEF SecondPasses
<1>6. CASE UNCHANGED shellVars BY <1>6 DEF shellVars
<1> QED BY <1>1, <1>2, <1>3, <1>4, <1>5, <1>6 DEF ShellNext

\* A tap activates only what the finger was put on.
THEOREM ActivationsAreDeliberate == ShellSpec => []DeliberateActivation
<1>1. TouchInv => DeliberateActivation BY DEF TouchInv, DeliberateActivation
<1> QED BY TouchInitInv, TouchNextInv, <1>1, PTL DEF ShellSpec

-----------------------------------------------------------------------------
(* Screen: what a finger and the focus find.                               *)

\* A nonempty set of numbers has a least one.
LEMMA LeastNumber ==
  ASSUME NEW S, S \subseteq Nat, S # {}
  PROVE  \E n \in S : \A m \in S : n <= m
<1>1. PICK n \in S : \A m \in S : ~ (<<m, n>> \in OpToRel(<, Nat))
  BY WFMin, NatLessThanWellFounded, Zenon
<1>2. \A m \in S : n <= m
  <2> SUFFICES ASSUME NEW m \in S PROVE n <= m OBVIOUS
  <2>1. m \in Nat /\ n \in Nat OBVIOUS
  <2>2. ~(m < n) BY <1>1, <2>1, Zenon DEF OpToRel
  <2> QED BY <2>1, <2>2
<1> QED BY <1>2

\* The controls of each page.
LEMMA ControlSets ==
  /\ ControlsOn("menu") = {"OpenReading", "OpenSynchronization", "OpenDeviceDiagnostics", "BackToReading"}
  /\ ControlsOn("reading") = {"Orientation", "ShowStatusBar", "FontDecrease", "FontReset", "FontIncrease",
                              "ReadingProgress", "ReturnToEntryPoint", "BackToSettings"}
  /\ ControlsOn("sync") = {"SyncNow", "BackToSettings"}
  /\ ControlsOn("device") = {"DebugMessages", "DisplayTest", "Reboot", "PowerOff", "BackToSettings"}
  /\ ControlsOn("confirm") = {"CancelPowerAction", "ConfirmPower"}
  /\ ControlsOn("home") = {} /\ ControlsOn("test") = {}
BY DEF ControlsOn, ToSet, Controls

FontControls == {"FontDecrease", "FontReset", "FontIncrease"}
Placements == [portrait : 0 .. 520, landscape : 0 .. 520, height : 0 .. 48, column : {0, 1, WholeWidth}]

\* The table of the controls' places stays within these bounds.
LEMMA PlacementBounds ==
  ASSUME NEW p \in Pages, NEW c \in ControlsOn(p)
  PROVE  Placement(p, c) \in Placements
<1> USE DEF Placement, Place, WholeWidth, Placements
<1>1. CASE p = "menu" BY <1>1, ControlSets
<1>2. CASE p = "reading" BY <1>2, ControlSets
<1>3. CASE p = "sync" BY <1>3, ControlSets
<1>4. CASE p = "device" BY <1>4, ControlSets
<1>5. CASE p = "confirm" BY <1>5, ControlSets
<1> QED BY <1>1, <1>2, <1>3, <1>4, <1>5 DEF Pages

Rows == [left : 0 .. 412, top : 0 .. 520, width : 0 .. 752, height : 0 .. 48]

\* The row of such a place lies on the screen in either orientation.
LEMMA RowBounds ==
  ASSUME NEW place \in Placements, NEW o \in Orientations
  PROVE  Row(place, o) \in Rows
<1>1. /\ place.portrait \in 0 .. 520 /\ place.landscape \in 0 .. 520 /\ place.height \in 0 .. 48
      /\ place.column \in {0, 1, WholeWidth}
  BY DEF Placements
<1>2. CASE o = "portrait"
  <2>1. Row(place, o) = Region(24, place.portrait, 552, place.height)
    BY <1>2 DEF Row, Width, Margin
  <2> QED BY <1>1, <2>1 DEF Region, Rows
<1>3. CASE o = "landscape"
  <2>1. \/ Row(place, o) = Region(24, place.landscape, 752, place.height)
        \/ Row(place, o) = Region(24, place.landscape, 364, place.height)
        \/ Row(place, o) = Region(412, place.landscape, 364, place.height)
    BY <1>1, <1>3 DEF Row, Width, Margin, ColumnGap, WholeWidth
  <2> QED BY <1>1, <2>1 DEF Region, Rows
<1> QED BY <1>2, <1>3 DEF Orientations

\* Every control of a page begins on the screen.
LEMMA CornersOnScreen ==
  ASSUME NEW p \in Pages, NEW o \in Orientations, NEW c \in ControlsOn(p)
  PROVE  ActionRegion(p, c, o).top \in 0 .. 999 /\ ActionRegion(p, c, o).left \in 0 .. 999
<1> DEFINE row == Row(Placement(p, c), o)
<1>1. row \in Rows BY PlacementBounds, RowBounds
<1>2. p # "legacy" BY DEF Pages
<1> HIDE DEF row
<1>3. CASE c \notin FontControls
  <2>1. ActionRegion(p, c, o) = row BY <1>2, <1>3 DEF ActionRegion, FontControls, row
  <2> QED BY <1>1, <2>1 DEF Rows
<1>4. CASE c \in FontControls
  <2> DEFINE index == CASE c = "FontDecrease" -> 0 [] c = "FontReset" -> 1 [] OTHER -> 2
             third == [row EXCEPT !.width = (@ - 2 * ControlGap) \div 3]
  <2>1. ActionRegion(p, c, o) = [third EXCEPT !.left = @ + index * (third.width + ControlGap)]
    BY <1>2, <1>4, Zenon DEF ActionRegion, FontControls, row
  <2>2. third \in [left : 0 .. 412, top : 0 .. 520, width : -6 .. 250, height : 0 .. 48]
    BY <1>1 DEF ControlGap, Rows
  <2>3. index \in {0, 1, 2} BY <1>4 DEF FontControls
  <2> HIDE DEF index, third
  <2>4. PICK x \in 0 .. 412, step \in 2 .. 258 : x = third.left /\ step = third.width + ControlGap
    <3>1. third.left \in 0 .. 412 BY <2>2
    <3>2. third.width + ControlGap \in 2 .. 258 BY <2>2 DEF ControlGap
    <3> QED BY <3>1, <3>2
  <2>5. ActionRegion(p, c, o) = [third EXCEPT !.left = x + index * step] BY <2>1, <2>4
  <2>6. x + index * step \in 0 .. 999
    <3>1. CASE index = 0 BY <3>1
    <3>2. CASE index = 1 BY <3>2
    <3>3. CASE index = 2 BY <3>3
    <3> QED BY <2>3, <3>1, <3>2, <3>3
  <2>7. third.top \in 0 .. 999 BY <2>2
  <2>8. /\ ActionRegion(p, c, o).left = x + index * step
        /\ ActionRegion(p, c, o).top = third.top
    BY <2>2, <2>5
  <2> QED BY <2>6, <2>7, <2>8
<1> QED BY <1>3, <1>4

\* A nonempty set of numbers with a bound has a greatest one.
LEMMA GreatestNumber ==
  ASSUME NEW bound \in Nat, NEW S, S \subseteq Nat, \A n \in S : n <= bound, S # {}
  PROVE  \E n \in S : \A m \in S : m <= n
<1> DEFINE down == {bound - n : n \in S}
<1>1. down \subseteq Nat /\ down # {}
  <2>1. \A n \in S : bound - n \in Nat OBVIOUS
  <2> QED BY <2>1
<1>2. PICK k \in down : \A m \in down : k <= m
  <2> HIDE DEF down
  <2> QED BY <1>1, LeastNumber
<1>3. PICK n \in S : k = bound - n OBVIOUS
<1>4. \A m \in S : m <= n
  <2> SUFFICES ASSUME NEW m \in S PROVE m <= n OBVIOUS
  <2>1. k <= bound - m BY <1>2
  <2> QED BY <1>3, <2>1
<1> QED BY <1>4

\* The corner of a control as one number, which orders the controls.
CornerLimit == 999999
Number(left, top) == 1000 * top + left
CornerNumber(c, p, o) == Number(ActionRegion(p, c, o).left, ActionRegion(p, c, o).top)

\* The number of a corner on the screen is at most CornerLimit.
LEMMA NumberBounds ==
  ASSUME NEW x, x \in 0 .. 999, NEW y, y \in 0 .. 999
  PROVE  Number(x, y) \in Nat /\ Number(x, y) <= CornerLimit
BY SMT DEF CornerLimit, Number

\* The number orders corners by row, then by column.
LEMMA NumberOrder ==
  ASSUME NEW x, x \in 0 .. 999, NEW y, y \in 0 .. 999,
         NEW u, u \in 0 .. 999, NEW v, v \in 0 .. 999,
         y < v \/ (y = v /\ x < u)
  PROVE  Number(x, y) < Number(u, v)
BY SMT DEF Number

\* A control that precedes another in the order of focus has the smaller number.
LEMMA CornersOrder ==
  ASSUME NEW p \in Pages, NEW o \in Orientations, NEW c \in ControlsOn(p), NEW d \in ControlsOn(p)
  PROVE  /\ CornerNumber(c, p, o) \in Nat /\ CornerNumber(c, p, o) <= CornerLimit
         /\ Precedes(c, d, p, o) => CornerNumber(c, p, o) < CornerNumber(d, p, o)
<1>1. \A e \in ControlsOn(p) :
        ActionRegion(p, e, o).top \in 0 .. 999 /\ ActionRegion(p, e, o).left \in 0 .. 999
  BY CornersOnScreen
<1> DEFINE x == ActionRegion(p, c, o).left
           y == ActionRegion(p, c, o).top
           u == ActionRegion(p, d, o).left
           v == ActionRegion(p, d, o).top
<1>2. x \in 0 .. 999 /\ y \in 0 .. 999 /\ u \in 0 .. 999 /\ v \in 0 .. 999 BY <1>1
<1>3. Precedes(c, d, p, o) => y < v \/ (y = v /\ x < u) BY DEF Precedes
<1>4. CornerNumber(c, p, o) = Number(x, y) /\ CornerNumber(d, p, o) = Number(u, v)
  BY DEF CornerNumber
<1> HIDE DEF x, y, u, v
<1>5. Number(x, y) \in Nat /\ Number(x, y) <= CornerLimit BY <1>2, NumberBounds, ZenonT(30)
<1>6. y < v \/ (y = v /\ x < u) => Number(x, y) < Number(u, v) BY <1>2, NumberOrder, ZenonT(30)
<1> QED BY <1>3, <1>4, <1>5, <1>6

\* Of some controls of a page one is first and one is last.
LEMMA EndsOfControls ==
  ASSUME NEW p \in Pages, NEW o \in Orientations, NEW S, S \subseteq ControlsOn(p), S # {}
  PROVE  FirstOf(S, p, o) \in S /\ LastOf(S, p, o) \in S
<1> DEFINE numbers == {CornerNumber(c, p, o) : c \in S}
<1>1. \A c \in S : CornerNumber(c, p, o) \in Nat /\ CornerNumber(c, p, o) <= CornerLimit BY CornersOrder
<1>2. CornerLimit \in Nat BY SMT DEF CornerLimit
<1>3. numbers \subseteq Nat /\ numbers # {} BY <1>1
<1>4. \A n \in numbers : n <= CornerLimit BY <1>1
<1>5. PICK low \in numbers : \A m \in numbers : low <= m
  <2> HIDE DEF numbers
  <2> QED BY <1>3, LeastNumber
<1>6. PICK high \in numbers : \A m \in numbers : m <= high
  <2> HIDE DEF numbers
  <2> QED BY <1>2, <1>3, <1>4, GreatestNumber
<1>7. PICK c \in S : low = CornerNumber(c, p, o) OBVIOUS
<1>8. PICK d \in S : high = CornerNumber(d, p, o) OBVIOUS
<1>9. \A other \in S : ~Precedes(other, c, p, o)
  <2> SUFFICES ASSUME NEW other \in S, Precedes(other, c, p, o) PROVE FALSE OBVIOUS
  <2>1. CornerNumber(other, p, o) < CornerNumber(c, p, o) BY CornersOrder
  <2>2. CornerNumber(c, p, o) <= CornerNumber(other, p, o) BY <1>5, <1>7
  <2> QED BY <1>1, <1>2, <2>1, <2>2
<1>10. \A other \in S : ~Precedes(d, other, p, o)
  <2> SUFFICES ASSUME NEW other \in S, Precedes(d, other, p, o) PROVE FALSE OBVIOUS
  <2>1. CornerNumber(d, p, o) < CornerNumber(other, p, o) BY CornersOrder
  <2>2. CornerNumber(other, p, o) <= CornerNumber(d, p, o) BY <1>6, <1>8
  <2> QED BY <1>1, <1>2, <2>1, <2>2
<1> QED BY <1>9, <1>10 DEF FirstOf, LastOf

\* The focus is put on a control of the page, and moves to one.
LEMMA FocusOnPage ==
  ASSUME NEW p \in Pages, NEW o \in Orientations, NEW focus, NEW forward \in BOOLEAN
  PROVE  /\ FirstFocus(p, o) \in ControlsOn(p)
         /\ NextFocus(p, o, focus, forward) \in ControlsOn(p)
<1>1. ControlsOn(p) # {} BY ControlSets DEF Pages
<1>2. FirstFocus(p, o) \in ControlsOn(p) BY <1>1, EndsOfControls DEF FirstFocus
<1> DEFINE all == ControlsOn(p)
           beyond == {c \in all \ {focus} : focus \in all /\
                        IF forward THEN Precedes(focus, c, p, o) ELSE Precedes(c, focus, p, o)}
           candidates == IF beyond = {} THEN all ELSE beyond
<1>3. candidates \subseteq all /\ candidates # {} BY <1>1
<1>4. FirstOf(candidates, p, o) \in candidates /\ LastOf(candidates, p, o) \in candidates
  <2> HIDE DEF candidates
  <2> QED BY <1>3, EndsOfControls
<1>5. NextFocus(p, o, focus, forward) =
        IF forward THEN FirstOf(candidates, p, o) ELSE LastOf(candidates, p, o)
  BY Zenon DEF NextFocus
<1> HIDE DEF candidates
<1> QED BY <1>2, <1>3, <1>4, <1>5

\* A finger only hits what the page shows.
LEMMA HitsOnPage ==
  ASSUME NEW p, NEW o, NEW point
  PROVE  ActionAt(p, point, o) \in ControlsOn(p) \union {NoControl}
<1> DEFINE hit == {i \in DOMAIN Controls(p) :
                     \E r \in {ActionRegion(p, Controls(p)[i], o)} : Holds(r, point[1], point[2])}
<1>1. DOMAIN Controls(p) \subseteq Nat BY DEF Controls
<1>2. ASSUME hit # {} PROVE Min(hit) \in hit
  <2>1. hit \subseteq Nat BY <1>1
  <2> HIDE DEF hit
  <2> QED BY <1>2, <2>1, LeastNumber DEF Min
<1>3. ActionAt(p, point, o) = IF hit = {} THEN NoControl ELSE Controls(p)[Min(hit)]
  BY DEF ActionAt
<1>4. \A i \in DOMAIN Controls(p) : Controls(p)[i] \in ControlsOn(p) BY DEF ControlsOn, ToSet
<1> QED BY <1>2, <1>3, <1>4

-----------------------------------------------------------------------------
(* Shell: the pages one came through.                                      *)

SubPages == {"reading", "sync", "device"}

\* How many pages lie before a page, and which they are.
Depth(p) == CASE p = "home" -> 0 [] p = "menu" -> 1 [] p \in SubPages -> 2 [] OTHER -> 3
PageAt(i) == CASE i = 1 -> "home" [] i = 2 -> "menu" [] OTHER -> "device"

HistoryEntries == [page : Pages \union {"home"}, focus : AllControls]

PathInv ==
  /\ page \in Pages \union {"home", "test"}
  /\ history \in Seq(HistoryEntries) /\ Len(history) = Depth(page)
  /\ \A i \in 1 .. Len(history) :
       /\ history[i].page = PageAt(i)
       /\ history[i].focus \in IF i = 1 THEN {NoControl} ELSE ControlsOn(PageAt(i))
  /\ page = "menu" => settingsMenu
  /\ pendingPower # "none" => page = "confirm"
  /\ focused \in IF page \in Pages THEN ControlsOn(page) ELSE {NoControl}

PathIInv == orientation \in Orientations /\ PathInv

\* The shell starts at home with an empty history.
LEMMA PathInitInv == ShellInit => PathIInv
<1> SUFFICES ASSUME ShellInit PROVE PathIInv OBVIOUS
<1>0. history = <<>> /\ page = "home" BY DEF ShellInit
<1>1. history \in Seq(HistoryEntries) /\ Len(history) = 0 BY <1>0
<1>2. Depth(page) = 0 /\ page \notin Pages BY <1>0 DEF Depth, SubPages, Pages
<1>3. orientation \in Orientations BY DEF ShellInit, Orientations
<1> QED BY <1>1, <1>2, <1>3 DEF ShellInit, PathIInv, PathInv

\* The paths are what the property asks of the history.
LEMMA PathImplies == PathInv => HistoryIsPath
<1> SUFFICES ASSUME PathInv PROVE HistoryIsPath OBVIOUS
<1> DEFINE steps == Append([i \in DOMAIN history |-> history[i].page], page)
<1>1. history \in Seq(HistoryEntries) /\ DOMAIN history = 1 .. Depth(page) BY DEF PathInv
<1>2. DOMAIN steps = 1 .. Depth(page) + 1
      /\ \A i \in DOMAIN steps : steps[i] = IF i = Depth(page) + 1 THEN page ELSE PageAt(i)
  <2> DEFINE behind == [i \in DOMAIN history |-> history[i].page]
  <2>1. Depth(page) \in Nat BY DEF Depth
  <2>2. behind = [i \in 1 .. Depth(page) |-> PageAt(i)] BY <1>1 DEF PathInv
  <2> HIDE DEF behind
  <2> DEFINE names == Pages \union {"home", "test"}
  <2>3. page \in names /\ \A i \in Nat : PageAt(i) \in names BY DEF PathInv, PageAt, Pages
  <2> HIDE DEF names
  <2>4. behind \in Seq(names) /\ Len(behind) = Depth(page) BY <2>1, <2>2, <2>3
  <2>5. \A i \in 1 .. Depth(page) : behind[i] = PageAt(i) BY <2>2
  <2>6. steps = Append(behind, page) BY DEF behind
  <2> QED BY <2>1, <2>3, <2>4, <2>5, <2>6
<1>3. (page = "home") <=> (history = <<>>) BY <1>1 DEF PathInv, Depth, SubPages, Pages
<1>4. \A i \in DOMAIN steps :
        /\ (i = 1) <=> (steps[i] = "home")
        /\ i > 1 => steps[i - 1] = IF steps[i] = "test" THEN "device" ELSE Parent(steps[i])
  <2> HIDE DEF steps
  <2> QED BY <1>2 DEF PathInv, Depth, SubPages, Pages, PageAt, Parent
<1>5. \A i \in DOMAIN history :
        history[i].focus \in IF i = 1 THEN {NoControl} ELSE ControlsOn(history[i].page)
  BY <1>1 DEF PathInv
<1> QED BY <1>3, <1>4, <1>5, Zenon DEF PathInv, HistoryIsPath, IsSettingsPage

\* A page is opened from the page that leads to it, and remembered with the
\* focus it was left with; the limit of the history is never met.
LEMMA OpenKeeps ==
  ASSUME PathIInv, NEW next, Open(next),
         \/ page = "home" /\ next = "menu"
         \/ page = "menu" /\ next \in SubPages
         \/ page = "device" /\ next \in {"confirm", "test"},
         pendingPower' # "none" => next = "confirm"
  PROVE  PathInv'
<1> USE DEF PathIInv, PathInv
<1> DEFINE entry == [page |-> page, focus |-> focused]
           longer == Append(history, entry)
<1>1. page' = next /\ Depth(next) = Depth(page) + 1 /\ Depth(page) \in 0 .. 2
      /\ next \in Pages \union {"test"} /\ page \in Pages \union {"home"}
      /\ page = PageAt(Depth(page) + 1)
  BY DEF Open, Depth, SubPages, Pages, PageAt
<1>2. entry \in HistoryEntries
  <2>1. focused \in AllControls
    <3>1. \A p \in Pages : ControlsOn(p) \subseteq AllControls BY Zenon DEF AllControls
    <3>2. NoControl \in AllControls BY Zenon DEF AllControls
    <3> QED BY <3>1, <3>2
  <2> QED BY <1>1, <2>1 DEF HistoryEntries
<1>3. longer \in Seq(HistoryEntries) /\ Len(longer) = Depth(next)
      /\ \A i \in 1 .. Len(longer) : longer[i] = IF i = Depth(next) THEN entry ELSE history[i]
  BY <1>1, <1>2
<1>4. history' = longer BY <1>1, <1>3 DEF Open, HistoryLimit
<1>5. focused' \in IF next \in Pages THEN ControlsOn(next) ELSE {NoControl}
  BY <1>1, FocusOnPage, ControlSets DEF Open, FirstFocus
<1>6. focused \in IF page = "home" THEN {NoControl} ELSE ControlsOn(page)
  BY <1>1 DEF Pages
<1>7. next = "menu" => settingsMenu' BY DEF Open
<1>8. \A i \in 1 .. Len(history') :
        /\ history'[i].page = PageAt(i)
        /\ history'[i].focus \in IF i = 1 THEN {NoControl} ELSE ControlsOn(PageAt(i))
  <2> SUFFICES ASSUME NEW i \in 1 .. Depth(next)
               PROVE  /\ longer[i].page = PageAt(i)
                      /\ longer[i].focus \in IF i = 1 THEN {NoControl} ELSE ControlsOn(PageAt(i))
    BY <1>3, <1>4
  <2>1. CASE i = Depth(next)
    <3>1. longer[i].page = page /\ longer[i].focus = focused BY <1>3, <2>1
    <3>2. page = "home" <=> i = 1 BY <2>1, <1>1 DEF Depth, SubPages, Pages
    <3> QED BY <1>1, <1>6, <2>1, <3>1, <3>2
  <2>2. CASE i # Depth(next)
    <3>1. i \in 1 .. Len(history) BY <1>1, <2>2
    <3>2. longer[i] = history[i] BY <1>3, <2>2
    <3> QED BY <3>1, <3>2
  <2> QED BY <2>1, <2>2
<1> QED BY <1>1, <1>3, <1>4, <1>5, <1>7, <1>8 DEF Pages

\* Back opens the page before, as it was left.
LEMMA BackKeeps ==
  ASSUME PathIInv, Back, page # "home"
  PROVE  PathInv'
<1> USE DEF PathIInv, PathInv
<1> DEFINE n == Depth(page)
           entry == history[n]
<1>1. /\ n \in 1 .. 3 /\ Len(history) = n /\ history # <<>>
      /\ history \in Seq(HistoryEntries)
  BY DEF Depth, SubPages, Pages
<1>2. Last(history) = entry /\ Front(history) \in Seq(HistoryEntries)
      /\ Len(Front(history)) = n - 1
      /\ \A i \in 1 .. n - 1 : Front(history)[i] = history[i]
  BY <1>1 DEF Last, Front
<1>3. page' = entry.page /\ entry.page = PageAt(n) BY <1>1, <1>2 DEF Back
<1>4. Depth(PageAt(n)) = n - 1 /\ PageAt(n) \in Pages \union {"home"}
      /\ (PageAt(n) = "home" <=> n = 1) /\ (PageAt(n) = "menu" <=> n = 2)
  BY <1>1 DEF Depth, PageAt, SubPages, Pages
<1>5. history' = Front(history)
  <2>1. CASE n = 1
    <3>1. Front(history) = <<>> BY <1>2, <2>1
    <3> QED BY <1>1, <1>2, <1>3, <1>4, <2>1, <3>1 DEF Back
  <2>2. CASE n # 1 BY <1>1, <1>2, <1>3, <1>4, <2>2 DEF Back
  <2> QED BY <2>1, <2>2
<1>6. focused' \in IF page' \in Pages THEN ControlsOn(page') ELSE {NoControl}
  <2>1. focused' = IF entry.focus \in ControlsOn(entry.page) THEN entry.focus
                   ELSE FirstFocus(entry.page, orientation)
    BY <1>1, <1>2 DEF Back
  <2>2. CASE entry.page \in Pages BY <1>3, <2>1, <2>2, FocusOnPage
  <2>3. CASE entry.page = "home" BY <1>3, <2>1, <2>3, ControlSets DEF FirstFocus, Pages
  <2> QED BY <1>3, <1>4, <2>2, <2>3
<1>7. page' = "menu" => settingsMenu'
  <2>1. n = 2 => Front(history) # <<>>
    <3>1. n = 2 => 1 \in DOMAIN Front(history) BY <1>2
    <3> QED BY <3>1
  <2> QED BY <1>1, <1>2, <1>3, <1>4, <2>1 DEF Back
<1>8. pendingPower' # "none" => page' = "confirm" BY DEF Back
<1>9. \A i \in 1 .. Len(history') :
        /\ history'[i].page = PageAt(i)
        /\ history'[i].focus \in IF i = 1 THEN {NoControl} ELSE ControlsOn(PageAt(i))
  BY <1>1, <1>2, <1>5
<1> QED BY <1>1, <1>2, <1>3, <1>4, <1>5, <1>6, <1>7, <1>8, <1>9

\* Whatever is drawn again, the page stays.
LEMMA StayKeeps ==
  ASSUME PathInv, UNCHANGED pages
  PROVE  PathInv'
BY DEF PathInv, pages

\* Returning to the reader clears the history, and home needs none.
LEMMA ReturnKeeps ==
  ASSUME PathInv, ReturnToReader
  PROVE  PathInv'
<1>1. history' = <<>> /\ page' = "home" /\ focused' = NoControl /\ pendingPower' = "none"
  BY DEF ReturnToReader
<1>2. history' \in Seq(HistoryEntries) /\ Len(history') = 0 BY <1>1
<1>3. Depth("home") = 0 /\ "home" \notin Pages BY DEF Depth, SubPages, Pages
<1> QED BY <1>1, <1>2, <1>3 DEF PathInv

\* Only what the page shows can be activated, and it leads to pages below it
\* or back.
LEMMA ActivateKeeps ==
  ASSUME PathIInv, page \in Pages, NEW control \in ControlsOn(page), Activate(control)
  PROVE  PathInv'
<1>1. PathInv /\ page # "home" BY DEF PathIInv, Pages
<1>2. CASE control \in {"OpenReading", "OpenSynchronization", "OpenDeviceDiagnostics", "DisplayTest"}
  <2> DEFINE next == CASE control = "OpenReading" -> "reading" [] control = "OpenSynchronization" -> "sync"
                       [] control = "OpenDeviceDiagnostics" -> "device" [] OTHER -> "test"
  <2>1. Open(next) /\ UNCHANGED pendingPower BY <1>2 DEF Activate
  <2>2. \/ page = "menu" /\ next \in SubPages
        \/ page = "device" /\ next = "test"
    BY <1>2, ControlSets DEF SubPages, Pages
  <2>3. pendingPower = "none" BY <2>2, <1>1 DEF PathInv, SubPages
  <2> HIDE DEF next
  <2> QED BY <2>1, <2>2, <2>3, OpenKeeps
<1>3. CASE control = "BackToReading" BY <1>1, <1>3, ReturnKeeps DEF Activate
<1>4. CASE control \in {"BackToSettings", "CancelPowerAction"}
  BY <1>1, <1>4, BackKeeps DEF Activate
<1>5. CASE control \in {"Orientation", "FontDecrease", "FontReset", "FontIncrease", "ShowStatusBar",
                        "ReadingProgress", "DebugMessages", "SyncNow", "ReturnToEntryPoint"}
  <2>1. UNCHANGED pages BY <1>5 DEF Activate
  <2> QED BY <1>1, <2>1, StayKeeps
<1>6. CASE control \in {"Reboot", "PowerOff"}
  <2>1. page = "device" BY <1>6, ControlSets DEF Pages
  <2>2. Open("confirm") BY <1>6 DEF Activate
  <2> QED BY <2>1, <2>2, OpenKeeps
<1>7. CASE control = "ConfirmPower"
  <2>1. CASE Back BY <1>1, <2>1, BackKeeps
  <2>2. CASE pendingPower' = "none" /\ UNCHANGED <<page, settingsMenu, history, focused>>
    BY <1>1, <2>2 DEF PathInv
  <2> QED BY <1>7, <2>1, <2>2 DEF Activate
<1> QED BY <1>2, <1>3, <1>4, <1>5, <1>6, <1>7, ControlSets DEF Pages

\* A tap, on a control or on the page at home, keeps the history a path.
LEMMA TapKeeps ==
  ASSUME PathIInv, ActivateTap
  PROVE  PathInv'
<1>1. PathInv BY DEF PathIInv
<1> DEFINE control == IF touch.action # NoControl THEN touch.action
                      ELSE IF ~touch.known /\ IsSettingsPage THEN Hit(touch.at) ELSE NoControl
<1>2. \/ UNCHANGED pages
      \/ page = "home" /\ Open("menu") /\ UNCHANGED pendingPower
      \/ ReturnToReader
      \/ IsSettingsPage /\ control # NoControl /\ Hit(touch.at) = control /\ Activate(control)
  BY DEF ActivateTap, Only
<1>3. CASE UNCHANGED pages BY <1>1, <1>3, StayKeeps
<1>4. CASE page = "home" /\ Open("menu") /\ UNCHANGED pendingPower
  BY <1>1, <1>4, OpenKeeps DEF PathInv
<1>5. CASE ReturnToReader BY <1>1, <1>5, ReturnKeeps
<1>6. CASE IsSettingsPage /\ control # NoControl /\ Hit(touch.at) = control /\ Activate(control)
  <2>1. page \in Pages BY <1>6 DEF IsSettingsPage
  <2>2. Hit(touch.at) \in ControlsOn(page) \union {NoControl}
    BY <1>6, HitsOnPage DEF Hit
  <2> HIDE DEF control
  <2> QED BY <1>6, <2>1, <2>2, ActivateKeeps
<1> QED BY <1>2, <1>3, <1>4, <1>5, <1>6

\* Every event of the touch screen keeps the history a path.
LEMMA TouchKeepsPath ==
  ASSUME PathIInv, TouchEvent
  PROVE  PathInv'
<1>1. UNCHANGED pages \/ ActivateTap
  BY DEF TouchEvent, Move, Invert, Contact, Lift, ButtonUp, Report, LateInversion, Only
<1> QED BY <1>1, StayKeeps, TapKeeps DEF PathIInv

\* Every key keeps the history a path.
LEMMA KeysKeepPath ==
  ASSUME PathIInv, KeyEvent
  PROVE  PathInv'
<1>1. PathInv BY DEF PathIInv
<1>2. ASSUME NEW forward \in BOOLEAN, PageKey(forward) PROVE PathInv'
  <2>1. CASE IsSettingsPage
    <3>1. page \in Pages /\ page \notin {"home", "test"} BY <2>1 DEF IsSettingsPage, Pages
    <3>2. focused' = NextFocus(page, orientation, focused, forward)
          /\ UNCHANGED <<page, settingsMenu, history, pendingPower>>
      BY <1>2, <2>1, <3>1 DEF PageKey
    <3>3. focused' \in ControlsOn(page) BY <3>1, <3>2, FocusOnPage DEF PathIInv
    <3> QED BY <1>1, <3>1, <3>2, <3>3 DEF PathInv
  <2>2. CASE ~IsSettingsPage BY <1>1, <1>2, <2>2, StayKeeps DEF PageKey, Only
  <2> QED BY <2>1, <2>2
<1>3. CASE HomeKey
  <2>1. CASE page = "home"
    <3>1. history' = <<>> /\ focused' = NoControl /\ UNCHANGED <<page, settingsMenu, pendingPower>>
      BY <1>3, <2>1 DEF HomeKey
    <3>2. history' \in Seq(HistoryEntries) /\ Len(history') = 0 BY <3>1
    <3>3. Depth("home") = 0 /\ "home" \notin Pages BY DEF Depth, SubPages, Pages
    <3> QED BY <1>1, <2>1, <3>1, <3>2, <3>3 DEF PathInv
  <2>2. CASE page # "home" BY <1>1, <1>3, <2>2, ReturnKeeps DEF HomeKey
  <2> QED BY <2>1, <2>2
<1>4. CASE BackKey BY <1>1, <1>4, StayKeeps, BackKeeps DEF BackKey
<1>5. CASE MenuPress \/ MenuRepeat BY <1>1, <1>5, StayKeeps DEF MenuPress, MenuRepeat, Only
<1>6. CASE MenuRelease
  <2>1. \/ UNCHANGED pages
        \/ page = "home" /\ Open("menu") /\ UNCHANGED pendingPower
        \/ IsSettingsPage /\ Activate(focused)
    BY <1>6 DEF MenuRelease, Only
  <2>2. CASE page = "home" /\ Open("menu") /\ UNCHANGED pendingPower
    BY <1>1, <2>2, OpenKeeps DEF PathInv
  <2>3. CASE IsSettingsPage /\ Activate(focused)
    <3>1. page \in Pages /\ focused \in ControlsOn(page) BY <1>1, <2>3 DEF IsSettingsPage, PathInv
    <3> QED BY <2>3, <3>1, ActivateKeeps
  <2> QED BY <1>1, <2>1, <2>2, <2>3, StayKeeps
<1> QED BY <1>2, <1>3, <1>4, <1>5, <1>6 DEF KeyEvent

\* Every step of the loop keeps the history a path.
LEMMA PathNextInv == PathIInv /\ [ShellNext]_shellVars => PathIInv'
<1> SUFFICES ASSUME PathIInv, [ShellNext]_shellVars PROVE PathIInv' OBVIOUS
<1>1. CASE Event BY <1>1, TouchKeepsPath, KeysKeepPath DEF Event, PathIInv
<1>2. CASE Apply
  <2>1. UNCHANGED pages BY <1>2 DEF Apply
  <2>2. orientation' \in Orientations BY <1>2 DEF Apply, PathIInv, Toggled, Orientations
  <2> QED BY <2>1, <2>2, StayKeeps DEF PathIInv
<1>3. CASE NoMoreEvents BY <1>3, StayKeeps DEF NoMoreEvents, PathIInv
<1>4. CASE FinishPass BY <1>4, StayKeeps DEF FinishPass, PathIInv
<1>5. CASE SecondPasses BY <1>5, StayKeeps DEF SecondPasses, PathIInv
<1>6. CASE UNCHANGED shellVars BY <1>6, StayKeeps DEF shellVars, PathIInv
<1> QED BY <1>1, <1>2, <1>3, <1>4, <1>5, <1>6 DEF ShellNext

\* The history is a path from the reader to the page shown.
THEOREM PathKept == ShellSpec => []HistoryIsPath
<1>1. PathIInv => HistoryIsPath BY PathImplies DEF PathIInv
<1> QED BY PathInitInv, PathNextInv, <1>1, PTL DEF ShellSpec

-----------------------------------------------------------------------------
(* Display.                                                                *)

USE DisplayAssumption DEF DisplayAssumption

Known ==
  IF pending = NoUpdate THEN shadow
  ELSE IF shadow = NoFrame
  THEN (IF pending.region = Cells THEN pending.pixels ELSE NoFrame)
  ELSE Update(shadow, pending.region, pending.pixels)

\* What a cell of the panel shows once the controller is done.
Shown(c) == IF c \in flight THEN mapping[c] ELSE panel[c]

\* The controller works on nothing but the update that is waited for.
FlightInv ==
  /\ pending = NoUpdate => flight = {}
  /\ drawing = "copy" => pending = NoUpdate
  /\ drawing = "wait" => pending # NoUpdate

\* Where the shell relies on what it takes for presented, the panel shows it.
KnownInv ==
  drawing \notin {"asleep", "ended"} /\ (due => drawing = "wait") /\ Known # NoFrame =>
    \A c \in Cells : Shown(c) = Known[c]

\* A draw follows the plan of its reason; what is waited for is forced, and a
\* draw of the whole screen that is due is forced.
JobInv ==
  /\ drawing \in {"barrier", "copy", "wait"} =>
       /\ job.reason \in Reasons
       /\ job.hint \in Hints(job.reason)
       /\ job.plan = Plan(job.reason)
       /\ due => job.reason = "full"
  /\ drawing = "wait" =>
       /\ job.plan.force
       /\ \A c \in job.hint : Shown(c) = job.frame[c]
  /\ certain \subseteq Cells
  /\ drawing = "asleep" => certain = {}

\* The policy counts at least the turns since the last update of quality.
PolicyInv ==
  /\ fastTurns \in Nat /\ ghosting \in Nat
  /\ ghosting <= fastTurns
  /\ fastTurns <= FastTurnsBeforeCleanup

DisplayIInv == FlightInv /\ KnownInv /\ JobInv /\ PolicyInv /\ DrawnIsShown

\* Nothing is drawn and nothing is known to be presented.
LEMMA DisplayInitInv == DisplayInit => DisplayIInv
<1> SUFFICES ASSUME DisplayInit PROVE DisplayIInv OBVIOUS
<1> USE DEF DisplayInit
<1>1. FlightInv BY DEF FlightInv
<1>2. KnownInv BY DEF KnownInv
<1>3. JobInv BY DEF JobInv
<1>4. PolicyInv BY DEF PolicyInv
<1>5. DrawnIsShown BY DEF DrawnIsShown
<1> QED BY <1>1, <1>2, <1>3, <1>4, <1>5 DEF DisplayIInv

\* The plan of each reason: a whole screen and a turn in gray are forced, a
\* forced draw has quality and is waited for, a fast text turn is below the bound.
LEMMA Plans ==
  ASSUME NEW reason \in Reasons
  PROVE  /\ Plan(reason).force \in BOOLEAN
         /\ Plan(reason).waited = Plan(reason).force
         /\ Plan(reason).force => Plan(reason).quality = "GC16"
         /\ reason \in {"full", "gray turn"} => Plan(reason).force
         /\ reason = "text turn" /\ ~ Plan(reason).force => fastTurns < FastTurnsBeforeCleanup
BY DEF Plan, Reasons

\* A hint is a region; that of a page names the page.
LEMMA HintsAreRegions ==
  ASSUME NEW reason \in Reasons, NEW hint \in Hints(reason)
  PROVE  /\ hint \subseteq Cells /\ hint # {}
         /\ reason = "full" => hint = Cells
         /\ reason \in {"full", "gray turn", "text turn"} => Page \in hint
<1>1. hint \in Regions BY Zenon DEF Hints
<1>2. hint \subseteq Cells /\ hint # {} BY <1>1 DEF Regions
<1>3. reason = "full" => hint = Cells BY DEF Hints
<1>4. Page \in Cells BY DEF Cells
<1>5. reason \in {"gray turn", "text turn"} => Page \in hint
  <2>1. reason \in {"gray turn", "text turn"} => hint \in {{Page}, Cells} BY DEF Hints
  <2> QED BY <2>1, <1>4
<1> QED BY <1>2, <1>3, <1>4, <1>5

\* What is certain of a successful draw, and the policy after it.
LEMMA DrawnIsCertain ==
  ASSUME DisplayIInv, Drawn, drawing' = "idle",
         job.reason \in Reasons, job.hint \in Hints(job.reason), job.plan = Plan(job.reason),
         job.plan.force \/ shadow = NoFrame => \A c \in job.hint : Shown(c)' = job.frame[c],
         ~ (job.plan.force \/ shadow = NoFrame) => \A c \in Cells : Shown(c)' = job.frame[c]
  PROVE  DrawnIsShown' /\ PolicyInv' /\ JobInv'
<1>1. PolicyInv BY DEF DisplayIInv
<1>2. /\ certain' = IF job.plan.force \/ shadow = NoFrame THEN job.hint ELSE Cells
      /\ job'.frame = job.frame
  BY DEF Drawn, Past
<1>3. DrawnIsShown' BY <1>2 DEF DrawnIsShown, Shown
<1>4. fastTurns' = IF job.qr THEN fastTurns ELSE RecordSuccess(job.reason, job.plan) BY DEF Drawn
<1>5. ghosting' = IF RequestQuality = "GC16" /\ Page \in RequestRegion THEN 0
                  ELSE IF job.reason = "text turn" /\ ~job.qr /\ Page \in RequestRegion
                  THEN ghosting + 1 ELSE ghosting
  BY DEF Drawn
<1>6. job.plan.force /\ Page \in job.hint => ghosting' = 0
  <2>1. job.plan.force => RequestRegion = job.hint /\ RequestQuality = "GC16"
    BY Plans DEF RequestRegion, RequestQuality
  <2> QED BY <1>5, <2>1
<1>7. PolicyInv'
  <2>1. CASE job.reason \in {"full", "gray turn"}
    <3>1. ghosting' = 0 BY <1>6, <2>1, Plans, HintsAreRegions
    <3>2. fastTurns' \in {0, fastTurns} BY <1>4, <2>1 DEF RecordSuccess
    <3> QED BY <1>1, <3>1, <3>2 DEF PolicyInv
  <2>2. CASE job.reason = "text turn" /\ job.plan.force
    <3>1. ghosting' = 0 BY <1>6, <2>2, HintsAreRegions
    <3>2. fastTurns' \in {0, fastTurns} BY <1>4, <2>2 DEF RecordSuccess
    <3> QED BY <1>1, <3>1, <3>2 DEF PolicyInv
  <2>3. CASE job.reason = "text turn" /\ ~ job.plan.force
    <3>1. fastTurns < FastTurnsBeforeCleanup BY <2>3, Plans
    <3>2. fastTurns' = IF job.qr THEN fastTurns ELSE fastTurns + 1 BY <1>4, <2>3 DEF RecordSuccess
    <3>3. ghosting' \in {0, ghosting} \/ (~ job.qr /\ ghosting' = ghosting + 1) BY <1>5
    <3> QED BY <1>1, <3>1, <3>2, <3>3 DEF PolicyInv
  <2>4. CASE job.reason \in {"status", "transient"}
    <3>1. fastTurns' = fastTurns BY <1>4, <2>4 DEF RecordSuccess
    <3>2. ghosting' \in {0, ghosting} BY <1>5, <2>4
    <3> QED BY <1>1, <3>1, <3>2 DEF PolicyInv
  <2> QED BY <2>1, <2>2, <2>3, <2>4 DEF Reasons
<1>8. JobInv' BY <1>2, HintsAreRegions DEF JobInv
<1> QED BY <1>3, <1>7, <1>8

\* What a cell shows once the controller is done does not change when it is done.
LEMMA CompleteInv == DisplayIInv /\ Complete => DisplayIInv'
<1> SUFFICES ASSUME DisplayIInv, Complete PROVE DisplayIInv' OBVIOUS
<1> USE DEF Complete
<1>1. \A c \in Cells : Shown(c)' = Shown(c) BY DEF Shown, Update
<1>2. Known' = Known BY DEF Known
<1>3. FlightInv' BY DEF DisplayIInv, FlightInv
<1>4. KnownInv' BY <1>1, <1>2 DEF DisplayIInv, KnownInv
<1>5. JobInv'
  <2>1. drawing = "wait" => job.hint \subseteq Cells BY HintsAreRegions DEF DisplayIInv, JobInv
  <2> QED BY <1>1, <2>1 DEF DisplayIInv, JobInv, Plan
<1>6. PolicyInv' BY DEF DisplayIInv, PolicyInv
<1>7. DrawnIsShown' BY <1>1 DEF DisplayIInv, JobInv, DrawnIsShown, Shown
<1> QED BY <1>3, <1>4, <1>5, <1>6, <1>7 DEF DisplayIInv

\* A draw follows the plan of its reason, which is the full one if that is due.
LEMMA BeginDrawInv == DisplayIInv /\ BeginDraw => DisplayIInv'
<1> SUFFICES ASSUME DisplayIInv, BeginDraw PROVE DisplayIInv' OBVIOUS
<1> USE DEF BeginDraw
<1>1. PICK frame \in Frames, reason \in (IF due THEN {"full"} ELSE Reasons), qr \in BOOLEAN :
        \E hint \in Hints(reason) :
          job' = [frame |-> frame, reason |-> reason, hint |-> hint, qr |-> qr, plan |-> Plan(reason)]
  OBVIOUS
<1>2. PICK hint \in Hints(reason) :
        job' = [frame |-> frame, reason |-> reason, hint |-> hint, qr |-> qr, plan |-> Plan(reason)]
  BY <1>1
<1>3. reason \in Reasons /\ (due => reason = "full") BY <1>1 DEF Reasons
<1>4. FlightInv' BY DEF DisplayIInv, FlightInv
<1>5. KnownInv' BY DEF DisplayIInv, KnownInv, Known, Shown
<1>6. Plan(reason)' = Plan(reason) BY DEF Plan
<1>7. JobInv' BY <1>2, <1>3, <1>6 DEF DisplayIInv, JobInv, Plan
<1>8. PolicyInv' BY DEF DisplayIInv, PolicyInv
<1>9. DrawnIsShown' BY DEF DrawnIsShown
<1> QED BY <1>4, <1>5, <1>7, <1>8, <1>9 DEF DisplayIInv

\* Committing a pending update makes presented what was known already.
LEMMA BarrierInv == DisplayIInv /\ Barrier => DisplayIInv'
<1> SUFFICES ASSUME DisplayIInv, Barrier PROVE DisplayIInv' OBVIOUS
<1> USE DEF Barrier
<1>1. Known' = Known BY DEF Known, Commit
<1>2. \A c : Shown(c)' = Shown(c) BY DEF Shown
<1>3. FlightInv' BY DEF DisplayIInv, FlightInv, Waited
<1>4. KnownInv' BY <1>1, <1>2 DEF DisplayIInv, KnownInv
<1>5. JobInv' BY DEF DisplayIInv, JobInv, Plan
<1>6. PolicyInv' BY DEF DisplayIInv, PolicyInv
<1>7. DrawnIsShown' BY DEF DrawnIsShown
<1> QED BY <1>3, <1>4, <1>5, <1>6, <1>7 DEF DisplayIInv

\* A copy finds nothing in flight, and changes the mapping where it must.
LEMMA CopyInv == DisplayIInv /\ Copy => DisplayIInv'
<1> SUFFICES ASSUME DisplayIInv, Copy PROVE DisplayIInv' OBVIOUS
<1> DEFINE R == RequestRegion
<1>1. /\ drawing = "copy" /\ pending = NoUpdate /\ flight = {}
      /\ R # {} /\ mapping' = Update(mapping, R, job.frame) /\ panel' = panel /\ shadow' = shadow
  BY DEF Copy, DisplayIInv, FlightInv
<1>2. /\ job.reason \in Reasons /\ job.hint \in Hints(job.reason) /\ job.plan = Plan(job.reason)
      /\ due => job.reason = "full"
  BY <1>1 DEF DisplayIInv, JobInv
<1>3. job.hint \subseteq Cells /\ job.hint # {} BY <1>2, HintsAreRegions
<1>4. R \subseteq Cells BY <1>3 DEF RequestRegion
<1>5. (job.plan.force \/ shadow = NoFrame) => R = job.hint BY DEF RequestRegion
<1>6. due => job.plan.force /\ R = Cells BY <1>2, <1>5, Plans, HintsAreRegions
<1>7. CASE drawing' = "ended" /\ UNCHANGED <<flight, pending, job, fastTurns, due, certain, ghosting>>
  <2>1. FlightInv' BY <1>1, <1>7 DEF FlightInv
  <2>2. KnownInv' BY <1>7 DEF KnownInv
  <2>3. JobInv' BY <1>7 DEF DisplayIInv, JobInv
  <2>4. PolicyInv' BY <1>7 DEF DisplayIInv, PolicyInv
  <2>5. DrawnIsShown' BY <1>7 DEF DrawnIsShown
  <2> QED BY <2>1, <2>2, <2>3, <2>4, <2>5 DEF DisplayIInv
<1>8. CASE flight' = flight \union R /\ Submitted(R)
  <2>1. pending' = [region |-> R, pixels |-> Update(mapping, R, job.frame)] BY <1>8 DEF Submitted
  <2>2. pending' # NoUpdate BY <2>1, <1>1 DEF NoUpdate
  <2>3. flight' = R BY <1>1, <1>8
  <2>4. \A c \in Cells : Shown(c)' = IF c \in R THEN job.frame[c] ELSE panel[c]
    BY <1>1, <2>3 DEF Shown, Update
  <2>5. drawing' \in {"wait", "idle"} BY <1>8 DEF Submitted
  <2>6. FlightInv' BY <2>2, <2>5 DEF FlightInv
  <2>7. Known' = IF shadow = NoFrame
                 THEN (IF R = Cells THEN Update(mapping, R, job.frame) ELSE NoFrame)
                 ELSE Update(shadow, R, Update(mapping, R, job.frame))
    BY <1>1, <2>1, <2>2 DEF Known
  <2>8. \A c \in R : Update(mapping, R, job.frame)[c] = job.frame[c] BY <1>4 DEF Update
  <2>9. Known' # NoFrame => \A c \in R : Known'[c] = job.frame[c]
    BY <2>7, <2>8, <1>4 DEF Update
  <2>10. Known' # NoFrame /\ R # Cells =>
           shadow # NoFrame /\ \A c \in Cells \ R : Known'[c] = shadow[c]
    BY <2>7 DEF Update
  <2>11. ~ due /\ shadow # NoFrame => \A c \in Cells : panel[c] = shadow[c]
    BY <1>1 DEF DisplayIInv, KnownInv, Known, Shown
  <2>12. KnownInv'
    <3>1. due => R = Cells BY <1>6
    <3>2. Known' # NoFrame => \A c \in Cells : Shown(c)' = Known'[c]
      BY <2>4, <2>9, <2>10, <2>11, <3>1
    <3> QED BY <3>2 DEF KnownInv
  <2>13. CASE drawing' = "wait"
    <3>1. job.plan.waited /\ UNCHANGED <<job, fastTurns, due, certain, ghosting>>
      BY <1>8, <2>13 DEF Submitted, Drawn
    <3>2. job.plan.force BY <3>1, <1>2, Plans
    <3>3. \A c \in job.hint : Shown(c)' = job.frame[c] BY <3>2, <1>5, <1>3, <2>4
    <3>4. Plan(job.reason)' = Plan(job.reason) BY <3>1 DEF Plan
    <3>5. JobInv' BY <1>2, <2>13, <3>1, <3>2, <3>3, <3>4 DEF DisplayIInv, JobInv
    <3>6. PolicyInv' BY <3>1 DEF DisplayIInv, PolicyInv
    <3>7. DrawnIsShown' BY <2>13 DEF DrawnIsShown
    <3> QED BY <2>6, <2>12, <3>5, <3>6, <3>7 DEF DisplayIInv
  <2>14. CASE drawing' = "idle"
    <3>1. Drawn /\ ~ job.plan.waited BY <1>8, <2>14 DEF Submitted
    <3>2. ~ job.plan.force BY <3>1, <1>2, Plans
    <3>3. ~ due BY <3>2, <1>6
    <3>4. shadow = NoFrame => \A c \in job.hint : Shown(c)' = job.frame[c] BY <1>5, <1>3, <2>4
    <3>5. shadow # NoFrame => \A c \in Cells : Shown(c)' = job.frame[c]
      <4>1. shadow # NoFrame => \A c \in Cells \ R : job.frame[c] = shadow[c]
        BY <3>2 DEF RequestRegion
      <4> QED BY <4>1, <2>4, <2>11, <3>3
    <3>6. DrawnIsShown' /\ PolicyInv' /\ JobInv'
      BY <1>2, <2>14, <3>1, <3>2, <3>4, <3>5, DrawnIsCertain
    <3> QED BY <2>6, <2>12, <3>6 DEF DisplayIInv
  <2> QED BY <2>5, <2>13, <2>14
<1> QED BY <1>7, <1>8 DEF Copy

\* A draw that changes nothing finds what it draws on the panel.
LEMMA SkipInv == DisplayIInv /\ Skip => DisplayIInv'
<1> SUFFICES ASSUME DisplayIInv, Skip PROVE DisplayIInv' OBVIOUS
<1>1. /\ drawing = "copy" /\ drawing' = "idle" /\ Drawn /\ RequestRegion = {}
      /\ UNCHANGED <<mapping, panel, flight, shadow, pending>>
      /\ pending = NoUpdate
  BY DEF Skip, DisplayIInv, FlightInv
<1>2. /\ job.reason \in Reasons /\ job.hint \in Hints(job.reason) /\ job.plan = Plan(job.reason)
      /\ due => job.reason = "full"
  BY <1>1 DEF DisplayIInv, JobInv
<1>3. ~ (job.plan.force \/ shadow = NoFrame) BY <1>1, <1>2, HintsAreRegions DEF RequestRegion
<1>4. ~ due BY <1>2, <1>3, Plans
<1>5. \A c \in Cells : Shown(c) = shadow[c] BY <1>1, <1>3, <1>4 DEF DisplayIInv, KnownInv, Known
<1>6. \A c \in Cells : job.frame[c] = shadow[c] BY <1>1, <1>3 DEF RequestRegion
<1>7. \A c : Shown(c)' = Shown(c) BY <1>1 DEF Shown
<1>8. DrawnIsShown' /\ PolicyInv' /\ JobInv' BY <1>1, <1>2, <1>3, <1>5, <1>6, <1>7, DrawnIsCertain
<1>9. FlightInv' BY <1>1 DEF DisplayIInv, FlightInv
<1>10. Known' = Known BY <1>1 DEF Known
<1>11. KnownInv' BY <1>1, <1>4, <1>7, <1>10 DEF DisplayIInv, KnownInv
<1> QED BY <1>8, <1>9, <1>11 DEF DisplayIInv

\* The wait of a forced draw commits it.
LEMMA WaitOwnInv == DisplayIInv /\ WaitOwn => DisplayIInv'
<1> SUFFICES ASSUME DisplayIInv, WaitOwn PROVE DisplayIInv' OBVIOUS
<1>1. /\ drawing = "wait" /\ drawing' = "idle" /\ Drawn /\ Commit(pending) /\ flight = {}
      /\ pending' = NoUpdate /\ pending # NoUpdate /\ UNCHANGED <<mapping, panel, flight>>
  BY DEF WaitOwn, Waited, DisplayIInv, FlightInv
<1>2. /\ job.reason \in Reasons /\ job.hint \in Hints(job.reason) /\ job.plan = Plan(job.reason)
      /\ job.plan.force /\ \A c \in job.hint : Shown(c) = job.frame[c]
  BY <1>1 DEF DisplayIInv, JobInv
<1>3. \A c : Shown(c)' = Shown(c) BY <1>1 DEF Shown
<1>4. Known' = Known BY <1>1 DEF Known, Commit
<1>5. FlightInv' BY <1>1 DEF FlightInv
<1>6. KnownInv' BY <1>1, <1>3, <1>4 DEF DisplayIInv, KnownInv
<1>7. DrawnIsShown' /\ PolicyInv' /\ JobInv' BY <1>1, <1>2, <1>3, DrawnIsCertain
<1> QED BY <1>5, <1>6, <1>7 DEF DisplayIInv

\* What is done between draws asks for the whole screen, and vouches for nothing.
LEMMA OthersInv == DisplayIInv /\ (WaitFails \/ Rotate \/ RotateFails \/ Standby \/ Resume) => DisplayIInv'
<1> SUFFICES ASSUME DisplayIInv, WaitFails \/ Rotate \/ RotateFails \/ Standby \/ Resume PROVE DisplayIInv' OBVIOUS
<1>1. FlightInv'
  BY DEF DisplayIInv, FlightInv, WaitFails, Rotate, RotateFails, Standby, Resume, Waited
<1>2. KnownInv'
  BY DEF KnownInv, WaitFails, Rotate, RotateFails, Standby, Resume
<1>3. JobInv' BY DEF DisplayIInv, JobInv, WaitFails, Rotate, RotateFails, Standby, Resume
<1>4. PolicyInv' BY DEF DisplayIInv, PolicyInv, WaitFails, Rotate, RotateFails, Standby, Resume
<1>5. DrawnIsShown'
  BY DEF DisplayIInv, JobInv, DrawnIsShown, WaitFails, Rotate, RotateFails, Standby, Resume
<1> QED BY <1>1, <1>2, <1>3, <1>4, <1>5 DEF DisplayIInv

\* Every step keeps the invariant.
LEMMA DisplayNextInv == DisplayIInv /\ [DisplayNext]_displayVars => DisplayIInv'
<1> SUFFICES ASSUME DisplayIInv, [DisplayNext]_displayVars PROVE DisplayIInv' OBVIOUS
<1>1. CASE Complete BY <1>1, CompleteInv
<1>2. CASE BeginDraw BY <1>2, BeginDrawInv
<1>3. CASE Barrier BY <1>3, BarrierInv
<1>4. CASE Copy BY <1>4, CopyInv
<1>5. CASE Skip BY <1>5, SkipInv
<1>6. CASE WaitOwn BY <1>6, WaitOwnInv
<1>7. CASE WaitFails \/ Rotate \/ RotateFails \/ Standby \/ Resume BY <1>7, OthersInv
<1>8. CASE UNCHANGED displayVars
  <2> USE <1>8 DEF displayVars, DisplayIInv
  <2>1. FlightInv' BY DEF FlightInv
  <2>2. KnownInv' BY DEF KnownInv, Known, Shown
  <2>3. JobInv' BY DEF JobInv, Plan, Shown
  <2>4. PolicyInv' BY DEF PolicyInv
  <2>5. DrawnIsShown' BY DEF DrawnIsShown
  <2> QED BY <2>1, <2>2, <2>3, <2>4, <2>5
<1> QED BY <1>1, <1>2, <1>3, <1>4, <1>5, <1>6, <1>7, <1>8 DEF DisplayNext

\* The invariant holds of every execution of the display.
THEOREM DisplayInductive == DisplaySpec => []DisplayIInv
<1> QED BY DisplayInitInv, DisplayNextInv, PTL DEF DisplaySpec

\* The mapped frame buffer is never written while the controller copies from
\* it (draw_frame_with_waveform): the panel shows no mixture of two frames.
THEOREM Stable == DisplaySpec => MappingStable
<1>1. DisplayIInv /\ [DisplayNext]_displayVars => [flight # {} => mapping' = mapping]_<<mapping, flight>>
  <2> SUFFICES ASSUME DisplayIInv, [DisplayNext]_displayVars, flight # {} PROVE mapping' = mapping
    OBVIOUS
  <2>1. ~ Copy BY DEF DisplayIInv, FlightInv, Copy
  <2> QED
    BY <2>1 DEF DisplayNext, displayVars, Complete, BeginDraw, Barrier, Skip, WaitOwn, WaitFails,
                Rotate, RotateFails, Standby, Resume
<1> QED BY <1>1, DisplayInductive, PTL DEF DisplaySpec, MappingStable

\* Between draws the panel shows, or is about to show, the frame last drawn
\* where that draw vouches for it.
THEOREM DrawnShown == DisplaySpec => []DrawnIsShown
<1>1. DisplayIInv => DrawnIsShown BY DEF DisplayIInv
<1> QED BY <1>1, DisplayInductive, PTL

\* The page is refreshed in quality within the configured number of turns.
THEOREM Ghosting == DisplaySpec => []GhostingBounded
<1>1. DisplayIInv => GhostingBounded BY DEF DisplayIInv, PolicyInv, GhostingBounded
<1> QED BY <1>1, DisplayInductive, PTL

-----------------------------------------------------------------------------
(* The types of the variables.                                             *)

\* The flags of the settings and the rest, which the provers take apart.
SettingsFlags == {framework, unsaved, skewed} \subseteq BOOLEAN
SettingsValues ==
  /\ stored \in Chosen \union {NoFile, Torn} /\ survivors \subseteq Chosen \union {NoFile, Torn}
  /\ saving \in SaveStages /\ preferences \in Chosen
  /\ {shellTurn, displayTurn, readerTurn} \subseteq Turns
  /\ process \in {"off", "stopping", "running"} /\ checks \in 0 .. FrameworkPolls

\* Every step leaves flags,
LEMMA SettingsFlagsKept ==
  ASSUME SettingsFlags, [SettingsNext]_settingsVars PROVE SettingsFlags'
<1> USE DEF SettingsFlags, fileState, turns, life, Idle, Forgotten
<1>1. CASE UNCHANGED settingsVars BY <1>1 DEF settingsVars
<1>2. CASE Launch \/ FrameworkStops \/ AwaitFramework \/ Start
  BY <1>2 DEF Launch, FrameworkStops, AwaitFramework, Start
<1>3. CASE ChangeOrientation \/ ChangeFails \/ ChangeFont
  BY <1>3 DEF ChangeOrientation, ChangeFails, ChangeFont, RollBack
<1>4. CASE CreateTemporary \/ WriteTemporary \/ SyncTemporary \/ RenameTemporary \/ SaveFails
  BY <1>4 DEF CreateTemporary, WriteTemporary, SyncTemporary, RenameTemporary, SaveFails
<1>5. CASE Settle \/ Kill \/ LosePower BY <1>5 DEF Settle, Kill, LosePower
<1> QED BY <1>1, <1>2, <1>3, <1>4, <1>5 DEF SettingsNext

\* and values of their types, if the invariant of the save holds.
LEMMA SettingsValuesKept ==
  ASSUME SettingsIInv, SettingsValues, [SettingsNext]_settingsVars PROVE SettingsValues'
<1> USE FrameworkAssumption
    DEF SettingsValues, SaveStages, fileState, turns, life, Idle, Forgotten
<1>1. CASE UNCHANGED settingsVars BY <1>1 DEF settingsVars
<1>2. CASE Launch \/ FrameworkStops BY <1>2 DEF Launch, FrameworkStops
<1>3. CASE AwaitFramework BY <1>3 DEF AwaitFramework
<1>4. CASE Start
  <2>1. Loaded(stored) \in Chosen BY Loads
  <2> HIDE DEF Loaded
  <2> QED BY <1>4, <2>1 DEF Start, Chosen
<1>5. CASE ChangeOrientation BY <1>5 DEF ChangeOrientation, Chosen
<1>6. CASE ChangeFails BY <1>6 DEF ChangeFails, RollBack
<1>7. CASE ChangeFont BY <1>7 DEF ChangeFont, NewScales, Chosen
<1>8. CASE CreateTemporary \/ WriteTemporary \/ SyncTemporary \/ SaveFails
  BY <1>8 DEF CreateTemporary, WriteTemporary, SyncTemporary, SaveFails
<1>9. CASE RenameTemporary
  <2>1. temporary.content \in Chosen BY <1>9 DEF RenameTemporary, SettingsIInv, SaveInv
  <2> QED BY <1>9, <2>1 DEF RenameTemporary
<1>10. CASE Settle BY <1>10 DEF Settle
<1>11. CASE Kill BY <1>11, Loads DEF Kill, Turns
<1>12. CASE LosePower BY <1>12, Loads DEF LosePower, Turns
<1> QED BY <1>1, <1>2, <1>3, <1>4, <1>5, <1>6, <1>7, <1>8, <1>9, <1>10, <1>11, <1>12
    DEF SettingsNext

\* Every variable of the settings keeps its type.
LEMMA SettingsTypes ==
  /\ SettingsInit => SettingsTypeOK
  /\ SettingsIInv /\ SettingsTypeOK /\ [SettingsNext]_settingsVars => SettingsTypeOK'
<1>1. SettingsInit => SettingsFlags BY DEF SettingsInit, SettingsFlags
<1>2. SettingsInit => SettingsValues
  BY FrameworkAssumption, Loads DEF SettingsInit, SettingsValues, SaveStages, Turns
<1> QED BY <1>1, <1>2, SettingsFlagsKept, SettingsValuesKept
    DEF SettingsTypeOK, SettingsFlags, SettingsValues

\* The same for Wi-Fi.
WifiFlags == driver \in BOOLEAN /\ started \in BOOLEAN
WifiValues ==
  /\ supplicant \in {"stopped", "running", "completed"}
  /\ dhcp \in {"stopped", "running", "stopping"}
  /\ lease \in {"none", "bound", "failed"}
  /\ op \in Operations \union {"none", "cancel"} /\ stage \in WifiStages
  /\ polls \in Nat
  /\ report \in {"none", "success", "failure", "killed"}

\* Every step leaves flags,
LEMMA WifiFlagsKept == ASSUME WifiFlags, [WifiNext]_wifiVars PROVE WifiFlags'
<1> USE DEF WifiFlags, wifi, GoToStage, StartupFails, Helper
<1>1. CASE UNCHANGED wifiVars BY <1>1 DEF wifiVars
<1>2. CASE \E o \in Operations : BeginOperation(o) BY <1>2 DEF BeginOperation
<1>3. CASE LoadDriver \/ StartSupplicant \/ StartDhcp \/ WaitForDhcp \/ Client
  BY <1>3 DEF LoadDriver, StartSupplicant, StartDhcp, WaitForDhcp, Client
<1>4. CASE WaitForAssociation BY <1>4 DEF WaitForAssociation
<1>5. CASE StopDhcp \/ WaitForDhcpStop \/ StopSupplicant \/ UnloadDriver
  BY <1>5 DEF StopDhcp, WaitForDhcpStop, StopSupplicant, UnloadDriver
<1>6. CASE Cancel \/ Die \/ Environment
  BY <1>6 DEF Cancel, Die, Environment, SupplicantMoves, DhcpMoves
<1> QED BY <1>1, <1>2, <1>3, <1>4, <1>5, <1>6 DEF WifiNext, WifiStep

\* failures of steps,
LEMMA FailuresKept ==
  ASSUME failures \subseteq Steps, [WifiNext]_wifiVars PROVE failures' \subseteq Steps
<1>1. {} \subseteq Steps OBVIOUS
<1>2. {"stop_dhcp", "stop_supplicant", "unload_driver"} \subseteq Steps BY DEF Steps
<1>3. \/ failures' = failures
      \/ failures' = {}
      \/ \E s \in {"stop_dhcp", "stop_supplicant", "unload_driver"} : failures' = failures \union {s}
  <2> USE DEF wifi, Helper
  <2>1. CASE UNCHANGED wifiVars BY <2>1 DEF wifiVars
  <2>2. CASE (\E o \in Operations : BeginOperation(o)) \/ Cancel
    BY <2>2 DEF BeginOperation, Cancel
  <2>3. CASE LoadDriver \/ StartSupplicant \/ WaitForAssociation \/ StartDhcp \/ WaitForDhcp \/ Client
    BY <2>3 DEF LoadDriver, StartSupplicant, WaitForAssociation, StartDhcp, WaitForDhcp, Client
  <2>4. CASE StopDhcp BY <2>4 DEF StopDhcp
  <2>5. CASE WaitForDhcpStop BY <2>5 DEF WaitForDhcpStop
  <2>6. CASE StopSupplicant BY <2>6 DEF StopSupplicant
  <2>7. CASE UnloadDriver BY <2>7 DEF UnloadDriver
  <2>8. CASE Die \/ Environment BY <2>8 DEF Die, Environment, SupplicantMoves, DhcpMoves
  <2> QED BY <2>1, <2>2, <2>3, <2>4, <2>5, <2>6, <2>7, <2>8 DEF WifiNext, WifiStep
<1> QED BY <1>1, <1>2, <1>3

\* and values of their types.
LEMMA WifiValuesKept == ASSUME WifiValues, [WifiNext]_wifiVars PROVE WifiValues'
<1> USE DEF WifiValues, Operations, WifiStages, Steps, wifi, GoToStage, StartupFails, Helper
<1>1. CASE UNCHANGED wifiVars BY <1>1 DEF wifiVars
<1>2. CASE \E o \in Operations : BeginOperation(o) BY <1>2 DEF BeginOperation
<1>3. CASE LoadDriver \/ Client BY <1>3 DEF LoadDriver, Client
<1>4. CASE StartSupplicant BY <1>4 DEF StartSupplicant
<1>5. CASE StartDhcp BY <1>5 DEF StartDhcp
<1>6. CASE WaitForDhcp BY <1>6 DEF WaitForDhcp
<1>7. CASE WaitForAssociation
  <2>1. /\ UNCHANGED <<wifi, op, failures, report>>
        /\ \/ stage' = "stop_dhcp" /\ polls' = 0
           \/ stage' = "start_dhcp" /\ polls' = 0
           \/ polls' = polls + 1 /\ UNCHANGED stage
    BY <1>7 DEF WaitForAssociation
  <2> QED BY <2>1
<1>8. CASE StopDhcp BY <1>8 DEF StopDhcp
<1>9. CASE WaitForDhcpStop BY <1>9 DEF WaitForDhcpStop
<1>10. CASE StopSupplicant BY <1>10 DEF StopSupplicant
<1>11. CASE UnloadDriver BY <1>11 DEF UnloadDriver
<1>12. CASE Cancel \/ Die BY <1>12 DEF Cancel, Die
<1>13. CASE SupplicantMoves BY <1>13 DEF SupplicantMoves
<1>14. CASE DhcpMoves BY <1>14 DEF DhcpMoves
<1> QED BY <1>1, <1>2, <1>3, <1>4, <1>5, <1>6, <1>7, <1>8, <1>9, <1>10, <1>11, <1>12,
           <1>13, <1>14 DEF WifiNext, WifiStep, Environment

\* Every variable of the life cycle keeps its type.
LEMMA WifiTypes ==
  /\ WifiInit => WifiTypeOK
  /\ WifiTypeOK /\ [WifiNext]_wifiVars => WifiTypeOK'
<1> DEFINE Typed == WifiFlags /\ WifiValues /\ failures \subseteq Steps
<1>1. WifiInit => WifiFlags /\ failures \subseteq Steps BY DEF WifiInit, WifiFlags
<1>2. WifiInit => WifiValues BY DEF WifiInit, WifiValues, Operations, WifiStages
<1>3. WifiTypeOK <=> Typed BY DEF WifiTypeOK, WifiFlags, WifiValues
<1>4. WifiTypeOK' <=> Typed' BY DEF WifiTypeOK, WifiFlags, WifiValues
<1> QED BY <1>1, <1>2, <1>3, <1>4, WifiFlagsKept, FailuresKept, WifiValuesKept

\* What a control asks for; that a page is opened from the menu is a flag,
\* which the provers take apart.
ShellValues ==
  /\ pendingPower \in {"none", "Reboot", "PowerOff"} /\ action \in {"none", "Reboot", "PowerOff"}
  /\ dirty \in {"none", "action", "other"} /\ menu \in {"none", "pressed", "held", "redrawn"}
  /\ operation \in {"none", "previous", "next", "back", "entry", "fullscreen", "font"}

AskedValues ==
  /\ pendingPower' \in {"none", "Reboot", "PowerOff"} /\ action' \in {"none", "Reboot", "PowerOff"}
  /\ dirty' \in {"none", "action", "other"}
  /\ operation' \in {"none", "previous", "next", "back", "entry", "fullscreen", "font"}

\* The request of a control is one of those known,
LEMMA ActivateValues ==
  ASSUME ShellValues, NEW control, Activate(control) PROVE AskedValues
<1> USE DEF ShellValues, AskedValues, NoRequest, requests, pages
<1>1. ASSUME Back PROVE pendingPower' \in {"none", "Reboot", "PowerOff"} BY <1>1 DEF Back
<1>2. CASE Back BY <1>1, <1>2 DEF Activate
<1>3. CASE ~Back BY <1>3 DEF Activate, ReturnToReader
<1> QED BY <1>2, <1>3

\* and so is that of a tap.
LEMMA TapValues ==
  ASSUME ShellValues, ActivateTap PROVE AskedValues
<1> USE DEF ShellValues, AskedValues, NoRequest, requests, pages, Only
<1>1. CASE \E control : Activate(control) BY <1>1, ActivateValues
<1>2. CASE ~ \E control : Activate(control) BY <1>2 DEF ActivateTap, ReturnToReader
<1> QED BY <1>1, <1>2

\* Every step of the loop asks for what is known.
LEMMA ShellValuesKept ==
  ASSUME ShellValues, [ShellNext]_shellVars PROVE ShellValues'
<1> USE DEF ShellValues, AskedValues, NoRequest, requests, pages, Only
<1>1. CASE TouchEvent
  <2>1. CASE ActivateTap BY <1>1, <2>1, TapValues DEF TouchEvent
  <2>2. CASE ~ActivateTap
    <3>1. Only("none") \/ Only("action") \/ Only("other")
      BY <1>1, <2>2 DEF TouchEvent, Move, Invert, Contact, Lift, ButtonUp, Report, Diagnostics, LateInversion
    <3> QED BY <1>1, <3>1 DEF TouchEvent
  <2> QED BY <2>1, <2>2
<1>2. CASE KeyEvent
  <2>1. CASE \E forward \in BOOLEAN : PageKey(forward) /\ UNCHANGED menu BY <2>1 DEF PageKey
  <2>2. CASE HomeKey /\ UNCHANGED menu BY <2>2 DEF HomeKey, ReturnToReader
  <2>3. CASE BackKey /\ UNCHANGED menu
    <3>1. pendingPower' \in {"none", "Reboot", "PowerOff"} BY <2>3 DEF BackKey, Back
    <3> QED BY <2>3, <3>1 DEF BackKey
  <2>4. CASE MenuPress \/ MenuRepeat BY <2>4 DEF MenuPress, MenuRepeat
  <2>5. CASE MenuRelease
    <3>1. CASE \E control : Activate(control) BY <2>5, <3>1, ActivateValues DEF MenuRelease
    <3>2. CASE ~ \E control : Activate(control) BY <2>5, <3>2 DEF MenuRelease
    <3> QED BY <3>1, <3>2
  <2> QED BY <1>2, <2>1, <2>2, <2>3, <2>4, <2>5 DEF KeyEvent
<1>3. CASE Apply BY <1>3 DEF Apply
<1>4. CASE NoMoreEvents BY <1>4 DEF NoMoreEvents
<1>5. CASE FinishPass BY <1>5 DEF FinishPass
<1>6. CASE SecondPasses BY <1>6 DEF SecondPasses
<1>7. CASE UNCHANGED shellVars BY <1>7 DEF shellVars
<1> QED BY <1>1, <1>2, <1>3, <1>4, <1>5, <1>6, <1>7 DEF ShellNext, Event

\* The flag is set by the page that is opened, left or returned to.
LEMMA MenuFlagKept ==
  ASSUME settingsMenu \in BOOLEAN, [ShellNext]_shellVars PROVE settingsMenu' \in BOOLEAN
<1> USE DEF pages, Only
<1>1. ASSUME (\E p : Open(p)) \/ ReturnToReader \/ Back PROVE settingsMenu' \in BOOLEAN
  BY <1>1 DEF Open, ReturnToReader, Back
<1>2. ASSUME NEW control, Activate(control) PROVE UNCHANGED settingsMenu \/ (\E p : Open(p)) \/ ReturnToReader \/ Back
  BY <1>2 DEF Activate
<1>3. ASSUME ActivateTap PROVE UNCHANGED settingsMenu \/ (\E p : Open(p)) \/ ReturnToReader \/ Back
  BY <1>2, <1>3 DEF ActivateTap
<1>4. UNCHANGED settingsMenu \/ (\E p : Open(p)) \/ ReturnToReader \/ Back
  <2>1. CASE TouchEvent
    BY <1>3, <2>1 DEF TouchEvent, Move, Invert, Contact, Lift, ButtonUp, Report, LateInversion
  <2>2. CASE KeyEvent
    BY <1>2, <2>2 DEF KeyEvent, PageKey, HomeKey, BackKey, MenuPress, MenuRepeat, MenuRelease
  <2>3. CASE Apply \/ NoMoreEvents \/ FinishPass \/ SecondPasses \/ UNCHANGED shellVars
    BY <2>3 DEF Apply, NoMoreEvents, FinishPass, SecondPasses, shellVars
  <2> QED BY <2>1, <2>2, <2>3 DEF ShellNext, Event
<1> QED BY <1>1, <1>4

\* A finger is put on a control, or beside them all.
LEMMA BeganKept ==
  ASSUME PathIInv, began \in AllControls, [ShellNext]_shellVars PROVE began' \in AllControls
<1>1. NoControl \in AllControls BY Zenon DEF AllControls
<1>2. ASSUME IsSettingsPage PROVE Hit(touch.at) \in AllControls
  <2>1. page \in Pages BY <1>2 DEF IsSettingsPage
  <2>2. Hit(touch.at) \in ControlsOn(page) \union {NoControl} BY <1>2, HitsOnPage DEF Hit
  <2>3. ControlsOn(page) \subseteq AllControls BY <2>1, Zenon DEF AllControls
  <2> QED BY <1>1, <2>2, <2>3
<1>3. began' = began \/ began' = NoControl \/ (IsSettingsPage /\ began' = Hit(touch.at))
  <2>1. CASE TouchEvent
    BY <2>1 DEF TouchEvent, Move, Contact, Lift, ButtonUp, Report, LateInversion
  <2>2. CASE KeyEvent BY <2>2 DEF KeyEvent
  <2>3. CASE Apply \/ NoMoreEvents \/ FinishPass \/ SecondPasses \/ UNCHANGED shellVars
    BY <2>3 DEF Apply, NoMoreEvents, FinishPass, SecondPasses, shellVars
  <2> QED BY <2>1, <2>2, <2>3 DEF ShellNext, Event
<1> QED BY <1>1, <1>2, <1>3

\* The shell's variables have their types, of which the invariants of the
\* path, the requests and the touch give the rest.
ShellTyped == ShellValues /\ settingsMenu \in BOOLEAN /\ began \in AllControls
ShellIInv == PathIInv /\ RequestInv /\ TouchInv

\* At first; always; and it is what is said of them.
LEMMA ShellTypes ==
  /\ ShellInit => ShellIInv /\ ShellTyped
  /\ ShellIInv /\ ShellTyped /\ [ShellNext]_shellVars => ShellIInv' /\ ShellTyped'
  /\ ShellIInv /\ ShellTyped => ShellTypeOK
<1>1. ShellInit => ShellIInv BY PathInitInv, RequestInitInv, TouchInitInv DEF ShellIInv
<1>2. ShellInit => ShellTyped
  <2>1. NoControl \in AllControls BY Zenon DEF AllControls
  <2>2. ShellInit => settingsMenu \in BOOLEAN BY DEF ShellInit
  <2>3. ShellInit => ShellValues BY DEF ShellInit, ShellValues
  <2>4. ShellInit => began = NoControl BY DEF ShellInit
  <2> QED BY <2>1, <2>2, <2>3, <2>4 DEF ShellTyped
<1>3. ShellIInv /\ ShellTyped /\ [ShellNext]_shellVars => ShellIInv' /\ ShellTyped'
  BY PathNextInv, RequestNextInv, TouchNextInv, ShellValuesKept, MenuFlagKept, BeganKept
  DEF ShellIInv, ShellTyped
<1>4. ASSUME ShellIInv, ShellTyped PROVE ShellTypeOK
  <2>1. /\ page \in Pages \union {"home", "test"}
        /\ \A i \in DOMAIN history : history[i].page \in Pages \union {"home"}
    <3>1. history \in Seq(HistoryEntries) BY <1>4 DEF ShellIInv, PathIInv, PathInv
    <3>2. \A i \in DOMAIN history : history[i] \in HistoryEntries BY <3>1
    <3>3. \A i \in DOMAIN history : history[i].page \in Pages \union {"home"} BY <3>2 DEF HistoryEntries
    <3> QED BY <1>4, <3>3 DEF ShellIInv, PathIInv, PathInv
  <2>2. Len(history) <= HistoryLimit BY <1>4 DEF ShellIInv, PathIInv, PathInv, Depth, HistoryLimit
  <2>3. phase \in PassPhases /\ orientation \in {"portrait", "landscape"}
    BY <1>4 DEF ShellIInv, PathIInv, RequestInv, Orientations
  <2>4. NoControl \in AllControls BY Zenon DEF AllControls
  <2>5. {began, activated} \subseteq AllControls
    <3>1. began \in AllControls /\ (activated = NoControl \/ activated = began)
      BY <1>4 DEF ShellIInv, ShellTyped, TouchInv
    <3> HIDE DEF AllControls
    <3> QED BY <2>4, <3>1
  <2>6. ShellValues /\ settingsMenu \in BOOLEAN BY <1>4 DEF ShellTyped
  <2> QED BY <2>1, <2>2, <2>3, <2>5, <2>6, Zenon DEF ShellTypeOK, ShellValues
<1> QED BY <1>1, <1>2, <1>3, <1>4

\* What a draw makes of a frame and the regions it may ask for.
LEMMA FrameTypes ==
  /\ \A frame, source \in Frames : \A region : Update(frame, region, source) \in Frames
  /\ Cells \in Regions /\ {} \subseteq Cells
  /\ RequestRegion \subseteq Cells \/ RequestRegion = job.hint
<1>1. ASSUME NEW frame \in Frames, NEW source \in Frames, NEW region
      PROVE  Update(frame, region, source) \in Frames
  <2>1. \A c \in Cells : (IF c \in region THEN source[c] ELSE frame[c]) \in {"black", "white"}
    BY DEF Frames
  <2> QED BY <2>1 DEF Update, Frames
<1>2. Cells \in Regions BY DEF Regions, Cells
<1> QED BY <1>1, <1>2 DEF RequestRegion

\* An update is submitted with the pixels of a frame.
Submission == pending = NoUpdate \/ pending.pixels \in Frames

\* The type of the display but for the hint and the count, which the
\* invariant of the display gives.
DisplayTyped ==
  /\ mapping \in Frames /\ panel \in Frames /\ job.frame \in Frames
  /\ flight \subseteq Cells /\ shadow \in Frames \union {NoFrame}
  /\ pending.region \subseteq Cells /\ drawing \in DrawStages /\ job.reason \in Reasons
  /\ job.hint \in Regions /\ certain \subseteq Cells
  /\ Submission

\* A copy that is kept of the panel is a frame.
LEMMA CommitTyped ==
  ASSUME DisplayTyped, pending # NoUpdate, Commit(pending)
  PROVE  shadow' \in Frames \union {NoFrame}
<1>1. pending.pixels \in Frames BY DEF DisplayTyped, Submission
<1>2. shadow # NoFrame => shadow \in Frames BY DEF DisplayTyped
<1> QED BY <1>1, <1>2, FrameTypes DEF Commit

\* What is kept of a draw, and what it vouches for.
LEMMA DrawnTyped ==
  ASSUME DisplayTyped, Drawn
  PROVE  job'.frame \in Frames /\ job'.reason \in Reasons /\ job'.hint \in Regions /\ certain' \subseteq Cells
<1>1. job.hint \subseteq Cells BY DEF DisplayTyped, Regions
<1>2. certain' = job.hint \/ certain' = Cells BY DEF Drawn
<1>3. job' = Past(job.frame, "full") \/ job' = Past(job.frame, "transient") BY DEF Drawn
<1>4. job'.frame = job.frame /\ job'.reason \in {"full", "transient"} /\ job'.hint = Cells
  BY <1>3 DEF Past
<1> QED BY <1>1, <1>2, <1>4, FrameTypes DEF DisplayTyped, Reasons

\* Every variable of the display keeps its type.
LEMMA DisplayTypedKept ==
  ASSUME DisplayIInv, DisplayTyped, [DisplayNext]_displayVars PROVE DisplayTyped'
<1> USE DEF DrawStages
<1>1. CASE UNCHANGED displayVars BY <1>1 DEF displayVars, DisplayTyped, Submission
<1>2. CASE Complete
  <2>1. panel' \in Frames BY <1>2, FrameTypes DEF Complete, DisplayTyped
  <2> QED BY <1>2, <2>1, FrameTypes DEF Complete, DisplayTyped, Submission
<1>3. CASE BeginDraw
  <2>1. PICK frame \in Frames, reason \in Reasons, qr \in BOOLEAN, hint \in Regions :
          job' = [frame |-> frame, reason |-> reason, hint |-> hint, qr |-> qr, plan |-> Plan(reason)]
    <3>1. \A reason : Hints(reason) \subseteq Regions BY Zenon DEF Hints
    <3> HIDE DEF Regions
    <3> QED BY <1>3, <3>1 DEF BeginDraw, Reasons
  <2>3. job'.frame \in Frames /\ job'.reason \in Reasons /\ job'.hint \in Regions BY <2>1
  <2> QED BY <1>3, <2>3 DEF BeginDraw, DisplayTyped, Submission
<1>4. CASE Barrier
  <2>1. shadow' \in Frames \union {NoFrame} BY <1>4, CommitTyped DEF Barrier, DisplayTyped
  <2>2. UNCHANGED pending \/ pending' = NoUpdate BY <1>4 DEF Barrier
  <2>3. pending'.region \subseteq Cells /\ Submission' BY <2>2, FrameTypes DEF DisplayTyped, Submission, NoUpdate
  <2> QED BY <1>4, <2>1, <2>3 DEF Barrier, DisplayTyped
<1>5. CASE Copy
  <2> DEFINE R == RequestRegion
  <2>1. R \subseteq Cells BY FrameTypes DEF DisplayTyped, Regions
  <2>2. mapping' \in Frames /\ UNCHANGED <<panel, shadow>> BY <1>5, FrameTypes DEF Copy, DisplayTyped
  <2>3. CASE flight' = flight \union R /\ Submitted(R)
    <3>1. pending' = [region |-> R, pixels |-> Update(mapping, R, job.frame)] BY <2>3 DEF Submitted
    <3>2. Update(mapping, R, job.frame) \in Frames BY FrameTypes DEF DisplayTyped
    <3> HIDE DEF R
    <3>3. pending'.region \subseteq Cells /\ Submission' BY <2>1, <3>1, <3>2 DEF Submission
    <3>4. drawing' \in DrawStages BY <2>3 DEF Submitted
    <3>5. job'.frame \in Frames /\ job'.reason \in Reasons /\ job'.hint \in Regions /\ certain' \subseteq Cells
      <4>1. UNCHANGED <<job, certain>> \/ Drawn BY <2>3 DEF Submitted
      <4> QED BY <4>1, DrawnTyped DEF DisplayTyped
    <3>6. flight' \subseteq Cells BY <2>1, <2>3 DEF DisplayTyped
    <3> QED BY <2>2, <3>3, <3>4, <3>5, <3>6 DEF DisplayTyped
  <2>4. CASE drawing' = "ended" /\ UNCHANGED <<flight, pending, job, fastTurns, due, certain, ghosting>>
    BY <2>2, <2>4 DEF DisplayTyped, Submission
  <2> QED BY <1>5, <2>3, <2>4 DEF Copy
<1>6. CASE Skip BY <1>6, DrawnTyped DEF Skip, DisplayTyped, Submission
<1>7. CASE WaitOwn
  <2>1. shadow' \in Frames \union {NoFrame}
    BY <1>7, CommitTyped DEF WaitOwn, DisplayIInv, FlightInv
  <2>2. pending'.region \subseteq Cells /\ Submission' BY <1>7, FrameTypes DEF WaitOwn, Submission, NoUpdate
  <2> QED BY <1>7, <2>1, <2>2, DrawnTyped DEF WaitOwn, DisplayTyped
<1>8. CASE WaitFails BY <1>8 DEF WaitFails, DisplayTyped, Submission
<1>9. CASE Rotate
  <2>1. pending'.region \subseteq Cells /\ Submission' /\ certain' \subseteq Cells
    BY <1>9, FrameTypes DEF Rotate, Submission, NoUpdate
  <2> QED BY <1>9, <2>1 DEF Rotate, DisplayTyped
<1>10. CASE RotateFails
  <2>1. UNCHANGED pending \/ pending' = NoUpdate BY <1>10 DEF RotateFails
  <2>2. pending'.region \subseteq Cells /\ Submission' /\ certain' \subseteq Cells
    BY <1>10, <2>1, FrameTypes DEF RotateFails, DisplayTyped, Submission, NoUpdate
  <2>3. shadow' \in Frames \union {NoFrame} BY <1>10, CommitTyped DEF RotateFails, DisplayTyped
  <2>4. panel' \in Frames BY <1>10 DEF RotateFails, DisplayTyped
  <2> QED BY <1>10, <2>2, <2>3, <2>4 DEF RotateFails, DisplayTyped
<1>11. CASE Standby
  <2>1. certain' \subseteq Cells BY <1>11, FrameTypes DEF Standby
  <2> QED BY <1>11, <2>1 DEF Standby, DisplayTyped, Submission
<1>12. CASE Resume BY <1>12 DEF Resume, DisplayTyped, Submission
<1> QED BY <1>1, <1>2, <1>3, <1>4, <1>5, <1>6, <1>7, <1>8, <1>9, <1>10, <1>11, <1>12 DEF DisplayNext

\* The display starts with variables of their types, and what is said of them
\* is their type.
LEMMA DisplayTypes ==
  /\ DisplayInit => DisplayTyped
  /\ DisplayIInv /\ DisplayTyped => DisplayTypeOK
<1>1. DisplayInit => DisplayTyped
  <2> SUFFICES ASSUME DisplayInit PROVE DisplayTyped OBVIOUS
  <2>1. job.frame \in Frames /\ job.reason \in Reasons /\ job.hint \in Regions
    BY FrameTypes DEF DisplayInit, Past, Reasons
  <2>2. pending.region \subseteq Cells /\ Submission BY FrameTypes DEF DisplayInit, NoUpdate, Submission
  <2>3. flight \subseteq Cells /\ certain \subseteq Cells BY FrameTypes DEF DisplayInit
  <2> QED BY <2>1, <2>2, <2>3 DEF DisplayInit, DisplayTyped, DrawStages
<1>2. DisplayIInv => fastTurns \in 0 .. FastTurnsBeforeCleanup BY DEF DisplayIInv, PolicyInv
<1> QED BY <1>1, <1>2 DEF DisplayTyped, DisplayTypeOK

=============================================================================
