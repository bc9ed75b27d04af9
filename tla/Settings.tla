------------------------------ MODULE Settings ------------------------------
(***************************************************************************)
(* The settings of the PRS-T1 that survive a restart (preferences.rs), the *)
(* start of the shell, and the changes of orientation and font size, which *)
(* display, reader, shell and file have to agree on (runtime.rs).          *)
(*                                                                         *)
(* The file system shows a renamed file at once and makes it durable later,*)
(* so a loss of power may bring the old file back; data that was not       *)
(* synchronized may be lost with it.                                       *)
(***************************************************************************)
EXTENDS Naturals, FiniteSets

CONSTANTS
  FrameworkPolls, \* FRAMEWORK_STOP_TIMEOUT_SECONDS
  Unsettled       \* the bound on the contents a loss of power chooses from

ASSUME FrameworkAssumption == FrameworkPolls \in Nat

VARIABLES
  stored,     \* what the path names
  survivors,  \* what it may name after a loss of power
  temporary,  \* the temporary file of a process with this identifier
  saving,     \* the stage of save_to
  preferences,
  shellTurn, displayTurn, readerTurn, \* orientation, of the state, the display and the reader
  process,    \* "off", "stopping" the framework, "running"
  framework,  \* zygote and system_server run
  checks,     \* of ensure_native_ownership
  unsaved,    \* the last save failed
  skewed      \* a change of the display's orientation failed half-way

fileState == <<stored, survivors, temporary, saving>>
turns == <<shellTurn, displayTurn, readerTurn, skewed>>
life == <<process, framework, checks>>
settingsVars == <<fileState, preferences, turns, life, unsaved>>

Turns == {"portrait", "landscape"}
Scales == {75, 100, 125, 150}
Chosen == [turn : Turns, scale : Scales]
Default == [turn |-> "portrait", scale |-> 100]
NoFile == [turn |-> "none", scale |-> 0]
Torn == [turn |-> "torn", scale |-> 0]
NoTemporary == [content |-> NoFile, synced |-> FALSE]
SaveStages == {"idle", "create", "write", "sync", "rename"}

\* load_from: no file and an invalid file give the defaults.
Loaded(content) == IF content \in Chosen THEN content ELSE Default

SettingsInit ==
  /\ stored = NoFile /\ survivors = {NoFile} /\ temporary = NoTemporary /\ saving = "idle"
  /\ preferences = Default
  /\ shellTurn = "portrait" /\ displayTurn = "portrait" /\ readerTurn = "portrait" /\ skewed = FALSE
  /\ process = "off" /\ framework = TRUE /\ checks = 0 /\ unsaved = FALSE

-----------------------------------------------------------------------------
(* The start.                                                              *)

\* launch detaches from Android's process group and stops zygote.
Launch ==
  /\ process = "off" /\ process' = "stopping" /\ checks' = 0
  /\ UNCHANGED <<fileState, preferences, turns, framework, unsaved>>

FrameworkStops ==
  /\ process = "stopping" /\ framework' = FALSE
  /\ UNCHANGED <<fileState, preferences, turns, process, checks, unsaved>>

\* wait_for_framework_stop, a second between two checks.
AwaitFramework ==
  /\ process = "stopping" /\ framework
  /\ IF checks < FrameworkPolls THEN checks' = checks + 1 /\ UNCHANGED process
     ELSE process' = "off" /\ UNCHANGED checks
  /\ UNCHANGED <<fileState, preferences, turns, framework, unsaved>>

\* The start of run: the display is opened in portrait and turned to what was
\* saved; another process identifier has another temporary file.
Start ==
  /\ process = "stopping" /\ ~framework /\ process' = "running"
  /\ preferences' = Loaded(stored)
  /\ shellTurn' = preferences'.turn /\ displayTurn' = preferences'.turn /\ readerTurn' = preferences'.turn
  /\ temporary' \in {temporary, NoTemporary}
  /\ saving' = "idle" /\ unsaved' = FALSE /\ skewed' = FALSE /\ checks' = 0
  /\ UNCHANGED <<stored, survivors, framework>>

-----------------------------------------------------------------------------
(* Changes of settings.                                                    *)

Idle == process = "running" /\ saving = "idle"

\* apply_orientation_change, up to the save.
ChangeOrientation ==
  /\ Idle /\ saving' = "create"
  /\ \E turn \in Turns \ {shellTurn} :
       /\ displayTurn' = turn /\ readerTurn' = turn /\ shellTurn' = turn
       /\ preferences' = [preferences EXCEPT !.turn = turn]
  /\ skewed' = FALSE
  /\ UNCHANGED <<stored, survivors, temporary, life, unsaved>>

\* The reader's layout failed: the display is turned back, if it can be.
RollBack ==
  \/ displayTurn' = shellTurn /\ UNCHANGED skewed
  \/ displayTurn' \in Turns /\ skewed' = TRUE

\* The display may have turned when it reports a failure.
ChangeFails ==
  /\ Idle
  /\ \/ displayTurn' \in Turns /\ skewed' = TRUE
     \/ RollBack
  /\ UNCHANGED <<fileState, preferences, shellTurn, readerTurn, life, unsaved>>

\* The font operations: set, decrease, reset and increase, by steps within
\* the bounds; the same size is not saved again.
NewScales ==
  LET scale == preferences.scale
  IN  (Scales \intersect {scale - 25, 100, scale + 25, IF scale = 150 THEN 75 ELSE 100}) \ {scale}

ChangeFont ==
  /\ Idle /\ saving' = "create"
  /\ \E scale \in NewScales : preferences' = [preferences EXCEPT !.scale = scale]
  /\ UNCHANGED <<stored, survivors, temporary, turns, life, unsaved>>

-----------------------------------------------------------------------------
(* save_to: create, write, synchronize, rename.                            *)

\* create_new refuses a temporary file that a crash has left.
CreateTemporary ==
  /\ saving = "create" /\ temporary = NoTemporary
  /\ temporary' = [content |-> Torn, synced |-> FALSE] /\ saving' = "write"
  /\ UNCHANGED <<stored, survivors, preferences, turns, life, unsaved>>

WriteTemporary ==
  /\ saving = "write" /\ saving' = "sync"
  /\ temporary' = [content |-> preferences, synced |-> FALSE]
  /\ UNCHANGED <<stored, survivors, preferences, turns, life, unsaved>>

\* Mutant: the data is renamed before it is on disk.
FaultySynchronized == [temporary EXCEPT !.synced = FALSE]

Synchronized == [temporary EXCEPT !.synced = TRUE]

SyncTemporary ==
  /\ saving = "sync" /\ saving' = "rename" /\ temporary' = Synchronized
  /\ UNCHANGED <<stored, survivors, preferences, turns, life, unsaved>>

RenameTemporary ==
  /\ saving = "rename" /\ saving' = "idle" /\ Cardinality(survivors) < Unsettled
  /\ stored' = temporary.content /\ temporary' = NoTemporary /\ unsaved' = FALSE
  /\ survivors' = survivors \union {stored'} \union (IF temporary.synced THEN {} ELSE {Torn})
  /\ UNCHANGED <<preferences, turns, life>>

\* A step fails: a temporary file of this save is removed, if it can be; a
\* refused one was not of this save.
SaveFails ==
  /\ process = "running" /\ saving # "idle"
  /\ saving' = "idle" /\ unsaved' = TRUE
  /\ temporary' \in IF saving = "create" THEN {temporary} ELSE {temporary, NoTemporary}
  /\ UNCHANGED <<stored, survivors, preferences, turns, life>>

\* The file system makes the directory durable.
Settle ==
  /\ survivors # {stored} /\ Torn \notin survivors /\ survivors' = {stored}
  /\ UNCHANGED <<stored, temporary, saving, preferences, turns, life, unsaved>>

-----------------------------------------------------------------------------
(* Ends of the process.                                                    *)

\* What the process held is gone.
Forgotten ==
  /\ saving' = "idle" /\ preferences' = Default /\ unsaved' = FALSE /\ skewed' = FALSE
  /\ shellTurn' = "portrait" /\ displayTurn' = "portrait" /\ readerTurn' = "portrait"

\* The process ends between two steps of a save, or elsewhere; Android runs
\* again after a restart.
Kill ==
  /\ process = "running" /\ process' = "off" /\ Forgotten
  /\ framework' \in BOOLEAN
  /\ UNCHANGED <<stored, survivors, temporary, checks>>

LosePower ==
  /\ process = "running" /\ process' = "off" /\ framework' = TRUE /\ Forgotten
  /\ stored' \in survivors /\ survivors' = {stored'}
  /\ temporary' \in {temporary, NoTemporary}
  /\ UNCHANGED checks

SettingsNext ==
  \/ Launch \/ FrameworkStops \/ AwaitFramework \/ Start
  \/ ChangeOrientation \/ ChangeFails \/ ChangeFont
  \/ CreateTemporary \/ WriteTemporary \/ SyncTemporary \/ RenameTemporary \/ SaveFails
  \/ Settle \/ Kill \/ LosePower

SettingsSpec == SettingsInit /\ [][SettingsNext]_settingsVars

-----------------------------------------------------------------------------
(* Properties.                                                             *)

SettingsTypeOK ==
  /\ stored \in Chosen \union {NoFile, Torn} /\ survivors \subseteq Chosen \union {NoFile, Torn}
  /\ saving \in SaveStages /\ preferences \in Chosen
  /\ {shellTurn, displayTurn, readerTurn} \subseteq Turns
  /\ process \in {"off", "stopping", "running"} /\ checks \in 0 .. FrameworkPolls
  /\ {framework, unsaved, skewed} \subseteq BOOLEAN

\* No loss of power leaves a file that is neither the settings of before the
\* save nor those of after it; and whenever the shell is not saving, display,
\* reader, shell and settings agree on the orientation, and the file on all
\* settings, unless a failure was reported.
SettingsAgree ==
  /\ Torn \notin survivors
  /\ process = "running" =>
       /\ ~skewed => {displayTurn, readerTurn} = {shellTurn}
       /\ {shellTurn, readerTurn} = {preferences.turn}
       /\ saving = "idle" /\ ~unsaved => Loaded(stored) = preferences

=============================================================================
