-------------------------------- MODULE Shell -------------------------------
(***************************************************************************)
(* The shell of the PRS-T1 (UiState and the event loop of runtime.rs):     *)
(* pages and their history, the focus, touches, the keys, and what they    *)
(* ask of the reader and of the system.  SleepCycle models the rest of the *)
(* loop: the power key, sleep and the trigger of synchronization.          *)
(*                                                                         *)
(* A pass of the loop reads every waiting event and then sleeps, restarts  *)
(* or draws.  Events are read one by one as the device produces them; what *)
(* is done asleep only shows as a finger that has moved.  The legacy       *)
(* details page is left out: HistoryIsPath shows that no page the shell    *)
(* opens leads to it.                                                      *)
(***************************************************************************)
EXTENDS Screen

CONSTANT
  TouchPoints   \* where the screen is touched, in portrait coordinates

VARIABLES
  page, settingsMenu, history, focused, pendingPower,
  orientation,
  shape,        \* how the driver tells a contact: its "size" or BTN_TOUCH ("button")
  touch,        \* what the shell knows of the touch
  menu,         \* "none", "pressed", "held" (for a second), "redrawn"
  operation, tap, turn,           \* what is to be done to the reader
  phase,        \* where the loop is
  action,       \* the power action confirmed in this pass
  dirty,        \* what the last event left to be drawn
  began,        \* the control the finger on the screen was put on
  activated     \* the control this step's tap activated

pages == <<page, settingsMenu, history, focused, pendingPower>>
requests == <<operation, tap, turn>>
shellVars == <<pages, orientation, shape, touch, menu, requests, phase, action, dirty, began, activated>>

HistoryLimit == 8
PassPhases == {"reading", "applying", "ending", "ended"}

NoTouch == [down |-> FALSE, action |-> NoControl, pressed |-> NoControl,
            known |-> FALSE, releasing |-> FALSE, at |-> <<0, 0>>]

ShellInit ==
  /\ page = "home" /\ settingsMenu = FALSE /\ history = <<>> /\ focused = NoControl
  /\ pendingPower = "none" /\ orientation = "portrait"
  /\ shape \in {"size", "button"} /\ touch = NoTouch /\ menu = "none"
  /\ operation = "none" /\ tap = FALSE /\ turn = FALSE
  /\ phase = "reading" /\ action = "none" /\ dirty = "none"
  /\ began = NoControl /\ activated = NoControl

IsSettingsPage == page \in Pages

\* Off the settings pages the hit test falls back to the legacy page's controls.
Hit(at) == ActionAt(IF IsSettingsPage THEN page ELSE "legacy", at, orientation)

AllControls == (UNION {ControlsOn(p) : p \in Pages}) \union {NoControl}

-----------------------------------------------------------------------------
(* Pages.                                                                  *)

\* open_ui_page
Open(next) ==
  /\ history' = LET longer == Append(history, [page |-> page, focus |-> focused]) IN
                  IF Len(longer) > HistoryLimit THEN Tail(longer) ELSE longer
  /\ page' = next
  /\ settingsMenu' = (next = "menu")
  /\ focused' = FirstFocus(next, orientation)

\* Mutant: the way back is kept when the reader is returned to.
FaultyReturnToReader ==
  /\ page' = "home" /\ settingsMenu' = FALSE /\ UNCHANGED history
  /\ focused' = NoControl /\ pendingPower' = "none"

ReturnToReader ==
  /\ page' = "home" /\ settingsMenu' = FALSE /\ history' = <<>>
  /\ focused' = NoControl /\ pendingPower' = "none"

\* Where Back leads without a history.
Parent(p) ==
  CASE p = "menu" -> "home"
    [] p = "confirm" -> "device"
    [] OTHER -> "menu"

\* back_button, on any page but the reader's.
Back ==
  LET known == history # <<>>
      entry == IF known THEN Last(history) ELSE [page |-> Parent(page), focus |-> NoControl]
      rest == IF known THEN Front(history) ELSE <<>>
  IN  /\ page' = entry.page
      /\ settingsMenu' = (entry.page = "menu" /\ rest # <<>>)
      /\ history' = IF entry.page = "home" THEN <<>> ELSE rest
      /\ focused' = IF entry.focus \in ControlsOn(entry.page) THEN entry.focus
                    ELSE FirstFocus(entry.page, orientation)
      /\ pendingPower' = IF page = "confirm" THEN "none" ELSE pendingPower

NoRequest == UNCHANGED <<requests, action>>

\* activate_modern_action.  The toggles of the progress line and of debug
\* messages change what is drawn, and nothing else here.
Activate(control) ==
  \/ /\ control \in {"OpenReading", "OpenSynchronization", "OpenDeviceDiagnostics", "DisplayTest"}
     /\ Open(CASE control = "OpenReading" -> "reading" [] control = "OpenSynchronization" -> "sync"
               [] control = "OpenDeviceDiagnostics" -> "device" [] OTHER -> "test")
     /\ dirty' = "other" /\ NoRequest /\ UNCHANGED pendingPower
  \/ control = "BackToReading" /\ ReturnToReader /\ dirty' = "other" /\ NoRequest
  \/ control \in {"BackToSettings", "CancelPowerAction"} /\ Back /\ dirty' = "other" /\ NoRequest
  \/ /\ control = "Orientation"
     /\ turn' = TRUE /\ dirty' = "other"
     /\ UNCHANGED <<pages, operation, tap, action>>
  \/ /\ control \in {"FontDecrease", "FontReset", "FontIncrease", "ShowStatusBar"}
     /\ operation' = IF control = "ShowStatusBar" THEN "fullscreen" ELSE "font"
     /\ dirty' = IF control = "ShowStatusBar" THEN "none" ELSE "other"
     /\ UNCHANGED <<pages, tap, turn, action>>
  \/ /\ control \in {"ReadingProgress", "DebugMessages"}
     /\ dirty' = "other" /\ NoRequest /\ UNCHANGED pages
  \/ control = "SyncNow" /\ dirty' = "action" /\ NoRequest /\ UNCHANGED pages
  \/ /\ control = "ReturnToEntryPoint"
     /\ operation' = "entry" /\ dirty' = "action"
     /\ UNCHANGED <<pages, tap, turn, action>>
  \/ /\ control \in {"Reboot", "PowerOff"}
     /\ Open("confirm") /\ pendingPower' = control /\ dirty' = "other" /\ NoRequest
  \/ /\ control = "ConfirmPower" /\ pendingPower # "none"
     /\ action' = pendingPower /\ pendingPower' = "none" /\ dirty' = "other"
     /\ UNCHANGED <<page, settingsMenu, history, focused, requests>>
  \/ /\ control = "ConfirmPower" /\ pendingPower = "none"
     /\ Back /\ dirty' = "other" /\ NoRequest

\* An event that asks for nothing but perhaps to be drawn.
Only(drawn) == dirty' = drawn /\ NoRequest /\ UNCHANGED pages
Diagnostics == IF IsSettingsPage THEN "other" ELSE "none"

-----------------------------------------------------------------------------
(* Touches.                                                                *)

\* Mutant: where a touch began is not kept when it began beside a control.
FaultyBeginTouch(at) ==
  LET control == IF IsSettingsPage THEN Hit(at) ELSE NoControl IN
    [touch EXCEPT !.down = TRUE, !.known = control # NoControl, !.action = control,
                  !.pressed = control, !.at = at]

\* begin_touch_action
BeginTouch(at) ==
  LET control == IF IsSettingsPage THEN Hit(at) ELSE NoControl IN
    [touch EXCEPT !.down = TRUE, !.known = TRUE, !.action = control, !.pressed = control,
                  !.at = at]

\* activate_tap: a control is activated where it was touched and released.
ActivateTap ==
  LET control == IF touch.action # NoControl THEN touch.action
                 ELSE IF ~touch.known /\ IsSettingsPage THEN Hit(touch.at) ELSE NoControl
      bar == touch.at[2] < StatusBarHeight
  IN  /\ touch' = [NoTouch EXCEPT !.at = touch.at]
      /\ \/ page = "test" /\ Only("other") /\ UNCHANGED activated
         \/ /\ page = "home" /\ bar
            /\ Open("menu") /\ dirty' = "other" /\ NoRequest /\ UNCHANGED <<pendingPower, activated>>
         \/ /\ IsSettingsPage /\ bar
            /\ ReturnToReader /\ dirty' = "other" /\ NoRequest /\ UNCHANGED activated
         \/ /\ page = "home" /\ ~bar
            /\ tap' = TRUE /\ dirty' = "none"
            /\ UNCHANGED <<pages, operation, turn, action, activated>>
         \/ /\ IsSettingsPage /\ ~bar /\ control = NoControl
            /\ Only("none") /\ UNCHANGED activated
         \/ /\ IsSettingsPage /\ ~bar /\ control # NoControl /\ Hit(touch.at) # control
            /\ Only("action") /\ UNCHANGED activated
         \/ /\ IsSettingsPage /\ ~bar /\ control # NoControl /\ Hit(touch.at) = control
            /\ Activate(control) /\ activated' = control

\* The inversion of the control under the finger comes before anything else
\* an event means, and takes its place.
Inverts(at) ==
  /\ touch.down /\ touch.action # NoControl
  /\ (Hit(at) = touch.action) # (touch.pressed = touch.action)

Invert(at) ==
  /\ touch' = [touch EXCEPT !.at = at,
                 !.pressed = IF Hit(at) = touch.action THEN touch.action ELSE NoControl]
  /\ Only("action") /\ UNCHANGED activated

\* BTN_TOUCH, or a size or a tracking id: the finger is on the screen.
Contact ==
  /\ ~Inverts(touch.at)
  /\ touch' = IF touch.down THEN [touch EXCEPT !.releasing = FALSE] ELSE BeginTouch(touch.at)
  /\ began' = IF touch.down THEN began ELSE IF IsSettingsPage THEN Hit(touch.at) ELSE NoControl
  /\ Only(IF ~touch.down /\ touch'.action # NoControl THEN "action" ELSE "none")
  /\ UNCHANGED activated

Lift ==
  /\ shape = "size" /\ ~Inverts(touch.at)
  /\ touch' = [touch EXCEPT !.releasing = touch.down]
  /\ Only("none") /\ UNCHANGED <<began, activated>>

ButtonUp ==
  /\ shape = "button" /\ touch.down /\ ~Inverts(touch.at)
  /\ ActivateTap /\ UNCHANGED began

Report ==
  /\ ~Inverts(touch.at)
  /\ \/ touch.releasing /\ ActivateTap
     \/ ~touch.releasing /\ Only(Diagnostics) /\ UNCHANGED <<touch, activated>>
  /\ UNCHANGED began

Move(point) ==
  LET at == MapTouchPoint(orientation, "multitouch", point) IN
    /\ \/ Inverts(at) /\ Invert(at)
       \/ ~Inverts(at) /\ touch' = [touch EXCEPT !.at = at] /\ Only("none") /\ UNCHANGED activated
    /\ UNCHANGED began

LateInversion == Inverts(touch.at) /\ Invert(touch.at) /\ UNCHANGED began

TouchEvent ==
  /\ (\E p \in TouchPoints : Move(p)) \/ Contact \/ Lift \/ ButtonUp \/ Report \/ LateInversion
  /\ UNCHANGED menu

-----------------------------------------------------------------------------
(* Keys.                                                                   *)

PageKey(forward) ==
  \/ /\ page = "home"
     /\ operation' = IF forward THEN "next" ELSE "previous"
     /\ dirty' = "none"
     /\ UNCHANGED <<pages, tap, turn, action>>
  \/ /\ IsSettingsPage
     /\ focused' = NextFocus(page, orientation, focused, forward)
     /\ dirty' = IF focused' = focused THEN "none" ELSE "other"
     /\ NoRequest /\ UNCHANGED <<page, settingsMenu, history, pendingPower>>
  \/ page = "test" /\ Only("none")

HomeKey ==
  \/ /\ page = "home"
     /\ operation' = "entry" /\ history' = <<>> /\ focused' = NoControl /\ dirty' = "none"
     /\ UNCHANGED <<page, settingsMenu, pendingPower, tap, turn, action>>
  \/ page # "home" /\ ReturnToReader /\ dirty' = "other" /\ NoRequest

BackKey ==
  \/ /\ page = "home"
     /\ operation' = "back" /\ dirty' = "none"
     /\ UNCHANGED <<pages, tap, turn, action>>
  \/ page # "home" /\ Back /\ dirty' = "other" /\ NoRequest

\* observe_menu: the redraw is due once, by a repeat, the poll or the release.
MenuPress ==
  /\ menu' = IF menu = "none" THEN "pressed" ELSE menu
  /\ Only("none")

MenuRepeat ==
  /\ menu' = IF menu = "held" THEN "redrawn" ELSE menu
  /\ Only(IF menu = "held" THEN "other" ELSE "none")

MenuRelease ==
  /\ menu' = "none"
  /\ \/ menu \in {"none", "redrawn"} /\ Only("none")
     \/ menu = "held" /\ Only("other")
     \/ /\ menu = "pressed" /\ page = "home"
        /\ Open("menu") /\ dirty' = "other" /\ NoRequest /\ UNCHANGED pendingPower
     \/ menu = "pressed" /\ IsSettingsPage /\ Activate(focused)
     \/ menu = "pressed" /\ page = "test" /\ Only("none")

KeyEvent ==
  /\ \/ (\E forward \in BOOLEAN : PageKey(forward)) /\ UNCHANGED menu
     \/ (HomeKey \/ BackKey) /\ UNCHANGED menu
     \/ MenuPress \/ MenuRepeat \/ MenuRelease
  /\ activated' = NoControl
  /\ UNCHANGED <<touch, began>>

\* An event of the device, and the call of observe that answers it.
Event ==
  /\ phase = "reading" /\ phase' = "applying"
  /\ TouchEvent \/ KeyEvent
  /\ UNCHANGED <<orientation, shape>>

-----------------------------------------------------------------------------
(* The loop.                                                               *)

\* Mutant: the pass ends at any event that leaves something to be drawn.
FaultyApply ==
  /\ phase = "applying"
  /\ \/ dirty # "none" /\ phase' = "ending" /\ UNCHANGED <<requests, orientation>>
     \/ /\ dirty = "none" /\ phase' = "reading"
        /\ operation' = "none" /\ tap' = FALSE /\ turn' = FALSE /\ UNCHANGED orientation
  /\ dirty' = "none" /\ activated' = NoControl
  /\ began' = IF touch.down THEN began ELSE NoControl
  /\ UNCHANGED <<pages, shape, touch, menu, action>>

\* What an event asked of the reader is done before the next one is read; the
\* display may fail to turn.  The inverted control is drawn at once, before
\* its request is looked at.
Apply ==
  /\ phase = "applying"
  /\ \/ dirty = "action" /\ phase' = "ending" /\ UNCHANGED <<requests, orientation>>
     \/ /\ dirty # "action" /\ phase' = "reading"
        /\ orientation' \in {orientation} \union (IF turn THEN {Toggled(orientation)} ELSE {})
        /\ operation' = "none" /\ tap' = FALSE /\ turn' = FALSE
  /\ dirty' = "none" /\ activated' = NoControl
  /\ began' = IF touch.down THEN began ELSE NoControl
  /\ UNCHANGED <<pages, shape, touch, menu, action>>

\* No event is waiting.
NoMoreEvents ==
  /\ phase = "reading" /\ phase' = "ending"
  /\ UNCHANGED <<pages, orientation, shape, touch, menu, requests, action, dirty, began, activated>>

\* The shell draws, or sleeps, or restarts the device.
FinishPass ==
  /\ phase = "ending"
  /\ phase' = IF action = "none" THEN "reading" ELSE "ended"
  /\ UNCHANGED <<pages, orientation, shape, touch, menu, requests, action, dirty, began, activated>>

\* A second passes; poll_menu_hold redraws for a Menu key that is held.
SecondPasses ==
  /\ phase = "reading"
  /\ \/ menu = "pressed" /\ menu' = "held"
     \/ menu = "held" /\ menu' = "redrawn"
  /\ UNCHANGED <<pages, orientation, shape, touch, requests, phase, action, dirty, began, activated>>

ShellNext == Event \/ Apply \/ NoMoreEvents \/ FinishPass \/ SecondPasses

ShellSpec == ShellInit /\ [][ShellNext]_shellVars

-----------------------------------------------------------------------------
(* Properties.                                                             *)

ShellTypeOK ==
  /\ page \in Pages \union {"home", "test"} /\ settingsMenu \in BOOLEAN
  /\ \A i \in DOMAIN history : history[i].page \in Pages \union {"home"}
  /\ Len(history) <= HistoryLimit
  /\ pendingPower \in {"none", "Reboot", "PowerOff"} /\ phase \in PassPhases
  /\ action \in {"none", "Reboot", "PowerOff"} /\ dirty \in {"none", "action", "other"}
  /\ menu \in {"none", "pressed", "held", "redrawn"}
  /\ operation \in {"none", "previous", "next", "back", "entry", "fullscreen", "font"}
  /\ orientation \in {"portrait", "landscape"} /\ {began, activated} \subseteq AllControls

\* The pages one came through are a path from the reader to the page shown,
\* with the focus each was left with: Back never meets the cases the code
\* calls unreachable, the legacy details page is never shown, the focus is
\* on a control of the page, and a power action waits only for its page.
HistoryIsPath ==
  /\ (page = "home") <=> (history = <<>>)
  /\ page = "menu" => settingsMenu
  /\ pendingPower # "none" => page = "confirm"
  /\ focused \in IF IsSettingsPage THEN ControlsOn(page) ELSE {NoControl}
  /\ LET steps == Append([i \in DOMAIN history |-> history[i].page], page) IN
       \A i \in DOMAIN steps :
         /\ (i = 1) <=> (steps[i] = "home")
         /\ i > 1 => steps[i - 1] = IF steps[i] = "test" THEN "device" ELSE Parent(steps[i])
  /\ \A i \in DOMAIN history :
       history[i].focus \in IF i = 1 THEN {NoControl} ELSE ControlsOn(history[i].page)

\* "An action is committed only if release remains inside the exact control
\* that was pressed" (comment in activate_tap): whatever keys, turns and
\* sleep come in between, a tap activates only what a finger was put on.
\* Drivers that report a release in two ways at once are not considered.
DeliberateActivation == activated # NoControl => activated = began

\* What the user asked of the reader is done before the pass ends that read
\* it, so before the shell draws, waits, sleeps or restarts, with one
\* exception: a return to the entry point chosen on the Reading page waits
\* for the next event.
RequestsAreCarriedOut ==
  phase \notin {"reading", "applying"} =>
    /\ ~tap /\ ~turn
    /\ operation \in {"none", "entry"}

=============================================================================
