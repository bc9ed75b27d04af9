------------------------------- MODULE Screen -------------------------------
(***************************************************************************)
(* What the settings pages of the PRS-T1 show where (display.rs), in both  *)
(* orientations, and what a change of the shell's state asks to be drawn   *)
(* again (DirtyArea in runtime.rs, RefreshPolicy::plan in refresh.rs).     *)
(***************************************************************************)
EXTENDS Integers, Sequences, FiniteSets, SequencesExt

Orientations == {"portrait", "landscape"}
Width(orientation) == IF orientation = "portrait" THEN 600 ELSE 800
Height(orientation) == IF orientation = "portrait" THEN 800 ELSE 600
Toggled(orientation) == IF orientation = "portrait" THEN "landscape" ELSE "portrait"

\* The multitouch stream reports portrait coordinates, the legacy axes
\* panel coordinates; either is swapped in the other orientation.
MapTouchPoint(orientation, axes, point) ==
  IF (axes = "multitouch") = (orientation = "portrait") THEN point ELSE <<point[2], point[1]>>

StatusBarHeight == 48
ContentTop == 76

Region(left, top, width, height) == [left |-> left, top |-> top, width |-> width, height |-> height]
Right(r) == r.left + r.width
Bottom(r) == r.top + r.height
Holds(r, x, y) == x >= r.left /\ x < Right(r) /\ y >= r.top /\ y < Bottom(r)
Within(r, s) == r.left >= s.left /\ r.top >= s.top /\ Right(r) <= Right(s) /\ Bottom(r) <= Bottom(s)
\* The region from the given edges.
Edges(left, top, right, bottom) == Region(left, top, right - left, bottom - top)
Meet(r, s) ==
  Edges(Max({r.left, s.left}), Max({r.top, s.top}),
        Min({Right(r), Right(s)}), Min({Bottom(r), Bottom(s)}))
Hull(regions) ==
  Edges(Min({r.left : r \in regions}), Min({r.top : r \in regions}),
        Max({Right(r) : r \in regions}), Max({Bottom(r) : r \in regions}))
Empty(r) == r.width <= 0 \/ r.height <= 0
Full(orientation) == Region(0, 0, Width(orientation), Height(orientation))

-----------------------------------------------------------------------------
(* The controls of the pages.                                              *)

Pages == {"menu", "reading", "sync", "device", "confirm"}

\* details_actions_for_page
Controls(page) ==
  CASE page = "menu" -> <<"OpenReading", "OpenSynchronization", "OpenDeviceDiagnostics", "BackToReading">>
    [] page = "reading" -> <<"Orientation", "ShowStatusBar", "FontDecrease", "FontReset", "FontIncrease",
                             "ReadingProgress", "ReturnToEntryPoint", "BackToSettings">>
    [] page = "sync" -> <<"SyncNow", "BackToSettings">>
    [] page = "device" -> <<"DebugMessages", "DisplayTest", "Reboot", "PowerOff", "BackToSettings">>
    [] page = "confirm" -> <<"CancelPowerAction", "ConfirmPower">>
    [] page = "legacy" -> <<"SyncNow", "ReturnToEntryPoint", "DisplayTest", "Reboot", "PowerOff",
                            "BackToReading">>
    [] OTHER -> <<>>

ControlsOn(page) == ToSet(Controls(page))

\* The tops of a control in portrait and in landscape, its height, and its
\* column in landscape, if it does not take the whole width.
WholeWidth == 2
Place(portraitTop, landscapeTop, height, column) ==
  [portrait |-> portraitTop, landscape |-> landscapeTop, height |-> height, column |-> column]

Placement(page, control) ==
  CASE control = "OpenReading" -> Place(132, 132, 48, WholeWidth)
    [] control = "OpenSynchronization" -> Place(202, 202, 48, WholeWidth)
    [] control = "OpenDeviceDiagnostics" -> Place(272, 272, 48, WholeWidth)
    [] control = "BackToReading" -> Place(500, 500, 48, WholeWidth)
    [] control = "Orientation" -> Place(132, 132, 44, 0)
    [] control = "ShowStatusBar" -> Place(194, 194, 44, 0)
    [] control \in {"FontDecrease", "FontReset", "FontIncrease"} -> Place(274, 160, 44, 1)
    [] control = "ReadingProgress" -> Place(364, 232, 44, 1)
    [] control = "ReturnToEntryPoint" -> Place(454, 454, 44, WholeWidth)
    [] control = "BackToSettings" -> IF page = "reading" THEN Place(520, 520, 48, WholeWidth)
                                     ELSE Place(500, 500, 48, WholeWidth)
    [] control = "SyncNow" -> Place(250, 250, 48, WholeWidth)
    [] control = "DebugMessages" -> Place(132, 132, 44, 0)
    [] control = "DisplayTest" -> Place(220, 220, 48, 0)
    [] control = "Reboot" -> Place(316, 132, 48, 1)
    [] control = "PowerOff" -> Place(388, 204, 48, 1)
    [] control = "CancelPowerAction" -> Place(300, 300, 48, 0)
    [] control = "ConfirmPower" -> Place(372, 300, 48, 1)

Margin == 24
ColumnGap == 24
ControlGap == 8

\* modern_region: columns in landscape, whole rows in portrait.
Row(place, orientation) ==
  LET column == (Width("landscape") - 2 * Margin - ColumnGap) \div 2 IN
    IF orientation = "landscape" /\ place.column # WholeWidth
    THEN Region(Margin + place.column * (column + ColumnGap), place.landscape, column, place.height)
    ELSE Region(Margin, place[orientation], Width(orientation) - 2 * Margin, place.height)

\* details_action_region, of the page no longer shown.
LegacyRegion(index, orientation) ==
  IF orientation = "landscape"
  THEN Region(Margin + (index % 2) * 378, 476 + (index \div 2) * 40, 374, 36)
  ELSE Region(Margin, 548 + index * 40, 552, 36)

\* details_action_region_for_page: the three font controls share a row.
ActionRegion(page, control, orientation) ==
  IF page = "legacy"
  THEN LegacyRegion((CHOOSE i \in 1 .. 6 : Controls(page)[i] = control) - 1, orientation)
  ELSE IF control \in {"FontDecrease", "FontReset", "FontIncrease"}
  THEN LET index == CASE control = "FontDecrease" -> 0 [] control = "FontReset" -> 1 [] OTHER -> 2
           Third(width) == (width - 2 * ControlGap) \div 3
           row == [Row(Placement(page, control), orientation) EXCEPT !.width = Third(@)]
       IN  [row EXCEPT !.left = @ + index * (row.width + ControlGap)]
  ELSE Row(Placement(page, control), orientation)

\* details_action_focus_region_for_page: the frame is drawn around a control.
FocusRegion(page, control, orientation) ==
  [ActionRegion(page, control, orientation)
     EXCEPT !.left = @ - 5, !.top = @ - 5, !.width = @ + 10, !.height = @ + 10]

NoControl == "none"

\* details_action_at_for_page
ActionAt(page, point, orientation) ==
  LET hit == {i \in DOMAIN Controls(page) :
                \E r \in {ActionRegion(page, Controls(page)[i], orientation)} :
                  Holds(r, point[1], point[2])}
  IN  IF hit = {} THEN NoControl ELSE Controls(page)[Min(hit)]

\* The order of focus_actions: top to bottom, then left to right.
Precedes(a, b, page, orientation) ==
  \E r \in {ActionRegion(page, a, orientation)}, s \in {ActionRegion(page, b, orientation)} :
    r.top < s.top \/ (r.top = s.top /\ r.left < s.left)

FirstOf(controls, page, orientation) ==
  CHOOSE c \in controls : \A other \in controls : ~Precedes(other, c, page, orientation)
LastOf(controls, page, orientation) ==
  CHOOSE c \in controls : \A other \in controls : ~Precedes(c, other, page, orientation)

FirstFocus(page, orientation) ==
  IF ControlsOn(page) = {} THEN NoControl ELSE FirstOf(ControlsOn(page), page, orientation)

\* move_focus: the next control after the focused one, or the nearest before
\* it; from none, and from either end, to the other end.
NextFocus(page, orientation, focused, forward) ==
  LET all == ControlsOn(page)
      beyond == {c \in all \ {focused} : focused \in all /\
                   IF forward THEN Precedes(focused, c, page, orientation)
                   ELSE Precedes(c, focused, page, orientation)}
      candidates == IF beyond = {} THEN all ELSE beyond
  IN  IF forward THEN FirstOf(candidates, page, orientation)
      ELSE LastOf(candidates, page, orientation)

-----------------------------------------------------------------------------
(* What has to be drawn again.                                             *)

Tones == {"monochrome", "grayscale"}
PlainAreas == {"Full", "Status", "SyncStatus", "StatusFeedback", "Feedback", "Interaction",
               "ExternalLinkOverlay", "Touch", "Key", "Power"}

Area(kind) == [kind |-> kind]
PageTurn(tone) == [kind |-> "PageTurn", tone |-> tone]
Action(control) == [kind |-> "Action", control |-> control]
Focus(previous, current) == [kind |-> "Focus", previous |-> previous, current |-> current]

Areas(page) ==
  {Area(k) : k \in PlainAreas} \union {PageTurn(t) : t \in Tones}
    \union {Action(c) : c \in ControlsOn(page)}
    \union {Focus(p, c) : p \in ControlsOn(page), c \in ControlsOn(page)}

\* Pairs of kinds, in either order, that merge to something less than Full.
MergedKind(kinds) ==
  CASE kinds \in {{"Status", "SyncStatus"}, {"SyncStatus", "Action"}} -> "SyncStatus"
    [] kinds \in {{"Status", "StatusFeedback"}, {"Status", "Feedback"},
                  {"SyncStatus", "StatusFeedback"}, {"SyncStatus", "Feedback"}} -> "StatusFeedback"
    [] kinds \in {{"Feedback", "Action"}, {"Feedback", "Interaction"},
                  {"ExternalLinkOverlay", "Feedback"}, {"ExternalLinkOverlay", "Interaction"}} -> "Interaction"
    [] kinds = {"Key", "Power"} -> "Power"
    [] OTHER -> "Full"

Merge(a, b) ==
  CASE a.kind = "PageTurn" /\ b.kind = "PageTurn" ->
         PageTurn(IF "grayscale" \in {a.tone, b.tone} THEN "grayscale" ELSE "monochrome")
    [] a.kind = "Focus" /\ b.kind = "Focus" -> Focus(a.previous, b.current)
    [] a = b -> a
    [] {a.kind, b.kind} = {"PageTurn", "Interaction"} -> IF a.kind = "PageTurn" THEN a ELSE b
    [] OTHER -> Area(MergedKind({a.kind, b.kind}))

\* DirtyArea::reason
Reason(area, page) ==
  CASE area.kind = "Full" -> "full_redraw"
    [] area.kind = "PageTurn" -> IF area.tone = "grayscale" THEN "grayscale_page_turn" ELSE "text_page_turn"
    [] area.kind = "SyncStatus" \/ (area.kind = "Status" /\ page = "home") -> "status_bar"
    [] OTHER -> "transient"

SyncRowBottom == 584

\* DirtyArea::region
RegionOf(area, orientation, page) ==
  LET w == Width(orientation)
      h == Height(orientation)
      band == Region(0, StatusBarHeight, w, ContentTop - StatusBarHeight)
      content == Region(0, StatusBarHeight, w, h - StatusBarHeight)
      top(bottom) == Region(0, 0, w, bottom)
  IN  CASE area.kind = "Full" -> Full(orientation)
        [] area.kind \in {"PageTurn", "Interaction"} -> content
        [] area.kind = "ExternalLinkOverlay" -> Region(w - 372, h - 230, 360, 214)
        [] area.kind = "Status" -> top(IF page = "home" THEN StatusBarHeight ELSE IF h < 640 THEN h ELSE 640)
        [] area.kind = "SyncStatus" -> top(IF page = "home" THEN StatusBarHeight ELSE SyncRowBottom)
        [] area.kind = "StatusFeedback" -> top(IF page = "home" THEN ContentTop ELSE SyncRowBottom)
        [] area.kind = "Feedback" -> band
        [] area.kind \in {"Touch", "Key", "Power"} -> IF page = "home" THEN band ELSE content
        [] area.kind = "Action" -> ActionRegion(page, area.control, orientation)
        [] area.kind = "Focus" ->
             Hull({FocusRegion(page, area.previous, orientation),
                   FocusRegion(page, area.current, orientation)})

\* How much a reason asks of the panel: RefreshPolicy::plan.
Quality(reason) ==
  CASE reason = "full_redraw" -> 2
    [] reason = "grayscale_page_turn" -> 2
    [] OTHER -> 1

\* The parts of a page that are drawn: the status bar, the band below it
\* that carries feedback or the title, the rows of values, the controls.
Parts(page, orientation) ==
  {Region(0, 0, Width(orientation), StatusBarHeight),
   Region(0, StatusBarHeight, Width(orientation), ContentTop - StatusBarHeight)}
    \union (IF page = "home" THEN {RegionOf(Area("Interaction"), orientation, page)} ELSE {})
    \union {ActionRegion(page, c, orientation) : c \in ControlsOn(page)}

\* Two requests to draw that meet in one pass of the loop are served by one
\* update: whatever merge makes of the pair, it covers all of the page that
\* either of them named, with no less quality than either.  (Of two moves of
\* the focus the control in the middle was never drawn as focused.)
MergeKeeps(page, orientation, a, b) ==
  /\ \A x \in {a, b} : Quality(Reason(Merge(a, b), page)) >= Quality(Reason(x, page))
  /\ \/ a.kind = "Focus" /\ b.kind = "Focus"
     \/ \A drawn \in {RegionOf(Merge(a, b), orientation, page)}, part \in Parts(page, orientation) :
          \A asked \in {Meet(part, RegionOf(x, orientation, page)) : x \in {a, b}} :
            Empty(asked) \/ Within(asked, drawn)

=============================================================================
