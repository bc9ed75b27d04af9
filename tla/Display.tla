------------------------------- MODULE Display ------------------------------
(***************************************************************************)
(* The e-ink display of the PRS-T1 as the shell drives it (framebuffer.rs, *)
(* damage.rs, refresh.rs): the frame buffer mapped into the process, the   *)
(* controller that copies regions of it to the panel in its own time, the  *)
(* shell's copy of what was presented, and the policy of refreshes.        *)
(*                                                                         *)
(* The screen is a set of cells, each with one of two contents; a region   *)
(* is a set of cells.  A draw passes the stages of                         *)
(* draw_frame_with_waveform.  An error of a draw ends the shell; one of a  *)
(* change of orientation does not, and asks for the whole screen.          *)
(***************************************************************************)
EXTENDS Naturals, Functions

CONSTANTS
  Status, Page, \* the cells of the status bar and of the page
  FastTurnsBeforeCleanup \* FAST_PAGE_TURNS_BEFORE_CLEANUP

ASSUME DisplayAssumption == FastTurnsBeforeCleanup \in Nat

Cells == {Status, Page}
Frames == [Cells -> {"black", "white"}]
Regions == (SUBSET Cells) \ {{}}

VARIABLES
  mapping,   \* the mapped frame buffer
  panel,     \* what the panel shows
  flight,    \* the region the controller is updating
  shadow,    \* presented: the last completed frame, or NoFrame
  pending,   \* the submitted update not waited for, or NoUpdate
  drawing,     \* of the draw under way
  job,       \* the draw under way, or what is kept of the last one
  fastTurns, \* of the policy
  due,       \* the next draw is of the whole screen
  certain,   \* where the last draw is what the panel shows, or will show
  ghosting   \* turns of text pages since the last update of high quality

displayVars == <<mapping, panel, flight, shadow, pending, drawing, job, fastTurns, due, certain, ghosting>>

NoFrame == <<>>
NoUpdate == [region |-> {}, pixels |-> NoFrame]
Reasons == {"full", "gray turn", "text turn", "status", "transient"}
DrawStages == {"idle", "barrier", "copy", "wait", "asleep", "ended"}

\* What an update of a region makes of a frame.
Update(frame, region, source) == [c \in Cells |-> IF c \in region THEN source[c] ELSE frame[c]]

\* DirtyArea::region
Hints(reason) ==
  {region \in Regions :
     /\ reason = "full" => region = Cells
     /\ reason \in {"gray turn", "text turn"} => region \in {{Page}, Cells}
     /\ reason = "status" => region = {Status}}

-----------------------------------------------------------------------------
(* The policy.                                                             *)

\* RefreshPolicy::plan
Plan(reason) ==
  LET fast == \/ reason \in {"status", "transient"}
              \/ reason = "text turn" /\ fastTurns < FastTurnsBeforeCleanup
  IN  [quality |-> IF fast THEN "DU" ELSE "GC16", waited |-> ~fast, force |-> ~fast]

\* Mutant: a clean-up does not start the count again at once.
FaultyRecordSuccess(reason, plan) ==
  CASE reason \in {"full", "gray turn"} -> 0
    [] reason = "text turn" -> IF plan.force THEN 0 ELSE fastTurns
    [] OTHER -> fastTurns

\* Mutant: a clean-up counts as one more fast turn.
FaultyCount(reason, plan) ==
  CASE reason \in {"full", "gray turn"} -> 0
    [] reason = "text turn" -> fastTurns + 1
    [] OTHER -> fastTurns

\* RefreshPolicy::record_success
RecordSuccess(reason, plan) ==
  CASE reason \in {"full", "gray turn"} -> 0
    [] reason = "text turn" -> IF plan.force THEN 0 ELSE fastTurns + 1
    [] OTHER -> fastTurns

-----------------------------------------------------------------------------
(* The driver and the controller.                                          *)

\* What is kept of a draw that is over.
Past(frame, reason) ==
  [frame |-> frame, reason |-> reason, hint |-> Cells, qr |-> FALSE,
   plan |-> [quality |-> "GC16", waited |-> TRUE, force |-> TRUE]]

DisplayInit ==
  /\ mapping \in Frames /\ panel \in Frames
  /\ flight = {} /\ shadow = NoFrame /\ pending = NoUpdate
  /\ drawing = "idle" /\ fastTurns = 0 /\ due = TRUE /\ certain = {} /\ ghosting = 0
  /\ job = Past(mapping, "full")

\* The controller has copied its region to the panel.
Complete ==
  /\ flight # {} /\ flight' = {}
  /\ panel' = Update(panel, flight, mapping)
  /\ UNCHANGED <<mapping, shadow, pending, drawing, job, fastTurns, due, certain, ghosting>>

\* Mutant: the whole frame is taken for presented, not the updated region.
FaultyCommit(update) ==
  shadow' = IF shadow = NoFrame /\ update.region # Cells THEN NoFrame ELSE job.frame

\* commit_update: a partial update does not establish a lost copy.
Commit(update) ==
  shadow' = IF shadow = NoFrame
            THEN (IF update.region = Cells THEN update.pixels ELSE NoFrame)
            ELSE Update(shadow, update.region, update.pixels)

\* The controller answers a wait when it is done.
Waited == flight = {}

-----------------------------------------------------------------------------
(* A draw.                                                                 *)

\* The shell renders a frame; while the authorization code is shown it is
\* drawn in place of the page, and the policy is not told.
BeginDraw ==
  /\ drawing = "idle" /\ drawing' = "barrier"
  /\ \E frame \in Frames, reason \in IF due THEN {"full"} ELSE Reasons, qr \in BOOLEAN :
       \E hint \in Hints(reason) :
         job' = [frame |-> frame, reason |-> reason, hint |-> hint, qr |-> qr, plan |-> Plan(reason)]
  /\ UNCHANGED <<mapping, panel, flight, shadow, pending, fastTurns, due, certain, ghosting>>

\* wait_for_pending_update
Barrier ==
  /\ drawing = "barrier"
  /\ IF pending = NoUpdate THEN UNCHANGED <<shadow, pending>>
     ELSE Waited /\ Commit(pending) /\ pending' = NoUpdate
  /\ drawing' = "copy"
  /\ UNCHANGED <<mapping, panel, flight, job, fastTurns, due, certain, ghosting>>

\* display_update_request: the hint, if it is forced or nothing is known to
\* be presented, and else what has changed.
RequestRegion ==
  IF job.plan.force \/ shadow = NoFrame THEN job.hint
  ELSE {c \in Cells : job.frame[c] # shadow[c]}

\* An unexpected change is drawn in quality.
RequestQuality == IF RequestRegion \subseteq job.hint THEN job.plan.quality ELSE "GC16"

\* A draw that succeeded.
Drawn ==
  /\ fastTurns' = IF job.qr THEN fastTurns ELSE RecordSuccess(job.reason, job.plan)
  /\ due' = FALSE
  /\ certain' = IF job.plan.force \/ shadow = NoFrame THEN job.hint ELSE Cells
  /\ job' = Past(job.frame, IF job.reason = "full" THEN "full" ELSE "transient")
  /\ ghosting' = IF RequestQuality = "GC16" /\ Page \in RequestRegion THEN 0
                 ELSE IF job.reason = "text turn" /\ ~job.qr /\ Page \in RequestRegion
                 THEN ghosting + 1 ELSE ghosting

\* Mutant: an update that is not waited for is forgotten.
FaultySubmitted(region) ==
  /\ pending' = NoUpdate
  /\ IF job.plan.waited THEN drawing' = "wait" /\ UNCHANGED <<job, fastTurns, due, certain, ghosting>>
     ELSE drawing' = "idle" /\ Drawn

\* An update that is not waited for is left to the next barrier.
Submitted(region) ==
  /\ pending' = [region |-> region, pixels |-> Update(mapping, region, job.frame)]
  /\ IF job.plan.waited THEN drawing' = "wait" /\ UNCHANGED <<job, fastTurns, due, certain, ghosting>>
     ELSE drawing' = "idle" /\ Drawn

\* copy_frame_region and submit_update; the driver may refuse.
Copy ==
  /\ drawing = "copy" /\ RequestRegion # {}
  /\ mapping' = Update(mapping, RequestRegion, job.frame)
  /\ \/ flight' = flight \union RequestRegion /\ Submitted(RequestRegion)
     \/ drawing' = "ended" /\ UNCHANGED <<flight, pending, job, fastTurns, due, certain, ghosting>>
  /\ UNCHANGED <<panel, shadow>>

Skip ==
  /\ drawing = "copy" /\ RequestRegion = {}
  /\ drawing' = "idle" /\ Drawn
  /\ UNCHANGED <<mapping, panel, flight, shadow, pending>>

WaitOwn ==
  /\ drawing = "wait" /\ Waited
  /\ Commit(pending) /\ pending' = NoUpdate
  /\ drawing' = "idle" /\ Drawn
  /\ UNCHANGED <<mapping, panel, flight>>

\* A wait that fails keeps the update, and ends the shell.
WaitFails ==
  /\ drawing = "wait" \/ (drawing = "barrier" /\ pending # NoUpdate)
  /\ drawing' = "ended"
  /\ UNCHANGED <<mapping, panel, flight, shadow, pending, job, fastTurns, due, certain, ghosting>>

-----------------------------------------------------------------------------
(* Orientation and sleep.                                                  *)

\* set_orientation: the panel takes the same memory for another picture.
Rotate ==
  /\ drawing = "idle" /\ (pending = NoUpdate \/ Waited)
  /\ panel' \in Frames
  /\ shadow' = NoFrame /\ pending' = NoUpdate /\ due' = TRUE /\ certain' = {}
  /\ UNCHANGED <<mapping, flight, drawing, job, fastTurns, ghosting>>

\* The wait, the request or the check of the driver's answer fails: what was
\* known to be presented is kept, whether or not the driver has turned.
RotateFails ==
  /\ drawing = "idle" /\ due' = TRUE /\ certain' = {}
  /\ \/ UNCHANGED <<panel, shadow, pending>>
     \/ /\ (pending = NoUpdate \/ Waited)
        /\ IF pending = NoUpdate THEN UNCHANGED shadow ELSE Commit(pending)
        /\ pending' = NoUpdate /\ panel' \in Frames
  /\ UNCHANGED <<mapping, flight, drawing, job, fastTurns, ghosting>>

\* sleep_cycle draws the whole screen and waits, and the kernel shows the
\* image given to write_standby while the panel sleeps.
Standby ==
  /\ drawing = "idle" /\ job.reason = "full" /\ pending = NoUpdate /\ Waited
  /\ drawing' = "asleep" /\ panel' \in Frames /\ certain' = {}
  /\ UNCHANGED <<mapping, flight, shadow, pending, job, fastTurns, due, ghosting>>

\* resume_after_suspend tries twenty times.
Resume ==
  /\ drawing = "asleep" /\ drawing' \in {"idle", "ended"}
  /\ shadow' = NoFrame /\ due' = TRUE
  /\ UNCHANGED <<mapping, panel, flight, pending, job, fastTurns, certain, ghosting>>

DisplayNext ==
  \/ Complete \/ BeginDraw \/ Barrier \/ Copy \/ Skip \/ WaitOwn \/ WaitFails
  \/ Rotate \/ RotateFails \/ Standby \/ Resume

DisplaySpec == DisplayInit /\ [][DisplayNext]_displayVars

-----------------------------------------------------------------------------
(* Properties.                                                             *)

DisplayTypeOK ==
  /\ {mapping, panel, job.frame} \subseteq Frames
  /\ flight \subseteq Cells /\ shadow \in Frames \union {NoFrame}
  /\ pending.region \subseteq Cells /\ drawing \in DrawStages /\ job.reason \in Reasons
  /\ job.hint \in Regions /\ fastTurns \in 0 .. FastTurnsBeforeCleanup /\ certain \subseteq Cells

\* "The mapped framebuffer is never modified while an earlier asynchronous
\* update is outstanding" (comment of draw_frame_with_waveform): the
\* controller copies what was drawn, and never a mixture of two frames.
MappingStable == [][flight # {} => mapping' = mapping]_<<mapping, flight>>

\* Once the controller is done the panel shows the frame last drawn: the
\* whole of it when the draw went by the difference to the presented frame,
\* and the hinted region of it when the draw was forced or nothing was known
\* to be presented.
DrawnIsShown ==
  drawing = "idle" =>
    \A c \in certain : (IF c \in flight THEN mapping[c] ELSE panel[c]) = job.frame[c]

\* The page is refreshed in quality at least once in every five turns of
\* text pages ("bounded, reviewable starting cadence", refresh.rs).
GhostingBounded == ghosting <= FastTurnsBeforeCleanup

=============================================================================
