------------------------------- MODULE Screen ------------------------------
(***************************************************************************)
(* A device from the finger to the panel: the events of Press and the      *)
(* present() that follows them, which synchronises the Slint tree, renders *)
(* what is dirty into the canvas and flushes regions of it to the e-ink    *)
(* panel.  The display is abstracted to two regions, the page and the      *)
(* clock of the status strip that the application draws on a PocketBook;   *)
(* the inversion of a pressed button is left out.                          *)
(***************************************************************************)
EXTENDS Press

VARIABLES
  shown,      \* App::last_overlay
  rolled,     \* the minute differs from last_panel_min
  unflushed   \* regions painted since they were last flushed to the panel

screenVars == <<shown, rolled, unflushed>>
vars == <<touchVars, pressVars, screenVars>>

Region == {"page", "clock"}
Strip == {"clock"}

MutantChanged(a) == a.dirty

(* A frame is drawn when something marked it or the overlay is another. *)
Changed(a) == a.dirty \/ a.overlay # shown

(* What render_ui paints: the Slint dirt, after a sync_ui or without one. *)
Painted(a, sync, full) ==
  IF full THEN Region
  ELSE {r \in Region :
          CASE r = "page" -> sync /\ (a.dirty \/ View(a) # synced)
            [] r = "clock" -> sync /\ rolled}

(* What reaches the panel: the whole band of a plain page, which inkview *)
(* turns into a FullUpdate; the box painted of an overlay frame; the strip *)
(* of a stamp; and of an unchanged frame the painted box, cut down to the  *)
(* strip when the minute rolled over.                                      *)
Flushed(a, painted) ==
  CASE Changed(a) ->
         (IF a.overlay # "None" THEN painted
          ELSE IF backend = "inkview" THEN Region ELSE Region \ Strip)
         \union (IF rolled THEN Strip ELSE {})
    [] ~ Changed(a) /\ rolled -> painted \intersect Strip
    [] ~ Changed(a) /\ ~ rolled -> painted

(* What a contact did is counted until the frame after it. *)
Counted(a) == IF a.open THEN a ELSE [a EXCEPT !.acts = 0, !.launched = FALSE]

(* App::present: a committed keyboard edit is drained first. *)
Present ==
  LET a == IF pending # None THEN Drained(app) ELSE app
      sync == Changed(a) \/ rolled
      painted == Painted(a, sync, Changed(a) /\ a.overlay = "None" /\ shown # "None")
      flush == Flushed(a, painted) IN
  /\ out = <<>>
  /\ app' = Counted([a EXCEPT !.dirty = FALSE])
  /\ pending' = None
  /\ shown' = a.overlay
  /\ synced' = IF sync THEN View(a) ELSE synced
  /\ rolled' = FALSE
  /\ unflushed' = ((unflushed \union painted) \ flush) \ Strip
  /\ UNCHANGED <<touchVars, backend, fw, grab>>

-----------------------------------------------------------------------------
Init ==
  /\ TouchInit /\ PressInit
  /\ synced = View(app)
  /\ shown = "None" /\ rolled = FALSE
  /\ unflushed = {}

(* Everything but present() leaves the tree and the panel as they are. *)
Offscreen(A) == A /\ UNCHANGED <<synced, screenVars>>

(* The minute rolls over; a device that draws its own strip takes notice. *)
Minute == out = <<>> /\ backend = "inkview" /\ ~ rolled /\ rolled' = TRUE
          /\ UNCHANGED <<touchVars, pressVars, shown, unflushed>>

DoTouch == backend = "evdev" /\ (\E f \in Fingers : Touch(f))
           /\ UNCHANGED <<backend, fw, pending, app, grab>>
DoOverflow == backend = "evdev" /\ (\E f \in Fingers : Overflow(f))
              /\ UNCHANGED <<backend, fw, pending, app, grab>>

Next ==
  \/ Offscreen(DoTouch) \/ Offscreen(DoOverflow)
  \/ \E p \in Place \union {None} : Offscreen(Gesture(p))
  \/ Offscreen(GestureLong) \/ Offscreen(Swallow)
  \/ \E t \in {"new", "blank", "same"} : Offscreen(Commit(t))
  \/ Offscreen(Hold)
  \/ Offscreen(Deliver) \/ Offscreen(TickLong) \/ Offscreen(BackKey)
  \/ Minute \/ Present

Spec == Init /\ [][Next]_vars

-----------------------------------------------------------------------------
TypeOK ==
  /\ PressTypeOK
  /\ shown \in {"None", "More", "Launcher", "Context"}
  /\ unflushed \subseteq Region

(* As long as no frame is lost, the pointer the application is shown is a   *)
(* finger: a Down is out only while the tracked slot has a finger, the last *)
(* position sent is where that finger is, and no finger goes untracked      *)
(* while none is (the single-pointer promise of Decoder::flush_syn with     *)
(* several fingers on the panel).                                           *)
PointerIsFinger ==
  backend = "evdev" /\ drops = 0 =>
    /\ dec.emitted => /\ dec.tracked # None
                      /\ finger[SlotIndex(dec.tracked) + MainSlot] = dec.last
    /\ dec.tracked = None => \A s \in Slot : finger[s] = None

(* A contact acts at most once for every time it is reported held, and once if *)
(* it never is: the release that trails a long press does not act again        *)
(* (App::on_event, long_press_seen).                                           *)
ActsOnce == app.acts <= 1

(* When the finger is up and its events are handled, no press is left behind: *)
(* no TouchArea is grabbed and no hold can fire, unless the closing keyboard  *)
(* ate an event of the contact (App::on_event, PointerLongPress).             *)
PressEnds ==
  out = <<>> /\ ~ app.eaten
  /\ (IF backend = "evdev" THEN ~ dec.emitted ELSE finger[MainSlot] = None)
  => grab = NoWidget /\ app.press = None

(* From the panel to the handler a gesture stays one: it is a finger's, it   *)
(* acts once, and it leaves nothing behind.                                  *)
OneGesture == TypeOK /\ PointerIsFinger /\ ActsOnce /\ PressEnds

(* As long as no frame is lost, a release more than 48 pixels above or below  *)
(* its press never launches, even when the list scrolled under the finger all *)
(* the way (launcher_cell, "a drag-release is not a tap").  Travel along the  *)
(* row does not count: a drag sideways within a cell does launch.  After a    *)
(* SYN_DROPPED the decoder may release at another finger's position, which    *)
(* the travel of the press knows nothing of.                                  *)
LaunchIsTap ==
  [][drops = 0 /\ out # <<>> /\ out' # out /\ Head(out).kind = "up"
       /\ app'.launched /\ ~ app.eaten =>
       \/ app.launched
       \/ app.press # None /\ Abs(Row(Head(out).at) - Row(app.press.at)) <= 1]_vars

(* What present() takes for an unchanged frame is unchanged: whenever nothing  *)
(* is marked for it, the Slint tree shows the page of the application and the  *)
(* panel was sent it (the dirty flag and last_overlay, set by handlers all     *)
(* over the application).                                                      *)
PageShown == ~ Changed(app) => synced = View(app) /\ "page" \notin unflushed
=============================================================================
