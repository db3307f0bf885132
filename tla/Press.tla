------------------------------- MODULE Press -------------------------------
(***************************************************************************)
(* What the application makes of a press: App::on_event, App::tick and     *)
(* apply_actions over the events of Touch, or over those of the PocketBook *)
(* firmware, which reports long presses itself, may keep the release after *)
(* one to itself, and passes pointer events through while its keyboard is  *)
(* up.  Slint hit-tests against the tree as it was last synchronised, so a *)
(* press may land on a screen the application has already left.  A row of  *)
(* places is about 30 pixels high: any step is beyond the 24 pixels of a   *)
(* hold and of DRAG_SLOP, two are beyond the 48 pixels of a drag.  A       *)
(* column is about 60 pixels wide, beyond all three, and a launcher cell   *)
(* about three columns.                                                    *)
(***************************************************************************)
EXTENDS Touch

CONSTANTS
  Row(_),     \* the row of a place
  Col(_),     \* its column
  MaxScroll,  \* bound: how far the launcher's list scrolls
  MaxTravel   \* bound: the travel kept of a press, in rows either way

ASSUME PressAssumption ==
  /\ MaxScroll \in Nat /\ MaxTravel \in Nat
  /\ (\A p \in Spot : Row(p) \in 0 .. MaxTravel /\ Col(p) \in Nat) /\ None \notin [at : Spot, held : BOOLEAN]

VARIABLES
  backend,  \* "evdev" or "inkview"
  fw,       \* the firmware: [long: gesture reported, still: no move since the Down, kbd: keyboard up]
  pending,  \* KB_PENDING: None or how the committed text compares
  app,      \* the fields of App a press reads and writes
  grab,     \* Slint: the pressed TouchArea, or None
  synced    \* the screen the Slint tree shows since the last sync_ui

pressVars == <<backend, fw, pending, app, grab, synced>>

Abs(n) == IF n < 0 THEN -n ELSE n
NoWidget == [kind |-> "none", at |-> 0, col |-> 0]

(* What the page shows of the application. *)
View(a) ==
  [overlay |-> a.overlay, tab |-> a.tab, scroll |-> IF a.overlay = "Launcher" THEN a.scroll ELSE 0]

-----------------------------------------------------------------------------
(* The Slint tree (external): what lies where, and what a release reports.   *)
(* A tile reports every release it gets (pointer-event), the rest only one   *)
(* inside the area that was pressed (clicked); an area is about a row high,   *)
(* and may be several columns wide.                                          *)

Area(r, c) ==
  LET w(k) == [kind |-> k, at |-> r, col |-> c] IN
  CASE synced.overlay = "More" -> w(IF r <= 1 THEN "apps" ELSE "outside")
    [] synced.overlay = "Context" -> w(IF r = 2 THEN "row" ELSE "outside")
    [] synced.overlay = "Launcher" -> [kind |-> "cell", at |-> r + synced.scroll, col |-> c]
    [] synced.overlay = "None" /\ synced.tab = "Search" ->
         w(CASE r <= 1 -> "home" [] r = 2 -> "input" [] OTHER -> "beside")
    [] synced.overlay = "None" /\ synced.tab = "Library" ->
         w(CASE r <= 1 -> "menu" [] r = 2 -> "tile" [] OTHER -> "search")

Hit(p) == Area(Row(p), Col(p))

Drawn(w) == CASE w.kind = "tile" -> synced.tab = "Library"
              [] w.kind = "cell" -> synced.overlay = "Launcher"
              [] OTHER -> Area(w.at, w.col) = w

Distance(w, p) ==
  IF w.kind = "cell" THEN Abs(w.at - synced.scroll - Row(p)) ELSE Abs(w.at - Row(p))

(* The release is where the area was pressed. *)
Exactly(w, p) == Distance(w, p) = 0 /\ w.col = Col(p)

Grabbed(g, p) == IF g # NoWidget /\ Drawn(g) THEN g ELSE Hit(p)

Reported(g, p) ==
  IF g = NoWidget \/ ~ Drawn(g)
  THEN {NoWidget} \union {w \in {Hit(p)} : w.kind = "tile"}
  ELSE IF g.kind = "tile" THEN {g}
  ELSE {w \in {g, NoWidget} : (w = g => Distance(g, p) <= 1) /\ (w # g => ~ Exactly(g, p))}

-----------------------------------------------------------------------------
(* The application's operations, each from a state of App to the next.       *)

SetOverlay(a, o) == [a EXCEPT !.overlay = o, !.dirty = @ \/ o # a.overlay]
Refresh(a) == [a EXCEPT !.dirty = TRUE]
Acted(a) == [a EXCEPT !.acts = Clamp(@ + 1, 3)]

DismissKb(a) == Refresh([a EXCEPT !.kb = FALSE])
LeaveSearch(a) == Refresh([a EXCEPT !.kb = FALSE, !.tab = "Library"])

MutantLauncherCell(a, drag) == Acted([a EXCEPT !.overlay = "None", !.launched = TRUE])

(* launcher_cell: the release of a drag is not a tap. *)
LauncherCell(a, drag) ==
  IF drag THEN a ELSE Acted([a EXCEPT !.overlay = "None", !.launched = TRUE])

Apply(a, w, drag) ==
  CASE w.kind = "none" -> a
    [] w.kind = "tile" -> Acted(IF a.plong THEN SetOverlay([a EXCEPT !.plong = FALSE], "Context") ELSE a)
    [] w.kind = "menu" -> Acted(SetOverlay(a, "More"))
    [] w.kind = "search" -> Acted(Refresh([a EXCEPT !.tab = "Search"]))
    [] w.kind = "home" -> Acted(IF a.tab = "Search" THEN LeaveSearch(a) ELSE a)
    [] w.kind = "input" -> Acted(IF a.kb THEN DismissKb(a) ELSE Refresh([a EXCEPT !.kb = TRUE]))
    [] w.kind = "beside" -> IF a.kb THEN Acted(DismissKb(a)) ELSE a
    [] w.kind = "apps" -> Acted([SetOverlay(a, "Launcher") EXCEPT !.scroll = 0])
    [] w.kind \in {"outside", "row"} -> Acted(Refresh(SetOverlay(a, "None")))
    [] w.kind = "cell" -> LauncherCell(a, drag)

(* open_keyboard and cancel_keyboard as the search field opens and closes:   *)
(* without a firmware keyboard the text comes back at once, unchanged.       *)
Keyboard(a) ==
  /\ fw' = [fw EXCEPT !.kbd = IF a.kb # app.kb THEN a.kb /\ backend = "inkview" ELSE @]
  /\ pending' = IF a.kb /\ ~ app.kb /\ backend = "evdev" THEN "same" ELSE None

NoPress(a) == [a EXCEPT !.press = None, !.total = 0, !.last = None]

PointerDown(p) ==
  /\ app' = [app EXCEPT !.press = [at |-> p, held |-> FALSE], !.seen = FALSE, !.last = p,
                        !.acts = 0, !.open = TRUE, !.launched = FALSE]
  /\ grab' = Grabbed(grab, p)
  /\ UNCHANGED <<fw, pending>>

Bounded(n) == Clamp(n + MaxTravel, 2 * MaxTravel + 1) - MaxTravel

(* drag_move: the list follows the finger once it is beyond DRAG_SLOP. *)
Scrolled(a, dy) ==
  LET s == Clamp(a.scroll + dy, MaxScroll + 1) IN
  IF a.overlay = "Launcher" /\ Abs(a.total) >= 1 /\ s # a.scroll
  THEN Refresh([a EXCEPT !.scroll = s]) ELSE a

(* drag_y: only what the finger travels up or down is counted. *)
PointerMove(p) ==
  LET dy == Row(app.last) - Row(p) IN
  /\ app' = [(IF app.last # None /\ app.press # None
              THEN Scrolled([app EXCEPT !.total = Bounded(@ + dy)], dy)
              ELSE app) EXCEPT !.last = p]
  /\ UNCHANGED <<grab, fw, pending>>

IsLong(a, p) == a.press # None /\ a.press.held /\ p = a.press.at

MutantTrailing(a) == FALSE

(* A long press already fired: its release must not click a second time. *)
Trailing(a) == a.seen

(* A release without a press is a contact of its own, for the counts. *)
Contact(a) == [(IF a.open THEN a ELSE [a EXCEPT !.acts = 0])
               EXCEPT !.open = FALSE, !.eaten = FALSE]

PointerUp(p) ==
  LET a == NoPress(Contact(app))
      long == IsLong(app, p) /\ app.tab = "Library" /\ app.overlay = "None" IN
  IF Trailing(app)
  THEN /\ app' = [a EXCEPT !.seen = FALSE]
       /\ UNCHANGED <<grab, fw, pending>>
  ELSE \E w \in Reported(grab, p) :
         LET b == Apply([a EXCEPT !.plong = long], w, Abs(app.total) >= 2) IN
         app' = b /\ Keyboard(b) /\ grab' = NoWidget

MutantEndsPress(a) == FALSE

(* Off the shelf the gesture still has to end the press. *)
EndsPress(a) == a.press # None

(* A contact reported held, by the tick or the firmware, is counted anew. *)
Held(a) == [a EXCEPT !.acts = 0]

(* On the shelf the press is made and released where the gesture is; *)
(* elsewhere the pressed area is released at the press position.     *)
LongPress(p) ==
  LET shelf == app.tab = "Library" /\ app.overlay = "None"
      a == [NoPress(Held(app)) EXCEPT !.seen = TRUE, !.plong = @ \/ shelf] IN
  IF shelf \/ EndsPress(app)
  THEN \E w \in IF shelf THEN Reported(Grabbed(grab, p), p) ELSE Reported(grab, app.press.at) :
         LET b == Apply(a, w, FALSE) IN
         app' = b /\ Keyboard(b) /\ grab' = NoWidget
  ELSE UNCHANGED <<app, grab, fw, pending>>

(* commit_search by drain_keyboard: a new text filters the library, a blank *)
(* one leaves the page as it is, the unchanged one redraws the bar.         *)
Drained(a) ==
  LET c == [a EXCEPT !.kb = FALSE] IN
  CASE pending = "new" -> Refresh([c EXCEPT !.tab = "Library"])
    [] pending = "blank" -> c
    [] pending = "same" -> IF a.tab = "Search" THEN Refresh(c) ELSE c

(* App::on_event: a committed keyboard edit consumes the event. *)
OnEvent(e) ==
  IF pending # None
  THEN /\ app' = [Drained(app) EXCEPT !.eaten = TRUE,
                  !.open = CASE e.kind = "down" -> TRUE [] e.kind = "up" -> FALSE [] OTHER -> @,
                  !.acts = IF e.kind = "down" THEN 0 ELSE @]
       /\ pending' = None
       /\ UNCHANGED <<grab, fw>>
  ELSE CASE e.kind = "down" -> PointerDown(e.at)
         [] e.kind = "move" -> PointerMove(e.at)
         [] e.kind = "up" -> PointerUp(e.at)
         [] e.kind = "long" -> LongPress(e.at)

-----------------------------------------------------------------------------
PressInit ==
  /\ backend \in {"evdev", "inkview"}
  /\ fw = [long |-> FALSE, still |-> FALSE, kbd |-> FALSE]
  /\ pending = None
  /\ app = [overlay |-> "None", tab |-> "Library", scroll |-> 0, kb |-> FALSE,
            press |-> None, seen |-> FALSE, total |-> 0, last |-> None, plong |-> FALSE,
            dirty |-> FALSE, acts |-> 0, eaten |-> FALSE, open |-> FALSE,
            launched |-> FALSE]
  /\ grab = NoWidget

(* evt_to_input: the firmware reports its one finger as it moves, ... *)
Gesture(p) ==
  LET old == finger[MainSlot]
      e == IF old = None THEN "down" ELSE IF p = None THEN "up" ELSE "move" IN
  /\ backend = "inkview" /\ p # old /\ Len(out) < QueueMax
  /\ finger' = [finger EXCEPT ![MainSlot] = p]
  /\ out' = Append(out, Event(e, IF p = None THEN old ELSE p))
  /\ fw' = [fw EXCEPT !.long = FALSE, !.still = (old = None)]
  /\ UNCHANGED <<told, dec, drops, backend, pending, app, grab>>

(* ... the long press once per contact that stays where it landed, ... *)
GestureLong ==
  /\ backend = "inkview" /\ fw.still /\ ~ fw.long /\ Len(out) < QueueMax
  /\ out' = Append(out, Event("long", finger[MainSlot]))
  /\ fw' = [fw EXCEPT !.long = TRUE]
  /\ UNCHANGED <<finger, told, dec, drops, backend, pending, app, grab>>

(* ... and may keep the release after it to itself. *)
Swallow ==
  /\ backend = "inkview" /\ finger[MainSlot] # None /\ fw.long /\ out = <<>>
  /\ finger' = [finger EXCEPT ![MainSlot] = None]
  /\ fw' = [fw EXCEPT !.long = FALSE, !.still = FALSE]
  /\ UNCHANGED <<told, dec, out, drops, backend, pending, app, grab>>

(* kb_commit_handler: the keyboard closes and leaves its text behind. *)
Commit(t) ==
  /\ fw.kbd /\ out = <<>>
  /\ fw' = [fw EXCEPT !.kbd = FALSE] /\ pending' = t
  /\ UNCHANGED <<touchVars, backend, app, grab>>

(* 450 milliseconds pass over a press. *)
Hold ==
  /\ out = <<>> /\ app.press # None /\ ~ app.press.held
  /\ app' = [app EXCEPT !.press.held = TRUE]
  /\ UNCHANGED <<touchVars, backend, fw, pending, grab>>

Deliver ==
  /\ out # <<>>
  /\ OnEvent(Head(out)) /\ out' = Tail(out)
  /\ UNCHANGED <<finger, told, dec, drops, backend>>

(* The 200 millisecond tick makes the long press of a hold on the shelf. *)
TickLong ==
  /\ out = <<>> /\ ~ app.seen /\ app.tab = "Library" /\ app.overlay = "None" /\ app.total = 0
  /\ app.press # None /\ app.press.held
  /\ OnEvent(Event("long", app.press.at))
  /\ UNCHANGED <<touchVars, backend>>

(* The hardware Back key. *)
BackKey ==
  LET b == IF pending # None THEN Drained(app)
           ELSE IF app.overlay # "None" THEN SetOverlay(app, "None")
           ELSE IF app.tab = "Search" THEN LeaveSearch(app) ELSE app IN
  /\ out = <<>> /\ b # app
  /\ app' = b
  /\ IF pending # None THEN pending' = None /\ UNCHANGED fw ELSE Keyboard(b)
  /\ UNCHANGED <<touchVars, backend, grab>>

PressTypeOK ==
  /\ TouchTypeOK
  /\ fw \in [long : BOOLEAN, still : BOOLEAN, kbd : BOOLEAN]
  /\ pending \in {None, "new", "blank", "same"}
  /\ app.overlay \in {"None", "More", "Launcher", "Context"} /\ app.tab \in {"Library", "Search"}
  /\ app.scroll \in 0 .. MaxScroll /\ app.total \in -MaxTravel .. MaxTravel
  /\ app.press \in {None} \union [at : Spot, held : BOOLEAN] /\ app.last \in Spot \union {None}
  /\ synced \in {View(a) : a \in [overlay : {"None", "More", "Launcher", "Context"},
                                  tab : {"Library", "Search"}, scroll : 0 .. MaxScroll]}
=============================================================================
