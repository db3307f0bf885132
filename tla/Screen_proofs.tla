---------------------------- MODULE Screen_proofs ----------------------------
(***************************************************************************)
(* Proofs about a device from the finger to the panel, for any panel, any  *)
(* number of fingers and any list.  The page is shown whatever events      *)
(* reach the application; that one contact is one gesture takes the line   *)
(* of events from the fingers over the decoder and the queue to the press. *)
(***************************************************************************)
EXTENDS Screen, SequenceTheorems, WellFoundedInduction, TLAPS

---------------------------------------------------------------------------
(* The inductive invariant.                                                *)

Overlay == {"None", "More", "Launcher", "Context"}
Tab == {"Library", "Search"}
Fields == {"overlay", "tab", "scroll", "kb", "press", "seen", "total", "last", "plong",
           "dirty", "acts", "eaten", "open", "launched"}

(* The fields of App; only those a page is made of have a type here.       *)
IsApp(a) ==
  /\ a = [f \in Fields |-> a[f]]
  /\ a.overlay \in Overlay /\ a.tab \in Tab /\ a.dirty \in BOOLEAN

(* Every widget a release reports is one Apply knows.                      *)
Widget == {"none", "menu", "tile", "search", "home", "input", "beside", "apps", "outside",
           "row", "cell"}

(* The queue holds events the application knows.                           *)
Known(e) == e.kind \in {"down", "move", "up", "long"}
Waiting(q) == \E S : q \in Seq(S) /\ \A e \in S : Known(e)

(* An unmarked frame is one whose tree is up to date; if its overlay is    *)
(* another than at the last one, then only by its closing, which comes     *)
(* with no mark when a cell of the launcher is tapped.                     *)
Current(a) ==
  ~ a.dirty => IF a.overlay = shown THEN synced = View(a) ELSE a.overlay = "None"

ScreenInv ==
  /\ IsApp(app) /\ Current(app)
  /\ synced.overlay \in Overlay /\ synced.tab \in Tab
  /\ "page" \notin unflushed
  /\ grab.kind \in Widget
  /\ pending \in {None, "new", "blank", "same"}
  /\ Waiting(out)

---------------------------------------------------------------------------
(* The operations on App.  Each one marks what it changes of the page, but *)
(* for the launcher's, which closes its overlay without a mark.            *)
Keeps(a, b) ==
  /\ IsApp(b)
  /\ ~ b.dirty => ~ a.dirty /\ b.tab = a.tab
                  /\ \/ b.overlay = a.overlay /\ b.scroll = a.scroll
                     \/ b.overlay = "None"

(* Two operations one after the other keep the page as each does. *)
LEMMA KeepsTransitive ==
  ASSUME NEW a, NEW b, NEW c, Keeps(a, b), Keeps(b, c)
  PROVE  Keeps(a, c)
BY DEF Keeps

(* What keeps the page leaves either the page shown or a mark for present(). *)
LEMMA KeepsCurrent ==
  ASSUME NEW a, NEW b, IsApp(a), Current(a), Keeps(a, b)
  PROVE  Current(b) /\ IsApp(b)
BY DEF Keeps, Current, View

(* The fields of App that the arguments about the page refer to. *)
LEMMA AppFields ==
  ASSUME NEW a, IsApp(a)
  PROVE  /\ DOMAIN a = Fields /\ a.overlay \in Overlay /\ a.tab \in Tab /\ a.dirty \in BOOLEAN
         /\ {"overlay", "tab", "scroll", "dirty", "kb", "press", "seen", "total", "last", "plong",
             "acts", "eaten", "open", "launched"} \subseteq Fields
BY DEF IsApp, Fields

(* Two ways to keep a page: to leave it alone, and to mark it.             *)
LEMMA LeftAlone ==
  ASSUME NEW a, IsApp(a), NEW b, b = [g \in Fields |-> b[g]],
         b.overlay = a.overlay, b.tab = a.tab, b.scroll = a.scroll, b.dirty = a.dirty
  PROVE  IsApp(b) /\ Keeps(a, b)
BY DEF Keeps, IsApp

(* A screen that is marked to be drawn keeps what a handler must keep.     *)
LEMMA Marked ==
  ASSUME NEW a, NEW b, b = [g \in Fields |-> b[g]],
         b.overlay \in Overlay, b.tab \in Tab, b.dirty = TRUE
  PROVE  IsApp(b) /\ Keeps(a, b)
BY DEF Keeps, IsApp

(* SetOverlay marks a change.                                              *)
LEMMA OverlaySet ==
  ASSUME NEW a, IsApp(a), NEW o \in Overlay
  PROVE  Keeps(a, SetOverlay(a, o)) /\ SetOverlay(a, o).overlay = o
         /\ (o # a.overlay => SetOverlay(a, o).dirty)
<1> DEFINE c == [a EXCEPT !.overlay = o, !.dirty = @ \/ o # a.overlay]
           d == a.dirty \/ o # a.overlay
<1>1. DOMAIN a = Fields /\ "overlay" \in Fields /\ "tab" \in Fields /\ "dirty" \in Fields
      /\ "scroll" \in Fields
  BY AppFields
<1>2. d \in BOOLEAN
  OBVIOUS
<1>3. c = [g \in Fields |-> IF g = "dirty" THEN d ELSE IF g = "overlay" THEN o ELSE a[g]]
  BY <1>1
<1> HIDE DEF d
<1>4. /\ c = [g \in Fields |-> c[g]] /\ c.overlay = o /\ c.tab = a.tab /\ c.scroll = a.scroll
      /\ c.dirty = d
  BY <1>1, <1>3
<1> HIDE DEF c
<1>5. IsApp(c)
  BY <1>2, <1>4 DEF IsApp
<1>6. Keeps(a, c) /\ c.overlay = o /\ (o # a.overlay => c.dirty)
  BY <1>4, <1>5 DEF Keeps, d
<1> QED
  BY <1>6 DEF c, SetOverlay
(* The operations that leave the page alone, ...                           *)
LEMMA QuietOps ==
  ASSUME NEW a, IsApp(a), NEW x
  PROVE  /\ IsApp(Acted(a)) /\ Keeps(a, Acted(a))
         /\ IsApp(NoPress(a)) /\ Keeps(a, NoPress(a))
         /\ IsApp(Contact(a)) /\ Keeps(a, Contact(a))
         /\ IsApp([a EXCEPT !.plong = x]) /\ Keeps(a, [a EXCEPT !.plong = x])
         /\ IsApp([a EXCEPT !.kb = x]) /\ Keeps(a, [a EXCEPT !.kb = x])
<1> USE AppFields
<1>1. IsApp(Acted(a)) /\ Keeps(a, Acted(a))
  <2> DEFINE b == Acted(a)
  <2>1. /\ b = [g \in Fields |-> b[g]]
        /\ b.overlay = a.overlay /\ b.tab = a.tab /\ b.scroll = a.scroll /\ b.dirty = a.dirty
    BY DEF Acted
  <2> HIDE DEF b
  <2>2. IsApp(b) /\ Keeps(a, b)
    BY <2>1, LeftAlone
  <2> QED
    BY <2>2 DEF b
<1>2. IsApp(NoPress(a)) /\ Keeps(a, NoPress(a))
  <2> DEFINE b == NoPress(a)
  <2>1. /\ b = [g \in Fields |-> b[g]]
        /\ b.overlay = a.overlay /\ b.tab = a.tab /\ b.scroll = a.scroll /\ b.dirty = a.dirty
    BY DEF NoPress
  <2> HIDE DEF b
  <2>2. IsApp(b) /\ Keeps(a, b)
    BY <2>1, LeftAlone
  <2> QED
    BY <2>2 DEF b
<1>3. IsApp(Contact(a)) /\ Keeps(a, Contact(a))
  <2> DEFINE b == Contact(a)
  <2>1. /\ b = [g \in Fields |-> b[g]]
        /\ b.overlay = a.overlay /\ b.tab = a.tab /\ b.scroll = a.scroll /\ b.dirty = a.dirty
    <3>1. CASE a.open
      BY <3>1 DEF Contact
    <3>2. CASE ~ a.open
      BY <3>2 DEF Contact
    <3> QED
      BY <3>1, <3>2
  <2> HIDE DEF b
  <2>2. IsApp(b) /\ Keeps(a, b)
    BY <2>1, LeftAlone
  <2> QED
    BY <2>2 DEF b
<1>4. IsApp([a EXCEPT !.plong = x]) /\ Keeps(a, [a EXCEPT !.plong = x])
  <2> DEFINE b == [a EXCEPT !.plong = x]
  <2>1. /\ b = [g \in Fields |-> b[g]]
        /\ b.overlay = a.overlay /\ b.tab = a.tab /\ b.scroll = a.scroll /\ b.dirty = a.dirty
    OBVIOUS
  <2> HIDE DEF b
  <2>2. IsApp(b) /\ Keeps(a, b)
    BY <2>1, LeftAlone
  <2> QED
    BY <2>2 DEF b
<1>5. IsApp([a EXCEPT !.kb = x]) /\ Keeps(a, [a EXCEPT !.kb = x])
  <2> DEFINE b == [a EXCEPT !.kb = x]
  <2>1. /\ b = [g \in Fields |-> b[g]]
        /\ b.overlay = a.overlay /\ b.tab = a.tab /\ b.scroll = a.scroll /\ b.dirty = a.dirty
    OBVIOUS
  <2> HIDE DEF b
  <2>2. IsApp(b) /\ Keeps(a, b)
    BY <2>1, LeftAlone
  <2> QED
    BY <2>2 DEF b
<1> QED
  BY <1>1, <1>2, <1>3, <1>4, <1>5

(* ... those that mark it, ...                                             *)
LEMMA MarkingOps ==
  ASSUME NEW a, IsApp(a), NEW x, NEW t \in Tab
  PROVE  /\ IsApp(Refresh(a)) /\ Keeps(a, Refresh(a))
         /\ IsApp(DismissKb(a)) /\ Keeps(a, DismissKb(a))
         /\ IsApp(LeaveSearch(a)) /\ Keeps(a, LeaveSearch(a))
         /\ Keeps(a, Refresh([a EXCEPT !.kb = x])) /\ Keeps(a, Refresh([a EXCEPT !.tab = t]))
         /\ Keeps(a, Refresh([a EXCEPT !.scroll = x]))
         /\ Keeps(a, Refresh([[a EXCEPT !.kb = x] EXCEPT !.tab = t]))
<1> USE AppFields
<1>1. IsApp(Refresh(a)) /\ Keeps(a, Refresh(a))
  <2> DEFINE b == Refresh(a)
  <2>1. b = [g \in Fields |-> b[g]] /\ b.overlay \in Overlay /\ b.tab \in Tab /\ b.dirty = TRUE
    BY DEF Refresh
  <2> HIDE DEF b
  <2>2. IsApp(b) /\ Keeps(a, b)
    BY <2>1, Marked
  <2> QED
    BY <2>2 DEF b
<1>2. IsApp(DismissKb(a)) /\ Keeps(a, DismissKb(a))
  <2> DEFINE b == DismissKb(a)
  <2>1. b = [g \in Fields |-> b[g]] /\ b.overlay \in Overlay /\ b.tab \in Tab /\ b.dirty = TRUE
    BY DEF DismissKb, Refresh
  <2> HIDE DEF b
  <2>2. IsApp(b) /\ Keeps(a, b)
    BY <2>1, Marked
  <2> QED
    BY <2>2 DEF b
<1>3. IsApp(LeaveSearch(a)) /\ Keeps(a, LeaveSearch(a))
  <2> DEFINE b == LeaveSearch(a)
  <2>1. b = [g \in Fields |-> b[g]] /\ b.overlay \in Overlay /\ b.tab \in Tab /\ b.dirty = TRUE
    BY DEF LeaveSearch, Refresh, Tab
  <2> HIDE DEF b
  <2>2. IsApp(b) /\ Keeps(a, b)
    BY <2>1, Marked
  <2> QED
    BY <2>2 DEF b
<1>4. Keeps(a, Refresh([a EXCEPT !.kb = x]))
  <2> DEFINE b == Refresh([a EXCEPT !.kb = x])
  <2>1. b = [g \in Fields |-> b[g]] /\ b.overlay \in Overlay /\ b.tab \in Tab /\ b.dirty = TRUE
    BY DEF Refresh
  <2> HIDE DEF b
  <2>2. IsApp(b) /\ Keeps(a, b)
    BY <2>1, Marked
  <2> QED
    BY <2>2 DEF b
<1>5. Keeps(a, Refresh([a EXCEPT !.tab = t]))
  <2> DEFINE b == Refresh([a EXCEPT !.tab = t])
  <2>1. b = [g \in Fields |-> b[g]] /\ b.overlay \in Overlay /\ b.tab \in Tab /\ b.dirty = TRUE
    BY DEF Refresh
  <2> HIDE DEF b
  <2>2. IsApp(b) /\ Keeps(a, b)
    BY <2>1, Marked
  <2> QED
    BY <2>2 DEF b
<1>6. Keeps(a, Refresh([a EXCEPT !.scroll = x]))
  <2> DEFINE b == Refresh([a EXCEPT !.scroll = x])
  <2>1. b = [g \in Fields |-> b[g]] /\ b.overlay \in Overlay /\ b.tab \in Tab /\ b.dirty = TRUE
    BY DEF Refresh
  <2> HIDE DEF b
  <2>2. IsApp(b) /\ Keeps(a, b)
    BY <2>1, Marked
  <2> QED
    BY <2>2 DEF b
<1>7. Keeps(a, Refresh([[a EXCEPT !.kb = x] EXCEPT !.tab = t]))
  <2> DEFINE b == Refresh([[a EXCEPT !.kb = x] EXCEPT !.tab = t])
  <2>1. b = [g \in Fields |-> b[g]] /\ b.overlay \in Overlay /\ b.tab \in Tab /\ b.dirty = TRUE
    BY DEF Refresh
  <2> HIDE DEF b
  <2>2. IsApp(b) /\ Keeps(a, b)
    BY <2>1, Marked
  <2> QED
    BY <2>2 DEF b
<1> QED
  BY <1>1, <1>2, <1>3, <1>4, <1>5, <1>6, <1>7

(* ... the launcher, opened at the top from another overlay, ...           *)
LEMMA LauncherOps ==
  ASSUME NEW a, IsApp(a), NEW drag
  PROVE  /\ Keeps(a, LauncherCell(a, drag))
         /\ (a.overlay # "Launcher" \/ a.dirty)
              => Keeps(a, [SetOverlay(a, "Launcher") EXCEPT !.scroll = 0])
<1> USE AppFields
<1>1. Keeps(a, LauncherCell(a, drag))
  <2>1. CASE drag
    BY <2>1 DEF LauncherCell, Keeps
  <2>2. CASE ~ drag
    <3> DEFINE c == [a EXCEPT !.overlay = "None", !.launched = TRUE]
               b == Acted(c)
    <3>1. /\ c = [g \in Fields |-> c[g]] /\ c.overlay = "None" /\ c.tab = a.tab
          /\ c.dirty = a.dirty
      OBVIOUS
    <3> HIDE DEF c
    <3>2. IsApp(c) /\ Keeps(a, c)
      BY <3>1 DEF IsApp, Keeps, Overlay
    <3>3. Keeps(a, b)
      BY <3>2, QuietOps, KeepsTransitive
    <3> QED
      BY <2>2, <3>3 DEF LauncherCell, c
  <2> QED
    BY <2>1, <2>2
<1>2. ASSUME a.overlay # "Launcher" \/ a.dirty
      PROVE  Keeps(a, [SetOverlay(a, "Launcher") EXCEPT !.scroll = 0])
  <2> DEFINE c == SetOverlay(a, "Launcher")
             b == [c EXCEPT !.scroll = 0]
  <2>1. IsApp(c) /\ c.dirty = TRUE
    <3>1. "Launcher" \in Overlay
      BY DEF Overlay
    <3>2. Keeps(a, c) /\ ("Launcher" # a.overlay => c.dirty)
      BY <3>1, OverlaySet
    <3>3. IsApp(c) /\ (a.dirty => c.dirty)
      BY <3>2 DEF Keeps
    <3> QED
      BY <1>2, <3>2, <3>3
  <2> HIDE DEF c
  <2>2. b = [g \in Fields |-> b[g]] /\ b.overlay \in Overlay /\ b.tab \in Tab /\ b.dirty = TRUE
    BY <2>1
  <2> HIDE DEF b
  <2>3. Keeps(a, b)
    BY <2>2, Marked
  <2> QED
    BY <2>3 DEF b, c
<1> QED
  BY <1>1, <1>2

(* ... and what a release reports to it: the button of the launcher is     *)
(* never hit while the launcher is open.                                   *)
LEMMA ApplyKeeps ==
  ASSUME NEW a, IsApp(a), NEW w, w.kind \in Widget, NEW drag \in BOOLEAN,
         w.kind = "apps" => a.overlay # "Launcher" \/ a.dirty
  PROVE  IsApp(Apply(a, w, drag)) /\ Keeps(a, Apply(a, w, drag))
<1> DEFINE b == Apply(a, w, drag)
<1>0. Keeps(a, a) /\ "Context" \in Overlay /\ "More" \in Overlay /\ "None" \in Overlay
      /\ "Search" \in Tab /\ DOMAIN a = Fields
  BY AppFields DEF Keeps, Overlay, Tab
<1>a. \A c : Keeps(a, c) => IsApp(c) /\ Keeps(a, Acted(c))
  <2> SUFFICES ASSUME NEW c, Keeps(a, c)
               PROVE  IsApp(c) /\ Keeps(a, Acted(c))
    OBVIOUS
  <2>1. IsApp(c)
    BY DEF Keeps
  <2>2. Keeps(c, Acted(c))
    BY <2>1, QuietOps
  <2> QED
    BY <2>1, <2>2, KeepsTransitive
<1>b. \A c, d : Keeps(a, c) /\ Keeps(c, d) => Keeps(a, d)
  BY KeepsTransitive
<1> HIDE DEF b
<1>1. ASSUME w.kind = "none" PROVE Keeps(a, b)
  <2>1. b = a
    BY <1>1 DEF b, Apply
  <2> QED
    BY <1>0, <2>1
<1>2. ASSUME w.kind = "tile" PROVE Keeps(a, b)
  <2>1. CASE a.plong
    <3> DEFINE c == [a EXCEPT !.plong = FALSE]
    <3>1. IsApp(c) /\ Keeps(a, c)
      BY QuietOps
    <3> HIDE DEF c
    <3>2. Keeps(c, SetOverlay(c, "Context"))
      BY <1>0, <3>1, OverlaySet
    <3>3. Keeps(a, Acted(SetOverlay(c, "Context")))
      BY <1>a, <1>b, <3>1, <3>2
    <3>4. b = Acted(SetOverlay(c, "Context"))
      BY <1>2, <2>1 DEF b, Apply, c
    <3> QED
      BY <3>3, <3>4
  <2>2. CASE ~ a.plong
    <3>1. b = Acted(a)
      BY <1>2, <2>2 DEF b, Apply
    <3> QED
      BY <1>0, <1>a, <3>1
  <2> QED
    BY <2>1, <2>2
<1>3. ASSUME w.kind = "menu" PROVE Keeps(a, b)
  <2>1. Keeps(a, Acted(SetOverlay(a, "More")))
    BY <1>0, <1>a, OverlaySet
  <2>2. b = Acted(SetOverlay(a, "More"))
    BY <1>3 DEF b, Apply
  <2> QED
    BY <2>1, <2>2
<1>4. ASSUME w.kind = "search" PROVE Keeps(a, b)
  <2>1. Keeps(a, Acted(Refresh([a EXCEPT !.tab = "Search"])))
    BY <1>0, <1>a, MarkingOps
  <2>2. b = Acted(Refresh([a EXCEPT !.tab = "Search"]))
    BY <1>4 DEF b, Apply
  <2> QED
    BY <2>1, <2>2
<1>5. ASSUME w.kind = "home" PROVE Keeps(a, b)
  <2>1. Keeps(a, LeaveSearch(a))
    BY <1>0, MarkingOps
  <2>2. b = Acted(IF a.tab = "Search" THEN LeaveSearch(a) ELSE a)
    BY <1>5 DEF b, Apply
  <2> QED
    BY <1>0, <1>a, <2>1, <2>2
<1>6. ASSUME w.kind = "input" PROVE Keeps(a, b)
  <2>1. Keeps(a, DismissKb(a))
    BY <1>0, MarkingOps
  <2> DEFINE c == Refresh([a EXCEPT !.kb = TRUE])
  <2>2. Keeps(a, c)
    <3> DEFINE d == c
    <3>1. d = [g \in Fields |-> d[g]] /\ d.overlay \in Overlay /\ d.tab \in Tab /\ d.dirty = TRUE
      BY AppFields DEF Refresh
    <3> HIDE DEF d
    <3>2. Keeps(a, d)
      BY <3>1, Marked
    <3> QED
      BY <3>2 DEF d
  <2> HIDE DEF c
  <2>3. Keeps(a, Acted(DismissKb(a))) /\ Keeps(a, Acted(c))
    BY <1>a, <2>1, <2>2
  <2>4. b = Acted(IF a.kb THEN DismissKb(a) ELSE c)
    BY <1>6 DEF b, Apply, c
  <2> QED
    BY <2>3, <2>4
<1>7. ASSUME w.kind = "beside" PROVE Keeps(a, b)
  <2>1. Keeps(a, DismissKb(a))
    BY <1>0, MarkingOps
  <2>2. b = IF a.kb THEN Acted(DismissKb(a)) ELSE a
    BY <1>7 DEF b, Apply
  <2> QED
    BY <1>0, <1>a, <2>1, <2>2
<1>8. ASSUME w.kind = "apps" PROVE Keeps(a, b)
  <2>1. Keeps(a, [SetOverlay(a, "Launcher") EXCEPT !.scroll = 0])
    BY <1>8, LauncherOps
  <2>2. b = Acted([SetOverlay(a, "Launcher") EXCEPT !.scroll = 0])
    BY <1>8 DEF b, Apply
  <2> QED
    BY <1>a, <2>1, <2>2
<1>9. ASSUME w.kind \in {"outside", "row"} PROVE Keeps(a, b)
  <2> DEFINE c == SetOverlay(a, "None")
  <2>1. Keeps(a, c) /\ IsApp(c)
    BY <1>0, OverlaySet DEF Keeps
  <2> HIDE DEF c
  <2>2. Keeps(c, Refresh(c))
    BY <1>0, <2>1, MarkingOps
  <2>3. Keeps(a, Acted(Refresh(c)))
    BY <1>a, <1>b, <2>1, <2>2
  <2>4. b = Acted(Refresh(c))
    BY <1>9 DEF b, Apply, c
  <2> QED
    BY <2>3, <2>4
<1>10. ASSUME w.kind = "cell" PROVE Keeps(a, b)
  <2>1. Keeps(a, LauncherCell(a, drag))
    BY LauncherOps
  <2>2. b = LauncherCell(a, drag)
    BY <1>10 DEF b, Apply
  <2> QED
    BY <2>1, <2>2
<1>11. Keeps(a, b)
  BY <1>1, <1>2, <1>3, <1>4, <1>5, <1>6, <1>7, <1>8, <1>9, <1>10 DEF Widget
<1> QED
  BY <1>11 DEF Keeps, b

---------------------------------------------------------------------------
(* What a release reports.                                                 *)
LEMMA Areas ==
  ASSUME synced.overlay \in Overlay, synced.tab \in Tab, NEW r, NEW c
  PROVE  /\ Area(r, c).kind \in Widget
         /\ Area(r, c).kind = "apps" => synced.overlay = "More"
<1>1. CASE synced.overlay = "More"
  BY <1>1 DEF Area, Widget
<1>2. CASE synced.overlay = "Context"
  BY <1>2 DEF Area, Widget
<1>3. CASE synced.overlay = "Launcher"
  BY <1>3 DEF Area, Widget
<1>4. CASE synced.overlay = "None" /\ synced.tab = "Search"
  BY <1>4 DEF Area, Widget
<1>5. CASE synced.overlay = "None" /\ synced.tab = "Library"
  BY <1>5 DEF Area, Widget
<1> QED
  BY <1>1, <1>2, <1>3, <1>4, <1>5 DEF Overlay, Tab

(* ... and a press.                                                        *)
LEMMA Hits ==
  ASSUME synced.overlay \in Overlay, synced.tab \in Tab, NEW p
  PROVE  /\ Hit(p).kind \in Widget
         /\ Hit(p).kind = "apps" => synced.overlay = "More"
BY Areas DEF Hit

(* A press grabs a widget of the page. *)
LEMMA GrabbedWidget ==
  ASSUME synced.overlay \in Overlay, synced.tab \in Tab, NEW g, g.kind \in Widget, NEW p
  PROVE  Grabbed(g, p).kind \in Widget
BY Hits DEF Grabbed

(* A release reports a widget; the Apps button only from the More sheet. *)
LEMMA ReportedWidget ==
  ASSUME synced.overlay \in Overlay, synced.tab \in Tab, NEW g, g.kind \in Widget, NEW p,
         NEW w \in Reported(g, p)
  PROVE  w.kind \in Widget /\ (w.kind = "apps" => synced.overlay = "More")
<1>1. NoWidget.kind = "none" /\ NoWidget.kind \in Widget
  BY DEF NoWidget, Widget
<1>2. CASE g = NoWidget \/ ~ Drawn(g)
  <2>1. w = NoWidget \/ w = Hit(p)
    BY <1>2 DEF Reported
  <2> QED
    BY <1>1, <2>1, Hits
<1>3. CASE ~ (g = NoWidget \/ ~ Drawn(g))
  <2>1. w = NoWidget \/ w = g
    BY <1>3 DEF Reported
  <2>2. g.kind = "apps" => Area(g.at, g.col) = g
    BY <1>3 DEF Drawn
  <2> QED
    BY <1>1, <2>1, <2>2, Areas
<1> QED
  BY <1>2, <1>3

---------------------------------------------------------------------------
(* The handlers.                                                           *)
LEMMA CountsKeep ==
  ASSUME NEW a, IsApp(a), NEW x, NEW y, NEW z
  PROVE  /\ Keeps(a, a)
         /\ Keeps(a, [a EXCEPT !.eaten = x, !.open = y, !.acts = z])
         /\ Keeps(a, [a EXCEPT !.press = x, !.seen = FALSE, !.last = y,
                               !.acts = 0, !.open = TRUE, !.launched = FALSE])
         /\ Keeps(a, [a EXCEPT !.total = x]) /\ Keeps(a, [a EXCEPT !.last = x])
         /\ Keeps(a, [a EXCEPT !.seen = x]) /\ Keeps(a, [a EXCEPT !.press.held = x])
         /\ Keeps(a, [a EXCEPT !.seen = x, !.plong = y]) /\ Keeps(a, Held(a))
<1> USE AppFields
<1>1. Keeps(a, a)
  BY DEF Keeps
<1>2. Keeps(a, [a EXCEPT !.eaten = x, !.open = y, !.acts = z])
  <2> DEFINE b == [a EXCEPT !.eaten = x, !.open = y, !.acts = z]
  <2>1. /\ b = [g \in Fields |-> b[g]]
        /\ b.overlay = a.overlay /\ b.tab = a.tab /\ b.scroll = a.scroll /\ b.dirty = a.dirty
    OBVIOUS
  <2> HIDE DEF b
  <2>2. Keeps(a, b)
    BY <2>1, LeftAlone
  <2> QED
    BY <2>2 DEF b
<1>3. Keeps(a, [a EXCEPT !.press = x, !.seen = FALSE, !.last = y,
                         !.acts = 0, !.open = TRUE, !.launched = FALSE])
  <2> DEFINE b == [a EXCEPT !.press = x, !.seen = FALSE, !.last = y,
                            !.acts = 0, !.open = TRUE, !.launched = FALSE]
  <2>1. /\ b = [g \in Fields |-> b[g]]
        /\ b.overlay = a.overlay /\ b.tab = a.tab /\ b.scroll = a.scroll /\ b.dirty = a.dirty
    OBVIOUS
  <2> HIDE DEF b
  <2>2. Keeps(a, b)
    BY <2>1, LeftAlone
  <2> QED
    BY <2>2 DEF b
<1>4. Keeps(a, [a EXCEPT !.total = x])
  <2> DEFINE b == [a EXCEPT !.total = x]
  <2>1. /\ b = [g \in Fields |-> b[g]]
        /\ b.overlay = a.overlay /\ b.tab = a.tab /\ b.scroll = a.scroll /\ b.dirty = a.dirty
    OBVIOUS
  <2> HIDE DEF b
  <2>2. Keeps(a, b)
    BY <2>1, LeftAlone
  <2> QED
    BY <2>2 DEF b
<1>5. Keeps(a, [a EXCEPT !.last = x])
  <2> DEFINE b == [a EXCEPT !.last = x]
  <2>1. /\ b = [g \in Fields |-> b[g]]
        /\ b.overlay = a.overlay /\ b.tab = a.tab /\ b.scroll = a.scroll /\ b.dirty = a.dirty
    OBVIOUS
  <2> HIDE DEF b
  <2>2. Keeps(a, b)
    BY <2>1, LeftAlone
  <2> QED
    BY <2>2 DEF b
<1>6. Keeps(a, [a EXCEPT !.seen = x])
  <2> DEFINE b == [a EXCEPT !.seen = x]
  <2>1. /\ b = [g \in Fields |-> b[g]]
        /\ b.overlay = a.overlay /\ b.tab = a.tab /\ b.scroll = a.scroll /\ b.dirty = a.dirty
    OBVIOUS
  <2> HIDE DEF b
  <2>2. Keeps(a, b)
    BY <2>1, LeftAlone
  <2> QED
    BY <2>2 DEF b
<1>7. Keeps(a, [a EXCEPT !.press.held = x])
  <2> DEFINE b == [a EXCEPT !.press.held = x]
  <2>1. /\ b = [g \in Fields |-> b[g]]
        /\ b.overlay = a.overlay /\ b.tab = a.tab /\ b.scroll = a.scroll /\ b.dirty = a.dirty
    OBVIOUS
  <2> HIDE DEF b
  <2>2. Keeps(a, b)
    BY <2>1, LeftAlone
  <2> QED
    BY <2>2 DEF b
<1>8. Keeps(a, [a EXCEPT !.seen = x, !.plong = y])
  <2> DEFINE b == [a EXCEPT !.seen = x, !.plong = y]
  <2>1. /\ b = [g \in Fields |-> b[g]]
        /\ b.overlay = a.overlay /\ b.tab = a.tab /\ b.scroll = a.scroll /\ b.dirty = a.dirty
    OBVIOUS
  <2> HIDE DEF b
  <2>2. Keeps(a, b)
    BY <2>1, LeftAlone
  <2> QED
    BY <2>2 DEF b
<1>9. Keeps(a, Held(a))
  <2> DEFINE b == Held(a)
  <2>1. /\ b = [g \in Fields |-> b[g]]
        /\ b.overlay = a.overlay /\ b.tab = a.tab /\ b.scroll = a.scroll /\ b.dirty = a.dirty
    BY DEF Held
  <2> HIDE DEF b
  <2>2. Keeps(a, b)
    BY <2>1, LeftAlone
  <2> QED
    BY <2>2 DEF b
<1> QED
  BY <1>1, <1>2, <1>3, <1>4, <1>5, <1>6, <1>7, <1>8, <1>9

(* The committed text of the keyboard. *)
LEMMA DrainedKeeps ==
  ASSUME NEW a, IsApp(a), pending \in {"new", "blank", "same"}
  PROVE  Keeps(a, Drained(a))
<1> DEFINE c == [a EXCEPT !.kb = FALSE]
           d == Drained(a)
<1>1. IsApp(c) /\ Keeps(a, c)
  BY QuietOps
<1>2. d = CASE pending = "new" -> Refresh([c EXCEPT !.tab = "Library"])
            [] pending = "blank" -> c
            [] pending = "same" -> IF a.tab = "Search" THEN Refresh(c) ELSE c
  BY DEF Drained
<1> HIDE DEF c, d
<1>3. "Library" \in Tab
  BY DEF Tab
<1>4. Keeps(c, Refresh(c)) /\ Keeps(c, Refresh([c EXCEPT !.tab = "Library"]))
  BY <1>1, <1>3, MarkingOps
<1>5. d = c \/ d = Refresh(c) \/ d = Refresh([c EXCEPT !.tab = "Library"])
  BY <1>2
<1>6. Keeps(a, d)
  BY <1>1, <1>4, <1>5, KeepsTransitive
<1> QED
  BY <1>6 DEF d

(* A release on a tree that an unmarked application still matches. *)
LEMMA ReleaseKeeps ==
  ASSUME ScreenInv, NEW a, Keeps(app, a), NEW drag \in BOOLEAN,
         NEW g, g.kind \in Widget, NEW p, NEW w \in Reported(g, p)
  PROVE  Keeps(app, Apply(a, w, drag))
<1>1. w.kind \in Widget /\ (w.kind = "apps" => synced.overlay = "More")
  BY ReportedWidget DEF ScreenInv
<1>2. ASSUME w.kind = "apps", ~ a.dirty
      PROVE  a.overlay # "Launcher"
  <2>1. ~ app.dirty /\ (a.overlay = app.overlay \/ a.overlay = "None")
    BY <1>2 DEF Keeps
  <2>2. IF app.overlay = shown THEN synced = View(app) ELSE app.overlay = "None"
    BY <2>1 DEF ScreenInv, Current
  <2>3. View(app).overlay = app.overlay
    BY DEF View
  <2>4. app.overlay = "More" \/ app.overlay = "None"
    BY <1>1, <1>2, <2>2, <2>3
  <2> QED
    BY <2>1, <2>4
<1>3. IsApp(a)
  BY DEF Keeps
<1>4. Keeps(a, Apply(a, w, drag))
  BY <1>1, <1>2, <1>3, ApplyKeeps
<1> QED
  BY <1>4, KeepsTransitive

Commits == {None, "new", "blank", "same"}

(* What a handler leaves of the invariant before the next frame. *)
Handled ==
  Keeps(app, app') /\ grab'.kind \in Widget /\ pending' \in Commits

(* A Down marks whatever it changes on the page. *)
LEMMA DownHandled ==
  ASSUME ScreenInv, NEW p, PointerDown(p)
  PROVE  Handled
<1>1. Keeps(app, app')
  <2> DEFINE x == [at |-> p, held |-> FALSE]
  <2>1. app' = [app EXCEPT !.press = x, !.seen = FALSE, !.last = p,
                           !.acts = 0, !.open = TRUE, !.launched = FALSE]
    BY DEF PointerDown
  <2> HIDE DEF x
  <2> QED
    BY <2>1, CountsKeep DEF ScreenInv
<1>2. grab'.kind \in Widget
  BY GrabbedWidget DEF ScreenInv, PointerDown
<1> QED
  BY <1>1, <1>2 DEF Handled, PointerDown, ScreenInv, Commits

(* A Move marks whatever it scrolls or closes. *)
LEMMA MoveHandled ==
  ASSUME ScreenInv, NEW p, PointerMove(p)
  PROVE  Handled
<1> DEFINE dy == Row(app.last) - Row(p)
           total == Bounded(app.total + dy)
           a == [app EXCEPT !.total = total]
           c == IF app.last # None /\ app.press # None THEN Scrolled(a, dy) ELSE app
<1>1. app' = [c EXCEPT !.last = p]
  BY DEF PointerMove
<1>2. IsApp(a) /\ Keeps(app, a)
  <2> HIDE DEF total
  <2> QED
    BY CountsKeep DEF ScreenInv, Keeps
<1> HIDE DEF dy, a
<1>3. Keeps(a, Scrolled(a, dy))
  <2> DEFINE s == Clamp(a.scroll + dy, MaxScroll + 1)
  <2>1. Scrolled(a, dy) = a \/ Scrolled(a, dy) = Refresh([a EXCEPT !.scroll = s])
    BY DEF Scrolled
  <2> HIDE DEF s
  <2>2. "Library" \in Tab
    BY DEF Tab
  <2>3. Keeps(a, Refresh([a EXCEPT !.scroll = s])) /\ Keeps(a, a)
    BY <1>2, <2>2, MarkingOps, CountsKeep
  <2> QED
    BY <2>1, <2>3
<1>4. Keeps(app, app)
  BY CountsKeep DEF ScreenInv
<1>5. Keeps(app, c) /\ IsApp(c)
  BY <1>2, <1>3, <1>4, KeepsTransitive DEF Keeps
<1> HIDE DEF c
<1>6. Keeps(app, app')
  BY <1>1, <1>5, CountsKeep, KeepsTransitive
<1> QED
  BY <1>6 DEF Handled, PointerMove, ScreenInv, Commits

(* The release, with every action it reports, marks what it changes. *)
LEMMA UpHandled ==
  ASSUME ScreenInv, NEW p, PointerUp(p)
  PROVE  Handled
<1> DEFINE c == Contact(app)
           a == NoPress(c)
           long == IsLong(app, p) /\ app.tab = "Library" /\ app.overlay = "None"
           drag == Abs(app.total) >= 2
<1>1. Keeps(app, a) /\ IsApp(a)
  <2>1. IsApp(c) /\ Keeps(app, c)
    BY QuietOps DEF ScreenInv
  <2> HIDE DEF c
  <2>2. IsApp(a) /\ Keeps(c, a)
    BY <2>1, QuietOps
  <2> QED
    BY <2>1, <2>2, KeepsTransitive
<1>2. drag \in BOOLEAN
  OBVIOUS
<1>3. CASE Trailing(app)
  <2>1. app' = [a EXCEPT !.seen = FALSE] /\ UNCHANGED <<grab, pending>>
    BY <1>3 DEF PointerUp
  <2> HIDE DEF a
  <2>2. Keeps(app, app')
    BY <1>1, <2>1, CountsKeep, KeepsTransitive
  <2> QED
    BY <2>1, <2>2 DEF Handled, ScreenInv, Commits
<1>4. CASE ~ Trailing(app)
  <2> DEFINE d == [a EXCEPT !.plong = long]
  <2>1. PICK w \in Reported(grab, p) :
          app' = Apply(d, w, drag) /\ Keyboard(app') /\ grab' = NoWidget
    BY <1>4 DEF PointerUp
  <2>2. Keeps(app, d)
    <3> HIDE DEF a, long
    <3>1. Keeps(a, d)
      BY <1>1, QuietOps
    <3> QED
      BY <1>1, <3>1, KeepsTransitive
  <2> HIDE DEF d, drag
  <2>3. Keeps(app, app')
    BY <1>2, <2>1, <2>2, ReleaseKeeps DEF ScreenInv
  <2> QED
    BY <2>1, <2>3 DEF Handled, Keyboard, NoWidget, Widget, Commits
<1> QED
  BY <1>3, <1>4

(* A long press marks the sheet it opens. *)
LEMMA LongHandled ==
  ASSUME ScreenInv, NEW p, LongPress(p)
  PROVE  Handled
<1> DEFINE shelf == app.tab = "Library" /\ app.overlay = "None"
           h == Held(app)
           n == NoPress(h)
           pl == n.plong \/ shelf
           a == [n EXCEPT !.seen = TRUE, !.plong = pl]
<1>1. Keeps(app, a) /\ IsApp(a)
  <2>1. IsApp(h) /\ Keeps(app, h)
    BY CountsKeep DEF ScreenInv, Keeps
  <2> HIDE DEF h
  <2>2. IsApp(n) /\ Keeps(h, n)
    BY <2>1, QuietOps
  <2> HIDE DEF n, pl
  <2> DEFINE t == TRUE
             c == [n EXCEPT !.seen = t, !.plong = pl]
  <2> HIDE DEF t
  <2>3. Keeps(n, c)
    BY <2>2, CountsKeep
  <2>4. Keeps(n, a)
    BY <2>3 DEF t
  <2> HIDE DEF a
  <2>5. Keeps(app, a)
    BY <2>1, <2>2, <2>4, KeepsTransitive
  <2> QED
    BY <2>5 DEF Keeps
<1>2. CASE shelf \/ EndsPress(app)
  <2>1. PICK w \in IF shelf THEN Reported(Grabbed(grab, p), p) ELSE Reported(grab, app.press.at) :
          app' = Apply(a, w, FALSE) /\ Keyboard(app') /\ grab' = NoWidget
    BY <1>2 DEF LongPress
  <2> HIDE DEF a
  <2>2. PICK g, q : g.kind \in Widget /\ w \in Reported(g, q)
    BY <2>1, GrabbedWidget DEF ScreenInv
  <2> DEFINE f == FALSE
  <2>3. app' = Apply(a, w, f) /\ f \in BOOLEAN
    BY <2>1
  <2> HIDE DEF f
  <2>4. Keeps(app, app')
    BY <1>1, <2>2, <2>3, ReleaseKeeps
  <2> QED
    BY <2>1, <2>4 DEF Handled, Keyboard, NoWidget, Widget, Commits
<1>3. CASE ~ (shelf \/ EndsPress(app))
  <2>1. UNCHANGED <<app, grab, pending>>
    BY <1>3 DEF LongPress
  <2> QED
    BY <2>1, CountsKeep DEF Handled, ScreenInv, Commits
<1> QED
  BY <1>2, <1>3

(* Any event, the keyboard drained before it, marks what it changes. *)
LEMMA EventHandled ==
  ASSUME ScreenInv, NEW e, Known(e), OnEvent(e)
  PROVE  Handled
<1>1. CASE pending # None
  <2> DEFINE d == Drained(app)
             x == CASE e.kind = "down" -> TRUE [] e.kind = "up" -> FALSE [] OTHER -> d.open
             y == IF e.kind = "down" THEN 0 ELSE d.acts
             t == TRUE
  <2>1. app' = [d EXCEPT !.eaten = t, !.open = x, !.acts = y] /\ UNCHANGED grab /\ pending' = None
    BY <1>1 DEF OnEvent
  <2>2. Keeps(app, d) /\ IsApp(d)
    BY <1>1, DrainedKeeps DEF ScreenInv, Keeps
  <2> HIDE DEF d, x, y, t
  <2>3. Keeps(app, app')
    BY <2>1, <2>2, CountsKeep, KeepsTransitive
  <2> QED
    BY <2>1, <2>3 DEF Handled, ScreenInv, Commits
<1>2. CASE pending = None
  <2>1. CASE e.kind = "down"
    BY <1>2, <2>1, DownHandled DEF OnEvent
  <2>2. CASE e.kind = "move"
    BY <1>2, <2>2, MoveHandled DEF OnEvent
  <2>3. CASE e.kind = "up"
    BY <1>2, <2>3, UpHandled DEF OnEvent
  <2>4. CASE e.kind = "long"
    BY <1>2, <2>4, LongHandled DEF OnEvent
  <2> QED
    BY <2>1, <2>2, <2>3, <2>4 DEF Known
<1> QED
  BY <1>1, <1>2

(* The back key marks the overlay it closes. *)
LEMMA BackHandled ==
  ASSUME ScreenInv, BackKey
  PROVE  Handled
<1> DEFINE b == IF pending # None THEN Drained(app)
                ELSE IF app.overlay # "None" THEN SetOverlay(app, "None")
                ELSE IF app.tab = "Search" THEN LeaveSearch(app) ELSE app
<1>1. app' = b /\ UNCHANGED grab /\ pending' \in Commits
  BY DEF BackKey, Keyboard, Commits
<1>2. pending # None => Keeps(app, Drained(app))
  BY DrainedKeeps DEF ScreenInv
<1>3. Keeps(app, SetOverlay(app, "None"))
  BY OverlaySet DEF ScreenInv, Overlay
<1>4. Keeps(app, LeaveSearch(app)) /\ Keeps(app, app)
  <2>1. "Library" \in Tab
    BY DEF Tab
  <2> QED
    BY <2>1, MarkingOps, CountsKeep DEF ScreenInv
<1>5. Keeps(app, b)
  BY <1>2, <1>3, <1>4
<1> HIDE DEF b
<1> QED
  BY <1>1, <1>5 DEF Handled, ScreenInv

---------------------------------------------------------------------------
(* The queue.                                                              *)
LEMMA QueueGrows ==
  ASSUME NEW q, Waiting(q), NEW r, Waiting(r)
  PROVE  Waiting(q \o r)
<1>1. PICK S : q \in Seq(S) /\ \A e \in S : Known(e)
  BY DEF Waiting
<1>2. PICK T : r \in Seq(T) /\ \A e \in T : Known(e)
  BY DEF Waiting
<1> DEFINE U == S \union T
<1>3. q \in Seq(U) /\ r \in Seq(U)
  BY <1>1, <1>2
<1>4. \A e \in U : Known(e)
  BY <1>1, <1>2
<1> HIDE DEF U
<1>5. q \o r \in Seq(U)
  BY <1>3
<1> QED
  BY <1>4, <1>5 DEF Waiting

(* A queue of one event is a queue of events. *)
LEMMA OneWaits ==
  ASSUME NEW k \in {"down", "move", "up", "long"}, NEW p
  PROVE  Waiting(<<Event(k, p)>>) /\ Known(Event(k, p)) /\ Waiting(<<>>)
<1> DEFINE e == Event(k, p)
<1>1. Known(e)
  BY DEF Known, Event
<1> HIDE DEF e
<1> DEFINE S == {e}
           s == <<e>>
           n == <<>>
<1>2. s \in Seq(S) /\ n \in Seq(S)
  OBVIOUS
<1>3. \A x \in S : Known(x)
  BY <1>1
<1> HIDE DEF S, s, n
<1>4. Waiting(s) /\ Waiting(n)
  BY <1>2, <1>3 DEF Waiting
<1> QED
  BY <1>1, <1>4 DEF e, s, n

(* The queue of events grows by one at its end. *)
LEMMA QueueAppends ==
  ASSUME NEW q, Waiting(q), NEW k \in {"down", "move", "up", "long"}, NEW p
  PROVE  Waiting(Append(q, Event(k, p)))
<1>1. PICK S : q \in Seq(S) /\ \A e \in S : Known(e)
  BY DEF Waiting
<1> DEFINE x == Event(k, p)
           U == S \union {x}
<1>2. Known(x)
  BY OneWaits
<1> HIDE DEF x
<1>3. q \in Seq(U) /\ x \in U
  BY <1>1
<1>4. \A e \in U : Known(e)
  BY <1>1, <1>2
<1> HIDE DEF U
<1>5. Append(q, x) \in Seq(U)
  BY <1>3
<1>6. Waiting(Append(q, x))
  BY <1>4, <1>5 DEF Waiting
<1> QED
  BY <1>6 DEF x

(* The head of the queue is an event, and so is all behind it. *)
LEMMA QueueDrains ==
  ASSUME NEW q, Waiting(q), q # <<>>
  PROVE  Known(Head(q)) /\ Waiting(Tail(q))
<1>1. PICK S : q \in Seq(S) /\ \A e \in S : Known(e)
  BY DEF Waiting
<1>2. Head(q) \in S /\ Tail(q) \in Seq(S)
  BY <1>1
<1> QED
  BY <1>1, <1>2 DEF Waiting

(* What the decoder makes of a frame, whatever it was fed. *)
LEMMA FlushedWaits ==
  ASSUME NEW d
  PROVE  Waiting(FlushSyn(d).out)
<1> DEFINE c == d.slots[SlotIndex(d.tracked)]
           sent == [d EXCEPT !.emitted = TRUE, !.last = c.at]
           lift == [Retarget(d) EXCEPT !.emitted = FALSE, !.last = None]
           r == FlushSyn(d)
<1>1. r = CASE d.tracked = None -> [dec |-> d, out |-> <<>>]
            [] d.tracked # None /\ ~ c.on -> [dec |-> lift, out |-> <<Event("up", c.at)>>]
            [] d.tracked # None /\ c.on /\ ~ d.emitted ->
                 [dec |-> sent, out |-> <<Event("down", c.at)>>]
            [] d.tracked # None /\ c.on /\ d.emitted ->
                 [dec |-> sent, out |-> IF d.last = c.at THEN <<>> ELSE <<Event("move", c.at)>>]
  BY DEF FlushSyn
<1> HIDE DEF sent, lift, r, c
<1>2. \/ r.out = <<>>
      \/ r.out = <<Event("up", c.at)>>
      \/ r.out = <<Event("down", c.at)>>
      \/ r.out = <<Event("move", c.at)>>
  <2>1. CASE d.tracked = None
    BY <1>1, <2>1
  <2>2. CASE d.tracked # None /\ ~ c.on
    BY <1>1, <2>2
  <2>3. CASE d.tracked # None /\ c.on /\ ~ d.emitted
    BY <1>1, <2>3
  <2>4. CASE d.tracked # None /\ c.on /\ d.emitted
    BY <1>1, <2>4
  <2> QED
    BY <2>1, <2>2, <2>3, <2>4
<1>3. Waiting(r.out)
  BY <1>2, OneWaits
<1> QED
  BY <1>3 DEF r

---------------------------------------------------------------------------
(* The steps.                                                              *)
LEMMA StepOffscreen ==
  ASSUME ScreenInv, Handled, Waiting(out'), UNCHANGED <<synced, screenVars>>
  PROVE  ScreenInv'
<1>1. IsApp(app') /\ Current(app')
  BY KeepsCurrent DEF ScreenInv, Handled
<1>2. Current(app)'
  BY <1>1 DEF Current, View, screenVars
<1>3. IsApp(app)'
  BY <1>1 DEF IsApp
<1>4. pending' \in {None, "new", "blank", "same"} /\ grab'.kind \in Widget
  BY DEF Handled, Commits
<1>5. (Waiting(out))'
  BY DEF Waiting, Known
<1> QED
  BY <1>2, <1>3, <1>4, <1>5 DEF ScreenInv, screenVars

(* The steps that leave the application alone. *)
LEMMA StepIdle ==
  ASSUME ScreenInv, UNCHANGED <<app, grab>>, pending' \in Commits
  PROVE  Handled
BY CountsKeep DEF ScreenInv, Handled

(* A frame of the panel only queues. *)
LEMMA StepTouch ==
  ASSUME ScreenInv, DoTouch
  PROVE  Handled /\ Waiting(out')
<1>1. PICK f \in Fingers : Touch(f)
  BY DEF DoTouch
<1> DEFINE d == Frame(f).dec
           r == FlushSyn(d).out
<1>2. out' = out \o r
  BY <1>1 DEF Touch
<1> HIDE DEF d
<1>3. Waiting(r)
  BY FlushedWaits
<1> HIDE DEF r
<1>4. Waiting(out')
  BY <1>2, <1>3, QueueGrows DEF ScreenInv
<1> QED
  BY <1>4, StepIdle DEF DoTouch, ScreenInv, Commits

(* The firmware and the kernel only queue. *)
LEMMA StepGesture ==
  ASSUME ScreenInv, \/ \E p \in Place \union {None} : Gesture(p)
                    \/ GestureLong \/ Swallow \/ \E t \in {"new", "blank", "same"} : Commit(t)
                    \/ DoOverflow
  PROVE  Handled /\ Waiting(out')
<1>1. CASE \E p \in Place \union {None} : Gesture(p)
  <2>1. PICK p \in Place \union {None} : Gesture(p)
    BY <1>1
  <2> DEFINE old == finger[MainSlot]
             e == IF old = None THEN "down" ELSE IF p = None THEN "up" ELSE "move"
             at == IF p = None THEN old ELSE p
  <2>2. out' = Append(out, Event(e, at)) /\ UNCHANGED <<pending, app, grab>>
    BY <2>1 DEF Gesture
  <2>3. e \in {"down", "move", "up", "long"}
    OBVIOUS
  <2> HIDE DEF e, at, old
  <2>4. Waiting(out')
    BY <2>2, <2>3, QueueAppends DEF ScreenInv
  <2> QED
    BY <2>2, <2>4, StepIdle DEF ScreenInv, Commits
<1>2. CASE GestureLong
  <2> DEFINE e == "long"
             at == finger[MainSlot]
  <2>1. out' = Append(out, Event(e, at)) /\ UNCHANGED <<pending, app, grab>>
    BY <1>2 DEF GestureLong
  <2>2. e \in {"down", "move", "up", "long"}
    OBVIOUS
  <2> HIDE DEF e, at
  <2>3. Waiting(out')
    BY <2>1, <2>2, QueueAppends DEF ScreenInv
  <2> QED
    BY <2>1, <2>3, StepIdle DEF ScreenInv, Commits
<1>3. CASE Swallow
  BY <1>3, StepIdle DEF Swallow, ScreenInv, Commits
<1>4. CASE \E t \in {"new", "blank", "same"} : Commit(t)
  BY <1>4, StepIdle DEF Commit, touchVars, ScreenInv, Commits
<1>5. CASE DoOverflow
  <2>1. UNCHANGED <<app, grab, pending, out>>
    BY <1>5 DEF DoOverflow, Overflow
  <2> QED
    BY <2>1, StepIdle DEF ScreenInv, Commits
<1> QED
  BY <1>1, <1>2, <1>3, <1>4, <1>5

(* A pass of the application handles one event, or a hold. *)
LEMMA StepApp ==
  ASSUME ScreenInv, Hold \/ Deliver \/ TickLong \/ BackKey
  PROVE  Handled /\ Waiting(out')
<1>1. CASE Hold
  <2> DEFINE t == TRUE
  <2>1. app' = [app EXCEPT !.press.held = t] /\ UNCHANGED <<out, pending, grab>>
    BY <1>1 DEF Hold, touchVars
  <2> HIDE DEF t
  <2>2. Keeps(app, app')
    BY <2>1, CountsKeep DEF ScreenInv
  <2> QED
    BY <2>1, <2>2 DEF ScreenInv, Handled, Commits
<1>2. CASE Deliver
  <2>1. Known(Head(out)) /\ Waiting(Tail(out))
    BY <1>2, QueueDrains DEF Deliver, ScreenInv
  <2> DEFINE e == Head(out)
  <2>2. OnEvent(e) /\ out' = Tail(out)
    BY <1>2 DEF Deliver
  <2> HIDE DEF e
  <2>3. Handled
    BY <2>1, <2>2, EventHandled DEF e
  <2> QED
    BY <2>1, <2>2, <2>3
<1>3. CASE TickLong
  <2> DEFINE e == Event("long", app.press.at)
  <2>1. OnEvent(e) /\ UNCHANGED out
    BY <1>3 DEF TickLong, touchVars
  <2>2. Known(e)
    BY OneWaits
  <2> HIDE DEF e
  <2>3. Handled
    BY <2>1, <2>2, EventHandled
  <2> QED
    BY <2>1, <2>3 DEF ScreenInv
<1>4. CASE BackKey
  BY <1>4, BackHandled DEF BackKey, touchVars, ScreenInv
<1> QED
  BY <1>1, <1>2, <1>3, <1>4

(* The frame: what is not redrawn is what the tree shows already, and what *)
(* of the page is painted is sent.                                         *)
LEMMA StepPresent ==
  ASSUME ScreenInv, Present
  PROVE  ScreenInv'
<1> DEFINE a == IF pending # None THEN Drained(app) ELSE app
           sync == Changed(a) \/ rolled
           painted == Painted(a, sync, Changed(a) /\ a.overlay = "None" /\ shown # "None")
           flush == Flushed(a, painted)
           off == FALSE
           b == [a EXCEPT !.dirty = off]
<1>1. IsApp(a) /\ Current(a)
  <2>1. Keeps(app, a)
    BY DrainedKeeps, CountsKeep DEF ScreenInv
  <2> HIDE DEF a
  <2> QED
    BY <2>1, KeepsCurrent DEF ScreenInv
<1>2. /\ app' = Counted(b) /\ pending' = None /\ shown' = a.overlay
      /\ synced' = IF sync THEN View(a) ELSE synced
      /\ unflushed' = ((unflushed \union painted) \ flush) \ Strip
      /\ UNCHANGED <<out, grab>>
  BY DEF Present, touchVars
<1> HIDE DEF a
<1>3. Current(a) /\ ~ Changed(a) => ~ a.dirty /\ synced = View(a)
  BY DEF Current, Changed
<1>4. synced' = View(a)
  BY <1>1, <1>2, <1>3
<1>5. "page" \notin unflushed'
  <2>1. CASE Changed(a)
    BY <1>2, <2>1 DEF Flushed, ScreenInv, Region, Strip
  <2>2. CASE ~ Changed(a) /\ rolled
    <3>1. "page" \notin painted
      BY <1>1, <1>3, <2>2 DEF Painted
    <3> QED
      BY <1>2, <3>1 DEF ScreenInv
  <2>3. CASE ~ Changed(a) /\ ~ rolled
    BY <1>2, <2>3 DEF Flushed, ScreenInv
  <2> QED
    BY <2>1, <2>2, <2>3
<1>6. /\ app' = [g \in Fields |-> app'[g]]
      /\ app'.overlay = a.overlay /\ app'.tab = a.tab /\ app'.scroll = a.scroll
      /\ app'.dirty = FALSE
  <2>1. /\ b = [g \in Fields |-> b[g]] /\ b.overlay = a.overlay /\ b.tab = a.tab
        /\ b.scroll = a.scroll /\ b.dirty = FALSE /\ DOMAIN b = Fields
    BY <1>1, AppFields
  <2> HIDE DEF b
  <2>2. CASE b.open
    BY <1>2, <2>1, <2>2 DEF Counted
  <2>3. CASE ~ b.open
    <3> DEFINE z == 0
               c == [b EXCEPT !.acts = z, !.launched = off]
    <3>1. app' = c
      BY <1>2, <2>3 DEF Counted
    <3> HIDE DEF z, off
    <3>2. /\ c = [g \in Fields |-> c[g]] /\ c.overlay = b.overlay /\ c.tab = b.tab
          /\ c.scroll = b.scroll /\ c.dirty = b.dirty
      BY <2>1 DEF Fields
    <3> HIDE DEF c
    <3> QED
      BY <2>1, <3>1, <3>2
  <2> QED
    BY <2>2, <2>3
<1>7. a.overlay \in Overlay /\ a.tab \in Tab
  BY <1>1 DEF IsApp
<1>8. View(a).overlay = a.overlay /\ View(a).tab = a.tab
  BY DEF View
<1>9. synced' = [overlay |-> a.overlay, tab |-> a.tab,
                 scroll |-> IF a.overlay = "Launcher" THEN a.scroll ELSE 0]
  BY <1>4 DEF View
<1>10. IsApp(app)' /\ Current(app)'
  BY <1>2, <1>6, <1>7, <1>9 DEF IsApp, Current, View
<1>11. (Waiting(out))'
  BY <1>2 DEF Waiting, Known, ScreenInv
<1> QED
  BY <1>2, <1>4, <1>5, <1>7, <1>8, <1>10, <1>11 DEF ScreenInv

(* Every step keeps the page shown or marked. *)
LEMMA ScreenStep ==
  ASSUME ScreenInv, [Next]_vars
  PROVE  ScreenInv'
<1>2. CASE Offscreen(DoTouch)
  BY <1>2, StepTouch, StepOffscreen DEF Offscreen
<1>3. CASE \/ Offscreen(DoOverflow) \/ \E p \in Place \union {None} : Offscreen(Gesture(p))
           \/ Offscreen(GestureLong) \/ Offscreen(Swallow)
           \/ \E t \in {"new", "blank", "same"} : Offscreen(Commit(t))
  BY <1>3, StepGesture, StepOffscreen DEF Offscreen
<1>4. CASE Offscreen(Hold) \/ Offscreen(Deliver) \/ Offscreen(TickLong) \/ Offscreen(BackKey)
  BY <1>4, StepApp, StepOffscreen DEF Offscreen
<1>5. CASE Minute
  <2>1. UNCHANGED <<app, grab, pending, out, shown, synced, unflushed>>
    BY <1>5 DEF Minute, touchVars, pressVars
  <2> QED
    BY <2>1 DEF ScreenInv, IsApp, Current, View, Waiting, Known
<1>6. CASE Present
  BY <1>6, StepPresent
<1>7. CASE UNCHANGED vars
  <2>1. UNCHANGED <<app, grab, pending, out, shown, synced, unflushed>>
    BY <1>7 DEF vars, touchVars, pressVars, screenVars
  <2> QED
    BY <2>1 DEF ScreenInv, IsApp, Current, View, Waiting, Known
<1> QED
  BY <1>2, <1>3, <1>4, <1>5, <1>6, <1>7 DEF Next

(* The first page is marked. *)
LEMMA ScreenStart == Init => ScreenInv
<1> SUFFICES ASSUME Init
             PROVE  ScreenInv
  OBVIOUS
<1>1. /\ app = [g \in Fields |-> app[g]]
      /\ app.overlay = "None" /\ app.tab = "Library" /\ app.dirty = FALSE
  BY DEF Init, PressInit, Fields
<1>2. out = <<>> /\ pending = None /\ grab.kind = "none" /\ shown = "None"
      /\ unflushed = {} /\ synced = View(app)
  BY DEF Init, TouchInit, PressInit, NoWidget
<1>3. IsApp(app) /\ Current(app)
  BY <1>1, <1>2 DEF IsApp, Current, Overlay, Tab
<1>4. synced.overlay \in Overlay /\ synced.tab \in Tab
  BY <1>1, <1>2 DEF View, Overlay, Tab
<1>5. Waiting(<<>>)
  <2> DEFINE k == "down"
             p == 0
  <2>1. k \in {"down", "move", "up", "long"}
    OBVIOUS
  <2> HIDE DEF k, p
  <2> QED
    BY <2>1, OneWaits
<1> QED
  BY <1>2, <1>3, <1>4, <1>5 DEF ScreenInv, Widget

(* What present() takes for an unchanged frame is unchanged, for every panel *)
(* and every list: whenever no handler marked a frame and the overlay is the *)
(* one of the last, the Slint tree shows the page of the application and     *)
(* the panel was sent it (App::present, dirty and last_overlay).             *)
THEOREM ThePageIsShown == Spec => []PageShown
<1>1. ScreenInv => PageShown
  BY DEF ScreenInv, IsApp, Current, PageShown, Changed
<1> QED
  BY <1>1, ScreenStart, ScreenStep, PTL DEF Spec

---------------------------------------------------------------------------
(* What is decoded from the fingers: a frame is read slot by slot, and the *)
(* decoder knows of every slot what the kernel has told of it.             *)

Fingered == [Slot -> Place \union {None}]
Reports == [slot : Slot, at : [Slot -> Spot]]
Decoders == [slot : Slot \union {0}, tracked : Slot \union {0, None},
             slots : [Index -> [at : Spot, on : BOOLEAN]],
             emitted : BOOLEAN, last : Spot \union {None}]

(* A set of numbers that is not empty has a least one. *)
LEMMA LeastNumber ==
  ASSUME NEW T \in SUBSET Nat, T # {}
  PROVE  \E x \in T : \A y \in T : x <= y
<1>1. PICK x \in T : \A y \in T : ~ (<<y, x>> \in OpToRel(<, Nat))
  BY NatLessThanWellFounded, WFMin, Zenon
<1>2. ASSUME NEW y \in T PROVE x <= y
  <2>1. ~ (y < x)
    BY <1>1 DEF OpToRel
  <2> QED
    BY <2>1
<1> QED
  BY <1>2

(* slot_index is one to one on the slots the panel has. *)
LEMMA SlotsHaveIndices ==
  /\ \A s \in Slot : SlotIndex(s) = s - MainSlot /\ s - MainSlot \in Index
  /\ \A s \in Slot \union {0} : SlotIndex(s) \in Index
  /\ \A i \in Index : i + MainSlot \in Slot
  /\ Slot \subseteq Nat /\ Index \subseteq Nat /\ None \notin Slot \union {0}
BY TouchAssumption DEF SlotIndex, Clamp, Slot, Index

SameContact(d, e) == e.tracked = d.tracked /\ e.emitted = d.emitted /\ e.last = d.last

(* ABS_MT_SLOT changes the current slot and nothing of the contacts. *)
LEMMA SlotFed ==
  ASSUME NEW d \in Decoders, NEW v \in Slot, NEW e, e = FeedAbs(d, "slot", v)
  PROVE  e \in Decoders /\ e.slot = v /\ e.slots = d.slots /\ SameContact(d, e)
BY DEF FeedAbs, Decoders, SameContact

(* Landing or lifting changes one flag. *)
LEMMA OnSet ==
  ASSUME NEW d \in Decoders, NEW b \in BOOLEAN, NEW e,
         e = [d EXCEPT !.slots[SlotIndex(d.slot)].on = b]
  PROVE  /\ e \in Decoders /\ e.slot = d.slot /\ SameContact(d, e)
         /\ e.slots = [d.slots EXCEPT ![SlotIndex(d.slot)].on = b]
<1> DEFINE i == SlotIndex(d.slot)
           sl == [d.slots EXCEPT ![i].on = b]
<1>1. i \in Index
  BY SlotsHaveIndices DEF Decoders
<1>2. e = [d EXCEPT !.slots = sl]
  BY DEF Decoders
<1> HIDE DEF i
<1>3. sl \in [Index -> [at : Spot, on : BOOLEAN]]
  BY <1>1 DEF Decoders
<1>4. e \in Decoders /\ e.slot = d.slot /\ e.slots = sl /\ SameContact(d, e)
  <2> HIDE DEF sl
  <2> QED
    BY <1>2, <1>3 DEF Decoders, SameContact
<1> QED
  BY <1>4 DEF i

(* A tracking id of -1 takes the finger away and nothing else. *)
LEMMA LiftFed ==
  ASSUME NEW d \in Decoders, NEW e, e = FeedAbs(d, "id", -1)
  PROVE  /\ e \in Decoders /\ e.slot = d.slot /\ SameContact(d, e)
         /\ e.slots = [d.slots EXCEPT ![SlotIndex(d.slot)].on = FALSE]
<1> DEFINE b == FALSE
<1>1. e = [d EXCEPT !.slots[SlotIndex(d.slot)].on = b]
  BY DEF FeedAbs
<1>2. b \in BOOLEAN
  OBVIOUS
<1> HIDE DEF b
<1>3. /\ e \in Decoders /\ e.slot = d.slot /\ SameContact(d, e)
      /\ e.slots = [d.slots EXCEPT ![SlotIndex(d.slot)].on = b]
  BY <1>1, <1>2, OnSet
<1> QED
  BY <1>3 DEF b

(* A finger that lands is tracked unless another one is. *)
LEMMA LandFed ==
  ASSUME NEW d \in Decoders, NEW v \in Slot, NEW e, e = FeedAbs(d, "id", v)
  PROVE  /\ e \in Decoders /\ e.slot = d.slot
         /\ e.slots = [d.slots EXCEPT ![SlotIndex(d.slot)].on = TRUE]
         /\ IF d.tracked = None THEN e.tracked = d.slot /\ ~ e.emitted ELSE SameContact(d, e)
<1> DEFINE b == TRUE
           g == [d EXCEPT !.slots[SlotIndex(d.slot)].on = b]
<1>1. e = FirstContact(g)
  BY SlotsHaveIndices DEF FeedAbs
<1>2. b \in BOOLEAN
  OBVIOUS
<1> HIDE DEF b
<1>3. /\ g \in Decoders /\ g.slot = d.slot /\ SameContact(d, g)
      /\ g.slots = [d.slots EXCEPT ![SlotIndex(d.slot)].on = b]
  BY <1>2, OnSet
<1> HIDE DEF g
<1>4. CASE d.tracked # None
  <2>1. e = g
    BY <1>1, <1>3, <1>4 DEF FirstContact, SameContact
  <2> QED
    BY <1>3, <1>4, <2>1 DEF b
<1>5. CASE d.tracked = None
  <2> DEFINE h == FALSE
  <2>1. e = [g EXCEPT !.tracked = g.slot, !.emitted = h, !.last = None]
    BY <1>1, <1>3, <1>5 DEF FirstContact, SameContact
  <2>2. h \in BOOLEAN
    OBVIOUS
  <2> HIDE DEF h
  <2>3. /\ e \in Decoders /\ e.slot = g.slot /\ e.tracked = g.slot /\ e.slots = g.slots
        /\ e.emitted = h
    BY <1>3, <2>1, <2>2 DEF Decoders
  <2> QED
    BY <1>3, <1>5, <2>3 DEF b, h
<1> QED
  BY <1>4, <1>5

(* A position is stored in the current slot alone. *)
LEMMA PosFed ==
  ASSUME NEW d \in Decoders, NEW v \in Place, NEW e, e = FeedAbs(d, "pos", v)
  PROVE  /\ e \in Decoders /\ e.slot = d.slot /\ SameContact(d, e)
         /\ e.slots = [d.slots EXCEPT ![SlotIndex(d.slot)] = [at |-> v, on |-> @.on \/ @.at # 0]]
<1> DEFINE i == SlotIndex(d.slot)
           c == d.slots[i]
           n == [at |-> v, on |-> c.on \/ c.at # 0]
           sl == [d.slots EXCEPT ![i] = n]
<1>1. i \in Index /\ c \in [at : Spot, on : BOOLEAN]
  BY SlotsHaveIndices DEF Decoders
<1>2. n \in [at : Spot, on : BOOLEAN]
  BY <1>1 DEF Spot
<1>3. e = [d EXCEPT !.slots = sl]
  BY DEF FeedAbs, Decoders
<1>4. [d.slots EXCEPT ![i] = [at |-> v, on |-> @.on \/ @.at # 0]] = sl
  OBVIOUS
<1> HIDE DEF i, n
<1>5. sl \in [Index -> [at : Spot, on : BOOLEAN]]
  BY <1>1, <1>2 DEF Decoders
<1>6. e \in Decoders /\ e.slot = d.slot /\ e.slots = sl /\ SameContact(d, e)
  <2> HIDE DEF sl
  <2> QED
    BY <1>3, <1>5 DEF Decoders, SameContact
<1> QED
  BY <1>4, <1>6 DEF i

(* A decoder goes on with the contact it tracks; one it takes up is not sent yet. *)
Goes(d, e) ==
  /\ e \in Decoders
  /\ d.tracked # None => SameContact(d, e)
  /\ d.tracked = None /\ ~ d.emitted => ~ e.emitted

(* One slot after another, a contact once shown to the application goes on. *)
LEMMA GoesOn ==
  ASSUME NEW c \in Decoders, NEW d \in Decoders, NEW e, Goes(c, d), Goes(d, e)
  PROVE  Goes(c, e)
BY DEF Goes, SameContact

(* What the kernel and the decoder know of slot s: where its finger was last, *)
(* and whether it is there.                                                   *)
Knows(t, d, s, p) ==
  d.slots[s - MainSlot] = [at |-> t.at[s], on |-> p # None] /\ (p # None => t.at[s] = p)

InSlot(t, d) == SlotIndex(d.slot) = t.slot - MainSlot

(* Reading one slot of a frame: the decoder follows the kernel in this slot, *)
(* whatever the kernel leaves out because it has told it before, and forgets *)
(* nothing of the others.                                                    *)
LEMMA SlotIsRead ==
  ASSUME finger \in Fingered, NEW f \in Fingered, NEW s \in Slot, f[s] # finger[s],
         NEW t \in Reports, NEW d \in Decoders,
         NEW u, u = Told(f, t, s), NEW e, e = FedReport(d, Report(f, t, s))
  PROVE  /\ u \in Reports /\ u.slot = s
         /\ u.at = IF f[s] = None THEN t.at ELSE [t.at EXCEPT ![s] = f[s]]
         /\ Goes(d, e)
         /\ InSlot(t, d) /\ Knows(t, d, s, finger[s]) =>
              /\ InSlot(u, e) /\ Knows(u, e, s, f[s])
              /\ \A i \in Index : i # s - MainSlot => e.slots[i] = d.slots[i]
         /\ f[s] # None /\ finger[s] = None => e.tracked # None
<1> DEFINE r == Report(f, t, s)
           d1 == Fed(d, "slot", r.slot)
           d2 == Fed(d1, "id", r.id)
<1>1. /\ r.slot = IF t.slot = s THEN None ELSE s
      /\ r.id = IF (f[s] = None) = (finger[s] = None) THEN None ELSE IF f[s] = None THEN -1 ELSE s
      /\ r.pos = IF f[s] \in {None, t.at[s]} THEN None ELSE f[s]
  BY DEF Report
<1>2. e = Fed(d2, "pos", r.pos)
  BY DEF FedReport
<1>3. /\ s # None /\ s \in Nat /\ -1 # None /\ None \notin Place
      /\ f[s] \in Place \union {None} /\ finger[s] \in Place \union {None}
      /\ t.slot \in Slot /\ t.at \in [Slot -> Spot] /\ Place \subseteq Spot
  <2>1. s # None /\ s \in Nat /\ -1 # None /\ None \notin Place
    <3>1. s # None /\ s \in Nat
      BY SlotsHaveIndices
    <3>2. -1 # None
      BY -1 \in Int, TouchAssumption
    <3>3. None \notin Place
      <4>1. \A p \in Place : p \in Int
        BY TouchAssumption
      <4> QED
        BY <4>1, TouchAssumption
    <3> QED
      BY <3>1, <3>2, <3>3
  <2>2. f[s] \in Place \union {None} /\ finger[s] \in Place \union {None}
    BY DEF Fingered
  <2>3. t.slot \in Slot /\ t.at \in [Slot -> Spot] /\ Place \subseteq Spot
    BY DEF Reports, Spot
  <2> QED
    BY <2>1, <2>2, <2>3
<1> HIDE DEF r
<1>4. /\ d1 \in Decoders /\ d1.slots = d.slots /\ SameContact(d, d1)
      /\ d1.slot = IF t.slot = s THEN d.slot ELSE s
  <2>1. CASE t.slot = s
    <3>1. d1 = d
      BY <1>1, <2>1 DEF Fed
    <3> QED
      BY <2>1, <3>1 DEF SameContact
  <2>2. CASE t.slot # s
    <3>1. d1 = FeedAbs(d, "slot", s)
      BY <1>1, <1>3, <2>2 DEF Fed
    <3> HIDE DEF d1
    <3> QED
      BY <2>2, <3>1, SlotFed
  <2> QED
    BY <2>1, <2>2
<1> HIDE DEF d1
<1> DEFINE i == SlotIndex(d1.slot)
<1>5. i \in Index /\ d1.slots[i] \in [at : Spot, on : BOOLEAN]
  BY <1>4, SlotsHaveIndices DEF Decoders
<1>6. /\ Goes(d1, d2) /\ d2.slot = d1.slot
      /\ (f[s] = None) = (finger[s] = None) => d2.slots = d1.slots
      /\ f[s] = None /\ finger[s] # None => d2.slots = [d1.slots EXCEPT ![i].on = FALSE]
      /\ f[s] # None /\ finger[s] = None
           => d2.slots = [d1.slots EXCEPT ![i].on = TRUE] /\ d2.tracked # None
  <2>1. CASE (f[s] = None) = (finger[s] = None)
    <3>1. d2 = d1
      BY <1>1, <2>1 DEF Fed
    <3> QED
      BY <1>4, <2>1, <3>1 DEF Goes, SameContact
  <2>2. CASE f[s] = None /\ finger[s] # None
    <3>1. d2 = FeedAbs(d1, "id", -1)
      BY <1>1, <1>3, <2>2 DEF Fed
    <3> HIDE DEF d2
    <3>2. /\ d2 \in Decoders /\ d2.slot = d1.slot /\ SameContact(d1, d2)
          /\ d2.slots = [d1.slots EXCEPT ![i].on = FALSE]
      BY <1>4, <3>1, LiftFed
    <3> QED
      BY <2>2, <3>2 DEF Goes, SameContact
  <2>3. CASE f[s] # None /\ finger[s] = None
    <3>1. d2 = FeedAbs(d1, "id", s)
      BY <1>1, <1>3, <2>3 DEF Fed
    <3> HIDE DEF d2
    <3>2. /\ d2 \in Decoders /\ d2.slot = d1.slot
          /\ d2.slots = [d1.slots EXCEPT ![i].on = TRUE]
          /\ IF d1.tracked = None THEN d2.tracked = d1.slot /\ ~ d2.emitted
             ELSE SameContact(d1, d2)
      BY <1>4, <3>1, LandFed
    <3>3. d1.slot # None
      BY <1>4, SlotsHaveIndices DEF Decoders
    <3> HIDE DEF i
    <3> QED
      BY <2>3, <3>2, <3>3 DEF Goes, SameContact
  <2> QED
    BY <2>1, <2>2, <2>3
<1> HIDE DEF d2
<1>7. d2 \in Decoders
  BY <1>6 DEF Goes
<1>8. /\ Goes(d2, e) /\ e.slot = d2.slot /\ e.tracked = d2.tracked
      /\ f[s] \in {None, t.at[s]} => e.slots = d2.slots
      /\ f[s] \notin {None, t.at[s]}
           => e.slots = [d2.slots EXCEPT ![i] = [at |-> f[s], on |-> @.on \/ @.at # 0]]
  <2>1. CASE f[s] \in {None, t.at[s]}
    <3>1. e = d2
      BY <1>1, <1>2, <2>1 DEF Fed
    <3> QED
      BY <1>7, <2>1, <3>1 DEF Goes, SameContact
  <2>2. CASE f[s] \notin {None, t.at[s]}
    <3>1. f[s] \in Place /\ e = FeedAbs(d2, "pos", f[s])
      BY <1>1, <1>2, <1>3, <2>2 DEF Fed
    <3>2. /\ e \in Decoders /\ e.slot = d2.slot /\ SameContact(d2, e)
          /\ e.slots = [d2.slots EXCEPT ![i] = [at |-> f[s], on |-> @.on \/ @.at # 0]]
      BY <1>6, <1>7, <3>1, PosFed
    <3> HIDE DEF i
    <3> QED
      BY <2>2, <3>2 DEF Goes, SameContact
  <2> QED
    BY <2>1, <2>2
<1>9. /\ u.slot = s /\ u \in Reports
      /\ u.at = IF f[s] = None THEN t.at ELSE [t.at EXCEPT ![s] = f[s]]
  <2> DEFINE at == IF f[s] = None THEN t.at ELSE [t.at EXCEPT ![s] = f[s]]
  <2>1. u = [slot |-> s, at |-> at]
    BY DEF Told
  <2>2. at \in [Slot -> Spot]
    BY <1>3
  <2> HIDE DEF at
  <2>3. u.slot = s /\ u.at = at /\ u \in Reports
    BY <2>1, <2>2 DEF Reports
  <2> QED
    BY <2>3 DEF at
<1>10. Goes(d, e)
  <2>1. Goes(d, d1)
    BY <1>4 DEF Goes, SameContact
  <2>2. Goes(d, d2)
    BY <1>4, <1>6, <1>7, <2>1, GoesOn
  <2> QED
    BY <1>7, <1>8, <2>2, GoesOn
<1>11. ASSUME InSlot(t, d), Knows(t, d, s, finger[s])
       PROVE  /\ InSlot(u, e) /\ Knows(u, e, s, f[s])
              /\ \A j \in Index : j # s - MainSlot => e.slots[j] = d.slots[j]
  <2>1. i = s - MainSlot /\ SlotIndex(e.slot) = s - MainSlot
    BY <1>3, <1>4, <1>6, <1>8, <1>11, SlotsHaveIndices DEF InSlot
  <2>2. InSlot(u, e)
    BY <1>9, <2>1 DEF InSlot
  <2>3. /\ d1.slots[i] = [at |-> t.at[s], on |-> finger[s] # None]
        /\ finger[s] # None => t.at[s] = finger[s]
    BY <1>4, <1>11, <2>1 DEF Knows
  <2>4. d1.slots \in [Index -> [at : Spot, on : BOOLEAN]]
    BY <1>4 DEF Decoders
  <2>5. i \in Index /\ t.at[s] \in Spot
    BY <1>3, <1>5
  <2>6. u.at[s] = IF f[s] = None THEN t.at[s] ELSE f[s]
    BY <1>3, <1>9
  <2> HIDE DEF i
  <2>7. /\ d2.slots[i] = [at |-> t.at[s], on |-> f[s] # None]
        /\ \A j \in Index : j # i => d2.slots[j] = d1.slots[j]
        /\ d2.slots \in [Index -> [at : Spot, on : BOOLEAN]]
    <3>1. CASE (f[s] = None) = (finger[s] = None)
      BY <1>6, <2>3, <2>4, <2>5, <3>1
    <3>2. CASE f[s] = None /\ finger[s] # None
      BY <1>6, <1>7, <2>3, <2>4, <2>5, <3>2 DEF Decoders, i
    <3>3. CASE f[s] # None /\ finger[s] = None
      BY <1>6, <1>7, <2>3, <2>4, <2>5, <3>3 DEF Decoders, i
    <3> QED
      BY <3>1, <3>2, <3>3
  <2>8. /\ e.slots[i] = [at |-> u.at[s], on |-> f[s] # None]
        /\ \A j \in Index : j # i => e.slots[j] = d2.slots[j]
    <3>1. CASE f[s] \in {None, t.at[s]}
      BY <1>8, <2>6, <2>7, <3>1
    <3>2. CASE f[s] \notin {None, t.at[s]}
      BY <1>8, <2>5, <2>6, <2>7, <3>2 DEF i
    <3> QED
      BY <3>1, <3>2
  <2>9. f[s] # None => u.at[s] = f[s]
    BY <2>6
  <2>10. Knows(u, e, s, f[s])
    BY <2>1, <2>8, <2>9 DEF Knows
  <2>11. \A j \in Index : j # s - MainSlot => e.slots[j] = d.slots[j]
    BY <1>4, <2>1, <2>7, <2>8
  <2> QED
    BY <2>2, <2>10, <2>11
<1>12. f[s] # None /\ finger[s] = None => e.tracked # None
  BY <1>6, <1>8
<1> QED
  BY <1>9, <1>10, <1>11, <1>12

(* A frame as a function of the slots it has been read up to.              *)
Scan(f, g) ==
  g = [n \in 0 .. Contacts |->
         IF n = 0 THEN [told |-> told, dec |-> dec]
         ELSE ReadSlot(f, MainSlot + n - 1, g[n - 1])]

ScanTo(f, m, g) ==
  g = [n \in 0 .. m |->
         IF n = 0 THEN [told |-> told, dec |-> dec]
         ELSE ReadSlot(f, MainSlot + n - 1, g[n - 1])]

(* A frame is read slot by slot: the function that Frame chooses is the one *)
(* that the equations of Scan define (there is no first slot where two such *)
(* functions differ).                                                       *)
LEMMA FrameIsScanned ==
  ASSUME NEW f
  PROVE  \E g : Scan(f, g) /\ Frame(f) = g[Contacts]
<1> DEFINE Bad == {m \in Nat : \A g : ~ ScanTo(f, m, g)}
<1>1. Bad = {}
  <2> SUFFICES ASSUME Bad # {} PROVE FALSE
    OBVIOUS
  <2>1. PICK m \in Bad : \A k \in Bad : m <= k
    BY LeastNumber
  <2>2. CASE m = 0
    <3> DEFINE b == [told |-> told, dec |-> dec]
               g == [n \in 0 .. 0 |-> b]
    <3>1. ScanTo(f, 0, g)
      BY DEF ScanTo
    <3> QED
      BY <2>2, <3>1
  <2>3. CASE m # 0
    <3>1. m \in Nat /\ m - 1 \in Nat /\ m - 1 \notin Bad
      BY <2>1, <2>3
    <3>2. PICK g : ScanTo(f, m - 1, g)
      BY <3>1
    <3> DEFINE h == [n \in 0 .. m |->
                       IF n = m THEN ReadSlot(f, MainSlot + n - 1, g[n - 1]) ELSE g[n]]
    <3>3. ASSUME NEW n \in 0 .. m
          PROVE  h[n] = IF n = 0 THEN [told |-> told, dec |-> dec]
                        ELSE ReadSlot(f, MainSlot + n - 1, h[n - 1])
      <4>1. CASE n = m
        BY <2>3, <3>1, <4>1
      <4>2. CASE n # m
        <5>1. n \in 0 .. m - 1 /\ (n # 0 => n - 1 \in 0 .. m - 1 /\ n - 1 # m)
          BY <3>1, <4>2
        <5>2. g[n] = IF n = 0 THEN [told |-> told, dec |-> dec]
                     ELSE ReadSlot(f, MainSlot + n - 1, g[n - 1])
          BY <3>2, <5>1 DEF ScanTo
        <5> QED
          BY <3>1, <4>2, <5>1, <5>2
      <4> QED
        BY <4>1, <4>2
    <3>4. h = [n \in 0 .. m |-> h[n]]
      OBVIOUS
    <3> HIDE DEF h
    <3>5. ScanTo(f, m, h)
      BY <3>3, <3>4 DEF ScanTo
    <3> QED
      BY <2>1, <3>5
  <2> QED
    BY <2>2, <2>3
<1>2. PICK g : ScanTo(f, Contacts, g)
  BY <1>1, TouchAssumption
<1>3. Scan(f, g)
  BY <1>2 DEF Scan, ScanTo
<1> DEFINE c == CHOOSE x : Scan(f, x)
<1>4. Scan(f, c)
  BY <1>3
<1>5. Frame(f) = c[Contacts]
  BY DEF Frame, Scan
<1> QED
  BY <1>4, <1>5

(* The fingers as far as a frame has been read: those of the new frame up to *)
(* n slots, behind them the old ones.                                        *)
Mixed(f, n) == [s \in Slot |-> IF s < MainSlot + n THEN f[s] ELSE finger[s]]

(* What the kernel has told of fingers g, given what it had told before.      *)
Where(g, s) == IF g[s] = None THEN told.at[s] ELSE g[s]

(* The decoder and the kernel agree on the fingers g.                         *)
Agree(g, t, d) ==
  /\ InSlot(t, d)
  /\ \A s \in Slot : t.at[s] = Where(g, s)
                     /\ d.slots[s - MainSlot] = [at |-> t.at[s], on |-> g[s] # None]
  /\ d.tracked = None => \A s \in Slot : g[s] = None

(* Reading a whole frame: a decoder that agreed with the kernel agrees again. *)
LEMMA FrameRead ==
  ASSUME finger \in Fingered, told \in Reports, dec \in Decoders, NEW f \in Fingered
  PROVE  /\ Frame(f).told \in Reports /\ Goes(dec, Frame(f).dec)
         /\ Agree(finger, told, dec) => Agree(f, Frame(f).told, Frame(f).dec)
<1>1. PICK g : Scan(f, g) /\ Frame(f) = g[Contacts]
  BY FrameIsScanned
<1> DEFINE Good(n) == /\ g[n].told \in Reports /\ Goes(dec, g[n].dec)
                      /\ Agree(finger, told, dec) => Agree(Mixed(f, n), g[n].told, g[n].dec)
           Bad == {n \in 0 .. Contacts : ~ Good(n)}
<1>2. g[0] = [told |-> told, dec |-> dec]
  BY <1>1, TouchAssumption DEF Scan
<1>3. Good(0)
  <2>1. Mixed(f, 0) = finger
    <3>1. \A s \in Slot : ~ (s < MainSlot + 0)
      BY TouchAssumption DEF Slot
    <3> QED
      BY <3>1 DEF Mixed, Fingered
  <2>2. g[0].told = told /\ g[0].dec = dec
    BY <1>2
  <2> QED
    BY <2>1, <2>2 DEF Goes, SameContact
<1>4. ASSUME NEW n \in 1 .. Contacts, Good(n - 1)
      PROVE  Good(n)
  <2> DEFINE s == MainSlot + n - 1
             t == g[n - 1].told
             d == g[n - 1].dec
             u == g[n].told
             e == g[n].dec
             old == Mixed(f, n - 1)
             new == Mixed(f, n)
  <2>1. g[n] = ReadSlot(f, s, g[n - 1])
    BY <1>1, <1>4, TouchAssumption DEF Scan
  <2>2. f[s] # finger[s] => u = Told(f, t, s) /\ e = FedReport(d, Report(f, t, s))
    BY <2>1 DEF ReadSlot
  <2>3. s \in Slot /\ s - MainSlot \in Index
    BY TouchAssumption DEF Slot, Index
  <2>4. /\ old[s] = finger[s] /\ new[s] = f[s]
        /\ \A x \in Slot : x # s => new[x] = old[x]
    <3>1. \A x \in Slot : x # s => (x < MainSlot + n <=> x < MainSlot + (n - 1))
      BY TouchAssumption DEF Slot
    <3>2. ~ (s < MainSlot + (n - 1)) /\ s < MainSlot + n
      BY TouchAssumption
    <3> QED
      BY <2>3, <3>1, <3>2 DEF Mixed
  <2>5. t \in Reports /\ Goes(dec, d) /\ d \in Decoders
    BY <1>4 DEF Goes
  <2>6. CASE f[s] = finger[s]
    <3>1. u = t /\ e = d
      BY <2>1, <2>6 DEF ReadSlot
    <3>2. new = old
      <4>1. \A x \in Slot : new[x] = old[x]
        BY <2>4, <2>6
      <4> QED
        BY <4>1 DEF Mixed
    <3> HIDE DEF u, e, t, d, new, old
    <3> QED
      BY <1>4, <3>1, <3>2 DEF u, e, t, d, new, old
  <2>7. CASE f[s] # finger[s]
    <3> HIDE DEF u, e, t, d, s
    <3>1. /\ u \in Reports /\ u.slot = s
          /\ u.at = IF f[s] = None THEN t.at ELSE [t.at EXCEPT ![s] = f[s]]
          /\ Goes(d, e)
          /\ InSlot(t, d) /\ Knows(t, d, s, finger[s]) =>
               /\ InSlot(u, e) /\ Knows(u, e, s, f[s])
               /\ \A i \in Index : i # s - MainSlot => e.slots[i] = d.slots[i]
          /\ f[s] # None /\ finger[s] = None => e.tracked # None
      BY <2>2, <2>3, <2>5, <2>7, SlotIsRead
    <3>2. Goes(dec, e)
      BY <2>5, <3>1, GoesOn
    <3>3. ASSUME Agree(finger, told, dec) PROVE Agree(new, u, e)
      <4> HIDE DEF new, old
      <4>1. Agree(old, t, d)
        BY <1>4, <3>3 DEF t, d, old
      <4>2. /\ t.at[s] = told.at[s]
            /\ d.slots[s - MainSlot] = [at |-> t.at[s], on |-> finger[s] # None]
            /\ finger[s] # None => t.at[s] = finger[s]
        BY <2>3, <2>4, <3>3, <4>1 DEF Agree, Where
      <4>3. InSlot(t, d) /\ Knows(t, d, s, finger[s])
        BY <4>1, <4>2 DEF Agree, Knows
      <4>4. /\ InSlot(u, e) /\ Knows(u, e, s, f[s])
            /\ \A i \in Index : i # s - MainSlot => e.slots[i] = d.slots[i]
        BY <3>1, <4>3
      <4>5. /\ t.at \in [Slot -> Spot] /\ u.at[s] = Where(f, s)
            /\ \A x \in Slot : x # s => u.at[x] = t.at[x]
        BY <2>3, <2>5, <3>1, <4>2 DEF Reports, Where
      <4>6. ASSUME NEW x \in Slot
            PROVE  /\ u.at[x] = Where(new, x)
                   /\ e.slots[x - MainSlot] = [at |-> u.at[x], on |-> new[x] # None]
        <5>1. CASE x = s
          <6>1. e.slots[s - MainSlot] = [at |-> u.at[s], on |-> f[s] # None]
            BY <4>4 DEF Knows
          <6>2. u.at[s] = Where(new, s)
            BY <2>4, <4>5 DEF Where
          <6>3. e.slots[s - MainSlot] = [at |-> u.at[s], on |-> new[s] # None]
            BY <2>4, <6>1, Zenon
          <6> QED
            BY <5>1, <6>2, <6>3
        <5>2. CASE x # s
          <6>1. x \in Int /\ s \in Int /\ MainSlot \in Int
            BY <2>3, SlotsHaveIndices, TouchAssumption
          <6> HIDE DEF s
          <6>2. x - MainSlot \in Index /\ x - MainSlot # s - MainSlot
            BY <5>2, <6>1, SlotsHaveIndices
          <6> QED
            BY <2>4, <4>1, <4>4, <4>5, <5>2, <6>2 DEF Agree, Where
        <5> QED
          BY <5>1, <5>2
      <4>7. ASSUME e.tracked = None PROVE \A x \in Slot : new[x] = None
        <5>1. d.tracked = None
          BY <3>1, <4>7 DEF Goes, SameContact
        <5>2. \A x \in Slot : old[x] = None
          BY <4>1, <5>1 DEF Agree
        <5>a. finger[s] = None
          BY <2>3, <2>4, <5>2
        <5>3. f[s] = None
          BY <3>1, <4>7, <5>a
        <5> QED
          BY <2>4, <5>2, <5>3
      <4> QED
        BY <4>4, <4>6, <4>7 DEF Agree
    <3> QED
      BY <3>1, <3>2, <3>3 DEF u, e
  <2> QED
    BY <2>6, <2>7
<1>5. Bad = {}
  <2> SUFFICES ASSUME Bad # {} PROVE FALSE
    OBVIOUS
  <2>1. Bad \subseteq Nat
    OBVIOUS
  <2>2. PICK n \in Bad : \A k \in Bad : n <= k
    BY <2>1, LeastNumber
  <2> HIDE DEF Good
  <2>3. n # 0
    BY <1>3
  <2>4. n \in 1 .. Contacts /\ n - 1 \in 0 .. Contacts /\ n - 1 \notin Bad
    BY <2>2, <2>3, TouchAssumption
  <2> QED
    BY <1>4, <2>2, <2>4
<1>6. Good(Contacts)
  <2> HIDE DEF Good
  <2> QED
    BY <1>5, TouchAssumption
<1>7. Mixed(f, Contacts) = f
  <2>1. \A s \in Slot : s < MainSlot + Contacts
    BY TouchAssumption DEF Slot
  <2> QED
    BY <2>1 DEF Mixed, Fingered
<1> QED
  BY <1>1, <1>6, <1>7

---------------------------------------------------------------------------
(* The operations on App, again: they have a type, and none but those of a *)
(* press changes one.                                                      *)

App == [overlay : Overlay, tab : Tab, scroll : 0 .. MaxScroll, kb : BOOLEAN,
        press : {None} \union [at : Spot, held : BOOLEAN], seen : BOOLEAN,
        total : -MaxTravel .. MaxTravel, last : Spot \union {None}, plong : BOOLEAN,
        dirty : BOOLEAN, acts : 0 .. 3, eaten : BOOLEAN, open : BOOLEAN, launched : BOOLEAN]

(* What a handler of the page leaves alone: the press and its travel.      *)
SamePress(a, b) ==
  /\ b.press = a.press /\ b.seen = a.seen /\ b.total = a.total /\ b.last = a.last
  /\ b.eaten = a.eaten /\ b.open = a.open

Same(a, b) == SamePress(a, b) /\ b.acts = a.acts /\ b.launched = a.launched

(* The operations on the page leave the press alone. *)
LEMMA PageOps ==
  ASSUME NEW a \in App, NEW o \in Overlay, NEW t \in Tab, NEW x \in BOOLEAN, NEW n \in 0 .. MaxScroll
  PROVE  /\ SetOverlay(a, o) \in App /\ Same(a, SetOverlay(a, o))
         /\ Refresh(a) \in App /\ Same(a, Refresh(a))
         /\ [a EXCEPT !.kb = x] \in App /\ Same(a, [a EXCEPT !.kb = x])
         /\ [a EXCEPT !.plong = x] \in App /\ Same(a, [a EXCEPT !.plong = x])
         /\ [a EXCEPT !.tab = t] \in App /\ Same(a, [a EXCEPT !.tab = t])
         /\ [a EXCEPT !.scroll = n] \in App /\ Same(a, [a EXCEPT !.scroll = n])
<1>1. SetOverlay(a, o) \in App /\ Same(a, SetOverlay(a, o))
  <2> DEFINE z == a.dirty \/ o # a.overlay
  <2>1. z \in BOOLEAN
    OBVIOUS
  <2>2. SetOverlay(a, o) = [a EXCEPT !.overlay = o, !.dirty = z]
    BY DEF SetOverlay
  <2> HIDE DEF z
  <2> QED
    BY <2>1, <2>2 DEF App, Same, SamePress
<1>2. Refresh(a) \in App /\ Same(a, Refresh(a))
  BY DEF Refresh, App, Same, SamePress
<1>3. [a EXCEPT !.kb = x] \in App /\ Same(a, [a EXCEPT !.kb = x])
  BY DEF App, Same, SamePress
<1>4. [a EXCEPT !.plong = x] \in App /\ Same(a, [a EXCEPT !.plong = x])
  BY DEF App, Same, SamePress
<1>5. [a EXCEPT !.tab = t] \in App /\ Same(a, [a EXCEPT !.tab = t])
  BY DEF App, Same, SamePress
<1>6. [a EXCEPT !.scroll = n] \in App /\ Same(a, [a EXCEPT !.scroll = n])
  BY DEF App, Same, SamePress
<1> QED
  BY <1>1, <1>2, <1>3, <1>4, <1>5, <1>6

(* The operations on the press, field by field. *)
LEMMA PressOps ==
  ASSUME NEW a \in App
  PROVE  /\ NoPress(a) \in App /\ NoPress(a).press = None /\ NoPress(a).total = 0
         /\ NoPress(a).last = None /\ NoPress(a).seen = a.seen /\ NoPress(a).eaten = a.eaten
         /\ NoPress(a).open = a.open /\ NoPress(a).acts = a.acts /\ NoPress(a).launched = a.launched
         /\ Held(a) \in App /\ Held(a).acts = 0 /\ SamePress(a, Held(a))
         /\ Held(a).launched = a.launched
         /\ Contact(a) \in App /\ Contact(a).open = FALSE /\ Contact(a).eaten = FALSE
         /\ Contact(a).acts = (IF a.open THEN a.acts ELSE 0) /\ Contact(a).seen = a.seen
         /\ Contact(a).launched = a.launched
         /\ Acted(a) \in App /\ SamePress(a, Acted(a)) /\ Acted(a).launched = a.launched
         /\ a.acts = 0 => Acted(a).acts = 1
<1>0. 0 \in -MaxTravel .. MaxTravel /\ 0 \in 0 .. 3
  BY PressAssumption
<1>1. /\ NoPress(a) \in App /\ NoPress(a).press = None /\ NoPress(a).total = 0
      /\ NoPress(a).last = None /\ NoPress(a).seen = a.seen /\ NoPress(a).eaten = a.eaten
      /\ NoPress(a).open = a.open /\ NoPress(a).acts = a.acts /\ NoPress(a).launched = a.launched
  BY <1>0 DEF NoPress, App
<1>2. Held(a) \in App /\ Held(a).acts = 0 /\ SamePress(a, Held(a)) /\ Held(a).launched = a.launched
  BY <1>0 DEF Held, App, SamePress
<1>3. /\ Contact(a) \in App /\ Contact(a).open = FALSE /\ Contact(a).eaten = FALSE
      /\ Contact(a).acts = (IF a.open THEN a.acts ELSE 0) /\ Contact(a).seen = a.seen
      /\ Contact(a).launched = a.launched
  <2> DEFINE c == IF a.open THEN a ELSE [a EXCEPT !.acts = 0]
  <2>1. /\ c \in App /\ c.acts = (IF a.open THEN a.acts ELSE 0) /\ c.seen = a.seen
        /\ c.launched = a.launched
    BY <1>0 DEF App
  <2>2. Contact(a) = [c EXCEPT !.open = FALSE, !.eaten = FALSE]
    BY DEF Contact
  <2> HIDE DEF c
  <2> QED
    BY <2>1, <2>2 DEF App
<1>4. /\ Acted(a) \in App /\ SamePress(a, Acted(a)) /\ Acted(a).launched = a.launched
      /\ a.acts = 0 => Acted(a).acts = 1
  <2> DEFINE n == Clamp(a.acts + 1, 3)
  <2>1. n \in 0 .. 3 /\ (a.acts = 0 => n = 1)
    BY DEF Clamp, App
  <2>2. Acted(a) = [a EXCEPT !.acts = n]
    BY DEF Acted
  <2> HIDE DEF n
  <2> QED
    BY <2>1, <2>2 DEF App, SamePress
<1> QED
  BY <1>1, <1>2, <1>3, <1>4

(* One act at most, and a launch only by a tap on a cell.                  *)
Does(a, b) ==
  b \in App /\ SamePress(a, b) /\ (a.acts = 0 => b.acts <= 1) /\ b.launched = a.launched

(* An action counts once, and only a tap on a cell launches. *)
LEMMA ApplyActs ==
  ASSUME NEW a \in App, NEW w, w.kind \in Widget, NEW drag \in BOOLEAN,
         NEW b, b = Apply(a, w, drag)
  PROVE  /\ b \in App /\ SamePress(a, b) /\ (a.acts = 0 => b.acts <= 1)
         /\ b.launched => a.launched \/ (w.kind = "cell" /\ ~ drag)
<1> DEFINE yes == TRUE
           no == FALSE
           none == "None"
           more == "More"
           ctx == "Context"
           lib == "Library"
           search == "Search"
           launcher == "Launcher"
           top == 0
<1>0. /\ yes \in BOOLEAN /\ no \in BOOLEAN /\ none \in Overlay /\ more \in Overlay /\ ctx \in Overlay
      /\ lib \in Tab /\ search \in Tab /\ launcher \in Overlay /\ top \in 0 .. MaxScroll
  BY PressAssumption DEF Overlay, Tab
<1>a. ASSUME NEW c \in App, Same(a, c)
      PROVE  Does(a, c) /\ Does(a, Acted(c))
  <2> DEFINE d == Acted(c)
  <2>1. /\ d \in App /\ SamePress(c, d) /\ d.launched = c.launched
        /\ c.acts = 0 => d.acts = 1
    BY PressOps
  <2> HIDE DEF d
  <2>2. Does(a, d)
    BY <1>a, <2>1 DEF Does, Same, SamePress
  <2>3. Does(a, c)
    BY <1>a DEF Does, Same
  <2> QED
    BY <2>2, <2>3 DEF d
<1>b. ASSUME NEW c \in App, NEW d, d \in App, Same(a, c), Same(c, d)
      PROVE  Same(a, d)
  BY <1>b DEF Same, SamePress
<1>c. ASSUME Does(a, b)
      PROVE  /\ b \in App /\ SamePress(a, b) /\ (a.acts = 0 => b.acts <= 1)
             /\ b.launched => a.launched \/ (w.kind = "cell" /\ ~ drag)
  BY <1>c DEF Does
<1>d. Same(a, a) /\ Does(a, a)
  <2>1. Same(a, a)
    BY DEF Same, SamePress
  <2> QED
    BY <1>a, <2>1
<1>e. ASSUME NEW c \in App, NEW o \in Overlay
      PROVE  SetOverlay(c, o) \in App /\ Same(c, SetOverlay(c, o))
  BY <1>0, PageOps
<1>f. ASSUME NEW c \in App
      PROVE  Refresh(c) \in App /\ Same(c, Refresh(c))
  BY <1>0, PageOps
<1>g. ASSUME NEW c \in App, NEW x \in BOOLEAN
      PROVE  /\ [c EXCEPT !.kb = x] \in App /\ Same(c, [c EXCEPT !.kb = x])
             /\ [c EXCEPT !.plong = x] \in App /\ Same(c, [c EXCEPT !.plong = x])
  BY <1>0, PageOps
<1>h. ASSUME NEW c \in App, NEW t \in Tab
      PROVE  [c EXCEPT !.tab = t] \in App /\ Same(c, [c EXCEPT !.tab = t])
  BY <1>0, PageOps
<1>i. ASSUME NEW c \in App, NEW n \in 0 .. MaxScroll
      PROVE  [c EXCEPT !.scroll = n] \in App /\ Same(c, [c EXCEPT !.scroll = n])
  BY <1>0, PageOps
<1>j. DismissKb(a) \in App /\ Same(a, DismissKb(a))
  <2>1. DismissKb(a) = Refresh([a EXCEPT !.kb = no])
    BY DEF DismissKb
  <2> HIDE DEF no
  <2> QED
    BY <1>0, <1>b, <1>f, <1>g, <2>1
<1>k. LeaveSearch(a) \in App /\ Same(a, LeaveSearch(a))
  <2> DEFINE c == [a EXCEPT !.kb = no]
             d == [c EXCEPT !.tab = lib]
  <2>1. LeaveSearch(a) = Refresh([a EXCEPT !.kb = no, !.tab = lib])
    BY DEF LeaveSearch
  <2>2. [a EXCEPT !.kb = no, !.tab = lib] = d
    OBVIOUS
  <2>3. LeaveSearch(a) = Refresh(d)
    BY <2>1, <2>2, Zenon
  <2> HIDE DEF no, lib
  <2>4. c \in App /\ Same(a, c)
    BY <1>0, <1>g
  <2> HIDE DEF c
  <2>5. d \in App /\ Same(c, d)
    BY <1>0, <1>h, <2>4
  <2> HIDE DEF d
  <2>6. Refresh(d) \in App /\ Same(d, Refresh(d))
    BY <1>f, <2>5
  <2>7. Same(a, d)
    BY <1>b, <2>4, <2>5
  <2> QED
    BY <1>b, <2>3, <2>5, <2>6, <2>7
<1>1. ASSUME w.kind = "none" PROVE Does(a, b)
  BY <1>1, <1>d DEF Apply
<1>2. ASSUME w.kind = "tile" PROVE Does(a, b)
  <2>1. CASE a.plong
    <3> DEFINE c == [a EXCEPT !.plong = no]
    <3>1. b = Acted(SetOverlay(c, ctx))
      BY <1>2, <2>1 DEF Apply
    <3> HIDE DEF no, ctx
    <3>2. c \in App /\ Same(a, c)
      BY <1>0, <1>g
    <3> HIDE DEF c
    <3>3. SetOverlay(c, ctx) \in App /\ Same(c, SetOverlay(c, ctx))
      BY <1>0, <1>e, <3>2
    <3> QED
      BY <1>a, <1>b, <3>1, <3>2, <3>3
  <2>2. CASE ~ a.plong
    <3>1. b = Acted(a)
      BY <1>2, <2>2 DEF Apply
    <3> QED
      BY <1>a, <1>d, <3>1
  <2> QED
    BY <2>1, <2>2
<1>3. ASSUME w.kind = "menu" PROVE Does(a, b)
  <2>1. b = Acted(SetOverlay(a, more))
    BY <1>3 DEF Apply
  <2> HIDE DEF more
  <2> QED
    BY <1>0, <1>a, <1>e, <2>1
<1>4. ASSUME w.kind = "search" PROVE Does(a, b)
  <2> DEFINE c == [a EXCEPT !.tab = search]
  <2>1. b = Acted(Refresh(c))
    BY <1>4 DEF Apply
  <2> HIDE DEF search
  <2>2. c \in App /\ Same(a, c)
    BY <1>0, <1>h
  <2> HIDE DEF c
  <2> QED
    BY <1>a, <1>b, <1>f, <2>1, <2>2
<1>5. ASSUME w.kind = "home" PROVE Does(a, b)
  <2>1. b = Acted(LeaveSearch(a)) \/ b = Acted(a)
    BY <1>5 DEF Apply
  <2> QED
    BY <1>a, <1>d, <1>k, <2>1
<1>6. ASSUME w.kind = "input" PROVE Does(a, b)
  <2>1. CASE a.kb
    <3>1. b = Acted(DismissKb(a))
      BY <1>6, <2>1 DEF Apply
    <3> QED
      BY <1>a, <1>j, <3>1
  <2>2. CASE ~ a.kb
    <3> DEFINE c == [a EXCEPT !.kb = yes]
    <3>1. b = Acted(Refresh(c))
      BY <1>6, <2>2 DEF Apply
    <3> HIDE DEF yes
    <3>2. c \in App /\ Same(a, c)
      BY <1>0, <1>g
    <3> HIDE DEF c
    <3> QED
      BY <1>a, <1>b, <1>f, <3>1, <3>2
  <2> QED
    BY <2>1, <2>2
<1>7. ASSUME w.kind = "beside" PROVE Does(a, b)
  <2>1. b = Acted(DismissKb(a)) \/ b = a
    BY <1>7 DEF Apply
  <2> QED
    BY <1>a, <1>d, <1>j, <2>1
<1>8. ASSUME w.kind = "apps" PROVE Does(a, b)
  <2> DEFINE c == SetOverlay(a, launcher)
             d == [c EXCEPT !.scroll = top]
  <2>1. b = Acted(d)
    BY <1>8 DEF Apply
  <2> HIDE DEF launcher, top
  <2>2. c \in App /\ Same(a, c)
    BY <1>0, <1>e
  <2> HIDE DEF c
  <2>3. d \in App /\ Same(c, d)
    BY <1>0, <1>i, <2>2
  <2> HIDE DEF d
  <2> QED
    BY <1>a, <1>b, <2>1, <2>2, <2>3
<1>9. ASSUME w.kind \in {"outside", "row"} PROVE Does(a, b)
  <2> DEFINE c == SetOverlay(a, none)
  <2>1. b = Acted(Refresh(c))
    BY <1>9 DEF Apply
  <2> HIDE DEF none
  <2>2. c \in App /\ Same(a, c)
    BY <1>0, <1>e
  <2> HIDE DEF c
  <2> QED
    BY <1>a, <1>b, <1>f, <2>1, <2>2
<1>10. ASSUME w.kind = "cell"
       PROVE  /\ b \in App /\ SamePress(a, b) /\ (a.acts = 0 => b.acts <= 1)
              /\ b.launched => a.launched \/ (w.kind = "cell" /\ ~ drag)
  <2>1. b = LauncherCell(a, drag)
    BY <1>10 DEF Apply
  <2>2. CASE drag
    <3>1. b = a
      BY <2>1, <2>2 DEF LauncherCell
    <3> QED
      BY <1>c, <1>d, <3>1
  <2>3. CASE ~ drag
    <3> DEFINE c == [a EXCEPT !.overlay = none, !.launched = yes]
    <3>1. b = Acted(c)
      BY <2>1, <2>3 DEF LauncherCell
    <3> HIDE DEF none, yes
    <3>2. c \in App /\ SamePress(a, c) /\ c.acts = a.acts
      BY <1>0 DEF App, SamePress
    <3> HIDE DEF c
    <3>3. Acted(c) \in App /\ SamePress(c, Acted(c)) /\ (c.acts = 0 => Acted(c).acts = 1)
      BY <3>2, PressOps
    <3>4. b \in App /\ SamePress(c, b) /\ (c.acts = 0 => b.acts = 1)
      BY <3>1, <3>3, Zenon
    <3>5. SamePress(a, b)
      BY <3>2, <3>4 DEF SamePress
    <3> QED
      BY <1>10, <2>3, <3>2, <3>4, <3>5
  <2> QED
    BY <2>2, <2>3
<1>11. w.kind \in {"none", "tile", "menu", "search", "home", "input", "beside", "apps", "outside",
                   "row", "cell"}
  BY DEF Widget
<1> QED
  BY <1>1, <1>2, <1>3, <1>4, <1>5, <1>6, <1>7, <1>8, <1>9, <1>10, <1>11, <1>c

---------------------------------------------------------------------------
(* The handlers: what an event does to a press.                            *)

Gestures == {"down", "move", "up", "long"}
Fw == [long : BOOLEAN, still : BOOLEAN, kbd : BOOLEAN]

(* A press is what its widget is grabbed for, and a contact acts once: before *)
(* its end not at all, unless it was reported held.                          *)
PressOK ==
  /\ app \in App
  /\ app.press = None => grab = NoWidget /\ app.total = 0
  /\ app.seen => app.press = None
  /\ app.open /\ ~ app.seen => app.acts = 0
  /\ app.acts <= 1

SameTravel(a, b) == b.press = a.press /\ b.total = a.total /\ b.last = a.last

(* What handling an event does to the press.                               *)
Effect(e) ==
  /\ PressOK'
  /\ fw' \in Fw /\ fw'.long = fw.long /\ fw'.still = fw.still
  /\ IF pending # None
     THEN app'.eaten /\ SameTravel(app, app') /\ app'.launched = app.launched
     ELSE /\ e.kind # "up" => app'.eaten = app.eaten
          /\ e.kind = "down" => /\ app'.press = [at |-> e.at, held |-> FALSE]
                                /\ app'.last = e.at /\ app'.total = app.total
          /\ e.kind = "move" =>
               /\ app'.press = app.press /\ app'.last = e.at
               /\ app'.total = IF app.last # None /\ app.press # None
                               THEN Bounded(app.total + (Row(app.last) - Row(e.at)))
                               ELSE app.total
          /\ e.kind = "up" =>
               /\ ~ app'.eaten /\ app'.press = None
               /\ app'.launched => app.launched \/ (app.press # None /\ Abs(app.total) < 2)
          /\ e.kind = "long" => app'.press = None

(* The bound on the travel of a press is none within the panel. *)
LEMMA BoundKeeps ==
  ASSUME NEW n \in Int
  PROVE  Bounded(n) \in -MaxTravel .. MaxTravel /\ (n \in -MaxTravel .. MaxTravel => Bounded(n) = n)
BY PressAssumption DEF Bounded, Clamp

(* Places are numbers, and None is not one of them. *)
LEMMA SpotsAreNumbers ==
  (\A p \in Spot : p \in Nat /\ p \in Int) /\ None \notin Spot /\ NoWidget.kind = "none"
<1>1. \A p \in Spot : p \in Nat /\ p \in Int
  BY TouchAssumption DEF Spot
<1> QED
  BY <1>1, TouchAssumption DEF NoWidget

(* Rows are numbers within the travel that is kept. *)
LEMMA RowsAreNumbers ==
  \A p \in Spot : Row(p) \in 0 .. MaxTravel /\ Row(p) \in Int
BY PressAssumption

(* Opening and closing the keyboard leaves the gesture of the firmware alone. *)
LEMMA KeyboardKeeps ==
  ASSUME NEW a, fw \in Fw, Keyboard(a), app.kb \in BOOLEAN, a.kb \in BOOLEAN
  PROVE  fw' \in Fw /\ fw'.long = fw.long /\ fw'.still = fw.still
<1> DEFINE k == IF a.kb # app.kb THEN a.kb /\ backend = "inkview" ELSE fw.kbd
<1>1. k \in BOOLEAN
  BY DEF Fw
<1>2. fw' = [fw EXCEPT !.kbd = k]
  BY DEF Keyboard
<1> HIDE DEF k
<1> QED
  BY <1>1, <1>2 DEF Fw

(* A Down begins a press. *)
LEMMA DownEffect ==
  ASSUME PressOK, fw \in Fw, pending = None, NEW e, e.kind = "down", e.at \in Spot, PointerDown(e.at)
  PROVE  Effect(e)
<1> DEFINE no == FALSE
           yes == TRUE
           z == 0
           x == [at |-> e.at, held |-> no]
<1>1. /\ app' = [app EXCEPT !.press = x, !.seen = no, !.last = e.at, !.acts = z, !.open = yes,
                            !.launched = no]
      /\ UNCHANGED fw
  BY DEF PointerDown
<1>2. no \in BOOLEAN /\ yes \in BOOLEAN /\ z \in 0 .. 3 /\ ~ no /\ z = 0 /\ app \in App
  BY DEF PressOK
<1>3. x = [at |-> e.at, held |-> FALSE]
  OBVIOUS
<1> HIDE DEF no, yes, z
<1>4. x \in [at : Spot, held : BOOLEAN]
  BY <1>2
<1> HIDE DEF x
<1>5. x # None
  BY <1>4, PressAssumption
<1>6. /\ app' \in App /\ app'.press = x /\ app'.last = e.at /\ app'.total = app.total
      /\ ~ app'.seen /\ app'.acts = 0 /\ app'.eaten = app.eaten
  BY <1>1, <1>2, <1>4 DEF App
<1>7. PressOK'
  BY <1>5, <1>6 DEF PressOK
<1> QED
  BY <1>1, <1>3, <1>6, <1>7 DEF Effect

(* A Move carries a press on. *)
LEMMA MoveEffect ==
  ASSUME PressOK, fw \in Fw, pending = None, NEW e, e.kind = "move", e.at \in Spot, PointerMove(e.at)
  PROVE  Effect(e)
<1> DEFINE p == e.at
           dy == Row(app.last) - Row(p)
           total == Bounded(app.total + dy)
           a == [app EXCEPT !.total = total]
           s == Clamp(a.scroll + dy, MaxScroll + 1)
           b == Scrolled(a, dy)
           c == IF app.last # None /\ app.press # None THEN b ELSE app
<1>1. app' = [c EXCEPT !.last = p] /\ UNCHANGED <<grab, fw>>
  BY DEF PointerMove
<1>2. app \in App /\ p \in Spot
  BY DEF PressOK
<1>3. ASSUME app.last # None, app.press # None
      PROVE  /\ b \in App /\ b.total = total /\ b.press = app.press /\ b.seen = app.seen
             /\ b.open = app.open /\ b.acts = app.acts /\ b.eaten = app.eaten
  <2>1. /\ app.total \in Int /\ Row(app.last) \in Int /\ Row(p) \in Int
    <3>1. app.total \in -MaxTravel .. MaxTravel /\ app.last \in Spot \union {None}
      BY <1>2 DEF App
    <3>2. app.total \in Int
      BY <3>1, PressAssumption
    <3>3. app.last \in Spot
      BY <1>3, <3>1
    <3> QED
      BY <1>2, <3>2, <3>3, RowsAreNumbers
  <2>2. app.total + dy \in Int /\ dy \in Int
    BY <2>1
  <2>3. total \in -MaxTravel .. MaxTravel
    <3> DEFINE q == app.total + dy
    <3>1. q \in Int /\ total = Bounded(q)
      BY <2>2
    <3> HIDE DEF q, total
    <3> QED
      BY <3>1, BoundKeeps
  <2> HIDE DEF total, dy
  <2>4. /\ a \in App /\ a.total = total /\ a.press = app.press /\ a.seen = app.seen
        /\ a.open = app.open /\ a.acts = app.acts /\ a.eaten = app.eaten
    BY <1>2, <2>3 DEF App
  <2> HIDE DEF a
  <2>5. s \in 0 .. MaxScroll
    BY <2>2, <2>4, PressAssumption DEF Clamp, App
  <2> HIDE DEF s
  <2>6. CASE b = a
    BY <2>4, <2>6
  <2>7. CASE b = Refresh([a EXCEPT !.scroll = s])
    <3> DEFINE d == [a EXCEPT !.scroll = s]
    <3>1. d \in App /\ Same(a, d)
      BY <2>4, <2>5 DEF App, Same, SamePress
    <3> HIDE DEF d
    <3>2. Refresh(d) \in App /\ Same(d, Refresh(d))
      BY <3>1 DEF Refresh, App, Same, SamePress
    <3>3. b = Refresh(d)
      BY <2>7 DEF d
    <3> HIDE DEF b
    <3>4. b \in App /\ Same(d, b)
      BY <3>2, <3>3
    <3> QED
      BY <2>4, <3>1, <3>4 DEF Same, SamePress
  <2>8. b = a \/ b = Refresh([a EXCEPT !.scroll = s])
    BY DEF Scrolled, s
  <2> QED
    BY <2>6, <2>7, <2>8
<1> HIDE DEF b, total, p
<1>4. /\ c \in App /\ c.press = app.press /\ c.seen = app.seen
      /\ c.open = app.open /\ c.acts = app.acts /\ c.eaten = app.eaten
      /\ c.total = IF app.last # None /\ app.press # None THEN total ELSE app.total
  BY <1>2, <1>3
<1> HIDE DEF c
<1>5. /\ app' \in App /\ app'.press = app.press /\ app'.seen = app.seen
      /\ app'.open = app.open /\ app'.acts = app.acts /\ app'.eaten = app.eaten
      /\ app'.total = c.total /\ app'.last = p
  BY <1>1, <1>2, <1>4 DEF App
<1>6. PressOK'
  BY <1>1, <1>4, <1>5 DEF PressOK
<1> QED
  BY <1>1, <1>4, <1>5, <1>6 DEF Effect, total, p

(* A release ends the press, acts once, and launches only a tap. *)
LEMMA UpEffect ==
  ASSUME ScreenInv, PressOK, fw \in Fw, pending = None, NEW e, e.kind = "up", e.at \in Spot,
         PointerUp(e.at)
  PROVE  Effect(e)
<1> DEFINE p == e.at
           k == Contact(app)
           a == NoPress(k)
           long == IsLong(app, p) /\ app.tab = "Library" /\ app.overlay = "None"
           drag == Abs(app.total) >= 2
<1>1. app \in App
  BY DEF PressOK
<1>2. /\ k \in App /\ ~ k.open /\ ~ k.eaten /\ k.acts = (IF app.open THEN app.acts ELSE 0)
      /\ k.seen = app.seen /\ k.launched = app.launched
  BY <1>1, PressOps
<1> HIDE DEF k
<1>3. /\ a \in App /\ a.press = None /\ a.total = 0 /\ a.last = None /\ a.seen = app.seen
      /\ ~ a.open /\ ~ a.eaten /\ a.launched = app.launched
      /\ a.acts = (IF app.open THEN app.acts ELSE 0)
  BY <1>2, PressOps
<1> HIDE DEF a
<1>4. CASE Trailing(app)
  <2> DEFINE no == FALSE
  <2>1. app' = [a EXCEPT !.seen = no] /\ UNCHANGED <<grab, fw>>
    BY <1>4 DEF PointerUp, a, k
  <2>2. app.seen /\ no \in BOOLEAN /\ ~ no
    BY <1>4 DEF Trailing
  <2> HIDE DEF no
  <2>3. /\ app' \in App /\ app'.press = None /\ app'.total = 0 /\ ~ app'.seen
        /\ ~ app'.open /\ ~ app'.eaten /\ app'.launched = app.launched
        /\ app'.acts = (IF app.open THEN app.acts ELSE 0)
    BY <1>3, <2>1, <2>2 DEF App
  <2>4. app'.acts <= 1
    BY <2>3 DEF PressOK
  <2>5. grab' = NoWidget
    BY <2>1, <2>2 DEF PressOK
  <2>6. PressOK'
    BY <2>3, <2>4, <2>5 DEF PressOK
  <2> QED
    BY <2>1, <2>3, <2>6 DEF Effect
<1>5. CASE ~ Trailing(app)
  <2> DEFINE m == [a EXCEPT !.plong = long]
  <2>1. PICK w \in Reported(grab, p) :
          app' = Apply(m, w, drag) /\ Keyboard(app') /\ grab' = NoWidget
    BY <1>5 DEF PointerUp, a, k
  <2>2. long \in BOOLEAN /\ drag \in BOOLEAN
    BY DEF IsLong
  <2> HIDE DEF long
  <2>3. /\ m \in App /\ Same(a, m)
    BY <1>3, <2>2 DEF App, Same, SamePress
  <2> HIDE DEF m
  <2>4. w.kind \in Widget
    BY ReportedWidget DEF ScreenInv
  <2> HIDE DEF drag
  <2>5. /\ app' \in App /\ SamePress(m, app') /\ (m.acts = 0 => app'.acts <= 1)
        /\ app'.launched => m.launched \/ (w.kind = "cell" /\ ~ drag)
    BY <2>1, <2>2, <2>3, <2>4, ApplyActs
  <2>6. /\ app'.press = None /\ app'.total = 0 /\ ~ app'.seen /\ ~ app'.open /\ ~ app'.eaten
        /\ m.acts = 0 /\ m.launched = app.launched
    BY <1>3, <1>5, <2>3, <2>5 DEF Same, SamePress, Trailing, PressOK
  <2>7. PressOK'
    BY <2>1, <2>5, <2>6 DEF PressOK
  <2>8. w.kind = "cell" => app.press # None
    <3> SUFFICES ASSUME w.kind = "cell", grab = NoWidget PROVE FALSE
      BY DEF PressOK
    <3>1. w = NoWidget \/ w.kind = "tile"
      BY DEF Reported
    <3> QED
      BY <3>1, SpotsAreNumbers
  <2>9. fw' \in Fw /\ fw'.long = fw.long /\ fw'.still = fw.still
    <3>1. app.kb \in BOOLEAN /\ app'.kb \in BOOLEAN
      BY <1>1, <2>5 DEF App
    <3> QED
      BY <2>1, <3>1, KeyboardKeeps
  <2>10. app'.launched => app.launched \/ (app.press # None /\ ~ drag)
    BY <2>5, <2>6, <2>8
  <2>11. ~ drag => Abs(app.total) < 2
    <3>1. app.total \in Int
      BY <1>1, PressAssumption DEF App
    <3> QED
      BY <3>1 DEF drag, Abs
  <2> QED
    BY <2>6, <2>7, <2>9, <2>10, <2>11 DEF Effect
<1> QED
  BY <1>4, <1>5

(* A long press acts in place of the release that follows it. *)
LEMMA LongEffect ==
  ASSUME ScreenInv, PressOK, fw \in Fw, pending = None, NEW e, e.kind = "long", e.at \in Spot,
         LongPress(e.at)
  PROVE  Effect(e)
<1> DEFINE shelf == app.tab = "Library" /\ app.overlay = "None"
           h == Held(app)
           n == NoPress(h)
           yes == TRUE
           no == FALSE
           pl == n.plong \/ shelf
           a == [n EXCEPT !.seen = yes, !.plong = pl]
<1>1. app \in App
  BY DEF PressOK
<1>2. CASE ~ (shelf \/ EndsPress(app))
  <2>1. UNCHANGED <<app, grab, fw>>
    BY <1>2 DEF LongPress
  <2>2. app.press = None
    BY <1>2 DEF EndsPress
  <2> QED
    BY <2>1, <2>2 DEF Effect, PressOK
<1>3. CASE shelf \/ EndsPress(app)
  <2>1. h \in App /\ h.acts = 0 /\ SamePress(app, h)
    BY <1>1, PressOps
  <2> HIDE DEF h
  <2>2. /\ n \in App /\ n.acts = 0 /\ n.press = None /\ n.total = 0 /\ n.eaten = app.eaten
    BY <2>1, PressOps DEF SamePress
  <2> HIDE DEF n
  <2>3. PICK w : /\ w.kind \in Widget
                 /\ app' = Apply(a, w, no) /\ Keyboard(app') /\ grab' = NoWidget
    <3>1. PICK w \in IF shelf THEN Reported(Grabbed(grab, e.at), e.at) ELSE Reported(grab, app.press.at) :
            app' = Apply(a, w, no) /\ Keyboard(app') /\ grab' = NoWidget
      BY <1>3 DEF LongPress, n, h
    <3>2. w.kind \in Widget
      BY ReportedWidget, GrabbedWidget DEF ScreenInv
    <3> QED
      BY <3>1, <3>2
  <2>4. yes \in BOOLEAN /\ yes /\ no \in BOOLEAN /\ pl \in BOOLEAN
    OBVIOUS
  <2> HIDE DEF yes, no, pl
  <2>5. /\ a \in App /\ a.acts = 0 /\ a.press = None /\ a.total = 0 /\ a.eaten = app.eaten /\ a.seen
    BY <2>2, <2>4 DEF App
  <2> HIDE DEF a
  <2>6. /\ app' \in App /\ SamePress(a, app') /\ (a.acts = 0 => app'.acts <= 1)
    BY <2>3, <2>4, <2>5, ApplyActs
  <2>7. /\ app'.acts <= 1 /\ app'.press = None /\ app'.total = 0 /\ app'.eaten = app.eaten
        /\ app'.seen
    BY <2>5, <2>6 DEF SamePress
  <2>8. PressOK'
    BY <2>3, <2>6, <2>7 DEF PressOK
  <2>9. fw' \in Fw /\ fw'.long = fw.long /\ fw'.still = fw.still
    <3>1. app.kb \in BOOLEAN /\ app'.kb \in BOOLEAN
      BY <1>1, <2>6 DEF App
    <3> QED
      BY <2>3, <3>1, KeyboardKeeps
  <2> QED
    BY <2>7, <2>8, <2>9 DEF Effect
<1> QED
  BY <1>2, <1>3

(* commit_search touches no press.                                         *)
LEMMA DrainedSame ==
  ASSUME NEW a \in App, pending \in {"new", "blank", "same"}
  PROVE  Drained(a) \in App /\ Same(a, Drained(a))
<1> DEFINE no == FALSE
           c == [a EXCEPT !.kb = no]
           lib == "Library"
           t == [c EXCEPT !.tab = lib]
<1>1. no \in BOOLEAN /\ lib \in Tab
  BY DEF Tab
<1>2. Drained(a) \in {Refresh(t), c, Refresh(c)}
  <2>1. CASE pending = "new"
    BY <2>1 DEF Drained
  <2>2. CASE pending = "blank"
    BY <2>2 DEF Drained
  <2>3. CASE pending = "same"
    BY <2>3 DEF Drained
  <2> QED
    BY <2>1, <2>2, <2>3
<1> HIDE DEF no, lib
<1>3. c \in App /\ Same(a, c)
  BY <1>1 DEF App, Same, SamePress
<1> HIDE DEF c
<1>4. t \in App /\ Same(c, t)
  BY <1>1, <1>3 DEF App, Same, SamePress
<1> HIDE DEF t
<1>5. ASSUME NEW x \in App
      PROVE  Refresh(x) \in App /\ Same(x, Refresh(x))
  BY DEF Refresh, App, Same, SamePress
<1>6. /\ Refresh(t) \in App /\ Same(a, Refresh(t))
      /\ Refresh(c) \in App /\ Same(a, Refresh(c))
  BY <1>3, <1>4, <1>5 DEF Same, SamePress
<1> QED
  BY <1>2, <1>3, <1>6

(* Any event has the effect of its kind, or is eaten by the closing keyboard. *)
LEMMA EventEffect ==
  ASSUME ScreenInv, PressOK, fw \in Fw, NEW e, e.kind \in Gestures, e.at \in Spot, OnEvent(e)
  PROVE  Effect(e) /\ pending' \in {None, "new", "blank", "same"}
<1>1. CASE pending # None
  <2> DEFINE d == Drained(app)
             yes == TRUE
             x == CASE e.kind = "down" -> TRUE [] e.kind = "up" -> FALSE [] OTHER -> d.open
             y == IF e.kind = "down" THEN 0 ELSE d.acts
  <2>1. /\ app' = [d EXCEPT !.eaten = yes, !.open = x, !.acts = y]
        /\ pending' = None /\ UNCHANGED <<grab, fw>>
    BY <1>1 DEF OnEvent
  <2>2. d \in App /\ Same(app, d)
    BY <1>1, DrainedSame DEF ScreenInv, PressOK
  <2> HIDE DEF d
  <2>a. d.open \in BOOLEAN /\ d.acts \in 0 .. 3 /\ d.acts <= 1
    BY <2>2 DEF App, Same, PressOK
  <2>b. x \in BOOLEAN
    <3>1. CASE e.kind = "down"
      BY <3>1
    <3>2. CASE e.kind = "up"
      BY <3>2
    <3>3. CASE e.kind \notin {"down", "up"}
      BY <2>a, <3>3
    <3> QED
      BY <3>1, <3>2, <3>3
  <2>c. x => y = 0 \/ (d.open /\ y = d.acts)
    <3>1. CASE e.kind = "down"
      BY <3>1
    <3>2. CASE e.kind = "up"
      BY <3>2
    <3>3. CASE e.kind \notin {"down", "up"}
      BY <3>3
    <3> QED
      BY <3>1, <3>2, <3>3
  <2>d. y \in 0 .. 3 /\ y <= 1
    BY <2>a
  <2>3. yes \in BOOLEAN /\ yes
    OBVIOUS
  <2> HIDE DEF yes, x, y
  <2>4. /\ app' \in App /\ app'.eaten = yes /\ app'.open = x /\ app'.acts = y
        /\ app'.press = d.press /\ app'.seen = d.seen /\ app'.total = d.total /\ app'.last = d.last
        /\ app'.launched = d.launched
    BY <2>1, <2>2, <2>3, <2>b, <2>d DEF App
  <2>5. PressOK'
    BY <2>1, <2>2, <2>4, <2>c, <2>d DEF PressOK, Same, SamePress
  <2> QED
    BY <1>1, <2>1, <2>2, <2>3, <2>4, <2>5 DEF Effect, Same, SamePress, SameTravel
<1>2. CASE pending = None
  <2>1. CASE e.kind = "down"
    <3>1. PointerDown(e.at)
      BY <1>2, <2>1 DEF OnEvent
    <3> QED
      BY <1>2, <2>1, <3>1, DownEffect DEF PointerDown, ScreenInv
  <2>2. CASE e.kind = "move"
    <3>1. PointerMove(e.at)
      BY <1>2, <2>2 DEF OnEvent
    <3> QED
      BY <1>2, <2>2, <3>1, MoveEffect DEF PointerMove, ScreenInv
  <2>3. CASE e.kind = "up"
    <3>1. PointerUp(e.at)
      BY <1>2, <2>3 DEF OnEvent
    <3> QED
      BY <1>2, <2>3, <3>1, UpEffect DEF PointerUp, ScreenInv, Keyboard
  <2>4. CASE e.kind = "long"
    <3>1. LongPress(e.at)
      BY <1>2, <2>4 DEF OnEvent
    <3> QED
      BY <1>2, <2>4, <3>1, LongEffect DEF LongPress, ScreenInv, Keyboard
  <2> QED
    BY <2>1, <2>2, <2>3, <2>4 DEF Gestures
<1> QED
  BY <1>1, <1>2

---------------------------------------------------------------------------
(* The queue is a line of contacts.                                        *)

Ev == [kind : Gestures, at : Spot]

(* A queue q before an application that is shown a press (h) at position l.  *)
(* A contact starts with a Down and ends with an Up or a gesture; a position *)
(* in the line rests where its contact is.                                   *)
Ends(e) == e.kind \in {"up", "long"}
Moves(e) == e.kind \in {"down", "move"}
Starts(q, h, i) == IF i = 0 THEN h ELSE q[i].kind = "down"
Rests(q, h, i) == IF i = 0 THEN h ELSE Moves(q[i])
Pos(q, l, i) == IF i = 0 THEN l ELSE q[i].at

(* What starts in the line ends in it, or goes on at the source; it ends      *)
(* before another starts; and what the line ends with is where the contact of *)
(* the source is.                                                             *)
Answered(q, h, src) ==
  \A i \in 0 .. Len(q) : Starts(q, h, i) => src \/ \E k \in i + 1 .. Len(q) : Ends(q[k])
Apart(q, h) ==
  \A i \in 0 .. Len(q) : \A j \in i + 1 .. Len(q) :
    Starts(q, h, i) /\ q[j].kind = "down" => \E k \in i + 1 .. j - 1 : Ends(q[k])
EndsAt(q, h, l, con, sp) == Rests(q, h, Len(q)) => con /\ Pos(q, l, Len(q)) = sp

(* A contact is released where it was last.                                   *)
Releases(q, h, l) ==
  \A j \in 1 .. Len(q) : q[j].kind = "up" /\ Rests(q, h, j - 1) => q[j].at = Pos(q, l, j - 1)

(* A queue q, a press h shown at l, and a source at which a contact goes on *)
(* (src), touches (con) and is where it is (sp); and an event that the      *)
(* source adds.                                                             *)
Line(q, h, l, src, con, sp) ==
  /\ q \in Seq(Ev) /\ h \in BOOLEAN /\ src \in BOOLEAN /\ con \in BOOLEAN
  /\ Answered(q, h, src) /\ Apart(q, h) /\ EndsAt(q, h, l, con, sp)
Adds(e, src, src2, con2, sp2) ==
  /\ e \in Ev /\ src2 \in BOOLEAN /\ con2 \in BOOLEAN
  /\ src => src2 \/ Ends(e)
  /\ e.kind = "down" => ~ src /\ src2
  /\ Moves(e) => con2 /\ e.at = sp2
(* What the application is shown after an event e.                          *)
Shows(e, h, g, m) ==
  /\ g \in BOOLEAN
  /\ g => /\ e.kind = "down" \/ (e.kind = "move" /\ h)
          /\ m = e.at
(* A press that is given up, and a source that goes on.                     *)
KeepsOn(h, l, src, con, sp, g, m, src2, con2, sp2) ==
  /\ g \in BOOLEAN /\ src2 \in BOOLEAN /\ con2 \in BOOLEAN
  /\ g => h /\ m = l
  /\ src => src2
  /\ con => con2 /\ sp2 = sp

(* The kinds of event: those that begin or carry on, and those that end. *)
LEMMA Kinds ==
  ASSUME NEW e \in Ev
  PROVE  /\ e.kind \in Gestures /\ e.at \in Spot
         /\ (Ends(e) <=> e.kind \in {"up", "long"}) /\ (Moves(e) <=> ~ Ends(e))
         /\ e.kind = "down" => Moves(e)
         /\ e.kind = "up" => Ends(e)
BY DEF Ev, Gestures, Ends, Moves

(* The line of events goes on when the source adds an event in its turn. *)
LEMMA Appended ==
  ASSUME NEW q, NEW h, NEW l, NEW src, NEW con, NEW sp, NEW e, NEW src2, NEW con2, NEW sp2,
         Line(q, h, l, src, con, sp), Adds(e, src, src2, con2, sp2)
  PROVE  /\ Line(Append(q, e), h, l, src2, con2, sp2)
         /\ Releases(q, h, l) /\ (e.kind = "up" /\ con => e.at = sp) => Releases(Append(q, e), h, l)
<1>0. /\ q \in Seq(Ev) /\ h \in BOOLEAN /\ src \in BOOLEAN /\ con \in BOOLEAN
      /\ Answered(q, h, src) /\ Apart(q, h) /\ EndsAt(q, h, l, con, sp)
      /\ e \in Ev /\ src2 \in BOOLEAN /\ con2 \in BOOLEAN
      /\ src => src2 \/ Ends(e)
      /\ e.kind = "down" => ~ src /\ src2
      /\ Moves(e) => con2 /\ e.at = sp2
  BY DEF Line, Adds
<1> DEFINE n == Len(q)
           r == Append(q, e)
<1>1. /\ r \in Seq(Ev) /\ n \in Nat /\ Len(r) = n + 1 /\ r[n + 1] = e
      /\ \A i \in 1 .. n : r[i] = q[i] /\ q[i] \in Ev
  BY <1>0, AppendProperties
<1> HIDE DEF n, r
<1>2. \A i \in 0 .. n : Starts(r, h, i) = Starts(q, h, i) /\ Rests(r, h, i) = Rests(q, h, i)
                        /\ Pos(r, l, i) = Pos(q, l, i)
  BY <1>0, <1>1 DEF Starts, Rests, Pos
<1>3. Answered(r, h, src2)
  <2> SUFFICES ASSUME NEW i \in 0 .. n + 1, Starts(r, h, i)
               PROVE  src2 \/ \E k \in i + 1 .. n + 1 : Ends(r[k])
    BY <1>0, <1>1 DEF Answered
  <2>1. CASE i = n + 1
    BY <1>0, <1>1, <2>1 DEF Starts
  <2>2. CASE i # n + 1
    <3>1. i \in 0 .. n
      BY <1>0, <1>1, <2>2
    <3>2. src \/ \E k \in i + 1 .. n : Ends(q[k])
      BY <1>0, <1>2, <3>1 DEF Answered, n
    <3>3. CASE src
      <4>1. src2 \/ Ends(r[n + 1])
        BY <1>0, <1>1, <3>3
      <4> QED
        BY <1>0, <1>1, <3>1, <4>1
    <3>4. ASSUME NEW k \in i + 1 .. n, Ends(q[k])
          PROVE  \E m \in i + 1 .. n + 1 : Ends(r[m])
      BY <1>0, <1>1, <3>1, <3>4
    <3> QED
      BY <3>2, <3>3, <3>4
  <2> QED
    BY <2>1, <2>2
<1>4. Apart(r, h)
  <2> SUFFICES ASSUME NEW i \in 0 .. n + 1, NEW j \in i + 1 .. n + 1, Starts(r, h, i), r[j].kind = "down"
               PROVE  \E k \in i + 1 .. j - 1 : Ends(r[k])
    BY <1>0, <1>1 DEF Apart
  <2>1. i \in 0 .. n /\ j \in 1 .. n + 1 /\ Starts(q, h, i)
    BY <1>0, <1>1, <1>2
  <2>2. CASE j = n + 1
    <3>1. ~ src
      BY <1>0, <1>1, <2>2
    <3>2. PICK k \in i + 1 .. n : Ends(q[k])
      BY <1>0, <2>1, <3>1 DEF Answered, n
    <3>3. k \in 1 .. n /\ k \in i + 1 .. j - 1
      BY <1>0, <1>1, <2>1, <2>2, <3>2
    <3> QED
      BY <1>0, <1>1, <3>2, <3>3
  <2>3. CASE j # n + 1
    <3>1. j \in 1 .. n /\ j \in i + 1 .. n
      BY <1>0, <1>1, <2>1, <2>3
    <3>2. PICK k \in i + 1 .. j - 1 : Ends(q[k])
      BY <1>0, <1>1, <2>1, <3>1 DEF Apart, n
    <3>3. k \in 1 .. n
      BY <1>0, <1>1, <2>1, <3>1, <3>2
    <3> QED
      BY <1>0, <1>1, <3>2, <3>3
  <2> QED
    BY <2>2, <2>3
<1>5. EndsAt(r, h, l, con2, sp2)
  BY <1>0, <1>1 DEF EndsAt, Rests, Pos
<1>6. ASSUME Releases(q, h, l), e.kind = "up" /\ con => e.at = sp
      PROVE  Releases(r, h, l)
  <2> SUFFICES ASSUME NEW j \in 1 .. n + 1, r[j].kind = "up", Rests(r, h, j - 1)
               PROVE  r[j].at = Pos(r, l, j - 1)
    BY <1>0, <1>1 DEF Releases
  <2>1. CASE j = n + 1
    <3>1. e.kind = "up" /\ r[j].at = e.at
      BY <1>0, <1>1, <2>1
    <3>2. j - 1 = n /\ n \in 0 .. n
      BY <1>0, <1>1, <2>1
    <3>3. Rests(q, h, n) /\ Pos(r, l, j - 1) = Pos(q, l, n)
      BY <1>0, <1>2, <3>2
    <3>4. con /\ Pos(q, l, n) = sp
      BY <1>0, <3>3 DEF EndsAt, n
    <3> QED
      BY <1>6, <3>1, <3>3, <3>4
  <2>2. CASE j # n + 1
    <3>1. j \in 1 .. n /\ j - 1 \in 0 .. n
      BY <1>0, <1>1, <2>2
    <3>2. q[j].kind = "up" /\ Rests(q, h, j - 1) /\ r[j].at = q[j].at
      BY <1>0, <1>1, <1>2, <3>1
    <3>3. q[j].at = Pos(q, l, j - 1)
      BY <1>6, <3>1, <3>2 DEF Releases, n
    <3> QED
      BY <1>0, <1>2, <3>1, <3>2, <3>3
  <2> QED
    BY <2>1, <2>2
<1> QED
  BY <1>0, <1>1, <1>3, <1>4, <1>5, <1>6 DEF Line, r

(* The line of events goes on when the application takes the first one. *)
LEMMA Taken ==
  ASSUME NEW q, NEW h, NEW l, NEW src, NEW con, NEW sp, NEW g, NEW m,
         Line(q, h, l, src, con, sp), q # <<>>, Shows(Head(q), h, g, m)
  PROVE  /\ Line(Tail(q), g, m, src, con, sp)
         /\ Releases(q, h, l) => Releases(Tail(q), g, m)
         /\ Head(q) \in Ev
         /\ Head(q).kind = "down" => ~ h
         /\ Releases(q, h, l) /\ Head(q).kind = "up" /\ h => Head(q).at = l
<1>0. /\ q \in Seq(Ev) /\ h \in BOOLEAN /\ src \in BOOLEAN /\ con \in BOOLEAN /\ g \in BOOLEAN
      /\ Answered(q, h, src) /\ Apart(q, h) /\ EndsAt(q, h, l, con, sp)
      /\ g => /\ Head(q).kind = "down" \/ (Head(q).kind = "move" /\ h)
              /\ m = Head(q).at
  BY DEF Line, Shows
<1> USE <1>0
<1> DEFINE n == Len(q) - 1
           r == Tail(q)
           e == Head(q)
<1>1. /\ r \in Seq(Ev) /\ n \in Nat /\ Len(q) = n + 1 /\ Len(r) = n /\ e = q[1] /\ e \in Ev
      /\ \A i \in 1 .. n : r[i] = q[i + 1]
      /\ \A i \in 1 .. n + 1 : q[i] \in Ev
  BY HeadTailProperties
<1> HIDE DEF r, n, e
<1>2. /\ \A i \in 0 .. n : Starts(r, g, i) => Starts(q, h, i + 1) \/ (i = 0 /\ h /\ e.kind = "move")
      /\ \A i \in 0 .. n : Rests(r, g, i) => Rests(q, h, i + 1) /\ Pos(r, m, i) = Pos(q, l, i + 1)
  <2>1. g => Moves(e) /\ m = e.at
    BY DEF Moves, e
  <2>2. Starts(r, g, 0) => Starts(q, h, 1) \/ (h /\ e.kind = "move")
    BY <1>1 DEF Starts, e
  <2>3. Rests(r, g, 0) => Rests(q, h, 1) /\ Pos(r, m, 0) = Pos(q, l, 1)
    BY <1>1, <2>1 DEF Rests, Pos
  <2>4. ASSUME NEW i \in 1 .. n
        PROVE  /\ Starts(r, g, i) => Starts(q, h, i + 1)
               /\ Rests(r, g, i) => Rests(q, h, i + 1)
               /\ Pos(r, m, i) = Pos(q, l, i + 1)
    <3>1. r[i] = q[i + 1] /\ i # 0 /\ i + 1 # 0
      BY <1>1
    <3> QED
      BY <3>1 DEF Starts, Rests, Pos
  <2>5. \A i \in 0 .. n : i = 0 \/ i \in 1 .. n
    BY <1>1
  <2> QED
    BY <2>2, <2>3, <2>4, <2>5
<1>3. Answered(r, g, src)
  <2> SUFFICES ASSUME NEW i \in 0 .. n, Starts(r, g, i), ~ src
               PROVE  \E k \in i + 1 .. n : Ends(r[k])
    BY <1>1 DEF Answered
  <2>1. \E k \in i + 2 .. n + 1 : Ends(q[k])
    <3>1. CASE Starts(q, h, i + 1)
      <4>1. i + 1 \in 0 .. Len(q)
        BY <1>1
      <4>2. \E k \in (i + 1) + 1 .. Len(q) : Ends(q[k])
        BY <3>1, <4>1 DEF Answered
      <4> QED
        BY <1>1, <4>2
    <3>2. CASE i = 0 /\ h /\ e.kind = "move"
      <4>1. Starts(q, h, 0) /\ 0 \in 0 .. Len(q)
        BY <1>1, <3>2 DEF Starts
      <4>2. PICK k \in 1 .. n + 1 : Ends(q[k])
        BY <1>1, <4>1 DEF Answered
      <4>3. k # 1
        BY <1>1, <3>2, <4>2 DEF Ends
      <4> QED
        BY <1>1, <3>2, <4>2, <4>3
    <3> QED
      BY <1>2, <3>1, <3>2
  <2>2. PICK k \in i + 2 .. n + 1 : Ends(q[k])
    BY <2>1
  <2>3. k - 1 \in i + 1 .. n /\ k - 1 \in 1 .. n /\ (k - 1) + 1 = k
    BY <1>1, <2>2
  <2>4. r[k - 1] = q[k]
    BY <1>1, <2>3
  <2> QED
    BY <2>2, <2>3, <2>4
<1>4. Apart(r, g)
  <2> SUFFICES ASSUME NEW i \in 0 .. n, NEW j \in i + 1 .. n, Starts(r, g, i), r[j].kind = "down"
               PROVE  \E k \in i + 1 .. j - 1 : Ends(r[k])
    BY <1>1 DEF Apart
  <2>1. j \in 1 .. n /\ j + 1 \in 1 .. n + 1 /\ q[j + 1].kind = "down" /\ r[j] = q[j + 1]
    BY <1>1
  <2>2. \E k \in i + 2 .. j : Ends(q[k])
    <3>1. CASE Starts(q, h, i + 1)
      <4>1. i + 1 \in 0 .. Len(q) /\ j + 1 \in (i + 1) + 1 .. Len(q)
        BY <1>1, <2>1
      <4>2. \E k \in (i + 1) + 1 .. (j + 1) - 1 : Ends(q[k])
        BY <2>1, <3>1, <4>1 DEF Apart
      <4> QED
        BY <1>1, <2>1, <4>2
    <3>2. CASE i = 0 /\ h /\ e.kind = "move"
      <4>1. Starts(q, h, 0) /\ 0 \in 0 .. Len(q) /\ j + 1 \in 0 + 1 .. Len(q)
        BY <1>1, <2>1, <3>2 DEF Starts
      <4>2. PICK k \in 0 + 1 .. (j + 1) - 1 : Ends(q[k])
        BY <2>1, <4>1 DEF Apart
      <4>3. k # 1
        BY <1>1, <3>2, <4>2 DEF Ends
      <4> QED
        BY <1>1, <2>1, <3>2, <4>2, <4>3
    <3> QED
      BY <1>2, <3>1, <3>2
  <2>3. PICK k \in i + 2 .. j : Ends(q[k])
    BY <2>2
  <2>4. k - 1 \in i + 1 .. j - 1 /\ k - 1 \in 1 .. n /\ (k - 1) + 1 = k
    BY <1>1, <2>1, <2>3
  <2>5. r[k - 1] = q[k]
    BY <1>1, <2>4
  <2> QED
    BY <2>3, <2>4, <2>5
<1>5. EndsAt(r, g, m, con, sp)
  <2>1. n \in 0 .. n
    BY <1>1
  <2> QED
    BY <1>1, <1>2, <2>1 DEF EndsAt
<1>6. ASSUME Releases(q, h, l)
      PROVE  Releases(r, g, m)
  <2> SUFFICES ASSUME NEW j \in 1 .. n, r[j].kind = "up", Rests(r, g, j - 1)
               PROVE  r[j].at = Pos(r, m, j - 1)
    BY <1>1 DEF Releases
  <2>1. j - 1 \in 0 .. n /\ (j - 1) + 1 = j /\ (j + 1) - 1 = j /\ j + 1 \in 1 .. Len(q)
    BY <1>1
  <2>2. Rests(q, h, j) /\ Pos(r, m, j - 1) = Pos(q, l, j)
    BY <1>2, <2>1
  <2>3. r[j] = q[j + 1]
    BY <1>1
  <2>4. q[j + 1].at = Pos(q, l, j)
    BY <1>6, <2>1, <2>2, <2>3 DEF Releases
  <2> QED
    BY <2>2, <2>3, <2>4
<1>7. e.kind = "down" => ~ h
  <2> SUFFICES ASSUME e.kind = "down", h PROVE FALSE
    OBVIOUS
  <2>1. Starts(q, h, 0) /\ 0 \in 0 .. Len(q) /\ 1 \in 0 + 1 .. Len(q)
    BY <1>1 DEF Starts
  <2>2. \E k \in 0 + 1 .. 1 - 1 : Ends(q[k])
    BY <1>1, <2>1 DEF Apart
  <2> QED
    BY <2>2
<1>8. Releases(q, h, l) /\ e.kind = "up" /\ h => e.at = l
  <2> SUFFICES ASSUME Releases(q, h, l), e.kind = "up", h PROVE e.at = l
    OBVIOUS
  <2>1. Rests(q, h, 0) /\ Pos(q, l, 0) = l
    BY DEF Rests, Pos
  <2>2. 1 \in 1 .. Len(q) /\ 1 - 1 = 0
    BY <1>1
  <2>3. q[1].at = Pos(q, l, 1 - 1)
    BY <1>1, <2>1, <2>2 DEF Releases
  <2> QED
    BY <1>1, <2>1, <2>2, <2>3
<1> QED
  BY <1>1, <1>3, <1>4, <1>5, <1>6, <1>7, <1>8 DEF Line, r, e

(* The line of events goes on when only its two ends move. *)
LEMMA Waits ==
  ASSUME NEW q, NEW h, NEW l, NEW src, NEW con, NEW sp, NEW g, NEW m, NEW src2, NEW con2, NEW sp2,
         Line(q, h, l, src, con, sp), KeepsOn(h, l, src, con, sp, g, m, src2, con2, sp2)
  PROVE  /\ Line(q, g, m, src2, con2, sp2)
         /\ Releases(q, h, l) => Releases(q, g, m)
<1>0. /\ q \in Seq(Ev) /\ h \in BOOLEAN /\ src \in BOOLEAN /\ con \in BOOLEAN
      /\ Answered(q, h, src) /\ Apart(q, h) /\ EndsAt(q, h, l, con, sp)
      /\ g \in BOOLEAN /\ src2 \in BOOLEAN /\ con2 \in BOOLEAN
      /\ g => h /\ m = l
      /\ src => src2
      /\ con => con2 /\ sp2 = sp
  BY DEF Line, KeepsOn
<1> USE <1>0
<1>1. \A i \in 0 .. Len(q) :
        /\ Starts(q, g, i) => Starts(q, h, i)
        /\ Rests(q, g, i) => Rests(q, h, i) /\ Pos(q, m, i) = Pos(q, l, i)
  BY DEF Starts, Rests, Pos
<1>2. Len(q) \in 0 .. Len(q) /\ \A j \in 1 .. Len(q) : j - 1 \in 0 .. Len(q)
  OBVIOUS
<1>3. Answered(q, g, src2)
  BY <1>1 DEF Answered
<1>4. Apart(q, g)
  BY <1>1 DEF Apart
<1>5. EndsAt(q, g, m, con2, sp2)
  BY <1>1, <1>2 DEF EndsAt
<1>6. Releases(q, h, l) => Releases(q, g, m)
  BY <1>1, <1>2 DEF Releases
<1> QED
  BY <1>3, <1>4, <1>5, <1>6 DEF Line

(* An empty queue is a line to an application that holds nothing. *)
LEMMA NothingWaits ==
  ASSUME NEW l, NEW src \in BOOLEAN, NEW con \in BOOLEAN, NEW sp, NEW h, h = FALSE
  PROVE  Line(<<>>, h, l, src, con, sp) /\ Releases(<<>>, h, l)
<1>1. /\ Len(<<>>) = 0 /\ <<>> \in Seq(Ev)
      /\ (\A i \in 0 .. 0 : i = 0 /\ i + 1 .. 0 = {}) /\ 1 .. 0 = {}
  OBVIOUS
<1>2. ~ Starts(<<>>, h, 0) /\ ~ Rests(<<>>, h, 0)
  BY DEF Starts, Rests
<1>3. Answered(<<>>, h, src)
  BY <1>1, <1>2 DEF Answered
<1>4. Apart(<<>>, h)
  BY <1>1, <1>2 DEF Apart
<1>5. EndsAt(<<>>, h, l, con, sp)
  BY <1>1, <1>2 DEF EndsAt
<1>6. Releases(<<>>, h, l)
  BY <1>1 DEF Releases
<1>7. h \in BOOLEAN
  OBVIOUS
<1> QED
  BY <1>1, <1>3, <1>4, <1>5, <1>6, <1>7 DEF Line

(* With nothing queued and no contact at the source, nothing is held. *)
LEMMA NoneHeld ==
  ASSUME NEW h, NEW l, NEW src, NEW con, NEW sp, Line(<<>>, h, l, src, con, sp), ~ src
  PROVE  ~ h
BY DEF Line, Answered, Starts

---------------------------------------------------------------------------
(* The inductive invariant of a contact.                                   *)

(* The application is shown a press that it was told everything about.     *)
Pressed == app.press # None /\ ~ app.eaten

(* The source: whether a contact is under way of which an end is still to be *)
(* told, whether one touches the panel, and where.                           *)
Source == IF backend = "evdev" THEN dec.emitted ELSE finger[MainSlot] # None /\ ~ fw.long
Touching == IF backend = "evdev" THEN dec.emitted ELSE finger[MainSlot] # None
TouchAt == IF backend = "evdev" THEN dec.last ELSE finger[MainSlot]

(* A Down that was sent is of a contact on the panel, which is where the      *)
(* decoder said last.                                                         *)
Sent(d) ==
  d.emitted => /\ d.tracked # None /\ d.slots[SlotIndex(d.tracked)].on
               /\ d.last = d.slots[SlotIndex(d.tracked)].at

LineOK ==
  /\ Line(out, Pressed, app.last, Source, Touching, TouchAt)
  /\ drops = 0 => Releases(out, Pressed, app.last)

InputTypes ==
  /\ backend \in {"evdev", "inkview"}
  /\ finger \in Fingered /\ told \in Reports /\ dec \in Decoders /\ drops \in 0 .. MaxDrops
  /\ fw \in Fw
  /\ fw.still => backend = "inkview" /\ finger[MainSlot] # None

(* The travel of a press is the way up or down from where it began.           *)
Travelled ==
  Pressed => app.last \in Spot /\ app.total = Row(app.press.at) - Row(app.last)

(* What the kernel has told and the decoder has read is where the fingers    *)
(* are, of every slot; none of them is left untracked.                       *)
Level(g, t, d) ==
  /\ InSlot(t, d)
  /\ \A s \in Slot : Knows(t, d, s, g[s])
  /\ d.tracked = None => \A s \in Slot : g[s] = None

InStep == backend = "evdev" /\ drops = 0 => Level(finger, told, dec)

ContactInv == InputTypes /\ PressOK /\ Sent(dec) /\ InStep /\ LineOK /\ Travelled

(* The same for the state of the device: the source adds an event. *)
LEMMA LineGrows ==
  ASSUME LineOK, NEW e \in Ev, out' = Append(out, e), app' = app, drops' = drops,
         Source' \in BOOLEAN, Touching' \in BOOLEAN,
         Source => Source' \/ Ends(e),
         e.kind = "down" => ~ Source /\ Source',
         Moves(e) => Touching' /\ e.at = TouchAt',
         drops = 0 /\ e.kind = "up" /\ Touching => e.at = TouchAt
  PROVE  LineOK'
<1> DEFINE h == Pressed
           l == app.last
           src == Source
           con == Touching
           sp == TouchAt
           src2 == Source'
           con2 == Touching'
           sp2 == TouchAt'
<1>1. Line(out, h, l, src, con, sp) /\ (drops = 0 => Releases(out, h, l))
  BY DEF LineOK
<1>2. Adds(e, src, src2, con2, sp2)
  BY DEF Adds
<1>3. Pressed' = h /\ app'.last = l
  BY DEF Pressed
<1>4. drops = 0 => (e.kind = "up" /\ con => e.at = sp)
  OBVIOUS
<1> HIDE DEF h, l, src, con, sp, src2, con2, sp2
<1>5. /\ Line(Append(out, e), h, l, src2, con2, sp2)
      /\ Releases(out, h, l) /\ (e.kind = "up" /\ con => e.at = sp) => Releases(Append(out, e), h, l)
  BY <1>1, <1>2, Appended
<1>6. drops = 0 => Releases(Append(out, e), h, l)
  BY <1>1, <1>4, <1>5
<1> QED
  BY <1>3, <1>5, <1>6 DEF LineOK, src2, con2, sp2

(* The same for the state of the device: no event is added or taken. *)
LEMMA LineWaits ==
  ASSUME LineOK, out' = out, drops' = 0 => drops = 0,
         Source' \in BOOLEAN, Touching' \in BOOLEAN, Pressed' \in BOOLEAN,
         Pressed' => Pressed /\ app'.last = app.last,
         Source => Source', Touching => Touching' /\ TouchAt' = TouchAt
  PROVE  LineOK'
<1> DEFINE h == Pressed
           l == app.last
           src == Source
           con == Touching
           sp == TouchAt
           src2 == Source'
           con2 == Touching'
           sp2 == TouchAt'
           g == Pressed'
           m == app'.last
<1>1. Line(out, h, l, src, con, sp) /\ (drops = 0 => Releases(out, h, l))
  BY DEF LineOK
<1>2. KeepsOn(h, l, src, con, sp, g, m, src2, con2, sp2)
  BY DEF KeepsOn
<1> HIDE DEF h, l, src, con, sp, src2, con2, sp2, g, m
<1>3. Line(out, g, m, src2, con2, sp2) /\ (Releases(out, h, l) => Releases(out, g, m))
  BY <1>1, <1>2, Waits
<1> QED
  BY <1>1, <1>3 DEF LineOK, g, m, src2, con2, sp2

(* With nothing in the queue and no press shown the line is in order.       *)
LEMMA LineEmpty ==
  ASSUME out' = <<>>, Pressed' = FALSE, Source' \in BOOLEAN, Touching' \in BOOLEAN
  PROVE  LineOK'
<1> DEFINE g == Pressed'
           m == app'.last
           src2 == Source'
           con2 == Touching'
           sp2 == TouchAt'
<1>1. g = FALSE /\ src2 \in BOOLEAN /\ con2 \in BOOLEAN
  OBVIOUS
<1> HIDE DEF g, m, src2, con2, sp2
<1>2. Line(<<>>, g, m, src2, con2, sp2) /\ Releases(<<>>, g, m)
  BY <1>1, NothingWaits
<1> QED
  BY <1>2 DEF LineOK, g, m, src2, con2, sp2

(* What flush_syn sends is a contact: a Down when none is out, Moves while it *)
(* lasts, an Up where its finger was last seen.                               *)
LEMMA FlushedContact ==
  ASSUME NEW d \in Decoders, d.emitted => d.tracked # None, NEW r, r = FlushSyn(d)
  PROVE  /\ r.dec \in Decoders /\ r.dec.slot = d.slot /\ r.dec.slots = d.slots /\ Sent(r.dec)
         /\ (d.tracked = None => \A i \in Index : ~ d.slots[i].on)
              => (r.dec.tracked = None => \A i \in Index : ~ d.slots[i].on)
         /\ \/ /\ r.out = <<>> /\ (r.dec.emitted <=> d.emitted)
               /\ d.emitted => r.dec.last = d.last
            \/ \E e \in Ev :
                 /\ r.out = <<e>>
                 /\ \/ e.kind = "down" /\ ~ d.emitted /\ r.dec.emitted /\ e.at = r.dec.last
                    \/ e.kind = "move" /\ d.emitted /\ r.dec.emitted /\ e.at = r.dec.last
                    \/ /\ e.kind = "up" /\ ~ r.dec.emitted /\ d.tracked # None
                       /\ ~ d.slots[SlotIndex(d.tracked)].on
                       /\ e.at = d.slots[SlotIndex(d.tracked)].at
<1> DEFINE i == SlotIndex(d.tracked)
           c == d.slots[i]
           yes == TRUE
           no == FALSE
           sent == [d EXCEPT !.emitted = yes, !.last = c.at]
<1>1. d.tracked # None => i \in Index /\ c \in [at : Spot, on : BOOLEAN]
  BY SlotsHaveIndices DEF Decoders
<1>2. yes \in BOOLEAN /\ yes /\ no \in BOOLEAN /\ ~ no
  OBVIOUS
<1>3. ASSUME d.tracked # None, c.on
      PROVE  /\ sent \in Decoders /\ sent.slot = d.slot /\ sent.slots = d.slots /\ Sent(sent)
             /\ sent.emitted = yes /\ sent.tracked = d.tracked /\ sent.last = c.at
  <2> HIDE DEF yes
  <2>1. /\ sent \in Decoders /\ sent.slot = d.slot /\ sent.slots = d.slots
        /\ sent.emitted = yes /\ sent.tracked = d.tracked /\ sent.last = c.at
    BY <1>1, <1>2, <1>3 DEF Decoders
  <2> HIDE DEF sent
  <2> QED
    BY <1>3, <2>1 DEF Sent
<1>4. ASSUME NEW k \in Gestures, NEW p \in Spot
      PROVE  Event(k, p) \in Ev /\ Event(k, p).kind = k /\ Event(k, p).at = p
  BY DEF Event, Ev
<1>5. CASE d.tracked = None
  <2>1. r = [dec |-> d, out |-> <<>>]
    BY <1>5 DEF FlushSyn
  <2>2. r.dec = d /\ r.out = <<>>
    BY <2>1
  <2> QED
    BY <1>5, <2>2 DEF Sent
<1>6. CASE d.tracked # None /\ ~ c.on
  <2> DEFINE e == Event("up", c.at)
             k == "up"
             down == {j \in Index : d.slots[j].on}
             t == IF down = {} THEN None ELSE Min(down) + MainSlot
             f == [d EXCEPT !.tracked = t]
             g == [f EXCEPT !.emitted = no, !.last = None]
  <2>1. r = [dec |-> [Retarget(d) EXCEPT !.emitted = FALSE, !.last = None], out |-> <<e>>]
    BY <1>6 DEF FlushSyn
  <2>2. Retarget(d) = f
    BY DEF Retarget
  <2>3. r.dec = g /\ r.out = <<e>>
    BY <2>1, <2>2
  <2>4. t \in Slot \union {None} /\ (t = None => \A j \in Index : ~ d.slots[j].on)
    <3>1. CASE down = {}
      BY <3>1
    <3>2. CASE down # {}
      <4>1. down \subseteq Nat
        BY SlotsHaveIndices
      <4>2. \E x \in down : \A y \in down : x <= y
        BY <3>2, <4>1, LeastNumber
      <4>3. Min(down) \in down
        BY <4>2 DEF Min
      <4>4. Min(down) + MainSlot \in Slot
        BY <4>3, SlotsHaveIndices
      <4>5. t = Min(down) + MainSlot
        BY <3>2
      <4> QED
        BY <4>4, <4>5, SlotsHaveIndices
    <3> QED
      BY <3>1, <3>2
  <2> HIDE DEF t, no
  <2>5. /\ f \in Decoders /\ f.slot = d.slot /\ f.slots = d.slots /\ f.tracked = t
    BY <2>4 DEF Decoders
  <2> HIDE DEF f
  <2>6. /\ g \in Decoders /\ g.slot = d.slot /\ g.slots = d.slots /\ g.emitted = no /\ g.tracked = t
    BY <1>2, <2>5 DEF Decoders
  <2> HIDE DEF g
  <2>7. e = Event(k, c.at) /\ k \in Gestures /\ c.at \in Spot
    BY <1>1, <1>6 DEF Gestures
  <2> HIDE DEF k, e, c
  <2>8. e \in Ev /\ e.kind = k /\ e.at = c.at
    BY <1>4, <2>7
  <2>9. Sent(g)
    BY <1>2, <2>6 DEF Sent
  <2>10. e.kind = "up" /\ ~ g.emitted
    BY <1>2, <2>6, <2>8 DEF k
  <2> QED
    BY <1>6, <2>3, <2>4, <2>6, <2>8, <2>9, <2>10 DEF c
<1>7. CASE d.tracked # None /\ c.on /\ ~ d.emitted
  <2> DEFINE e == Event("down", c.at)
             k == "down"
  <2>1. r = [dec |-> sent, out |-> <<e>>]
    BY <1>7 DEF FlushSyn
  <2>2. r.dec = sent /\ r.out = <<e>>
    BY <2>1
  <2>3. e = Event(k, c.at) /\ k \in Gestures /\ c.at \in Spot
    BY <1>1, <1>7 DEF Gestures
  <2> HIDE DEF k, e, c, sent
  <2>4. e \in Ev /\ e.kind = k /\ e.at = c.at
    BY <1>4, <2>3
  <2>5. /\ sent \in Decoders /\ sent.slot = d.slot /\ sent.slots = d.slots /\ Sent(sent)
        /\ sent.emitted = yes /\ sent.tracked = d.tracked /\ sent.last = c.at
    BY <1>3, <1>7
  <2>6. e.kind = "down" /\ sent.emitted
    BY <2>4, <2>5 DEF k
  <2> QED
    BY <1>7, <2>2, <2>4, <2>5, <2>6
<1>8. CASE d.tracked # None /\ c.on /\ d.emitted
  <2> DEFINE e == Event("move", c.at)
             k == "move"
  <2>1. r = [dec |-> sent, out |-> IF d.last = c.at THEN <<>> ELSE <<e>>]
    BY <1>8 DEF FlushSyn
  <2>2. r.dec = sent /\ r.out = IF d.last = c.at THEN <<>> ELSE <<e>>
    BY <2>1
  <2>3. e = Event(k, c.at) /\ k \in Gestures /\ c.at \in Spot
    BY <1>1, <1>8 DEF Gestures
  <2> HIDE DEF k, e, c, sent
  <2>4. e \in Ev /\ e.kind = k /\ e.at = c.at
    BY <1>4, <2>3
  <2>5. /\ sent \in Decoders /\ sent.slot = d.slot /\ sent.slots = d.slots /\ Sent(sent)
        /\ sent.emitted = yes /\ sent.tracked = d.tracked /\ sent.last = c.at
    BY <1>3, <1>8
  <2>6. e.kind = "move" /\ sent.emitted
    BY <2>4, <2>5 DEF k
  <2>7. CASE d.last = c.at
    BY <1>8, <2>2, <2>5, <2>6, <2>7
  <2>8. CASE d.last # c.at
    BY <1>8, <2>2, <2>4, <2>5, <2>6, <2>8
  <2> QED
    BY <2>7, <2>8
<1> QED
  BY <1>5, <1>6, <1>7, <1>8

---------------------------------------------------------------------------
(* The steps keep it: frames of the panel, ...                             *)

(* The application as it is: its press, its travel and its widget.          *)
LEMMA AppAlone ==
  ASSUME PressOK, Travelled, UNCHANGED <<app, grab>>
  PROVE  PressOK' /\ Travelled' /\ (Pressed' <=> Pressed) /\ Pressed' \in BOOLEAN
BY DEF PressOK, Travelled, Pressed

(* Whether a contact is out is a truth value. *)
LEMMA SourceTyped ==
  ASSUME InputTypes'
  PROVE  Source' \in BOOLEAN /\ Touching' \in BOOLEAN
<1>1. dec'.emitted \in BOOLEAN
  BY DEF InputTypes, Decoders
<1>2. (dec.emitted)' \in BOOLEAN
  BY <1>1
<1>3. CASE backend' = "evdev"
  BY <1>1, <1>3 DEF Source, Touching
<1>4. CASE backend' # "evdev"
  BY <1>4 DEF Source, Touching
<1> QED
  BY <1>3, <1>4

(* Being level with the kernel is agreeing with all it has told. *)
LEMMA LevelAgrees ==
  ASSUME NEW g, NEW d
  PROVE  /\ Level(g, told, d) => Agree(g, told, d)
         /\ \A t : Agree(g, t, d) => Level(g, t, d)
<1>1. Level(g, told, d) => Agree(g, told, d)
  BY DEF Level, Agree, Knows, Where
<1>2. ASSUME NEW t, Agree(g, t, d) PROVE Level(g, t, d)
  BY <1>2 DEF Level, Agree, Knows, Where
<1> QED
  BY <1>1, <1>2

(* What is known of a slot, field by field. *)
LEMMA KnownSlot ==
  ASSUME NEW t, NEW d, NEW s, NEW p, Knows(t, d, s, p)
  PROVE  (d.slots[s - MainSlot].on <=> p # None) /\ d.slots[s - MainSlot].at = t.at[s]
<1> DEFINE y == p # None
           c == d.slots[s - MainSlot]
<1>1. c = [at |-> t.at[s], on |-> y] /\ y \in BOOLEAN
  BY DEF Knows
<1> HIDE DEF y, c
<1>2. c.on = y /\ c.at = t.at[s]
  BY <1>1
<1> QED
  BY <1>2 DEF c, y

(* A frame keeps the decoder level with the kernel as long as none was lost. *)
LEMMA FrameOfTouch ==
  ASSUME ContactInv, NEW f \in Fingers
  PROVE  LET t == Frame(f).told
             d == Frame(f).dec IN
         /\ f \in Fingered /\ t \in Reports /\ d \in Decoders
         /\ d.emitted <=> dec.emitted
         /\ dec.emitted => d.tracked = dec.tracked /\ d.last = dec.last /\ d.tracked # None
         /\ backend = "evdev" /\ drops = 0 =>
              /\ Level(f, t, d)
              /\ \A s \in Slot : f[s] = None => t.at[s] = told.at[s]
<1> DEFINE t == Frame(f).told
           d == Frame(f).dec
<1>1. f \in Fingered
  BY DEF Fingers, Fingered
<1>2. t \in Reports /\ Goes(dec, d) /\ (Agree(finger, told, dec) => Agree(f, t, d))
  BY <1>1, FrameRead DEF ContactInv, InputTypes
<1>3. dec \in Decoders /\ Sent(dec)
  BY DEF ContactInv, InputTypes
<1> HIDE DEF t, d
<1>4. d \in Decoders
  BY <1>2 DEF Goes
<1>5. dec.emitted => dec.tracked # None
  BY <1>3 DEF Sent
<1>6. dec.tracked # None => d.tracked = dec.tracked /\ d.emitted = dec.emitted /\ d.last = dec.last
  BY <1>2 DEF Goes, SameContact
<1>7. dec.tracked = None /\ ~ dec.emitted => ~ d.emitted
  BY <1>2 DEF Goes
<1>8. d.emitted <=> dec.emitted
  BY <1>5, <1>6, <1>7
<1>9. dec.emitted => d.tracked = dec.tracked /\ d.last = dec.last /\ d.tracked # None
  BY <1>5, <1>6
<1>10. ASSUME backend = "evdev", drops = 0
       PROVE  Level(f, t, d) /\ \A s \in Slot : f[s] = None => t.at[s] = told.at[s]
  <2>1. Agree(f, t, d)
    BY <1>2, <1>10, LevelAgrees DEF ContactInv, InStep
  <2> QED
    BY <2>1, LevelAgrees DEF Agree, Where
<1> QED
  BY <1>1, <1>2, <1>4, <1>8, <1>9, <1>10 DEF t, d

(* A frame of the panel keeps the contact one. *)
LEMMA TouchKeeps ==
  ASSUME ContactInv, DoTouch
  PROVE  ContactInv'
<1>1. PICK f \in Fingers : Touch(f)
  BY DEF DoTouch
<1> DEFINE t == Frame(f).told
           d == Frame(f).dec
           r == FlushSyn(d)
<1>2. /\ told' = t /\ dec' = r.dec /\ out' = out \o r.out /\ finger' = f
      /\ backend = "evdev" /\ UNCHANGED <<drops, backend, fw, pending, app, grab>>
  BY <1>1 DEF Touch, DoTouch
<1>3. /\ f \in Fingered /\ t \in Reports /\ d \in Decoders
      /\ d.emitted <=> dec.emitted
      /\ dec.emitted => d.tracked = dec.tracked /\ d.last = dec.last /\ d.tracked # None
      /\ drops = 0 => Level(f, t, d) /\ \A s \in Slot : f[s] = None => t.at[s] = told.at[s]
  BY <1>2, FrameOfTouch
<1> HIDE DEF t, d
<1>4. /\ r.dec \in Decoders /\ r.dec.slot = d.slot /\ r.dec.slots = d.slots /\ Sent(r.dec)
      /\ (d.tracked = None => \A i \in Index : ~ d.slots[i].on)
           => (r.dec.tracked = None => \A i \in Index : ~ d.slots[i].on)
      /\ \/ /\ r.out = <<>> /\ (r.dec.emitted <=> d.emitted)
            /\ d.emitted => r.dec.last = d.last
         \/ \E e \in Ev :
              /\ r.out = <<e>>
              /\ \/ e.kind = "down" /\ ~ d.emitted /\ r.dec.emitted /\ e.at = r.dec.last
                 \/ e.kind = "move" /\ d.emitted /\ r.dec.emitted /\ e.at = r.dec.last
                 \/ /\ e.kind = "up" /\ ~ r.dec.emitted /\ d.tracked # None
                    /\ ~ d.slots[SlotIndex(d.tracked)].on
                    /\ e.at = d.slots[SlotIndex(d.tracked)].at
  BY <1>3, FlushedContact
<1> HIDE DEF r
<1>5. InputTypes'
  BY <1>2, <1>3, <1>4 DEF ContactInv, InputTypes
<1>6. PressOK' /\ Travelled' /\ (Pressed' <=> Pressed) /\ Pressed' \in BOOLEAN
  BY <1>2, AppAlone DEF ContactInv
<1>7. InStep'
  <2> SUFFICES ASSUME drops = 0
               PROVE  Level(f, t, r.dec)
    BY <1>2 DEF InStep
  <2>1. Level(f, t, d)
    BY <1>3
  <2>2. InSlot(t, r.dec) /\ \A s \in Slot : Knows(t, r.dec, s, f[s])
    BY <1>4, <2>1 DEF Level, InSlot, Knows
  <2>3. \A s \in Slot : d.slots[s - MainSlot].on <=> f[s] # None
    BY <2>1, KnownSlot DEF Level
  <2>4. d.tracked = None => \A i \in Index : ~ d.slots[i].on
    <3> SUFFICES ASSUME d.tracked = None, NEW i \in Index
                 PROVE  ~ d.slots[i].on
      OBVIOUS
    <3>1. i + MainSlot \in Slot /\ (i + MainSlot) - MainSlot = i
      BY TouchAssumption, SlotsHaveIndices DEF Index
    <3>2. f[i + MainSlot] = None
      BY <2>1, <3>1 DEF Level
    <3> QED
      BY <2>3, <3>1, <3>2
  <2>5. r.dec.tracked = None => \A s \in Slot : f[s] = None
    BY <1>4, <2>3, <2>4, SlotsHaveIndices
  <2> QED
    BY <2>2, <2>5 DEF Level
<1>8. Source = dec.emitted /\ Touching = dec.emitted /\ TouchAt = dec.last
  BY <1>2 DEF Source, Touching, TouchAt
<1>9. Source' = r.dec.emitted /\ Touching' = r.dec.emitted /\ TouchAt' = r.dec.last
  BY <1>2 DEF Source, Touching, TouchAt
<1>10. Source' \in BOOLEAN /\ Touching' \in BOOLEAN
  BY <1>5, SourceTyped
<1>11. out \in Seq(Ev)
  BY DEF ContactInv, LineOK, Line
<1>12. LineOK'
  <2>1. CASE r.out = <<>> /\ (r.dec.emitted <=> d.emitted) /\ (d.emitted => r.dec.last = d.last)
    <3>1. out' = out
      BY <1>2, <1>11, <2>1
    <3>2. /\ Source => Source'
          /\ Touching => Touching' /\ TouchAt' = TouchAt
      BY <1>3, <1>8, <1>9, <2>1
    <3> QED
      BY <1>2, <1>6, <1>10, <3>1, <3>2, LineWaits DEF ContactInv
  <2>2. ASSUME NEW e \in Ev, r.out = <<e>>,
               \/ e.kind = "down" /\ ~ d.emitted /\ r.dec.emitted /\ e.at = r.dec.last
               \/ e.kind = "move" /\ d.emitted /\ r.dec.emitted /\ e.at = r.dec.last
               \/ /\ e.kind = "up" /\ ~ r.dec.emitted /\ d.tracked # None
                  /\ ~ d.slots[SlotIndex(d.tracked)].on
                  /\ e.at = d.slots[SlotIndex(d.tracked)].at
        PROVE  LineOK'
    <3>1. out' = Append(out, e)
      BY <1>2, <1>11, <2>2
    <3>2. Ends(e) <=> e.kind \in {"up", "long"}
      BY DEF Ends
    <3>3. Moves(e) <=> e.kind \in {"down", "move"}
      BY DEF Moves
    <3>4. /\ Source => Source' \/ Ends(e)
          /\ e.kind = "down" => ~ Source /\ Source'
          /\ Moves(e) => Touching' /\ e.at = TouchAt'
      BY <1>3, <1>8, <1>9, <2>2, <3>2, <3>3
    <3>5. ASSUME drops = 0, e.kind = "up", Touching
          PROVE  e.at = TouchAt
      <4> DEFINE i == SlotIndex(d.tracked)
                 s == i + MainSlot
      <4>1. dec.emitted /\ d.tracked = dec.tracked /\ d.tracked # None
        BY <1>3, <1>8, <3>5
      <4>2. ~ d.slots[i].on /\ e.at = d.slots[i].at
        BY <2>2, <3>5
      <4>3. i \in Index /\ s \in Slot /\ s - MainSlot = i
        <5>1. i \in Index
          BY <1>3, <4>1, SlotsHaveIndices DEF Decoders
        <5> HIDE DEF i
        <5> QED
          BY <5>1, TouchAssumption, SlotsHaveIndices DEF Index
      <4> HIDE DEF s
      <4>4. Knows(t, d, s, f[s]) /\ Knows(told, dec, s, finger[s])
        BY <1>2, <1>3, <3>5, <4>3 DEF ContactInv, InStep, Level
      <4>5. f[s] = None /\ d.slots[i].at = t.at[s]
        BY <4>2, <4>3, <4>4, KnownSlot
      <4>6. t.at[s] = told.at[s]
        BY <1>3, <3>5, <4>3, <4>5
      <4>7. dec.slots[i].at = told.at[s]
        BY <4>3, <4>4, KnownSlot
      <4>8. dec.last = dec.slots[i].at
        BY <4>1 DEF ContactInv, Sent
      <4> QED
        BY <1>8, <4>2, <4>5, <4>6, <4>7, <4>8
    <3> QED
      BY <1>2, <1>10, <3>1, <3>4, <3>5, LineGrows DEF ContactInv
  <2> QED
    BY <1>4, <2>1, <2>2
<1> QED
  BY <1>2, <1>4, <1>5, <1>6, <1>7, <1>12 DEF ContactInv, Sent

---------------------------------------------------------------------------
(* ... the PocketBook firmware and the clock, ...                          *)

(* The finger that is followed is one of the slots.                        *)
LEMMA MainIsSlot ==
  ASSUME finger \in Fingered
  PROVE  MainSlot \in Slot /\ finger[MainSlot] \in Place \union {None} /\ Place \subseteq Spot
<1>1. MainSlot \in Slot
  BY TouchAssumption DEF Slot
<1> QED
  BY <1>1 DEF Fingered, Spot

(* An application that handles no event keeps its press. *)
LEMMA AppCalm ==
  ASSUME ContactInv, app' \in App, grab' = grab,
         app'.press = None <=> app.press = None, app.press # None => app'.press.at = app.press.at,
         app'.total = app.total, app'.last = app.last, app'.seen = app.seen, app'.eaten = app.eaten,
         app'.open = app.open, app'.acts \in {0, app.acts}
  PROVE  PressOK' /\ Travelled' /\ (Pressed' <=> Pressed) /\ Pressed' \in BOOLEAN
<1>1. PressOK /\ Travelled
  BY DEF ContactInv
<1>2. PressOK'
  BY <1>1 DEF PressOK
<1>3. (Pressed' <=> Pressed) /\ Pressed' \in BOOLEAN
  BY DEF Pressed
<1>4. Travelled'
  BY <1>1, <1>3 DEF Travelled, Pressed
<1> QED
  BY <1>2, <1>3, <1>4

(* The fingers and what waits of them, as the application goes on.          *)
LEMMA InputCalm ==
  ASSUME ContactInv, UNCHANGED <<finger, told, dec, drops, backend>>, fw' \in Fw,
         fw'.long = fw.long, fw'.still = fw.still
  PROVE  /\ InputTypes' /\ Sent(dec)' /\ InStep' /\ Source' = Source /\ Touching' = Touching
         /\ TouchAt' = TouchAt /\ Source' \in BOOLEAN /\ Touching' \in BOOLEAN
<1>1. InputTypes' /\ Sent(dec)'
  BY DEF ContactInv, InputTypes, Sent
<1>2. InStep'
  BY DEF ContactInv, InStep
<1>3. Source' = Source /\ Touching' = Touching /\ TouchAt' = TouchAt
  BY DEF Source, Touching, TouchAt
<1> QED
  BY <1>1, <1>2, <1>3, SourceTyped

(* A step that neither queues nor handles an event keeps the contact one. *)
LEMMA Calm ==
  ASSUME ContactInv, UNCHANGED <<finger, told, dec, drops, backend, out>>, fw' \in Fw,
         fw'.long = fw.long, fw'.still = fw.still,
         PressOK', Travelled', Pressed' \in BOOLEAN, Pressed' => Pressed /\ app'.last = app.last
  PROVE  ContactInv'
<1>1. /\ InputTypes' /\ Sent(dec)' /\ InStep' /\ Source' = Source /\ Touching' = Touching
      /\ TouchAt' = TouchAt /\ Source' \in BOOLEAN /\ Touching' \in BOOLEAN
  BY InputCalm
<1>2. LineOK'
  BY <1>1, LineWaits DEF ContactInv
<1> QED
  BY <1>1, <1>2 DEF ContactInv

(* So does a frame that is lost: from then on nothing is promised of it. *)
LEMMA OverflowKeeps ==
  ASSUME ContactInv, DoOverflow
  PROVE  ContactInv'
<1>1. PICK f \in Fingers : Overflow(f)
  BY DEF DoOverflow
<1> DEFINE t == Frame(f).told
<1>2. /\ told' = t /\ finger' = f /\ drops' = drops + 1 /\ drops < MaxDrops
      /\ backend = "evdev" /\ UNCHANGED <<dec, out, backend, fw, pending, app, grab>>
  BY <1>1 DEF Overflow, DoOverflow
<1>3. f \in Fingered /\ t \in Reports
  BY FrameOfTouch
<1> HIDE DEF t
<1>4. drops' \in 0 .. MaxDrops /\ drops' # 0
  <2>1. drops \in 0 .. MaxDrops /\ MaxDrops \in Nat
    BY TouchAssumption DEF ContactInv, InputTypes
  <2> QED
    BY <1>2, <2>1
<1>5. InputTypes'
  BY <1>2, <1>3, <1>4 DEF ContactInv, InputTypes
<1>6. PressOK' /\ Travelled' /\ (Pressed' <=> Pressed) /\ Pressed' \in BOOLEAN
  BY <1>2, AppAlone DEF ContactInv
<1>7. Source' \in BOOLEAN /\ Touching' \in BOOLEAN
  BY <1>5, SourceTyped
<1>8. Source' = Source /\ Touching' = Touching /\ TouchAt' = TouchAt
  BY <1>2 DEF Source, Touching, TouchAt
<1>9. LineOK'
  BY <1>2, <1>4, <1>6, <1>7, <1>8, LineWaits DEF ContactInv
<1> QED
  BY <1>2, <1>4, <1>5, <1>6, <1>9 DEF ContactInv, InStep, Sent

(* The pointer events of the firmware are one contact. *)
LEMMA GestureKeeps ==
  ASSUME ContactInv, NEW p \in Place \union {None}, Gesture(p)
  PROVE  ContactInv'
<1> DEFINE old == finger[MainSlot]
           k == IF old = None THEN "down" ELSE IF p = None THEN "up" ELSE "move"
           at == IF p = None THEN old ELSE p
           e == Event(k, at)
           no == FALSE
           fresh == old = None
<1>1. /\ backend = "inkview" /\ p # old
      /\ finger' = [finger EXCEPT ![MainSlot] = p] /\ out' = Append(out, e)
      /\ fw' = [fw EXCEPT !.long = no, !.still = fresh]
      /\ UNCHANGED <<told, dec, drops, backend, pending, app, grab>>
  BY DEF Gesture
<1>2. finger \in Fingered /\ fw \in Fw
  BY DEF ContactInv, InputTypes
<1>3. MainSlot \in Slot /\ old \in Place \union {None} /\ Place \subseteq Spot
  BY <1>2, MainIsSlot
<1>4. finger' \in Fingered /\ finger'[MainSlot] = p
  BY <1>1, <1>2, <1>3 DEF Fingered
<1>5. fw' \in Fw /\ fw'.long = no /\ fw'.still = fresh
  <2>1. no \in BOOLEAN /\ fresh \in BOOLEAN
    OBVIOUS
  <2> HIDE DEF no, fresh
  <2> QED
    BY <1>1, <1>2, <2>1 DEF Fw
<1>6. InputTypes'
  BY <1>1, <1>4, <1>5 DEF ContactInv, InputTypes
<1>7. PressOK' /\ Travelled' /\ (Pressed' <=> Pressed) /\ Pressed' \in BOOLEAN
  BY <1>1, AppAlone DEF ContactInv
<1>8. e \in Ev /\ e.kind = k /\ e.at = at
  <2>1. k \in Gestures /\ at \in Spot
    BY <1>1, <1>3 DEF Gestures
  <2> HIDE DEF k, at
  <2> QED
    BY <2>1 DEF Event, Ev
<1>9. Source = (old # None /\ ~ fw.long) /\ Touching = (old # None) /\ TouchAt = old
  BY <1>1 DEF Source, Touching, TouchAt
<1>10. Source' = (p # None) /\ Touching' = (p # None) /\ TouchAt' = p
  BY <1>1, <1>4, <1>5 DEF Source, Touching, TouchAt
<1> HIDE DEF e
<1>11. (Ends(e) <=> k \in {"up", "long"}) /\ (Moves(e) <=> k \in {"down", "move"})
  BY <1>8 DEF Ends, Moves
<1>12. /\ Source => Source' \/ Ends(e)
       /\ e.kind = "down" => ~ Source /\ Source'
       /\ Moves(e) => Touching' /\ e.at = TouchAt'
       /\ e.kind = "up" /\ Touching => e.at = TouchAt
  <2>1. CASE old = None
    BY <1>1, <1>8, <1>9, <1>10, <1>11, <2>1
  <2>2. CASE old # None /\ p = None
    BY <1>8, <1>9, <1>10, <1>11, <2>2
  <2>3. CASE old # None /\ p # None
    BY <1>8, <1>9, <1>10, <1>11, <2>3
  <2> QED
    BY <2>1, <2>2, <2>3
<1>13. LineOK'
  BY <1>1, <1>6, <1>8, <1>12, LineGrows, SourceTyped DEF ContactInv
<1> QED
  BY <1>1, <1>6, <1>7, <1>13 DEF ContactInv, InStep, Sent

(* So are they with the long press it reports. *)
LEMMA GestureLongKeeps ==
  ASSUME ContactInv, GestureLong
  PROVE  ContactInv'
<1> DEFINE old == finger[MainSlot]
           k == "long"
           e == Event(k, old)
           yes == TRUE
<1>1. /\ backend = "inkview" /\ fw.still /\ ~ fw.long
      /\ out' = Append(out, e) /\ fw' = [fw EXCEPT !.long = yes]
      /\ UNCHANGED <<finger, told, dec, drops, backend, pending, app, grab>>
  BY DEF GestureLong
<1>2. finger \in Fingered /\ fw \in Fw /\ old # None
  BY <1>1 DEF ContactInv, InputTypes
<1>3. old \in Place /\ Place \subseteq Spot
  BY <1>2, MainIsSlot
<1>4. fw' \in Fw /\ fw'.long = yes /\ fw'.still = fw.still
  <2>1. yes \in BOOLEAN
    OBVIOUS
  <2> HIDE DEF yes
  <2> QED
    BY <1>1, <1>2, <2>1 DEF Fw
<1>5. InputTypes'
  BY <1>1, <1>4 DEF ContactInv, InputTypes
<1>6. PressOK' /\ Travelled' /\ (Pressed' <=> Pressed) /\ Pressed' \in BOOLEAN
  BY <1>1, AppAlone DEF ContactInv
<1>7. e \in Ev /\ e.kind = k
  <2>1. k \in Gestures
    BY DEF Gestures
  <2> HIDE DEF k, old
  <2> QED
    BY <1>3, <2>1 DEF Event, Ev
<1> HIDE DEF e
<1>8. Ends(e) /\ ~ Moves(e) /\ e.kind # "down" /\ e.kind # "up"
  BY <1>7 DEF Ends, Moves
<1>9. LineOK'
  BY <1>1, <1>5, <1>7, <1>8, LineGrows, SourceTyped DEF ContactInv
<1> QED
  BY <1>1, <1>5, <1>6, <1>9 DEF ContactInv, InStep, Sent

(* Once the firmware has taken the contact for a long press, nothing of it  *)
(* is left when the queue is empty.                                         *)
LEMMA QuietSource ==
  ASSUME ContactInv, out = <<>>, ~ Source
  PROVE  ~ Pressed
<1> DEFINE h == Pressed
           l == app.last
           src == Source
           con == Touching
           sp == TouchAt
<1>1. Line(<<>>, h, l, src, con, sp) /\ ~ src
  BY DEF ContactInv, LineOK
<1> HIDE DEF h, l, src, con, sp
<1>2. ~ h
  BY <1>1, NoneHeld
<1> QED
  BY <1>2 DEF h

(* So are they when it keeps the release after one to itself. *)
LEMMA SwallowKeeps ==
  ASSUME ContactInv, Swallow
  PROVE  ContactInv'
<1> DEFINE no == FALSE
<1>1. /\ backend = "inkview" /\ fw.long /\ out = <<>>
      /\ finger' = [finger EXCEPT ![MainSlot] = None]
      /\ fw' = [fw EXCEPT !.long = no, !.still = no]
      /\ UNCHANGED <<told, dec, out, drops, backend, pending, app, grab>>
  BY DEF Swallow
<1>2. finger \in Fingered /\ fw \in Fw
  BY DEF ContactInv, InputTypes
<1>3. finger' \in Fingered
  BY <1>1, <1>2, MainIsSlot DEF Fingered
<1>4. fw' \in Fw /\ ~ fw'.still
  <2>1. no \in BOOLEAN /\ ~ no
    OBVIOUS
  <2> HIDE DEF no
  <2> QED
    BY <1>1, <1>2, <2>1 DEF Fw
<1>5. InputTypes'
  BY <1>1, <1>3, <1>4 DEF ContactInv, InputTypes
<1>6. PressOK' /\ Travelled' /\ (Pressed' <=> Pressed) /\ Pressed' \in BOOLEAN
  BY <1>1, AppAlone DEF ContactInv
<1>7. ~ Source
  BY <1>1 DEF Source
<1>8. ~ Pressed
  BY <1>1, <1>7, QuietSource
<1>9. LineOK'
  BY <1>1, <1>5, <1>6, <1>8, LineEmpty, SourceTyped
<1> QED
  BY <1>1, <1>5, <1>6, <1>9 DEF ContactInv, InStep, Sent

(* The keyboard commits its text apart from the contact. *)
LEMMA CommitKeeps ==
  ASSUME ContactInv, NEW t, Commit(t)
  PROVE  ContactInv'
<1> DEFINE no == FALSE
<1>1. /\ fw' = [fw EXCEPT !.kbd = no]
      /\ UNCHANGED <<finger, told, dec, drops, out, backend, app, grab>>
  BY DEF Commit, touchVars
<1>2. fw' \in Fw /\ fw'.long = fw.long /\ fw'.still = fw.still
  <2>1. no \in BOOLEAN /\ fw \in Fw
    BY DEF ContactInv, InputTypes
  <2> HIDE DEF no
  <2> QED
    BY <1>1, <2>1 DEF Fw
<1>3. PressOK' /\ Travelled' /\ (Pressed' <=> Pressed) /\ Pressed' \in BOOLEAN
  BY <1>1, AppAlone DEF ContactInv
<1> QED
  BY <1>1, <1>2, <1>3, Calm

(* The hold that tick finds does not end the contact. *)
LEMMA HoldKeeps ==
  ASSUME ContactInv, Hold
  PROVE  ContactInv'
<1> DEFINE yes == TRUE
           x == [app.press EXCEPT !.held = yes]
<1>1. /\ app.press # None /\ app' = [app EXCEPT !.press = x]
      /\ UNCHANGED <<finger, told, dec, drops, out, backend, fw, pending, grab>>
  BY DEF Hold, touchVars
<1>2. app \in App /\ fw \in Fw
  BY DEF ContactInv, PressOK, InputTypes
<1>3. x \in [at : Spot, held : BOOLEAN] /\ x.at = app.press.at
  <2>1. app.press \in [at : Spot, held : BOOLEAN] /\ yes \in BOOLEAN
    BY <1>1, <1>2 DEF App
  <2> HIDE DEF yes
  <2> QED
    BY <2>1
<1> HIDE DEF x
<1>4. x # None
  BY <1>3, PressAssumption
<1>5. /\ app' \in App /\ app'.press = x /\ app'.total = app.total /\ app'.last = app.last
      /\ app'.seen = app.seen /\ app'.eaten = app.eaten /\ app'.open = app.open
      /\ app'.acts = app.acts
  BY <1>1, <1>2, <1>3 DEF App
<1>6. PressOK' /\ Travelled' /\ (Pressed' <=> Pressed) /\ Pressed' \in BOOLEAN
  BY <1>1, <1>3, <1>4, <1>5, AppCalm
<1> QED
  BY <1>1, <1>2, <1>5, <1>6, Calm

---------------------------------------------------------------------------
(* ... and the application.                                                *)

(* The travel of a finger is the distance between its rows.                *)
LEMMA TravelBounded ==
  ASSUME NEW a, NEW l, NEW p, a \in Spot, l \in Spot, p \in Spot
  PROVE  Bounded((Row(a) - Row(l)) + (Row(l) - Row(p))) = Row(a) - Row(p)
<1> DEFINE n == Row(a) - Row(p)
<1>1. Row(a) \in 0 .. MaxTravel /\ Row(l) \in Int /\ Row(p) \in 0 .. MaxTravel
  BY RowsAreNumbers
<1>2. (Row(a) - Row(l)) + (Row(l) - Row(p)) = n /\ n \in Int /\ n \in -MaxTravel .. MaxTravel
  BY <1>1, PressAssumption
<1> HIDE DEF n
<1>3. Bounded(n) = n
  BY <1>2, BoundKeeps
<1> QED
  BY <1>2, <1>3 DEF n

(* Handling the first event of the queue keeps the contact one. *)
LEMMA DeliverKeeps ==
  ASSUME ScreenInv, ContactInv, Deliver
  PROVE  ContactInv'
<1> DEFINE e == Head(out)
<1>1. /\ out # <<>> /\ OnEvent(e) /\ out' = Tail(out)
      /\ UNCHANGED <<finger, told, dec, drops, backend>>
  BY DEF Deliver
<1>2. PressOK /\ Travelled /\ fw \in Fw /\ app \in App
  BY DEF ContactInv, InputTypes, PressOK
<1>3. out \in Seq(Ev)
  BY DEF ContactInv, LineOK, Line
<1>4. e \in Ev /\ e.kind \in Gestures /\ e.at \in Spot
  <2>1. e \in Ev
    BY <1>1, <1>3, HeadTailProperties
  <2> HIDE DEF e
  <2> QED
    BY <2>1 DEF Ev
<1> HIDE DEF e
<1>5. Effect(e)
  BY <1>1, <1>2, <1>4, EventEffect
<1>6. PressOK' /\ fw' \in Fw /\ fw'.long = fw.long /\ fw'.still = fw.still
  BY <1>5 DEF Effect
<1>7. /\ InputTypes' /\ Sent(dec)' /\ InStep' /\ Source' = Source /\ Touching' = Touching
      /\ TouchAt' = TouchAt /\ Source' \in BOOLEAN /\ Touching' \in BOOLEAN
  BY <1>1, <1>6, InputCalm
<1>8. Pressed' \in BOOLEAN
  BY DEF Pressed
<1>9. Pressed' => pending = None
  BY <1>5 DEF Effect, Pressed
<1>10. Pressed' => /\ e.kind = "down" \/ (e.kind = "move" /\ Pressed)
                   /\ app'.last = e.at
  BY <1>4, <1>5, <1>9 DEF Effect, Pressed, Gestures
<1> DEFINE h == Pressed
           l == app.last
           src == Source
           con == Touching
           sp == TouchAt
           g == Pressed'
           m == app'.last
<1>11. Line(out, h, l, src, con, sp) /\ (drops = 0 => Releases(out, h, l))
  BY DEF ContactInv, LineOK
<1>12. Shows(Head(out), h, g, m)
  BY <1>8, <1>10 DEF Shows, e
<1>13. Source' = src /\ Touching' = con /\ TouchAt' = sp
  BY <1>7
<1> HIDE DEF h, l, src, con, sp, g, m
<1>14. /\ Line(Tail(out), g, m, src, con, sp)
       /\ Releases(out, h, l) => Releases(Tail(out), g, m)
       /\ Head(out).kind = "down" => ~ h
  BY <1>1, <1>11, <1>12, Taken
<1>15. LineOK'
  BY <1>1, <1>11, <1>13, <1>14 DEF LineOK, g, m
<1>16. Travelled'
  <2> SUFFICES ASSUME Pressed'
               PROVE  app'.last \in Spot /\ app'.total = Row(app'.press.at) - Row(app'.last)
    BY DEF Travelled
  <2>1. pending = None /\ app'.last = e.at /\ app'.eaten = app.eaten
    BY <1>4, <1>5, <1>9, <1>10 DEF Effect
  <2>2. CASE e.kind = "down"
    <3>1. ~ Pressed
      BY <1>14, <2>2 DEF e, h
    <3>2. ~ app.eaten /\ app.press = None /\ app.total = 0
      BY <1>2, <2>1, <3>1 DEF Pressed, PressOK
    <3>3. app'.press.at = e.at /\ app'.total = 0
      BY <1>5, <2>1, <2>2, <3>2 DEF Effect
    <3>4. Row(e.at) \in Int
      BY <1>4, RowsAreNumbers
    <3> QED
      BY <1>4, <2>1, <3>3, <3>4
  <2>3. CASE e.kind = "move" /\ Pressed
    <3>1. app.press # None /\ app.last \in Spot /\ app.total = Row(app.press.at) - Row(app.last)
      BY <1>2, <2>3 DEF Pressed, Travelled
    <3>2. app.last # None /\ app.press.at \in Spot
      <4>1. app.press \in [at : Spot, held : BOOLEAN]
        BY <1>2, <3>1 DEF App
      <4> QED
        BY <3>1, <4>1, SpotsAreNumbers
    <3>3. app'.press = app.press /\ app'.total = Bounded(app.total + (Row(app.last) - Row(e.at)))
      BY <1>5, <2>1, <2>3, <3>1, <3>2 DEF Effect
    <3>4. Bounded((Row(app.press.at) - Row(app.last)) + (Row(app.last) - Row(e.at)))
            = Row(app.press.at) - Row(e.at)
      BY <1>4, <3>1, <3>2, TravelBounded
    <3> QED
      BY <1>4, <2>1, <3>1, <3>3, <3>4
  <2> QED
    BY <1>10, <2>2, <2>3
<1> QED
  BY <1>6, <1>7, <1>15, <1>16 DEF ContactInv

(* The long press that tick reports keeps it one. *)
LEMMA TickKeeps ==
  ASSUME ScreenInv, ContactInv, TickLong
  PROVE  ContactInv'
<1> DEFINE k == "long"
           p == app.press.at
           e == Event(k, p)
<1>1. /\ out = <<>> /\ app.press # None /\ OnEvent(e)
      /\ UNCHANGED <<finger, told, dec, out, drops, backend>>
  BY DEF TickLong, touchVars
<1>2. PressOK /\ fw \in Fw /\ app \in App
  BY DEF ContactInv, InputTypes, PressOK
<1>3. p \in Spot
  BY <1>1, <1>2 DEF App
<1>4. e.kind = k /\ e.at = p /\ k \in Gestures
  BY DEF Event, Gestures
<1> HIDE DEF e
<1>5. Effect(e)
  BY <1>1, <1>2, <1>3, <1>4, EventEffect
<1>6. PressOK' /\ fw' \in Fw /\ fw'.long = fw.long /\ fw'.still = fw.still
  BY <1>5 DEF Effect
<1>7. ~ Pressed'
  <2>1. pending # None => app'.eaten
    BY <1>5 DEF Effect
  <2>2. pending = None => app'.press = None
    BY <1>4, <1>5 DEF Effect
  <2> QED
    BY <2>1, <2>2 DEF Pressed
<1>8. Pressed' = FALSE
  BY <1>7 DEF Pressed
<1>9. Travelled'
  BY <1>7 DEF Travelled
<1>10. /\ InputTypes' /\ Sent(dec)' /\ InStep' /\ Source' \in BOOLEAN /\ Touching' \in BOOLEAN
  BY <1>1, <1>6, InputCalm
<1>11. LineOK'
  BY <1>1, <1>8, <1>10, LineEmpty
<1> QED
  BY <1>6, <1>9, <1>10, <1>11 DEF ContactInv

(* So does the back key. *)
LEMMA BackKeeps ==
  ASSUME ScreenInv, ContactInv, BackKey
  PROVE  ContactInv'
<1> DEFINE b == IF pending # None THEN Drained(app)
                ELSE IF app.overlay # "None" THEN SetOverlay(app, "None")
                ELSE IF app.tab = "Search" THEN LeaveSearch(app) ELSE app
<1>1. /\ app' = b /\ UNCHANGED <<finger, told, dec, out, drops, backend, grab>>
      /\ IF pending # None THEN pending' = None /\ UNCHANGED fw ELSE Keyboard(b)
  BY DEF BackKey, touchVars
<1>2. PressOK /\ fw \in Fw /\ app \in App
  BY DEF ContactInv, InputTypes, PressOK
<1>3. b \in App /\ Same(app, b)
  <2>1. pending # None => Drained(app) \in App /\ Same(app, Drained(app))
    BY <1>2, DrainedSame DEF ScreenInv
  <2>2. SetOverlay(app, "None") \in App /\ Same(app, SetOverlay(app, "None"))
    <3> DEFINE o == "None"
               t == "Library"
               x == TRUE
               n == 0
    <3>1. o \in Overlay /\ t \in Tab /\ x \in BOOLEAN /\ n \in 0 .. MaxScroll
      BY PressAssumption DEF Overlay, Tab
    <3> HIDE DEF o, t, x, n
    <3>2. SetOverlay(app, o) \in App /\ Same(app, SetOverlay(app, o))
      BY <1>2, <3>1, PageOps
    <3> QED
      BY <3>2 DEF o
  <2>3. LeaveSearch(app) \in App /\ Same(app, LeaveSearch(app))
    <3> DEFINE o == "None"
               t == "Library"
               x == FALSE
               n == 0
               c == [app EXCEPT !.kb = x]
               d == [c EXCEPT !.tab = t]
    <3>1. o \in Overlay /\ t \in Tab /\ x \in BOOLEAN /\ n \in 0 .. MaxScroll
      BY PressAssumption DEF Overlay, Tab
    <3>2. LeaveSearch(app) = Refresh(d)
      BY DEF LeaveSearch
    <3> HIDE DEF o, t, x, n
    <3>3. c \in App /\ Same(app, c)
      BY <1>2, <3>1, PageOps
    <3> HIDE DEF c
    <3>4. d \in App /\ Same(c, d)
      BY <3>1, <3>3, PageOps
    <3> HIDE DEF d
    <3>5. Refresh(d) \in App /\ Same(d, Refresh(d))
      BY <3>1, <3>4, PageOps
    <3> QED
      BY <3>2, <3>3, <3>4, <3>5 DEF Same, SamePress
  <2>4. Same(app, app)
    BY DEF Same, SamePress
  <2> QED
    BY <1>2, <2>1, <2>2, <2>3, <2>4
<1> HIDE DEF b
<1>4. fw' \in Fw /\ fw'.long = fw.long /\ fw'.still = fw.still
  <2>1. CASE pending # None
    BY <1>1, <1>2, <2>1
  <2>2. CASE pending = None
    <3>1. Keyboard(b) /\ app.kb \in BOOLEAN /\ b.kb \in BOOLEAN
      BY <1>1, <1>2, <1>3, <2>2 DEF App
    <3> QED
      BY <1>2, <3>1, KeyboardKeeps
  <2> QED
    BY <2>1, <2>2
<1>5. PressOK' /\ Travelled' /\ (Pressed' <=> Pressed) /\ Pressed' \in BOOLEAN
  BY <1>1, <1>3, AppCalm DEF Same, SamePress
<1> QED
  BY <1>1, <1>3, <1>4, <1>5, Calm DEF Same, SamePress

(* present() shows the page of the application and leaves the press alone. *)
LEMMA PresentKeeps ==
  ASSUME ScreenInv, ContactInv, Present
  PROVE  ContactInv' /\ app' \in App
         /\ \E a \in App : shown' = a.overlay /\ (synced' = synced \/ synced' = View(a))
<1> DEFINE a == IF pending # None THEN Drained(app) ELSE app
           off == FALSE
           zero == 0
           b == [a EXCEPT !.dirty = off]
<1>1. /\ app' = Counted(b) /\ shown' = a.overlay
      /\ (synced' = synced \/ synced' = View(a))
      /\ UNCHANGED <<finger, told, dec, out, drops, backend, fw, grab>>
  BY DEF Present, touchVars
<1>2. PressOK /\ fw \in Fw /\ app \in App
  BY DEF ContactInv, InputTypes, PressOK
<1>3. a \in App /\ Same(app, a)
  <2>1. pending # None => Drained(app) \in App /\ Same(app, Drained(app))
    BY <1>2, DrainedSame DEF ScreenInv
  <2>2. Same(app, app)
    BY DEF Same, SamePress
  <2> QED
    BY <1>2, <2>1, <2>2
<1> HIDE DEF a
<1>4. b \in App /\ Same(a, b)
  <2>1. off \in BOOLEAN
    OBVIOUS
  <2> HIDE DEF off
  <2> QED
    BY <1>3, <2>1 DEF App, Same, SamePress
<1> HIDE DEF b
<1>5. app' \in App /\ SamePress(b, app') /\ app'.acts \in {0, b.acts}
  <2>1. CASE b.open
    BY <1>1, <1>4, <2>1 DEF Counted, SamePress
  <2>2. CASE ~ b.open
    <3>1. app' = [b EXCEPT !.acts = zero, !.launched = off]
      BY <1>1, <2>2 DEF Counted
    <3>2. zero \in 0 .. 3 /\ off \in BOOLEAN /\ zero = 0
      OBVIOUS
    <3> HIDE DEF zero, off
    <3> QED
      BY <1>4, <3>1, <3>2 DEF App, SamePress
  <2> QED
    BY <2>1, <2>2
<1>6. /\ app'.press = app.press /\ app'.total = app.total /\ app'.last = app.last
      /\ app'.seen = app.seen /\ app'.eaten = app.eaten /\ app'.open = app.open
      /\ app'.acts \in {0, app.acts}
  BY <1>3, <1>4, <1>5 DEF Same, SamePress
<1>7. PressOK' /\ Travelled' /\ (Pressed' <=> Pressed) /\ Pressed' \in BOOLEAN
  BY <1>1, <1>5, <1>6, AppCalm
<1>8. ContactInv'
  BY <1>1, <1>2, <1>6, <1>7, Calm
<1> QED
  BY <1>1, <1>3, <1>5, <1>8

---------------------------------------------------------------------------
(* The whole device.                                                       *)

Pages == {View(a) : a \in [overlay : Overlay, tab : Tab, scroll : 0 .. MaxScroll]}
PanelTypes == synced \in Pages /\ shown \in Overlay /\ unflushed \subseteq Region

(* The page of an application is a page of the panel. *)
LEMMA PageOfApp ==
  ASSUME NEW a \in App
  PROVE  View(a) \in Pages
<1> DEFINE b == [overlay |-> a.overlay, tab |-> a.tab, scroll |-> a.scroll]
<1>1. b \in [overlay : Overlay, tab : Tab, scroll : 0 .. MaxScroll]
  BY DEF App
<1>2. View(b) = View(a)
  BY DEF View
<1> HIDE DEF b
<1> QED
  BY <1>1, <1>2 DEF Pages

(* What the panel shows stays a page. *)
LEMMA PanelKeeps ==
  ASSUME ScreenInv, ContactInv, PanelTypes, Present
  PROVE  PanelTypes'
<1>1. PICK a \in App : shown' = a.overlay /\ (synced' = synced \/ synced' = View(a))
  BY PresentKeeps
<1>2. shown' \in Overlay
  BY <1>1 DEF App
<1>3. synced' \in Pages
  BY <1>1, PageOfApp DEF PanelTypes
<1>4. unflushed' \subseteq Region
  <2> DEFINE b == IF pending # None THEN Drained(app) ELSE app
             sync == Changed(b) \/ rolled
             full == Changed(b) /\ b.overlay = "None" /\ shown # "None"
             painted == Painted(b, sync, full)
             flush == Flushed(b, painted)
  <2>1. unflushed' = ((unflushed \union painted) \ flush) \ Strip
    BY DEF Present
  <2> HIDE DEF b, sync, full, flush
  <2>2. painted \subseteq Region
    BY DEF Painted
  <2> HIDE DEF painted
  <2> QED
    BY <2>1, <2>2 DEF PanelTypes
<1> QED
  BY <1>2, <1>3, <1>4 DEF PanelTypes

HandInv == ScreenInv /\ ContactInv /\ PanelTypes

(* Every step keeps the contact one and the page current. *)
LEMMA HandStep ==
  ASSUME HandInv, [Next]_vars
  PROVE  HandInv'
<1>1. ScreenInv'
  BY ScreenStep DEF HandInv
<1>2. ScreenInv /\ ContactInv /\ PanelTypes
  BY DEF HandInv
<1>3. ASSUME UNCHANGED <<synced, shown, unflushed>>
      PROVE  PanelTypes'
  BY <1>2, <1>3 DEF PanelTypes
<1>4. CASE Offscreen(DoTouch)
  BY <1>1, <1>2, <1>3, <1>4, TouchKeeps DEF Offscreen, screenVars, HandInv
<1>5. CASE Offscreen(DoOverflow)
  BY <1>1, <1>2, <1>3, <1>5, OverflowKeeps DEF Offscreen, screenVars, HandInv
<1>6. ASSUME NEW p \in Place \union {None}, Offscreen(Gesture(p))
      PROVE  HandInv'
  BY <1>1, <1>2, <1>3, <1>6, GestureKeeps DEF Offscreen, screenVars, HandInv
<1>7. CASE Offscreen(GestureLong)
  BY <1>1, <1>2, <1>3, <1>7, GestureLongKeeps DEF Offscreen, screenVars, HandInv
<1>8. CASE Offscreen(Swallow)
  BY <1>1, <1>2, <1>3, <1>8, SwallowKeeps DEF Offscreen, screenVars, HandInv
<1>9. ASSUME NEW t \in {"new", "blank", "same"}, Offscreen(Commit(t))
      PROVE  HandInv'
  BY <1>1, <1>2, <1>3, <1>9, CommitKeeps DEF Offscreen, screenVars, HandInv
<1>10. CASE Offscreen(Hold)
  BY <1>1, <1>2, <1>3, <1>10, HoldKeeps DEF Offscreen, screenVars, HandInv
<1>11. CASE Offscreen(Deliver)
  BY <1>1, <1>2, <1>3, <1>11, DeliverKeeps DEF Offscreen, screenVars, HandInv
<1>12. CASE Offscreen(TickLong)
  BY <1>1, <1>2, <1>3, <1>12, TickKeeps DEF Offscreen, screenVars, HandInv
<1>13. CASE Offscreen(BackKey)
  BY <1>1, <1>2, <1>3, <1>13, BackKeeps DEF Offscreen, screenVars, HandInv
<1>14. ASSUME UNCHANGED <<touchVars, pressVars, shown, unflushed>>
       PROVE  HandInv'
  <2>1. UNCHANGED <<finger, told, dec, out, drops, backend, fw, pending, app, grab, synced,
                    shown, unflushed>>
    BY <1>14 DEF touchVars, pressVars
  <2>2. PressOK' /\ Travelled' /\ (Pressed' <=> Pressed) /\ Pressed' \in BOOLEAN
    BY <1>2, <2>1, AppAlone DEF ContactInv
  <2>3. ContactInv'
    BY <1>2, <2>1, <2>2, Calm DEF ContactInv, InputTypes
  <2> QED
    BY <1>1, <1>3, <2>1, <2>3 DEF HandInv
<1>15. CASE Minute
  BY <1>14, <1>15 DEF Minute
<1>16. CASE Present
  BY <1>1, <1>2, <1>16, PresentKeeps, PanelKeeps DEF HandInv
<1>17. CASE UNCHANGED vars
  BY <1>14, <1>17 DEF vars, screenVars
<1> QED
  BY <1>4, <1>5, <1>6, <1>7, <1>8, <1>9, <1>10, <1>11, <1>12, <1>13, <1>15, <1>16, <1>17 DEF Next

(* A device starts with no contact and no event. *)
LEMMA HandStart ==
  ASSUME Init
  PROVE  HandInv
<1>1. ScreenInv
  BY ScreenStart
<1> DEFINE no == FALSE
           zero == 0
           lib == "Library"
           closed == "None"
           a0 == [overlay |-> closed, tab |-> lib, scroll |-> zero, kb |-> no,
                  press |-> None, seen |-> no, total |-> zero, last |-> None, plong |-> no,
                  dirty |-> no, acts |-> zero, eaten |-> no, open |-> no, launched |-> no]
<1>2. app = a0 /\ grab = NoWidget /\ synced = View(app) /\ shown = closed /\ unflushed = {}
  BY DEF Init, PressInit
<1>3. /\ zero = 0 /\ zero \in 0 .. MaxScroll /\ zero \in -MaxTravel .. MaxTravel /\ zero \in 0 .. 3
      /\ no \in BOOLEAN /\ ~ no /\ lib \in Tab /\ closed \in Overlay /\ zero <= 1
  BY PressAssumption DEF Tab, Overlay
<1> HIDE DEF no, zero, lib, closed
<1>4. app \in App /\ app.press = None /\ app.total = 0 /\ ~ app.seen /\ ~ app.eaten /\ app.acts <= 1
      /\ app.acts = 0
  BY <1>2, <1>3 DEF App
<1>5. PressOK
  BY <1>2, <1>4 DEF PressOK
<1>6. Pressed = FALSE /\ Travelled
  BY <1>4 DEF Pressed, Travelled
<1>7. PanelTypes
  BY <1>2, <1>3, <1>4, PageOfApp DEF PanelTypes
<1>8. /\ finger = [s \in Slot |-> None] /\ told = [slot |-> MainSlot, at |-> [s \in Slot |-> 0]]
      /\ dec = NewDecoder /\ out = <<>> /\ drops = 0
      /\ backend \in {"evdev", "inkview"} /\ fw = [long |-> FALSE, still |-> FALSE, kbd |-> FALSE]
  BY DEF Init, TouchInit, PressInit
<1>9. MainSlot \in Slot /\ 0 \in Spot
  BY TouchAssumption DEF Slot, Spot
<1>10. finger \in Fingered /\ told \in Reports /\ drops \in 0 .. MaxDrops /\ fw \in Fw /\ ~ fw.still
  BY <1>8, <1>9, TouchAssumption DEF Fingered, Reports, Fw
<1> DEFINE c == [at |-> 0, on |-> FALSE]
           sl == [i \in Index |-> c]
<1>11. sl \in [Index -> [at : Spot, on : BOOLEAN]]
  BY <1>9
<1>12. /\ dec.slot = 0 /\ dec.tracked = None /\ dec.slots = sl
       /\ dec.emitted = FALSE /\ dec.last = None
       /\ dec = [slot |-> 0, tracked |-> None, slots |-> sl, emitted |-> FALSE, last |-> None]
  BY <1>8 DEF NewDecoder
<1>13. dec \in Decoders
  <2> HIDE DEF sl
  <2> QED
    BY <1>11, <1>12 DEF Decoders
<1>14. InputTypes
  BY <1>8, <1>10, <1>13 DEF InputTypes
<1>15. Sent(dec)
  BY <1>12 DEF Sent
<1>16. InStep
  <2>1. told.slot = MainSlot /\ told.at = [s \in Slot |-> 0]
    BY <1>8
  <2>2. SlotIndex(0) = 0
    BY TouchAssumption DEF SlotIndex, Clamp
  <2>3. InSlot(told, dec)
    BY <1>12, <2>1, <2>2, TouchAssumption DEF InSlot
  <2>4. ASSUME NEW s \in Slot
        PROVE  Knows(told, dec, s, finger[s])
    <3>1. s - MainSlot \in Index /\ finger[s] = None /\ told.at[s] = 0
      BY <1>8, <2>1, SlotsHaveIndices
    <3> DEFINE there == finger[s] # None
               none == FALSE
    <3>2. dec.slots[s - MainSlot] = [at |-> 0, on |-> none]
      BY <1>12, <3>1
    <3>3. there = none
      BY <3>1
    <3> HIDE DEF none
    <3>4. dec.slots[s - MainSlot] = [at |-> told.at[s], on |-> there]
      BY ONLY <3>1, <3>2, <3>3
    <3> QED
      BY <3>1, <3>4 DEF Knows
  <2> QED
    BY <1>8, <2>3, <2>4 DEF InStep, Level
<1>17. LineOK
  <2> DEFINE h == Pressed
             l == app.last
             src == Source
             con == Touching
             sp == TouchAt
  <2>1. h = FALSE /\ src \in BOOLEAN /\ con \in BOOLEAN
    BY <1>6, <1>12 DEF Source, Touching
  <2> HIDE DEF h, l, src, con, sp
  <2>2. Line(<<>>, h, l, src, con, sp) /\ Releases(<<>>, h, l)
    BY <2>1, NothingWaits
  <2> QED
    BY <1>8, <2>2 DEF LineOK, h, l, src, con, sp
<1> QED
  BY <1>1, <1>5, <1>6, <1>7, <1>14, <1>15, <1>16, <1>17 DEF HandInv, ContactInv

(* The invariant is stronger than the property. *)
LEMMA HandIsOneGesture ==
  ASSUME HandInv
  PROVE  OneGesture
<1>1. ScreenInv /\ ContactInv /\ PanelTypes
  BY DEF HandInv
<1>2. InputTypes /\ PressOK /\ Sent(dec) /\ InStep /\ LineOK /\ app \in App
  BY <1>1 DEF ContactInv, PressOK
<1>3. TypeOK
  <2>1. TouchTypeOK
    <3>1. \A i \in 1 .. Len(out) : out[i] \in Ev
      BY <1>2 DEF LineOK, Line
    <3>2. \A i \in 1 .. Len(out) : out[i] \in [kind : {"down", "move", "up", "long"}, at : Spot]
      BY <3>1 DEF Ev, Gestures
    <3> QED
      BY <1>2, <3>2 DEF TouchTypeOK, InputTypes, Fingered, Reports, Decoders
  <2>2. /\ app.overlay \in Overlay /\ app.tab \in Tab /\ app.scroll \in 0 .. MaxScroll
        /\ app.total \in -MaxTravel .. MaxTravel
        /\ app.press \in {None} \union [at : Spot, held : BOOLEAN] /\ app.last \in Spot \union {None}
    BY <1>2 DEF App
  <2>3. PressTypeOK
    BY <1>1, <1>2, <2>1, <2>2
       DEF PressTypeOK, InputTypes, Fw, ScreenInv, PanelTypes, Pages, Overlay, Tab
  <2> QED
    BY <1>1, <2>3 DEF TypeOK, PanelTypes, Overlay
<1>4. PointerIsFinger
  <2> SUFFICES ASSUME backend = "evdev", drops = 0
               PROVE  /\ dec.emitted => /\ dec.tracked # None
                                        /\ finger[SlotIndex(dec.tracked) + MainSlot] = dec.last
                      /\ dec.tracked = None => \A s \in Slot : finger[s] = None
    BY DEF PointerIsFinger
  <2>1. Level(finger, told, dec)
    BY <1>2 DEF InStep
  <2>2. ASSUME dec.emitted
        PROVE  finger[SlotIndex(dec.tracked) + MainSlot] = dec.last
    <3> DEFINE i == SlotIndex(dec.tracked)
               s == i + MainSlot
    <3>1. dec.tracked # None /\ dec.slots[i].on /\ dec.last = dec.slots[i].at
      BY <1>2, <2>2 DEF Sent
    <3>2. i \in Index
      BY <1>2, <3>1, SlotsHaveIndices DEF InputTypes, Decoders
    <3> HIDE DEF i
    <3>3. s \in Slot /\ s - MainSlot = i
      BY <3>2, TouchAssumption, SlotsHaveIndices DEF Index
    <3> HIDE DEF s
    <3>4. Knows(told, dec, s, finger[s])
      BY <2>1, <3>3 DEF Level
    <3>5. finger[s] # None /\ dec.slots[i].at = told.at[s]
      BY <3>1, <3>3, <3>4, KnownSlot
    <3>6. told.at[s] = finger[s]
      BY <3>4, <3>5 DEF Knows
    <3> QED
      BY <3>1, <3>5, <3>6 DEF s, i
  <2> QED
    BY <1>2, <2>1, <2>2 DEF Sent, Level
<1>5. ActsOnce
  BY <1>2 DEF ActsOnce, PressOK
<1>6. PressEnds
  <2> SUFFICES ASSUME out = <<>>, ~ app.eaten,
                      IF backend = "evdev" THEN ~ dec.emitted ELSE finger[MainSlot] = None
               PROVE  grab = NoWidget /\ app.press = None
    BY DEF PressEnds
  <2>1. ~ Source
    BY DEF Source
  <2>2. ~ Pressed
    BY <1>1, <2>1, QuietSource
  <2> QED
    BY <1>2, <2>2 DEF Pressed, PressOK
<1> QED
  BY <1>3, <1>4, <1>5, <1>6 DEF OneGesture

(* One contact is one gesture, for every panel with any number of contacts  *)
(* and any list: the pointer the application is shown is a finger for as    *)
(* long as no frame is lost, a contact acts once, and a contact that has    *)
(* ended leaves no press behind (Decoder::flush_syn, App::on_event).        *)
THEOREM AContactIsOneGesture == Spec => []OneGesture
<1>1. Init => HandInv
  BY HandStart
<1>2. HandInv /\ [Next]_vars => HandInv'
  BY HandStep
<1>3. HandInv => OneGesture
  BY HandIsOneGesture
<1> QED
  BY <1>1, <1>2, <1>3, PTL DEF Spec

Launch ==
  drops = 0 /\ out # <<>> /\ out' # out /\ Head(out).kind = "up"
    /\ app'.launched /\ ~ app.eaten =>
    app.launched \/ (app.press # None /\ Abs(Row(Head(out).at) - Row(app.press.at)) <= 1)

(* The release of a contact launches only near its Down. *)
LEMMA DeliverLaunches ==
  ASSUME HandInv, Deliver
  PROVE  Launch
<1> SUFFICES ASSUME drops = 0, Head(out).kind = "up", app'.launched, ~ app.eaten, ~ app.launched
             PROVE  app.press # None /\ Abs(Row(Head(out).at) - Row(app.press.at)) <= 1
  BY DEF Launch
<1> DEFINE e == Head(out)
           h == Pressed
           l == app.last
           src == Source
           con == Touching
           sp == TouchAt
           g == FALSE
<1>1. /\ out # <<>> /\ OnEvent(e)
  BY DEF Deliver
<1>2. ScreenInv /\ PressOK /\ Travelled /\ fw \in Fw /\ app \in App
  BY DEF HandInv, ContactInv, InputTypes, PressOK
<1>3. Line(out, h, l, src, con, sp) /\ Releases(out, h, l)
  BY DEF HandInv, ContactInv, LineOK
<1>4. Shows(Head(out), h, g, l)
  BY DEF Shows
<1> HIDE DEF h, l, src, con, sp, g
<1>5. e \in Ev /\ (h => e.at = l)
  <2>1. out # <<>>
    BY <1>1
  <2>2. Head(out) \in Ev /\ (Releases(out, h, l) /\ Head(out).kind = "up" /\ h => Head(out).at = l)
    BY ONLY <1>3, <1>4, <2>1, Taken
  <2> QED
    BY <1>3, <2>2
<1>6. e.kind \in Gestures /\ e.at \in Spot
  <2> HIDE DEF e
  <2> QED
    BY <1>5 DEF Ev
<1> HIDE DEF e
<1>7. Effect(e)
  BY <1>1, <1>2, <1>6, EventEffect
<1>8. e.kind = "up"
  BY DEF e
<1>9. app.press # None /\ Abs(app.total) < 2
  BY <1>7, <1>8 DEF Effect
<1>10. h
  BY <1>9 DEF h, Pressed
<1>11. /\ app.last \in Spot /\ app.total = Row(app.press.at) - Row(app.last)
       /\ e.at = app.last
  BY <1>2, <1>5, <1>10 DEF h, l, Travelled
<1>12. app.press.at \in Spot
  <2>1. app.press \in [at : Spot, held : BOOLEAN]
    BY <1>2, <1>9 DEF App
  <2> QED
    BY <2>1
<1>13. Row(app.press.at) \in Int /\ Row(app.last) \in Int
  BY <1>11, <1>12, RowsAreNumbers
<1>14. Abs(Row(e.at) - Row(app.press.at)) <= 1
  BY <1>9, <1>11, <1>13 DEF Abs
<1> QED
  BY <1>9, <1>14 DEF e

(* No other step takes a release from the queue. *)
LEMMA OnlyTapsLaunch ==
  ASSUME HandInv, [Next]_vars
  PROVE  Launch
<1>1. ASSUME UNCHANGED app
      PROVE  Launch
  BY <1>1 DEF Launch
<1>2. ASSUME out = <<>> \/ UNCHANGED out
      PROVE  Launch
  BY <1>2 DEF Launch
<1>3. CASE Offscreen(DoTouch) \/ Offscreen(DoOverflow)
  BY <1>1, <1>3 DEF Offscreen, DoTouch, DoOverflow
<1>4. CASE \/ \E p \in Place \union {None} : Offscreen(Gesture(p))
           \/ Offscreen(GestureLong) \/ Offscreen(Swallow)
           \/ \E t \in {"new", "blank", "same"} : Offscreen(Commit(t))
  BY <1>1, <1>4 DEF Offscreen, Gesture, GestureLong, Swallow, Commit
<1>5. CASE Offscreen(Hold) \/ Offscreen(TickLong) \/ Offscreen(BackKey) \/ Minute \/ Present
  BY <1>2, <1>5 DEF Offscreen, Hold, TickLong, BackKey, Minute, Present
<1>6. CASE Offscreen(Deliver)
  BY <1>6, DeliverLaunches DEF Offscreen
<1>7. CASE UNCHANGED vars
  BY <1>1, <1>7 DEF vars, pressVars
<1> QED
  BY <1>3, <1>4, <1>5, <1>6, <1>7 DEF Next

(* A drag up or down never launches, for every panel and any list: a        *)
(* release that launches an app lies within a row of where its finger       *)
(* landed, however the list scrolled under it, as long as no frame is lost. *)
(* Where along the row it lies is not said, because the code does not count *)
(* that way (App::on_event's drag_total, App::launcher_cell).               *)
THEOREM ATapLaunches == Spec => LaunchIsTap
<1>1. Init => HandInv
  BY HandStart
<1>2. HandInv /\ [Next]_vars => HandInv'
  BY HandStep
<1>3. HandInv /\ [Next]_vars => Launch
  BY OnlyTapsLaunch
<1> QED
  BY <1>1, <1>2, <1>3, PTL DEF Spec, LaunchIsTap, Launch
=============================================================================
