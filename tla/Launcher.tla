---- MODULE Launcher ----
(***************************************************************************)
(* The applications launcher: the list build() merges from the desktop     *)
(* files of the firmware and the scan of the application folder, the       *)
(* engine that resolves the conditional values of those files, the column  *)
(* the list is laid out in, and its scrolling and its taps.  A JSON value  *)
(* is a string, a boolean, nothing, or an object: a sequence of keys and   *)
(* values in the order of the keys.  Icons and launch parameters are left  *)
(* out.                                                                    *)
(***************************************************************************)
LOCAL INSTANCE Integers
LOCAL INSTANCE Sequences
LOCAL INSTANCE SequencesExt

VARIABLES desk,      \* what build() reads: the files and the profile
          items,     \* App.launcher_items
          column,    \* App.launcher_rects, launcher_body_h: tops and height
          shift,     \* App.launcher_scroll
          open,      \* whether the overlay is on the screen
          launched   \* the paths handed to launch_app, newest last

launcherVars == <<desk, items, column, shift, open, launched>>

(***************************************************************************)
(* Values and their resolution: lc_resolve and lc_visible.                 *)
(***************************************************************************)
Str(s) == [tag |-> "str", str |-> s]
Flag(b) == [tag |-> "bool", bool |-> b]
Missing == [tag |-> "none"]
Obj(members) == [tag |-> "obj", members |-> members]
Mem(k, v) == [key |-> k, val |-> v]

ObjKeys(ms) == {ms[i].key : i \in DOMAIN ms}
At(ms, k) == ms[CHOOSE i \in DOMAIN ms : ms[i].key = k].val

\* LC_DIMS in its order; the device, the partner, the cloud and the region
\* of the profile decide as the language does, and are left out.
Dims == <<"has_audio", "language", "globalcfg">>

\* lc_pick_key; "none" is wanted by no one
PickKey(ms, want) ==
  IF want \in ObjKeys(ms) THEN want
  ELSE IF "all" \in ObjKeys(ms) THEN "all"
  ELSE IF "default" \in ObjKeys(ms) THEN "default"
  ELSE ms[1].key

\* The value of a dimension in the profile; "globalcfg" has none.
Wanted(prof, dim) == IF dim \in DOMAIN prof THEN prof[dim] ELSE "none"

RECURSIVE LcResolve(_, _, _)
LcResolve(v, dim, prof) ==
  IF v.tag = "str" THEN v.str
  ELSE IF v.tag # "obj" THEN ""
  ELSE LET ms == v.members
           dims == SelectSeq(Dims, LAMBDA d : d \in ObjKeys(ms))
           full == SelectSeq(ms, LAMBDA m : m.val.tag = "obj"
                                              /\ "default" \in ObjKeys(m.val.members))
       IN IF dims # <<>> THEN LcResolve(At(ms, dims[1]), dims[1], prof)
          ELSE IF dim = "globalcfg"
          THEN IF full = <<>> THEN ""
               ELSE LcResolve(At(full[1].val.members, "default"), dim, prof)
          ELSE IF ms = <<>> THEN ""
          ELSE LcResolve(At(ms, PickKey(ms, Wanted(prof, dim))), dim, prof)

Visible(v, prof) ==
  IF v.tag = "bool" THEN v.bool ELSE LcResolve(v, "none", prof) \notin {"0", "false", "no", "off"}

\* lc_translate over the titles the desktop files of the instance carry.
Translate(raw) ==
  CASE raw = "@Users" -> "Users" [] raw = "@Games" -> "Games"
    [] raw = "my_tools" -> "My Tools" [] OTHER -> raw

(***************************************************************************)
(* The list: add_header, has_path, has_user_header, assemble.              *)
(***************************************************************************)
Cell(text, path) == [group |-> FALSE, text |-> text, path |-> path]
Header(text) == [group |-> TRUE, text |-> text, path |-> ""]

HasPath(list, path) == \E i \in DOMAIN list : ~list[i].group /\ list[i].path = path
HasUserHeader(list) == \E i \in DOMAIN list : list[i].group /\ list[i].text \in {"User", "Users"}

MutantAdd(list, cell) == IF cell.path # "" THEN Append(list, cell) ELSE list

Add(list, cell) ==
  IF cell.path # "" /\ ~HasPath(list, cell.path) THEN Append(list, cell) ELSE list

Titled(list, title) == IF title = "" THEN list ELSE Append(list, Header(title))

GroupApp(d, list, id) ==
  IF id \in DOMAIN d.db /\ Visible(d.db[id].visible, d.prof)
  THEN Add(list, Cell(id, LcResolve(d.db[id].path, "none", d.prof)))
  ELSE list

OneGroup(d, list, g) ==
  FoldLeft(LAMBDA l, id : GroupApp(d, l, id),
           Titled(list, Translate(LcResolve(g.title, "none", d.prof))), g.apps)

\* The U_* applications; one header for all that are visible, path or none.
UserApps(d, list) ==
  LET shown == SelectSeq(d.users, LAMBDA u : Visible(u.visible, d.prof))
  IN FoldLeft(LAMBDA l, u : Add(l, Cell(u.key, LcResolve(u.path, "none", d.prof))),
              IF shown = <<>> THEN list ELSE Append(list, Header("Users")), shown)

Scanned(list, path) ==
  IF HasPath(list, path) THEN list
  ELSE Append(IF HasUserHeader(list) THEN list ELSE Append(list, Header("Users")),
              Cell(path, path))

Assemble(d) ==
  LET firmware == IF d.read THEN UserApps(d, FoldLeft(LAMBDA l, g : OneGroup(d, l, g), <<>>, d.groups))
                  ELSE <<>>
  IN FoldLeft(Scanned, firmware, d.scan)

\* scan_desktop_apps: every entry that is an application, shown and runs.
Desktop(entries) ==
  LET runs == SelectSeq(entries, LAMBDA e : e.app /\ ~e.hidden /\ e.exec # "")
  IN [i \in DOMAIN runs |-> Cell(runs[i].exec, runs[i].exec)]

(***************************************************************************)
(* The column: layout, body_rects, scroll_of.                              *)
(***************************************************************************)
COLS == 3
CELL_H == 232
GROUP_H == 64
BodyTop == 96
ButtonH == 96        \* SCROLL_BTN_H
ContentBottom == 640 \* a panel the column of the instance overflows

Place(p, item) ==
  IF item.group
  THEN LET y == IF p.col > 0 THEN p.y + CELL_H ELSE p.y
       IN [y |-> y + GROUP_H, col |-> 0,
           rects |-> Append(p.rects, [x |-> 0, y |-> y, h |-> GROUP_H])]
  ELSE LET wrap == p.col >= COLS
           y == IF wrap THEN p.y + CELL_H ELSE p.y
           x == IF wrap THEN 0 ELSE p.col
       IN [y |-> y, col |-> x + 1, rects |-> Append(p.rects, [x |-> x, y |-> y, h |-> CELL_H])]

Layout(list) ==
  LET p == FoldLeft(Place, [y |-> 0, col |-> 0, rects |-> <<>>], list)
  IN [rects |-> p.rects, height |-> IF p.col > 0 THEN p.y + CELL_H ELSE p.y]

BodyH(col) ==
  LET h == ContentBottom - BodyTop IN IF col.height > h THEN h - ButtonH ELSE h

MaxShift(col) == LET over == col.height - BodyH(col) IN IF over > 0 THEN over ELSE 0
Clamp(n, top) == IF n < 0 THEN 0 ELSE IF n > top THEN top ELSE n

(***************************************************************************)
(* What the files of the instance may say.  The firmware knows two apps,   *)
(* one user app, and the folder is scanned in the order of the names.      *)
(***************************************************************************)
Language(ms) == Obj(<<Mem("language", Obj(ms))>>)
Vis == {Missing, Flag(FALSE), Str("no"),
        Language(<<Mem("all", Str("off")), Mem("default", Str("on")), Mem("en", Str("on"))>>),
        Obj(<<Mem("globalcfg", Obj(<<Mem("a", Obj(<<Mem("default",
                Obj(<<Mem("has_audio", Obj(<<Mem("true", Str("no"))>>))>>))>>))>>))>>)}
Where == {Str("p1"), Str(""), Language(<<Mem("de", Str("p2")), Mem("en", Str("p1"))>>)}
Defs == [visible : Vis, path : Where]
Group1(t, ids) == [title |-> Str(t), apps |-> ids]
Groups == {<<Group1("my_tools", <<"a1", "a2", "lost">>)>>,
           <<Group1("@Users", <<"a1">>), Group1("@Games", <<"a2", "a1">>)>>,
           <<Group1("", <<"a2", "a1">>), Group1("@Users", <<>>)>>}
Users == {<<>>} \cup {<<[key |-> "U_x", visible |-> v, path |-> w]>> :
                        v \in {Flag(FALSE), Missing}, w \in {Str("p1"), Str("p2")}}
Scan == {<<>>, <<"p1", "p3">>, <<"p2", "p3", "p4">>}
Profiles == {[has_audio |-> "true", language |-> l] : l \in {"en", "de", "fr"}}
Entries == [app : BOOLEAN, hidden : BOOLEAN, exec : {"", "run"}]

NoDesk == [read |-> FALSE, db |-> [id \in {} |-> Missing], groups |-> <<>>, users |-> <<>>,
           scan |-> <<>>, prof |-> CHOOSE p \in Profiles : p.language = "en", host |-> <<>>]

LauncherInit ==
  /\ desk = NoDesk
  /\ items = <<>> /\ column = Layout(<<>>)
  /\ shift = 0 /\ open = FALSE
  /\ launched = <<>>

\* The Applications row of the menu: build(), and the overlay if there is
\* anything to show.  The fallback is tried when the list is empty.
Applications(d) ==
  LET list == Assemble(d)
      all == IF list = <<>> THEN Desktop(d.host) ELSE list
  IN /\ desk' = d
     /\ items' = all
     /\ column' = Layout(all)
     /\ open' = (all # <<>>)
     /\ shift' = IF all # <<>> THEN 0 ELSE shift
     /\ UNCHANGED launched

BuildFirmware ==
  /\ desk = NoDesk   \* one build in a behaviour
  /\ \E x \in Defs, y \in {e \in Defs : e.visible \in {Missing, Str("no")}},
        gs \in Groups, us \in Users, files \in Scan, p \in Profiles :
       Applications([NoDesk EXCEPT !.read = TRUE, !.groups = gs, !.users = us, !.scan = files,
                                   !.db = [id \in {"a1", "a2"} |-> IF id = "a1" THEN x ELSE y],
                                   !.prof = p])

\* A host or a device without desktop files.
BuildHost ==
  /\ desk = NoDesk
  /\ \E files \in Scan, e1, e2 \in Entries :
       Applications([NoDesk EXCEPT !.scan = files, !.host = <<e1, e2>>])

LauncherBack ==
  /\ open
  /\ open' = FALSE
  /\ UNCHANGED <<desk, items, column, shift, launched>>

\* A corner button pages by the height of the body.
ScrollPage(dir) ==
  /\ open
  /\ MaxShift(column) > 0
  /\ shift' = Clamp(Clamp(shift, MaxShift(column)) + dir * BodyH(column), MaxShift(column))
  /\ UNCHANGED <<desk, items, column, open, launched>>

\* A drag past the slop; its release launches nothing.
DragMove(dy) ==
  /\ open
  /\ shift' = Clamp(Clamp(shift, MaxShift(column)) + dy, MaxShift(column))
  /\ shift' # shift
  /\ UNCHANGED <<desk, items, column, open, launched>>

\* The rows of the column that are on the screen.
Shows(i) ==
  /\ column.rects[i].y < shift + BodyH(column)
  /\ column.rects[i].y + column.rects[i].h > shift

LaunchCell(i) ==
  /\ open
  /\ Shows(i) /\ ~items[i].group
  /\ open' = FALSE
  /\ launched' = Append(launched, items[i].path)
  /\ UNCHANGED <<desk, items, column, shift>>

LauncherNext ==
  \/ BuildFirmware \/ BuildHost
  \/ LauncherBack
  \/ \E dir \in {-1, 1} : ScrollPage(dir)
  \/ \E dy \in {-200, 200} : DragMove(dy)
  \/ \E i \in DOMAIN items : LaunchCell(i)

(***************************************************************************)
(* What the list should be, by the words of the desktop files alone.       *)
(***************************************************************************)
ShownTo(v, prof) == v = Missing \/ (v.tag = "obj" /\ v.members[1].key = "language" /\ prof.language = "en")
PathFor(w, prof) == IF w.tag = "str" THEN w.str ELSE IF prof.language = "en" THEN "p1" ELSE "p2"

GroupPaths(d) ==
  {PathFor(d.db[id].path, d.prof) :
     id \in {i \in DOMAIN d.db : /\ ShownTo(d.db[i].visible, d.prof)
                                /\ \E g \in ToSet(d.groups) : i \in ToSet(g.apps)}} \ {""}
UserPaths(d) ==
  {PathFor(u.path, d.prof) : u \in {w \in ToSet(d.users) : ShownTo(w.visible, d.prof)}}

Cells == {i \in DOMAIN items : ~items[i].group}

\* Every launch path the firmware offers this profile, and every scanned
\* file, is in the list once, under the first name it was given; a scanned
\* file comes after a header for the user's applications; the host's
\* entries are there only when the list would be empty.
ListedOnce ==
  LET d == desk
      offered == (IF d.read THEN GroupPaths(d) \cup UserPaths(d) ELSE {}) \cup ToSet(d.scan)
      extra == ToSet(d.scan) \ (GroupPaths(d) \cup UserPaths(d))
  IN d.read \/ d.scan # <<>> =>
       /\ {items[i].path : i \in Cells} = offered
       /\ \A i, j \in Cells : items[i].path = items[j].path => i = j
       /\ \A i \in Cells : d.read /\ items[i].path \in GroupPaths(d) => items[i].text \in DOMAIN d.db
       /\ \A i \in Cells : items[i].path \in extra =>
            \E h \in 1..i : items[h].group /\ items[h].text = "Users"

\* No two items of the column cover each other, none is beside a header,
\* and all are inside the height the scroll is clamped with.
LaidOut ==
  /\ \A i, j \in DOMAIN items :
       i < j => LET a == column.rects[i]
                    b == column.rects[j]
                IN a.y + a.h <= b.y \/ (a.y = b.y /\ a.x < b.x /\ b.x < COLS
                                        /\ ~items[i].group /\ ~items[j].group)
  /\ \A i \in DOMAIN items : column.rects[i].y + column.rects[i].h <= column.height
  /\ shift \in 0..MaxShift(column)

\* launcher/discover.rs build, ui.rs layout: the launcher shows every
\* application once and where a tap can reach it, and of what a table hides only
\* what the scan of the card finds again.
AppsOnce == ListedOnce /\ LaidOut
====
