---- MODULE Menus ----
(***************************************************************************)
(* The sheets and cards whose rows are drawn from one list and dispatched  *)
(* through another: the More menu, the choosers of source, grouping and    *)
(* order, the settings cards, the context menu of a tile, and the browser  *)
(* of folders with its picker.  A row is drawn by present() (frame.rs,     *)
(* data.rs) and tapped later; in between the sync worker may change the    *)
(* store, and with it what a handler finds.                                *)
(***************************************************************************)
LOCAL INSTANCE Integers
LOCAL INSTANCE Sequences
LOCAL INSTANCE SequencesExt

VARIABLES sheet,     \* App.overlay
          dims,      \* dim_availability: what the books can be grouped by
          sysapp,    \* sysapp::platform_supported
          tiles,     \* App.entries
          series,    \* the books of the series, in the store
          kept,      \* the books whose file is on the device
          marked,    \* the books marked as read
          menu,      \* App.context, and the tile it was opened on
          browse,    \* App.dl_picker, App.browser, or NoBrowse
          rows,      \* the rows the last present() drew, and for which sheet
          tap        \* the last tap: what its row said, what was done

menusVars == <<sheet, dims, sysapp, tiles, series, kept, marked, menu, browse, rows, tap>>

Shelved == {"b1", "b2"}
OnServer == {"b1"}          \* b2 was found on the device
NoMenu == [items |-> <<>>, book |-> "", scope |-> "", tile |-> ""]
NoBrowse == [path |-> <<>>, start |-> <<>>, entries |-> <<>>, scroll |-> 0, picker |-> FALSE]
NoTap == [said |-> "", did |-> "", fresh |-> FALSE]

(***************************************************************************)
(* What is drawn: sync_overlay, sync_overlay_pages, sync_browser_model.    *)
(***************************************************************************)
MoreLabels == <<"group_by", "sort_by", "download_all", "settings", "apps">>
SourceLabels == <<"kavita", "local", "folder">>
SortLabels == <<"title", "author", "series", "recent">>
SettingsLabels ==
  <<"api_host", "api_key", "reader", "dl_dir", "local_dir">>
    \o (IF sysapp THEN <<"system_app">> ELSE <<>>)
    \o <<"save", "logs", "licenses", "reset_db">>

\* group_offer, for the chooser and for the tap on it.
Offer(d) ==
  <<"none">> \o (IF {"author", "series"} \subseteq d THEN <<"author_series">> ELSE <<>>)
             \o (IF "series" \in d THEN <<"series">> ELSE <<>>)
             \o (IF "author" \in d THEN <<"author">> ELSE <<>>)
             \o (IF "genre" \in d THEN <<"genre">> ELSE <<>>)

RowsVisible == 3   \* Browser::rows_visible of the instance
Labels ==
  CASE sheet = "More" -> MoreLabels
    [] sheet = "Source" -> SourceLabels
    [] sheet = "Group" -> Offer(dims)
    [] sheet = "Sort" -> SortLabels
    [] sheet = "Settings" -> SettingsLabels
    [] sheet = "Context" -> menu.items
    [] sheet = "None" /\ browse # NoBrowse ->
         SubSeq(browse.entries, browse.scroll + 1,
                browse.scroll + (IF Len(browse.entries) - browse.scroll < RowsVisible
                                 THEN Len(browse.entries) - browse.scroll ELSE RowsVisible))
    [] sheet = "None" /\ browse = NoBrowse -> tiles
    [] OTHER -> <<>>

Painted == [sheet |-> sheet, labels |-> Labels, scroll |-> browse.scroll, body |-> browse # NoBrowse]

(***************************************************************************)
(* The folders: Browser::load, can_go_up, navigate, up, page, and the      *)
(* start that settings_row gives the picker.  "ext1" is the root; "ext10"  *)
(* is a sibling whose name begins with it.                                 *)
(***************************************************************************)
Root == <<"mnt", "ext1">>
Folders == {<<>>, <<"mnt">>, Root, <<"mnt", "ext10">>} \cup
           {Append(Root, d) : d \in {"a", "b", "c", "d"}} \cup {Root \o <<"a", "x">>}
Names == <<"a", "b", "c", "d", "ext1", "ext10", "mnt", "x">>
Files == {Append(Root, "book.epub")}

MutantCanGoUp(path) == path # <<>>

CanGoUp(path) == path # Root
Listing(path, picker) ==
  (IF CanGoUp(path) THEN <<"..">> ELSE <<>>)
    \o SelectSeq(Names, LAMBDA n : Append(path, n) \in Folders)
    \o (IF ~picker /\ Append(path, "book.epub") \in Files THEN <<"book.epub">> ELSE <<>>)

Parent(path) == IF path = <<>> THEN <<>> ELSE Front(path)

GoTo(b, path) == [b EXCEPT !.path = path, !.scroll = 0, !.entries = Listing(path, b.picker)]
Navigate(b, name) == GoTo(b, IF name = ".." THEN Parent(b.path) ELSE Append(b.path, name))

PageRows(b, dir) ==
  LET max == IF Len(b.entries) > RowsVisible THEN Len(b.entries) - RowsVisible ELSE 0
      to == b.scroll + dir * RowsVisible
  IN [b EXCEPT !.scroll = IF to < 0 THEN 0 ELSE IF to > max THEN max ELSE to]

\* The configured folder if its name starts with the root's, else the root.
PickerFrom(path) ==
  GoTo([NoBrowse EXCEPT !.picker = TRUE, !.start = path], path)
Configured == {Root, Append(Root, "b"), Root \o <<"a", "x">>, <<"mnt", "ext10">>}

\* The bounds of the instance: the folders are explored with the books as
\* they began, and a book is deleted or marked once.
Untouched == tiles = <<"b1", "b2">> /\ kept = Shelved /\ marked = {"b2"}

MenusInit ==
  /\ sheet = "None" /\ dims = {} /\ sysapp = FALSE
  /\ tiles = <<>> /\ series = {} /\ kept = {} /\ marked = {}
  /\ menu = NoMenu /\ browse = NoBrowse
  /\ rows = [sheet |-> "start", labels |-> <<>>, scroll |-> 0, body |-> FALSE]
  /\ tap = NoTap

(***************************************************************************)
(* The taps.  Done(said, did) records one; fresh says that nothing has     *)
(* happened since the row was drawn.                                       *)
(***************************************************************************)
Record(i, did) ==
  tap' = [said |-> rows.labels[i], did |-> did, fresh |-> rows = Painted]

\* more_row; build() may find nothing to launch, download_all nothing to load.
TapMore(i) ==
  /\ rows.sheet = "More" /\ i \in DOMAIN MoreLabels
  /\ LET row == MoreLabels[i]
     IN /\ Record(i, row)
        /\ \/ row = "group_by" /\ sheet' = "Group"
           \/ row = "sort_by" /\ sheet' = "Sort"
           \/ row = "settings" /\ sheet' = "Settings"
           \/ row \in {"download_all", "apps"} /\ sheet' \in {sheet, "Other"}
  /\ UNCHANGED <<dims, sysapp, tiles, series, kept, marked, menu, browse, rows>>

\* apply_source: the folder source opens the browser at the root.
TapSource(i) ==
  /\ rows.sheet = "Source" /\ i \in 1..3
  /\ i = 3 => Untouched
  /\ Record(i, CASE i = 1 -> "kavita" [] i = 2 -> "local" [] OTHER -> "folder")
  /\ sheet' = "None"
  /\ menu' = [menu EXCEPT !.items = <<>>, !.book = ""]
  /\ browse' = IF i = 3 THEN GoTo([NoBrowse EXCEPT !.start = Root], Root) ELSE NoBrowse
  /\ UNCHANGED <<dims, sysapp, tiles, series, kept, marked, rows>>

\* chooser_row: on any sheet but the group chooser a tap sets the order.
TapChooser(i) ==
  /\ rows.sheet \in {"Group", "Sort"} /\ i \in DOMAIN rows.labels
  /\ Record(i, IF sheet = "Group"
               THEN IF i \in DOMAIN Offer(dims) THEN Offer(dims)[i] ELSE "nothing"
               ELSE CASE i = 2 -> "author" [] i = 3 -> "series" [] i = 4 -> "recent"
                      [] OTHER -> "title")
  /\ sheet' = "None"
  /\ UNCHANGED <<dims, sysapp, tiles, series, kept, marked, menu, browse, rows>>

Cards == <<"api_host", "api_key", "reader", "dl_dir", "local_dir">>
           \o (IF sysapp THEN <<"system_app">> ELSE <<>>)

MutantCardRow(i) ==
  IF i <= 6 THEN (Cards \o <<"system_app">>)[i]
  ELSE CASE i - 6 = 1 -> "save" [] i - 6 = 2 -> "logs" [] i - 6 = 3 -> "licenses"
         [] OTHER -> "reset_db"

\* settings_row: the cards, then the four buttons.
CardRow(i) ==
  IF i <= Len(Cards) THEN Cards[i]
  ELSE CASE i - Len(Cards) = 1 -> "save" [] i - Len(Cards) = 2 -> "logs"
         [] i - Len(Cards) = 3 -> "licenses" [] OTHER -> "reset_db"

TapSettings(i) ==
  /\ rows.sheet = "Settings" /\ i \in DOMAIN rows.labels
  /\ LET row == CardRow(i)
     IN /\ Record(i, row)
        /\ \/ /\ row \in {"api_host", "api_key", "reader", "system_app"}
              /\ UNCHANGED <<sheet, menu, browse, tiles>>
           \/ /\ row \in {"logs", "licenses"} /\ sheet' = "Other"
              /\ UNCHANGED <<menu, browse, tiles>>
           \/ /\ row = "save" /\ sheet' = "None"
              /\ UNCHANGED <<menu, browse, tiles>>
           \/ /\ row \in {"dl_dir", "local_dir"} /\ Untouched
              /\ \E from \in Configured : browse' = PickerFrom(from)
              /\ sheet' = "None" /\ tiles' = <<>>
              /\ UNCHANGED menu
           \/ /\ row = "reset_db"   \* an empty store, and the app ends
              /\ sheet' = "None" /\ menu' = [menu EXCEPT !.items = <<>>, !.book = ""]
              /\ tiles' = <<>> /\ browse' = NoBrowse
  /\ UNCHANGED <<dims, sysapp, series, kept, marked, rows>>

\* tap_browse_row and tap_picker_row: the index counts from the scroll drawn.
TapFolder(i) ==
  /\ rows.sheet = "None" /\ rows.body /\ browse # NoBrowse /\ sheet = "None"
  /\ i \in DOMAIN rows.labels /\ rows.scroll + i \in DOMAIN browse.entries
  /\ LET name == browse.entries[rows.scroll + i]
         go == IF browse.picker /\ name = ".." THEN GoTo(browse, Parent(browse.path))
               ELSE Navigate(browse, name)
     IN /\ browse' = IF name = "book.epub" THEN browse ELSE go
        /\ tap' = [said |-> rows.labels[i], fresh |-> rows = Painted,
                   did |-> IF browse'.path = browse.path \/ name = ".." THEN name ELSE Last(browse'.path)]
  /\ UNCHANGED <<sheet, dims, sysapp, tiles, series, kept, marked, menu, rows>>

\* Page keys: the browser of the folder source; the picker has none.
PageFolder(dir) ==
  /\ sheet = "None" /\ browse # NoBrowse /\ ~browse.picker
  /\ browse' = PageRows(browse, dir)
  /\ UNCHANGED <<sheet, dims, sysapp, tiles, series, kept, marked, menu, rows>>
  /\ tap' = NoTap

\* picker_commit_current, or Back: both return to the settings.
LeavePicker ==
  /\ sheet = "None" /\ browse.picker
  /\ sheet' = "Settings" /\ browse' = NoBrowse
  /\ UNCHANGED <<dims, sysapp, tiles, series, kept, marked, menu, rows>>
  /\ tap' = NoTap

\* Back in the browser ascends.
BrowseUp ==
  /\ sheet = "None" /\ browse # NoBrowse /\ ~browse.picker /\ CanGoUp(browse.path)
  /\ browse' = GoTo(browse, Parent(browse.path))
  /\ UNCHANGED <<sheet, dims, sysapp, tiles, series, kept, marked, menu, rows>>
  /\ tap' = NoTap

(***************************************************************************)
(* The context menu: long_press_entry, open_context_book, _series, and the *)
(* rows of context_row.                                                    *)
(***************************************************************************)
BookItems(b) ==
  <<"open", "details", "download", IF b \in marked THEN "mark_unread" ELSE "mark_read", "delete_device">>
    \o (IF b \in OnServer THEN <<"delete_cloud">> ELSE <<>>)

LongPress(i) ==
  /\ sheet = "None" /\ browse = NoBrowse /\ rows.sheet = "None" /\ ~rows.body
  /\ i \in DOMAIN rows.labels /\ i \in DOMAIN tiles
  /\ kept = Shelved /\ marked = {"b2"}
  /\ rows = Painted      \* a tile that has moved is Shelf's matter
  /\ menu' = IF tiles[i] = "stack"
             THEN [menu EXCEPT !.items = <<"download_all", "delete_all">>, !.scope = "stack",
                               !.tile = "stack"]
             ELSE [menu EXCEPT !.items = BookItems(tiles[i]), !.book = tiles[i], !.tile = tiles[i]]
  /\ sheet' = "Context"
  /\ UNCHANGED <<dims, sysapp, tiles, series, kept, marked, browse, rows>>
  /\ tap' = NoTap

\* Mutant: the book is looked up again on the shelf of now.
MutantTarget(m) == IF tiles = <<>> \/ tiles[1] = "stack" THEN m.book ELSE tiles[1]

\* The book the menu was opened for, taken when the row is tapped.
Target(m) == m.book

TapContext(i) ==
  /\ rows.sheet = "Context" /\ i \in DOMAIN rows.labels /\ i \in DOMAIN menu.items
  /\ LET action == menu.items[i]
         b == Target(menu)
     IN /\ Record(i, action)
        /\ kept' = CASE action = "delete_device" -> kept \ {b}
                     [] action = "delete_all" -> kept \ series
                     [] OTHER -> kept
        /\ marked' = CASE action = "mark_read" -> marked \cup {b}
                       [] action = "mark_unread" -> marked \ {b}
                       [] OTHER -> marked
        /\ tiles' \in {tiles} \cup (IF action = "delete_cloud" THEN {SelectSeq(tiles, LAMBDA x : x # b)} ELSE {})
        /\ sheet' = CASE action = "details" -> "Other" [] action = "download_all" -> "Other"
                      [] OTHER -> "None"
        /\ menu' = [menu EXCEPT !.items = <<>>, !.book = "", !.tile = "",
                                !.scope = IF action \in {"download_all", "delete_all"} THEN "" ELSE @]
  /\ UNCHANGED <<dims, sysapp, series, browse, rows>>

(***************************************************************************)
(* Opening and closing, the store, and the screen.                         *)
(***************************************************************************)
StartMenus ==
  /\ rows.sheet = "start"
  /\ sysapp' \in BOOLEAN /\ dims' \in SUBSET {"author", "series"}
  /\ tiles' = <<"b1", "b2">> /\ series' = {"b1"} /\ kept' = Shelved /\ marked' = {"b2"}
  /\ rows' = [rows EXCEPT !.sheet = "none"]
  /\ UNCHANGED <<sheet, menu, browse>>
  /\ tap' = NoTap

OpenSheet(s) ==
  /\ rows.sheet # "start" /\ sheet = "None" /\ ~browse.picker
  /\ sheet' = s
  /\ UNCHANGED <<dims, sysapp, tiles, series, kept, marked, menu, browse, rows>>
  /\ tap' = NoTap

\* A tap outside, the chevron of a page, the Back key.
CloseSheet ==
  /\ sheet # "None"
  /\ sheet' = "None"
  /\ menu' = IF sheet = "Context" THEN [menu EXCEPT !.items = <<>>, !.book = "", !.tile = ""] ELSE menu
  /\ UNCHANGED <<dims, sysapp, tiles, series, kept, marked, browse, rows>>
  /\ tap' = NoTap

\* The worker commits a page, at any time: what the books have, and the
\* members of the series; nothing is drawn.
StoreChanges ==
  /\ rows.sheet # "start" /\ sheet # "None"
  /\ dims' \in SUBSET {"author", "series"} /\ series' \in {{"b1"}, Shelved}
  /\ UNCHANGED <<sheet, sysapp, tiles, kept, marked, menu, browse, rows>>
  /\ tap' = NoTap

\* A tick after a page: the shelf under a sheet is built anew.
ShelfChanges ==
  /\ sheet # "None" /\ browse = NoBrowse
  /\ tiles' \in {<<"b1", "b2">>, <<"b2", "b1">>, <<"stack">>}
  /\ UNCHANGED <<sheet, dims, sysapp, series, kept, marked, menu, browse, rows>>
  /\ tap' = NoTap

PresentMenu ==
  /\ rows.sheet # "start" /\ rows # Painted
  /\ rows' = Painted
  /\ UNCHANGED <<sheet, dims, sysapp, tiles, series, kept, marked, menu, browse>>
  /\ tap' = NoTap

MenusNext ==
  \/ StartMenus
  \/ \E s \in {"More", "Source"} : OpenSheet(s)
  \/ CloseSheet
  \/ \E i \in 1..10 : TapMore(i) \/ TapSource(i) \/ TapChooser(i) \/ TapSettings(i)
                        \/ TapFolder(i) \/ TapContext(i) \/ LongPress(i)
  \/ \E dir \in {-1, 1} : PageFolder(dir)
  \/ LeavePicker \/ BrowseUp
  \/ StoreChanges \/ ShelfChanges
  \/ PresentMenu

(***************************************************************************)
(* Properties.                                                             *)
(***************************************************************************)
\* Input.rs, menu.rs, source.rs, choosers.rs against frame.rs and data.rs: a
\* tap on a row that is drawn and still true does what the row says.
RowsMatch == tap.fresh => tap.did = tap.said

\* context_menu.rs: whatever the store and the shelf became while a menu was
\* open, a file leaves the device, and a mark changes, only for the book the
\* menu was opened on, or for a book of the series it was opened on.
MenuActsOnItsTile ==
  LET target == IF menu.tile = "stack" THEN series ELSE {menu.tile}
  IN /\ kept \ kept' \subseteq target
     /\ (marked \ marked') \cup (marked' \ marked) \subseteq target

\* local/browser.rs: the browser never leaves the root it was given, and the
\* picker leaves it only if it began outside.
StaysInside ==
  browse # NoBrowse /\ IsPrefix(Root, browse.start) => IsPrefix(Root, browse.path)

\* Every tap of a menu, a card or a folder, by any path through the sheets.
TapDoesWhatItSays ==
  [][/\ rows.sheet # "start" => MenuActsOnItsTile
     /\ RowsMatch' /\ StaysInside']_menusVars
====
