--------------------------------- MODULE Shelf ---------------------------------
(***************************************************************************)
(* The shelf: the materialised view of the store (store.rs, view_rebuild)  *)
(* and the walk of a reader through it (app/data.rs, app/events.rs,        *)
(* input.rs, choosers.rs, search.rs).  Several copies of one truth must    *)
(* agree: the table of books, which a worker changes at any time; the      *)
(* view, rebuilt only when somebody asks; the page number and the number   *)
(* of pages; the tiles on the screen, which taps are resolved against; and *)
(* the stack of groups the reader has opened, with the page to come back   *)
(* to on each level.                                                       *)
(***************************************************************************)
EXTENDS Integers, Sequences, FiniteSets, SequencesExt, FiniteSetsExt

CONSTANTS
  Book,           \* the books that may be in the table
  SourceOf,       \* Book -> the source that owns the row
  Dim,            \* dimension -> Book -> its trimmed value, "" when empty
  Order,          \* SortMode -> Book -> its place, all different
  Matching,       \* query -> the books it matches, all for the empty one
  ScanCap,        \* VIEW_SCAN_CAP
  Per,            \* ViewMode -> tiles of a page
  RowsPer,        \* history rows of a page of the search tab
  Moving,         \* bound: the books that come and go
  MaxBusy         \* bound: rebuilds that fail on a locked database

ASSUME ShelfAssumption ==
  /\ ScanCap \in Nat \ {0} /\ RowsPer \in Nat \ {0} /\ MaxBusy \in Nat
  /\ {"grid", "list"} \subseteq DOMAIN Per
  /\ \A m \in DOMAIN Per : Per[m] \in Nat \ {0}
  /\ IsFiniteSet(Book) /\ Moving \subseteq Book
  /\ {"author", "series"} \subseteq DOMAIN Dim
  /\ \A d \in DOMAIN Dim : Dim[d] \in [Book -> STRING]
  /\ {"title", "recent"} \subseteq DOMAIN Order
  /\ \A s \in DOMAIN Order :
       /\ Order[s] \in [Book -> Int]
       /\ \A b, c \in Book : Order[s][b] = Order[s][c] => b = c
  /\ "" \in DOMAIN Matching /\ Matching[""] = Book

VARIABLES
  lib,       \* the rows of the table books
  view,      \* the rows of the table view, in order
  group, sort, query, source,
  scopes,    \* drill_values up to the drill level
  saved,     \* drill_saved_pages up to the drill level
  tab, layout, overlay,
  picker,    \* the folder picker lies over the page (dl_picker)
  page, pages,
  entries,   \* the rows behind the tiles of the page
  history,   \* search_history, newest first
  busy,      \* failed rebuilds so far
  fresh,     \* history variable: the view is made of the books of now
  trail,     \* history variable: the tiles each drill left, while valid
  stale      \* history variable: the picker closed and nothing was redrawn

choice == <<group, sort, query, source>>
screen == <<tab, layout, overlay, picker>>
shown == <<page, pages, entries>>
vars == <<lib, view, choice, scopes, saved, screen, shown, history, busy, fresh,
          trail, stale>>

---------------------------------------------------------------------------
(***************************************************************************)
(* The view engine.                                                        *)
(***************************************************************************)

\* The members of a set by their place, no two of which have the same.
InOrder(S, Place(_)) ==
  [n \in 1..Cardinality(S) |->
     CHOOSE x \in S : Cardinality({y \in S : Place(y) < Place(x)}) = n - 1]

\* Books of a set in the order of a sort mode; every comparator ends in the
\* id, so that the order is total.
Sorted(S, s) == InOrder(S, LAMBDA b : Order[s][b])

\* dim_key and group_key: only Author > Series nests.
DimKey(b, g, level) ==
  IF g = "none" THEN ""
  ELSE IF g = "authorseries"
       THEN Dim[IF level = 0 THEN "author" ELSE "series"][b]
       ELSE Dim[g][b]

\* group_levels.
Levels(g) == IF g = "none" THEN 0 ELSE IF g = "authorseries" THEN 2 ELSE 1

Tile(b) == [kind |-> "book", book |-> b, scope |-> "", count |-> 1]
Card(b, k, n) == [kind |-> "card", book |-> b, scope |-> k, count |-> n]

\* Mutant: books without a value of the dimension are left out of the groups.
MutantGrouped(s, g, level, groupEmpty) ==
  LET t == SelectSeq(s, LAMBDA b : DimKey(b, g, level) # "")
      Key(b) == DimKey(b, g, level)
      Members(b) == {c \in ToSet(t) : Key(c) = Key(b)}
      Heads == SelectSeq([i \in 1..Len(t) |-> i],
                 LAMBDA i : \A j \in 1..(i - 1) : Key(t[j]) # Key(t[i]))
  IN  [n \in 1..Len(Heads) |->
         LET b == t[Heads[n]]
         IN  IF Members(b) = {b} THEN Tile(b)
             ELSE Card(b, Key(b), Cardinality(Members(b)))]

\* append_grouped: a group of several is a card at the place of its first
\* member; with groupEmpty off, books without a value stay tiles.
Grouped(s, g, level, groupEmpty) ==
  LET Key(b) == DimKey(b, g, level)
      Members(b) == {c \in ToSet(s) : Key(c) = Key(b)}
      Alone(b) == (Key(b) = "" /\ ~groupEmpty) \/ Members(b) = {b}
      Heads == InOrder({i \in DOMAIN s :
                          \/ Alone(s[i])
                          \/ \A j \in 1..(i - 1) : Key(s[j]) # Key(s[i])}, LAMBDA i : i)
      Row(b) == IF Alone(b) THEN Tile(b)
                ELSE Card(b, Key(b), Cardinality(Members(b)))
  IN  [n \in 1..Len(Heads) |-> Row(s[Heads[n]])]

\* append_flat, and the projection in SQL.
Flat(s) == [n \in 1..Len(s) |-> Tile(s[n])]

\* list_books(VIEW_SCAN_CAP): the most recent rows of ALL sources.
Scanned(l) == ToSet(SubSeq(Sorted(l, "recent"), 1, Min({ScanCap, Cardinality(l)})))

\* Mutant: an empty scope is taken for no scope.
MutantPinned(S, g, sc) ==
  {b \in S : \A l \in 1..Min({Len(sc), 2}) :
     sc[l] = "" \/ DimKey(b, g, l - 1) = sc[l]}

\* The scope filters of the levels a reader has opened.
Pinned(S, g, sc) ==
  {b \in S : \A l \in 1..Min({Len(sc), 2}) : DimKey(b, g, l - 1) = sc[l]}

\* view_rebuild.
ViewOf(l, g, s, q, sc, src) ==
  LET own == {b \in Scanned(l) : SourceOf[b] = src /\ b \in Matching[q]}
      deep == Pinned(own, g, sc)
      level == Min({Len(sc), 2})
  IN  IF g = "none" /\ sc = <<>> /\ q = ""
      THEN Flat(Sorted({b \in l : SourceOf[b] = src}, s))
      ELSE IF sc # <<>>
           THEN IF level < Levels(g) THEN Grouped(Sorted(deep, s), g, level, FALSE)
                ELSE Flat(Sorted(deep, s))
           ELSE IF g # "none" THEN Grouped(Sorted(own, s), g, 0, TRUE)
                ELSE Flat(Sorted(own, s))

\* view_total_books: an empty view counts as no view, and the shelf pages
\* over the whole table.
Total(v, l) == IF v # <<>> THEN Len(v) ELSE Cardinality(l)

\* store_view_page.
Slice(v, p, per) == SubSeq(v, p * per + 1, Min({Len(v), (p + 1) * per}))

PagesOf(total, per) == IF total = 0 THEN 1 ELSE (total + per - 1) \div per

---------------------------------------------------------------------------
(***************************************************************************)
(* Steps every handler is made of.                                         *)
(***************************************************************************)

Browsing == source' = "folder" /\ tab' # "search"

\* refresh_shelf at page p: the picker and the directory browser take the
\* page over, the search tab pages over the history, else the view.
Refresh(p) ==
  /\ stale' = FALSE
  /\ IF picker' THEN pages' = 1 /\ page' = p /\ entries' = <<>>
     ELSE IF Browsing THEN pages' = 1 /\ page' = p /\ entries' = <<>>
     ELSE IF tab' = "search"
          THEN /\ pages' = PagesOf(Len(history'), RowsPer)
               /\ page' = Min({p, pages' - 1})
               /\ UNCHANGED entries
     ELSE /\ pages' = PagesOf(Total(view', lib), Per[layout'])
          /\ page' = Min({p, pages' - 1})
          /\ entries' = Slice(view', page', Per[layout'])

\* rebuild_view, which ends in refresh_shelf.  The table view is emptied by
\* a statement of its own before the transaction: on a locked database
\* either nothing happens, or the view stays empty.
Rebuild(p) ==
  /\ \/ /\ view' = ViewOf(lib, group', sort', query', scopes', source')
        /\ fresh' = TRUE /\ busy' = busy
     \/ /\ busy < MaxBusy /\ busy' = busy + 1
        /\ view' \in {view, <<>>} /\ fresh' = FALSE
  /\ Refresh(p)

Same == UNCHANGED <<view, busy, fresh>>
Forget == trail' = [n \in DOMAIN trail |-> <<>>]

\* No sheet lies over the page; the body is the shelf or the search tab and
\* not a directory listing (browse_active).
Open == overlay = "none"
Body == Open /\ ~picker /\ source # "folder"

---------------------------------------------------------------------------
\* App::new and boot: the group comes from the configuration.
Init ==
  /\ lib \in {Book, Book \ Moving}
  /\ group \in {"none", "authorseries"} /\ sort = "title" /\ query = ""
  /\ source = "kavita" /\ scopes = <<>> /\ saved = <<>>
  /\ tab = "library" /\ layout = "grid" /\ overlay = "none" /\ picker = FALSE
  /\ view = ViewOf(lib, group, sort, "", <<>>, "kavita")
  /\ page = 0 /\ pages = PagesOf(Total(view, lib), Per["grid"])
  /\ entries = Slice(view, 0, Per["grid"])
  /\ history = <<>> /\ busy = 0 /\ fresh = TRUE /\ trail = <<>> /\ stale = FALSE

\* A page of the sync chain or the import writes a row or removes one.
LibraryChanges(b) ==
  /\ lib' = IF b \in lib THEN lib \ {b} ELSE lib \cup {b}
  /\ fresh' = FALSE /\ Forget
  /\ UNCHANGED <<view, choice, scopes, saved, screen, shown, history, busy, stale>>

\* The chain or the import lands: rebuild where the reader is.
SyncLands ==
  /\ ~fresh
  /\ UNCHANGED <<lib, choice, scopes, saved, screen, history>> /\ Forget
  /\ Rebuild(page)

\* Mutant: a page flip changes the number and forgets the tiles.
MutantGotoPage(p) ==
  /\ Open /\ p < pages /\ p # page
  /\ page' = p
  /\ UNCHANGED <<lib, view, choice, scopes, saved, screen, pages, entries,
                 history, busy, fresh, trail, stale>>

\* goto_page, from the pager buttons and the page keys.
GotoPage(p) ==
  /\ Open /\ p < pages /\ p # page
  /\ UNCHANGED <<lib, choice, scopes, saved, screen, history, trail>> /\ Same
  /\ Refresh(p)

\* Mutant: the page the reader came from is not kept.
MutantDrillIntoCard(i) ==
  /\ Body /\ tab = "library" /\ Len(scopes) < 2
  /\ i \in DOMAIN entries /\ entries[i].kind = "card"
  /\ scopes' = Append(scopes, entries[i].scope)
  /\ saved' = Append(saved, 0)
  /\ trail' = Append(trail, IF fresh THEN entries ELSE <<>>)
  /\ UNCHANGED <<lib, choice, screen, history>>
  /\ Rebuild(0)

\* tap_cover on a card: drill_into_card.
DrillIntoCard(i) ==
  /\ Body /\ tab = "library" /\ Len(scopes) < 2
  /\ i \in DOMAIN entries /\ entries[i].kind = "card"
  /\ scopes' = Append(scopes, entries[i].scope)
  /\ saved' = Append(saved, page)
  /\ trail' = Append(trail, IF fresh THEN entries ELSE <<>>)
  /\ UNCHANGED <<lib, choice, screen, history>>
  /\ Rebuild(0)

\* drill_back: the level above, at the page that was saved for it.
DrillBack ==
  /\ scopes # <<>>
  /\ scopes' = Front(scopes) /\ saved' = Front(saved) /\ trail' = Front(trail)
  /\ UNCHANGED <<lib, choice, screen, history>>
  /\ Rebuild(Last(saved))

\* set_group: the drill state goes, the page stays.
SetGroup(g) ==
  /\ overlay = "group" /\ overlay' = "none"
  /\ group' = g /\ scopes' = <<>> /\ saved' = <<>> /\ trail' = <<>>
  /\ UNCHANGED <<lib, sort, query, source, tab, layout, picker, history>>
  /\ Rebuild(page)

\* chooser_row of the sort sheet: page and drill stay.
SetSort(s) ==
  /\ overlay = "sort" /\ overlay' = "none"
  /\ sort' = s /\ Forget
  /\ UNCHANGED <<lib, group, query, source, scopes, saved, tab, layout, picker, history>>
  /\ Rebuild(page)

\* enter_search, from the top bar.
EnterSearch ==
  /\ Open /\ tab = "library" /\ tab' = "search"
  /\ UNCHANGED <<lib, choice, scopes, saved, layout, overlay, picker, history, trail>>
  /\ Same /\ Refresh(0)

\* leave_search keeps the filter.
LeaveSearch ==
  /\ Open /\ tab = "search" /\ tab' = "library"
  /\ UNCHANGED <<lib, choice, scopes, saved, layout, overlay, picker, history, trail>>
  /\ Same /\ Refresh(0)

\* search_add: the term moves to the front.
Recorded(w) ==
  LET others == InOrder({i \in DOMAIN history : history[i] # w}, LAMBDA i : i)
  IN  <<w>> \o [n \in DOMAIN others |-> history[others[n]]]

\* commit_search of a new term.
CommitSearch(w) ==
  /\ w \notin {"", query}
  /\ query' = w /\ history' = Recorded(w) /\ tab' = "library" /\ Forget
  /\ UNCHANGED <<lib, group, sort, source, scopes, saved, layout, overlay, picker>>
  /\ Rebuild(page)

\* The keyboard of the search tab delivers a term.
TypeSearch(w) == Body /\ tab = "search" /\ CommitSearch(w)

\* tap_search_row: row i of the page on the screen, looked up from the start
\* of the history.
RowsShown == SubSeq(history, page * RowsPer + 1, Min({Len(history), (page + 1) * RowsPer}))
TapSearchRow(i) ==
  /\ Body /\ tab = "search" /\ i \in DOMAIN RowsShown
  /\ CommitSearch(history[i])

\* toggle_layout.
ToggleLayout ==
  /\ Body /\ tab = "library"
  /\ layout' = IF layout = "grid" THEN "list" ELSE "grid"
  /\ Forget
  /\ UNCHANGED <<lib, choice, scopes, saved, tab, overlay, picker, history>>
  /\ Same /\ Refresh(0)

\* apply_source: back to the root of the shelf.  The folder browser takes
\* the body and leaves the view as it was.
ApplySource(src) ==
  /\ overlay = "source" /\ overlay' = "none"
  /\ source' = src /\ scopes' = <<>> /\ saved' = <<>> /\ trail' = <<>>
  /\ tab' = "library"
  /\ UNCHANGED <<lib, group, sort, query, layout, picker, history>>
  /\ IF src = "folder" THEN Same /\ Refresh(0) ELSE Rebuild(0)

\* The sheets of the top bar and of the menu.
OpenSheet(o) ==
  /\ Open /\ tab = "library" /\ overlay' = o
  /\ UNCHANGED <<lib, view, choice, scopes, saved, tab, layout, picker, shown,
                 history, busy, fresh, trail, stale>>
CloseSheet ==
  /\ overlay # "none" /\ overlay' = "none"
  /\ UNCHANGED <<lib, view, choice, scopes, saved, tab, layout, picker, shown,
                 history, busy, fresh, trail, stale>>

\* The folder rows of the settings: the picker takes over the page.
OpenPicker ==
  /\ overlay = "settings" /\ overlay' = "none" /\ picker' = TRUE
  /\ UNCHANGED <<lib, choice, scopes, saved, tab, layout, history, trail>>
  /\ Same /\ Refresh(page)

\* picker_commit_current, and Back: the settings come back, nothing is
\* refreshed.
ClosePicker ==
  /\ picker' = FALSE /\ overlay' = "settings" /\ stale' = TRUE
  /\ UNCHANGED <<lib, view, choice, scopes, saved, tab, layout, shown, history, busy,
                 fresh, trail>>
PickFolder == picker /\ Open /\ ClosePicker

\* back(), the hardware key: the sheet, then the drill, then the picker, then
\* the search tab.
Back ==
  \/ CloseSheet
  \/ Open /\ DrillBack
  \/ Open /\ scopes = <<>> /\ picker /\ ClosePicker
  \/ Open /\ scopes = <<>> /\ ~picker /\ LeaveSearch

\* The left button of the top bar: search first, then the drill.
Home == LeaveSearch \/ (Open /\ tab # "search" /\ DrillBack)

Next ==
  \/ \E b \in Moving : LibraryChanges(b)
  \/ SyncLands
  \/ \E p \in {0, page - 1, page + 1, pages - 1} \cap Nat : GotoPage(p)
  \/ \E i \in 1..Len(entries) : DrillIntoCard(i)
  \/ \E g \in {"none", "author", "authorseries"} : SetGroup(g)
  \/ \E s \in DOMAIN Order : SetSort(s)
  \/ EnterSearch
  \/ \E w \in DOMAIN Matching : TypeSearch(w)
  \/ \E i \in 1..RowsPer : TapSearchRow(i)
  \/ ToggleLayout
  \/ \E s \in {"kavita", "local", "folder"} : ApplySource(s)
  \/ \E o \in {"group", "sort", "source", "settings"} : OpenSheet(o)
  \/ OpenPicker \/ PickFolder
  \/ Back \/ Home

Spec == Init /\ [][Next]_vars

---------------------------------------------------------------------------
(***************************************************************************)
(* Properties.                                                             *)
(***************************************************************************)

Scope == {""} \cup UNION {{Dim[d][b] : b \in Book} : d \in DOMAIN Dim}
ViewRow == [kind : {"book", "card"}, book : Book, scope : Scope, count : 1..Cardinality(Book)]

\* Every variable has its type; one page to come back to per opened level,
\* never more than two levels, and outside the directory listings the page is
\* one of the pages.
TypeOK ==
  /\ lib \subseteq Book /\ view \in Seq(ViewRow)
  /\ Len(scopes) = Len(saved) /\ Len(scopes) <= 2 /\ Len(trail) = Len(scopes)
  /\ page \in Nat /\ pages \in Nat \ {0}
  /\ picker \/ source = "folder" \/ stale \/ page < pages
  /\ busy \in 0..MaxBusy

\* The books of the source, of those in l, that match the search and lie in
\* the opened groups sc.
Chosen(l, sc) ==
  {b \in Pinned(l, group, sc) : SourceOf[b] = source /\ b \in Matching[query]}

\* The books a row of a view of S stands for, inside the groups sc.
Under(r, S, sc) ==
  IF r.kind = "book" THEN {r.book} ELSE {b \in S : DimKey(b, group, Len(sc)) = r.scope}

\* The rows of v stand for every book of S, for each on one row, for no
\* other, and say how many they stand for.
Covers(v, S, sc) ==
  /\ UNION {Under(v[i], S, sc) : i \in DOMAIN v} = S
  /\ \A i, j \in DOMAIN v : i # j => Under(v[i], S, sc) \cap Under(v[j], S, sc) = {}
  /\ \A i \in DOMAIN v : v[i].count = Cardinality(Under(v[i], S, sc))

\* A view that is up to date shows every book of the source that matches the
\* search and lies in the opened groups on exactly one row, and no other: the
\* cards, the tiles between them and the books without a value cover it.
EveryBookOnce ==
  fresh /\ source # "folder" /\ Cardinality(lib) <= ScanCap =>
    Covers(view, Chosen(lib, scopes), scopes)

\* A card opens what it counts: the view one level down shows the books of the
\* card and no other, each once, and they are as many as the card says,
\* whatever the sort and the search, and also beyond the scan cap.
CardOpensItsCount ==
  fresh /\ source # "folder" =>
    \A i \in DOMAIN view : view[i].kind = "card" /\ Len(scopes) < 2 =>
      LET in == Append(scopes, view[i].scope)
          members == Chosen(Scanned(lib), in)
      IN  /\ view[i].count = Cardinality(members)
          /\ Covers(ViewOf(lib, group, sort, query, in, source), members, in)

\* On the library page the tiles that taps are resolved against are the page
\* of the view the pager names, and no page of a view that has rows is empty.
PageShowsView ==
  tab = "library" /\ ~picker /\ source # "folder" /\ ~stale =>
    /\ entries = Slice(view, page, Per[layout])
    /\ view # <<>> => entries # <<>> /\ pages = PagesOf(Len(view), Per[layout])

\* Coming back from a group shows the tiles from which it was opened, unless
\* the books, the sort, the search or the layout have changed meanwhile.
BackReturns ==
  [][\A n \in 1..2 :
       n = Len(trail) /\ Len(trail') = n - 1 /\ scopes' = Front(scopes)
         /\ trail[n] # <<>> /\ busy' = busy /\ Body /\ tab = "library"
       => entries' = trail[n]]_vars

\* The shelf as a whole: what is projected, what a card stands for and what a
\* tap is resolved against fit together after any sequence of operations.
ShelfIsWhole == TypeOK /\ EveryBookOnce /\ CardOpensItsCount /\ PageShowsView

===============================================================================
