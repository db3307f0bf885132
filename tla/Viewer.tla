---- MODULE Viewer ----
(***************************************************************************)
(* The pages that are read row by row: the log, the list of licences and   *)
(* the text of one.  A page is drawn by present(), which clamps the scroll *)
(* to the rows there are; the buttons and the finger move the scroll of    *)
(* the app without drawing, so that a second gesture may meet a page that  *)
(* is not drawn yet.  Texts are wrapped into spans of their bytes: "x" is  *)
(* a byte of a word, one unit wide as the space is, LF ends a line.        *)
(***************************************************************************)
LOCAL INSTANCE Integers
LOCAL INSTANCE Sequences
LOCAL INSTANCE SequencesExt

VARIABLES height,    \* content_bottom, the height of the panel
          logRows,   \* the rows the log wraps into
          on,        \* the overlay: "None" and the three pages
          roll,      \* App.log_scroll and lic_scroll
          acc,       \* App.log_drag_acc
          drawn,     \* what the last present() put on the screen
          since,     \* what happened after it: "none", "older", "newer" or "more"
          licence,   \* App.license_selected, and the row that was tapped
          wrapped    \* a text, and the rows it was wrapped into

viewerVars == <<height, logRows, on, roll, acc, drawn, since, licence, wrapped>>

AtLeast(n, low) == IF n < low THEN low ELSE n
AtMost(n, high) == IF n > high THEN high ELSE n

(***************************************************************************)
(* Wrapping: wrap_line, wrap_rows_forward, wrap_rows_last, log_tail.       *)
(***************************************************************************)
LF == "lf"
Blanks == " "
Fudge == 1      \* 6 of the 14 pixels of a glyph
MaxW == 4       \* the width of the page
TailCap == 6    \* LOG_TAIL_BYTES

Span(from, to) == [start |-> from, end |-> to, blank |-> FALSE]
Gap(at) == [start |-> at, end |-> at, blank |-> TRUE]

\* The words of a line, as offsets of their first and past their last byte.
WordsOf(line) ==
  LET starts == {i \in DOMAIN line : line[i] # Blanks /\ (i = 1 \/ line[i - 1] = Blanks)}
      past(i) == CHOOSE j \in i..Len(line) :
                   /\ \A k \in i..j : line[k] # Blanks
                   /\ j = Len(line) \/ line[j + 1] = Blanks
      order == SetToSortSeq(starts, LAMBDA a, b : a < b)
  IN [n \in DOMAIN order |-> [s |-> order[n] - 1, e |-> past(order[n])]]

MutantTakeWord(st, w, base, len, cap) ==
  IF Len(st.out) >= cap THEN st
  ELSE LET full == st.start >= 0 /\ (st.end - st.start) + (w.e - w.s) + Fudge > MaxW
           out == IF full THEN Append(st.out, Span(base + st.start, base + st.end)) ELSE st.out
       IN [out |-> out, end |-> IF w.e < len THEN w.e + 1 ELSE w.e,
           start |-> IF full THEN -1 ELSE IF st.start < 0 THEN w.s ELSE st.start]

\* One word: the row in the making is closed if the word does not fit.
TakeWord(st, w, base, len, cap) ==
  IF Len(st.out) >= cap THEN st
  ELSE LET full == st.start >= 0 /\ (st.end - st.start) + (w.e - w.s) + Fudge > MaxW
           out == IF full THEN Append(st.out, Span(base + st.start, base + st.end)) ELSE st.out
           end == IF w.e < len THEN w.e + 1 ELSE w.e
       IN IF full /\ Len(out) >= cap THEN [st EXCEPT !.out = out, !.start = -1]
          ELSE [out |-> out, end |-> end,
                start |-> IF full \/ st.start < 0 THEN w.s ELSE st.start]

WrapLine(line, base, rows, cap) ==
  LET st == FoldLeft(LAMBDA s, w : TakeWord(s, w, base, Len(line), cap),
                     [out |-> rows, start |-> -1, end |-> 0], WordsOf(line))
  IN IF Len(st.out) < cap /\ st.start >= 0
     THEN Append(st.out, Span(base + st.start, base + st.end)) ELSE st.out

\* str::split('\n'): a text of n line feeds has n + 1 lines.
LinesOf(text) ==
  FoldLeft(LAMBDA ls, c : IF c = LF THEN Append(ls, <<>>)
                          ELSE [ls EXCEPT ![Len(ls)] = Append(@, c)], <<<<>>>>, text)

WrapRowsForward(text, cap) ==
  FoldLeft(LAMBDA st, line :
             [base |-> st.base + Len(line) + 1,
              rows |-> IF Len(st.rows) >= cap THEN st.rows
                       ELSE IF line = <<>> THEN Append(st.rows, Gap(st.base))
                       ELSE WrapLine(line, st.base, st.rows, cap)],
           [base |-> 0, rows |-> <<>>], LinesOf(text)).rows

\* The last line first; the rows of a line turned round, and all at the end.
\* The empty line after a final LF is dropped, the LF itself stays counted.
WrapRowsLast(text, cap) ==
  LET all == LinesOf(text)
      lines == IF all[Len(all)] = <<>> THEN Front(all) ELSE all
      step(st, line) ==
        LET base == st.base - Len(line)
            rows == WrapLine(line, base, <<>>, cap - Len(st.kept))
        IN IF Len(st.kept) >= cap THEN st
           ELSE [base |-> AtLeast(base - 1, 0), kept |-> st.kept \o Reverse(rows)]
  IN Reverse(FoldLeft(step, [base |-> Len(text), kept |-> <<>>], Reverse(lines)).kept)

\* At most TailCap bytes, from after a line feed.
LogTail(raw) ==
  LET from == Len(raw) - TailCap + 1
      feeds == {i \in from..Len(raw) : raw[i] = LF}
      first == CHOOSE i \in feeds : \A j \in feeds : i <= j
  IN IF Len(raw) <= TailCap THEN raw
     ELSE IF feeds = {} THEN <<>> ELSE SubSeq(raw, first + 1, Len(raw))

(***************************************************************************)
(* Geometry: log_rows_vis, the pages of viewer_scroll and of present().    *)
(* A page of the log is what is shown, or more: on the two large panels of *)
(* the instance by one row and by six.                                     *)
(***************************************************************************)
Heights == {600, 800, 1024, 1872}
LogRowH == 34
LogBodyTop == 138
ListRowH == 110      \* LIC_LIST_H
ListTop == 112       \* LIC_LIST_TOP
LogMaxRows == 41     \* LOG_MAX_ROWS_VIS
Licences == <<30, 5, 12, 40, 3>>  \* the five texts, in rows of this width

ButtonsAt(h) == AtLeast(h - 104, 0)
LogVis(h) == AtMost(AtLeast((ButtonsAt(h) - LogBodyTop - 8) \div LogRowH, 1), LogMaxRows)
MutantLogPage(h) == AtLeast(ButtonsAt(h) \div LogRowH, 1)
LogPage(h) == AtLeast((ButtonsAt(h) - LogBodyTop) \div LogRowH, 1)
ListVis(h) == AtLeast((ButtonsAt(h) - ListTop - 8) \div ListRowH, 1)
DetailVis(h) == AtLeast((ButtonsAt(h) - LogBodyTop - 8) \div LogRowH, 1)

RowsOn(p) == CASE p = "LogViewer" -> logRows
               [] p = "Licenses" -> Len(Licences)
               [] p = "LicenseDetail" -> Licences[licence.selected]
               [] OTHER -> 0
RowsShownOn(h, p) == CASE p = "LogViewer" -> LogVis(h) [] p = "Licenses" -> ListVis(h)
               [] p = "LicenseDetail" -> DetailVis(h) [] OTHER -> 1

MaxFirst(p) == AtLeast(RowsOn(p) - RowsShownOn(height, p), 0)

Pinned == -1
FirstRow(p) ==
  IF p = "LogViewer" /\ roll.log < 0 THEN MaxFirst(p)
  ELSE AtMost(AtLeast(IF p = "LogViewer" THEN roll.log ELSE roll.lic, 0), MaxFirst(p))

Drawn == [page |-> on, first |-> FirstRow(on), vis |-> RowsShownOn(height, on)]

ViewerInit ==
  /\ height = 0 /\ logRows = 0
  /\ on = "None" /\ roll = [log |-> Pinned, lic |-> 0] /\ acc = 0
  /\ drawn = [page |-> "None", first |-> 0, vis |-> 1] /\ since = "none"
  /\ licence = [selected |-> 1, tapped |-> 0]
  /\ wrapped = [text |-> <<>>, by |-> "none", rows |-> <<>>, cap |-> 0]

(***************************************************************************)
(* The pages.  Two gestures between two draws are enough to meet a page    *)
(* that is not drawn yet: MaxSince bounds them.                            *)
(***************************************************************************)
WrapTexts == UNION {[1..n -> {"x", Blanks, LF}] : n \in 0..7}
Later(what) == IF since = "none" THEN what ELSE "more"

StartViewer ==
  /\ height = 0 /\ wrapped.by = "none"
  /\ height' \in Heights
  /\ logRows' \in IF height' \in {600, 800} THEN {0, 7, 25} ELSE {60}
  /\ UNCHANGED <<on, roll, acc, drawn, since, licence, wrapped>>

\* One text through one of the two wraps; the log is cut to its tail first.
WrapText ==
  /\ height = 0 /\ wrapped.by = "none"
  /\ \E text \in WrapTexts, cap \in {2, 99} :
       \/ wrapped' = [text |-> text, by |-> "forward", rows |-> WrapRowsForward(text, cap), cap |-> cap]
       \/ wrapped' = [text |-> LogTail(text), by |-> "last",
                      rows |-> WrapRowsLast(LogTail(text), cap), cap |-> cap]
  /\ UNCHANGED <<height, logRows, on, roll, acc, drawn, since, licence>>

\* settings_row: Show logs and Licenses.  Bound: a page is opened while the
\* scroll of the other, which it does not read, is where it starts.
OpenPage(p) ==
  /\ height > 0 /\ on = "None" /\ since = "none"
  /\ p = "LogViewer" => roll.lic = 0
  /\ p = "Licenses" => roll.log = Pinned
  /\ on' = p /\ since' = "more"
  /\ UNCHANGED <<height, logRows, roll, acc, drawn, licence, wrapped>>

ViewerBack ==
  /\ on # "None" /\ drawn.page = on
  /\ on' = IF on = "LicenseDetail" THEN "Licenses" ELSE "None"
  /\ roll' = [lic |-> 0, log |-> IF on = "LicenseDetail" THEN roll.log ELSE Pinned]
  /\ since' = "more"
  /\ licence' = [selected |-> 1, tapped |-> 0]   \* None is the first one
  /\ UNCHANGED <<height, logRows, acc, drawn, wrapped>>

\* App::back: the hardware key closes the page and leaves the scrolls.
KeyBack ==
  /\ on # "None"
  /\ on' = "None" /\ since' = "more"
  /\ licence' = [licence EXCEPT !.tapped = 0]
  /\ UNCHANGED <<height, logRows, roll, acc, drawn, wrapped>>

LogScrollAfter(log, dir) ==
  LET tail == MaxFirst("LogViewer")
  IN IF log < 0 THEN IF dir < 0 THEN AtLeast(tail - LogPage(height), 0) ELSE log
     ELSE AtLeast(log + dir * LogPage(height), 0)

\* The page of the list of licences, as viewer_scroll computes it.
ListPage(h) == AtLeast((ButtonsAt(h) - ListTop - 8) \div ListRowH, 1)

\* A corner button; it can be tapped when it is drawn grey, too.
ViewerScroll(dir) ==
  /\ on # "None" /\ drawn.page # "None"
  /\ since # "more"
  /\ roll' = CASE on = "LogViewer" -> [roll EXCEPT !.log = LogScrollAfter(@, dir)]
               [] on = "Licenses" -> [roll EXCEPT !.lic = AtLeast(@ + dir * ListPage(height), 0)]
               [] OTHER -> [roll EXCEPT !.lic = AtLeast(@ + dir * DetailVis(height), 0)]
  /\ since' = Later(IF dir = 1 THEN "newer" ELSE "older")
  /\ UNCHANGED <<height, logRows, on, acc, drawn, licence, wrapped>>

\* drag_scroll: a step of one row whenever a row's height was travelled; a
\* log that is pinned is taken off its pin first.
DragScroll(dy) ==
  /\ on \in {"LogViewer", "LicenseDetail"}
  /\ since # "more"
  /\ LET total == acc + dy
         dir == IF total >= LogRowH THEN 1 ELSE IF total <= -LogRowH THEN -1 ELSE 0
     IN /\ acc' = total - dir * LogRowH
        /\ roll' = IF dir = 0 THEN roll
                   ELSE IF on = "LogViewer"
                   THEN [roll EXCEPT !.log = (IF @ < 0 THEN MaxFirst("LogViewer") ELSE @) + dir]
                   ELSE [roll EXCEPT !.lic = AtLeast(@ + dir, 0)]
        /\ since' = IF dir = 0 THEN since ELSE "more"
  /\ UNCHANGED <<height, logRows, on, drawn, licence, wrapped>>

\* license_row: the row of the list that is drawn, at the scroll that is.
LicenseRow(rel) ==
  /\ drawn.page = "Licenses" /\ rel < drawn.vis /\ drawn.first + rel < Len(Licences)
  /\ since # "more" /\ on = "Licenses"
  /\ roll.lic + rel < Len(Licences)
  /\ licence' = [selected |-> roll.lic + rel + 1, tapped |-> drawn.first + rel + 1]
  /\ on' = "LicenseDetail"
  /\ roll' = [roll EXCEPT !.lic = 0]
  /\ since' = "more"
  /\ UNCHANGED <<height, logRows, acc, drawn, wrapped>>

\* Another part of the app writes a line.
LogGrows ==
  /\ height > 0 /\ logRows = 25   \* once
  /\ logRows' = logRows + 1
  /\ since' = "more"
  /\ UNCHANGED <<height, on, roll, acc, drawn, licence, wrapped>>

\* present: the page is drawn, and the scroll clamped to what is drawn.
PresentPage ==
  /\ since # "none"
  /\ drawn' = Drawn
  /\ roll' = CASE on = "LogViewer" /\ roll.log >= 0 -> [roll EXCEPT !.log = FirstRow(on)]
               [] on \in {"Licenses", "LicenseDetail"} -> [roll EXCEPT !.lic = FirstRow(on)]
               [] OTHER -> roll
  /\ since' = "none"
  /\ UNCHANGED <<height, logRows, on, acc, licence, wrapped>>

ViewerNext ==
  \/ StartViewer \/ WrapText
  \/ \E p \in {"LogViewer", "Licenses"} : OpenPage(p)
  \/ ViewerBack \/ KeyBack
  \/ \E dir \in {-1, 1} : ViewerScroll(dir)
  \/ \E dy \in {-17, 17} : DragScroll(dy)
  \/ \E rel \in 0..4 : LicenseRow(rel)
  \/ LogGrows
  \/ PresentPage

(***************************************************************************)
(* Properties.                                                             *)
(***************************************************************************)
NoRuns(text) == \A i \in 1..Len(text) - 1 : ~(text[i] = Blanks /\ text[i + 1] = Blanks)
Ink(text) == {i - 1 : i \in {j \in DOMAIN text : text[j] = "x"}}
Covers(r, i) == ~r.blank /\ r.start <= i /\ i < r.end

\* wrap.rs: unless the cap was reached, every byte of a word is in one row,
\* the rows come in the order of the text, none holds a line feed, and none
\* is wider than the page but for a word that is; so the viewer of a text
\* shows all of it.  (Of a text that ends with a line feed, the forward wrap.)
WrapKeepsText ==
  LET text == wrapped.text
      rows == wrapped.rows
  IN wrapped.by = "forward" \/ (wrapped.by = "last" /\ text # <<>> /\ text[Len(text)] # LF) =>
       /\ Len(rows) <= wrapped.cap
       /\ \A i, j \in DOMAIN rows : i < j => rows[i].end <= rows[j].start
       /\ \A i \in DOMAIN rows : \A b \in rows[i].start..rows[i].end - 1 : text[b + 1] # LF
       /\ Len(rows) < wrapped.cap => \A i \in Ink(text) : \E r \in DOMAIN rows : Covers(rows[r], i)
       /\ NoRuns(text) => \A r \in ToSet(rows) :
            r.end - r.start <= MaxW \/ \A b \in r.start + 1..r.end - 2 : text[b + 1] # Blanks

\* viewer.rs log_rows: a row of the log is a piece of a line of the log, so
\* that no row holds a line feed.  The logger ends every line with one.
LogRowsAreText ==
  wrapped.by = "last" =>
    \A r \in ToSet(wrapped.rows) : \A b \in r.start..r.end - 1 : wrapped.text[b + 1] # LF

\* viewer_scroll counts a page without the margin of the list and without the
\* cap on its rows: on these panels it passes over so many rows.
Passed == CASE height = 1024 -> 1 [] height = 1872 -> 6 [] OTHER -> 0

\* viewer_scroll and present agree on what a page is: between two drawn
\* pages with one press of a button no more than Passed rows are passed over, a
\* button that is not grey moves the page, and a licence that is tapped when
\* nothing has happened since the list was drawn is the one that was drawn there.
ViewerFollows ==
  [][/\ since \in {"older", "newer"} /\ since' = "none" /\ drawn.page = on =>
          LET step == drawn'.first - drawn.first
          IN /\ step \in -(drawn.vis + Passed)..drawn.vis + Passed
             /\ since = "newer" /\ drawn.first < MaxFirst(on) => step > 0
             /\ since = "older" /\ drawn.first > 0 => step < 0
     /\ since = "none" /\ licence' # licence /\ licence'.tapped > 0 => licence'.selected = licence'.tapped]_viewerVars
====
