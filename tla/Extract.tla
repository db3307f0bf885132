---- MODULE Extract ----
(***************************************************************************)
(* What the local import takes out of a book file: the cover of each       *)
(* format extract_book_cover knows, and the title, author and series of    *)
(* extract_book_meta.  A file is the structure its format gives it, in the *)
(* order of its bytes; the bytes of a member are one of Art (they decode   *)
(* as a PNG or a JPEG), "broken" (an image that does not decode), "text",  *)
(* or "lost" (they are none, or cannot be read).                           *)
(* Every action is one call for one file; the files are bounded here.      *)
(* External: the pages MuPDF renders, the zip and XML readers.             *)
(***************************************************************************)
LOCAL INSTANCE Naturals
LOCAL INSTANCE Sequences
LOCAL INSTANCE SequencesExt
LOCAL INSTANCE Functions
LOCAL INSTANCE TLC

VARIABLES book,    \* the file that was read last
          cover,   \* what extract_book_cover returned
          names    \* what extract_book_meta returned

extractVars == <<book, cover, names>>

Nil == "nil"
Art == {"art1", "art2"}
Bytes == Art \cup {"broken"}
Abort == "abort"   \* a panic, which ends the process
NoBook == [format |-> "none"]

ExtractInit == book = NoBook /\ cover = Nil /\ names = <<>>

\* is_png_or_jpeg and decode_rgb
Decodes(b) == b \in Art

Least(S) == CHOOSE i \in S : \A j \in S : i <= j

\* The loops that try one candidate after the other.
FirstArt(s) == LET art == SelectSeq(s, Decodes)
               IN IF art = <<>> THEN Nil ELSE Head(art)

(***************************************************************************)
(* CBZ, ZIP and CBT: the images of an archive.  A member is a page number  *)
(* (what natural_key orders names by), whether its name is an image's, and *)
(* its bytes.                                                              *)
(***************************************************************************)
Member == [page : {2, 10}, image : BOOLEAN, data : Bytes]
Zips == {<<a, b>> : a \in {m \in Member : m.page = 10}, b \in {m \in Member : m.page = 2}}
          \cup {<<b, a>> : a \in {m \in Member : m.page = 10}, b \in {m \in Member : m.page = 2}}

MutantZipCover(ms) ==
  FirstArt([i \in DOMAIN SelectSeq(ms, LAMBDA m : m.image)
              |-> SelectSeq(ms, LAMBDA m : m.image)[i].data])

ZipCover(ms) ==
  LET pages == SortSeq(SelectSeq(ms, LAMBDA m : m.image), LAMBDA a, b : a.page < b.page)
  IN FirstArt([i \in DOMAIN pages |-> pages[i].data])

\* A tar file in units of 256 bytes: a header of two, the payload, and the
\* padding to an even number.  "long" is the GNU entry that names the next.
Entry == [type : {"file"}, image : BOOLEAN, size : {1, 2}, data : Bytes]
           \cup [type : {"long"}, image : BOOLEAN, size : {1}, data : {"text"}]
Tars == {<<a, b, c>> : a, b \in Entry,
                       c \in {e \in Entry : e.type = "file" /\ e.image /\ e.data = "art2"}}

Pad(n) == n % 2
Data == [type |-> "data"]
Units(e) == <<e, Data>> \o [i \in 1..(e.size + Pad(e.size)) |-> Data]

\* An image that does not decode is skipped twice: once by reading it, once
\* by the seek over its payload.  A header that is none ends the scan.
TarCover(es) ==
  LET tape == FlattenSeq([i \in DOMAIN es |-> Units(es[i])])
      at[p \in 1..(2 * Len(tape) + 8), named \in {"own", "image", "other"}] ==
        IF p > Len(tape) \/ tape[p].type = "data" THEN Nil
        ELSE LET e == tape[p]
                 image == IF named = "own" THEN e.image ELSE named = "image"
                 next == p + 2 + e.size + Pad(e.size)
             IN IF e.type = "long"
                THEN at[next, IF e.image THEN "image" ELSE "other"]
                ELSE IF ~image THEN at[next, "own"]
                ELSE IF Decodes(e.data) THEN e.data
                ELSE at[next + e.size, "own"]
  IN at[1, "own"]

(***************************************************************************)
(* FB2: the binary the coverpage names, else the first one with an image   *)
(* type.  A binary without an id ends the search.                          *)
(***************************************************************************)
Binary == [id : {"i", "j", Nil}, typed : BOOLEAN, data : Bytes]
Fb2s == [cover : {"i", Nil}, binaries : {<<a, b>> : a, b \in Binary}]

Fb2Cover(f) ==
  LET fits(b) == IF f.cover = Nil THEN b.typed ELSE b.id = f.cover
      found == {i \in DOMAIN f.binaries :
                  /\ fits(f.binaries[i])
                  /\ \A j \in 1..i : f.binaries[j].id # Nil}
      typed == {i \in DOMAIN f.binaries : f.binaries[i].typed}
      pick(S) == LET b == f.binaries[Least(S)].data
                 IN IF Decodes(b) THEN b ELSE Nil
  IN IF found # {} THEN pick(found)
     ELSE IF \E i \in DOMAIN f.binaries : f.binaries[i].id = Nil THEN Nil
     ELSE IF typed # {} THEN pick(typed) ELSE Nil

(***************************************************************************)
(* MOBI and PDB: the records after the header; the first image and the     *)
(* EXTH cover may be missing.  The header, record 0, is no MOBI header, or *)
(* a whole one, or one that is cut off within itself or its EXTH records,  *)
(* or a stub that is shorter than the bytes it is asked for its magic.     *)
(***************************************************************************)
NoIndex == 9
Mobis == [head : {"none", "whole", "cut", "stub"}, first : {0, 1, 2}, exth : {NoIndex, 0, 1},
          records : {<<a, b, c>> : a, b, c \in Bytes \cup {"text"}}]

PdbCover(records) == FirstArt(records)

MobiCover(f) ==
  LET start == IF f.first = 0 THEN 1 ELSE f.first
      named == IF f.first # 0 /\ f.exth # NoIndex /\ f.first + f.exth <= Len(f.records)
               THEN f.records[f.first + f.exth] ELSE Nil
  IN CASE f.head = "none" -> PdbCover(f.records)
       [] f.head = "cut" -> Nil
       [] f.head = "stub" -> Abort
       [] f.head = "whole" /\ Decodes(named) -> named
       [] OTHER -> FirstArt(SubSeq(f.records, start, Len(f.records)))

(***************************************************************************)
(* RTF: the pictures in order; one whose hexadecimal is too short or odd   *)
(* ends the search.  XPS: the images the first page names, where it names  *)
(* a member.                                                               *)
(***************************************************************************)
Picture == [blip : BOOLEAN, data : Bytes \cup {"short"}]
Rtfs == {<<a, b, c>> : a, b, c \in Picture}

RtfCover(ps) ==
  LET blips == SelectSeq(ps, LAMBDA p : p.blip)
      short == {i \in DOMAIN blips : blips[i].data = "short"}
  IN FirstArt([i \in 1..(IF short = {} THEN Len(blips) ELSE Least(short) - 1)
                 |-> blips[i].data])

Page == {<<a, b>> : a, b \in Bytes \cup {Nil}}
Xpss == [page : {"named", "unnamed", "lost"}, pages : {<<a, b>> : a, b \in Page}]

\* The page the sequence leads to (the second here), else the first in the
\* order of names.
XpsCover(f) == IF f.page = "lost" THEN Nil
               ELSE FirstArt(f.pages[IF f.page = "named" THEN 2 ELSE 1])

(***************************************************************************)
(* TXT: the first words that hold a letter or a digit, drawn on a sheet.   *)
(***************************************************************************)
Txts == UNION {[1..n -> {"word", "mark"}] : n \in 0..3}

TxtCover(ws) == IF "word" \in Range(ws) THEN "art1" ELSE Nil

(***************************************************************************)
(* EPUB: the member the OPF names, by its path, else by its base name, the *)
(* escaped space decoded; without a name in the OPF a member "cover.*".    *)
(* Whatever the bytes are, they are returned; a member that cannot be read *)
(* has none, and without an OPF nothing is looked for.                     *)
(***************************************************************************)
Path == [dir : {"", "img"}, base : {"cover", "a b"}]
Href == Path \cup [dir : {""}, base : {"a%20b"}]
NoHref == [dir |-> Nil, base |-> Nil]
Item == [id : {"x"}, href : Href, marked : BOOLEAN]
          \cup [id : {"y"}, href : Path, marked : BOOLEAN]
Epubs == [opf : BOOLEAN,
          items : {<<a, b>> : a \in {i \in Item : i.id = "x"}, b \in {i \in Item : i.id = "y"}},
          meta : {"x", "y", Nil},
          members : {<<[path |-> p, data |-> d], [path |-> q, data |-> "art2"]>> :
                       p \in Path, q \in {[dir |-> "img", base |-> "cover"],
                                         [dir |-> "", base |-> "a b"]},
                       d \in {"art1", "broken", "lost"}}]

\* cover_hint: the first item marked as the cover image, else the item the
\* cover meta names.
Hint(f) ==
  LET marked == SelectSeq(f.items, LAMBDA i : i.marked)
      named == SelectSeq(f.items, LAMBDA i : i.id = f.meta)
  IN IF marked # <<>> THEN Head(marked).href
     ELSE IF named # <<>> THEN Head(named).href ELSE NoHref

Unescaped(path) == [path EXCEPT !.base = IF @ = "a%20b" THEN "a b" ELSE @]

\* resolve_member: the index of the member, or 0.
Resolve(ms, href) ==
  LET exact(p) == {i \in DOMAIN ms : ms[i].path = p}
      alike(p) == {i \in DOMAIN ms : ms[i].path.base = p.base}
  IN IF exact(href) # {} THEN Least(exact(href))
     ELSE IF alike(href) # {} THEN Least(alike(href))
     ELSE IF exact(Unescaped(href)) # {} THEN Least(exact(Unescaped(href)))
     ELSE IF alike(Unescaped(href)) # {} THEN Least(alike(Unescaped(href)))
     ELSE 0

EpubCover(f) ==
  LET called == {i \in DOMAIN f.members : f.members[i].path.base = "cover"}
      i == IF Hint(f) # NoHref THEN Resolve(f.members, Hint(f))
           ELSE IF called # {} THEN Least(called)
           ELSE 0
  IN IF ~f.opf \/ i = 0 \/ f.members[i].data = "lost" THEN Nil
     ELSE f.members[i].data

(***************************************************************************)
(* The fields of an XML file: the events of its elements, up to the first  *)
(* the reader gives up at (an element that is never closed), and the       *)
(* grabber of the first element of a name.                                 *)
(***************************************************************************)
Inner == {<<>>, <<"s">>, <<"s", "<t>">>, <<"<t>", "s">>, <<"s", "</>">>, <<"s", "<!">>}
Element == [name : {"title", "creator", "other"}, open : {TRUE}, body : Inner]
             \cup [name : {"title", "other"}, open : {FALSE}, body : {<<>>}]
Xmls == {<<a, b, c>> : a, b, c \in Element}

Event(kind, what) == [kind |-> kind, what |-> what]
InnerEvents(x) ==
  CASE x = "<t>" -> <<Event("start", "i"), Event("text", "t"), Event("end", "i")>>
    [] x = "</>" -> <<Event("empty", "i")>>
    [] x = "<!" -> <<Event("error", "i")>>
    [] OTHER -> <<Event("text", x)>>
Events(e) ==
  IF ~e.open THEN <<Event("empty", e.name)>>
  ELSE <<Event("start", e.name)>>
         \o FlattenSeq([i \in DOMAIN e.body |-> InnerEvents(e.body[i])])
         \o <<Event("end", e.name)>>

Readable(es) ==
  LET errors == {i \in DOMAIN es : es[i].kind = "error"}
  IN IF errors = {} THEN es ELSE SubSeq(es, 1, Least(errors) - 1)

\* Grab: a self-closing element opens a level that nothing closes.
MutantGrab(g, e, wanted) ==
  IF g.done THEN g ELSE
  CASE e.kind \in {"start", "empty"} /\ ~g.on /\ e.what = wanted ->
         [g EXCEPT !.on = TRUE, !.depth = 0, !.out = <<>>]
    [] e.kind = "end" /\ g.on -> [g EXCEPT !.on = FALSE, !.done = g.out # <<>>]
    [] e.kind = "text" /\ g.on -> [g EXCEPT !.out = Append(@, e.what)]
    [] OTHER -> g

Grab(g, e, wanted) ==
  IF g.done THEN g ELSE
  CASE e.kind \in {"start", "empty"} /\ g.on -> [g EXCEPT !.depth = @ + 1]
    [] e.kind \in {"start", "empty"} /\ ~g.on /\ e.what = wanted ->
         [g EXCEPT !.on = TRUE, !.depth = 0, !.out = <<>>]
    [] e.kind = "end" /\ g.on /\ g.depth > 0 -> [g EXCEPT !.depth = @ - 1]
    [] e.kind = "end" /\ g.on /\ g.depth = 0 ->
         [g EXCEPT !.on = FALSE, !.done = g.out # <<>>]
    [] e.kind = "text" /\ g.on -> [g EXCEPT !.out = Append(@, e.what)]
    [] OTHER -> g

Grabbed(xml, wanted) ==
  FoldLeft(LAMBDA g, e : Grab(g, e, wanted),
           [on |-> FALSE, done |-> FALSE, depth |-> 0, out |-> <<>>],
           Readable(FlattenSeq([i \in DOMAIN xml |-> Events(xml[i])]))).out

\* epub_series: the calibre pair, the last of each; else the first
\* collection and position.  Only a self-closing meta is a calibre one.
Meta == [of : {"series", "index", "collection", "position"}, closed : BOOLEAN,
         value : {"v", "w"}]
Metas == {<<a, b, c>> : a, b, c \in Meta}

Series(ms) ==
  LET which(of, closed) ==
        SelectSeq(ms, LAMBDA m : m.of = of /\ m.closed = closed)
      last(s) == IF s = <<>> THEN Nil ELSE s[Len(s)].value
      first(s) == IF s = <<>> THEN Nil ELSE s[1].value
      position ==
        FoldLeft(LAMBDA p, m : IF m.of # "position" \/ (~m.closed /\ p # Nil)
                               THEN p ELSE m.value, Nil, ms)
  IN IF which("series", TRUE) # <<>>
     THEN <<last(which("series", TRUE)), last(which("index", TRUE))>>
     ELSE IF which("collection", FALSE) # <<>>
     THEN <<first(which("collection", FALSE)), position>>
     ELSE <<Nil, Nil>>

\* fb2_author: the parts of the first author; the text of an element that is
\* no name goes to the part before it.
Part == {"first", "middle", "last"}
Authors == {<<a, b, c>> : a, b, c \in [name : Part \cup {"nick"}, text : {"s", "t"}]}

Author(children) ==
  LET step(acc, c) ==
        LET slot == IF c.name \in Part THEN c.name ELSE acc.cur
        IN IF slot = Nil THEN acc
           ELSE [acc EXCEPT !.cur = slot, ![slot] = Append(@, c.text)]
      parts == FoldLeft(step, [cur |-> Nil, first |-> <<>>, middle |-> <<>>, last |-> <<>>],
                        children)
  IN parts.first \o parts.middle \o parts.last

(***************************************************************************)
(* The string of a PDF dictionary: up to the parenthesis that closes it.   *)
(***************************************************************************)
Token == {"a", "(", ")", "\\("}
Value == [kind : {"literal"}, body : [1..4 -> Token]]
           \cup [kind : {"other"}, body : {<<>>}]
Pdfs == {<<v, w>> : v \in Value, w \in {x \in Value : x.body \in {<<>>, <<"a", ")", "a", "a">>}}}

Plain(t) == IF t = "\\(" THEN "(" ELSE t
\* pdf_literal_string: what the string holds, or that it never ends.
Literal(body) ==
  LET step(s, t) ==
        IF s.depth = 0 THEN s
        ELSE IF t = ")" /\ s.depth = 1 THEN [s EXCEPT !.depth = 0]
        ELSE [out |-> Append(s.out, Plain(t)),
              depth |-> IF t = "(" THEN s.depth + 1
                        ELSE IF t = ")" THEN s.depth - 1 ELSE s.depth]
      end == FoldLeft(step, [out |-> <<>>, depth |-> 1], body)
  IN [ended |-> end.depth = 0, out |-> end.out]

\* pdf_dict_string: the first occurrence of the key whose value is a string.
DictString(values) ==
  LET strings == SelectSeq(values, LAMBDA v : v.kind = "literal" /\ Literal(v.body).ended)
  IN IF strings = <<>> THEN <<>> ELSE Literal(Head(strings).body).out

(***************************************************************************)
(* extract_book_cover and extract_book_meta, per format.                   *)
(***************************************************************************)
Read(format, file, art, fields) ==
  /\ book' = [format |-> format, file |-> file]
  /\ cover' = art /\ names' = fields

ExtractCover ==
  \/ \E f \in Zips : Read("zip", f, ZipCover(f), <<>>)
  \/ \E f \in Tars : Read("tar", f, TarCover(f), <<>>)
  \/ \E f \in Fb2s : Read("fb2", f, Fb2Cover(f), <<>>)
  \/ \E f \in Mobis : Read("mobi", f, MobiCover(f), <<>>)
  \/ \E f \in Rtfs : Read("rtf", f, RtfCover(f), <<>>)
  \/ \E f \in Xpss : Read("xps", f, XpsCover(f), <<>>)
  \/ \E f \in Txts : Read("txt", f, TxtCover(f), <<>>)
  \/ \E f \in Epubs : Read("epub", f, EpubCover(f), <<>>)

ExtractMeta ==
  \/ \E f \in Xmls : Read("xml", f, Nil, <<Grabbed(f, "title"), Grabbed(f, "creator")>>)
  \/ \E f \in Metas : Read("opf", f, Nil, Series(f))
  \/ \E f \in Authors : Read("author", f, Nil, Author(f))
  \/ \E f \in Pdfs : Read("pdf", f, Nil, DictString(f))

ExtractNext == book = NoBook /\ (ExtractCover \/ ExtractMeta)

(***************************************************************************)
(* Properties.                                                             *)
(***************************************************************************)
\* The candidates of the formats that take the first one that decodes, in
\* the order the format defines, up to the one that ends the search.
Candidates ==
  CASE book.format = "zip" ->
         LET at(p) == SelectSeq(book.file, LAMBDA m : m.page = p /\ m.image)
         IN at(2) \o at(10)
    [] book.format = "mobi" /\ book.file.head = "none" ->
         [i \in DOMAIN book.file.records |-> [data |-> book.file.records[i]]]
    [] book.format = "mobi" /\ book.file.head = "whole" ->
         LET f == book.file
             images == IF f.first = 0 THEN <<1, 2, 3>> ELSE SubSeq(<<1, 2, 3>>, f.first, 3)
             named == SelectSeq(images, LAMBDA i : f.first # 0 /\ i = f.first + f.exth)
             order == named \o images
         IN [i \in DOMAIN order |-> [data |-> f.records[order[i]]]]
    [] book.format = "rtf" -> SelectSeq(book.file, LAMBDA p : p.blip)
    [] book.format = "xps" /\ book.file.page = "unnamed" ->
         [i \in 1..2 |-> [data |-> book.file.pages[1][i]]]
    [] OTHER -> <<>>

\* A tile shows the right picture of its file, and a damaged member hides no
\* other.  The first candidate that decodes is returned, whatever lies
\* between; a cover the file names wins over every other and is never
\* replaced by another while it can be read; no image of a CBT in front of
\* the one that is returned decodes, unless it stands behind a broken one.
\* What is returned decodes.  The exceptions are the code's: an EPUB returns
\* the member it names undecoded, and nothing when that one cannot be read
\* (127-139); a CBT's image behind a broken one may be passed over, whose
\* payload is skipped twice (946-957); a picture without data ends an RTF; a
\* MOBI header that is cut off gives the file up (1182, 1194-1198), and one
\* too short for its magic takes the process along (1098, 1178)
\* (extract_book_cover).
CoverOfFile ==
  /\ cover = Abort <=> book.format = "mobi" /\ book.file.head = "stub"
  /\ cover \notin {Nil, Abort} /\ book.format # "epub" => Decodes(cover)
  /\ \A i \in DOMAIN Candidates :
       (/\ Decodes(Candidates[i].data)
        /\ \A j \in 1..(i - 1) : Candidates[j].data \notin Art \cup {"short"})
       => cover = Candidates[i].data
  /\ book.format = "tar" =>
       LET image(k) == /\ book.file[k].type = "file"
                       /\ IF k > 1 /\ book.file[k - 1].type = "long"
                          THEN book.file[k - 1].image ELSE book.file[k].image
           images == {k \in DOMAIN book.file : image(k)}
           decoding == {k \in images : Decodes(book.file[k].data)}
           passed(k) == \E j \in images \ decoding : j < k
       IN /\ cover # Nil =>
               \E i \in decoding : /\ cover = book.file[i].data
                                   /\ \A k \in decoding : k < i => passed(k)
          /\ \A i \in decoding : ~passed(i) => cover # Nil
  /\ book.format = "fb2" =>
       LET bs == book.file.binaries
           named == {i \in DOMAIN bs : book.file.cover # Nil /\ bs[i].id = book.file.cover}
       IN /\ cover # Nil =>
               \E i \in DOMAIN bs : bs[i].data = cover /\ (i \in named \/ (named = {} /\ bs[i].typed))
          /\ \A i \in named :
               (/\ Decodes(bs[i].data)
                /\ \A j \in 1..(i - 1) : bs[j].id # Nil /\ j \notin named)
               => cover = bs[i].data
  /\ book.format = "epub" /\ book.file.opf =>
       \A m \in Range(book.file.members) :
         (/\ m.path = Hint(book.file)
          /\ \A n \in Range(book.file.members) : n.path = m.path => n = m)
         => cover = IF m.data = "lost" THEN Nil ELSE m.data

\* Title, author and series are the file's own.  A field is the whole text
\* of the first element of its name that has text, as far as the file can be
\* read, as long as no element of that name up to this one and none inside
\* them closes itself; the series and its position
\* are the calibre pair when there is one, never half of each convention;
\* the parts of a name keep their order whatever theirs in the file, and
\* the text of another element joins them only behind one of them; a PDF
\* string is the first that ends, and ends where its parentheses balance
\* (extract_epub, extract_fb2, extract_pdf).
NamesOfFile ==
  /\ book.format = "xml" =>
       \A n \in {1, 2} :
         LET name == <<"title", "creator">>[n]
             whole(e) == e.open /\ "</>" \notin Range(e.body)
             damaged(i) == "<!" \in Range(book.file[i].body)
             named == {i \in DOMAIN book.file :
                         book.file[i].name = name /\ \A j \in 1..(i - 1) : ~damaged(j)}
             texts == {i \in named : book.file[i].body # <<>>}
             text(e) == LET read == SelectSeq(e.body, LAMBDA x : x # "<!")
                        IN [k \in DOMAIN read |-> IF read[k] = "<t>" THEN "t" ELSE "s"]
         IN (\A i \in named : (\A t \in texts : i <= t) => whole(book.file[i])) =>
              names[n] = IF texts = {} THEN <<>> ELSE text(book.file[Least(texts)])
  /\ book.format = "opf" =>
       LET calibre(of) == {m \in Range(book.file) : m.of = of /\ m.closed}
       IN /\ calibre("series") # {} =>
               /\ \E m \in calibre("series") : names[1] = m.value
               /\ names[2] = Nil <=> calibre("index") = {}
          /\ calibre("series") = {} /\ names[1] # Nil =>
               /\ \E m \in Range(book.file) :
                    m.of = "collection" /\ ~m.closed /\ names[1] = m.value
               /\ names[2] = Nil <=> \A m \in Range(book.file) : m.of # "position"
  /\ book.format = "author" =>
       LET parts(p) == SelectSeq(book.file, LAMBDA c : c.name = p)
           text(s) == [i \in DOMAIN s |-> s[i].text]
       IN (\A i \in DOMAIN book.file : book.file[i].name = "nick" =>
             \A j \in 1..(i - 1) : book.file[j].name = "nick")
          => names = text(parts("first")) \o text(parts("middle")) \o text(parts("last"))
  /\ book.format = "pdf" =>
       LET count(v, k, t) == Len(SelectSeq(SubSeq(v.body, 1, k), LAMBDA x : x = t))
           ends(v) == {k \in DOMAIN v.body : count(v, k, ")") > count(v, k, "(")}
           values == {i \in DOMAIN book.file : ends(book.file[i]) # {}}
       IN names = IF values = {} THEN <<>>
                  ELSE LET v == book.file[Least(values)]
                       IN [k \in 1..(Least(ends(v)) - 1) |-> Plain(v.body[k])]

\* extract.rs: what a tile shows of a file on the device, its picture and its
\* names, is that file's own.
FileIsRead == CoverOfFile /\ NamesOfFile
====
