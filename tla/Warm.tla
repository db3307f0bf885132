-------------------------------- MODULE Warm --------------------------------
(***************************************************************************)
(* The covers of the device: eh_app/src/cover.rs and the tile art of       *)
(* pages.rs.  The warm passes started at boot and after every sync run on  *)
(* threads of their own and fetch what the cache lacks; the user interface *)
(* fetches the page it flips to and shows, unlinks and extracts covers.    *)
(* All of them install a file through the one temporary name of its book.  *)
(***************************************************************************)
EXTENDS Integers, Sequences, SequencesExt

CONSTANTS
  Library,     \* the books in the order of list_books
  LocalBooks,  \* those that are files of the device
  Answers(_),  \* what the server may send for a book: "whole" art, the "tiny" placeholder, "error"
  HasArt(_),   \* whether a local file has art to extract
  Workers,     \* bound: the warm passes, one thread each
  CacheCap,    \* ART_CACHE_CAP
  None

Books == {Library[i] : i \in DOMAIN Library}
UI == "ui"
Procs == Workers \union {UI}

ASSUME WarmAssumption ==
  /\ LocalBooks \subseteq Books /\ Library \in Seq(Books)
  /\ UI \notin Workers /\ CacheCap \in Nat \ {0}
  /\ None \notin {"part", "torn", "whole", "tiny", "empty", "art", "blank", "tmp", "png", "gone"}
  /\ \A b \in LocalBooks : HasArt(b) \in BOOLEAN

(* What the server answers to an id it does not know is the placeholder. *)
ASSUME ServerAssumption == \A b \in LocalBooks : "whole" \notin Answers(b)

VARIABLES
  png,    \* <id>.png per book: None, "whole", "tiny", "part" (being written), "torn"
  tmp,    \* <id>.tmp per book: None, "whole", "part", "torn" (given up half-written)
  raw,    \* <id>.raw per book: None, "whole", or "empty", the tombstone
  proc,   \* per thread: [at, id, ids, inode: where the file it writes is now]
  unused, \* workers no pass was started on
  warm,   \* WarmHandle: [total, remaining, online]
  net,    \* net_active()
  sheet,  \* the sync sheet: "closed", "Covers" or "Done"
  memo,   \* ArtCache::order
  shown   \* per local book: what its tile shows: None, "art" or "blank"

files == <<png, tmp, raw>>
vars == <<files, proc, unused, warm, net, sheet, memo, shown>>

Idle == [at |-> "idle", id |-> None, ids |-> <<>>, inode |-> None]
At(p, a) == proc[p].at = a

-----------------------------------------------------------------------------
(* The passes. *)

(* cover_warm_start after a sync landed, or at boot. *)
StartPass(w) ==
  /\ At(UI, "idle") /\ w \in unused
  /\ proc' = [proc EXCEPT ![w] = [Idle EXCEPT !.at = "next", !.ids = Library]]
  /\ unused' = unused \ {w}
  /\ warm' = [warm EXCEPT !.total = Len(Library), !.remaining = Len(Library)]
  /\ sheet' = "Covers"
  /\ UNCHANGED <<files, net, memo, shown>>

MutantOffline(r) == r

(* Offline, the id that was popped is passed over. *)
Offline(r) == [r EXCEPT !.ids = Front(@)]

(* The thread goes on with the next id, and fetches it if the cache lacks it. *)
Onward(r) == [r EXCEPT !.at = "next", !.id = None, !.inode = None]
Wants(r, id) == IF png[id] = None THEN [r EXCEPT !.at = "get", !.id = id] ELSE r

(* The worker pops the next id; what the cache has is not fetched. *)
WorkerNext(w) ==
  LET ids == proc[w].ids IN
  /\ At(w, "next")
  /\ CASE ids = <<>> ->
            proc' = [proc EXCEPT ![w] = Idle] /\ warm' = [warm EXCEPT !.remaining = 0]
       [] ids # <<>> /\ ~ warm.online ->
            proc' = [proc EXCEPT ![w] = Offline(@)] /\ UNCHANGED warm
       [] ids # <<>> /\ warm.online ->
            /\ proc' = [proc EXCEPT ![w] = Wants([@ EXCEPT !.ids = Front(ids)], Last(ids))]
            /\ warm' = [warm EXCEPT !.remaining = Len(ids) - 1]
  /\ UNCHANGED <<files, unused, net, sheet, memo, shown>>

(* goto_page fetches the page it flips to, online only, on the UI thread. *)
Flip(page) ==
  /\ At(UI, "idle") /\ net /\ page # <<>>
  /\ proc' = [proc EXCEPT ![UI] = [Idle EXCEPT !.at = "next", !.ids = page]]
  /\ UNCHANGED <<files, unused, warm, net, sheet, memo, shown>>

FlipNext ==
  LET ids == proc[UI].ids IN
  /\ At(UI, "next")
  /\ proc' = [proc EXCEPT ![UI] =
                IF ids = <<>> THEN Idle
                ELSE Wants([@ EXCEPT !.ids = Tail(ids)], Head(ids))]
  /\ UNCHANGED <<files, unused, warm, net, sheet, memo, shown>>

-----------------------------------------------------------------------------
(* fetch, on whichever thread. *)

(* validate_cover_bytes: the placeholder of the server is never kept. *)
Valid(a) == a = "whole"

Get(p) ==
  /\ At(p, "get")
  /\ \E a \in IF net THEN Answers(proc[p].id) ELSE {"error"} :
       proc' = [proc EXCEPT ![p] = IF Valid(a) THEN [@ EXCEPT !.at = "open"] ELSE Onward(@)]
  /\ UNCHANGED <<files, unused, warm, net, sheet, memo, shown>>

(* The thread gives the cover up with an error, which its caller ignores. *)
Fails(p) == proc' = [proc EXCEPT ![p] = Onward(@)]

(* fs::write creates or empties the temporary file, unless it may not, ... *)
Open(p) ==
  /\ At(p, "open")
  /\ \/ /\ tmp' = [tmp EXCEPT ![proc[p].id] = "part"]
        /\ proc' = [proc EXCEPT ![p].at = "write", ![p].inode = "tmp"]
     \/ Fails(p) /\ UNCHANGED tmp
  /\ UNCHANGED <<png, raw, unused, warm, net, sheet, memo, shown>>

MutantLands(r, place) == r.inode = "tmp" /\ place = "tmp"

(* An open file is where its inode is. *)
Lands(r, place) == r.inode = place

(* ... and writes it wherever another thread has renamed it to meanwhile; a *)
(* disk that is full leaves it torn, there as well.                         *)
Write(p) ==
  /\ At(p, "write")
  /\ \E wrote \in {"whole", "torn"} :
       /\ tmp' = IF Lands(proc[p], "tmp") THEN [tmp EXCEPT ![proc[p].id] = wrote] ELSE tmp
       /\ png' = IF Lands(proc[p], "png") THEN [png EXCEPT ![proc[p].id] = wrote] ELSE png
       /\ IF wrote = "torn" THEN Fails(p) ELSE proc' = [proc EXCEPT ![p].at = "rename"]
  /\ UNCHANGED <<raw, unused, warm, net, sheet, memo, shown>>

(* The rename finds the file gone, or takes it along with whoever writes it. *)
Rename(p) ==
  LET b == proc[p].id
      here == tmp[b] # None
      followed(q) == IF proc[q].id # b \/ ~ here THEN proc[q].inode
                     ELSE CASE proc[q].inode = "tmp" -> "png"
                            [] proc[q].inode = "png" -> "gone"
                            [] OTHER -> proc[q].inode IN
  /\ At(p, "rename")
  /\ \/ /\ png' = IF here THEN [png EXCEPT ![b] = tmp[b]] ELSE png
        /\ tmp' = [tmp EXCEPT ![b] = None]
        /\ proc' = [q \in Procs |->
                      IF q = p THEN Onward(proc[p])
                      ELSE [proc[q] EXCEPT !.inode = followed(q)]]
     \/ Fails(p) /\ UNCHANGED <<png, tmp>>
  /\ UNCHANGED <<raw, unused, warm, net, sheet, memo, shown>>

-----------------------------------------------------------------------------
(* The tiles: store_view_page per book. *)

(* art_store: the oldest of a full memo gives way. *)
Memoised(b) ==
  IF Contains(memo, b) THEN memo
  ELSE Append(IF Len(memo) >= CacheCap THEN Tail(memo) ELSE memo, b)

Drew(b, real) ==
  /\ shown' = [c \in LocalBooks |-> IF c # b THEN shown[c] ELSE IF real THEN "art" ELSE "blank"]
  /\ memo' = IF real THEN Memoised(b) ELSE memo

(* local_cover_art: extracted once, with a tombstone for a file without art. *)
LocalArt(b) ==
  IF b \notin LocalBooks THEN Drew(b, FALSE) /\ UNCHANGED raw
  ELSE /\ raw' = [raw EXCEPT ![b] = IF @ # None THEN @ ELSE IF HasArt(b) THEN "whole" ELSE "empty"]
       /\ Drew(b, raw'[b] = "whole")

MutantPoisoned(b) == FALSE

(* load_valid_rgb: a cached file that is not a cover is unlinked. *)
Poisoned(b) == png[b] \in {"part", "torn", "tiny"}

Show(b) ==
  /\ At(UI, "idle")
  /\ CASE Contains(memo, b) -> Drew(b, TRUE) /\ UNCHANGED <<proc, raw>>
       [] ~ Contains(memo, b) /\ Poisoned(b) ->
            /\ proc' = [proc EXCEPT ![UI] = [Idle EXCEPT !.at = "unlink", !.id = b]]
            /\ UNCHANGED <<raw, memo, shown>>
       [] ~ Contains(memo, b) /\ ~ Poisoned(b) ->
            /\ IF png[b] # None THEN Drew(b, png[b] = "whole") /\ UNCHANGED raw ELSE LocalArt(b)
            /\ UNCHANGED proc
  /\ UNCHANGED <<png, tmp, unused, warm, net, sheet>>

Unlink ==
  LET b == proc[UI].id IN
  /\ At(UI, "unlink")
  /\ png' = [png EXCEPT ![b] = None]
  /\ proc' = [q \in Procs |->
                IF q = UI THEN Idle
                ELSE IF proc[q].id = b /\ proc[q].inode = "png" THEN [proc[q] EXCEPT !.inode = "gone"]
                ELSE proc[q]]
  /\ LocalArt(b)
  /\ UNCHANGED <<tmp, unused, warm, net, sheet>>

-----------------------------------------------------------------------------
(* validate_raw_cache: the extracted covers of another version are dropped. *)
Validated(r, current) == IF current THEN r ELSE [b \in Books |-> None]

Init ==
  /\ png \in [Books -> {None, "tiny", "torn"}]
  /\ \A b \in Books : png[b] # IF b \in LocalBooks THEN "torn" ELSE "tiny"
  /\ tmp = [b \in Books |-> None]
  /\ \E r \in [Books -> {None, "empty"}], current \in BOOLEAN :
       /\ \A b \in Books : r[b] = "empty" => b \in LocalBooks /\ (current => ~ HasArt(b))
       /\ raw = Validated(r, current)
  /\ proc = [p \in Procs |-> Idle] /\ unused = Workers
  /\ warm = [total |-> 0, remaining |-> 0, online |-> TRUE]
  /\ net \in BOOLEAN /\ sheet = "closed"
  /\ memo = <<>> /\ shown = [b \in LocalBooks |-> None]

(* The tick: the gate of the workers, and sync_popup_close_tick. *)
Tick ==
  /\ At(UI, "idle")
  /\ warm' = [warm EXCEPT !.online = net]
  /\ sheet' = CASE sheet = "Covers" /\ warm.total > 0 /\ warm.remaining > 0 -> "Covers"
                [] sheet = "Covers" /\ ~ (warm.total > 0 /\ warm.remaining > 0) -> "Done"
                [] OTHER -> "closed"
  /\ UNCHANGED <<files, proc, unused, net, memo, shown>>

Network ==
  net' = ~ net /\ UNCHANGED <<files, proc, unused, warm, sheet, memo, shown>>

Next ==
  \/ \E w \in Workers : StartPass(w) \/ WorkerNext(w)
  \/ \E b \in Books : Flip(<<b>>)
  \/ FlipNext
  \/ \E p \in Procs : Get(p) \/ Open(p) \/ Write(p) \/ Rename(p)
  \/ \E b \in Books : Show(b)
  \/ Unlink \/ Tick \/ Network

(* Threads run on and the main loop ticks; the HTTP client times out. *)
Fairness ==
  /\ \A w \in Workers : WF_vars(WorkerNext(w) \/ Get(w) \/ Open(w) \/ Write(w) \/ Rename(w))
  /\ WF_vars(FlipNext \/ Get(UI) \/ Open(UI) \/ Write(UI) \/ Rename(UI) \/ Unlink)
  /\ SF_vars(Tick)

Spec == Init /\ [][Next]_vars /\ Fairness

-----------------------------------------------------------------------------
TypeOK ==
  /\ png \in [Books -> {None, "whole", "part", "torn", "tiny"}]
  /\ tmp \in [Books -> {None, "part", "torn", "whole"}] /\ raw \in [Books -> {None, "whole", "empty"}]
  /\ \A p \in Procs : proc[p].at \in {"idle", "next", "get", "open", "write", "rename", "unlink"}
  /\ warm.remaining \in 0 .. Len(Library) /\ Len(memo) <= CacheCap

(* A truncated cover file does not last: the thread that emptied the file     *)
(* under another one's rename finishes it (fetch: fs::write and rename        *)
(* through the one temporary name).  Only when that write fails does the      *)
(* file stay torn, with nobody to write it, until a tile looks at it          *)
(* (load_valid_rgb unlinks it).                                               *)
TornHeals == \A b \in Books : png[b] = "part" ~> png[b] # "part"

(* The sheet of a sync that warms covers closes in the end, online or not,    *)
(* with however many passes draining (the offline branch of the worker and    *)
(* sync_popup_close_tick, which would pin the modal sheet forever).           *)
SheetCloses == sheet = "Covers" ~> sheet = "closed"

(* The placeholder that the server sends for a book without a cover is never  *)
(* cached, and one an older build cached is gone by the time a tile that      *)
(* needed it is drawn: a local book with art in its file shows it, whatever   *)
(* was fetched for its id (validate_cover_bytes, load_valid_rgb).             *)
LocalArtShows ==
  TypeOK /\ \A b \in LocalBooks : shown[b] # None => (shown[b] = "art" <=> HasArt(b))
=============================================================================
