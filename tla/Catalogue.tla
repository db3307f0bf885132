------------------------------- MODULE Catalogue -------------------------------
(***************************************************************************)
(* The SQLite file of the device (eh_app/src/store.rs): the table of books *)
(* and the tables that hang on it.  The full-text index keeps one document *)
(* per book under the rowid of the book, but a REPLACE moves a book to a   *)
(* new rowid; the suggestion ranks count the edges of another table.       *)
(* Nothing but the order of the statements keeps them together: there is   *)
(* no trigger and no foreign key.                                          *)
(*                                                                         *)
(* Two connections write: the worker of the sync chain in one transaction  *)
(* per page, and the screen with statements that commit one by one, so     *)
(* that a page, or a crash, may come between two of them.                  *)
(***************************************************************************)
EXTENDS Integers, FiniteSets, FiniteSetsExt

CONSTANTS
  Kavita,         \* ids of the books of the server
  Local,          \* ids of the books found on the device
  Texts,          \* what a book is indexed under: its title, author, series
  Words,          \* suggestion terms, and what is searched for
  FtsHits,        \* word -> the texts whose document MATCHes it
  LikeHits,       \* word -> the texts that contain it
  None,           \* no book
  MaxRow          \* bound: rowids given out

ASSUME CatalogueAssumption ==
  /\ Kavita \cap Local = {} /\ None \notin Kavita \cup Local
  /\ IsFiniteSet(Kavita \cup Local) /\ IsFiniteSet(Words)
  /\ MaxRow \in Nat

VARIABLES
  books,     \* id :> row of the table books
  docs,      \* rowid :> text of the document of search_fts
  edges,     \* <<term, id>> of the table suggest
  rank,      \* term :> count of the table suggest_rank
  todo,      \* the book whose deletion the screen has begun
  torn       \* history variable: deletions a crash has cut in two

catalogueVars == <<books, docs, edges, rank, todo, torn>>

Ids == Kavita \cup Local
Keys(f) == DOMAIN f
Without(f, S) == [x \in Keys(f) \ S |-> f[x]]
Put(f, k, v) == [x \in Keys(f) \cup {k} |-> IF x = k THEN v ELSE f[x]]

(***************************************************************************)
(* Statements.  A helper takes the two tables as a record t and returns the *)
(* record after the call.                                                  *)
(***************************************************************************)

\* The rowid SQLite gives a new row: one more than the largest.
NextRow(b) == 1 + Max({0} \cup {b[i].row : i \in Keys(b)})

\* fts_drop_row / fts_drop_where: the documents under the rowids of the ids.
DropDocs(t, S) ==
  [t EXCEPT !.docs = Without(@, {t.books[i].row : i \in S \cap Keys(t.books)})]

\* INSERT OR REPLACE: the new rowid is taken before the old row goes.
Replace(t, i, x, flag) ==
  [t EXCEPT !.books =
     Put(@, i, [text |-> x, downloaded |-> flag, row |-> NextRow(t.books)])]

\* Mutant: the document is written under the rowid of the book without dropping
\* the one that is there, which keeps the old text.
MutantSyncDoc(t, i) ==
  [t EXCEPT !.docs = IF t.books[i].row \in Keys(@) THEN @
                     ELSE Put(@, t.books[i].row, t.books[i].text)]

\* fts_sync_row: drop what is under the rowid of the book, index it anew.
SyncDoc(t, i) ==
  LET d == DropDocs(t, {i})
  IN  [d EXCEPT !.docs = Put(@, t.books[i].row, t.books[i].text)]

\* Mutant: the flag of the file is taken from the server, which knows nothing of it.
MutantUpsertBook(t, i, x) ==
  SyncDoc(Replace(t, i, x, FALSE), i)

\* upsert_book: the flag of the file on disk survives, the old document is
\* not dropped.
UpsertBook(t, i, x) ==
  LET kept == IF i \in Keys(t.books) THEN t.books[i].downloaded ELSE FALSE
  IN  SyncDoc(Replace(t, i, x, kept), i)

\* upsert_book_row: the caller has resolved the flag; the old document goes.
UpsertBookRow(t, i, x) ==
  SyncDoc(Replace(DropDocs(t, {i}), i, x, TRUE), i)

\* delete_book and delete_source.
DeleteBooks(t, S) ==
  [DropDocs(t, S) EXCEPT !.books = Without(@, S)]

Tables == [books |-> books, docs |-> docs]
Write(t) == \E u \in {t} : books' = u.books /\ docs' = u.docs

\* suggest_set of one book, with the ranks of the old and of the new terms
\* refreshed and the empty ones dropped.
Edges(e, i, T) == {x \in e : x[2] # i} \cup {<<w, i>> : w \in T}
Count(e, w) == Cardinality({x \in e : x[1] = w})
Ranks(k, e, touched) ==
  LET n == [w \in touched \cup Keys(k) |->
              IF w \in touched THEN Count(e, w) ELSE k[w]]
  IN  Without(n, {w \in Keys(n) : n[w] = 0})
Terms(e, i) == {x[1] : x \in {y \in e : y[2] = i}}

\* Mutant: only the terms a book has now are counted again.
MutantSuggestSet(i, T) ==
  LET e == Edges(edges, i, T)
  IN  edges' = e /\ rank' = Ranks(rank, e, T)

SuggestSet(i, T) ==
  LET e == Edges(edges, i, T)
  IN  edges' = e /\ rank' = Ranks(rank, e, Terms(edges, i) \cup T)

OwnerOf(i) == IF i \in Kavita THEN "kavita" ELSE "local"

\* Mutant: an index that holds anything is taken to answer every query.
MutantSearch(w, src) ==
  LET own == {i \in Keys(books) : OwnerOf(i) = src}
  IN  IF docs # <<>>
      THEN {i \in own : /\ books[i].row \in Keys(docs)
                       /\ docs[books[i].row] \in FtsHits[w]}
      ELSE {i \in own : books[i].text \in LikeHits[w]}

\* search: by the index when any document at all matches, of whatever source,
\* joined with the books by rowid; else by substring.
Search(w, src) ==
  LET own == {i \in Keys(books) : OwnerOf(i) = src}
      probe == \E r \in Keys(docs) : docs[r] \in FtsHits[w]
  IN  IF probe
      THEN {i \in own : /\ books[i].row \in Keys(docs)
                       /\ docs[books[i].row] \in FtsHits[w]}
      ELSE {i \in own : books[i].text \in LikeHits[w]}

---------------------------------------------------------------------------
\* Store::open on a new file.
CatalogueInit ==
  /\ books = <<>> /\ docs = <<>> /\ edges = {} /\ rank = <<>>
  /\ todo = None /\ torn = {}

RoomFor == \A i \in Keys(books) : books[i].row < MaxRow

\* One book of a page of the sync chain, in the transaction of the page: a
\* book without suggestions keeps the ones it had.
SyncUpsert(i, x, T) ==
  /\ RoomFor
  /\ Write(UpsertBook(Tables, i, x))
  /\ IF T = {} THEN UNCHANGED <<edges, rank>> ELSE SuggestSet(i, T)
  /\ torn' = torn \ {i}
  /\ UNCHANGED todo

\* One removal of a page: the row and its document go, the suggestions are
\* set to none, the read marker stays.
SyncDelete(i) ==
  /\ i \in Keys(books)
  /\ Write(DeleteBooks(Tables, {i}))
  /\ SuggestSet(i, {})
  /\ torn' = torn \ {i}
  /\ UNCHANGED todo

\* The import of the device: one transaction that drops the rows of files
\* that are gone, with their markers, and writes the ones that changed.
Import(gone, i, x) ==
  /\ todo = None /\ RoomFor
  /\ Write(UpsertBookRow(DeleteBooks(Tables, gone), i, x))
  /\ torn' = torn \ (gone \cup {i})
  /\ UNCHANGED <<edges, rank, todo>>

\* set_downloaded from a drained download or the reader, and the boot flips.
SetDownloaded(S, flag) ==
  /\ todo = None
  /\ books' = [i \in Keys(books) |->
                 IF i \in S THEN [books[i] EXCEPT !.downloaded = flag]
                 ELSE books[i]]
  /\ UNCHANGED <<docs, edges, rank, todo, torn>>

\* "Delete from cloud": delete_book_row, statements that commit one by one:
\* the document, the row, and the read marker, which nothing else reads.
DeleteRowStart(i) ==
  /\ todo = None /\ i \in Keys(books)
  /\ docs' = DropDocs(Tables, {i}).docs
  /\ todo' = i
  /\ torn' = torn \cup {i}
  /\ UNCHANGED <<books, edges, rank>>
DeleteRow ==
  /\ todo # None
  /\ books' = Without(books, {todo})
  /\ todo' = None
  /\ torn' = torn \ {todo}
  /\ UNCHANGED <<docs, edges, rank>>

\* fts_backfill: a document for every row.
Backfilled ==
  [r \in {books[i].row : i \in Keys(books)} |->
     books[CHOOSE i \in Keys(books) : books[i].row = r].text]

\* A crash between two statements, or a plain restart: Store::open indexes
\* the whole library when the index is empty, and only then.
Reopen ==
  /\ todo' = None
  /\ docs' = IF docs = <<>> THEN Backfilled ELSE docs
  /\ torn' = IF docs = <<>> THEN {} ELSE torn
  /\ UNCHANGED <<books, edges, rank>>

CatalogueNext ==
  \/ \E i \in Kavita, x \in Texts, T \in SUBSET Words : SyncUpsert(i, x, T)
  \/ \E i \in Kavita : SyncDelete(i)
  \/ \E i \in Local : \E x \in Texts, gone \in SUBSET (Local \ {i}) : Import(gone, i, x)
  \/ \E i \in Kavita, flag \in BOOLEAN : SetDownloaded({i}, flag)
  \/ \E i \in Kavita : DeleteRowStart(i)
  \/ DeleteRow
  \/ Reopen

CatalogueSpec == CatalogueInit /\ [][CatalogueNext]_catalogueVars

---------------------------------------------------------------------------
(***************************************************************************)
(* Properties.                                                             *)
(***************************************************************************)

\* The index can be trusted where it is joined with the books: whatever order
\* pages, imports, deletions and crashes come in, and however rowids are given
\* out again, the document under the rowid of a book is the one of its text.
\* Only a deletion that a crash has cut in two leaves a book without one, and
\* never with that of another.  The ranks by which suggestions are ordered
\* (suggest_rank) are the counts of the edges, and a term nobody uses any more
\* has no rank.
IndexTracksRows ==
  /\ \A i \in Keys(books) :
       /\ i \notin torn => books[i].row \in Keys(docs)
       /\ books[i].row \in Keys(docs) => docs[books[i].row] = books[i].text
  /\ Keys(rank) = {x[1] : x \in edges}
  /\ \A w \in Keys(rank) : rank[w] = Count(edges, w)

\* A search answers with books whose own text matches: documents that were left
\* behind under old rowids never bring up another book.  When nothing matches
\* in the index the answer is complete.
SearchIsSound ==
  \A w \in Words, src \in {"kavita", "local"} :
    /\ \A i \in Search(w, src) : books[i].text \in FtsHits[w] \cup LikeHits[w]
    /\ (\A r \in Keys(docs) : docs[r] \notin FtsHits[w]) =>
         \A i \in Keys(books) : OwnerOf(i) = src /\ books[i].text \in LikeHits[w]
                               => i \in Search(w, src)

\* What the reader has on disk stays known: a row that is replaced, by a page
\* of the server or by the import, keeps the flag of its file.
FilesAreKept ==
  [][\A i \in Keys(books) \cap Keys(books') :
       books[i].downloaded /\ books'[i].row # books[i].row
       => books'[i].downloaded]_catalogueVars

===============================================================================
