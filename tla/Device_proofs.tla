---------------------------- MODULE Device_proofs ----------------------------
(***************************************************************************)
(* Proofs about the parts of the device that keep their state to           *)
(* themselves: the SQLite file (Catalogue), the settings with the home     *)
(* task (Settings), and the walk of a reader through the shelf (Shelf).    *)
(***************************************************************************)
EXTENDS Sequences, Catalogue, Settings, Shelf, FiniteSetTheorems, SequenceTheorems,
        WellFoundedInduction, TLAPS

---------------------------------------------------------------------------
(***************************************************************************)
(* The catalogue, for any number of books, words and rowids.  A document   *)
(* left behind under an old rowid is harmless for two reasons: no book has *)
(* that rowid, and a book that is given it again drops what is there       *)
(* before it writes its own.  The first needs that no two books ever share *)
(* a rowid, which is what the invariant adds.                              *)
(***************************************************************************)

(* The rowid of a new row.                                                 *)

(* A finite set of numbers has a greatest one: a member above which a      *)
(* minimal part of the set lies.                                           *)
LEMMA GreatestExists ==
  ASSUME NEW S \in SUBSET Nat, S # {}, IsFiniteSet(S)
  PROVE  \E m \in S : \A s \in S : m >= s
<1> DEFINE Above(m) == {s \in S : s > m}
           T == {Above(m) : m \in S}
<1>1. IsWellFoundedOn(StrictSubsetOrdering(S), SUBSET S)
  BY FS_StrictSubsetOrderingWellFounded, FS_FiniteSubsetsOfFinite
<1>2. T \subseteq SUBSET S /\ T # {}
  OBVIOUS
<1>3. \E X \in T : \A Y \in T : ~ (<<Y, X>> \in StrictSubsetOrdering(S))
  <2> HIDE DEF T
  <2> QED
    BY <1>1, <1>2, WFMin
<1>4. PICK m \in S : \A k \in S : ~ (<<Above(k), Above(m)>> \in StrictSubsetOrdering(S))
  BY <1>3
<1>5. ASSUME NEW k \in S, k > m
      PROVE  FALSE
  <2>1. Above(k) \subseteq Above(m)
    <3>1. k \in Nat /\ m \in Nat /\ \A s \in S : s \in Nat
      OBVIOUS
    <3>2. \A s \in S : s > k => s > m
      BY <1>5, <3>1
    <3> QED
      BY <3>2
  <2>2. k \in Above(m) /\ k \notin Above(k)
    BY <1>5
  <2>3. Above(k) \in SUBSET S /\ Above(m) \in SUBSET S
    OBVIOUS
  <2>4. <<Above(k), Above(m)>> \in StrictSubsetOrdering(S)
    <3> HIDE DEF Above
    <3> QED
      BY <2>1, <2>2, <2>3 DEF StrictSubsetOrdering
  <2> QED
    BY <1>4, <2>4
<1>6. m \in Nat /\ \A s \in S : s \in Nat
  OBVIOUS
<1> QED
  BY <1>5, <1>6

Row == [text : Texts, downloaded : BOOLEAN, row : Nat \ {0}]

(* A table of books, no two of them under one rowid.                       *)
Table(b) ==
  /\ Keys(b) \subseteq Ids
  /\ b \in [Keys(b) -> Row]
  /\ \A i, j \in Keys(b) : b[i].row = b[j].row => i = j

(* The rowid of a new row is above those that are in use.                  *)
LEMMA NextRowIsNew ==
  ASSUME NEW b, Table(b)
  PROVE  /\ NextRow(b) \in Nat \ {0}
         /\ \A i \in Keys(b) : b[i].row < NextRow(b)
<1> DEFINE Used == {b[i].row : i \in Keys(b)}
           S == {0} \cup Used
<1>1. IsFiniteSet(Keys(b))
  BY CatalogueAssumption, FS_Subset DEF Table, Ids
<1>2. IsFiniteSet(Used)
  <2> DEFINE f == [i \in Keys(b) |-> b[i].row]
  <2>1. f \in Surjection(Keys(b), Used)
    BY DEF Surjection
  <2> HIDE DEF f, Used
  <2> QED
    BY <1>1, <2>1, FS_Surjection
<1>3. S \in SUBSET Nat /\ S # {}
  BY DEF Table, Row
<1>4. IsFiniteSet(S)
  BY <1>2, FS_AddElement
<1>5. PICK n \in S : \A s \in S : n >= s
  <2> HIDE DEF S
  <2> QED
    BY <1>3, <1>4, GreatestExists
<1>6. Max(S) \in S /\ \A s \in S : Max(S) >= s
  <2> HIDE DEF S
  <2> QED
    BY <1>5 DEF Max
<1>7. NextRow(b) = 1 + Max(S)
  BY DEF NextRow
<1>8. \A i \in Keys(b) : b[i].row \in S
  OBVIOUS
<1> DEFINE m == Max(S)
<1>9. m \in Nat /\ \A i \in Keys(b) : m >= b[i].row /\ b[i].row \in Nat
  <2> HIDE DEF S
  <2> QED
    BY <1>3, <1>6, <1>8
<1>10. NextRow(b) = 1 + m
  BY <1>7
<1> HIDE DEF m
<1> QED
  BY <1>9, <1>10

---------------------------------------------------------------------------
(* What the statements do to the two tables.                               *)

(* Every book has the document of its text under its rowid, but for those  *)
(* in T, which may have none.                                              *)
Follows(t, T) ==
  \A i \in Keys(t.books) :
    /\ i \notin T => t.books[i].row \in Keys(t.docs)
    /\ t.books[i].row \in Keys(t.docs) => t.docs[t.books[i].row] = t.books[i].text

Sane(t, T) ==
  /\ t = [books |-> t.books, docs |-> t.docs]
  /\ Table(t.books)
  /\ Follows(t, T)

(* A book loses no document but its own.                                   *)
LEMMA DropDocsSane ==
  ASSUME NEW t, NEW T, Sane(t, T), NEW S
  PROVE  /\ DropDocs(t, S).books = t.books
         /\ Sane(DropDocs(t, S), T \cup S)
<1> DEFINE gone == {t.books[i].row : i \in S \cap Keys(t.books)}
           d == Without(t.docs, gone)
<1>1. DropDocs(t, S) = [books |-> t.books, docs |-> d]
  BY DEF DropDocs, Sane
<1>2. \A i \in Keys(t.books) : t.books[i].row \in gone <=> i \in S
  BY DEF Sane, Table
<1> HIDE DEF gone
<1>3. Keys(d) = Keys(t.docs) \ gone /\ \A r \in Keys(d) : d[r] = t.docs[r]
  BY DEF Without, Keys
<1> HIDE DEF d
<1> DEFINE u == DropDocs(t, S)
<1>4. u.books = t.books /\ u.docs = d /\ u = [books |-> u.books, docs |-> u.docs]
  BY <1>1
<1> HIDE DEF u
<1>5. Follows(u, T \cup S)
  BY <1>2, <1>3, <1>4 DEF Sane, Follows
<1> QED
  BY <1>4, <1>5 DEF Sane, u

(* Deleting the row of a book leaves the index no entry of it. *)
LEMMA DeleteSane ==
  ASSUME NEW t, NEW T, Sane(t, T), NEW S
  PROVE  /\ Sane(DeleteBooks(t, S), T \ S)
         /\ Keys(DeleteBooks(t, S).books) = Keys(t.books) \ S
         /\ \A i \in Keys(t.books) \ S : DeleteBooks(t, S).books[i] = t.books[i]
<1> DEFINE u == DropDocs(t, S)
           b == Without(u.books, S)
           v == DeleteBooks(t, S)
<1>1. u.books = t.books /\ Sane(u, T \cup S)
  BY DropDocsSane
<1>2. v = [u EXCEPT !.books = b]
  BY DEF DeleteBooks
<1> HIDE DEF u, v
<1>3. v = [books |-> b, docs |-> u.docs]
  BY <1>1, <1>2 DEF Sane
<1>4. /\ Keys(b) = Keys(t.books) \ S
      /\ b = [i \in Keys(b) |-> t.books[i]]
  BY <1>1 DEF Without, Keys
<1> HIDE DEF b
<1>5. \A i \in Keys(b) : b[i] = t.books[i] /\ i \in Keys(t.books) /\ i \notin S
  BY <1>4
<1>6. Table(b)
  BY <1>1, <1>4, <1>5 DEF Sane, Table
<1>7. v.books = b /\ v.docs = u.docs /\ v = [books |-> v.books, docs |-> v.docs]
  BY <1>3
<1>8. Follows(v, T \ S)
  BY <1>1, <1>5, <1>7 DEF Sane, Follows
<1> QED
  BY <1>4, <1>5, <1>6, <1>7, <1>8 DEF Sane, v

(* What a replaced book leaves in the tables: a row with a new rowid, and  *)
(* under it the document of its text in place of whatever was there.       *)
LEMMA ReplaceEffect ==
  ASSUME NEW t, t = [books |-> t.books, docs |-> t.docs], NEW i, NEW x, NEW flag
  PROVE  SyncDoc(Replace(t, i, x, flag), i) =
           [books |-> Put(t.books, i, [text |-> x, downloaded |-> flag, row |-> NextRow(t.books)]),
            docs  |-> Put(Without(t.docs, {NextRow(t.books)}), NextRow(t.books), x)]
<1> DEFINE r == NextRow(t.books)
           new == [text |-> x, downloaded |-> flag, row |-> r]
           b == Put(t.books, i, new)
           d == Without(t.docs, {r})
           u == Replace(t, i, x, flag)
<1>1. u = [books |-> b, docs |-> t.docs]
  BY DEF Replace
<1>2. b[i] = new /\ i \in Keys(b)
  BY DEF Put, Keys
<1> HIDE DEF b
<1>3. new.row = r /\ new.text = x
  OBVIOUS
<1> HIDE DEF new, r
<1>4. {u.books[k].row : k \in {i} \cap Keys(u.books)} = {r}
  BY <1>1, <1>2, <1>3
<1>5. DropDocs(u, {i}) = [books |-> b, docs |-> d]
  BY <1>1, <1>4 DEF DropDocs
<1> HIDE DEF d, u
<1>6. SyncDoc(u, i) = [DropDocs(u, {i}) EXCEPT !.docs = Put(@, u.books[i].row, u.books[i].text)]
  BY DEF SyncDoc
<1>7. u.books[i].row = r /\ u.books[i].text = x
  BY <1>1, <1>2, <1>3
<1>8. SyncDoc(u, i) = [books |-> b, docs |-> Put(d, r, x)]
  BY <1>5, <1>6, <1>7
<1> QED
  BY <1>8 DEF b, d, u, new, r

(* Replacing a row replaces its entries of the index. *)
LEMMA ReplaceRows ==
  ASSUME NEW t, t = [books |-> t.books, docs |-> t.docs], NEW i, NEW x, NEW flag \in BOOLEAN,
         NEW v, v = SyncDoc(Replace(t, i, x, flag), i)
  PROVE  /\ Keys(v.books) = Keys(t.books) \cup {i}
         /\ flag => v.books[i].downloaded
         /\ \A j \in Keys(t.books) : j # i => v.books[j] = t.books[j]
<1> DEFINE new == [text |-> x, downloaded |-> flag, row |-> NextRow(t.books)]
<1>1. v.books = Put(t.books, i, new)
  <2> DEFINE e == Put(Without(t.docs, {NextRow(t.books)}), NextRow(t.books), x)
             w == SyncDoc(Replace(t, i, x, flag), i)
  <2>1. w = [books |-> Put(t.books, i, new), docs |-> e]
    BY ReplaceEffect
  <2> HIDE DEF new, e, w
  <2>2. w.books = Put(t.books, i, new)
    BY <2>1
  <2> QED
    BY <2>2 DEF w
<1>2. flag => new.downloaded
  OBVIOUS
<1> HIDE DEF new
<1> QED
  BY <1>1, <1>2 DEF Put, Keys

(* A book that is replaced takes a rowid nobody has and drops what was     *)
(* left under it.                                                          *)
LEMMA ReplaceSane ==
  ASSUME NEW t, NEW T, Sane(t, T), NEW i \in Ids, NEW x \in Texts, NEW flag \in BOOLEAN
  PROVE  Sane(SyncDoc(Replace(t, i, x, flag), i), T \ {i})
<1> DEFINE r == NextRow(t.books)
           new == [text |-> x, downloaded |-> flag, row |-> r]
           b == Put(t.books, i, new)
           e == Put(Without(t.docs, {r}), r, x)
           v == SyncDoc(Replace(t, i, x, flag), i)
<1>1. r \in Nat \ {0} /\ \A j \in Keys(t.books) : t.books[j].row \in Nat /\ t.books[j].row < r
  BY NextRowIsNew DEF Sane, Table, Row
<1>2. v = [books |-> b, docs |-> e]
  BY ReplaceEffect DEF Sane
<1> HIDE DEF r
<1>3. new \in Row /\ new.row = r /\ new.text = x
  BY <1>1 DEF Row
<1> HIDE DEF new
<1>4. /\ Keys(b) = Keys(t.books) \cup {i} /\ b[i] = new
      /\ \A j \in Keys(t.books) : j # i => b[j] = t.books[j]
      /\ b = [j \in Keys(b) |-> b[j]]
  BY DEF Put, Keys
<1> HIDE DEF b
<1>5. Table(b)
  <2>1. Keys(b) \subseteq Ids /\ b \in [Keys(b) -> Row]
    BY <1>3, <1>4 DEF Sane, Table
  <2>2. ASSUME NEW j \in Keys(b), NEW k \in Keys(b), b[j].row = b[k].row
        PROVE  j = k
    BY <1>1, <1>3, <1>4, <2>2 DEF Sane, Table
  <2> QED
    BY <2>1, <2>2 DEF Table
<1>6. /\ Keys(e) = Keys(t.docs) \cup {r} /\ e[r] = x
      /\ \A k \in Keys(t.docs) : k # r => e[k] = t.docs[k]
  BY DEF Put, Without, Keys
<1> HIDE DEF e, v
<1>7. v.books = b /\ v.docs = e /\ v = [books |-> v.books, docs |-> v.docs]
  BY <1>2
<1>8. Follows(v, T \ {i})
  <2> SUFFICES ASSUME NEW j \in Keys(b)
               PROVE  /\ j \notin T \ {i} => b[j].row \in Keys(e)
                      /\ b[j].row \in Keys(e) => e[b[j].row] = b[j].text
    BY <1>7 DEF Follows
  <2>1. CASE j = i
    BY <1>3, <1>4, <1>6, <2>1
  <2>2. CASE j # i
    <3>1. j \in Keys(t.books) /\ b[j] = t.books[j] /\ b[j].row # r
      BY <1>1, <1>4, <2>2
    <3> QED
      BY <1>6, <2>2, <3>1 DEF Sane, Follows
  <2> QED
    BY <2>1, <2>2
<1> QED
  BY <1>5, <1>7, <1>8 DEF Sane, v

---------------------------------------------------------------------------
(* The suggestions and their ranks.                                        *)

Ranked(k, e) ==
  /\ Keys(k) = {x[1] : x \in e}
  /\ \A w \in Keys(k) : k[w] = Count(e, w)

(* A term has no edge exactly where its count is zero.                     *)
LEMMA CountFacts ==
  ASSUME NEW e \in SUBSET (Words \X Ids), NEW w
  PROVE  Count(e, w) = 0 <=> w \notin {x[1] : x \in e}
<1> DEFINE S == {x \in e : x[1] = w}
<1>1. IsFiniteSet(Words \X Ids)
  BY CatalogueAssumption, FS_Product DEF Ids
<1>2. IsFiniteSet(S)
  BY <1>1, FS_Subset
<1>3. Cardinality(S) = 0 <=> S = {}
  BY <1>2, FS_EmptySet
<1> QED
  BY <1>3 DEF Count

(* Only the terms the book had and has can change their count.             *)
LEMMA SuggestSetRanks ==
  ASSUME edges \in SUBSET (Words \X Ids), Ranked(rank, edges),
         NEW i \in Ids, NEW T \in SUBSET Words, SuggestSet(i, T)
  PROVE  edges' \in SUBSET (Words \X Ids) /\ Ranked(rank', edges')
<1> DEFINE e == Edges(edges, i, T)
           touched == Terms(edges, i) \cup T
           n == [w \in touched \cup Keys(rank) |->
                   IF w \in touched THEN Count(e, w) ELSE rank[w]]
           zero == {w \in Keys(n) : n[w] = 0}
<1>1. edges' = e /\ rank' = Without(n, zero)
  BY DEF SuggestSet, Ranks
<1>2. e \in SUBSET (Words \X Ids)
  BY DEF Edges
<1>3. ASSUME NEW w, w \notin touched
      PROVE  {x \in e : x[1] = w} = {x \in edges : x[1] = w}
  BY <1>3 DEF Edges, Terms
<1>4. ASSUME NEW w, w \notin touched
      PROVE  /\ Count(e, w) = Count(edges, w)
             /\ w \in {x[1] : x \in e} <=> w \in {x[1] : x \in edges}
  BY <1>3, <1>4 DEF Count
<1>5. \A w \in {x[1] : x \in e} : w \in touched \cup Keys(rank)
  BY <1>4 DEF Ranked
<1> HIDE DEF e, touched
<1>6. Keys(n) = touched \cup Keys(rank) /\ \A w \in Keys(n) : n[w] = Count(e, w)
  BY <1>4 DEF Keys, Ranked
<1> HIDE DEF n
<1>7. /\ Keys(rank') = Keys(n) \ zero
      /\ \A w \in Keys(rank') : rank'[w] = n[w] /\ w \in Keys(n)
  BY <1>1 DEF Without, Keys
<1>8. \A w \in Keys(n) : w \in zero <=> w \notin {x[1] : x \in e}
  BY <1>2, <1>6, CountFacts
<1>9. Keys(rank') = {x[1] : x \in e}
  BY <1>5, <1>6, <1>7, <1>8
<1> QED
  BY <1>1, <1>2, <1>6, <1>7, <1>9 DEF Ranked

---------------------------------------------------------------------------
(* The invariant.                                                          *)

CatalogueInv ==
  /\ Table(books)
  /\ Follows(Tables, torn)
  /\ edges \in SUBSET (Words \X Ids)
  /\ Ranked(rank, edges)

(* A new store has no row and no entry. *)
LEMMA CatalogueInitInv == CatalogueInit => CatalogueInv
<1> SUFFICES ASSUME CatalogueInit PROVE CatalogueInv
  OBVIOUS
<1>1. Keys(books) = {} /\ Keys(rank) = {} /\ edges = {} /\ books = <<>>
  BY DEF CatalogueInit, Keys
<1>2. Table(books)
  BY <1>1 DEF Table, Keys
<1> QED
  BY <1>1, <1>2 DEF CatalogueInv, Tables, Follows, Ranked

(* What is written is what the helpers return.                             *)
LEMMA WriteKeeps ==
  ASSUME NEW t, Sane(t, torn'), Write(t)
  PROVE  Table(books') /\ Follows(Tables, torn)'
BY DEF Write, Sane, Follows, Tables

(* What the invariant says of the tables outside a transaction. *)
LEMMA TablesSane ==
  ASSUME CatalogueInv
  PROVE  Sane(Tables, torn)
BY DEF CatalogueInv, Sane, Tables

(* A page of rows keeps the index. *)
LEMMA SyncUpsertKeepsInv ==
  ASSUME CatalogueInv, NEW i \in Kavita, NEW x \in Texts, NEW T \in SUBSET Words,
         SyncUpsert(i, x, T)
  PROVE  CatalogueInv'
<1> DEFINE kept == IF i \in Keys(books) THEN books[i].downloaded ELSE FALSE
           v == SyncDoc(Replace(Tables, i, x, kept), i)
<1>1. kept \in BOOLEAN /\ i \in Ids
  BY DEF CatalogueInv, Table, Row, Ids
<1>2. Write(v) /\ torn' = torn \ {i}
  BY DEF SyncUpsert, UpsertBook, Tables
<1> HIDE DEF kept
<1>3. Sane(v, torn \ {i})
  BY <1>1, TablesSane, ReplaceSane
<1> HIDE DEF v
<1>4. Table(books') /\ Follows(Tables, torn)'
  BY <1>2, <1>3, WriteKeeps
<1>5. edges' \in SUBSET (Words \X Ids) /\ Ranked(rank', edges')
  BY <1>1, SuggestSetRanks DEF SyncUpsert, CatalogueInv
<1> QED
  BY <1>4, <1>5 DEF CatalogueInv

(* So do the deletions of a page. *)
LEMMA SyncDeleteKeepsInv ==
  ASSUME CatalogueInv, NEW i \in Kavita, SyncDelete(i)
  PROVE  CatalogueInv'
<1>1. Sane(DeleteBooks(Tables, {i}), torn \ {i})
  BY TablesSane, DeleteSane
<1>2. Write(DeleteBooks(Tables, {i})) /\ torn' = torn \ {i}
  BY DEF SyncDelete
<1>3. Table(books') /\ Follows(Tables, torn)'
  BY <1>1, <1>2, WriteKeeps
<1>4. edges' \in SUBSET (Words \X Ids) /\ Ranked(rank', edges')
  BY SuggestSetRanks DEF SyncDelete, CatalogueInv, Ids
<1> QED
  BY <1>3, <1>4 DEF CatalogueInv

(* So does the import of a local book. *)
LEMMA ImportKeepsInv ==
  ASSUME CatalogueInv, NEW i \in Local, NEW x \in Texts, NEW gone, Import(gone, i, x)
  PROVE  CatalogueInv'
<1> DEFINE cut == DeleteBooks(Tables, gone)
           bare == DropDocs(cut, {i})
           v == SyncDoc(Replace(bare, i, x, TRUE), i)
<1>1. Sane(cut, torn \ gone)
  BY TablesSane, DeleteSane
<1>2. /\ Write(v) /\ torn' = torn \ (gone \cup {i})
      /\ edges' = edges /\ rank' = rank
  BY DEF Import, UpsertBookRow
<1> HIDE DEF cut
<1>3. Sane(bare, (torn \ gone) \cup {i})
  BY <1>1, DropDocsSane
<1> HIDE DEF bare
<1>4. i \in Ids /\ TRUE \in BOOLEAN
  BY DEF Ids
<1>5. Sane(v, ((torn \ gone) \cup {i}) \ {i})
  BY <1>3, <1>4, ReplaceSane
<1>6. ((torn \ gone) \cup {i}) \ {i} = torn'
  BY <1>2
<1> HIDE DEF v
<1>7. Table(books') /\ Follows(Tables, torn)'
  BY <1>2, <1>5, <1>6, WriteKeeps
<1> QED
  BY <1>2, <1>7 DEF CatalogueInv

(* So does the flag of a finished download. *)
LEMMA SetDownloadedKeepsInv ==
  ASSUME CatalogueInv, NEW S, NEW flag \in BOOLEAN, SetDownloaded(S, flag)
  PROVE  CatalogueInv'
<1> DEFINE flip(i) == IF i \in S THEN [books[i] EXCEPT !.downloaded = flag] ELSE books[i]
<1>1. /\ books' = [i \in Keys(books) |-> flip(i)]
      /\ docs' = docs /\ edges' = edges /\ rank' = rank /\ torn' = torn
  BY DEF SetDownloaded
<1>2. ASSUME NEW i \in Keys(books)
      PROVE  flip(i) \in Row /\ flip(i).row = books[i].row /\ flip(i).text = books[i].text
  BY DEF CatalogueInv, Table, Row
<1> HIDE DEF flip
<1>3. Keys(books') = Keys(books) /\ \A i \in Keys(books) : books'[i] = flip(i)
  BY <1>1 DEF Keys
<1>4. Table(books')
  <2>1. books' \in [Keys(books') -> Row]
    BY <1>1, <1>2, <1>3
  <2> QED
    BY <1>2, <1>3, <2>1 DEF CatalogueInv, Table
<1>5. Follows(Tables, torn)'
  BY <1>1, <1>2, <1>3 DEF CatalogueInv, Follows, Tables
<1> QED
  BY <1>1, <1>4, <1>5 DEF CatalogueInv

(* So does the first half of removing a row, which takes its entries away first. *)
LEMMA DeleteRowStartKeepsInv ==
  ASSUME CatalogueInv, NEW i \in Kavita, DeleteRowStart(i)
  PROVE  CatalogueInv'
<1> DEFINE u == DropDocs(Tables, {i})
<1>1. u.books = books /\ Sane(u, torn \cup {i})
  BY TablesSane, DropDocsSane DEF Tables
<1>2. /\ books' = books /\ docs' = u.docs /\ torn' = torn \cup {i}
      /\ edges' = edges /\ rank' = rank
  BY DEF DeleteRowStart
<1> HIDE DEF u
<1>3. Table(books') /\ Follows(Tables, torn)'
  BY <1>1, <1>2, WriteKeeps DEF Write
<1> QED
  BY <1>2, <1>3 DEF CatalogueInv

(* The row may have been replaced since, and its document written again:   *)
(* that document is left behind.                                           *)
LEMMA DeleteRowKeepsInv ==
  ASSUME CatalogueInv, DeleteRow
  PROVE  CatalogueInv'
<1>1. /\ books' = Without(books, {todo}) /\ docs' = docs /\ torn' = torn \ {todo}
      /\ edges' = edges /\ rank' = rank
  BY DEF DeleteRow
<1>2. /\ Keys(books') = Keys(books) \ {todo}
      /\ \A i \in Keys(books') : books'[i] = books[i] /\ i \in Keys(books) /\ i # todo
      /\ books' = [i \in Keys(books') |-> books[i]]
  BY <1>1 DEF Without, Keys
<1>3. Table(books')
  BY <1>2 DEF CatalogueInv, Table
<1>4. Follows(Tables, torn)'
  BY <1>1, <1>2 DEF CatalogueInv, Follows, Tables
<1> QED
  BY <1>1, <1>3, <1>4 DEF CatalogueInv

(* An index that is built anew has the document of every book, since no    *)
(* two of them share a rowid.                                              *)
LEMMA ReopenKeepsInv ==
  ASSUME CatalogueInv, Reopen
  PROVE  CatalogueInv'
<1>1. books' = books /\ edges' = edges /\ rank' = rank
  BY DEF Reopen
<1>2. CASE docs # <<>>
  <2>1. docs' = docs /\ torn' = torn
    BY <1>2 DEF Reopen
  <2> QED
    BY <1>1, <2>1 DEF CatalogueInv, Tables, Follows, Table
<1>3. CASE docs = <<>>
  <2>1. docs' = Backfilled
    BY <1>3 DEF Reopen
  <2>2. /\ Keys(Backfilled) = {books[i].row : i \in Keys(books)}
        /\ \A r \in Keys(Backfilled) :
             Backfilled[r] = books[CHOOSE i \in Keys(books) : books[i].row = r].text
    BY DEF Backfilled, Keys
  <2>3. ASSUME NEW i \in Keys(books)
        PROVE  books[i].row \in Keys(docs') /\ docs'[books[i].row] = books[i].text
    <3> DEFINE j == CHOOSE j \in Keys(books) : books[j].row = books[i].row
    <3>1. j \in Keys(books) /\ books[j].row = books[i].row
      OBVIOUS
    <3>2. j = i
      BY <3>1 DEF CatalogueInv, Table
    <3>3. books[i].row \in Keys(Backfilled) /\ Backfilled[books[i].row] = books[j].text
      BY <2>2
    <3> QED
      BY <2>1, <3>2, <3>3
  <2>4. Follows(Tables, torn)'
    BY <1>1, <2>3 DEF Follows, Tables
  <2> QED
    BY <1>1, <2>4 DEF CatalogueInv, Table
<1> QED
  BY <1>2, <1>3

(* The index follows the rows in every state of the store. *)
LEMMA CatalogueInvariant == CatalogueSpec => []CatalogueInv
<1>1. CatalogueInv /\ [CatalogueNext]_catalogueVars => CatalogueInv'
  <2> SUFFICES ASSUME CatalogueInv, [CatalogueNext]_catalogueVars PROVE CatalogueInv'
    OBVIOUS
  <2>1. CASE CatalogueNext
    BY <2>1, SyncUpsertKeepsInv, SyncDeleteKeepsInv, ImportKeepsInv,
       SetDownloadedKeepsInv, DeleteRowStartKeepsInv, DeleteRowKeepsInv, ReopenKeepsInv
       DEF CatalogueNext
  <2>2. CASE UNCHANGED catalogueVars
    BY <2>2 DEF catalogueVars, CatalogueInv, Tables, Follows, Table, Ranked, Count, Keys
  <2> QED
    BY <2>1, <2>2
<1> QED
  BY CatalogueInitInv, <1>1, PTL DEF CatalogueSpec

(* Whatever order pages, imports, deletions and crashes come in, the       *)
(* document under the rowid of a book is the one of its text, and the      *)
(* ranks are the counts of the edges (fts_sync_row, fts_drop_row,          *)
(* suggest_set behind upsert_book, upsert_book_row and delete_book_row).   *)
THEOREM TheIndexTracksTheRows == CatalogueSpec => []IndexTracksRows
<1>1. CatalogueInv => IndexTracksRows
  BY DEF CatalogueInv, Follows, Tables, Ranked, IndexTracksRows
<1> QED
  BY <1>1, CatalogueInvariant, PTL

(* A search by the index, or by substring where the index has nothing,     *)
(* answers with books whose own text matches (search in store.rs).         *)
THEOREM SearchesAreSound == CatalogueSpec => []SearchIsSound
<1>1. CatalogueInv => SearchIsSound
  <2> SUFFICES ASSUME CatalogueInv, NEW w \in Words, NEW src \in {"kavita", "local"}
               PROVE  /\ \A i \in Search(w, src) : books[i].text \in FtsHits[w] \cup LikeHits[w]
                      /\ (\A r \in Keys(docs) : docs[r] \notin FtsHits[w]) =>
                           \A i \in Keys(books) :
                             OwnerOf(i) = src /\ books[i].text \in LikeHits[w]
                             => i \in Search(w, src)
    BY DEF SearchIsSound
  <2>1. \A i \in Keys(books) :
          books[i].row \in Keys(docs) => docs[books[i].row] = books[i].text
    BY DEF CatalogueInv, Follows, Tables
  <2> QED
    BY <2>1 DEF Search
<1> QED
  BY <1>1, CatalogueInvariant, PTL

(* A row that is replaced, by a page of the server or by the import, keeps *)
(* the flag of its file (upsert_book, upsert_book_row).                    *)
THEOREM FilesStayKnown == CatalogueSpec => FilesAreKept
<1> DEFINE Known == \A i \in Keys(books) \cap Keys(books') :
                      books[i].downloaded /\ books'[i].row # books[i].row
                      => books'[i].downloaded
<1>1. CatalogueInv /\ [CatalogueNext]_catalogueVars => [Known]_catalogueVars
  <2> SUFFICES ASSUME CatalogueInv, CatalogueNext PROVE Known
    OBVIOUS
  <2>1. ASSUME NEW i \in Kavita, NEW x \in Texts, NEW T \in SUBSET Words, SyncUpsert(i, x, T)
        PROVE  Known
    <3> DEFINE kept == IF i \in Keys(books) THEN books[i].downloaded ELSE FALSE
               v == SyncDoc(Replace(Tables, i, x, kept), i)
    <3>1. kept \in BOOLEAN /\ i \in Ids /\ (i \in Keys(books) /\ books[i].downloaded => kept)
      BY DEF CatalogueInv, Table, Row, Ids
    <3>2. books' = v.books
      BY <2>1 DEF SyncUpsert, UpsertBook, Tables, Write
    <3> HIDE DEF kept
    <3>3. /\ kept => v.books[i].downloaded
          /\ \A j \in Keys(books) : j # i => v.books[j] = books[j]
      <4>1. v = SyncDoc(Replace(Tables, i, x, kept), i)
        OBVIOUS
      <4> HIDE DEF v
      <4>2. /\ kept => v.books[i].downloaded
            /\ \A j \in Keys(Tables.books) : j # i => v.books[j] = Tables.books[j]
        BY <3>1, <4>1, TablesSane, ReplaceRows DEF Sane
      <4> QED
        BY <4>2 DEF Tables
    <3> HIDE DEF v
    <3>4. ASSUME NEW j \in Keys(books), books[j].downloaded, books'[j].row # books[j].row
          PROVE  books'[j].downloaded
      <4>1. CASE j = i
        BY <3>1, <3>2, <3>3, <3>4, <4>1
      <4>2. CASE j # i
        BY <3>2, <3>3, <3>4, <4>2
      <4> QED
        BY <4>1, <4>2
    <3> QED
      BY <3>4
  <2>2. ASSUME NEW i \in Kavita, SyncDelete(i) PROVE Known
    <3> DEFINE v == DeleteBooks(Tables, {i})
    <3>1. /\ Keys(v.books) = Keys(Tables.books) \ {i}
          /\ \A j \in Keys(Tables.books) \ {i} : v.books[j] = Tables.books[j]
      BY TablesSane, DeleteSane
    <3>2. /\ Keys(v.books) = Keys(books) \ {i}
          /\ \A j \in Keys(books) \ {i} : v.books[j] = books[j]
      <4> HIDE DEF v
      <4> QED
        BY <3>1 DEF Tables
    <3>3. books' = v.books
      BY <2>2 DEF SyncDelete, Write
    <3> HIDE DEF v
    <3> QED
      BY <3>2, <3>3
  <2>3. ASSUME NEW i \in Local, NEW x \in Texts, NEW gone, Import(gone, i, x) PROVE Known
    <3> DEFINE cut == DeleteBooks(Tables, gone)
               bare == DropDocs(cut, {i})
               kept == TRUE
               v == SyncDoc(Replace(bare, i, x, kept), i)
    <3>1. /\ Sane(cut, torn \ gone) /\ Keys(cut.books) = Keys(books) \ gone
          /\ \A j \in Keys(books) \ gone : cut.books[j] = books[j]
      <4>1. /\ Sane(cut, torn \ gone) /\ Keys(cut.books) = Keys(Tables.books) \ gone
            /\ \A j \in Keys(Tables.books) \ gone : cut.books[j] = Tables.books[j]
        BY TablesSane, DeleteSane
      <4> HIDE DEF cut
      <4> QED
        BY <4>1 DEF Tables
    <3>2. books' = v.books
      BY <2>3 DEF Import, UpsertBookRow, Write
    <3> HIDE DEF cut
    <3>3. Sane(bare, (torn \ gone) \cup {i}) /\ bare.books = cut.books
      BY <3>1, DropDocsSane
    <3> HIDE DEF bare
    <3>4. kept
      OBVIOUS
    <3>5. kept \in BOOLEAN
      OBVIOUS
    <3> HIDE DEF kept
    <3>6. v = SyncDoc(Replace(bare, i, x, kept), i)
      OBVIOUS
    <3> HIDE DEF v
    <3>7. /\ Keys(v.books) = Keys(bare.books) \cup {i} /\ v.books[i].downloaded
          /\ \A j \in Keys(bare.books) : j # i => v.books[j] = bare.books[j]
      <4>1. /\ Keys(v.books) = Keys(bare.books) \cup {i}
            /\ kept => v.books[i].downloaded
            /\ \A j \in Keys(bare.books) : j # i => v.books[j] = bare.books[j]
        BY <3>3, <3>6, <3>5, ReplaceRows DEF Sane
      <4> QED
        BY <3>4, <4>1
    <3>8. ASSUME NEW j \in Keys(books), j \in Keys(books'), books[j].downloaded,
                 books'[j].row # books[j].row
          PROVE  books'[j].downloaded
      <4>1. CASE j = i
        BY <3>2, <3>7, <4>1
      <4>2. CASE j # i
        BY <3>1, <3>2, <3>3, <3>7, <3>8, <4>2
      <4> QED
        BY <4>1, <4>2
    <3> QED
      BY <3>8
  <2>4. ASSUME NEW S, NEW flag \in BOOLEAN, SetDownloaded(S, flag) PROVE Known
    <3>1. ASSUME NEW i \in Keys(books) PROVE books'[i].row = books[i].row
      <4>1. books[i] \in Row
        BY DEF CatalogueInv, Table
      <4>2. books'[i] = IF i \in S THEN [books[i] EXCEPT !.downloaded = flag] ELSE books[i]
        BY <2>4 DEF SetDownloaded
      <4> QED
        BY <4>1, <4>2 DEF Row
    <3> QED
      BY <3>1
  <2>5. ASSUME NEW i \in Kavita, DeleteRowStart(i) PROVE Known
    BY <2>5 DEF DeleteRowStart
  <2>6. ASSUME DeleteRow PROVE Known
    BY <2>6 DEF DeleteRow, Without, Keys
  <2>7. ASSUME Reopen PROVE Known
    BY <2>7 DEF Reopen
  <2> QED
    BY <2>1, <2>2, <2>3, <2>4, <2>5, <2>6, <2>7 DEF CatalogueNext
<1> QED
  BY <1>1, CatalogueInvariant, PTL DEF CatalogueSpec, FilesAreKept

---------------------------------------------------------------------------
(***************************************************************************)
(* The settings.  The file says what was stored last, but for what boot     *)
(* saves lent it and the defaults they filled in, whatever writes failed   *)
(* and wherever the power went: a save is whole or it did not happen.      *)
(***************************************************************************)
Value == {Unset, DevToken, Scratch, DefaultDir, "u1", "u2", "u3", "http://", "t1", "t2", "de",
          "kavita", "local", "folder", "none", "author", "auto", "standard", "koreader", "card"}
Layer == [Key -> Value]

(* What there is of a key below the layer above the file.                  *)
Below(k) == IF lent[k] # Unset THEN lent[k] ELSE IF stored[k] # Unset THEN stored[k] ELSE under[k]
Spare(k) == IF k = "downloads" THEN DefaultDir ELSE Default[k]

FileSays(k) ==
  \/ own[k] = Below(k)
  \/ Below(k) = Unset /\ own[k] = Spare(k)
  \/ own[k] = Unset /\ lent[k] = Unset /\ stored[k] = Unset

File ==
  /\ own \in Layer \cup {Absent} /\ stored \in Layer /\ lent \in Layer
  /\ own = Absent => stored = Blank /\ lent = Blank
  /\ own # Absent => \A k \in Key : FileSays(k)

SettingsInv ==
  /\ config \in Layer /\ under \in Layer /\ over \in {Blank, Override, EnvUrl}
  /\ kind \in {"device", "host"} /\ (kind = "device" => under = Blank)
  /\ File
  /\ pref \in Nat
  /\ readers \in {{"standard"}, {"standard", "koreader"}}
  /\ usable \subseteq Directory /\ DefaultDir \in usable
  /\ HomeHasSettings

(* What the operators on configurations return.                            *)
LEMMA LayersAreLayers ==
  ASSUME NEW a \in Layer, NEW b \in Layer
  PROVE  /\ Merge(a, b) \in Layer /\ Finish(a) \in Layer
         /\ Effective(a) \in Layer /\ Written(a) = Effective(a)
         /\ Ensured(a) \in Layer
<1>1. Merge(a, b) \in Layer
  BY DEF Layer, Merge
<1>2. Finish(a) \in Layer
  BY DEF Layer, Finish, Value
<1>3. Effective(a) \in Layer
  BY DEF Layer, Effective, Value
<1>4. Written(a) = Effective(a)
  BY DEF Written, Effective
<1>5. Ensured(a) \in Layer
  <2>1. a.downloads \in Value
    BY DEF Layer, Key
  <2> QED
    BY <2>1 DEF Layer, Ensured, Value
<1> QED
  BY <1>1, <1>2, <1>3, <1>4, <1>5

(* What is set means itself.                                               *)
LEMMA SetMeansItself ==
  ASSUME NEW a \in Layer, NEW k \in Key
  PROVE  /\ a[k] # Unset => Effective(a)[k] = a[k]
         /\ k \in {"url", "token"} => Effective(a)[k] = a[k]
<1>1. "source" \in Key /\ "group" \in Key /\ "reader" \in Key
  BY DEF Key
<1> QED
  BY <1>1 DEF Effective, Layer

(* A file that was written is not an absent one.                           *)
LEMMA LayersAreThere ==
  /\ Absent \notin Layer
  /\ Blank \in Layer /\ Staged \in Layer /\ Override \in Layer /\ EnvUrl \in Layer
  /\ \A a \in Layer : Parsed(a) = a
<1>1. \A a \in Layer : a # Absent
  <2>1. "url" \in Key /\ "url" \notin {"absent"}
    BY DEF Key
  <2>2. DOMAIN Absent = {"absent"} /\ \A a \in Layer : DOMAIN a = Key
    BY DEF Absent, Layer
  <2> QED
    BY <2>1, <2>2
<1>2. /\ Blank \in Layer
  BY DEF Blank, Layer, Value
<1>3. Staged \in Layer /\ Override \in Layer /\ EnvUrl \in Layer
  BY <1>2 DEF Staged, Override, EnvUrl, Layer, Value
<1> QED
  BY <1>1, <1>2, <1>3 DEF Parsed

(* Of the two writes of a save the file and what is remembered of it agree. *)
LEMMA SavesAgree ==
  ASSUME NEW a \in Layer, Store(a)
  PROVE  File' /\ own' # Absent
<1>1. own' \in Layer /\ own' # Absent /\ stored' = own' /\ lent' = Blank
  BY LayersAreLayers, LayersAreThere DEF Store
<1>2. ASSUME NEW k \in Key PROVE FileSays(k)'
  BY <1>1 DEF FileSays, Below, Blank
<1> QED
  BY <1>1, <1>2, LayersAreThere DEF File

LEMMA TheFileStays ==
  ASSUME File, UNCHANGED <<own, stored, lent, under>>
  PROVE  File'
BY DEF File, FileSays, Below

(* A boot loads what is due, and defaults.                                 *)
LEMMA LoadShowsTheFile ==
  ASSUME SettingsInv
  PROVE  /\ Load \in Layer
         /\ \A k \in Key : /\ Due(k) \in Value
                           /\ Due(k) # Unset => Load[k] = Due(k)
                           /\ Due(k) = Unset => Load[k] \in {Unset, Default[k], Spare(k)}
                           /\ k # "downloads" => Default[k] = Spare(k)
<1>1. /\ over \in Layer /\ under \in Layer /\ stored \in Layer /\ lent \in Layer
      /\ own # Absent => own \in Layer /\ Parsed(own) = own
      /\ own = Absent => Parsed(own) = Blank
  BY LayersAreThere DEF SettingsInv, File, Parsed
<1>2. Load \in Layer
  BY <1>1, LayersAreLayers, LayersAreThere DEF Load, SettingsInv
<1>3. ASSUME NEW k \in Key
      PROVE  /\ Due(k) \in Value
             /\ Due(k) # Unset => Load[k] = Due(k)
             /\ Due(k) = Unset => Load[k] \in {Unset, Default[k], Spare(k)}
             /\ k # "downloads" => Default[k] = Spare(k)
  <2>1. over[k] \in Value /\ lent[k] \in Value /\ stored[k] \in Value /\ under[k] \in Value
    BY <1>1 DEF Layer
  <2>2. Due(k) \in Value
    BY <2>1 DEF Due, Value
  <2>3. k # "downloads" => Default[k] = Spare(k)
    BY DEF Spare
  <2>4. CASE kind = "device" /\ own = Absent
    BY <2>2, <2>3, <2>4 DEF Due, Load, Blank
  <2>5. CASE ~ (kind = "device" /\ own = Absent)
    <3>1. Due(k) = IF over[k] # Unset THEN over[k] ELSE Below(k)
      BY <2>5 DEF Due, Below
    <3> DEFINE low == IF kind = "host" THEN Merge(under, Parsed(own)) ELSE own
    <3>2. low \in Layer
      BY <1>1, <2>5, LayersAreLayers, LayersAreThere DEF SettingsInv
    <3>3. Load[k] = IF over[k] # Unset THEN over[k]
                    ELSE IF k = "token" /\ low[k] = Unset THEN DevToken ELSE low[k]
      <4>1. CASE kind = "host"
        <5>1. Load = Merge(Finish(low), over)
          BY <4>1 DEF Load
        <5> HIDE DEF low
        <5> QED
          BY <1>1, <3>2, <5>1, LayersAreLayers DEF Merge, Finish, Layer, Key
      <4>2. CASE kind = "device"
        <5>1. Load = Finish(Merge(low, over))
          BY <2>5, <4>2 DEF Load
        <5> HIDE DEF low
        <5> QED
          BY <1>1, <3>2, <5>1, LayersAreLayers DEF Merge, Finish, Layer, Key
      <4> QED
        BY <4>1, <4>2 DEF SettingsInv
    <3>4. low[k] = Below(k) \/ (Below(k) = Unset /\ low[k] = Spare(k))
      <4>1. CASE own = Absent
        <5>1. kind = "host" /\ stored = Blank /\ lent = Blank /\ Parsed(own) = Blank
          BY <1>1, <2>5, <4>1 DEF SettingsInv, File
        <5>2. low[k] = under[k] /\ Below(k) = under[k]
          BY <1>1, <5>1 DEF Merge, Blank, Below
        <5> QED
          BY <5>2
      <4>2. CASE own # Absent
        <5>1. FileSays(k) /\ Parsed(own) = own
          BY <1>1, <4>2 DEF SettingsInv, File
        <5>2. low[k] = IF own[k] # Unset THEN own[k] ELSE under[k]
          <6>1. CASE kind = "host"
            BY <5>1, <6>1 DEF Merge
          <6>2. CASE kind = "device"
            BY <6>2 DEF SettingsInv, Blank
          <6> QED
            BY <6>1, <6>2 DEF SettingsInv
        <5> QED
          BY <5>1, <5>2 DEF FileSays, Below
      <4> QED
        BY <4>1, <4>2
    <3>5. k = "token" => Spare(k) = DevToken /\ Default[k] = DevToken
      BY DEF Spare, Default, Blank, Key
    <3> HIDE DEF low
    <3> QED
      BY <2>2, <2>3, <3>1, <3>3, <3>4, <3>5
  <2> QED
    BY <2>4, <2>5
<1> QED
  BY <1>2, <1>3

(* A boot completes what it loaded, puts the address and the key back, and *)
(* finds the reader that is named.                                         *)
LEMMA BootKeepsTheInvariant ==
  ASSUME SettingsInv, Boot
  PROVE  SettingsInv'
<1>1. /\ config' = Ensured(Load) /\ config' \in Layer /\ Load \in Layer
      /\ UNCHANGED <<kind, under, over, readers, usable, home, stored>>
  BY LoadShowsTheFile, LayersAreLayers DEF Boot
<1>2. pref' \in Nat
  <2>1. DOMAIN Detected \subseteq Nat
    BY DEF Detected
  <2> QED
    BY <2>1 DEF Boot, PrefOf
<1>3. File' /\ (own # Absent => own' # Absent)
  <2>1. CASE UNCHANGED <<own, lent>>
    BY <1>1, <2>1, TheFileStays DEF SettingsInv
  <2>2. CASE own' = Written(Kept(config')) /\ lent' = [k \in Key |-> Lent(k)]
    <3> DEFINE c == config'
    <3>1. /\ Parsed(own) \in Layer /\ lent \in Layer /\ stored \in Layer /\ over \in Layer
          /\ own # Absent => own \in Layer /\ Parsed(own) = own
          /\ own = Absent => Parsed(own) = Blank /\ stored = Blank /\ lent = Blank
      BY LayersAreThere DEF SettingsInv, File, Parsed
    <3>2. c \in Layer /\ "url" \in Key /\ "token" \in Key
      BY <1>1 DEF Key
    <3>3. \A k \in {"url", "token"} : Parsed(own)[k] # Unset => own[k] = Parsed(own)[k]
      BY <3>1, <3>2 DEF Blank
    <3>4. /\ Kept(c) \in Layer
          /\ \A k \in Key : Kept(c)[k] = IF k \in {"url", "token"} /\ Parsed(own)[k] # Unset
                                        THEN Parsed(own)[k] ELSE c[k]
      <4>1. Kept(c) = [c EXCEPT !.url = IF Parsed(own).url # Unset THEN Parsed(own).url ELSE @,
                                !.token = IF Parsed(own).token # Unset THEN Parsed(own).token ELSE @]
        BY <3>3 DEF Kept
      <4>2. Parsed(own).url \in Value /\ Parsed(own).token \in Value
        BY <3>1, <3>2 DEF Layer
      <4> HIDE DEF c
      <4> QED
        BY <3>2, <4>1, <4>2 DEF Layer
    <3>5. /\ own' \in Layer /\ own' # Absent
          /\ \A k \in Key : own'[k] = Kept(c)[k] \/ (Kept(c)[k] = Unset /\ own'[k] = Spare(k))
      <4> DEFINE x == Kept(c)
      <4>1. x \in Layer /\ own' = Effective(x)
        BY <2>2, <3>4, LayersAreLayers
      <4> HIDE DEF x
      <4>2. own' \in Layer /\ own' # Absent
        BY <4>1, LayersAreLayers, LayersAreThere
      <4>3. ASSUME NEW k \in Key
            PROVE  own'[k] = x[k] \/ (x[k] = Unset /\ own'[k] = Spare(k))
        BY <4>1 DEF Effective, Spare, Default, Blank, Layer, Key
      <4> QED
        BY <4>2, <4>3 DEF x
    <3>6. ASSUME NEW k \in Key PROVE FileSays(k)' /\ lent'[k] \in Value
      <4>1. /\ lent[k] \in Value /\ over[k] \in Value /\ stored'[k] = stored[k] /\ under'[k] = under[k]
            /\ lent'[k] = Lent(k)
        BY <1>1, <2>2, <3>1 DEF Layer
      <4>2. CASE k \in {"url", "token"} /\ Parsed(own)[k] # Unset
        <5>1. lent'[k] = lent[k] /\ own # Absent
          BY <3>1, <4>1, <4>2 DEF Lent, Blank
        <5>2. own'[k] = own[k] /\ own[k] # Unset
          BY <3>1, <3>4, <3>5, <4>2, <5>1
        <5>3. FileSays(k)
          BY <5>1 DEF SettingsInv, File
        <5> QED
          BY <4>1, <5>1, <5>2, <5>3 DEF FileSays, Below
      <4>3. CASE ~ (k \in {"url", "token"} /\ Parsed(own)[k] # Unset)
        <5>1. own'[k] = c[k] \/ (c[k] = Unset /\ own'[k] = Spare(k))
          BY <3>4, <3>5, <4>3
        <5>2. /\ Due(k) # Unset => Load[k] = Due(k)
              /\ Due(k) = Unset => Load[k] \in {Unset, Spare(k)}
          <6>1. k = "downloads" => Default[k] = Unset
            BY DEF Default, Blank, Key
          <6> QED
            BY <6>1, LoadShowsTheFile
        <5>3. c[k] = IF k # "downloads" THEN Load[k]
                     ELSE IF Load[k] = Unset THEN DefaultDir
                     ELSE IF Load[k] \in usable \cup {Scratch} THEN Load[k] ELSE Scratch
          BY <1>1 DEF Ensured, Layer, SettingsInv
        <5>4. (Due(k) = over[k] /\ over[k] # Unset) \/ (Due(k) = Below(k) /\ over[k] = Unset)
              \/ (Due(k) = Unset /\ Below(k) = Unset)
          <6>1. CASE kind = "device" /\ own = Absent
            BY <3>1, <6>1 DEF Due, Below, Blank, SettingsInv
          <6>2. CASE ~ (kind = "device" /\ own = Absent)
            BY <6>2 DEF Due, Below
          <6> QED
            BY <6>1, <6>2
        <5>5. CASE k = "downloads" /\ Due(k) \notin usable \cup {Scratch, Unset}
          <6>1. lent'[k] = Scratch /\ c[k] = Scratch
            BY <4>1, <5>2, <5>3, <5>5 DEF Lent, Unset
          <6> QED
            BY <4>1, <5>1, <6>1 DEF FileSays, Below, Scratch, Unset, Value
        <5>6. CASE ~ (k = "downloads" /\ Due(k) \notin usable \cup {Scratch, Unset})
          <6>1. /\ Due(k) # Unset => c[k] = Due(k)
                /\ Due(k) = Unset => c[k] \in {Unset, Spare(k)}
            <7>1. CASE k # "downloads"
              BY <5>2, <5>3, <7>1
            <7>2. CASE k = "downloads"
              <8>1. Spare(k) = DefaultDir /\ DefaultDir \in usable
                BY <7>2 DEF Spare, SettingsInv
              <8> QED
                BY <5>2, <5>3, <5>6, <7>2, <8>1
            <7> QED
              BY <7>1, <7>2
          <6>2. CASE over[k] # Unset /\ Due(k) = over[k]
            <7>1. lent'[k] = over[k] /\ c[k] = over[k]
              BY <4>1, <4>3, <5>6, <6>1, <6>2 DEF Lent
            <7> QED
              BY <4>1, <5>1, <6>2, <7>1 DEF FileSays, Below
          <6>3. CASE ~ (over[k] # Unset /\ Due(k) = over[k])
            <7>1. lent'[k] = lent[k] /\ Below(k)' = Below(k)
              BY <4>1, <4>3, <5>6, <6>3 DEF Lent, Below
            <7>2. Due(k) = Below(k)
              BY <5>4, <6>3
            <7>3. own'[k] = Below(k) \/ (Below(k) = Unset /\ own'[k] \in {Unset, Spare(k)})
              BY <5>1, <6>1, <7>2
            <7>4. Spare(k)' = Spare(k)
              BY DEF Spare, Default
            <7> QED
              BY <4>1, <7>1, <7>3, <7>4 DEF FileSays
          <6> QED
            BY <6>2, <6>3
        <5> QED
          BY <5>5, <5>6
      <4> QED
        BY <4>2, <4>3
    <3>7. lent' \in Layer /\ stored' \in Layer
      BY <1>1, <2>2, <3>1, <3>6 DEF Layer
    <3> QED
      BY <3>5, <3>6, <3>7 DEF File
  <2> QED
    BY <2>1, <2>2 DEF Boot
<1> QED
  BY <1>1, <1>2, <1>3 DEF SettingsInv, HomeHasSettings

(* A handler that changes a setting saves a configuration or nothing.      *)
LEMMA ChangeKeepsTheInvariant ==
  ASSUME SettingsInv, NEW k \in Key, NEW v \in Value, Change(k, v)
  PROVE  SettingsInv'
<1>3. under' = under
  BY DEF Change
<1>1. CASE config' = [config EXCEPT ![k] = v] /\ Save(config') /\ pref' = pref
  <2>1. config' \in Layer
    BY <1>1 DEF SettingsInv, Layer
  <2> DEFINE c == config'
  <2> HIDE DEF c
  <2>2. c \in Layer
    BY <2>1 DEF c
  <2>3. Store(c) \/ UNCHANGED <<own, stored, lent>>
    BY <1>1 DEF Save, c
  <2>4. File' /\ (own # Absent => own' # Absent)
    BY <1>3, <2>2, <2>3, SavesAgree, TheFileStays DEF SettingsInv
  <2> QED
    BY <1>1, <2>1, <2>4 DEF SettingsInv, HomeHasSettings, Change
<1>2. CASE Cut
  BY <1>2, <1>3, LayersAreThere, TheFileStays DEF Cut, Change, SettingsInv, HomeHasSettings
<1> QED
  BY <1>1, <1>2 DEF Change

(* The inductive invariant of the settings: the file holds what was stored,  *)
(* what boot saves lent it and defaults, and a home task has settings        *)
(* (config.rs, app/mod.rs, sysapp.rs).                                       *)
THEOREM SettingsInvariant == SettingsSpec => []SettingsInv
<1>1. SettingsInit => SettingsInv
  BY LayersAreThere DEF SettingsInit, SettingsInv, HomeHasSettings, File, Directory
<1>2. SettingsInv /\ [SettingsNext]_settingsVars => SettingsInv'
  <2> SUFFICES ASSUME SettingsInv, [SettingsNext]_settingsVars PROVE SettingsInv'
    OBVIOUS
  <2>1. CASE UNCHANGED settingsVars
    BY <2>1, TheFileStays DEF settingsVars, SettingsInv, HomeHasSettings
  <2>2. CASE Provision
    <3>1. over' \in {Blank, Override, EnvUrl} /\ under' \in Layer
      BY <2>2, LayersAreThere DEF Provision
    <3>2. /\ UNCHANGED <<home, config, pref, usable>>
          /\ readers' \in {{"standard"}, {"standard", "koreader"}}
          /\ kind' \in {"device", "host"} /\ (kind' = "device" => under' = Blank)
      BY <2>2 DEF Provision
    <3>4. File'
      <4>1. own' \in {Absent, Staged} /\ stored' = Parsed(own') /\ lent' = Blank
        BY <2>2 DEF Provision, SettingsInv, File
      <4>2. CASE own' = Absent
        BY <4>1, <4>2, LayersAreThere DEF File, Parsed
      <4>3. CASE own' = Staged
        <5>1. own' \in Layer /\ own' # Absent /\ stored' = own'
          BY <4>1, <4>3, LayersAreThere
        <5>2. ASSUME NEW k \in Key PROVE FileSays(k)'
          BY <4>1, <5>1 DEF FileSays, Below, Blank
        <5> QED
          BY <4>1, <5>1, <5>2, LayersAreThere DEF File
      <4> QED
        BY <4>1, <4>2, <4>3
    <3>3. home' # "absent" => own' # Absent
      BY <2>2 DEF Provision, SettingsInv, HomeHasSettings
    <3> QED
      BY <3>1, <3>2, <3>3, <3>4 DEF SettingsInv, HomeHasSettings
  <2>3. CASE Boot
    BY <2>3, BootKeepsTheInvariant
  <2>4. CASE Around
    BY <2>4, TheFileStays DEF Around, SettingsInv, HomeHasSettings, Directory
  <2>5. CASE PowerOff
    BY <2>5, LayersAreThere, TheFileStays DEF PowerOff, SettingsInv, HomeHasSettings
  <2>6. CASE \E u \in {"u3", "http://"} : CommitHost(u)
    <3>1. PICK u \in {"u3", "http://"} : Change("url", u)
      BY <2>6 DEF CommitHost
    <3>2. "url" \in Key /\ u \in Value
      BY DEF Key, Value
    <3> QED
      BY <3>1, <3>2, ChangeKeepsTheInvariant
  <2>7. CASE \E t \in {"t2", Unset} : CommitKey(t)
    <3>1. PICK t \in {"t2", Unset} : Change("token", t)
      BY <2>7 DEF CommitKey
    <3>2. "token" \in Key /\ t \in Value
      BY DEF Key, Value
    <3> QED
      BY <3>1, <3>2, ChangeKeepsTheInvariant
  <2>8. CASE \E s \in Source : SaveSource(s)
    <3>1. PICK s \in Source : Change("source", s)
      BY <2>8 DEF SaveSource
    <3>2. "source" \in Key /\ s \in Value
      BY DEF Key, Source, Value
    <3> QED
      BY <3>1, <3>2, ChangeKeepsTheInvariant
  <2>9. CASE \E g \in Group : SaveGroup(g)
    <3>1. PICK g \in Group : Change("group", g)
      BY <2>9 DEF SaveGroup
    <3>2. "group" \in Key /\ g \in Value
      BY DEF Key, Group, Value
    <3> QED
      BY <3>1, <3>2, ChangeKeepsTheInvariant
  <2>10. CASE \E d \in Directory : CommitDownloadsDir(d) \/ CommitLocalDir(d)
    <3>1. PICK d \in Directory : Change("downloads", d) \/ Change("local", d)
      BY <2>10 DEF CommitDownloadsDir, CommitLocalDir
    <3>2. "downloads" \in Key /\ "local" \in Key /\ d \in Value
      BY DEF Key, Directory, Value
    <3> QED
      BY <3>1, <3>2, ChangeKeepsTheInvariant
  <2>11. CASE SettingsApply
    <3>1. config.lang \in Value
      BY DEF SettingsInv, Layer, Key
    <3> QED
      BY <2>11, <3>1, ChangeKeepsTheInvariant DEF SettingsApply, Key
  <2>12. CASE CycleReader
    <3>1. DEFINE next == (pref + 1) % (Len(Detected) + 1)
    <3>2. CASE readers = {"standard"}
      <4>1. Detected = <<"standard">>
        BY <3>2 DEF Detected
      <4>2. next \in 0..1 /\ (next # 0 => Detected[next] \in Value)
        BY <4>1 DEF SettingsInv, Value
      <4> QED
        BY <2>12, <4>2, TheFileStays DEF CycleReader, SettingsInv, HomeHasSettings, Layer, Value
    <3>3. CASE readers = {"standard", "koreader"}
      <4>1. Detected = <<"standard", "koreader">>
        BY <3>3 DEF Detected
      <4>2. next \in 0..2 /\ (next # 0 => Detected[next] \in Value)
        BY <4>1 DEF SettingsInv, Value
      <4> QED
        BY <2>12, <4>2, TheFileStays DEF CycleReader, SettingsInv, HomeHasSettings, Layer, Value
    <3> QED
      BY <3>2, <3>3 DEF SettingsInv
  <2>13. CASE Promote
    <3>1. /\ Store(config) \/ UNCHANGED <<own, stored, lent, home>>
          /\ under' = under
      BY <2>13 DEF Promote, Cut
    <3>2. File' /\ (home' # "absent" => own' # Absent)
      BY <3>1, SavesAgree, TheFileStays DEF SettingsInv, HomeHasSettings
    <3>3. config' \in Layer /\ pref' \in Nat
      BY <2>13, LayersAreThere DEF Promote, Cut, SettingsInv
    <3> QED
      BY <2>13, <3>2, <3>3 DEF Promote, SettingsInv, HomeHasSettings
  <2>14. CASE Unpromote
    <3>1. File'
      <4>1. CASE own' = Absent /\ stored' = Blank /\ lent' = Blank
        BY <4>1, LayersAreThere DEF File
      <4>2. CASE UNCHANGED <<own, stored, lent>>
        BY <2>14, <4>2, TheFileStays DEF Unpromote, SettingsInv
      <4> QED
        BY <2>14, <4>1, <4>2 DEF Unpromote, Cut
    <3> QED
      BY <2>14, <3>1, LayersAreThere DEF Unpromote, Cut, SettingsInv, HomeHasSettings
  <2> QED
    BY <2>1, <2>2, <2>3, <2>4, <2>5, <2>6, <2>7, <2>8, <2>9, <2>10, <2>11, <2>12, <2>13, <2>14
       DEF SettingsNext
<1> QED
  BY <1>1, <1>2, PTL DEF SettingsSpec

(* Wherever the power goes while the home task is installed or removed, a  *)
(* binary that is there has its settings beside it (sysapp.rs: promote,    *)
(* unpromote).                                                             *)
THEOREM TheHomeTaskHasSettings == SettingsSpec => []HomeHasSettings
<1>1. SettingsInv => HomeHasSettings
  BY DEF SettingsInv
<1> QED
  BY <1>1, SettingsInvariant, PTL

(* A boot runs with what was stored last and what boot saves have lent,     *)
(* in so far as no layer above hides it and its folder and reader are there *)
(* (Config::load, load_for_run, save, ensure_config, resolve_reader).       *)
THEOREM SettingsComeBack == SettingsSpec => SettingsSurvive
<1>1. SettingsInv /\ [SettingsNext]_settingsVars
        => [stage = "off" /\ stage' = "fresh" => BootsAsSaved]_settingsVars
  <2> SUFFICES ASSUME SettingsInv, SettingsNext, stage = "off", stage' = "fresh"
               PROVE  BootsAsSaved
    OBVIOUS
  <2>1. Boot
    BY DEF SettingsNext, Provision, Around, PowerOff, CommitHost, CommitKey, SaveSource,
           SaveGroup, CommitDownloadsDir, CommitLocalDir, SettingsApply, Change, CycleReader,
           Promote, Unpromote
  <2>2. /\ config' = Ensured(Load) /\ config' \in Layer /\ Load \in Layer
        /\ readers' = readers /\ pref' = PrefOf(config'.reader)
    BY <2>1, LoadShowsTheFile, LayersAreLayers DEF Boot
  <2>4. \A k \in Key \ {"downloads"} : config'[k] = Load[k]
    BY <2>2 DEF Ensured, Layer, Key
  <2>5. ASSUME NEW k \in Key \ {"downloads"}
        PROVE  config'[k] \in IF Due(k) # Unset THEN {Due(k)} ELSE {Unset, Default[k]}
    BY <2>4, LoadShowsTheFile
  <2>6. ASSUME Due("downloads") \in usable PROVE config'.downloads = Due("downloads")
    <3>1. Due("downloads") # Unset /\ "downloads" \in Key
      BY <2>6 DEF SettingsInv, Directory, DefaultDir, Unset, Key
    <3>2. Load.downloads = Due("downloads")
      BY <3>1, LoadShowsTheFile
    <3> DEFINE l == Load
    <3> HIDE DEF l
    <3>3. l \in Layer /\ l.downloads = Due("downloads") /\ config' = Ensured(l)
      BY <2>2, <3>2 DEF l
    <3>4. Ensured(l).downloads = l.downloads
      BY <2>6, <3>1, <3>3 DEF Ensured, Layer
    <3> QED
      BY <3>3, <3>4
  <2>7. ASSUME Due("reader") \in readers PROVE ReaderInUse' = Due("reader")
    <3>1. Due("reader") # Unset /\ "reader" \in Key \ {"downloads"}
      BY <2>7 DEF SettingsInv, Key, Unset
    <3>2. config'.reader = Due("reader")
      BY <2>4, <3>1, LoadShowsTheFile
    <3> DEFINE r == Due("reader")
    <3>3. \E i \in DOMAIN Detected : Detected[i] = r
      <4>1. CASE readers = {"standard"}
        BY <2>7, <4>1 DEF Detected
      <4>2. CASE readers = {"standard", "koreader"}
        <5>1. Detected = <<"standard", "koreader">>
          BY <4>2 DEF Detected
        <5>2. r = "standard" \/ r = "koreader"
          BY <2>7, <4>2
        <5> QED
          BY <5>1, <5>2
      <4> QED
        BY <4>1, <4>2 DEF SettingsInv
    <3>4. pref' \in DOMAIN Detected /\ Detected[pref'] = r
      BY <2>2, <3>2, <3>3 DEF PrefOf
    <3>5. Detected' = Detected
      BY <2>2 DEF Detected
    <3> QED
      BY <3>4, <3>5 DEF ReaderInUse
  <2> QED
    BY <2>5, <2>6, <2>7 DEF BootsAsSaved
<1> QED
  BY <1>1, SettingsInvariant, PTL DEF SettingsSpec, SettingsSurvive


---------------------------------------------------------------------------
(***************************************************************************)
(* The shelf.  The way back is the property that needs an invariant: the   *)
(* page saved when a group was opened is meaningful only for the view made *)
(* of the same books, choice and scopes, and only if the tiles left then   *)
(* were the tiles of that page.                                            *)
(***************************************************************************)

(* A sequence, of whatever.                                                *)
Known(s) == s \in Seq({s[i] : i \in DOMAIN s})
(* The page is the library, drawn since the picker was closed.             *)
Shows == tab = "library" /\ ~picker /\ source # "folder" /\ ~stale

(* Types.                                                                  *)
ShelfTypes ==
  /\ lib \subseteq Book /\ layout \in DOMAIN Per
  /\ page \in Nat /\ pages \in Nat \ {0} /\ busy \in Nat
  /\ Known(view) /\ Known(history)

(* One page and one record of tiles per opened level.                      *)
Stacked ==
  /\ Known(scopes) /\ saved \in Seq(Nat) /\ Known(trail)
  /\ Len(saved) = Len(scopes) /\ Len(trail) = Len(scopes)

(* Nothing can be tapped through the picker, nor after it until a redraw.  *)
NothingUnderThePicker == picker \/ stale => entries = <<>>

(* The tiles are a page of the view, and the page is one of its pages; when the *)
(* view is of the books of now, the pages are counted after them.          *)
Paged ==
  Shows => /\ page < pages /\ entries = Slice(view, page, Per[layout])
           /\ view # <<>> => pages = PagesOf(Len(view), Per[layout])
           /\ fresh => pages = PagesOf(Total(view, lib), Per[layout])

(* A view that is up to date is the one that would be made.  The folder browser *)
(* leaves the view of the source before it.                                *)
FreshIsFresh ==
  fresh /\ source # "folder" => view = ViewOf(lib, group, sort, query, scopes, source)

(* A level that can be come back to: its view, made again, has the page that was *)
(* saved for it, with the tiles that were left.                            *)
TrailIsTrue ==
  \A n \in 1..Len(trail) : trail[n] # <<>> =>
    LET v == ViewOf(lib, group, sort, query, SubSeq(scopes, 1, n - 1), source)
    IN  /\ saved[n] < PagesOf(Total(v, lib), Per[layout])
        /\ trail[n] = Slice(v, saved[n], Per[layout])

(* The invariant.                                                          *)
ShelfInv == ShelfTypes /\ Stacked /\ NothingUnderThePicker /\ Paged /\ FreshIsFresh /\ TrailIsTrue

(* A function from 1..k is a sequence.                                     *)
LEMMA KnownFun ==
  ASSUME NEW k \in Nat, NEW e, e = [n \in 1..k |-> e[n]]
  PROVE  Known(e) /\ Len(e) = k
<1> DEFINE T == {e[n] : n \in DOMAIN e}
<1>1. DOMAIN e = 1..k
  OBVIOUS
<1>2. e \in [1..k -> T]
  BY <1>1
<1>3. e \in Seq(T)
  BY <1>2
<1>4. Len(e) = k
  BY <1>1, <1>3
<1> QED
  BY <1>3, <1>4 DEF Known

(* A sequence of anything is a sequence of its own members.                  *)
LEMMA KnownSeq ==
  ASSUME NEW T, NEW s \in Seq(T)
  PROVE  Known(s) /\ Len(s) \in Nat /\ DOMAIN s = 1..Len(s)
<1>1. Len(s) \in Nat /\ s = [n \in 1..Len(s) |-> s[n]]
  OBVIOUS
<1> QED
  BY <1>1, KnownFun

(* The empty sequence.                                                     *)
LEMMA KnownEmpty == Known(<<>>) /\ Len(<<>>) = 0
<1>1. <<>> \in Seq({})
  OBVIOUS
<1>2. Known(<<>>)
  BY <1>1, KnownSeq
<1> QED
  BY <1>2

(* What a push leaves of a stack.                                          *)
LEMMA KnownAppend ==
  ASSUME NEW s, Known(s), NEW x
  PROVE  /\ Known(Append(s, x)) /\ Len(Append(s, x)) = Len(s) + 1
         /\ \A n \in 1..Len(s) : Append(s, x)[n] = s[n]
         /\ Append(s, x)[Len(s) + 1] = x
<1> DEFINE T == {s[n] : n \in DOMAIN s} \cup {x}
<1>1. s \in Seq(T) /\ x \in T
  BY DEF Known
<1> HIDE DEF T
<1>2. /\ Append(s, x) \in Seq(T) /\ Len(Append(s, x)) = Len(s) + 1
      /\ \A n \in 1..Len(s) : Append(s, x)[n] = s[n]
      /\ Append(s, x)[Len(s) + 1] = x
  BY <1>1
<1> QED
  BY <1>2, KnownSeq

(* What a pop leaves of a stack.                                           *)
LEMMA KnownFront ==
  ASSUME NEW s, Known(s), s # <<>>
  PROVE  /\ Known(Front(s)) /\ Len(Front(s)) = Len(s) - 1 /\ Len(s) \in Nat \ {0}
         /\ \A n \in 1..Len(s) - 1 : Front(s)[n] = s[n]
<1> DEFINE T == {s[n] : n \in DOMAIN s}
<1>1. s \in Seq(T)
  BY DEF Known
<1> HIDE DEF T
<1>2. Len(s) \in Nat \ {0}
  BY <1>1
<1>3. Front(s) = SubSeq(s, 1, Len(s) - 1)
  BY DEF Front
<1>4. /\ SubSeq(s, 1, Len(s) - 1) \in Seq(T) /\ Len(SubSeq(s, 1, Len(s) - 1)) = Len(s) - 1
      /\ \A n \in 1..Len(s) - 1 : SubSeq(s, 1, Len(s) - 1)[n] = s[n]
  <2> DEFINE k == Len(s) - 1
  <2>1. 1 \in 1..Len(s) + 1 /\ k \in (1 - 1)..Len(s) /\ k \in Nat
    BY <1>2
  <2> HIDE DEF k
  <2>2. /\ SubSeq(s, 1, k) \in Seq(T)
        /\ Len(SubSeq(s, 1, k)) = IF 1 <= k THEN k - 1 + 1 ELSE 0
        /\ \A i \in 1..k - 1 + 1 : SubSeq(s, 1, k)[i] = s[1 + i - 1]
    BY ONLY <1>1, <2>1, SubSeqProperties
  <2>3. Len(SubSeq(s, 1, k)) = k /\ \A i \in 1..k : SubSeq(s, 1, k)[i] = s[i]
    BY <2>1, <2>2
  <2> QED
    BY <2>2, <2>3 DEF k
<1>5. Known(SubSeq(s, 1, Len(s) - 1))
  BY <1>4, KnownSeq
<1>6. Known(Front(s))
  BY <1>3, <1>5, Zenon
<1>7. Len(Front(s)) = Len(s) - 1 /\ \A n \in 1..Len(s) - 1 : Front(s)[n] = s[n]
  BY <1>3, <1>4, Zenon
<1> QED
  BY <1>2, <1>6, <1>7

(* The smaller of two numbers.                                             *)
LEMMA MinOfTwo ==
  ASSUME NEW a \in Int, NEW b \in Int
  PROVE  Min({a, b}) = IF a <= b THEN a ELSE b
<1> DEFINE m == IF a <= b THEN a ELSE b
<1>1. m \in {a, b} /\ \A y \in {a, b} : m <= y
  OBVIOUS
<1>2. ASSUME NEW x \in {a, b}, \A y \in {a, b} : x <= y PROVE x = m
  BY <1>2
<1> QED
  BY <1>1, <1>2 DEF Min

(* There is always a page, and no page of a non-empty table is empty.      *)
LEMMA PagesCover ==
  ASSUME NEW total \in Nat, NEW per \in Nat \ {0}
  PROVE  /\ PagesOf(total, per) \in Nat \ {0}
         /\ \A p \in Nat : total > 0 /\ p < PagesOf(total, per) => p * per < total
<1>1. CASE total = 0
  BY <1>1 DEF PagesOf
<1>2. CASE total > 0
  <2> DEFINE q == (total + per - 1) \div per
  <2>1. PagesOf(total, per) = q
    BY <1>2 DEF PagesOf
  <2>2. q \in Int /\ q * per <= total + per - 1 /\ total + per - 1 < (q + 1) * per
    <3>1. ASSUME NEW t \in Nat
          PROVE  t \div per \in Int /\ per * (t \div per) <= t /\ t < (t \div per + 1) * per
      OBVIOUS
    <3>2. total + per - 1 \in Nat
      OBVIOUS
    <3>3. q \in Int /\ per * q <= total + per - 1 /\ total + per - 1 < (q + 1) * per
      BY <3>1, <3>2
    <3> HIDE DEF q
    <3> QED
      BY <3>3
  <2> HIDE DEF q
  <2>3. q > 0
    <3>1. (q + 1) * per > per
      BY <2>2, <1>2
    <3> QED
      BY <3>1, <2>2
  <2>4. ASSUME NEW p \in Nat, p < q PROVE p * per < total
    <3>1. p + 1 <= q
      BY <2>2, <2>4
    <3>2. (p + 1) * per <= q * per
      BY <3>1, <2>2
    <3> QED
      BY <3>2, <2>2
  <2> QED
    BY <2>1, <2>2, <2>3, <2>4
<1> QED
  BY <1>1, <1>2

(* The rows of a table in an order are as many as the rows.                *)
LEMMA OrderIsKnown ==
  ASSUME NEW S, IsFiniteSet(S), NEW s
  PROVE  Known(Sorted(S, s)) /\ Len(Sorted(S, s)) = Cardinality(S)
         /\ DOMAIN Sorted(S, s) = 1..Cardinality(S)
<1> DEFINE F(n) == CHOOSE x \in S : Cardinality({y \in S : Order[s][y] < Order[s][x]}) = n - 1
           e == Sorted(S, s)
<1>1. Cardinality(S) \in Nat
  BY FS_CardinalityType
<1>2. e = [n \in 1..Cardinality(S) |-> F(n)]
  BY DEF Sorted, InOrder
<1> HIDE DEF F, e
<1>3. e = [n \in 1..Cardinality(S) |-> e[n]] /\ DOMAIN e = 1..Cardinality(S)
  BY <1>2
<1>4. Known(e) /\ Len(e) = Cardinality(S)
  BY <1>1, <1>3, KnownFun
<1> QED
  BY <1>3, <1>4 DEF e

(* append_grouped makes a sequence of tiles and cards.                     *)
LEMMA GroupsAreKnown ==
  ASSUME NEW s, Known(s), NEW g, NEW level, NEW groupEmpty
  PROVE  Known(Grouped(s, g, level, groupEmpty))
<1> DEFINE DimOf(b) == DimKey(b, g, level)
           Members(b) == {c \in ToSet(s) : DimOf(c) = DimOf(b)}
           Alone(b) == (DimOf(b) = "" /\ ~groupEmpty) \/ Members(b) = {b}
           Top == {i \in DOMAIN s : Alone(s[i]) \/ \A j \in 1..(i - 1) : DimOf(s[j]) # DimOf(s[i])}
           F(n) == CHOOSE x \in Top : Cardinality({y \in Top : y < x}) = n - 1
           Heads == [n \in 1..Cardinality(Top) |-> F(n)]
           RowOf(b) == IF Alone(b) THEN Tile(b)
                     ELSE Card(b, DimOf(b), Cardinality(Members(b)))
           e == Grouped(s, g, level, groupEmpty)
<1>1. e = [n \in 1..Len(Heads) |-> RowOf(s[Heads[n]])]
  BY DEF Grouped, InOrder
<1>2. IsFiniteSet(Top)
  <2>1. DOMAIN s = 1..Len(s) /\ Len(s) \in Nat
    BY DEF Known
  <2>2. IsFiniteSet(DOMAIN s)
    BY <2>1, FS_Interval
  <2> QED
    BY <2>2, FS_Subset
<1> HIDE DEF RowOf, e, Top, F
<1>3. Cardinality(Top) \in Nat
  BY <1>2, FS_CardinalityType
<1>4. Len(Heads) = Cardinality(Top)
  <2>1. Heads = [n \in 1..Cardinality(Top) |-> Heads[n]]
    OBVIOUS
  <2> HIDE DEF Heads
  <2> QED
    BY <2>1, <1>3, KnownFun
<1> HIDE DEF Heads
<1>5. e = [n \in 1..Len(Heads) |-> e[n]]
  BY <1>1
<1>6. Known(e)
  BY <1>3, <1>4, <1>5, KnownFun
<1> QED
  BY <1>6 DEF e

(* view_rebuild makes a sequence, whatever the table and the choice.       *)
LEMMA ViewIsKnown ==
  ASSUME NEW l \in SUBSET Book, NEW g, NEW s, NEW q, NEW sc, NEW src
  PROVE  Known(ViewOf(l, g, s, q, sc, src))
<1>1. ASSUME NEW S, IsFiniteSet(S), NEW o PROVE Known(Flat(Sorted(S, o)))
  <2> DEFINE v == Sorted(S, o)
             e == Flat(v)
  <2>1. Len(v) \in Nat
    BY <1>1, OrderIsKnown, FS_CardinalityType
  <2>2. e = [n \in 1..Len(v) |-> e[n]]
    BY DEF Flat
  <2> HIDE DEF v, e
  <2>3. Known(e)
    BY <2>1, <2>2, KnownFun
  <2> QED
    BY <2>3 DEF e, v
<1>2. ASSUME NEW S, IsFiniteSet(S), NEW o, NEW level, NEW e
      PROVE  Known(Grouped(Sorted(S, o), g, level, e))
  BY <1>2, OrderIsKnown, GroupsAreKnown
<1>3. IsFiniteSet(l)
  BY ShelfAssumption, FS_Subset
<1>4. IsFiniteSet(Scanned(l))
  <2> DEFINE r == Sorted(l, "recent")
             k == Min({ScanCap, Cardinality(l)})
             t == SubSeq(r, 1, k)
  <2>1. Cardinality(l) \in Nat /\ ScanCap \in Nat
    BY <1>3, FS_CardinalityType, ShelfAssumption
  <2>2. k \in Nat /\ k <= Cardinality(l)
    BY <2>1, MinOfTwo
  <2>3. Known(r) /\ Len(r) = Cardinality(l) /\ DOMAIN r = 1..Cardinality(l)
    BY <1>3, OrderIsKnown
  <2>4. \A i \in 1..k : r[i] \in {r[n] : n \in DOMAIN r}
    BY <2>1, <2>2, <2>3
  <2> HIDE DEF k, r
  <2>5. t \in Seq({r[n] : n \in DOMAIN r})
    BY <2>2, <2>4, SubSeqProperties
  <2> HIDE DEF t
  <2>6. DOMAIN t = 1..Len(t) /\ Len(t) \in Nat
    BY <2>5
  <2>7. IsFiniteSet(DOMAIN t)
    BY <2>6, FS_Interval
  <2>8. IsFiniteSet({t[n] : n \in DOMAIN t})
    <3> DEFINE D == DOMAIN t
               I == {t[n] : n \in D}
    <3>1. t \in [D -> I] /\ \A y \in I : \E x \in D : t[x] = y
      BY <2>5
    <3>2. t \in Surjection(D, I)
      BY <3>1 DEF Surjection
    <3> HIDE DEF I
    <3> QED
      BY <2>7, <3>2, FS_Surjection DEF I
  <2> QED
    BY <2>8 DEF Scanned, ToSet, t, k, r
<1> DEFINE all == {b \in l : SourceOf[b] = src}
           mine == {b \in Scanned(l) : SourceOf[b] = src /\ b \in Matching[q]}
           deep == Pinned(mine, g, sc)
           level == Min({Len(sc), 2})
<1>5. IsFiniteSet(all) /\ IsFiniteSet(mine) /\ IsFiniteSet(deep)
  <2>1. IsFiniteSet(all)
    BY <1>3, FS_Subset
  <2>2. IsFiniteSet(mine)
    BY <1>4, FS_Subset
  <2> HIDE DEF mine
  <2>3. deep \subseteq mine
    BY DEF Pinned
  <2>4. IsFiniteSet(deep)
    BY <2>2, <2>3, FS_Subset
  <2> QED
    BY <2>1, <2>2, <2>4 DEF mine
<1>6. \/ ViewOf(l, g, s, q, sc, src) = Flat(Sorted(all, s))
      \/ ViewOf(l, g, s, q, sc, src) = Grouped(Sorted(deep, s), g, level, FALSE)
      \/ ViewOf(l, g, s, q, sc, src) = Flat(Sorted(deep, s))
      \/ ViewOf(l, g, s, q, sc, src) = Grouped(Sorted(mine, s), g, 0, TRUE)
      \/ ViewOf(l, g, s, q, sc, src) = Flat(Sorted(mine, s))
  BY DEF ViewOf
<1> DEFINE v == ViewOf(l, g, s, q, sc, src)
<1> HIDE DEF all, mine, deep, level, v
<1>7. Known(v)
  <2>1. CASE v = Flat(Sorted(all, s)) \/ v = Flat(Sorted(deep, s)) \/ v = Flat(Sorted(mine, s))
    BY <2>1, <1>1, <1>5
  <2>2. CASE v = Grouped(Sorted(deep, s), g, level, FALSE)
    BY <2>2, <1>2, <1>5
  <2>3. CASE v = Grouped(Sorted(mine, s), g, 0, TRUE)
    BY <2>3, <1>2, <1>5
  <2> QED
    BY <1>6, <2>1, <2>2, <2>3 DEF v
<1> QED
  BY <1>7 DEF v

(* What refresh_shelf leaves at page p.                                    *)
Settled(p) ==
  /\ page' \in Nat /\ pages' \in Nat \ {0} /\ stale' = FALSE
  /\ picker' \/ source' = "folder" \/ page' < pages'
  /\ picker' => entries' = <<>>
  /\ Shows' => /\ pages' = PagesOf(Total(view', lib), Per[layout'])
               /\ page' = Min({p, pages' - 1}) /\ page' < pages'
               /\ entries' = Slice(view', page', Per[layout'])

(* refresh_shelf at any page, also one that is no more.                    *)
LEMMA RefreshSettles ==
  ASSUME NEW p \in Nat, Refresh(p), lib \subseteq Book, Known(view'), Known(history'),
         layout' \in DOMAIN Per
  PROVE  Settled(p)
<1>1. Total(view', lib) \in Nat
  <2>1. Cardinality(lib) \in Nat
    BY ShelfAssumption, FS_Subset, FS_CardinalityType
  <2>2. Len(view') \in Nat
    BY DEF Known
  <2> QED
    BY <2>1, <2>2 DEF Total
<1>2. Len(history') \in Nat
  BY DEF Known
<1>3. Per[layout'] \in Nat \ {0} /\ RowsPer \in Nat \ {0}
  BY ShelfAssumption
<1>4. /\ PagesOf(Total(view', lib), Per[layout']) \in Nat \ {0}
      /\ PagesOf(Len(history'), RowsPer) \in Nat \ {0}
  BY <1>1, <1>2, <1>3, PagesCover
<1>5. ASSUME NEW n \in Nat \ {0} PROVE Min({p, n - 1}) \in Nat /\ Min({p, n - 1}) < n
  BY MinOfTwo
<1> DEFINE Q == PagesOf(Total(view', lib), Per[layout'])
           H == PagesOf(Len(history'), RowsPer)
<1>6. stale' = FALSE
  BY DEF Refresh
<1>7. \/ pages' = 1 /\ page' = p /\ entries' = <<>> /\ (picker' \/ source' = "folder")
      \/ pages' = H /\ page' = Min({p, pages' - 1}) /\ ~picker' /\ tab' = "search"
      \/ /\ pages' = Q /\ page' = Min({p, pages' - 1}) /\ ~picker'
         /\ entries' = Slice(view', page', Per[layout'])
  BY DEF Refresh, Browsing
<1> HIDE DEF Q, H
<1>8. Q \in Nat \ {0} /\ H \in Nat \ {0}
  BY <1>4 DEF Q, H
<1>9. /\ page' \in Nat /\ pages' \in Nat \ {0}
      /\ picker' \/ source' = "folder" \/ page' < pages'
      /\ picker' => entries' = <<>>
      /\ Shows' => /\ pages' = Q /\ page' = Min({p, pages' - 1}) /\ page' < pages'
                   /\ entries' = Slice(view', page', Per[layout'])
  BY <1>5, <1>7, <1>8 DEF Shows
<1> QED
  BY <1>6, <1>9 DEF Settled, Q

(* rebuild_view, also when the store refuses it.                           *)
LEMMA RebuildSettles ==
  ASSUME NEW p \in Nat, Rebuild(p), lib \subseteq Book, Known(view), Known(history'),
         busy \in Nat, layout' \in DOMAIN Per
  PROVE  /\ Settled(p) /\ Known(view') /\ busy' \in Nat
         /\ fresh' => view' = ViewOf(lib, group', sort', query', scopes', source')
         /\ busy' = busy => fresh'
<1>1. Known(<<>>)
  BY KnownEmpty
<1>2. Known(ViewOf(lib, group', sort', query', scopes', source'))
  BY ViewIsKnown
<1> DEFINE V == ViewOf(lib, group', sort', query', scopes', source')
<1>3. /\ view' \in {V, view, <<>>} /\ busy' \in {busy, busy + 1}
      /\ fresh' => view' = V
      /\ busy' = busy => fresh'
  BY DEF Rebuild
<1> HIDE DEF V
<1>4. Known(view') /\ busy' \in Nat
  BY <1>1, <1>2, <1>3 DEF V
<1>5. Refresh(p)
  BY DEF Rebuild
<1> QED
  BY <1>3, <1>4, <1>5, RefreshSettles DEF V

(* What refresh_shelf settles is what taps are resolved against.           *)
LEMMA SettledIsPaged ==
  ASSUME NEW p \in Nat, Settled(p), lib' = lib, Known(view')
  PROVE  Paged' /\ NothingUnderThePicker'
BY DEF Settled, Paged, NothingUnderThePicker, Shows, Total

(* A handler that only refreshes keeps the invariant.                      *)
LEMMA Redrawn ==
  ASSUME ShelfInv, NEW p \in Nat, Refresh(p), Same, lib' = lib,
         UNCHANGED <<group, sort, query, source, scopes>> \/ source' = "folder",
         layout' \in DOMAIN Per, Known(history'), Stacked', TrailIsTrue'
  PROVE  ShelfInv'
<1>1. Known(view') /\ busy' \in Nat /\ fresh' = fresh /\ view' = view /\ lib \subseteq Book
  BY DEF Same, ShelfInv, ShelfTypes
<1>2. Settled(p)
  BY <1>1, RefreshSettles
<1>3. Paged' /\ NothingUnderThePicker'
  BY <1>1, <1>2, SettledIsPaged
<1>4. ShelfTypes'
  BY <1>1, <1>2 DEF ShelfTypes, Settled
<1>5. FreshIsFresh'
  BY <1>1 DEF ShelfInv, FreshIsFresh
<1> QED
  BY <1>3, <1>4, <1>5 DEF ShelfInv

(* A handler that rebuilds the view keeps the invariant.                   *)
LEMMA Rebuilt ==
  ASSUME ShelfInv, NEW p \in Nat, Rebuild(p), lib' = lib,
         layout' \in DOMAIN Per, Known(history'), Stacked', TrailIsTrue'
  PROVE  ShelfInv'
<1>1. lib \subseteq Book /\ Known(view) /\ busy \in Nat
  BY DEF ShelfInv, ShelfTypes
<1>2. /\ Settled(p) /\ Known(view') /\ busy' \in Nat
      /\ fresh' => view' = ViewOf(lib, group', sort', query', scopes', source')
  BY <1>1, RebuildSettles
<1>3. Paged' /\ NothingUnderThePicker'
  BY <1>2, SettledIsPaged
<1>4. ShelfTypes'
  BY <1>1, <1>2 DEF ShelfTypes, Settled
<1>5. FreshIsFresh'
  BY <1>2 DEF FreshIsFresh
<1> QED
  BY <1>3, <1>4, <1>5 DEF ShelfInv

(* The way back survives what changes neither books nor choice.            *)
LEMMA TrailStays ==
  ASSUME ShelfInv, lib' = lib,
         UNCHANGED <<group, sort, query, source, scopes, saved, layout, trail>>
  PROVE  Stacked' /\ TrailIsTrue'
<1>1. Stacked'
  BY DEF ShelfInv, Stacked
<1>2. TrailIsTrue'
  BY DEF ShelfInv, TrailIsTrue
<1> QED
  BY <1>1, <1>2

(* Where books or choice have changed nothing is promised.                 *)
LEMMA TrailForgotten ==
  ASSUME ShelfInv, Forget, UNCHANGED <<scopes, saved>>
  PROVE  Stacked' /\ TrailIsTrue'
<1>1. Len(trail) \in Nat /\ DOMAIN trail = 1..Len(trail)
  BY DEF ShelfInv, Stacked, Known
<1>2. trail' = [n \in 1..Len(trail) |-> trail'[n]] /\ \A n \in 1..Len(trail) : trail'[n] = <<>>
  BY <1>1 DEF Forget
<1>3. Known(trail') /\ Len(trail') = Len(trail)
  BY <1>1, <1>2, KnownFun
<1>4. Stacked'
  BY <1>3 DEF ShelfInv, Stacked
<1>5. TrailIsTrue'
  BY <1>2, <1>3 DEF TrailIsTrue
<1> QED
  BY <1>4, <1>5

(* At the root there is no way back.                                       *)
LEMMA TrailEmpty ==
  ASSUME scopes' = <<>>, saved' = <<>>, trail' = <<>>
  PROVE  Stacked' /\ TrailIsTrue'
<1>1. Known(<<>>) /\ <<>> \in Seq(Nat) /\ Len(<<>>) = 0
  BY KnownEmpty
<1>2. Stacked'
  BY <1>1 DEF Stacked
<1>3. TrailIsTrue'
  BY <1>1 DEF TrailIsTrue
<1> QED
  BY <1>2, <1>3

(* Sequences that agree up to k have the same first k members.             *)
LEMMA SamePrefix ==
  ASSUME NEW s, NEW t, NEW k \in Nat, \A i \in 1..k : s[i] = t[i]
  PROVE  SubSeq(s, 1, k) = SubSeq(t, 1, k)
<1> DEFINE T == {s[i] : i \in 1..k}
<1>1. \A i \in 1..k : s[i] \in T /\ t[i] \in T
  OBVIOUS
<1> HIDE DEF T
<1>2. /\ SubSeq(s, 1, k) \in Seq(T)
      /\ Len(SubSeq(s, 1, k)) = IF 1 <= k THEN k - 1 + 1 ELSE 0
      /\ \A i \in 1..k - 1 + 1 : SubSeq(s, 1, k)[i] = s[1 + i - 1]
  BY ONLY <1>1, k \in Nat, SubSeqProperties
<1>3. /\ SubSeq(t, 1, k) \in Seq(T)
      /\ Len(SubSeq(t, 1, k)) = IF 1 <= k THEN k - 1 + 1 ELSE 0
      /\ \A i \in 1..k - 1 + 1 : SubSeq(t, 1, k)[i] = t[1 + i - 1]
  BY ONLY <1>1, k \in Nat, SubSeqProperties
<1> DEFINE a == SubSeq(s, 1, k)
           b == SubSeq(t, 1, k)
<1>4. Len(a) = k /\ Len(b) = k /\ \A i \in 1..k : a[i] = b[i]
  BY <1>2, <1>3
<1> HIDE DEF a, b
<1>5. a = b
  BY <1>2, <1>3, <1>4, SeqEqual DEF a, b
<1> QED
  BY <1>5 DEF a, b

(* The prefix that is the whole.                                           *)
LEMMA WholePrefix ==
  ASSUME NEW s, Known(s)
  PROVE  SubSeq(s, 1, Len(s)) = s
BY SubSeqFull DEF Known

(* drill_into_card: the level that is left is the one to come back to.     *)
LEMMA DrillKeepsTheTrail ==
  ASSUME ShelfInv, NEW i \in 1..Len(entries), DrillIntoCard(i)
  PROVE  Stacked' /\ TrailIsTrue'
<1> DEFINE x == entries[i].scope
           t == IF fresh THEN entries ELSE <<>>
           L == Len(trail)
<1>1. /\ scopes' = Append(scopes, x) /\ saved' = Append(saved, page) /\ trail' = Append(trail, t)
      /\ UNCHANGED <<lib, group, sort, query, source, layout>>
      /\ Body /\ tab = "library"
  BY DEF DrillIntoCard, choice, screen
<1>2. /\ Known(scopes) /\ saved \in Seq(Nat) /\ Known(trail) /\ page \in Nat
      /\ Len(saved) = L /\ Len(scopes) = L /\ L \in Nat
  BY DEF ShelfInv, Stacked, ShelfTypes, Known
<1> HIDE DEF x, t, L
<1>3. /\ Known(scopes') /\ Len(scopes') = L + 1 /\ \A n \in 1..L : scopes'[n] = scopes[n]
  BY <1>1, <1>2, KnownAppend
<1>4. /\ Known(trail') /\ Len(trail') = L + 1
      /\ \A n \in 1..L : trail'[n] = trail[n]
      /\ trail'[L + 1] = t
  BY <1>1, <1>2, KnownAppend DEF L
<1>5. /\ saved' \in Seq(Nat) /\ Len(saved') = L + 1
      /\ \A n \in 1..L : saved'[n] = saved[n]
      /\ saved'[L + 1] = page
  BY <1>1, <1>2
<1>6. Stacked'
  BY <1>3, <1>4, <1>5 DEF Stacked
<1>7. ASSUME NEW n \in 1..L + 1, trail'[n] # <<>>
      PROVE  LET v == ViewOf(lib', group', sort', query', SubSeq(scopes', 1, n - 1), source')
             IN  /\ saved'[n] < PagesOf(Total(v, lib'), Per[layout'])
                 /\ trail'[n] = Slice(v, saved'[n], Per[layout'])
  <2> DEFINE v == ViewOf(lib', group', sort', query', SubSeq(scopes', 1, n - 1), source')
  <2>1. CASE n \in 1..L
    <3>1. trail[n] # <<>> /\ n \in 1..Len(trail)
      BY <1>4, <1>7, <2>1 DEF L
    <3>2. n - 1 \in Nat /\ \A j \in 1..n - 1 : scopes'[j] = scopes[j]
      BY <1>2, <1>3, <2>1
    <3>3. SubSeq(scopes', 1, n - 1) = SubSeq(scopes, 1, n - 1)
      BY <3>2, SamePrefix
    <3> QED
      BY <1>1, <1>4, <1>5, <2>1, <3>1, <3>3 DEF ShelfInv, TrailIsTrue
  <2>2. CASE n = L + 1
    <3>1. n - 1 = L
      BY <1>2, <2>2
    <3>2. SubSeq(scopes', 1, n - 1) = scopes
      <4>1. SubSeq(scopes', 1, L) = SubSeq(scopes, 1, L)
        BY <1>2, <1>3, SamePrefix
      <4>2. SubSeq(scopes, 1, L) = scopes
        BY <1>2, WholePrefix
      <4> QED
        BY <3>1, <4>1, <4>2
    <3>3. v = ViewOf(lib, group, sort, query, scopes, source)
      BY <1>1, <3>2, Zenon
    <3>4. trail'[n] = t /\ saved'[n] = page
      BY <1>4, <1>5, <2>2
    <3>5. fresh /\ t = entries /\ entries # <<>>
      BY <1>7, <3>4 DEF t
    <3>6. Shows
      BY <1>1, <3>5 DEF ShelfInv, NothingUnderThePicker, Shows, Body
    <3> HIDE DEF v
    <3>7. view = v
      BY <3>3, <3>5, <3>6 DEF ShelfInv, FreshIsFresh, Shows
    <3>8. page < PagesOf(Total(v, lib'), Per[layout']) /\ t = Slice(v, page, Per[layout'])
      BY <1>1, <3>5, <3>6, <3>7 DEF ShelfInv, Paged
    <3> QED
      BY <3>4, <3>8 DEF v
  <2>3. n \in 1..L \/ n = L + 1
    BY <1>2
  <2> QED
    BY <2>1, <2>2, <2>3
<1>8. TrailIsTrue'
  BY <1>4, <1>7 DEF TrailIsTrue
<1> QED
  BY <1>6, <1>8

(* drill_back: the levels below the one that is closed are untouched.      *)
LEMMA BackKeepsTheTrail ==
  ASSUME ShelfInv, DrillBack
  PROVE  Stacked' /\ TrailIsTrue' /\ saved # <<>> /\ Last(saved) \in Nat
<1> DEFINE L == Len(trail) - 1
<1>1. /\ scopes # <<>> /\ scopes' = Front(scopes) /\ saved' = Front(saved) /\ trail' = Front(trail)
      /\ UNCHANGED <<lib, group, sort, query, source, layout>>
  BY DEF DrillBack, choice, screen
<1>2. /\ Known(scopes) /\ saved \in Seq(Nat) /\ Known(trail)
      /\ Len(saved) = Len(trail) /\ Len(scopes) = Len(trail) /\ Len(trail) \in Nat
  BY DEF ShelfInv, Stacked, Known
<1>3. Len(trail) # 0 /\ trail # <<>> /\ saved # <<>> /\ Known(saved)
  <2>1. Len(scopes) # 0
    BY <1>1, <1>2 DEF Known
  <2> QED
    BY <1>2, <2>1, KnownSeq
<1>4. L \in Nat /\ Len(trail) = L + 1
  BY <1>2, <1>3
<1> HIDE DEF L
<1>5. /\ Known(scopes') /\ Len(scopes') = L /\ \A n \in 1..L : scopes'[n] = scopes[n]
  <2>1. /\ Known(Front(scopes)) /\ Len(Front(scopes)) = Len(scopes) - 1
        /\ \A n \in 1..Len(scopes) - 1 : Front(scopes)[n] = scopes[n]
    BY <1>1, <1>2, KnownFront
  <2>2. Len(scopes) - 1 = L
    BY <1>2, <1>4
  <2> QED
    BY <1>1, <2>1, <2>2
<1>6. /\ Known(trail') /\ Len(trail') = L /\ \A n \in 1..L : trail'[n] = trail[n]
  <2>1. /\ Known(Front(trail)) /\ Len(Front(trail)) = Len(trail) - 1
        /\ \A n \in 1..Len(trail) - 1 : Front(trail)[n] = trail[n]
    BY <1>2, <1>3, KnownFront
  <2>2. Len(trail) - 1 = L
    BY <1>2, <1>4
  <2> QED
    BY <1>1, <2>1, <2>2
<1>7. /\ Known(saved') /\ Len(saved') = L /\ \A n \in 1..L : saved'[n] = saved[n]
  <2>1. /\ Known(Front(saved)) /\ Len(Front(saved)) = Len(saved) - 1
        /\ \A n \in 1..Len(saved) - 1 : Front(saved)[n] = saved[n]
    BY <1>2, <1>3, KnownFront
  <2>2. Len(saved) - 1 = L
    BY <1>2, <1>4
  <2> QED
    BY <1>1, <2>1, <2>2
<1>8. saved' \in Seq(Nat)
  <2>1. \A n \in 1..L : saved[n] \in Nat
    BY <1>2, <1>4
  <2>2. saved' = [n \in 1..L |-> saved'[n]]
    BY <1>7 DEF Known
  <2>3. saved' \in [1..L -> Nat]
    BY <1>7, <2>1, <2>2
  <2> QED
    BY <1>4, <2>3
<1>9. Stacked'
  BY <1>5, <1>6, <1>7, <1>8 DEF Stacked
<1>10. ASSUME NEW n \in 1..L, trail'[n] # <<>>
       PROVE  LET v == ViewOf(lib', group', sort', query', SubSeq(scopes', 1, n - 1), source')
              IN  /\ saved'[n] < PagesOf(Total(v, lib'), Per[layout'])
                  /\ trail'[n] = Slice(v, saved'[n], Per[layout'])
  <2>1. n \in 1..Len(trail) /\ trail[n] # <<>>
    BY <1>4, <1>6, <1>10
  <2>2. n - 1 \in Nat /\ \A j \in 1..n - 1 : scopes'[j] = scopes[j]
    BY <1>4, <1>5
  <2>3. SubSeq(scopes', 1, n - 1) = SubSeq(scopes, 1, n - 1)
    BY <2>2, SamePrefix
  <2> QED
    BY <1>1, <1>6, <1>7, <2>1, <2>3 DEF ShelfInv, TrailIsTrue
<1>11. TrailIsTrue'
  BY <1>6, <1>10 DEF TrailIsTrue
<1>12. Last(saved) \in Nat
  BY <1>2, <1>4 DEF Last
<1> QED
  BY <1>3, <1>9, <1>11, <1>12

(* App::new and boot.                                                      *)
LEMMA BootsInOrder ==
  Init => ShelfInv
<1> SUFFICES ASSUME Init PROVE ShelfInv
  OBVIOUS
<1>1. lib \subseteq Book /\ layout = "grid" /\ "grid" \in DOMAIN Per
  BY ShelfAssumption DEF Init
<1>2. Known(view) /\ Len(view) \in Nat
  <2>1. view = ViewOf(lib, group, sort, "", <<>>, "kavita")
    BY DEF Init
  <2>2. Known(view)
    BY <1>1, <2>1, ViewIsKnown
  <2> QED
    BY <2>2 DEF Known
<1>3. Total(view, lib) \in Nat
  <2>1. Cardinality(lib) \in Nat
    BY <1>1, ShelfAssumption, FS_Subset, FS_CardinalityType
  <2> QED
    BY <1>2, <2>1 DEF Total
<1>4. PagesOf(Total(view, lib), Per["grid"]) \in Nat \ {0}
  BY <1>1, <1>3, PagesCover, ShelfAssumption
<1>5. ShelfTypes
  BY <1>1, <1>2, <1>4, KnownEmpty DEF ShelfTypes, Init
<1>6. Stacked
  <2>1. Known(<<>>) /\ <<>> \in Seq(Nat)
    BY KnownEmpty
  <2>2. scopes = <<>> /\ saved = <<>> /\ trail = <<>>
    BY DEF Init
  <2> QED
    BY <2>1, <2>2 DEF Stacked
<1>7. NothingUnderThePicker
  BY DEF NothingUnderThePicker, Init
<1>8. Paged
  <2>1. /\ page = 0 /\ pages = PagesOf(Total(view, lib), Per["grid"])
        /\ entries = Slice(view, 0, Per["grid"]) /\ layout = "grid"
    BY DEF Init
  <2>2. 0 < pages
    BY <1>4, <2>1
  <2> QED
    BY <2>1, <2>2 DEF Paged, Total
<1>9. FreshIsFresh
  BY DEF FreshIsFresh, Init
<1>10. TrailIsTrue
  <2>1. trail = <<>>
    BY DEF Init
  <2> QED
    BY <2>1 DEF TrailIsTrue
<1> QED
  BY <1>5, <1>6, <1>7, <1>8, <1>9, <1>10 DEF ShelfInv

(* search_add makes a list of terms.                                       *)
LEMMA RecordedIsKnown ==
  ASSUME NEW w, Known(history)
  PROVE  Known(Recorded(w))
<1> DEFINE S == {i \in DOMAIN history : history[i] # w}
           F(n) == CHOOSE x \in S : Cardinality({y \in S : y < x}) = n - 1
           others == [n \in 1..Cardinality(S) |-> F(n)]
           r == [n \in DOMAIN others |-> history[others[n]]]
<1>1. Recorded(w) = <<w>> \o r
  BY DEF Recorded, InOrder
<1>2. IsFiniteSet(S)
  <2>1. DOMAIN history = 1..Len(history) /\ Len(history) \in Nat
    BY DEF Known
  <2>2. IsFiniteSet(DOMAIN history)
    BY <2>1, FS_Interval
  <2> QED
    BY <2>2, FS_Subset
<1> HIDE DEF F, S
<1>3. Cardinality(S) \in Nat
  BY <1>2, FS_CardinalityType
<1>4. DOMAIN others = 1..Cardinality(S)
  OBVIOUS
<1> HIDE DEF others
<1>5. r = [n \in 1..Cardinality(S) |-> r[n]]
  BY <1>4
<1> HIDE DEF r
<1>6. Known(r)
  BY <1>3, <1>5, KnownFun
<1>7. PICK T : r \in Seq(T) /\ w \in T
  <2> DEFINE T == {r[n] : n \in DOMAIN r} \cup {w}
  <2>1. r \in Seq(T) /\ w \in T
    BY <1>6 DEF Known
  <2> QED
    BY <2>1
<1>8. <<w>> \o r \in Seq(T)
  BY <1>7
<1> QED
  BY <1>1, <1>8, KnownSeq

(* Every handler, and every change of the table by a worker.               *)
LEMMA EveryStepKeeps ==
  ShelfInv /\ [Next]_vars => ShelfInv'
<1> SUFFICES ASSUME ShelfInv, [Next]_vars PROVE ShelfInv'
  OBVIOUS
<1> USE DEF choice, screen, shown
<1>0. /\ layout \in DOMAIN Per /\ Known(history) /\ page \in Nat /\ Stacked /\ TrailIsTrue
      /\ {"grid", "list"} \subseteq DOMAIN Per
  BY ShelfAssumption DEF ShelfInv, ShelfTypes
<1>1. CASE \E b \in Moving : LibraryChanges(b)
  <2> PICK b \in Moving : LibraryChanges(b)
    BY <1>1
  <2>1. /\ lib' \subseteq Book /\ fresh' = FALSE /\ Forget
        /\ UNCHANGED <<view, group, sort, query, source, scopes, saved, tab, layout, picker,
                       page, pages, entries, history, busy, stale>>
    BY ShelfAssumption DEF LibraryChanges, ShelfInv, ShelfTypes
  <2>2. Stacked' /\ TrailIsTrue'
    BY <2>1, TrailForgotten
  <2>3. ShelfTypes'
    BY <2>1 DEF ShelfInv, ShelfTypes
  <2>4. NothingUnderThePicker' /\ Paged' /\ FreshIsFresh'
    BY <2>1 DEF ShelfInv, NothingUnderThePicker, Paged, Shows, FreshIsFresh
  <2> QED
    BY <2>2, <2>3, <2>4 DEF ShelfInv
<1>2. CASE SyncLands
  <2>1. Stacked' /\ TrailIsTrue'
    BY <1>2, TrailForgotten DEF SyncLands
  <2> QED
    BY <1>0, <1>2, <2>1, Rebuilt DEF SyncLands
<1>3. CASE \E p \in {0, page - 1, page + 1, pages - 1} \cap Nat : GotoPage(p)
  <2> PICK p \in Nat : GotoPage(p)
    BY <1>3
  <2>1. Stacked' /\ TrailIsTrue'
    BY TrailStays DEF GotoPage
  <2> QED
    BY <1>0, <2>1, Redrawn DEF GotoPage
<1>4. CASE \E i \in 1..Len(entries) : DrillIntoCard(i)
  <2> PICK i \in 1..Len(entries) : DrillIntoCard(i)
    BY <1>4
  <2>1. Stacked' /\ TrailIsTrue'
    BY DrillKeepsTheTrail
  <2> QED
    BY <1>0, <2>1, Rebuilt DEF DrillIntoCard
<1>5. CASE \E g \in {"none", "author", "authorseries"} : SetGroup(g)
  <2> PICK g \in {"none", "author", "authorseries"} : SetGroup(g)
    BY <1>5
  <2>1. Stacked' /\ TrailIsTrue'
    BY TrailEmpty DEF SetGroup
  <2> QED
    BY <1>0, <2>1, Rebuilt DEF SetGroup
<1>6. CASE \E s \in DOMAIN Order : SetSort(s)
  <2> PICK s \in DOMAIN Order : SetSort(s)
    BY <1>6
  <2>1. Stacked' /\ TrailIsTrue'
    BY TrailForgotten DEF SetSort
  <2> QED
    BY <1>0, <2>1, Rebuilt DEF SetSort
<1>7. CASE EnterSearch
  <2>1. Stacked' /\ TrailIsTrue'
    BY <1>7, TrailStays DEF EnterSearch
  <2> QED
    BY <1>0, <1>7, <2>1, Redrawn DEF EnterSearch
<1>8. ASSUME NEW w, CommitSearch(w) PROVE ShelfInv'
  <2>1. Stacked' /\ TrailIsTrue'
    BY <1>8, TrailForgotten DEF CommitSearch
  <2>2. Known(history')
    BY <1>0, <1>8, RecordedIsKnown DEF CommitSearch
  <2> QED
    BY <1>0, <1>8, <2>1, <2>2, Rebuilt DEF CommitSearch
<1>9. CASE \E w \in DOMAIN Matching : TypeSearch(w)
  BY <1>8, <1>9 DEF TypeSearch
<1>10. CASE \E i \in 1..RowsPer : TapSearchRow(i)
  BY <1>8, <1>10 DEF TapSearchRow
<1>11. CASE ToggleLayout
  <2>1. Stacked' /\ TrailIsTrue'
    BY <1>11, TrailForgotten DEF ToggleLayout
  <2>2. layout' \in DOMAIN Per
    BY <1>0, <1>11 DEF ToggleLayout
  <2> QED
    BY <1>0, <1>11, <2>1, <2>2, Redrawn DEF ToggleLayout
<1>12. CASE \E s \in {"kavita", "local", "folder"} : ApplySource(s)
  <2> PICK s \in {"kavita", "local", "folder"} : ApplySource(s)
    BY <1>12
  <2>1. Stacked' /\ TrailIsTrue'
    BY TrailEmpty DEF ApplySource
  <2>2. CASE s = "folder"
    BY <1>0, <2>1, <2>2, Redrawn DEF ApplySource
  <2>3. CASE s # "folder"
    BY <1>0, <2>1, <2>3, Rebuilt DEF ApplySource
  <2> QED
    BY <2>2, <2>3
<1>13. ASSUME UNCHANGED <<lib, view, choice, scopes, saved, tab, layout, picker, shown,
                          history, busy, fresh, trail, stale>>
       PROVE  ShelfInv'
  <2>1. Stacked' /\ TrailIsTrue'
    BY <1>13, TrailStays
  <2>2. ShelfTypes'
    BY <1>13 DEF ShelfInv, ShelfTypes
  <2>3. NothingUnderThePicker' /\ Paged' /\ FreshIsFresh'
    BY <1>13 DEF ShelfInv, NothingUnderThePicker, Paged, Shows, FreshIsFresh
  <2> QED
    BY <2>1, <2>2, <2>3 DEF ShelfInv
<1>14. CASE \E o \in {"group", "sort", "source", "settings"} : OpenSheet(o)
  BY <1>13, <1>14 DEF OpenSheet
<1>15. ASSUME CloseSheet PROVE ShelfInv'
  BY <1>13, <1>15 DEF CloseSheet
<1>16. CASE OpenPicker
  <2>1. Stacked' /\ TrailIsTrue'
    BY <1>16, TrailStays DEF OpenPicker
  <2> QED
    BY <1>0, <1>16, <2>1, Redrawn DEF OpenPicker
<1>17. ASSUME picker, ClosePicker PROVE ShelfInv'
  <2>1. /\ picker' = FALSE /\ stale' = TRUE
        /\ UNCHANGED <<lib, view, group, sort, query, source, scopes, saved, tab, layout, page,
                       pages, entries, history, busy, fresh, trail>>
    BY <1>17 DEF ClosePicker
  <2>2. Stacked' /\ TrailIsTrue'
    BY <2>1, TrailStays
  <2>3. ShelfTypes'
    BY <2>1 DEF ShelfInv, ShelfTypes
  <2>4. NothingUnderThePicker' /\ Paged' /\ FreshIsFresh'
    BY <1>17, <2>1 DEF ShelfInv, NothingUnderThePicker, Paged, Shows, FreshIsFresh
  <2> QED
    BY <2>2, <2>3, <2>4 DEF ShelfInv
<1>18. ASSUME DrillBack PROVE ShelfInv'
  <2>1. Stacked' /\ TrailIsTrue' /\ Last(saved) \in Nat
    BY <1>18, BackKeepsTheTrail
  <2> QED
    BY <1>0, <1>18, <2>1, Rebuilt DEF DrillBack
<1>19. ASSUME LeaveSearch PROVE ShelfInv'
  <2>1. Stacked' /\ TrailIsTrue'
    BY <1>19, TrailStays DEF LeaveSearch
  <2> QED
    BY <1>0, <1>19, <2>1, Redrawn DEF LeaveSearch
<1>20. CASE PickFolder
  BY <1>17, <1>20 DEF PickFolder
<1>21. CASE Back
  BY <1>15, <1>17, <1>18, <1>19, <1>21 DEF Back
<1>22. CASE Home
  BY <1>18, <1>19, <1>22 DEF Home
<1>23. CASE UNCHANGED vars
  BY <1>13, <1>23 DEF vars
<1> QED
  BY <1>1, <1>2, <1>3, <1>4, <1>5, <1>6, <1>7, <1>9, <1>10, <1>11, <1>12, <1>14, <1>16, <1>20,
     <1>21, <1>22, <1>23 DEF Next

(* The shelf keeps its invariant (app/data.rs, input.rs, choosers.rs, search.rs), *)
(* for any table, any order, any sizes of a page.                          *)
THEOREM ShelfInvariant == Spec => []ShelfInv
<1>1. Init => ShelfInv
  BY BootsInOrder
<1>2. ShelfInv /\ [Next]_vars => ShelfInv'
  BY EveryStepKeeps
<1> QED
  BY <1>1, <1>2, PTL DEF Spec

(* app/data.rs refresh_shelf: on the library page the tiles that a tap is resolved *)
(* against are those of the page the pager names, and a page of a view that has *)
(* rows is never empty, after any sequence of handlers, rebuilds that the store *)
(* refuses, and changes of the table in between.                           *)
THEOREM TapsMeetTheirTiles == Spec => []PageShowsView
<1>1. ShelfInv => PageShowsView
  <2> SUFFICES ASSUME ShelfInv, Shows, view # <<>> PROVE entries # <<>>
    BY DEF ShelfInv, Paged, PageShowsView, Shows
  <2> DEFINE per == Per[layout]
             n == Len(view)
             m == Min({n, (page + 1) * per})
  <2>1. /\ page \in Nat /\ page < PagesOf(n, per) /\ Known(view)
        /\ entries = Slice(view, page, per)
    BY DEF ShelfInv, ShelfTypes, Paged
  <2>2. per \in Nat \ {0}
    BY ShelfAssumption DEF ShelfInv, ShelfTypes
  <2>3. n \in Nat /\ n > 0
    BY <2>1 DEF Known
  <2> HIDE DEF per, n
  <2>4. page * per < n
    BY <2>1, <2>2, <2>3, PagesCover
  <2>5. page * per \in Nat /\ (page + 1) * per \in Nat /\ page * per + per = (page + 1) * per
    BY <2>1, <2>2
  <2>6. m \in Nat /\ page * per + 1 <= m /\ m <= n
    BY <2>2, <2>3, <2>4, <2>5, MinOfTwo
  <2> DEFINE first == page * per + 1
  <2>7. first \in Nat \ {0} /\ first <= m
    BY <2>5, <2>6
  <2>8. entries = SubSeq(view, first, m)
    BY <2>1 DEF Slice, n
  <2> HIDE DEF first, m
  <2>9. \A i \in first..m : view[i] \in {view[j] : j \in DOMAIN view}
    BY <2>1, <2>6, <2>7 DEF Known, n
  <2>10. Len(SubSeq(view, first, m)) = m - first + 1
    BY <2>6, <2>7, <2>9, SubSeqProperties
  <2>11. Len(entries) # 0
    BY <2>6, <2>7, <2>8, <2>10
  <2> QED
    BY <2>11
<1> QED
  BY <1>1, ShelfInvariant, PTL

(* input.rs drill_back: leaving a group shows the tiles from which it was opened. *)
(* The page that is saved is within the view that is rebuilt, since nothing that *)
(* the view is made of has changed, so that refresh_shelf does not clip it. *)
THEOREM TheWayBack == Spec => BackReturns
<1> DEFINE Returns ==
      \A n \in 1..2 :
        n = Len(trail) /\ Len(trail') = n - 1 /\ scopes' = Front(scopes)
          /\ trail[n] # <<>> /\ busy' = busy /\ Body /\ tab = "library"
        => entries' = trail[n]
<1>1. ShelfInv /\ [Next]_vars => [Returns]_vars
  <2> SUFFICES ASSUME ShelfInv, Next, NEW n \in 1..2, n = Len(trail), Len(trail') = n - 1,
                      trail[n] # <<>>, busy' = busy, Body, tab = "library"
               PROVE  entries' = trail[n]
    BY DEF vars
  <2> USE DEF choice, screen, shown
  <2>1. trail' # trail
    OBVIOUS
  <2>2. Len(trail') # Len(trail)
    OBVIOUS
  <2>3. ~Forget
    <3> SUFFICES ASSUME Forget PROVE FALSE
      OBVIOUS
    <3>1. Len(trail) \in Nat /\ DOMAIN trail = 1..Len(trail)
      BY DEF ShelfInv, Stacked, Known
    <3>2. trail' = [i \in 1..Len(trail) |-> trail'[i]]
      BY <3>1 DEF Forget
    <3>3. Len(trail') = Len(trail)
      BY <3>1, <3>2, KnownFun
    <3> QED
      BY <2>2, <3>3
  <2>4. ASSUME NEW i, DrillIntoCard(i) PROVE FALSE
    <3>1. Len(trail') = Len(trail) + 1
      BY <2>4, KnownAppend DEF DrillIntoCard, ShelfInv, Stacked
    <3> QED
      BY <3>1
  <2>5. DrillBack
    BY <2>1, <2>3, <2>4
    DEF Next, LibraryChanges, SyncLands, GotoPage, SetGroup, SetSort, EnterSearch, CommitSearch,
        TypeSearch, TapSearchRow, ToggleLayout, ApplySource, OpenSheet, CloseSheet, OpenPicker,
        ClosePicker, PickFolder, Back, Home, LeaveSearch, Body, Open
  <2>6. /\ UNCHANGED <<lib, group, sort, query, source, tab, layout, picker, history>>
        /\ scopes' = Front(scopes) /\ Rebuild(Last(saved))
    BY <2>5 DEF DrillBack
  <2>7. /\ Last(saved) = saved[n] /\ saved[n] \in Nat
    BY DEF ShelfInv, Stacked, Last
  <2>8. /\ Settled(Last(saved))
        /\ view' = ViewOf(lib, group', sort', query', scopes', source')
    BY <2>6, <2>7, RebuildSettles DEF ShelfInv, ShelfTypes
  <2>9. scopes' = SubSeq(scopes, 1, n - 1)
    BY <2>6 DEF Front, ShelfInv, Stacked
  <2>10. view' = ViewOf(lib, group, sort, query, SubSeq(scopes, 1, n - 1), source)
    BY <2>6, <2>8, <2>9, Zenon
  <2>11. /\ saved[n] < PagesOf(Total(view', lib), Per[layout])
         /\ trail[n] = Slice(view', saved[n], Per[layout])
    BY <2>10 DEF ShelfInv, TrailIsTrue
  <2>12. Shows'
    BY <2>6, <2>8 DEF Shows, Settled, Body
  <2>13. /\ pages' = PagesOf(Total(view', lib), Per[layout])
         /\ page' = Min({saved[n], pages' - 1}) /\ pages' \in Nat
         /\ entries' = Slice(view', page', Per[layout])
    BY <2>6, <2>7, <2>8, <2>12 DEF Settled
  <2>14. page' = saved[n]
    <3> DEFINE k == saved[n]
               q == pages' - 1
    <3>1. k \in Nat /\ q \in Int /\ k <= q /\ page' = Min({k, q})
      BY <2>7, <2>11, <2>13
    <3> HIDE DEF k, q
    <3>2. Min({k, q}) = k
      BY <3>1, MinOfTwo
    <3> QED
      BY <3>1, <3>2 DEF k
  <2> QED
    BY <2>11, <2>13, <2>14
<1>2. Spec => [][Returns]_vars
  BY <1>1, ShelfInvariant, PTL DEF Spec
<1> QED
  BY <1>2 DEF BackReturns

---------------------------------------------------------------------------
(***************************************************************************)
(* The shelf shows every book once.  The rows of append_grouped stand for  *)
(* disjoint sets of books: a book that stands alone heads a row of its     *)
(* own, and of the others with a value the first in the order does, whose  *)
(* existence is the least-element argument of RowsCover; the order itself  *)
(* lists the books because as many places are taken as there are books     *)
(* (PlacesAreTaken).  A card opens what it counts because the scope it     *)
(* adds keeps exactly the books it stands for (OneLevelDown).              *)
(***************************************************************************)

(* There is a least among numbers.                                         *)
LEMMA LeastExists ==
  ASSUME NEW T \in SUBSET Nat, T # {}
  PROVE  \E x \in T : \A y \in T : x <= y
<1>1. PICK x \in T : \A y \in T : ~ (<<y, x>> \in OpToRel(<, Nat))
  BY NatLessThanWellFounded, WFMin, Zenon
<1>2. ASSUME NEW y \in T PROVE x <= y
  <2>1. ~ (y < x)
    BY <1>1 DEF OpToRel
  <2> QED
    BY <2>1
<1> QED
  BY <1>2

(* A list of the members of a set, each of them once.                      *)
Lists(e, S) ==
  /\ DOMAIN e = 1..Cardinality(S)
  /\ \A n \in DOMAIN e : e[n] \in S
  /\ \A x \in S : \E n \in DOMAIN e : e[n] = x
  /\ \A m, n \in DOMAIN e : e[m] = e[n] => m = n

(* The number of members before each member.                               *)
Places(S, P) == [x \in S |-> Cardinality({y \in S : P[y] < P[x]})]

(* The place of a member of a finite set, the number of those before it, is *)
(* its own, and every number below the size is the place of one: places    *)
(* are as many as members.                                                 *)
LEMMA PlacesAreTaken ==
  ASSUME NEW S, IsFiniteSet(S), NEW P \in [S -> Int],
         \A x, y \in S : P[x] = P[y] => x = y,
         NEW R, R = Places(S, P)
  PROVE  /\ R \in [S -> 0..Cardinality(S) - 1]
         /\ \A x, y \in S : R[x] = R[y] => x = y
         /\ \A n \in 1..Cardinality(S) : \E x \in S : R[x] = n - 1
<1> DEFINE Before(x) == {y \in S : P[y] < P[x]}
           T == 0..Cardinality(S) - 1
<1>1. Cardinality(S) \in Nat
  BY FS_CardinalityType
<1>2. ASSUME NEW x \in S
      PROVE  IsFiniteSet(Before(x)) /\ R[x] = Cardinality(Before(x)) /\ R[x] \in T
  <2>1. x \notin Before(x) /\ Before(x) \in SUBSET S /\ R[x] = Cardinality(Before(x))
    BY DEF Places
  <2> HIDE DEF Before
  <2>2. IsFiniteSet(Before(x)) /\ Cardinality(Before(x)) <= Cardinality(S)
        /\ Cardinality(Before(x)) # Cardinality(S)
    BY <2>1, FS_Subset
  <2>3. Cardinality(Before(x)) \in Nat
    BY <2>2, FS_CardinalityType
  <2> QED
    BY <1>1, <2>1, <2>2, <2>3
<1>3. ASSUME NEW x \in S, NEW y \in S, P[x] < P[y]
      PROVE  R[x] # R[y]
  <2>1. Before(x) \in SUBSET Before(y) /\ x \in Before(y) /\ x \notin Before(x)
    BY <1>3
  <2>2. IsFiniteSet(Before(y)) /\ R[x] = Cardinality(Before(x)) /\ R[y] = Cardinality(Before(y))
    BY <1>2
  <2> HIDE DEF Before
  <2> QED
    BY <2>1, <2>2, FS_Subset
<1>4. ASSUME NEW x \in S, NEW y \in S, R[x] = R[y] PROVE x = y
  <2>1. P[x] \in Int /\ P[y] \in Int
    OBVIOUS
  <2>2. ~(P[x] < P[y])
    BY ONLY <1>3, <1>4, x \in S, y \in S
  <2>3. ~(P[y] < P[x])
    BY ONLY <1>3, <1>4, x \in S, y \in S
  <2>4. P[x] = P[y]
    BY ONLY <2>1, <2>2, <2>3
  <2>5. \A a, b \in S : P[a] = P[b] => a = b
    OBVIOUS
  <2> QED
    BY ONLY <2>4, <2>5, x \in S, y \in S
<1>5. R \in [S -> T]
  <2>1. R = [x \in S |-> R[x]]
    BY DEF Places
  <2>2. \A x \in S : R[x] \in T
    BY <1>2
  <2> QED
    BY ONLY <2>1, <2>2
<1>6. IsFiniteSet(T) /\ Cardinality(T) = Cardinality(S)
  BY <1>1, FS_Interval
<1>7. ASSUME NEW n \in 1..Cardinality(S) PROVE \E x \in S : R[x] = n - 1
  <2>1. n - 1 \in T
    BY <1>1
  <2> HIDE DEF T
  <2>2. R \in Injection(S, T)
    BY <1>4, <1>5 DEF Injection, IsInjective
  <2>3. R \in Surjection(S, T)
    BY <1>6, <2>2, FS_Injection
  <2> QED
    BY <2>1, <2>3 DEF Surjection
<1>8. \A x, y \in S : R[x] = R[y] => x = y
  BY ONLY <1>4
<1>9. \A n \in 1..Cardinality(S) : \E x \in S : R[x] = n - 1
  BY ONLY <1>7
<1>10. R \in [S -> 0..Cardinality(S) - 1]
  BY ONLY <1>5
<1> QED
  BY ONLY <1>8, <1>9, <1>10, Zenon

(* Ranks that are all taken, each by one member, list the members.         *)
LEMMA ByRank ==
  ASSUME NEW S, NEW N \in Nat, N = Cardinality(S),
         NEW R \in [S -> 0..N - 1],
         \A x, y \in S : R[x] = R[y] => x = y,
         NEW e, DOMAIN e = 1..N, \A n \in 1..N : e[n] \in S /\ R[e[n]] = n - 1
  PROVE  Lists(e, S)
<1>1. \A n \in 1..N : e[n] \in S /\ R[e[n]] = n - 1
  OBVIOUS
<1>2. \A x, y \in S : R[x] = R[y] => x = y
  OBVIOUS
<1>3. ASSUME NEW x \in S PROVE \E n \in 1..N : e[n] = x
  <2>1. R[x] \in 0..N - 1
    OBVIOUS
  <2>2. R[x] + 1 \in 1..N /\ (R[x] + 1) - 1 = R[x]
    BY ONLY <2>1, N \in Nat
  <2>3. e[R[x] + 1] \in S /\ R[e[R[x] + 1]] = R[x]
    BY ONLY <1>1, <2>2
  <2>4. e[R[x] + 1] = x
    BY ONLY <1>2, <2>3, x \in S
  <2> QED
    BY ONLY <2>2, <2>4
<1>4. ASSUME NEW m \in 1..N, NEW n \in 1..N, e[m] = e[n] PROVE m = n
  <2>1. R[e[m]] = m - 1 /\ R[e[n]] = n - 1
    BY ONLY <1>1, m \in 1..N, n \in 1..N
  <2>2. m - 1 = n - 1 /\ m \in Int /\ n \in Int
    BY ONLY <1>4, <2>1, m \in 1..N, n \in 1..N, N \in Nat
  <2> QED
    BY ONLY <2>2
<1>5. DOMAIN e = 1..N
  OBVIOUS
<1>6. \A x \in S : \E n \in DOMAIN e : e[n] = x
  BY ONLY <1>3, <1>5
<1>7. \A m, n \in DOMAIN e : e[m] = e[n] => m = n
  BY ONLY <1>4, <1>5
<1>8. \A n \in DOMAIN e : e[n] \in S
  BY ONLY <1>1, <1>5
<1> QED
  BY <1>5, <1>6, <1>7, <1>8 DEF Lists

(* The members by their place are a list of them.                          *)
LEMMA ByPlace ==
  ASSUME NEW S, IsFiniteSet(S), NEW P \in [S -> Int],
         \A x, y \in S : P[x] = P[y] => x = y,
         NEW e, e = [n \in 1..Cardinality(S) |->
                       CHOOSE x \in S : Cardinality({y \in S : P[y] < P[x]}) = n - 1]
  PROVE  Lists(e, S)
<1>1. PICK R : R = Places(S, P)
  OBVIOUS
<1>2. /\ R \in [S -> 0..Cardinality(S) - 1]
      /\ \A x, y \in S : R[x] = R[y] => x = y
      /\ \A n \in 1..Cardinality(S) : \E x \in S : R[x] = n - 1
  BY <1>1, PlacesAreTaken
<1>3. \A x \in S : R[x] = Cardinality({y \in S : P[y] < P[x]})
  BY <1>1 DEF Places
<1>4. ASSUME NEW n \in 1..Cardinality(S) PROVE e[n] \in S /\ R[e[n]] = n - 1
  <2> DEFINE IsIt(x) == Cardinality({y \in S : P[y] < P[x]}) = n - 1
  <2>1. PICK x \in S : R[x] = n - 1
    BY <1>2
  <2>2. IsIt(x)
    BY <1>3, <2>1
  <2>3. e[n] = CHOOSE z \in S : IsIt(z)
    OBVIOUS
  <2> HIDE DEF IsIt
  <2>4. e[n] \in S /\ IsIt(e[n])
    BY <2>2, <2>3, x \in S, Zenon
  <2> QED
    BY <1>3, <2>4 DEF IsIt
<1>5. Cardinality(S) \in Nat
  BY FS_CardinalityType
<1>6. DOMAIN e = 1..Cardinality(S)
  OBVIOUS
<1>7. PICK N \in Nat : N = Cardinality(S)
  BY <1>5
<1>8. R \in [S -> 0..N - 1] /\ DOMAIN e = 1..N /\ (\A n \in 1..N : e[n] \in S /\ R[e[n]] = n - 1)
      /\ \A x, y \in S : R[x] = R[y] => x = y
  BY ONLY <1>2, <1>4, <1>6, <1>7
<1> QED
  BY ONLY <1>7, <1>8, ByRank

(* Books in a sort order are listed once each: every comparator ends in    *)
(* the id.                                                                 *)
LEMMA SortedLists ==
  ASSUME NEW S \in SUBSET Book, NEW s \in DOMAIN Order
  PROVE  Lists(Sorted(S, s), S) /\ IsFiniteSet(S)
<1> DEFINE P == [b \in S |-> Order[s][b]]
           e == Sorted(S, s)
<1>1. IsFiniteSet(S)
  BY ShelfAssumption, FS_Subset
<1>2. P \in [S -> Int] /\ \A x, y \in S : P[x] = P[y] => x = y
  <2>1. Order[s] \in [Book -> Int] /\ \A b, c \in Book : Order[s][b] = Order[s][c] => b = c
    BY ShelfAssumption
  <2>2. \A x \in S : x \in Book /\ P[x] = Order[s][x] /\ P[x] \in Int
    BY <2>1
  <2>3. P \in [S -> Int]
    BY <2>2
  <2> QED
    BY ONLY <2>1, <2>2, <2>3
<1>3. \A x \in S : {y \in S : P[y] < P[x]} = {y \in S : Order[s][y] < Order[s][x]}
  OBVIOUS
<1>4. e = [n \in 1..Cardinality(S) |->
             CHOOSE x \in S : Cardinality({y \in S : Order[s][y] < Order[s][x]}) = n - 1]
  BY DEF Sorted, InOrder
<1>5. e = [n \in 1..Cardinality(S) |->
             CHOOSE x \in S : Cardinality({y \in S : P[y] < P[x]}) = n - 1]
  BY <1>4
<1> HIDE DEF P, e
<1>6. Lists(e, S)
  BY <1>1, <1>2, <1>5, ByPlace
<1> QED
  BY <1>1, <1>6 DEF e

(* Numbers in their own order are listed once each.                        *)
LEMMA NumbersInOrder ==
  ASSUME NEW T \in SUBSET Int, IsFiniteSet(T)
  PROVE  Lists(InOrder(T, LAMBDA i : i), T)
<1> DEFINE P == [i \in T |-> i]
           e == InOrder(T, LAMBDA i : i)
<1>1. P \in [T -> Int] /\ \A x, y \in T : P[x] = P[y] => x = y
  OBVIOUS
<1>2. e = [n \in 1..Cardinality(T) |-> CHOOSE x \in T : Cardinality({y \in T : y < x}) = n - 1]
  BY DEF InOrder
<1>3. e = [n \in 1..Cardinality(T) |-> CHOOSE x \in T : Cardinality({y \in T : P[y] < P[x]}) = n - 1]
  BY <1>2
<1> HIDE DEF P, e
<1>4. Lists(e, T)
  BY <1>1, <1>3, ByPlace
<1> QED
  BY <1>4 DEF e

(* The members of S with the value of b.                                   *)
MatesOf(S, K, b) == {c \in S : K[c] = K[b]}

(* Those that stay tiles.                                                  *)
AloneIn(S, K, groupEmpty) ==
  {b \in S : (K[b] = "" /\ ~groupEmpty) \/ MatesOf(S, K, b) = {b}}

(* The places of s that make a row.                                        *)
HeadsIn(s, K, A) == {i \in DOMAIN s : s[i] \in A \/ \A j \in 1..(i - 1) : K[s[j]] # K[s[i]]}

(* The books of the row that b heads.                                      *)
RowOfHead(S, K, A, b) == IF b \in A THEN {b} ELSE MatesOf(S, K, b)

(* The rows that the places in H head: every book is on one.               *)
EachOnOneRow(S, K, A, s, H) ==
  /\ \A b \in S : \E n \in DOMAIN H : b \in RowOfHead(S, K, A, s[H[n]])
  /\ \A n \in DOMAIN H : RowOfHead(S, K, A, s[H[n]]) \subseteq S
  /\ \A m, n \in DOMAIN H :
       m # n => RowOfHead(S, K, A, s[H[m]]) \cap RowOfHead(S, K, A, s[H[n]]) = {}

(* The rows of append_grouped, with the values of the dimension as a       *)
(* function K: every book is on the row of the first book with its value,  *)
(* or, when it stands alone, on its own.                                   *)
LEMMA RowsCover ==
  ASSUME NEW S, NEW s, Lists(s, S), NEW len \in Nat, DOMAIN s = 1..len, NEW K, NEW groupEmpty,
         NEW A, A = AloneIn(S, K, groupEmpty), NEW H, Lists(H, HeadsIn(s, K, A))
  PROVE  EachOnOneRow(S, K, A, s, H)
<1>14. PICK Top : Top = HeadsIn(s, K, A)
  OBVIOUS
<1>15. PICK U : U = [n \in DOMAIN H |-> RowOfHead(S, K, A, s[H[n]])]
  OBVIOUS
<1>16. DOMAIN s \subseteq Nat /\ 0 \notin DOMAIN s /\ \A i \in DOMAIN s : 1..(i - 1) \subseteq DOMAIN s
  <2>1. 1..len \subseteq Nat /\ 0 \notin 1..len
    BY ONLY len \in Nat
  <2>2. \A i \in 1..len : 1..(i - 1) \subseteq 1..len
    BY ONLY len \in Nat
  <2> QED
    BY ONLY <2>1, <2>2, DOMAIN s = 1..len
<1>1. /\ \A i \in DOMAIN s : s[i] \in S
      /\ \A b \in S : \E i \in DOMAIN s : s[i] = b
      /\ \A i, j \in DOMAIN s : s[i] = s[j] => i = j
  BY DEF Lists
<1>2. /\ \A n \in DOMAIN H : H[n] \in Top
      /\ \A i \in Top : \E n \in DOMAIN H : H[n] = i
      /\ \A m, n \in DOMAIN H : H[m] = H[n] => m = n
  BY <1>14 DEF Lists
<1>13. /\ A = {b \in S : (K[b] = "" /\ ~groupEmpty) \/ {c \in S : K[c] = K[b]} = {b}}
       /\ Top = {i \in DOMAIN s : s[i] \in A \/ \A j \in 1..(i - 1) : K[s[j]] # K[s[i]]}
  BY <1>14 DEF AloneIn, HeadsIn, MatesOf
<1>3. \A n \in DOMAIN H : H[n] \in DOMAIN s /\ s[H[n]] \in S
  BY ONLY <1>1, <1>2, <1>13
<1>12. \A n \in DOMAIN H : U[n] = IF s[H[n]] \in A THEN {s[H[n]]} ELSE {c \in S : K[c] = K[s[H[n]]]}
  BY <1>15 DEF MatesOf, RowOfHead
<1>4. ASSUME NEW n \in DOMAIN H
      PROVE  U[n] \subseteq S /\ \A x \in U[n] : K[x] = K[s[H[n]]]
  <2>1. s[H[n]] \in S
    BY <1>3
  <2>2. U[n] = {s[H[n]]} \/ U[n] = {c \in S : K[c] = K[s[H[n]]]}
    BY ONLY <1>12, n \in DOMAIN H
  <2> QED
    BY ONLY <2>1, <2>2
<1>5. ASSUME NEW a \in A, NEW b \in S, K[a] = K[b], a # b PROVE b \in A
  <2>1. b \in {c \in S : K[c] = K[a]}
    BY ONLY <1>5
  <2>2. {c \in S : K[c] = K[a]} # {a}
    BY ONLY <1>5, <2>1
  <2>3. K[a] = "" /\ ~groupEmpty
    BY ONLY <1>13, <2>2, a \in A
  <2> QED
    BY ONLY <1>5, <1>13, <2>3
<1>6. ASSUME NEW b \in S PROVE \E n \in DOMAIN H : b \in U[n]
  <2>1. CASE b \in A
    <3>1. PICK i \in DOMAIN s : s[i] = b
      BY <1>1
    <3>2. PICK n \in DOMAIN H : H[n] = i
      <4>1. i \in Top
        BY ONLY <1>13, <2>1, <3>1, i \in DOMAIN s
      <4> QED
        BY ONLY <1>2, <4>1
    <3> QED
      BY ONLY <1>12, <2>1, <3>1, <3>2
  <2>2. CASE b \notin A
    <3> DEFINE T == {j \in DOMAIN s : K[s[j]] = K[b]}
    <3>1. T \in SUBSET Nat /\ T # {}
      BY <1>1
    <3>2. PICK j \in T : \A k \in T : j <= k
      BY ONLY <3>1, LeastExists
    <3>3. j \in DOMAIN s /\ s[j] \in S /\ K[s[j]] = K[b]
      BY <1>1
    <3>4. ASSUME NEW k \in 1..(j - 1) PROVE K[s[k]] # K[s[j]]
      <4>1. k \in DOMAIN s
        BY <3>3
      <4>4. j \in Nat
        BY <3>3
      <4>2. k < j /\ k \in Int
        BY ONLY <4>4, k \in 1..(j - 1)
      <4> HIDE DEF T
      <4>3. k \notin T
        BY ONLY <3>1, <3>2, <4>2, <4>4
      <4> QED
        BY <3>3, <4>1, <4>3 DEF T
    <3>5. j \in Top
      BY ONLY <1>13, <3>3, <3>4
    <3>6. s[j] \notin A
      <4>1. s[j] \in A /\ s[j] # b => FALSE
        BY ONLY <1>5, <2>2, <3>3, b \in S
      <4> QED
        BY <2>2, <4>1
    <3>7. PICK n \in DOMAIN H : H[n] = j
      BY <1>2, <3>5
    <3>8. b \in {c \in S : K[c] = K[s[j]]}
      BY <3>3
    <3> QED
      BY ONLY <1>12, <3>6, <3>7, <3>8
  <2> QED
    BY <2>1, <2>2
<1>7. ASSUME NEW m \in DOMAIN H, NEW n \in DOMAIN H, H[m] < H[n],
             s[H[n]] \notin A, K[s[H[m]]] = K[s[H[n]]]
      PROVE  FALSE
  <2>1. H[m] \in Nat /\ H[n] \in Nat /\ H[m] # 0
    BY <1>3
  <2>4. H[m] < H[n]
    BY ONLY <1>7
  <2>2. H[m] \in 1..(H[n] - 1)
    BY ONLY <2>1, <2>4
  <2>3. H[n] \in Top
    BY <1>2
  <2> QED
    BY ONLY <1>7, <1>13, <2>2, <2>3
<1>8. ASSUME NEW m \in DOMAIN H, NEW n \in DOMAIN H, m # n, NEW x \in U[m] \cap U[n] PROVE FALSE
  <2>1. x \in S /\ K[x] = K[s[H[m]]] /\ K[x] = K[s[H[n]]] /\ s[H[m]] \in S /\ s[H[n]] \in S
    BY <1>3, <1>4
  <2>2. H[m] # H[n] /\ s[H[m]] # s[H[n]]
    BY <1>1, <1>2, <1>3, <1>8
  <2>3. H[m] \in Nat /\ H[n] \in Nat
    BY <1>3
  <2>4. s[H[m]] \in A <=> s[H[n]] \in A
    BY ONLY <1>5, <2>1, <2>2
  <2>5. CASE s[H[m]] \in A
    <3>1. U[m] = {s[H[m]]} /\ U[n] = {s[H[n]]}
      BY ONLY <1>12, <2>4, <2>5, m \in DOMAIN H, n \in DOMAIN H
    <3> QED
      BY ONLY <1>8, <2>2, <3>1
  <2>6. CASE s[H[m]] \notin A
    <3>1. H[m] < H[n] \/ H[n] < H[m]
      BY ONLY <2>2, <2>3
    <3> QED
      BY ONLY <1>7, <2>1, <2>4, <2>6, <3>1, m \in DOMAIN H, n \in DOMAIN H
  <2> QED
    BY <2>5, <2>6
<1>9. \A n \in DOMAIN H : U[n] = RowOfHead(S, K, A, s[H[n]])
  BY ONLY <1>15
<1> QED
  BY ONLY <1>4, <1>6, <1>8, <1>9 DEF EachOnOneRow

(* The books a row stands for, at a level of a grouping.                   *)
Stands(r, S, g, level) ==
  IF r.kind = "book" THEN {r.book} ELSE {b \in S : DimKey(b, g, level) = r.scope}

(* A sequence of rows that stand for the books of S, for each on one row,  *)
(* and say for how many.                                                   *)
Whole(v, S, g, level) ==
  /\ v \in Seq(ViewRow)
  /\ UNION {Stands(v[i], S, g, level) : i \in DOMAIN v} = S
  /\ \A i, j \in DOMAIN v : i # j => Stands(v[i], S, g, level) \cap Stands(v[j], S, g, level) = {}
  /\ \A i \in DOMAIN v : v[i].count = Cardinality(Stands(v[i], S, g, level))

(* A set of books with one in it counts at least one, at most all of them.  *)
LEMMA CountsAreCounts ==
  ASSUME NEW S \in SUBSET Book, NEW b \in S
  PROVE  IsFiniteSet(S) /\ Cardinality(S) \in 1..Cardinality(Book)
<1>1. IsFiniteSet(Book)
  BY ShelfAssumption
<1>2. IsFiniteSet(S) /\ Cardinality(S) <= Cardinality(Book)
  BY <1>1, FS_Subset
<1>3. Cardinality(S) \in Nat /\ Cardinality(Book) \in Nat
  BY <1>1, <1>2, FS_CardinalityType
<1>4. Cardinality(S) # 0
  BY <1>2, FS_EmptySet
<1> QED
  BY <1>2, <1>3, <1>4

(* A tile is a row for its book.                                           *)
LEMMA TilesAreRows ==
  ASSUME NEW b \in Book, NEW S, NEW g, NEW level
  PROVE  /\ Tile(b) \in ViewRow
         /\ Stands(Tile(b), S, g, level) = {b}
         /\ Tile(b).count = Cardinality({b})
<1>1. Cardinality({b}) = 1
  BY FS_Singleton
<1>2. 1 \in 1..Cardinality(Book)
  <2>1. {b} \in SUBSET Book /\ b \in {b}
    OBVIOUS
  <2>2. Cardinality({b}) \in 1..Cardinality(Book)
    BY <2>1, CountsAreCounts
  <2> QED
    BY <1>1, <2>2
<1>3. Tile(b) \in ViewRow
  <2> DEFINE N == 1..Cardinality(Book)
  <2> HIDE DEF N
  <2>1. 1 \in N
    BY <1>2 DEF N
  <2>3. "" \in Scope /\ "book" \in {"book", "card"}
    BY DEF Scope
  <2>2. Tile(b) \in [kind : {"book", "card"}, book : Book, scope : Scope, count : N]
    BY <2>1, <2>3 DEF Tile
  <2> QED
    BY <2>2 DEF ViewRow, N
<1>4. Tile(b).count = 1 /\ Tile(b).kind = "book" /\ Tile(b).book = b
  BY DEF Tile
<1>5. Stands(Tile(b), S, g, level) = {b}
  BY <1>4 DEF Stands
<1> QED
  BY <1>1, <1>3, <1>4, <1>5

(* A card is a row for the books with its value.                           *)
LEMMA CardsAreRows ==
  ASSUME NEW S \in SUBSET Book, NEW g, NEW level, NEW b \in S, NEW k \in Scope,
         NEW M, M = {c \in S : DimKey(c, g, level) = k}, b \in M
  PROVE  /\ Card(b, k, Cardinality(M)) \in ViewRow
         /\ Stands(Card(b, k, Cardinality(M)), S, g, level) = M
         /\ Card(b, k, Cardinality(M)).count = Cardinality(M)
<1>1. M \in SUBSET Book
  OBVIOUS
<1>2. Cardinality(M) \in 1..Cardinality(Book)
  BY <1>1, CountsAreCounts
<1> DEFINE n == Cardinality(M)
<1> HIDE DEF n
<1>3. n \in 1..Cardinality(Book)
  BY <1>2 DEF n
<1>4. /\ Card(b, k, n) \in ViewRow
      /\ Card(b, k, n).count = n /\ Card(b, k, n).kind = "card" /\ Card(b, k, n).scope = k
  BY <1>3 DEF Card, ViewRow
<1>5. Stands(Card(b, k, n), S, g, level) = M
  BY <1>4 DEF Stands
<1> QED
  BY <1>4, <1>5 DEF n

(* Rows at places are a sequence of rows.                                  *)
LEMMA RowsAreWhole ==
  ASSUME NEW k \in Nat, NEW v, v = [n \in 1..k |-> v[n]],
         NEW S, NEW g, NEW level, NEW U,
         \A n \in 1..k : /\ v[n] \in ViewRow
                         /\ Stands(v[n], S, g, level) = U[n]
                         /\ v[n].count = Cardinality(U[n]),
         UNION {U[n] : n \in 1..k} = S,
         \A m, n \in 1..k : m # n => U[m] \cap U[n] = {}
  PROVE  Whole(v, S, g, level)
<1>1. DOMAIN v = 1..k
  OBVIOUS
<1>2. v \in Seq(ViewRow)
  <2>1. v \in [1..k -> ViewRow]
    <3>1. \A n \in 1..k : v[n] \in ViewRow
      OBVIOUS
    <3> QED
      BY ONLY <3>1, v = [n \in 1..k |-> v[n]]
  <2> QED
    BY ONLY <2>1, k \in Nat
<1>3. UNION {Stands(v[i], S, g, level) : i \in DOMAIN v} = S
  <2>1. {Stands(v[i], S, g, level) : i \in DOMAIN v} = {U[n] : n \in 1..k}
    BY <1>1
  <2> QED
    BY <2>1
<1>4. \A i, j \in DOMAIN v : i # j => Stands(v[i], S, g, level) \cap Stands(v[j], S, g, level) = {}
  BY <1>1
<1>5. \A i \in DOMAIN v : v[i].count = Cardinality(Stands(v[i], S, g, level))
  BY <1>1
<1> QED
  BY <1>2, <1>3, <1>4, <1>5 DEF Whole

(* append_flat shows every book on a tile of its own.                      *)
LEMMA FlatIsWhole ==
  ASSUME NEW S \in SUBSET Book, NEW o \in DOMAIN Order, NEW g, NEW level
  PROVE  /\ Whole(Flat(Sorted(S, o)), S, g, level)
         /\ \A i \in DOMAIN Flat(Sorted(S, o)) : Flat(Sorted(S, o))[i].kind = "book"
<1>0. ASSUME NEW b \in Book
      PROVE  /\ Tile(b) \in ViewRow /\ Stands(Tile(b), S, g, level) = {b}
             /\ Tile(b).count = Cardinality({b})
  BY ONLY TilesAreRows, b \in Book
<1> DEFINE s == Sorted(S, o)
           v == Flat(s)
           U == [n \in 1..Len(s) |-> {s[n]}]
<1>1. Lists(s, S) /\ IsFiniteSet(S)
  BY SortedLists
<1>2. Len(s) \in Nat /\ DOMAIN s = 1..Len(s)
  BY <1>1, OrderIsKnown DEF Known
<1>3. v = [n \in 1..Len(s) |-> Tile(s[n])]
  BY DEF Flat
<1> HIDE DEF s, v
<1>4. v = [n \in 1..Len(s) |-> v[n]] /\ DOMAIN v = 1..Len(s)
  BY <1>3
<1>5. \A n \in 1..Len(s) : s[n] \in S /\ v[n] = Tile(s[n]) /\ U[n] = {s[n]}
  BY <1>1, <1>2, <1>3 DEF Lists
<1>6. ASSUME NEW n \in 1..Len(s)
      PROVE  /\ v[n] \in ViewRow /\ Stands(v[n], S, g, level) = U[n]
             /\ v[n].count = Cardinality(U[n]) /\ v[n].kind = "book"
  <2>1. s[n] \in Book /\ v[n] = Tile(s[n]) /\ U[n] = {s[n]}
    BY <1>5
  <2>2. Tile(s[n]).kind = "book"
    BY DEF Tile
  <2> HIDE DEF U
  <2>3. /\ Tile(s[n]) \in ViewRow /\ Stands(Tile(s[n]), S, g, level) = {s[n]}
        /\ Tile(s[n]).count = Cardinality({s[n]})
    BY ONLY <1>0, <2>1
  <2> QED
    BY ONLY <2>1, <2>2, <2>3
<1>7. UNION {U[n] : n \in 1..Len(s)} = S
  <2>1. ASSUME NEW b \in S PROVE \E n \in 1..Len(s) : b \in U[n]
    <3>1. PICK n \in 1..Len(s) : s[n] = b
      BY <1>1, <1>2 DEF Lists
    <3> QED
      BY <1>5, <3>1
  <2>2. \A n \in 1..Len(s) : U[n] \subseteq S
    BY <1>5
  <2> HIDE DEF U
  <2> QED
    BY ONLY <2>1, <2>2
<1>8. \A m, n \in 1..Len(s) : m # n => U[m] \cap U[n] = {}
  BY <1>1, <1>2, <1>5 DEF Lists
<1> HIDE DEF U
<1>9. Whole(v, S, g, level)
  BY <1>2, <1>4, <1>6, <1>7, <1>8, RowsAreWhole
<1> QED
  BY <1>4, <1>6, <1>9 DEF v, s

(* The rows of append_grouped stand for the books, each once: with the     *)
(* values in K, the tiles in A and the first places of each row in H.      *)
LEMMA RowsStand ==
  ASSUME NEW S \in SUBSET Book, NEW g, NEW level, NEW groupEmpty,
         NEW s, Lists(s, S), NEW j \in Nat, DOMAIN s = 1..j,
         NEW K, \A b \in S : K[b] = DimKey(b, g, level) /\ K[b] \in Scope,
         NEW A, A = AloneIn(S, K, groupEmpty),
         NEW H, Lists(H, HeadsIn(s, K, A)), NEW k \in Nat, DOMAIN H = 1..k,
         NEW v, v = [n \in 1..k |-> v[n]],
         \A n \in 1..k :
           v[n] = IF s[H[n]] \in A THEN Tile(s[H[n]])
                  ELSE Card(s[H[n]], K[s[H[n]]], Cardinality(MatesOf(S, K, s[H[n]])))
  PROVE  Whole(v, S, g, level)
<1>1. PICK U : U = [n \in 1..k |-> RowOfHead(S, K, A, s[H[n]])]
  OBVIOUS
<1>2. \A n \in 1..k : U[n] = RowOfHead(S, K, A, s[H[n]])
  BY ONLY <1>1
<1>3. \A n \in 1..k : U[n] = IF s[H[n]] \in A THEN {s[H[n]]} ELSE MatesOf(S, K, s[H[n]])
  BY <1>2 DEF RowOfHead
<1>4. EachOnOneRow(S, K, A, s, H)
  BY ONLY Lists(s, S), j \in Nat, DOMAIN s = 1..j, A = AloneIn(S, K, groupEmpty),
          Lists(H, HeadsIn(s, K, A)), RowsCover
<1>5. /\ \A b \in S : \E n \in 1..k : b \in U[n]
      /\ \A n \in 1..k : U[n] \subseteq S
  BY ONLY <1>2, <1>4, DOMAIN H = 1..k DEF EachOnOneRow
<1>6. UNION {U[n] : n \in 1..k} = S
  BY ONLY <1>5
<1>7. \A n \in 1..k : s[H[n]] \in S
  <2>1. \A i \in DOMAIN s : s[i] \in S
    BY DEF Lists
  <2>2. \A n \in DOMAIN H : H[n] \in DOMAIN s
    BY DEF Lists, HeadsIn
  <2> QED
    BY <2>1, <2>2
<1>8. ASSUME NEW n \in 1..k
      PROVE  /\ v[n] \in ViewRow /\ Stands(v[n], S, g, level) = U[n]
             /\ v[n].count = Cardinality(U[n])
  <2>1. PICK b \in S : b = s[H[n]]
    BY <1>7
  <2>2. /\ U[n] = IF b \in A THEN {b} ELSE MatesOf(S, K, b)
        /\ v[n] = IF b \in A THEN Tile(b) ELSE Card(b, K[b], Cardinality(MatesOf(S, K, b)))
    BY <1>3, <2>1, Zenon
  <2>3. CASE b \in A
    <3>1. b \in Book
      OBVIOUS
    <3>2. /\ Tile(b) \in ViewRow /\ Stands(Tile(b), S, g, level) = {b}
          /\ Tile(b).count = Cardinality({b})
      BY ONLY <3>1, TilesAreRows
    <3> QED
      BY ONLY <2>2, <2>3, <3>2
  <2>4. CASE b \notin A
    <3>1. PICK M : M = MatesOf(S, K, b)
      OBVIOUS
    <3>2. M = {c \in S : DimKey(c, g, level) = K[b]} /\ b \in M /\ K[b] \in Scope
      BY <3>1 DEF MatesOf
    <3>3. /\ Card(b, K[b], Cardinality(M)) \in ViewRow
          /\ Stands(Card(b, K[b], Cardinality(M)), S, g, level) = M
          /\ Card(b, K[b], Cardinality(M)).count = Cardinality(M)
      BY ONLY <3>2, CardsAreRows, S \in SUBSET Book, b \in S
    <3> QED
      BY ONLY <2>2, <2>4, <3>1, <3>3
  <2> QED
    BY ONLY <2>3, <2>4
<1>9. \A m, n \in 1..k : m # n => U[m] \cap U[n] = {}
  BY ONLY <1>2, <1>4, DOMAIN H = 1..k DEF EachOnOneRow
<1> QED
  BY ONLY <1>6, <1>8, <1>9, RowsAreWhole, k \in Nat, v = [n \in 1..k |-> v[n]]

(* append_grouped shows every book on a tile of its own or on the card of  *)
(* its value.                                                              *)
LEMMA GroupedIsWhole ==
  ASSUME NEW S \in SUBSET Book, NEW o \in DOMAIN Order, NEW g, NEW level,
         NEW groupEmpty, \A b \in S : DimKey(b, g, level) \in Scope
  PROVE  Whole(Grouped(Sorted(S, o), g, level, groupEmpty), S, g, level)
<1>1. PICK s : s = Sorted(S, o)
  OBVIOUS
<1>2. Lists(s, S) /\ IsFiniteSet(S)
  BY <1>1, SortedLists
<1>3. Len(s) \in Nat /\ DOMAIN s = 1..Len(s)
  BY <1>1, <1>2, OrderIsKnown DEF Known
<1>4. ToSet(s) = S
  BY <1>2 DEF ToSet, Lists
<1>5. PICK K : K = [b \in S |-> DimKey(b, g, level)]
  OBVIOUS
<1>6. \A b \in S : K[b] = DimKey(b, g, level) /\ K[b] \in Scope
  BY <1>5
<1>7. PICK A : A = AloneIn(S, K, groupEmpty)
  OBVIOUS
<1> DEFINE KeyOf(b) == DimKey(b, g, level)
           Members(b) == {c \in ToSet(s) : KeyOf(c) = KeyOf(b)}
           Alone(b) == (KeyOf(b) = "" /\ ~groupEmpty) \/ Members(b) = {b}
           Top == {i \in DOMAIN s : Alone(s[i]) \/ \A j \in 1..(i - 1) : KeyOf(s[j]) # KeyOf(s[i])}
           Heads == InOrder(Top, LAMBDA i : i)
           RowOf(b) == IF Alone(b) THEN Tile(b)
                       ELSE Card(b, KeyOf(b), Cardinality(Members(b)))
<1>8. Grouped(s, g, level, groupEmpty) = [n \in 1..Len(Heads) |-> RowOf(s[Heads[n]])]
  BY DEF Grouped
<1>9. \A b \in S : Members(b) = MatesOf(S, K, b) /\ KeyOf(b) = K[b] /\ (Alone(b) <=> b \in A)
  <2>1. \A b \in S : Members(b) = MatesOf(S, K, b)
    BY <1>4, <1>6 DEF MatesOf
  <2> HIDE DEF Members
  <2>2. \A b \in S : KeyOf(b) = K[b] /\ (b \in A <=> (K[b] = "" /\ ~groupEmpty) \/ MatesOf(S, K, b) = {b})
    BY <1>6, <1>7 DEF AloneIn
  <2> QED
    BY <2>1, <2>2
<1> HIDE DEF KeyOf, Members, Alone
<1>10. Top = HeadsIn(s, K, A)
  <2>1. \A i \in DOMAIN s : s[i] \in S
    BY <1>2 DEF Lists
  <2>2. \A i \in DOMAIN s : \A j \in 1..(i - 1) : j \in DOMAIN s
    BY <1>3
  <2> QED
    BY <1>9, <2>1, <2>2 DEF HeadsIn
<1>11. IsFiniteSet(Top) /\ Top \in SUBSET Int
  <2>1. IsFiniteSet(DOMAIN s)
    BY <1>3, FS_Interval
  <2>2. Top \subseteq DOMAIN s
    OBVIOUS
  <2> HIDE DEF Top
  <2> QED
    BY <1>3, <2>1, <2>2, FS_Subset
<1>12. PICK H : H = Heads
  OBVIOUS
<1> HIDE DEF Top
<1>13. Lists(H, Top)
  BY <1>11, <1>12, NumbersInOrder
<1>14. Cardinality(Top) \in Nat
  BY <1>11, FS_CardinalityType
<1>15. DOMAIN H = 1..Cardinality(Top)
  BY <1>13 DEF Lists
<1>16. H = [n \in 1..Cardinality(Top) |-> H[n]]
  <2> DEFINE F(n) == CHOOSE x \in Top : Cardinality({y \in Top : y < x}) = n - 1
  <2>1. H = [n \in 1..Cardinality(Top) |-> F(n)]
    BY <1>12 DEF InOrder
  <2> HIDE DEF F
  <2> QED
    BY ONLY <2>1
<1>17. Len(H) = Cardinality(Top)
  BY <1>14, <1>16, KnownFun
<1>18. PICK k \in Nat : k = Len(H) /\ DOMAIN H = 1..k
  BY <1>14, <1>15, <1>17
<1>19. PICK v : v = Grouped(s, g, level, groupEmpty)
  OBVIOUS
<1>20. v = [n \in 1..k |-> RowOf(s[H[n]])]
  BY <1>8, <1>12, <1>18, <1>19, Zenon
<1> HIDE DEF Heads
<1>21. ASSUME NEW n \in 1..k
       PROVE v[n] = IF s[H[n]] \in A THEN Tile(s[H[n]])
                    ELSE Card(s[H[n]], K[s[H[n]]], Cardinality(MatesOf(S, K, s[H[n]])))
  <2>1. s[H[n]] \in S
    BY <1>2, <1>10, <1>13, <1>18 DEF Lists, HeadsIn
  <2>2. v[n] = RowOf(s[H[n]])
    BY <1>20
  <2> QED
    BY <1>9, <2>1, <2>2
<1>22. v = [n \in 1..k |-> v[n]]
  BY ONLY <1>20
<1>23. Lists(H, HeadsIn(s, K, A))
  BY <1>10, <1>13
<1>24. PICK j \in Nat : DOMAIN s = 1..j
  BY <1>3
<1>25. Whole(v, S, g, level)
  BY ONLY <1>2, <1>6, <1>7, <1>18, <1>21, <1>22, <1>23, <1>24, RowsStand, S \in SUBSET Book
<1> QED
  BY ONLY <1>1, <1>19, <1>25

(* What the group sheet offers (choosers.rs).                               *)
Groupings == {"none", "author", "authorseries"}

(* The values of a dimension are scopes.                                   *)
LEMMA KeysAreScopes ==
  ASSUME NEW b \in Book, NEW g \in Groupings, NEW level
  PROVE  DimKey(b, g, level) \in Scope
<1>1. {"author", "series"} \subseteq DOMAIN Dim
  BY ShelfAssumption
<1>2. "" \in Scope /\ Dim["author"][b] \in Scope /\ Dim["series"][b] \in Scope
  <2>1. \A d \in DOMAIN Dim : Dim[d][b] \in Scope
    <3>1. SUFFICES ASSUME NEW d \in DOMAIN Dim PROVE Dim[d][b] \in Scope
      OBVIOUS
    <3>2. Dim[d][b] \in {Dim[d][x] : x \in Book}
      OBVIOUS
    <3> QED
      BY <3>2, Zenon DEF Scope
  <2>2. "" \in Scope
    BY DEF Scope
  <2> QED
    BY <1>1, <2>1, <2>2
<1>3. \/ DimKey(b, g, level) = "" \/ DimKey(b, g, level) = Dim["author"][b]
      \/ DimKey(b, g, level) = Dim["series"][b]
  BY DEF DimKey, Groupings
<1> QED
  BY <1>2, <1>3

(* The scan never invents a row, and below its cap it misses none.         *)
LEMMA ScanIsComplete ==
  ASSUME NEW l \in SUBSET Book
  PROVE  Scanned(l) \subseteq l /\ (Cardinality(l) <= ScanCap => Scanned(l) = l)
<1>1. "recent" \in DOMAIN Order /\ IsFiniteSet(l) /\ ScanCap \in Nat
  <2>1. {"title", "recent"} \subseteq DOMAIN Order /\ IsFiniteSet(Book) /\ ScanCap \in Nat
    BY ShelfAssumption
  <2>2. IsFiniteSet(l)
    BY ONLY <2>1, FS_Subset, l \in SUBSET Book
  <2> QED
    BY ONLY <2>1, <2>2
<1>2. PICK r : r = Sorted(l, "recent")
  OBVIOUS
<1>3. Lists(r, l) /\ Known(r) /\ Len(r) = Cardinality(l) /\ DOMAIN r = 1..Len(r) /\ Len(r) \in Nat
  BY <1>1, <1>2, SortedLists, OrderIsKnown, FS_CardinalityType
<1>4. PICK k : k = Min({ScanCap, Len(r)})
  OBVIOUS
<1>5. k \in Nat /\ k <= Len(r) /\ (Len(r) <= ScanCap => k = Len(r))
  BY ONLY <1>1, <1>3, <1>4, MinOfTwo, \A i \in Nat : i \in Int
<1>6. Scanned(l) = ToSet(SubSeq(r, 1, k))
  BY <1>2, <1>3, <1>4, Zenon DEF Scanned
<1>7. \A i \in 1..k : r[i] \in l
  BY <1>3, <1>5 DEF Lists
<1>8. /\ SubSeq(r, 1, k) \in Seq(l)
  BY ONLY <1>5, <1>7, SubSeqProperties, 1 \in Int, k \in Int
<1>9. Scanned(l) \subseteq l
  BY <1>6, <1>8 DEF ToSet
<1>10. ASSUME Len(r) <= ScanCap PROVE Scanned(l) = l
  <2>1. SubSeq(r, 1, k) = r
    BY <1>3, <1>5, <1>10, WholePrefix
  <2>2. Scanned(l) = ToSet(r)
    BY <1>6, <2>1, Zenon
  <2> QED
    BY <1>3, <2>2 DEF Lists, ToSet
<1> QED
  BY <1>3, <1>9, <1>10

(* One more level of groups keeps the books of the group.                  *)
LEMMA OneLevelDown ==
  ASSUME NEW S, NEW g, NEW sc, Known(sc), Len(sc) < 2, NEW k
  PROVE  /\ Pinned(S, g, <<>>) = S
         /\ Pinned(S, g, Append(sc, k)) = {b \in Pinned(S, g, sc) : DimKey(b, g, Len(sc)) = k}
<1>1. Len(sc) \in Nat
  BY DEF Known
<1>2. PICK n \in Nat : n = Len(sc) /\ n < 2
  BY <1>1
<1>3. Min({0, 2}) = 0 /\ Min({n, 2}) = n /\ Min({n + 1, 2}) = n + 1
  BY <1>2, MinOfTwo
<1>4. PICK d : d = Append(sc, k)
  OBVIOUS
<1>5. Len(d) = n + 1 /\ d[n + 1] = k /\ \A i \in 1..n : d[i] = sc[i]
  BY <1>2, <1>4, KnownAppend
<1>6. PICK e : e = <<>> /\ Len(e) = 0
  BY KnownEmpty
<1>7. Pinned(S, g, <<>>) = S
  <2>1. Pinned(S, g, e) = {b \in S : \A i \in 1..0 : DimKey(b, g, i - 1) = e[i]}
    BY <1>3, <1>6 DEF Pinned
  <2>2. \A i : i \notin 1..0
    OBVIOUS
  <2>3. Pinned(S, g, e) = S
    BY ONLY <2>1, <2>2
  <2> QED
    BY ONLY <1>6, <2>3
<1>8. /\ Pinned(S, g, sc) = {b \in S : \A i \in 1..n : DimKey(b, g, i - 1) = sc[i]}
      /\ Pinned(S, g, d) = {b \in S : \A i \in 1..n + 1 : DimKey(b, g, i - 1) = d[i]}
  BY <1>2, <1>3, <1>5 DEF Pinned
<1>9. \A b \in S : (\A i \in 1..n + 1 : DimKey(b, g, i - 1) = d[i])
                     <=> (\A i \in 1..n : DimKey(b, g, i - 1) = sc[i]) /\ DimKey(b, g, n) = k
  <2>1. \A i : i \in 1..n + 1 <=> i \in 1..n \/ i = n + 1
    BY <1>2
  <2>2. (n + 1) - 1 = n
    BY <1>2
  <2> QED
    BY ONLY <1>5, <2>1, <2>2
<1>10. Pinned(S, g, d) = {b \in Pinned(S, g, sc) : DimKey(b, g, n) = k}
  <2> DEFINE In(b) == \A i \in 1..n : DimKey(b, g, i - 1) = sc[i]
             Deeper(b) == \A i \in 1..n + 1 : DimKey(b, g, i - 1) = d[i]
  <2>1. Pinned(S, g, sc) = {b \in S : In(b)} /\ Pinned(S, g, d) = {b \in S : Deeper(b)}
    BY ONLY <1>8
  <2>2. \A b \in S : Deeper(b) <=> In(b) /\ DimKey(b, g, n) = k
    BY ONLY <1>9
  <2> HIDE DEF In, Deeper
  <2> QED
    BY ONLY <2>1, <2>2
<1> QED
  BY ONLY <1>2, <1>4, <1>7, <1>10

(* The books a view is made of: all of the source without group or search, *)
(* else those the scan has and the groups and the search leave.            *)
MadeOf(l, g, q, sc, src) ==
  IF g = "none" /\ sc = <<>> /\ q = "" THEN {b \in l : SourceOf[b] = src}
  ELSE Pinned({b \in Scanned(l) : SourceOf[b] = src /\ b \in Matching[q]}, g, sc)

(* view_rebuild puts every one of these books on one row.                  *)
LEMMA ViewIsWhole ==
  ASSUME NEW l \in SUBSET Book, NEW g \in Groupings, NEW o \in DOMAIN Order, NEW q,
         NEW sc, Known(sc), Len(sc) <= 2, NEW src
  PROVE  /\ Whole(ViewOf(l, g, o, q, sc, src), MadeOf(l, g, q, sc, src), g, Len(sc))
         /\ g = "none" /\ sc = <<>> /\ q = "" =>
              \A i \in DOMAIN ViewOf(l, g, o, q, sc, src) :
                ViewOf(l, g, o, q, sc, src)[i].kind = "book"
<1>1. PICK all : all = {b \in l : SourceOf[b] = src}
  OBVIOUS
<1>2. PICK found : found = {b \in Scanned(l) : SourceOf[b] = src /\ b \in Matching[q]}
  OBVIOUS
<1>3. PICK deep : deep = Pinned(found, g, sc)
  OBVIOUS
<1>4. PICK level : level = Min({Len(sc), 2})
  OBVIOUS
<1>5. level = Len(sc)
  BY <1>4, MinOfTwo DEF Known
<1>6. all \in SUBSET Book /\ found \in SUBSET Book /\ deep \in SUBSET Book
  <2>1. Scanned(l) \subseteq Book
    BY ScanIsComplete
  <2>2. deep \subseteq found
    BY <1>3 DEF Pinned
  <2> QED
    BY <1>1, <1>2, <2>1, <2>2
<1>7. PICK v : v = ViewOf(l, g, o, q, sc, src)
  OBVIOUS
<1>8. v = IF g = "none" /\ sc = <<>> /\ q = ""
          THEN Flat(Sorted(all, o))
          ELSE IF sc # <<>>
               THEN IF level < Levels(g) THEN Grouped(Sorted(deep, o), g, level, FALSE)
                    ELSE Flat(Sorted(deep, o))
               ELSE IF g # "none" THEN Grouped(Sorted(found, o), g, 0, TRUE)
                    ELSE Flat(Sorted(found, o))
  BY <1>1, <1>2, <1>3, <1>4, <1>7, Zenon DEF ViewOf
<1>9. PICK S : S = MadeOf(l, g, q, sc, src)
  OBVIOUS
<1>10. S = IF g = "none" /\ sc = <<>> /\ q = "" THEN all ELSE deep
  BY <1>1, <1>2, <1>3, <1>9, Zenon DEF MadeOf
<1>11. sc = <<>> => deep = found /\ Len(sc) = 0
  BY <1>3, KnownEmpty, OneLevelDown
<1>12. \A T \in SUBSET Book :
         /\ Whole(Flat(Sorted(T, o)), T, g, Len(sc))
         /\ \A i \in DOMAIN Flat(Sorted(T, o)) : Flat(Sorted(T, o))[i].kind = "book"
  BY FlatIsWhole
<1>13. ASSUME NEW T \in SUBSET Book, NEW e PROVE Whole(Grouped(Sorted(T, o), g, Len(sc), e), T, g, Len(sc))
  <2>1. \A b \in T : DimKey(b, g, Len(sc)) \in Scope
    BY KeysAreScopes
  <2> QED
    BY <2>1, GroupedIsWhole
<1>14. Whole(v, S, g, Len(sc))
  <2>1. CASE g = "none" /\ sc = <<>> /\ q = ""
    BY ONLY <1>6, <1>8, <1>10, <1>12, <2>1
  <2>2. CASE ~(g = "none" /\ sc = <<>> /\ q = "") /\ sc # <<>>
    BY ONLY <1>5, <1>6, <1>8, <1>10, <1>12, <1>13, <2>2
  <2>3. CASE ~(g = "none" /\ sc = <<>> /\ q = "") /\ sc = <<>>
    BY ONLY <1>6, <1>8, <1>10, <1>11, <1>12, <1>13, <2>3
  <2> QED
    BY ONLY <2>1, <2>2, <2>3
<1>15. g = "none" /\ sc = <<>> /\ q = "" => \A i \in DOMAIN v : v[i].kind = "book"
  BY ONLY <1>6, <1>8, <1>12
<1> QED
  BY ONLY <1>7, <1>9, <1>14, <1>15

(* The choices of the reader are choices the view engine has.              *)
ChoicesKnown == group \in Groupings /\ sort \in DOMAIN Order /\ Len(scopes) <= 2

(* The view is made of rows, also one that was made of other books.        *)
Rows == view \in Seq(ViewRow) /\ busy \in 0..MaxBusy

(* The page is one of the pages.                                           *)
OnPage == picker \/ source = "folder" \/ stale \/ page < pages

(* What the shelf keeps besides ShelfInv.                                  *)
WholeInv == ChoicesKnown /\ Rows /\ OnPage

(* A whole view of the books covers them in the words of the property.     *)
LEMMA WholeCovers ==
  ASSUME NEW v, NEW S, NEW sc, Whole(v, S, group, Len(sc))
  PROVE  Covers(v, S, sc)
<1>1. \A r : Under(r, S, sc) = Stands(r, S, group, Len(sc))
  BY DEF Under, Stands
<1>2. UNION {Under(v[i], S, sc) : i \in DOMAIN v} = S
  BY <1>1 DEF Whole
<1>3. \A i, j \in DOMAIN v : i # j => Under(v[i], S, sc) \cap Under(v[j], S, sc) = {}
  BY <1>1 DEF Whole
<1>4. \A i \in DOMAIN v : v[i].count = Cardinality(Under(v[i], S, sc))
  BY <1>1 DEF Whole
<1> QED
  BY ONLY <1>2, <1>3, <1>4 DEF Covers

(* Below the cap the view is made of the books that are chosen.            *)
LEMMA ChosenIsMade ==
  ASSUME NEW l \in SUBSET Book, NEW sc, Known(sc)
  PROVE  /\ ~(group = "none" /\ sc = <<>> /\ query = "") =>
              MadeOf(l, group, query, sc, source) = Chosen(Scanned(l), sc)
         /\ Cardinality(l) <= ScanCap =>
              MadeOf(l, group, query, sc, source) = Chosen(l, sc)
<1>1. \A t : Chosen(t, sc) = Pinned({b \in t : SourceOf[b] = source /\ b \in Matching[query]}, group, sc)
  BY DEF Chosen, Pinned
<1>2. CASE ~(group = "none" /\ sc = <<>> /\ query = "")
  <2>1. MadeOf(l, group, query, sc, source) = Chosen(Scanned(l), sc)
    BY <1>1, <1>2 DEF MadeOf
  <2>2. Cardinality(l) <= ScanCap => Scanned(l) = l
    BY ScanIsComplete
  <2> QED
    BY <1>2, <2>1, <2>2
<1>3. CASE group = "none" /\ sc = <<>> /\ query = ""
  <2>1. PICK all : all = {b \in l : SourceOf[b] = source}
    OBVIOUS
  <2>2. MadeOf(l, group, query, sc, source) = all
    BY <1>3, <2>1 DEF MadeOf
  <2>3. Matching[query] = Book
    BY <1>3, ShelfAssumption
  <2>4. {b \in l : SourceOf[b] = source /\ b \in Matching[query]} = all
    BY <2>1, <2>3
  <2>5. Len(<<>>) < 2 /\ Known(<<>>)
    BY KnownEmpty
  <2>6. Pinned(all, group, sc) = all
    BY <1>3, <2>5, OneLevelDown
  <2> QED
    BY <1>1, <1>3, <2>2, <2>4, <2>6
<1> QED
  BY <1>2, <1>3

(* A fresh view is whole.                                                  *)
LEMMA FreshIsWhole ==
  ASSUME ShelfInv, WholeInv, fresh, source # "folder"
  PROVE  /\ lib \in SUBSET Book /\ Known(scopes)
         /\ view = ViewOf(lib, group, sort, query, scopes, source)
         /\ Whole(view, MadeOf(lib, group, query, scopes, source), group, Len(scopes))
         /\ group = "none" /\ scopes = <<>> /\ query = "" =>
              \A i \in DOMAIN view : view[i].kind = "book"
<1>1. lib \in SUBSET Book /\ Known(scopes)
  BY DEF ShelfInv, ShelfTypes, Stacked
<1>2. view = ViewOf(lib, group, sort, query, scopes, source)
  BY DEF ShelfInv, FreshIsFresh
<1>3. group \in Groupings /\ sort \in DOMAIN Order /\ Len(scopes) <= 2
  BY DEF WholeInv, ChoicesKnown
<1>4. /\ Whole(ViewOf(lib, group, sort, query, scopes, source),
               MadeOf(lib, group, query, scopes, source), group, Len(scopes))
      /\ group = "none" /\ scopes = <<>> /\ query = "" =>
           \A i \in DOMAIN ViewOf(lib, group, sort, query, scopes, source) :
             ViewOf(lib, group, sort, query, scopes, source)[i].kind = "book"
  BY ONLY <1>1, <1>3, ViewIsWhole
<1> QED
  BY ONLY <1>1, <1>2, <1>4

(* Below the scan cap a fresh view has every book that is asked for.       *)
LEMMA WholeInvCovers ==
  ShelfInv /\ WholeInv => EveryBookOnce
<1> SUFFICES ASSUME ShelfInv, WholeInv, fresh, source # "folder", Cardinality(lib) <= ScanCap
             PROVE  Covers(view, Chosen(lib, scopes), scopes)
  BY DEF EveryBookOnce
<1>1. /\ lib \in SUBSET Book /\ Known(scopes)
      /\ Whole(view, MadeOf(lib, group, query, scopes, source), group, Len(scopes))
  BY FreshIsWhole
<1>2. MadeOf(lib, group, query, scopes, source) = Chosen(lib, scopes)
  BY <1>1, ChosenIsMade
<1> QED
  BY <1>1, <1>2, WholeCovers

(* The books under a card are those that are left one level down, so that the *)
(* view made there is whole for the same books.                            *)
LEMMA WholeInvOpens ==
  ShelfInv /\ WholeInv => CardOpensItsCount
<1> SUFFICES ASSUME ShelfInv, WholeInv, fresh, source # "folder",
                    NEW i \in DOMAIN view, view[i].kind = "card", Len(scopes) < 2
             PROVE  LET in == Append(scopes, view[i].scope)
                        members == Chosen(Scanned(lib), in)
                    IN  /\ view[i].count = Cardinality(members)
                        /\ Covers(ViewOf(lib, group, sort, query, in, source), members, in)
  BY DEF CardOpensItsCount
<1>1. PICK k : k = view[i].scope
  OBVIOUS
<1>2. PICK in : in = Append(scopes, k)
  OBVIOUS
<1>3. /\ lib \in SUBSET Book /\ Known(scopes)
      /\ Whole(view, MadeOf(lib, group, query, scopes, source), group, Len(scopes))
      /\ group = "none" /\ scopes = <<>> /\ query = "" =>
              \A n \in DOMAIN view : view[n].kind = "book"
  BY FreshIsWhole
<1>4. ~(group = "none" /\ scopes = <<>> /\ query = "")
  BY <1>3
<1>14. Known(scopes) /\ Len(scopes) < 2
  BY <1>3
<1>15. Len(scopes) \in Nat
  BY ONLY <1>14 DEF Known
<1>16. Known(in) /\ Len(in) = Len(scopes) + 1
  BY ONLY <1>2, <1>14, KnownAppend
<1>5. Known(in) /\ Len(in) = Len(scopes) + 1 /\ in # <<>>
  BY ONLY <1>15, <1>16, KnownEmpty
<1>6. Len(in) <= 2
  BY ONLY <1>14, <1>15, <1>16
<1>7. PICK D : D = Chosen(Scanned(lib), scopes)
  OBVIOUS
<1>8. PICK members : members = Chosen(Scanned(lib), in)
  OBVIOUS
<1>9. MadeOf(lib, group, query, scopes, source) = D
  BY ONLY <1>3, <1>4, <1>7, ChosenIsMade
<1>10. MadeOf(lib, group, query, in, source) = members
  BY ONLY <1>3, <1>5, <1>8, ChosenIsMade
<1>11. members = {b \in D : DimKey(b, group, Len(scopes)) = k}
  <2>1. Pinned(Scanned(lib), group, in)
          = {b \in Pinned(Scanned(lib), group, scopes) : DimKey(b, group, Len(scopes)) = k}
    BY ONLY <1>2, <1>14, OneLevelDown
  <2> QED
    BY ONLY <1>7, <1>8, <2>1 DEF Chosen
<1>12. view[i].count = Cardinality(members)
  <2>1. view[i].count = Cardinality(Stands(view[i], D, group, Len(scopes)))
    BY ONLY <1>3, <1>9, i \in DOMAIN view DEF Whole
  <2>3. view[i].kind # "book"
    OBVIOUS
  <2>2. Stands(view[i], D, group, Len(scopes)) = members
    BY ONLY <1>1, <1>11, <2>3 DEF Stands
  <2> QED
    BY ONLY <2>1, <2>2
<1>13. Covers(ViewOf(lib, group, sort, query, in, source), members, in)
  <2>1. group \in Groupings /\ sort \in DOMAIN Order
    BY DEF WholeInv, ChoicesKnown
  <2>2. PICK v : v = ViewOf(lib, group, sort, query, in, source)
    OBVIOUS
  <2>3. Whole(ViewOf(lib, group, sort, query, in, source),
              MadeOf(lib, group, query, in, source), group, Len(in))
    BY ONLY <1>3, <1>5, <1>6, <2>1, ViewIsWhole
  <2>4. Whole(v, members, group, Len(in))
    BY ONLY <1>10, <2>2, <2>3
  <2>5. Covers(v, members, in)
    BY ONLY <2>4, WholeCovers
  <2> QED
    BY ONLY <2>2, <2>5
<1> QED
  BY ONLY <1>1, <1>2, <1>8, <1>12, <1>13

(* App::new boots with a choice the engine has and a view of rows.         *)
LEMMA BootsWhole ==
  Init => WholeInv
<1> SUFFICES ASSUME Init PROVE WholeInv
  OBVIOUS
<1>1. /\ group \in Groupings /\ sort = "title" /\ scopes = <<>> /\ busy = 0
      /\ lib \in SUBSET Book
  BY ShelfAssumption DEF Init, Groupings
<1>2. Len(<<>>) = 0 /\ Known(<<>>) /\ Len(<<>>) <= 2
  BY KnownEmpty
<1>3. sort \in DOMAIN Order /\ MaxBusy \in Nat
  BY <1>1, ShelfAssumption
<1>4. ChoicesKnown
  BY <1>1, <1>2, <1>3 DEF ChoicesKnown
<1>5. Whole(ViewOf(lib, group, sort, "", <<>>, "kavita"),
            MadeOf(lib, group, "", <<>>, "kavita"), group, Len(<<>>))
  BY ONLY <1>1, <1>2, <1>3, ViewIsWhole
<1>6. view = ViewOf(lib, group, sort, "", <<>>, "kavita")
  BY DEF Init
<1>7. view \in Seq(ViewRow)
  BY ONLY <1>5, <1>6 DEF Whole
<1>8. Rows
  BY <1>1, <1>3, <1>7 DEF Rows
<1>9. OnPage
  <2>1. ShelfInv
    BY BootsInOrder
  <2>2. Shows
    BY DEF Init, Shows
  <2>3. page < pages
    BY ONLY <2>1, <2>2 DEF ShelfInv, Paged
  <2> QED
    BY <2>3 DEF OnPage
<1> QED
  BY <1>4, <1>8, <1>9 DEF WholeInv

(* The reader chooses among the groupings, the orders and the levels there *)
(* are.                                                                    *)
LEMMA ChoicesStay ==
  ASSUME ShelfInv, ChoicesKnown, [Next]_vars
  PROVE  ChoicesKnown'
<1> USE DEF choice, screen, shown
<1>0. group \in Groupings /\ sort \in DOMAIN Order /\ Known(scopes) /\ Len(scopes) \in Nat /\ Len(scopes) <= 2
  BY DEF ChoicesKnown, ShelfInv, Stacked, Known
<1>1. ASSUME scopes' = <<>>, group' \in Groupings, sort' = sort PROVE ChoicesKnown'
  BY <1>0, <1>1, KnownEmpty DEF ChoicesKnown
<1>2. ASSUME UNCHANGED <<scopes, group, sort>> PROVE ChoicesKnown'
  BY <1>0, <1>2 DEF ChoicesKnown
<1>3. CASE \E b \in Moving : LibraryChanges(b)
  BY <1>2, <1>3 DEF LibraryChanges
<1>4. CASE SyncLands
  BY <1>2, <1>4 DEF SyncLands
<1>5. CASE \E p \in {0, page - 1, page + 1, pages - 1} \cap Nat : GotoPage(p)
  BY <1>2, <1>5 DEF GotoPage
<1>6. CASE \E i \in 1..Len(entries) : DrillIntoCard(i)
  <2> PICK i \in 1..Len(entries) : DrillIntoCard(i)
    BY <1>6
  <2>1. /\ Len(scopes) < 2 /\ scopes' = Append(scopes, entries[i].scope)
        /\ group' = group /\ sort' = sort
    BY DEF DrillIntoCard
  <2>2. Len(Append(scopes, entries[i].scope)) = Len(scopes) + 1
    BY ONLY <1>0, KnownAppend
  <2>3. Len(scopes') <= 2
    BY ONLY <1>0, <2>1, <2>2
  <2> QED
    BY <1>0, <2>1, <2>3 DEF ChoicesKnown
<1>7. CASE \E g \in {"none", "author", "authorseries"} : SetGroup(g)
  BY <1>1, <1>7 DEF SetGroup, Groupings
<1>8. CASE \E s \in DOMAIN Order : SetSort(s)
  BY <1>0, <1>8 DEF SetSort, ChoicesKnown
<1>9. CASE EnterSearch
  BY <1>2, <1>9 DEF EnterSearch
<1>10. CASE \E w \in DOMAIN Matching : TypeSearch(w)
  BY <1>2, <1>10 DEF TypeSearch, CommitSearch
<1>11. CASE \E i \in 1..RowsPer : TapSearchRow(i)
  BY <1>2, <1>11 DEF TapSearchRow, CommitSearch
<1>12. CASE ToggleLayout
  BY <1>2, <1>12 DEF ToggleLayout
<1>13. CASE \E s \in {"kavita", "local", "folder"} : ApplySource(s)
  BY <1>0, <1>1, <1>13 DEF ApplySource
<1>14. CASE \E o \in {"group", "sort", "source", "settings"} : OpenSheet(o)
  BY <1>2, <1>14 DEF OpenSheet
<1>15. ASSUME CloseSheet PROVE ChoicesKnown'
  BY <1>2, <1>15 DEF CloseSheet
<1>16. CASE OpenPicker
  BY <1>2, <1>16 DEF OpenPicker
<1>17. ASSUME ClosePicker PROVE ChoicesKnown'
  BY <1>2, <1>17 DEF ClosePicker
<1>18. ASSUME DrillBack PROVE ChoicesKnown'
  <2>1. scopes # <<>> /\ scopes' = Front(scopes) /\ group' = group /\ sort' = sort
    BY <1>18 DEF DrillBack
  <2>2. Len(Front(scopes)) = Len(scopes) - 1
    BY ONLY <1>0, <2>1, KnownFront
  <2>3. Len(scopes') <= 2
    BY ONLY <1>0, <2>1, <2>2
  <2> QED
    BY <1>0, <2>1, <2>3 DEF ChoicesKnown
<1>19. ASSUME LeaveSearch PROVE ChoicesKnown'
  BY <1>2, <1>19 DEF LeaveSearch
<1>20. CASE PickFolder
  BY <1>17, <1>20 DEF PickFolder
<1>21. CASE Back
  BY <1>15, <1>17, <1>18, <1>19, <1>21 DEF Back
<1>22. CASE Home
  BY <1>18, <1>19, <1>22 DEF Home
<1>23. CASE UNCHANGED vars
  BY <1>2, <1>23 DEF vars
<1> QED
  BY <1>3, <1>4, <1>5, <1>6, <1>7, <1>8, <1>9, <1>10, <1>11, <1>12, <1>13, <1>14, <1>16, <1>20,
     <1>21, <1>22, <1>23 DEF Next

(* The view is made of rows again, or stays as it was, or is empty; the    *)
(* page is settled last.                                                   *)
LEMMA RebuiltRows ==
  ASSUME ShelfInv, ShelfInv', ChoicesKnown', Rows, NEW p \in Nat, Rebuild(p), lib' = lib
  PROVE  Rows' /\ OnPage'
<1>1. /\ lib \in SUBSET Book /\ Known(view) /\ busy \in Nat /\ layout' \in DOMAIN Per
      /\ Known(history') /\ Known(scopes')
  BY DEF ShelfInv, ShelfTypes, Stacked
<1>2. group' \in Groupings /\ sort' \in DOMAIN Order /\ Len(scopes') <= 2
  BY DEF ChoicesKnown
<1>3. PICK v : v = ViewOf(lib, group', sort', query', scopes', source')
  OBVIOUS
<1>4. v \in Seq(ViewRow)
  <2>1. Whole(ViewOf(lib, group', sort', query', scopes', source'),
              MadeOf(lib, group', query', scopes', source'), group', Len(scopes'))
    BY ONLY <1>1, <1>2, ViewIsWhole
  <2> QED
    BY ONLY <1>3, <2>1 DEF Whole
<1>5. view' \in {v, view, <<>>} /\ (busy' = busy \/ (busy < MaxBusy /\ busy' = busy + 1))
  BY <1>3 DEF Rebuild
<1>6. view \in Seq(ViewRow) /\ busy \in 0..MaxBusy /\ MaxBusy \in Nat
  BY ShelfAssumption DEF Rows
<1>7. Rows'
  <2>3. <<>> \in Seq(ViewRow)
    OBVIOUS
  <2>1. view' \in Seq(ViewRow)
    BY ONLY <1>4, <1>5, <1>6, <2>3
  <2>2. busy' \in 0..MaxBusy
    BY ONLY <1>5, <1>6
  <2> QED
    BY ONLY <2>1, <2>2 DEF Rows
<1>8. Settled(p)
  BY <1>1, RebuildSettles
<1>9. OnPage'
  BY ONLY <1>8 DEF Settled, OnPage
<1> QED
  BY ONLY <1>7, <1>9

(* A handler that only refreshes settles the page.                         *)
LEMMA RedrawnRows ==
  ASSUME ShelfInv, ShelfInv', Rows, NEW p \in Nat, Refresh(p), Same
  PROVE  Rows' /\ OnPage'
<1>1. /\ lib \subseteq Book /\ layout' \in DOMAIN Per /\ Known(view') /\ Known(history')
  BY DEF ShelfInv, ShelfTypes
<1>2. Settled(p)
  BY <1>1, RefreshSettles
<1>3. Rows'
  BY DEF Rows, Same
<1> QED
  BY <1>2, <1>3 DEF Settled, OnPage

(* Every handler leaves a view of rows and a page that is there.           *)
LEMMA RowsStay ==
  ASSUME ShelfInv, ShelfInv', ChoicesKnown', WholeInv, [Next]_vars
  PROVE  Rows' /\ OnPage'
<1> USE DEF choice, screen, shown
<1>0. Rows /\ OnPage /\ page \in Nat
  BY DEF WholeInv, ShelfInv, ShelfTypes
<1>1. ASSUME NEW p \in Nat, Rebuild(p), lib' = lib PROVE Rows' /\ OnPage'
  BY <1>0, <1>1, RebuiltRows
<1>2. ASSUME NEW p \in Nat, Refresh(p), Same PROVE Rows' /\ OnPage'
  BY <1>0, <1>2, RedrawnRows
<1>3. ASSUME UNCHANGED <<view, busy, picker, source, stale, page, pages>> PROVE Rows' /\ OnPage'
  BY <1>0, <1>3 DEF Rows, OnPage
<1>4. CASE \E b \in Moving : LibraryChanges(b)
  BY <1>3, <1>4 DEF LibraryChanges
<1>5. CASE SyncLands
  BY <1>0, <1>1, <1>5 DEF SyncLands
<1>6. CASE \E p \in {0, page - 1, page + 1, pages - 1} \cap Nat : GotoPage(p)
  BY <1>2, <1>6 DEF GotoPage
<1>7. CASE \E i \in 1..Len(entries) : DrillIntoCard(i)
  BY <1>1, <1>7 DEF DrillIntoCard
<1>8. CASE \E g \in {"none", "author", "authorseries"} : SetGroup(g)
  BY <1>0, <1>1, <1>8 DEF SetGroup
<1>9. CASE \E s \in DOMAIN Order : SetSort(s)
  BY <1>0, <1>1, <1>9 DEF SetSort
<1>10. CASE EnterSearch
  BY <1>2, <1>10 DEF EnterSearch
<1>11. CASE \E w \in DOMAIN Matching : TypeSearch(w)
  BY <1>0, <1>1, <1>11 DEF TypeSearch, CommitSearch
<1>12. CASE \E i \in 1..RowsPer : TapSearchRow(i)
  BY <1>0, <1>1, <1>12 DEF TapSearchRow, CommitSearch
<1>13. CASE ToggleLayout
  BY <1>2, <1>13 DEF ToggleLayout
<1>14. CASE \E s \in {"kavita", "local", "folder"} : ApplySource(s)
  <2> PICK s \in {"kavita", "local", "folder"} : ApplySource(s)
    BY <1>14
  <2>1. CASE s = "folder"
    BY <1>2, <2>1 DEF ApplySource
  <2>2. CASE s # "folder"
    BY <1>1, <2>2 DEF ApplySource
  <2> QED
    BY <2>1, <2>2
<1>15. CASE \E o \in {"group", "sort", "source", "settings"} : OpenSheet(o)
  BY <1>3, <1>15 DEF OpenSheet
<1>16. ASSUME CloseSheet PROVE Rows' /\ OnPage'
  BY <1>3, <1>16 DEF CloseSheet
<1>17. CASE OpenPicker
  BY <1>0, <1>2, <1>17 DEF OpenPicker
<1>18. ASSUME ClosePicker PROVE Rows' /\ OnPage'
  BY <1>0, <1>18 DEF ClosePicker, Rows, OnPage
<1>19. ASSUME DrillBack PROVE Rows' /\ OnPage'
  <2>1. Last(saved) \in Nat
    BY <1>19, BackKeepsTheTrail
  <2> QED
    BY <1>1, <1>19, <2>1 DEF DrillBack
<1>20. ASSUME LeaveSearch PROVE Rows' /\ OnPage'
  BY <1>2, <1>20 DEF LeaveSearch
<1>21. CASE PickFolder
  BY <1>18, <1>21 DEF PickFolder
<1>22. CASE Back
  BY <1>16, <1>18, <1>19, <1>20, <1>22 DEF Back
<1>23. CASE Home
  BY <1>19, <1>20, <1>23 DEF Home
<1>24. CASE UNCHANGED vars
  BY <1>3, <1>24 DEF vars
<1> QED
  BY <1>4, <1>5, <1>6, <1>7, <1>8, <1>9, <1>10, <1>11, <1>12, <1>13, <1>14, <1>15, <1>17, <1>21,
     <1>22, <1>23, <1>24 DEF Next

(* The two invariants together.                                            *)
LEMMA WholeInvariant == Spec => [](ShelfInv /\ WholeInv)
<1>1. Init => ShelfInv /\ WholeInv
  BY BootsInOrder, BootsWhole
<1>2. ShelfInv /\ WholeInv /\ [Next]_vars => (ShelfInv /\ WholeInv)'
  <2> SUFFICES ASSUME ShelfInv, WholeInv, [Next]_vars PROVE ShelfInv' /\ WholeInv'
    OBVIOUS
  <2>1. ShelfInv'
    BY EveryStepKeeps
  <2>2. ChoicesKnown'
    BY ChoicesStay DEF WholeInv
  <2>3. Rows' /\ OnPage'
    BY <2>1, <2>2, RowsStay
  <2> QED
    BY <2>1, <2>2, <2>3 DEF WholeInv
<1> QED
  BY <1>1, <1>2, PTL DEF Spec

(* store.rs view_rebuild, append_grouped, append_flat with app/data.rs: a view *)
(* that is up to date has every book that the source, the search and the opened *)
(* groups leave on exactly one row, below the scan cap; a card opens the books *)
(* it counts, each once, at any size; the tiles are those of the page; every *)
(* variable has its type.  For any table of any size, any values of the    *)
(* dimensions, any orders and any sizes of a page.                         *)
THEOREM TheShelfIsWhole == Spec => []ShelfIsWhole
<1>1. ShelfInv /\ WholeInv => TypeOK
  <2> SUFFICES ASSUME ShelfInv, WholeInv PROVE TypeOK
    OBVIOUS
  <2>1. /\ lib \subseteq Book /\ Len(scopes) = Len(saved) /\ Len(trail) = Len(scopes)
        /\ page \in Nat /\ pages \in Nat \ {0}
    BY DEF ShelfInv, ShelfTypes, Stacked
  <2>2. /\ view \in Seq(ViewRow) /\ busy \in 0..MaxBusy /\ Len(scopes) <= 2
        /\ picker \/ source = "folder" \/ stale \/ page < pages
    BY DEF WholeInv, ChoicesKnown, Rows, OnPage
  <2> QED
    BY <2>1, <2>2 DEF TypeOK
<1>2. ShelfInv /\ WholeInv => EveryBookOnce /\ CardOpensItsCount
  BY WholeInvCovers, WholeInvOpens
<1> QED
  BY <1>1, <1>2, WholeInvariant, TapsMeetTheirTiles, PTL DEF ShelfIsWhole

=============================================================================
