------------------------- MODULE SyncLedger_proofs -------------------------
(***************************************************************************)
(* Proofs about the walks of the sync ledger, for any number of books,     *)
(* pages and overlapping walks, and for any faults.                        *)
(***************************************************************************)
EXTENDS SyncLedger, FiniteSetTheorems, TLAPS

---------------------------------------------------------------------------
(* The parts of the inductive invariant.                                   *)

(* A fingerprint pass always has a list to queue differing books in.       *)
FpHasList == \A w \in Walker : pc[w] = "fp" => need[w] \in SUBSET Book

(* What has been served throughout a walk is being served.                 *)
SteadyIsServed == \A w \in Walker : steady[w] \subseteq Served

(* Is the pass that fills the seen set still going on?                     *)
Collecting(w) == pc[w] = "fp" \/ (pc[w] \in {"page", "commit"} /\ need[w] = None)

(* A book served throughout is in the seen set already, or on a page that  *)
(* the collecting pass has still to read.                                  *)
SteadyIsCovered ==
  \A w \in Walker :
    pc[w] \in {"fp", "page", "commit", "tombstones"} =>
      steady[w] \subseteq seen[w] \cup (IF Collecting(w) THEN UNION todo[w] ELSE {})

(* A pass that was served something has seen something, and so has a walk  *)
(* that queued books for its second pass.                                  *)
YieldIsSeen == \A w \in Walker : yielded[w] => seen[w] # {}

QueuedAreSeen ==
  \A w \in Walker :
    /\ pc[w] = "fp" => need[w] \subseteq seen[w]
    /\ pc[w] \in {"page", "commit"} /\ need[w] # None => seen[w] # {}

TypeInv == TypeOK /\ FpHasList
LedgerInv ==
  /\ TypeInv
  /\ SteadyIsServed
  /\ SteadyIsCovered
  /\ YieldIsSeen
  /\ QueuedAreSeen
  /\ EmptyNeverWipes

---------------------------------------------------------------------------
(* Operators of the walks.                                                 *)

(* A numbering of books gives each a positive number.                      *)
LEMMA NumberingFacts ==
  ASSUME TypeOK, NEW books \in SUBSET Book
  PROVE  /\ Cardinality(books) \in Nat
         /\ \A r \in Numbering(books) : r \in [books -> Nat \ {0}]
<1>1. IsFiniteSet(books)
  BY LedgerAssumption, FS_Subset
<1>2. Cardinality(books) \in Nat
  BY <1>1, FS_CardinalityType
<1>3. nextRev \in Nat \ {0}
  BY DEF TypeOK
<1>4. \A n \in nextRev .. nextRev + Cardinality(books) - 1 : n \in Nat \ {0}
  BY <1>2, <1>3
<1> QED
  BY <1>2, <1>4 DEF Numbering

(* What is served is a Meta of the library.                                *)
LEMMA ServedFacts ==
  ASSUME TypeOK
  PROVE  /\ Served \subseteq Book
         /\ \A b \in Served : up /\ catalogue[b] # None /\ catalogue[b] \in Meta
BY DEF Served, Serves, TypeOK

(* The pages of the library are lists of books.                            *)
LEMMA PagesFacts == Pages \in SUBSET SUBSET Book
BY LedgerAssumption

(* A list of books, or none yet.                                           *)
LEMMA ListFacts ==
  /\ None \in (SUBSET Book) \cup {None}
  /\ SUBSET Book \subseteq (SUBSET Book) \cup {None}
OBVIOUS

(* The index entry of a row is an entry.                                   *)
LEMMA IndexFacts ==
  ASSUME NEW row \in Row \cup {NoRow}
  PROVE  IndexOf(row) \in Index \cup {NoRow}
BY DEF IndexOf, Index, Row

(* Metadata make an entry and, with a revision, a row.                     *)
LEMMA MetaFacts ==
  ASSUME NEW m \in Meta, NEW n \in Nat \ {0}
  PROVE  /\ IndexOfMeta(m) \in Index
         /\ LedgerRow(m, n) \in Row
<1>1. m.dated \in BOOLEAN
  BY LedgerAssumption
<1> QED
  BY <1>1 DEF IndexOfMeta, Index, LedgerRow, Row

---------------------------------------------------------------------------
(* Types.                                                                  *)

(* The types are inductive with FpHasList, without which the first pass    *)
(* could add to a list that does not exist.                                *)
LEMMA TypeStep == TypeInv /\ [Next]_vars => TypeInv'
<1> SUFFICES ASSUME TypeInv, [Next]_vars
             PROVE  TypeInv'
  OBVIOUS
<1> USE DEF TypeInv, FpHasList, provider, table, claimVars, walkVars, history, PCs
<1>1. ASSUME NEW b \in Book, NEW m \in Meta \cup {None}, Edit(b, m)
      PROVE  TypeInv'
  <2>1. catalogue' \in [Book -> Meta \cup {None}]
    BY <1>1 DEF TypeOK, Edit
  <2>2. steady' \in [Walker -> SUBSET Book]
    BY <1>1 DEF TypeOK, Edit
  <2>3. moved' \in [Walker -> SUBSET Book]
    BY <1>1 DEF TypeOK, Edit
  <2>4. edits' \in 0 .. MaxEdits
    BY <1>1, LedgerAssumption DEF TypeOK, Edit
  <2>5. UNCHANGED <<up, fpWalker, rows, nextRev, fresh, reported, walking,
                    walkDone, eventSet, pc, stored, seen, todo, need,
                    yielded, batch, faults>>
    BY <1>1 DEF Edit
  <2>6. FpHasList'
    BY <1>1 DEF TypeOK, Edit
  <2>7. TypeOK'
    BY <2>1, <2>2, <2>3, <2>4, <2>5 DEF TypeOK
  <2> QED
    BY <2>6, <2>7
<1>2. ASSUME GoDown
      PROVE  TypeInv'
  <2>1. up' \in BOOLEAN
    BY <1>2 DEF TypeOK, GoDown
  <2>2. steady' \in [Walker -> SUBSET Book]
    BY <1>2 DEF TypeOK, GoDown
  <2>3. faults' \in 0 .. MaxFaults
    BY <1>2, LedgerAssumption DEF TypeOK, GoDown
  <2>4. UNCHANGED <<catalogue, fpWalker, rows, nextRev, fresh, reported,
                    walking, walkDone, eventSet, pc, stored, seen, todo,
                    need, yielded, batch, moved, edits>>
    BY <1>2 DEF GoDown
  <2>5. FpHasList'
    BY <1>2 DEF TypeOK, GoDown
  <2>6. TypeOK'
    BY <2>1, <2>2, <2>3, <2>4 DEF TypeOK
  <2> QED
    BY <2>5, <2>6
<1>3. ASSUME ComeUp
      PROVE  TypeInv'
  <2>1. TypeOK'
    BY <1>3 DEF TypeOK, ComeUp
  <2>2. FpHasList'
    BY <1>3 DEF TypeOK, ComeUp
  <2> QED
    BY <2>1, <2>2
<1>4. ASSUME AgeOut
      PROVE  TypeInv'
  <2>1. TypeOK'
    BY <1>4 DEF TypeOK, AgeOut
  <2>2. FpHasList'
    BY <1>4 DEF TypeOK, AgeOut
  <2> QED
    BY <2>1, <2>2
<1>5. ASSUME NEW k \in Key, NEW rev \in 0 .. nextRev - 1, RecordDevice(k, rev)
      PROVE  TypeInv'
  <2>1. TypeOK'
    BY <1>5 DEF TypeOK, RecordDevice
  <2>2. FpHasList'
    BY <1>5 DEF TypeOK, RecordDevice
  <2> QED
    BY <2>1, <2>2
<1>6. ASSUME Restart
      PROVE  TypeInv'
  <2>1. walking' \in BOOLEAN
    BY <1>6 DEF TypeOK, Restart, NothingStored, NothingToApply
  <2>2. walkDone' \in Walker \cup {None}
    BY <1>6 DEF TypeOK, Restart, NothingStored, NothingToApply
  <2>3. eventSet' \in [Walker -> BOOLEAN]
    BY <1>6 DEF TypeOK, Restart, NothingStored, NothingToApply
  <2>4. pc' \in [Walker -> PCs]
    BY <1>6 DEF TypeOK, Restart, NothingStored, NothingToApply
  <2>5. stored' \in [Walker -> [Book -> Index \cup {NoRow}]]
    BY <1>6 DEF TypeOK, Restart, NothingStored, NothingToApply
  <2>6. seen' \in [Walker -> SUBSET Book]
    BY <1>6 DEF TypeOK, Restart, NothingStored, NothingToApply
  <2>7. todo' \in [Walker -> SUBSET SUBSET Book]
    BY <1>6 DEF TypeOK, Restart, NothingStored, NothingToApply
  <2>8. need' \in [Walker -> (SUBSET Book) \cup {None}]
    <3>1. need' = [v \in Walker |-> None]
      BY <1>6 DEF Restart
    <3> QED
      BY <3>1, ListFacts
  <2>9. yielded' \in [Walker -> BOOLEAN]
    BY <1>6 DEF TypeOK, Restart, NothingStored, NothingToApply
  <2>10. batch' \in [Walker -> [Book -> Meta \cup {None}]]
    BY <1>6 DEF TypeOK, Restart, NothingStored, NothingToApply
  <2>11. steady' \in [Walker -> SUBSET Book]
    BY <1>6 DEF TypeOK, Restart, NothingStored, NothingToApply
  <2>12. moved' \in [Walker -> SUBSET Book]
    BY <1>6 DEF TypeOK, Restart, NothingStored, NothingToApply
  <2>13. faults' \in 0 .. MaxFaults
    BY <1>6, LedgerAssumption DEF TypeOK, Restart
  <2>14. UNCHANGED <<catalogue, up, fpWalker, rows, nextRev, fresh,
                     reported, edits>>
    BY <1>6 DEF Restart, NothingStored, NothingToApply
  <2>15. FpHasList'
    BY <1>6 DEF TypeOK, Restart, NothingStored, NothingToApply
  <2>16. TypeOK'
    BY <2>1, <2>2, <2>3, <2>4, <2>5, <2>6, <2>7, <2>8, <2>9, <2>10, <2>11,
       <2>12, <2>13, <2>14
    DEF TypeOK
  <2> QED
    BY <2>15, <2>16
<1>7. ASSUME NEW w \in Walker, Claim(w)
      PROVE  TypeInv'
  <2>1. walking' \in BOOLEAN
    BY <1>7 DEF TypeOK, Claim
  <2>2. walkDone' \in Walker \cup {None}
    BY <1>7 DEF TypeOK, Claim
  <2>3. eventSet' \in [Walker -> BOOLEAN]
    BY <1>7 DEF TypeOK, Claim
  <2>4. pc' \in [Walker -> PCs]
    BY <1>7 DEF TypeOK, Claim
  <2>5. UNCHANGED <<catalogue, up, fpWalker, rows, nextRev, fresh, reported,
                    stored, seen, todo, need, yielded, batch, steady, moved,
                    edits, faults>>
    BY <1>7 DEF Claim
  <2>6. FpHasList'
    BY <1>7 DEF TypeOK, Claim
  <2>7. TypeOK'
    BY <2>1, <2>2, <2>3, <2>4, <2>5 DEF TypeOK
  <2> QED
    BY <2>6, <2>7
<1>8. ASSUME NEW w \in Walker, Snapshot(w)
      PROVE  TypeInv'
  <2>1. pc' \in [Walker -> PCs]
    BY <1>8 DEF TypeOK, Snapshot
  <2>2. stored' \in [Walker -> [Book -> Index \cup {NoRow}]]
    <3>1. \A b \in Book : IndexOf(rows[b]) \in Index \cup {NoRow}
      BY IndexFacts DEF TypeOK
    <3>2. stored' = [stored EXCEPT ![w] = [b \in Book |-> IndexOf(rows[b])]]
      BY <1>8 DEF Snapshot
    <3> QED
      BY <3>1, <3>2 DEF TypeOK
  <2>3. todo' \in [Walker -> SUBSET SUBSET Book]
    BY <1>8, PagesFacts DEF TypeOK, Snapshot
  <2>4. need' \in [Walker -> (SUBSET Book) \cup {None}]
    <3>1. need' = [need EXCEPT ![w] = IF fpWalker THEN {} ELSE None]
      BY <1>8 DEF Snapshot
    <3>2. {} \in SUBSET Book
      OBVIOUS
    <3> QED
      BY <3>1, <3>2, ListFacts DEF TypeOK
  <2>5. steady' \in [Walker -> SUBSET Book]
    BY <1>8, ServedFacts DEF TypeOK, Snapshot
  <2>6. moved' \in [Walker -> SUBSET Book]
    BY <1>8 DEF TypeOK, Snapshot
  <2>7. UNCHANGED <<catalogue, up, fpWalker, rows, nextRev, fresh, reported,
                    walking, walkDone, eventSet, seen, yielded, batch,
                    edits, faults>>
    BY <1>8 DEF Snapshot
  <2>8. FpHasList'
    BY <1>8 DEF TypeOK, Snapshot
  <2>9. TypeOK'
    BY <2>1, <2>2, <2>3, <2>4, <2>5, <2>6, <2>7 DEF TypeOK
  <2> QED
    BY <2>8, <2>9
<1>9. ASSUME NEW w \in Walker, NEW p \in todo[w], FpPage(w, p)
      PROVE  TypeInv'
  <2> DEFINE new == {b \in p \cap Served : Differs(stored[w][b], catalogue[b])}
  <2>1. need[w] \in SUBSET Book
    BY <1>9 DEF FpPage
  <2>2. need' = [need EXCEPT ![w] = need[w] \cup new] /\ UNCHANGED pc
    BY <1>9 DEF FpPage, TypeOK
  <2>3. need[w] \cup new \in SUBSET Book
    BY <2>1, ServedFacts
  <2> HIDE DEF new
  <2>4. seen' \in [Walker -> SUBSET Book]
    BY <1>9, ServedFacts DEF TypeOK, FpPage
  <2>5. todo' \in [Walker -> SUBSET SUBSET Book]
    BY <1>9 DEF TypeOK, FpPage
  <2>6. need' \in [Walker -> (SUBSET Book) \cup {None}]
    BY <2>2, <2>3, ListFacts DEF TypeOK
  <2>7. yielded' \in [Walker -> BOOLEAN]
    BY <1>9 DEF TypeOK, FpPage
  <2>8. UNCHANGED <<catalogue, up, fpWalker, rows, nextRev, fresh, reported,
                    walking, walkDone, eventSet, pc, stored, batch, steady,
                    moved, edits, faults>>
    BY <1>9 DEF FpPage
  <2>9. FpHasList'
    BY <2>2, <2>3 DEF TypeOK
  <2>10. TypeOK'
    BY <2>4, <2>5, <2>6, <2>7, <2>8 DEF TypeOK
  <2> QED
    BY <2>9, <2>10
<1>10. ASSUME NEW w \in Walker, FpDone(w)
      PROVE  TypeInv'
  <2>1. pc' \in [Walker -> PCs]
    BY <1>10 DEF TypeOK, FpDone
  <2>2. todo' \in [Walker -> SUBSET SUBSET Book]
    <3>1. todo' = todo \/ todo' = [todo EXCEPT ![w] = Pages]
      BY <1>10 DEF FpDone
    <3> QED
      BY <3>1, PagesFacts DEF TypeOK
  <2>3. UNCHANGED <<catalogue, up, fpWalker, rows, nextRev, fresh, reported,
                    walking, walkDone, eventSet, stored, seen, need,
                    yielded, batch, steady, moved, edits, faults>>
    BY <1>10 DEF FpDone
  <2>4. FpHasList'
    <3>1. \A v \in Walker : pc'[v] = "fp" => pc[v] = "fp"
      BY <1>10 DEF TypeOK, FpDone
    <3> QED
      BY <2>3, <3>1
  <2>5. TypeOK'
    BY <2>1, <2>2, <2>3 DEF TypeOK
  <2> QED
    BY <2>4, <2>5
<1>11. ASSUME NEW w \in Walker, NEW p \in todo[w], FetchPage(w, p)
      PROVE  TypeInv'
  <2>1. pc' \in [Walker -> PCs]
    BY <1>11 DEF TypeOK, FetchPage
  <2>2. seen' \in [Walker -> SUBSET Book]
    <3>1. p \cap Served \in SUBSET Book
      BY ServedFacts
    <3>2. PICK s \in SUBSET Book : seen' = [seen EXCEPT ![w] = s]
      BY <1>11, <3>1 DEF TypeOK, FetchPage
    <3> QED
      BY <3>2 DEF TypeOK
  <2>3. todo' \in [Walker -> SUBSET SUBSET Book]
    BY <1>11 DEF TypeOK, FetchPage
  <2>4. need' \in [Walker -> (SUBSET Book) \cup {None}]
    BY <1>11 DEF TypeOK, FetchPage
  <2>5. yielded' \in [Walker -> BOOLEAN]
    BY <1>11 DEF TypeOK, FetchPage
  <2>6. batch' \in [Walker -> [Book -> Meta \cup {None}]]
    BY <1>11 DEF TypeOK, FetchPage
  <2>7. UNCHANGED <<catalogue, up, fpWalker, rows, nextRev, fresh, reported,
                    walking, walkDone, eventSet, stored, steady, moved,
                    edits, faults>>
    BY <1>11 DEF FetchPage
  <2>8. FpHasList'
    BY <1>11 DEF TypeOK, FetchPage
  <2>9. TypeOK'
    BY <2>1, <2>2, <2>3, <2>4, <2>5, <2>6, <2>7 DEF TypeOK
  <2> QED
    BY <2>8, <2>9
<1>12. ASSUME NEW w \in Walker, CommitPage(w)
      PROVE  TypeInv'
  <2> DEFINE put == {b \in Book : batch[w][b] # None}
  <2>1. put \in SUBSET Book /\ \A b \in put : batch[w][b] \in Meta
    BY DEF TypeOK
  <2>2. PICK r \in Numbering(put), written \in SUBSET put :
           rows' = [b \in Book |->
                      IF b \in written THEN LedgerRow(batch[w][b], r[b])
                                       ELSE rows[b]]
    BY <1>12 DEF CommitPage
  <2>3. nextRev' = nextRev + Cardinality(put)
    BY <1>12 DEF CommitPage
  <2>4. stored' = [stored EXCEPT ![w] =
           [b \in Book |-> IF b \in put THEN IndexOfMeta(batch[w][b])
                                        ELSE stored[w][b]]]
    BY <1>12 DEF CommitPage, TypeOK
  <2> HIDE DEF put
  <2>5. rows' \in [Book -> Row \cup {NoRow}]
    <3>1. \A b \in written : LedgerRow(batch[w][b], r[b]) \in Row
      BY <2>1, NumberingFacts, MetaFacts
    <3> QED
      BY <2>2, <3>1 DEF TypeOK
  <2>6. nextRev' \in Nat \ {0}
    <3>1. Cardinality(put) \in Nat
      BY <2>1, NumberingFacts
    <3> QED
      BY <2>3, <3>1 DEF TypeOK
  <2>7. pc' \in [Walker -> PCs]
    BY <1>12 DEF TypeOK, CommitPage
  <2>8. stored' \in [Walker -> [Book -> Index \cup {NoRow}]]
    <3>1. \A b \in put : IndexOfMeta(batch[w][b]) \in Index
      BY <2>1, MetaFacts
    <3> QED
      BY <2>4, <3>1 DEF TypeOK
  <2>9. batch' \in [Walker -> [Book -> Meta \cup {None}]]
    <3>1. batch' = [batch EXCEPT ![w] = [b \in Book |-> None]]
      BY <1>12 DEF CommitPage, NothingToApply
    <3> QED
      BY <3>1 DEF TypeOK
  <2>10. UNCHANGED <<catalogue, up, fpWalker, fresh, reported, walking,
                     walkDone, eventSet, seen, todo, need, yielded, steady,
                     moved, edits, faults>>
    BY <1>12 DEF CommitPage
  <2>11. FpHasList'
    BY <1>12 DEF TypeOK, CommitPage
  <2>12. TypeOK'
    BY <2>5, <2>6, <2>7, <2>8, <2>9, <2>10 DEF TypeOK
  <2> QED
    BY <2>11, <2>12
<1>13. ASSUME NEW w \in Walker, PageDone(w)
      PROVE  TypeInv'
  <2>1. TypeOK'
    BY <1>13 DEF TypeOK, PageDone
  <2>2. FpHasList'
    BY <1>13 DEF TypeOK, PageDone
  <2> QED
    BY <2>1, <2>2
<1>14. ASSUME NEW w \in Walker, Tombstone(w)
      PROVE  TypeInv'
  <2> DEFINE gone == MissedBy(w)
  <2>1. gone \in SUBSET Book
    BY DEF MissedBy
  <2>2. PICK r \in Numbering(gone) :
          rows' = [b \in Book |->
                     IF b \in gone /\ rows[b] # NoRow
                       THEN [rows[b] EXCEPT !.rev = r[b], !.live = FALSE]
                       ELSE rows[b]]
    BY <1>14 DEF Tombstone
  <2>3. nextRev' = nextRev + Cardinality(gone)
    BY <1>14 DEF Tombstone
  <2> HIDE DEF gone
  <2>4. rows' \in [Book -> Row \cup {NoRow}]
    <3>1. \A b \in gone : r[b] \in Nat \ {0}
      BY <2>1, NumberingFacts
    <3>2. ASSUME NEW b \in gone, rows[b] # NoRow
          PROVE  [rows[b] EXCEPT !.rev = r[b], !.live = FALSE] \in Row
      <4>1. rows[b] \in Row /\ r[b] \in Nat \ {0}
        BY <2>1, <3>1, <3>2 DEF TypeOK
      <4> QED
        BY <4>1 DEF Row
    <3> QED
      BY <2>1, <2>2, <3>2 DEF TypeOK
  <2>5. nextRev' \in Nat \ {0}
    <3>1. Cardinality(gone) \in Nat
      BY <2>1, NumberingFacts
    <3> QED
      BY <2>3, <3>1 DEF TypeOK
  <2>6. pc' \in [Walker -> PCs]
    BY <1>14 DEF TypeOK, Tombstone
  <2>7. UNCHANGED <<catalogue, up, fpWalker, fresh, reported, walking,
                    walkDone, eventSet, stored, seen, todo, need, yielded,
                    batch, steady, moved, edits, faults>>
    BY <1>14 DEF Tombstone
  <2>8. FpHasList'
    BY <1>14 DEF TypeOK, Tombstone
  <2>9. TypeOK'
    BY <2>4, <2>5, <2>6, <2>7 DEF TypeOK
  <2> QED
    BY <2>8, <2>9
<1>15. ASSUME NEW w \in Walker, Finish(w)
      PROVE  TypeInv'
  <2>1. rows' \in [Book -> Row \cup {NoRow}]
    BY <1>15 DEF TypeOK, Finish, Compacted
  <2>2. fresh' \in BOOLEAN
    BY <1>15 DEF TypeOK, Finish
  <2>3. walking' \in BOOLEAN
    BY <1>15 DEF TypeOK, Finish
  <2>4. pc' \in [Walker -> PCs]
    BY <1>15 DEF TypeOK, Finish
  <2>5. UNCHANGED <<catalogue, up, fpWalker, nextRev, reported, walkDone,
                    eventSet, stored, seen, todo, need, yielded, batch,
                    steady, moved, edits, faults>>
    BY <1>15 DEF Finish
  <2>6. FpHasList'
    BY <1>15 DEF TypeOK, Finish
  <2>7. TypeOK'
    BY <2>1, <2>2, <2>3, <2>4, <2>5 DEF TypeOK
  <2> QED
    BY <2>6, <2>7
<1>16. ASSUME NEW w \in Walker, Refuse(w)
      PROVE  TypeInv'
  <2>1. walking' \in BOOLEAN
    BY <1>16 DEF TypeOK, Refuse, Release
  <2>2. pc' \in [Walker -> PCs]
    BY <1>16 DEF TypeOK, Refuse, Release
  <2>3. UNCHANGED <<catalogue, up, fpWalker, rows, nextRev, fresh, reported,
                    walkDone, eventSet, stored, seen, todo, need, yielded,
                    batch, steady, moved, edits, faults>>
    BY <1>16 DEF Refuse, Release
  <2>4. FpHasList'
    BY <1>16 DEF TypeOK, Refuse, Release
  <2>5. TypeOK'
    BY <2>1, <2>2, <2>3 DEF TypeOK
  <2> QED
    BY <2>4, <2>5
<1>17. ASSUME NEW w \in Walker, FailStamp(w)
      PROVE  TypeInv'
  <2>1. TypeOK'
    BY <1>17 DEF TypeOK, FailStamp
  <2>2. FpHasList'
    BY <1>17 DEF TypeOK, FailStamp
  <2> QED
    BY <2>1, <2>2
<1>18. ASSUME NEW w \in Walker, Cleanup(w)
      PROVE  TypeInv'
  <2>1. walking' \in BOOLEAN
    BY <1>18 DEF TypeOK, Cleanup, Forget, NothingStored, NothingToApply
  <2>2. eventSet' \in [Walker -> BOOLEAN]
    BY <1>18 DEF TypeOK, Cleanup, Forget, NothingStored, NothingToApply
  <2>3. pc' \in [Walker -> PCs]
    BY <1>18 DEF TypeOK, Cleanup, Forget, NothingStored, NothingToApply
  <2>4. stored' \in [Walker -> [Book -> Index \cup {NoRow}]]
    BY <1>18 DEF TypeOK, Cleanup, Forget, NothingStored, NothingToApply
  <2>5. seen' \in [Walker -> SUBSET Book]
    BY <1>18 DEF TypeOK, Cleanup, Forget, NothingStored, NothingToApply
  <2>6. todo' \in [Walker -> SUBSET SUBSET Book]
    BY <1>18 DEF TypeOK, Cleanup, Forget, NothingStored, NothingToApply
  <2>7. need' \in [Walker -> (SUBSET Book) \cup {None}]
    <3>1. need' = [need EXCEPT ![w] = None]
      BY <1>18 DEF Cleanup, Forget
    <3> QED
      BY <3>1, ListFacts DEF TypeOK
  <2>8. yielded' \in [Walker -> BOOLEAN]
    BY <1>18 DEF TypeOK, Cleanup, Forget, NothingStored, NothingToApply
  <2>9. batch' \in [Walker -> [Book -> Meta \cup {None}]]
    BY <1>18 DEF TypeOK, Cleanup, Forget, NothingStored, NothingToApply
  <2>10. steady' \in [Walker -> SUBSET Book]
    BY <1>18 DEF TypeOK, Cleanup, Forget, NothingStored, NothingToApply
  <2>11. moved' \in [Walker -> SUBSET Book]
    BY <1>18 DEF TypeOK, Cleanup, Forget, NothingStored, NothingToApply
  <2>12. UNCHANGED <<catalogue, up, fpWalker, rows, nextRev, fresh,
                     reported, walkDone, edits, faults>>
    BY <1>18 DEF Cleanup, Forget, NothingStored, NothingToApply
  <2>13. FpHasList'
    BY <1>18 DEF TypeOK, Cleanup, Forget, NothingStored, NothingToApply
  <2>14. TypeOK'
    BY <2>1, <2>2, <2>3, <2>4, <2>5, <2>6, <2>7, <2>8, <2>9, <2>10, <2>11,
       <2>12
    DEF TypeOK
  <2> QED
    BY <2>13, <2>14
<1>19. ASSUME NEW w \in Walker, ProviderRaises(w)
      PROVE  TypeInv'
  <2>1. walking' \in BOOLEAN
    BY <1>19 DEF TypeOK, ProviderRaises, Release
  <2>2. pc' \in [Walker -> PCs]
    BY <1>19 DEF TypeOK, ProviderRaises, Release
  <2>3. faults' \in 0 .. MaxFaults
    BY <1>19, LedgerAssumption DEF TypeOK, ProviderRaises
  <2>4. UNCHANGED <<catalogue, up, fpWalker, rows, nextRev, fresh, reported,
                    walkDone, eventSet, stored, seen, todo, need, yielded,
                    batch, steady, moved, edits>>
    BY <1>19 DEF ProviderRaises, Release
  <2>5. FpHasList'
    BY <1>19 DEF TypeOK, ProviderRaises, Release
  <2>6. TypeOK'
    BY <2>1, <2>2, <2>3, <2>4 DEF TypeOK
  <2> QED
    BY <2>5, <2>6
<1>20. ASSUME NEW w \in Walker, FallBack(w)
      PROVE  TypeInv'
  <2>1. pc' \in [Walker -> PCs]
    BY <1>20 DEF TypeOK, FallBack
  <2>2. todo' \in [Walker -> SUBSET SUBSET Book]
    BY <1>20, PagesFacts DEF TypeOK, FallBack
  <2>3. need' \in [Walker -> (SUBSET Book) \cup {None}]
    <3>1. need' = [need EXCEPT ![w] = None]
      BY <1>20 DEF FallBack
    <3> QED
      BY <3>1, ListFacts DEF TypeOK
  <2>4. yielded' \in [Walker -> BOOLEAN]
    BY <1>20 DEF TypeOK, FallBack
  <2>5. faults' \in 0 .. MaxFaults
    BY <1>20, LedgerAssumption DEF TypeOK, FallBack
  <2>6. UNCHANGED <<catalogue, up, fpWalker, rows, nextRev, fresh, reported,
                    walking, walkDone, eventSet, stored, seen, batch,
                    steady, moved, edits>>
    BY <1>20 DEF FallBack
  <2>7. FpHasList'
    BY <1>20 DEF TypeOK, FallBack
  <2>8. TypeOK'
    BY <2>1, <2>2, <2>3, <2>4, <2>5, <2>6 DEF TypeOK
  <2> QED
    BY <2>7, <2>8
<1>21. CASE UNCHANGED vars
  BY <1>21 DEF TypeOK, vars
<1>22. ASSUME NEW b \in Book, NEW slip \in [Walker -> SUBSET Book], Withdraw(b, slip)
      PROVE  TypeInv'
  <2>1. catalogue' \in [Book -> Meta \cup {None}]
    BY <1>22 DEF TypeOK, Withdraw
  <2>2. steady' \in [Walker -> SUBSET Book]
    BY <1>22 DEF TypeOK, Withdraw
  <2>3. todo' \in [Walker -> SUBSET SUBSET Book]
    BY <1>22 DEF TypeOK, Withdraw
  <2>4. edits' \in 0 .. MaxEdits
    BY <1>22, LedgerAssumption DEF TypeOK, Withdraw
  <2>5. UNCHANGED <<up, fpWalker, rows, nextRev, fresh, reported, walking,
                    walkDone, eventSet, pc, stored, seen, need,
                    yielded, batch, faults>>
    BY <1>22 DEF Withdraw
  <2>8. moved' \in [Walker -> SUBSET Book]
    BY <1>22 DEF TypeOK, Withdraw
  <2>6. FpHasList'
    BY <1>22 DEF TypeOK, Withdraw
  <2>7. TypeOK'
    BY <2>1, <2>2, <2>3, <2>4, <2>5, <2>8 DEF TypeOK
  <2> QED
    BY <2>6, <2>7
<1> QED
  BY <1>1, <1>2, <1>3, <1>4, <1>5, <1>6, <1>7, <1>8, <1>9, <1>10, <1>11,
     <1>12, <1>13, <1>14, <1>15, <1>16, <1>17, <1>18, <1>19, <1>20, <1>21, <1>22
  DEF Next, Environment, WalkStep

---------------------------------------------------------------------------
(* Coverage: what was served throughout is seen.                           *)

(* Only an edit, an outage or the start of a walk moves either side.       *)
LEMMA SteadyStep == TypeOK /\ SteadyIsServed /\ [Next]_vars => SteadyIsServed'
<1> SUFFICES ASSUME TypeOK, SteadyIsServed, [Next]_vars
             PROVE  SteadyIsServed'
  OBVIOUS
<1> USE DEF provider, table, claimVars, walkVars, history
<1>1. ASSUME NEW b \in Book, NEW m \in Meta \cup {None}, Edit(b, m)
      PROVE  SteadyIsServed'
  <2>1. CASE m = None
    BY <1>1, <2>1 DEF SteadyIsServed, TypeOK, Served, Serves, Edit
  <2>2. CASE m # None
    BY <1>1, <2>2 DEF SteadyIsServed, TypeOK, Served, Serves, Edit
  <2> QED
    BY <2>1, <2>2
<1>2. ASSUME GoDown
      PROVE  SteadyIsServed'
  BY <1>2 DEF SteadyIsServed, TypeOK, Served, Serves, GoDown
<1>3. ASSUME ComeUp
      PROVE  SteadyIsServed'
  BY <1>3 DEF SteadyIsServed, TypeOK, Served, Serves, ComeUp
<1>4. ASSUME AgeOut
      PROVE  SteadyIsServed'
  BY <1>4 DEF SteadyIsServed, TypeOK, Served, Serves, AgeOut
<1>5. ASSUME NEW k \in Key, NEW rev \in 0 .. nextRev - 1, RecordDevice(k, rev)
      PROVE  SteadyIsServed'
  BY <1>5 DEF SteadyIsServed, TypeOK, Served, Serves, RecordDevice
<1>6. ASSUME Restart
      PROVE  SteadyIsServed'
  BY <1>6 DEF SteadyIsServed, TypeOK, Served, Serves, Restart
<1>7. ASSUME NEW w \in Walker, Claim(w)
      PROVE  SteadyIsServed'
  BY <1>7 DEF SteadyIsServed, TypeOK, Served, Serves, Claim
<1>8. ASSUME NEW w \in Walker, Snapshot(w)
      PROVE  SteadyIsServed'
  BY <1>8 DEF SteadyIsServed, TypeOK, Served, Serves, Snapshot
<1>9. ASSUME NEW w \in Walker, NEW p \in todo[w], FpPage(w, p)
      PROVE  SteadyIsServed'
  BY <1>9 DEF SteadyIsServed, TypeOK, Served, Serves, FpPage
<1>10. ASSUME NEW w \in Walker, FpDone(w)
      PROVE  SteadyIsServed'
  BY <1>10 DEF SteadyIsServed, TypeOK, Served, Serves, FpDone
<1>11. ASSUME NEW w \in Walker, NEW p \in todo[w], FetchPage(w, p)
      PROVE  SteadyIsServed'
  BY <1>11 DEF SteadyIsServed, TypeOK, Served, Serves, FetchPage
<1>12. ASSUME NEW w \in Walker, CommitPage(w)
      PROVE  SteadyIsServed'
  BY <1>12 DEF SteadyIsServed, TypeOK, Served, Serves, CommitPage
<1>13. ASSUME NEW w \in Walker, PageDone(w)
      PROVE  SteadyIsServed'
  BY <1>13 DEF SteadyIsServed, TypeOK, Served, Serves, PageDone
<1>14. ASSUME NEW w \in Walker, Tombstone(w)
      PROVE  SteadyIsServed'
  BY <1>14 DEF SteadyIsServed, TypeOK, Served, Serves, Tombstone
<1>15. ASSUME NEW w \in Walker, Finish(w)
      PROVE  SteadyIsServed'
  BY <1>15 DEF SteadyIsServed, TypeOK, Served, Serves, Finish
<1>16. ASSUME NEW w \in Walker, Refuse(w)
      PROVE  SteadyIsServed'
  BY <1>16 DEF SteadyIsServed, TypeOK, Served, Serves, Refuse, Release
<1>17. ASSUME NEW w \in Walker, FailStamp(w)
      PROVE  SteadyIsServed'
  BY <1>17 DEF SteadyIsServed, TypeOK, Served, Serves, FailStamp
<1>18. ASSUME NEW w \in Walker, Cleanup(w)
      PROVE  SteadyIsServed'
  BY <1>18 DEF SteadyIsServed, TypeOK, Served, Serves, Cleanup, Forget
<1>19. ASSUME NEW w \in Walker, ProviderRaises(w)
      PROVE  SteadyIsServed'
  BY <1>19 DEF SteadyIsServed, TypeOK, Served, Serves, ProviderRaises, Release
<1>20. ASSUME NEW w \in Walker, FallBack(w)
      PROVE  SteadyIsServed'
  BY <1>20 DEF SteadyIsServed, TypeOK, Served, Serves, FallBack
<1>21. CASE UNCHANGED vars
  BY <1>21 DEF SteadyIsServed, TypeOK, Served, Serves, vars
<1>22. ASSUME NEW b \in Book, NEW slip \in [Walker -> SUBSET Book], Withdraw(b, slip)
      PROVE  SteadyIsServed'
  BY <1>22 DEF SteadyIsServed, TypeOK, Served, Serves, Withdraw
<1> QED
  BY <1>1, <1>2, <1>3, <1>4, <1>5, <1>6, <1>7, <1>8, <1>9, <1>10, <1>11,
     <1>12, <1>13, <1>14, <1>15, <1>16, <1>17, <1>18, <1>19, <1>20, <1>21, <1>22
  DEF Next, Environment, WalkStep

(* FpPage, FetchPage, FpDone, PageDone and FallBack are the steps that     *)
(* count: what they take off the list of pages they put into the seen set. *)
LEMMA CoverStep ==
  TypeInv /\ SteadyIsServed /\ SteadyIsCovered /\ [Next]_vars => SteadyIsCovered'
<1> SUFFICES ASSUME TypeInv, SteadyIsServed, SteadyIsCovered, [Next]_vars
             PROVE  SteadyIsCovered'
  OBVIOUS
<1> USE DEF provider, table, claimVars, walkVars, history
<1> USE DEF SteadyIsCovered, Collecting, TypeInv, TypeOK, FpHasList
<1>1. ASSUME NEW b \in Book, NEW m \in Meta \cup {None}, Edit(b, m)
      PROVE  SteadyIsCovered'
  BY <1>1 DEF Edit
<1>2. ASSUME GoDown
      PROVE  SteadyIsCovered'
  BY <1>2 DEF GoDown
<1>3. ASSUME ComeUp
      PROVE  SteadyIsCovered'
  BY <1>3 DEF ComeUp
<1>4. ASSUME AgeOut
      PROVE  SteadyIsCovered'
  BY <1>4 DEF AgeOut
<1>5. ASSUME NEW k \in Key, NEW rev \in 0 .. nextRev - 1, RecordDevice(k, rev)
      PROVE  SteadyIsCovered'
  BY <1>5 DEF RecordDevice
<1>6. ASSUME Restart
      PROVE  SteadyIsCovered'
  BY <1>6 DEF Restart
<1>7. ASSUME NEW w \in Walker, Claim(w)
      PROVE  SteadyIsCovered'
  BY <1>7 DEF Claim
<1>8. ASSUME NEW w \in Walker, Snapshot(w)
      PROVE  SteadyIsCovered'
  <2>1. steady'[w] = Served /\ todo'[w] = Pages /\ seen' = seen
    BY <1>8 DEF Snapshot
  <2>2. (pc'[w] = "fp" \/ (pc'[w] = "page" /\ need'[w] = None))
    BY <1>8 DEF Snapshot
  <2>3. Served \subseteq UNION Pages
    BY LedgerAssumption, ServedFacts
  <2>4. steady'[w] \subseteq seen'[w] \cup UNION todo'[w]
    BY <2>1, <2>3
  <2>5. \A v \in Walker : v # w =>
           /\ pc'[v] = pc[v]
           /\ steady'[v] = steady[v]
           /\ seen'[v] = seen[v]
           /\ todo'[v] = todo[v]
           /\ need'[v] = need[v]
    BY <1>8 DEF Snapshot
  <2> QED
    BY <2>2, <2>4, <2>5
<1>9. ASSUME NEW w \in Walker, NEW p \in todo[w], FpPage(w, p)
      PROVE  SteadyIsCovered'
  BY <1>9 DEF SteadyIsServed, FpPage
<1>10. ASSUME NEW w \in Walker, FpDone(w)
      PROVE  SteadyIsCovered'
  <2>1. todo[w] = {} /\ UNCHANGED <<steady, seen, need>>
    BY <1>10 DEF FpDone
  <2>2. steady[w] \subseteq seen[w]
    BY <1>10, <2>1 DEF FpDone
  <2>3. \A v \in Walker : v # w => pc'[v] = pc[v] /\ todo'[v] = todo[v]
    BY <1>10 DEF FpDone
  <2> QED
    BY <2>1, <2>2, <2>3
<1>11. ASSUME NEW w \in Walker, NEW p \in todo[w], FetchPage(w, p)
      PROVE  SteadyIsCovered'
  BY <1>11 DEF SteadyIsServed, FetchPage
<1>12. ASSUME NEW w \in Walker, CommitPage(w)
      PROVE  SteadyIsCovered'
  BY <1>12 DEF CommitPage
<1>13. ASSUME NEW w \in Walker, PageDone(w)
      PROVE  SteadyIsCovered'
  BY <1>13 DEF PageDone
<1>14. ASSUME NEW w \in Walker, Tombstone(w)
      PROVE  SteadyIsCovered'
  BY <1>14 DEF Tombstone
<1>15. ASSUME NEW w \in Walker, Finish(w)
      PROVE  SteadyIsCovered'
  BY <1>15 DEF Finish
<1>16. ASSUME NEW w \in Walker, Refuse(w)
      PROVE  SteadyIsCovered'
  BY <1>16 DEF Refuse, Release
<1>17. ASSUME NEW w \in Walker, FailStamp(w)
      PROVE  SteadyIsCovered'
  BY <1>17 DEF FailStamp
<1>18. ASSUME NEW w \in Walker, Cleanup(w)
      PROVE  SteadyIsCovered'
  BY <1>18 DEF Cleanup, Forget
<1>19. ASSUME NEW w \in Walker, ProviderRaises(w)
      PROVE  SteadyIsCovered'
  BY <1>19 DEF ProviderRaises, Release
<1>20. ASSUME NEW w \in Walker, FallBack(w)
      PROVE  SteadyIsCovered'
  BY <1>20, LedgerAssumption DEF FallBack
<1>21. CASE UNCHANGED vars
  BY <1>21 DEF SteadyIsServed, vars
<1>22. ASSUME NEW b \in Book, NEW slip \in [Walker -> SUBSET Book], Withdraw(b, slip)
      PROVE  SteadyIsCovered'
  <2>1. UNCHANGED <<pc, seen, need>>
    BY <1>22 DEF Withdraw
  <2>2. ASSUME NEW w \in Walker
        PROVE  /\ steady'[w] = steady[w] \ (slip[w] \cup {b})
               /\ (UNION todo[w]) \ slip[w] \subseteq UNION todo'[w]
    <3>1. todo'[w] = {p \ slip[w] : p \in todo[w]}
      BY <1>22 DEF Withdraw
    <3>2. ASSUME NEW c \in (UNION todo[w]) \ slip[w]
          PROVE  c \in UNION todo'[w]
      <4>1. PICK p \in todo[w] : c \in p
        OBVIOUS
      <4>2. c \in p \ slip[w] /\ p \ slip[w] \in todo'[w]
        BY <3>1, <4>1
      <4> QED
        BY <4>2
    <3> QED
      BY <1>22, <3>2 DEF Withdraw
  <2> HIDE DEF Collecting
  <2>3. \A w \in Walker : Collecting(w)' = Collecting(w)
    BY <2>1 DEF Collecting
  <2> SUFFICES ASSUME NEW w \in Walker, pc[w] \in {"fp", "page", "commit", "tombstones"}
               PROVE  steady'[w] \subseteq
                        seen[w] \cup (IF Collecting(w) THEN UNION todo'[w] ELSE {})
    BY <2>1, <2>3
  <2>4. steady[w] \subseteq seen[w] \cup (IF Collecting(w) THEN UNION todo[w] ELSE {})
    OBVIOUS
  <2> QED
    BY <2>2, <2>4
<1> QED
  BY <1>1, <1>2, <1>3, <1>4, <1>5, <1>6, <1>7, <1>8, <1>9, <1>10, <1>11,
     <1>12, <1>13, <1>14, <1>15, <1>16, <1>17, <1>18, <1>19, <1>20, <1>21, <1>22
  DEF Next, Environment, WalkStep

---------------------------------------------------------------------------
(* Refusal: a walk that was served nothing has nothing to bury.            *)

(* What is yielded or queued has been seen, step by step.                  *)
LEMMA SeenStep ==
  TypeInv /\ YieldIsSeen /\ QueuedAreSeen /\ [Next]_vars =>
    (YieldIsSeen /\ QueuedAreSeen)'
<1> SUFFICES ASSUME TypeInv, YieldIsSeen, QueuedAreSeen, [Next]_vars
             PROVE  (YieldIsSeen /\ QueuedAreSeen)'
  OBVIOUS
<1> USE DEF provider, table, claimVars, walkVars, history
<1> USE DEF YieldIsSeen, QueuedAreSeen, TypeInv, FpHasList
<1>1. ASSUME NEW b \in Book, NEW m \in Meta \cup {None}, Edit(b, m)
      PROVE  (YieldIsSeen /\ QueuedAreSeen)'
  BY <1>1 DEF TypeOK, Edit
<1>2. ASSUME GoDown
      PROVE  (YieldIsSeen /\ QueuedAreSeen)'
  BY <1>2 DEF TypeOK, GoDown
<1>3. ASSUME ComeUp
      PROVE  (YieldIsSeen /\ QueuedAreSeen)'
  BY <1>3 DEF TypeOK, ComeUp
<1>4. ASSUME AgeOut
      PROVE  (YieldIsSeen /\ QueuedAreSeen)'
  BY <1>4 DEF TypeOK, AgeOut
<1>5. ASSUME NEW k \in Key, NEW rev \in 0 .. nextRev - 1, RecordDevice(k, rev)
      PROVE  (YieldIsSeen /\ QueuedAreSeen)'
  BY <1>5 DEF TypeOK, RecordDevice
<1>6. ASSUME Restart
      PROVE  (YieldIsSeen /\ QueuedAreSeen)'
  BY <1>6 DEF TypeOK, Restart
<1>7. ASSUME NEW w \in Walker, Claim(w)
      PROVE  (YieldIsSeen /\ QueuedAreSeen)'
  BY <1>7 DEF TypeOK, Claim
<1>8. ASSUME NEW w \in Walker, Snapshot(w)
      PROVE  (YieldIsSeen /\ QueuedAreSeen)'
  BY <1>8 DEF TypeOK, Snapshot
<1>9. ASSUME NEW w \in Walker, NEW p \in todo[w], FpPage(w, p)
      PROVE  (YieldIsSeen /\ QueuedAreSeen)'
  BY <1>9 DEF TypeOK, FpPage
<1>10. ASSUME NEW w \in Walker, FpDone(w)
      PROVE  (YieldIsSeen /\ QueuedAreSeen)'
  BY <1>10 DEF TypeOK, FpDone
<1>11. ASSUME NEW w \in Walker, NEW p \in todo[w], FetchPage(w, p)
      PROVE  (YieldIsSeen /\ QueuedAreSeen)'
  BY <1>11 DEF TypeOK, FetchPage
<1>12. ASSUME NEW w \in Walker, CommitPage(w)
      PROVE  (YieldIsSeen /\ QueuedAreSeen)'
  BY <1>12 DEF TypeOK, CommitPage
<1>13. ASSUME NEW w \in Walker, PageDone(w)
      PROVE  (YieldIsSeen /\ QueuedAreSeen)'
  BY <1>13 DEF TypeOK, PageDone
<1>14. ASSUME NEW w \in Walker, Tombstone(w)
      PROVE  (YieldIsSeen /\ QueuedAreSeen)'
  BY <1>14 DEF TypeOK, Tombstone
<1>15. ASSUME NEW w \in Walker, Finish(w)
      PROVE  (YieldIsSeen /\ QueuedAreSeen)'
  BY <1>15 DEF TypeOK, Finish
<1>16. ASSUME NEW w \in Walker, Refuse(w)
      PROVE  (YieldIsSeen /\ QueuedAreSeen)'
  BY <1>16 DEF TypeOK, Refuse, Release
<1>17. ASSUME NEW w \in Walker, FailStamp(w)
      PROVE  (YieldIsSeen /\ QueuedAreSeen)'
  BY <1>17 DEF TypeOK, FailStamp
<1>18. ASSUME NEW w \in Walker, Cleanup(w)
      PROVE  (YieldIsSeen /\ QueuedAreSeen)'
  BY <1>18 DEF TypeOK, Cleanup, Forget
<1>19. ASSUME NEW w \in Walker, ProviderRaises(w)
      PROVE  (YieldIsSeen /\ QueuedAreSeen)'
  BY <1>19 DEF TypeOK, ProviderRaises, Release
<1>20. ASSUME NEW w \in Walker, FallBack(w)
      PROVE  (YieldIsSeen /\ QueuedAreSeen)'
  BY <1>20 DEF TypeOK, FallBack
<1>21. CASE UNCHANGED vars
  BY <1>21 DEF TypeOK, vars
<1>22. ASSUME NEW b \in Book, NEW slip \in [Walker -> SUBSET Book], Withdraw(b, slip)
      PROVE  (YieldIsSeen /\ QueuedAreSeen)'
  BY <1>22 DEF TypeOK, Withdraw
<1> QED
  BY <1>1, <1>2, <1>3, <1>4, <1>5, <1>6, <1>7, <1>8, <1>9, <1>10, <1>11,
     <1>12, <1>13, <1>14, <1>15, <1>16, <1>17, <1>18, <1>19, <1>20, <1>21, <1>22
  DEF Next, Environment, WalkStep

(* An empty listing never becomes a wipe, step by step.                    *)
LEMMA EmptyStep ==
  TypeInv /\ YieldIsSeen /\ QueuedAreSeen /\ EmptyNeverWipes /\ [Next]_vars =>
    EmptyNeverWipes'
<1> SUFFICES ASSUME TypeInv, YieldIsSeen, QueuedAreSeen, EmptyNeverWipes,
                    [Next]_vars
             PROVE  EmptyNeverWipes'
  OBVIOUS
<1> USE DEF provider, table, claimVars, walkVars, history
<1> USE DEF EmptyNeverWipes, YieldIsSeen, QueuedAreSeen, MissedBy, TypeInv
<1>1. ASSUME NEW b \in Book, NEW m \in Meta \cup {None}, Edit(b, m)
      PROVE  EmptyNeverWipes'
  BY <1>1 DEF TypeOK, Edit
<1>2. ASSUME GoDown
      PROVE  EmptyNeverWipes'
  BY <1>2 DEF TypeOK, GoDown
<1>3. ASSUME ComeUp
      PROVE  EmptyNeverWipes'
  BY <1>3 DEF TypeOK, ComeUp
<1>4. ASSUME AgeOut
      PROVE  EmptyNeverWipes'
  BY <1>4 DEF TypeOK, AgeOut
<1>5. ASSUME NEW k \in Key, NEW rev \in 0 .. nextRev - 1, RecordDevice(k, rev)
      PROVE  EmptyNeverWipes'
  BY <1>5 DEF TypeOK, RecordDevice
<1>6. ASSUME Restart
      PROVE  EmptyNeverWipes'
  BY <1>6 DEF TypeOK, Restart
<1>7. ASSUME NEW w \in Walker, Claim(w)
      PROVE  EmptyNeverWipes'
  BY <1>7 DEF TypeOK, Claim
<1>8. ASSUME NEW w \in Walker, Snapshot(w)
      PROVE  EmptyNeverWipes'
  BY <1>8 DEF TypeOK, Snapshot
<1>9. ASSUME NEW w \in Walker, NEW p \in todo[w], FpPage(w, p)
      PROVE  EmptyNeverWipes'
  BY <1>9 DEF TypeOK, FpPage
<1>10. ASSUME NEW w \in Walker, FpDone(w)
      PROVE  EmptyNeverWipes'
  <2>1. UNCHANGED <<stored, seen>>
    BY <1>10 DEF FpDone
  <2>2. \A v \in Walker : v # w => pc'[v] = pc[v]
    BY <1>10 DEF TypeOK, FpDone
  <2>3. ASSUME pc'[w] = "tombstones", ~AckEmpty, MissedBy(w) # {}
        PROVE  seen[w] # {}
    <3>1. ~Empty(stored[w])
      BY <2>3 DEF Empty
    <3>2. CASE Refuses(w) \/ yielded[w]
      BY <1>10, <2>3, <3>1, <3>2 DEF FpDone, Refuses
    <3>3. CASE ~Refuses(w) /\ ~yielded[w]
      BY <2>3, <3>1, <3>3 DEF Refuses
    <3> QED
      BY <3>2, <3>3
  <2> QED
    BY <2>1, <2>2, <2>3
<1>11. ASSUME NEW w \in Walker, NEW p \in todo[w], FetchPage(w, p)
      PROVE  EmptyNeverWipes'
  BY <1>11 DEF TypeOK, FetchPage
<1>12. ASSUME NEW w \in Walker, CommitPage(w)
      PROVE  EmptyNeverWipes'
  BY <1>12 DEF TypeOK, CommitPage
<1>13. ASSUME NEW w \in Walker, PageDone(w)
      PROVE  EmptyNeverWipes'
  <2>1. UNCHANGED <<stored, seen>>
    BY <1>13 DEF PageDone
  <2>2. \A v \in Walker : v # w => pc'[v] = pc[v]
    BY <1>13 DEF TypeOK, PageDone
  <2>3. ASSUME pc'[w] = "tombstones", ~AckEmpty, MissedBy(w) # {}
        PROVE  seen[w] # {}
    <3>1. ~Empty(stored[w])
      BY <2>3 DEF Empty
    <3>2. CASE Refuses(w) \/ yielded[w]
      BY <1>13, <2>3, <3>1, <3>2 DEF PageDone, Refuses
    <3>3. CASE ~Refuses(w) /\ ~yielded[w]
      BY <2>3, <3>1, <3>3 DEF Refuses
    <3> QED
      BY <3>2, <3>3
  <2> QED
    BY <2>1, <2>2, <2>3
<1>14. ASSUME NEW w \in Walker, Tombstone(w)
      PROVE  EmptyNeverWipes'
  BY <1>14 DEF TypeOK, Tombstone
<1>15. ASSUME NEW w \in Walker, Finish(w)
      PROVE  EmptyNeverWipes'
  BY <1>15 DEF TypeOK, Finish
<1>16. ASSUME NEW w \in Walker, Refuse(w)
      PROVE  EmptyNeverWipes'
  BY <1>16 DEF TypeOK, Refuse, Release
<1>17. ASSUME NEW w \in Walker, FailStamp(w)
      PROVE  EmptyNeverWipes'
  BY <1>17 DEF TypeOK, FailStamp
<1>18. ASSUME NEW w \in Walker, Cleanup(w)
      PROVE  EmptyNeverWipes'
  BY <1>18 DEF TypeOK, Cleanup, Forget
<1>19. ASSUME NEW w \in Walker, ProviderRaises(w)
      PROVE  EmptyNeverWipes'
  BY <1>19 DEF TypeOK, ProviderRaises, Release
<1>20. ASSUME NEW w \in Walker, FallBack(w)
      PROVE  EmptyNeverWipes'
  BY <1>20 DEF TypeOK, FallBack
<1>21. CASE UNCHANGED vars
  BY <1>21 DEF TypeOK, vars
<1>22. ASSUME NEW b \in Book, NEW slip \in [Walker -> SUBSET Book], Withdraw(b, slip)
      PROVE  EmptyNeverWipes'
  BY <1>22 DEF TypeOK, Withdraw
<1> QED
  BY <1>1, <1>2, <1>3, <1>4, <1>5, <1>6, <1>7, <1>8, <1>9, <1>10, <1>11,
     <1>12, <1>13, <1>14, <1>15, <1>16, <1>17, <1>18, <1>19, <1>20, <1>21, <1>22
  DEF Next, Environment, WalkStep

---------------------------------------------------------------------------
(* The invariant, and what follows from it.                                *)

(* The ledger starts inside the invariant.                                 *)
LEMMA LedgerInvInit == Init => LedgerInv
<1> SUFFICES ASSUME Init
             PROVE  LedgerInv
  OBVIOUS
<1> USE LedgerAssumption DEF Init
<1>1. TypeOK
  <2>1. need \in [Walker -> (SUBSET Book) \cup {None}]
    BY ListFacts
  <2>2. /\ stored \in [Walker -> [Book -> Index \cup {NoRow}]]
        /\ batch \in [Walker -> [Book -> Meta \cup {None}]]
    BY DEF NothingStored, NothingToApply
  <2>3. /\ seen \in [Walker -> SUBSET Book]
        /\ todo \in [Walker -> SUBSET SUBSET Book]
        /\ steady \in [Walker -> SUBSET Book]
        /\ moved \in [Walker -> SUBSET Book]
    OBVIOUS
  <2>4. /\ pc \in [Walker -> PCs]
        /\ yielded \in [Walker -> BOOLEAN]
        /\ eventSet \in [Walker -> BOOLEAN]
    BY DEF PCs
  <2>5. /\ catalogue \in [Book -> Meta \cup {None}]
        /\ rows \in [Book -> Row \cup {NoRow}]
        /\ reported \in [Key -> Nat \cup {NoReport}]
    OBVIOUS
  <2>6. up \in BOOLEAN /\ fresh \in BOOLEAN /\ walking \in BOOLEAN
    OBVIOUS
  <2>7. nextRev \in Nat \ {0} /\ walkDone \in Walker \cup {None}
    OBVIOUS
  <2>8. /\ edits \in 0 .. MaxEdits
        /\ faults \in 0 .. MaxFaults
    OBVIOUS
  <2>9. fpWalker \in BOOLEAN
    OBVIOUS
  <2> QED
    BY <2>1, <2>2, <2>3, <2>4, <2>5, <2>6, <2>7, <2>8, <2>9
    DEF TypeOK
<1>2. \A w \in Walker :
        /\ pc[w] = "idle"
        /\ steady[w] = {}
        /\ yielded[w] = FALSE
  OBVIOUS
<1> QED
  BY <1>1, <1>2
  DEF LedgerInv, TypeInv, FpHasList, SteadyIsServed, SteadyIsCovered,
      YieldIsSeen, QueuedAreSeen, EmptyNeverWipes

(* Every step of every walker.                                             *)
LEMMA LedgerInvStep == LedgerInv /\ [Next]_vars => LedgerInv'
BY TypeStep, SteadyStep, CoverStep, SeenStep, EmptyStep DEF LedgerInv, TypeInv

(* The invariant of the ledger.                                            *)
LEMMA LedgerInvHolds == Spec => []LedgerInv
<1> QED
  BY LedgerInvInit, LedgerInvStep, PTL DEF Spec

(* Every variable of the ledger, of the walks and of the provider keeps    *)
(* its type (the state of SyncLedger and the locals of _walk).             *)
THEOREM LedgerTypeCorrect == Spec => []TypeOK
<1>1. LedgerInv => TypeOK
  BY DEF LedgerInv, TypeInv
<1> QED
  BY <1>1, LedgerInvHolds, PTL

(* No walk buries a book that was served throughout it, by whichever pass  *)
(* it came to its end and however many walks overlap (_walk's `gone').     *)
THEOREM NoServedBookIsBuried == Spec => []NoFalseTombstone
<1>1. LedgerInv => NoFalseTombstone
  BY DEF LedgerInv, SteadyIsCovered, Collecting, NoFalseTombstone, MissedBy
<1> QED
  BY <1>1, LedgerInvHolds, PTL

(* A walk that was served nothing buries nothing unless the operator has   *)
(* acknowledged an empty catalogue (the "refusing to tombstone" guards).   *)
THEOREM EmptyAnswerBuriesNothing == Spec => []EmptyNeverWipes
<1>1. LedgerInv => EmptyNeverWipes
  BY DEF LedgerInv
<1> QED
  BY <1>1, LedgerInvHolds, PTL

---------------------------------------------------------------------------
(* A walk touches no row that says what the library says.                  *)

(* Walks that overlap have stale indexes and rewrite each other's rows,    *)
(* and an undated book, stored as a tombstone, is rewritten by every walk. *)
OneWalker == \A v, w \in Walker : v = w
AllDated == \A m \in Meta : m.dated

(* What a lone walk goes by is true: its index is the table, what it has   *)
(* queued differs from it unless it was edited since, and so does what it  *)
(* is about to write, which it has taken off its list.                     *)
IndexIsCurrent(w) ==
  pc[w] \in {"fp", "page", "commit", "tombstones"} =>
    \A b \in Book : stored[w][b] = IndexOf(rows[b])

QueuedDiffer(w) ==
  pc[w] \in {"fp", "page", "commit"} =>
    \A b \in Queued(w) :
      b \in moved[w] \/ (catalogue[b] # None /\ Differs(stored[w][b], catalogue[b]))

BatchDiffers(w) ==
  pc[w] = "commit" =>
    \A b \in Book : batch[w][b] # None =>
      b \notin Queued(w) /\ (b \in moved[w] \/ Differs(stored[w][b], batch[w][b]))

WalkIsCurrent(w) == IndexIsCurrent(w) /\ QueuedDiffer(w) /\ BatchDiffers(w)
ChurnInv == \A w \in Walker : WalkIsCurrent(w)

(* What is queued is what is needed, once it is known.                     *)
LEMMA QueuedFacts ==
  ASSUME NEW w \in Walker
  PROVE  /\ need[w] = None => Queued(w) = {}
         /\ need[w] # None => Queued(w) = need[w]
BY DEF Queued

(* A row that was written from the library has the index taken of it.      *)
LEMMA RowIndex ==
  ASSUME NEW m \in Meta, NEW n \in Nat \ {0}
  PROVE  /\ IndexOf(LedgerRow(m, n)) = IndexOfMeta(m)
         /\ LedgerRow(m, n) # NoRow /\ IndexOfMeta(m) # NoRow
<1>1. m \in [title : STRING, genre : STRING, dated : BOOLEAN]
  BY LedgerAssumption
<1>2. LedgerRow(m, n) \in [rev : Nat, live : BOOLEAN, meta : Meta]
  BY <1>1 DEF LedgerRow
<1>3. LedgerRow(m, n) # NoRow
  BY <1>2, LedgerAssumption
<1>4. fingerprint(m) \in STRING \X BOOLEAN
  BY <1>1 DEF fingerprint
<1>5. IndexOfMeta(m) \in [fp : STRING \X BOOLEAN, live : BOOLEAN]
  BY <1>1, <1>4 DEF IndexOfMeta
<1>6. IndexOfMeta(m) # NoRow
  BY <1>5, LedgerAssumption
<1> QED
  BY <1>3, <1>6 DEF IndexOf, LedgerRow, IndexOfMeta

(* The entry of a row has its fingerprint and its life.                    *)
LEMMA IndexedRow ==
  ASSUME NEW row \in Row
  PROVE  /\ row # NoRow /\ IndexOf(row) # NoRow
         /\ IndexOf(row).fp = fingerprint(row.meta) /\ IndexOf(row).live = row.live
<1>1. row \in [rev : Nat, live : BOOLEAN, meta : Meta] /\ row.meta \in Meta /\ row.live \in BOOLEAN
  BY DEF Row
<1>2. row # NoRow
  BY <1>1, LedgerAssumption
<1>3. row.meta \in [title : STRING, genre : STRING, dated : BOOLEAN]
  BY <1>1, LedgerAssumption
<1>4. fingerprint(row.meta) \in STRING \X BOOLEAN
  BY <1>3 DEF fingerprint
<1>5. IndexOf(row) = [fp |-> fingerprint(row.meta), live |-> row.live]
  BY <1>2 DEF IndexOf
<1>6. IndexOf(row) \in [fp : STRING \X BOOLEAN, live : BOOLEAN]
  BY <1>1, <1>4, <1>5
<1>7. IndexOf(row) # NoRow
  BY <1>6, LedgerAssumption
<1> QED
  BY <1>2, <1>5, <1>7

(* What a lone walk commits is what it has: with a current index the       *)
(* statements of a page all match.                                         *)
LEMMA CommitFacts ==
  ASSUME TypeOK, ChurnInv, NEW w \in Walker, CommitPage(w)
  PROVE  \A b \in Book :
           IF batch[w][b] # None
           THEN /\ batch[w][b] \in Meta
                /\ \E n \in Nat \ {0} : rows'[b] = LedgerRow(batch[w][b], n)
                /\ stored'[w][b] = IndexOfMeta(batch[w][b])
           ELSE rows'[b] = rows[b] /\ stored'[w][b] = stored[w][b]
<1> DEFINE put == {b \in Book : batch[w][b] # None}
           inserts == {b \in put : stored[w][b] = NoRow}
           written == {b \in put : (b \in inserts) <=> (rows[b] = NoRow)}
<1>1. put \in SUBSET Book /\ \A b \in put : batch[w][b] \in Meta
  BY DEF TypeOK
<1>2. PICK r \in Numbering(put) :
        rows' = [b \in Book |->
                   IF b \in written THEN LedgerRow(batch[w][b], r[b]) ELSE rows[b]]
  BY DEF CommitPage
<1>3. \A b \in Book : stored'[w][b] =
        IF b \in put THEN IndexOfMeta(batch[w][b]) ELSE stored[w][b]
  BY DEF CommitPage, TypeOK
<1>4. \A b \in Book : stored[w][b] = NoRow <=> rows[b] = NoRow
  <2> SUFFICES ASSUME NEW b \in Book
               PROVE  stored[w][b] = NoRow <=> rows[b] = NoRow
    OBVIOUS
  <2>1. stored[w][b] = IndexOf(rows[b])
    BY DEF ChurnInv, WalkIsCurrent, IndexIsCurrent, CommitPage
  <2>2. rows[b] \in Row \cup {NoRow}
    BY DEF TypeOK
  <2>3. CASE rows[b] = NoRow
    BY <2>1, <2>3 DEF IndexOf
  <2>4. CASE rows[b] \in Row
    BY <2>1, <2>4, IndexedRow
  <2> QED
    BY <2>2, <2>3, <2>4
<1>5. written = put
  BY <1>1, <1>4
<1> HIDE DEF written, inserts
<1>6. \A b \in put : r[b] \in Nat \ {0}
  <2> HIDE DEF put
  <2> QED
    BY <1>1, NumberingFacts
<1>7. \A b \in Book : rows'[b] = IF b \in put THEN LedgerRow(batch[w][b], r[b]) ELSE rows[b]
  BY <1>2, <1>5
<1> QED
  BY <1>1, <1>3, <1>6, <1>7

(* A walk that does not move keeps what it goes by as long as the table    *)
(* and the library stay.                                                   *)
LEMMA OthersCurrent ==
  ASSUME NEW v \in Walker, WalkIsCurrent(v), UNCHANGED <<rows, catalogue>>,
         pc'[v] = pc[v], stored'[v] = stored[v], need'[v] = need[v],
         batch'[v] = batch[v], moved'[v] = moved[v]
  PROVE  WalkIsCurrent(v)'
BY DEF WalkIsCurrent, IndexIsCurrent, QueuedDiffer, BatchDiffers, Queued, IndexOf, Differs

(* A walker that compares nothing has nothing to be stale.                 *)
LEMMA OffWalk ==
  ASSUME NEW v \in Walker, pc'[v] \notin {"fp", "page", "commit", "tombstones"}
  PROVE  WalkIsCurrent(v)'
BY DEF WalkIsCurrent, IndexIsCurrent, QueuedDiffer, BatchDiffers

(* No walker walks at the start.                                           *)
LEMMA OffWalkInit == Init => ChurnInv
BY DEF Init, ChurnInv, WalkIsCurrent, IndexIsCurrent, QueuedDiffer, BatchDiffers

(* Every step, for one walker.                                             *)
LEMMA ChurnStep ==
  ASSUME OneWalker, TypeInv, ChurnInv, [Next]_vars
  PROVE  ChurnInv'
<1> SUFFICES ASSUME NEW v \in Walker
             PROVE  WalkIsCurrent(v)'
  BY DEF ChurnInv
<1>0. WalkIsCurrent(v)
  BY DEF ChurnInv
<1> USE DEF provider, table, claimVars, walkVars, history
<1>1. ASSUME NEW b \in Book, NEW m \in Meta \cup {None},
             Edit(b, m) \/ (\E slip \in [Walker -> SUBSET Book] : m = None /\ Withdraw(b, slip))
      PROVE  WalkIsCurrent(v)'
  <2>1. /\ UNCHANGED <<rows, pc, stored, need, batch>>
        /\ catalogue' = [catalogue EXCEPT ![b] = m]
        /\ moved'[v] = IF b \in Queued(v) THEN moved[v] \cup {b} ELSE moved[v]
    BY <1>1 DEF Edit, Withdraw
  <2>2. Queued(v)' = Queued(v) /\ Queued(v) \subseteq Book
    BY <2>1 DEF Queued, TypeInv, TypeOK
  <2>3. IndexIsCurrent(v)'
    BY <1>0, <2>1 DEF WalkIsCurrent, IndexIsCurrent, IndexOf
  <2>4. QueuedDiffer(v)'
    <3> SUFFICES ASSUME pc[v] \in {"fp", "page", "commit"}, NEW c \in Queued(v), c \notin moved'[v]
                 PROVE  catalogue'[c] # None /\ Differs(stored[v][c], catalogue'[c])
      BY <2>1, <2>2 DEF QueuedDiffer, Differs
    <3>1. c # b /\ c \notin moved[v]
      BY <2>1
    <3>2. catalogue'[c] = catalogue[c]
      BY <2>1, <2>2, <3>1 DEF TypeInv, TypeOK
    <3> QED
      BY <1>0, <3>1, <3>2 DEF WalkIsCurrent, QueuedDiffer
  <2>5. BatchDiffers(v)'
    BY <1>0, <2>1, <2>2 DEF WalkIsCurrent, BatchDiffers, Differs
  <2> QED
    BY <2>3, <2>4, <2>5 DEF WalkIsCurrent
<1>2. ASSUME GoDown \/ ComeUp \/ AgeOut \/ UNCHANGED vars
             \/ \E k \in Key, rev \in 0 .. nextRev - 1 : RecordDevice(k, rev)
      PROVE  WalkIsCurrent(v)'
  <2>1. UNCHANGED <<rows, catalogue, pc, stored, need, batch, moved>>
    BY <1>2 DEF GoDown, ComeUp, AgeOut, RecordDevice, vars
  <2> QED
    BY <1>0, <2>1, OthersCurrent
<1>3. ASSUME Restart
      PROVE  WalkIsCurrent(v)'
  <2>1. pc'[v] = "idle"
    BY <1>3 DEF Restart
  <2> QED
    BY <2>1, OffWalk
<1>4. ASSUME NEW w \in Walker, Claim(w)
      PROVE  WalkIsCurrent(v)'
  <2>1. UNCHANGED <<rows, catalogue, stored, need, batch, moved>>
        /\ pc'[v] = IF v = w THEN "snapshot" ELSE pc[v]
    BY <1>4 DEF Claim, TypeInv, TypeOK
  <2> QED
    BY <1>0, <2>1, OthersCurrent, OffWalk
<1>5. ASSUME NEW w \in Walker, Snapshot(w)
      PROVE  WalkIsCurrent(v)'
  <2>1. v = w
    BY DEF OneWalker
  <2>2. /\ UNCHANGED <<rows, catalogue>>
        /\ pc'[v] \in {"fp", "page"} /\ need'[v] \in {{}, None}
        /\ stored'[v] = [b \in Book |-> IndexOf(rows[b])]
    BY <1>5, <2>1 DEF Snapshot, TypeInv, TypeOK
  <2>3. Queued(v)' = {}
    BY <2>2 DEF Queued
  <2> QED
    BY <2>2, <2>3 DEF WalkIsCurrent, IndexIsCurrent, QueuedDiffer, BatchDiffers, IndexOf
<1>6. ASSUME NEW w \in Walker, NEW p \in todo[w], FpPage(w, p)
      PROVE  WalkIsCurrent(v)'
  <2> DEFINE new == {b \in p \cap Served : Differs(stored[w][b], catalogue[b])}
  <2>1. v = w
    BY DEF OneWalker
  <2>2. /\ UNCHANGED <<rows, catalogue, pc, stored, batch, moved>>
        /\ pc[v] = "fp" /\ need[v] # None /\ need'[v] = need[v] \cup new /\ need'[v] # None
    <3>1. need[v] \in SUBSET Book /\ pc[v] = "fp"
      BY <1>6, <2>1 DEF TypeInv, FpHasList, FpPage
    <3>2. new \in SUBSET Book
      BY ServedFacts DEF TypeInv
    <3>3. /\ UNCHANGED <<rows, catalogue, pc, stored, batch, moved>>
          /\ need' = [need EXCEPT ![w] = need[w] \cup new]
      BY <1>6 DEF FpPage, TypeInv, TypeOK
    <3> HIDE DEF new
    <3>4. need'[v] = need[v] \cup new
      BY <2>1, <3>3 DEF TypeInv, TypeOK
    <3> QED
      BY <3>1, <3>2, <3>3, <3>4, LedgerAssumption
  <2>3. \A b \in new : catalogue[b] # None /\ Differs(stored[v][b], catalogue[b])
    BY <2>1, ServedFacts DEF TypeInv
  <2> HIDE DEF new
  <2>4. Queued(v)' = Queued(v) \cup new
    BY <2>2 DEF Queued
  <2> QED
    BY <1>0, <2>2, <2>3, <2>4
    DEF WalkIsCurrent, IndexIsCurrent, QueuedDiffer, BatchDiffers, IndexOf, Differs
<1>7. ASSUME NEW w \in Walker, FpDone(w)
      PROVE  WalkIsCurrent(v)'
  <2>1. v = w
    BY DEF OneWalker
  <2>2. /\ UNCHANGED <<rows, catalogue, stored, need, batch, moved>>
        /\ pc[v] = "fp" /\ pc'[v] \in {"page", "tombstones"}
    BY <1>7, <2>1 DEF FpDone, TypeInv, TypeOK
  <2>3. Queued(v)' = Queued(v)
    BY <2>2 DEF Queued
  <2> QED
    BY <1>0, <2>2, <2>3
    DEF WalkIsCurrent, IndexIsCurrent, QueuedDiffer, BatchDiffers, IndexOf, Differs
<1>8. ASSUME NEW w \in Walker, NEW p \in todo[w], FetchPage(w, p)
      PROVE  WalkIsCurrent(v)'
  <2> DEFINE plain == need[w] = None
             here == p \cap Served
             wanted == IF plain THEN {b \in here : Differs(stored[w][b], catalogue[b])}
                       ELSE here \cap need[w]
  <2>1. v = w
    BY DEF OneWalker
  <2>2. /\ UNCHANGED <<rows, catalogue, stored, moved>>
        /\ pc[v] = "page" /\ pc'[v] \in {"page", "commit"}
        /\ need' = [need EXCEPT ![w] = IF plain THEN None ELSE need[w] \ wanted]
        /\ batch' = [batch EXCEPT ![w] = [b \in Book |-> IF b \in wanted THEN catalogue[b] ELSE None]]
    BY <1>8, <2>1 DEF FetchPage, TypeInv, TypeOK
  <2>3. wanted \subseteq Served
    OBVIOUS
  <2>4. \A b \in wanted : b \in moved[v] \/ Differs(stored[v][b], catalogue[b])
    <3>1. CASE plain
      BY <2>1, <3>1
    <3>2. CASE ~ plain
      BY <1>0, <2>1, <2>2, <3>2 DEF WalkIsCurrent, QueuedDiffer, Queued
    <3> QED
      BY <3>1, <3>2
  <2>5. plain => wanted \cap Queued(v)' = {} /\ Queued(v)' = {}
    <3>1. plain => need'[v] = None
      BY <2>1, <2>2 DEF TypeInv, TypeOK
    <3> QED
      BY <3>1 DEF Queued
  <2>6. ~ plain => wanted \cap Queued(v)' = {} /\ Queued(v)' \subseteq Queued(v)
    <3> HIDE DEF wanted
    <3>1. ~ plain => need'[v] = need[v] \ wanted /\ need[v] # None
      BY <2>1, <2>2 DEF TypeInv, TypeOK
    <3> QED
      BY <3>1 DEF Queued
  <2> HIDE DEF plain, here, wanted
  <2>7. wanted \cap Queued(v)' = {} /\ Queued(v)' \subseteq Queued(v)
    BY <2>5, <2>6
  <2>8. \A b \in Book : batch'[v][b] # None =>
          b \in wanted /\ batch'[v][b] = catalogue[b]
    BY <2>1, <2>2 DEF TypeInv, TypeOK
  <2>9. IndexIsCurrent(v)'
    BY <1>0, <2>2 DEF WalkIsCurrent, IndexIsCurrent, IndexOf
  <2>10. QueuedDiffer(v)'
    BY <1>0, <2>2, <2>7 DEF WalkIsCurrent, QueuedDiffer, Differs
  <2>11. BatchDiffers(v)'
    BY <2>2, <2>4, <2>7, <2>8 DEF BatchDiffers, Differs
  <2> QED
    BY <2>9, <2>10, <2>11 DEF WalkIsCurrent
<1>9. ASSUME NEW w \in Walker, CommitPage(w)
      PROVE  WalkIsCurrent(v)'
  <2>1. v = w
    BY DEF OneWalker
  <2>2. \A b \in Book :
           IF batch[v][b] # None
           THEN /\ batch[v][b] \in Meta
                /\ \E n \in Nat \ {0} : rows'[b] = LedgerRow(batch[v][b], n)
                /\ stored'[v][b] = IndexOfMeta(batch[v][b])
           ELSE rows'[b] = rows[b] /\ stored'[v][b] = stored[v][b]
    BY <1>9, <2>1, CommitFacts DEF TypeInv
  <2>3. /\ UNCHANGED <<catalogue, need, moved>>
        /\ pc[v] = "commit" /\ pc'[v] = "page"
    BY <1>9, <2>1 DEF CommitPage, TypeInv, TypeOK
  <2>4. Queued(v)' = Queued(v) /\ Queued(v) \subseteq Book
    BY <2>3 DEF Queued, TypeInv, TypeOK
  <2>5. IndexIsCurrent(v)'
    <3> SUFFICES ASSUME NEW b \in Book
                 PROVE  stored'[v][b] = IndexOf(rows'[b])
      BY DEF IndexIsCurrent, IndexOf
    <3>1. CASE batch[v][b] # None
      BY <2>2, <3>1, RowIndex
    <3>2. CASE batch[v][b] = None
      BY <1>0, <2>2, <2>3, <3>2 DEF WalkIsCurrent, IndexIsCurrent
    <3> QED
      BY <3>1, <3>2
  <2>6. QueuedDiffer(v)'
    <3>1. \A b \in Queued(v) : stored'[v][b] = stored[v][b]
      BY <1>0, <2>2, <2>3, <2>4 DEF WalkIsCurrent, BatchDiffers
    <3> QED
      BY <1>0, <2>3, <2>4, <3>1 DEF WalkIsCurrent, QueuedDiffer, Differs
  <2>7. BatchDiffers(v)'
    BY <2>3 DEF BatchDiffers
  <2> QED
    BY <2>5, <2>6, <2>7 DEF WalkIsCurrent
<1>10. ASSUME NEW w \in Walker, PageDone(w)
      PROVE  WalkIsCurrent(v)'
  <2>1. v = w
    BY DEF OneWalker
  <2>2. /\ UNCHANGED <<rows, catalogue, stored, need, batch, moved>>
        /\ pc[v] = "page" /\ pc'[v] = "tombstones"
    BY <1>10, <2>1 DEF PageDone, TypeInv, TypeOK
  <2> QED
    BY <1>0, <2>2 DEF WalkIsCurrent, IndexIsCurrent, QueuedDiffer, BatchDiffers, IndexOf
<1>11. ASSUME NEW w \in Walker,
              Tombstone(w) \/ Finish(w) \/ Refuse(w) \/ FailStamp(w) \/ Cleanup(w) \/ ProviderRaises(w)
       PROVE  WalkIsCurrent(v)'
  <2>1. v = w
    BY DEF OneWalker
  <2>2. \E l \in {"stamp", "cleanup", "failed", "idle"} : pc' = [pc EXCEPT ![w] = l]
    BY <1>11 DEF Tombstone, Finish, Refuse, FailStamp, Cleanup, ProviderRaises, Release
  <2>3. pc'[v] \in {"stamp", "cleanup", "failed", "idle"}
    BY <2>1, <2>2 DEF TypeInv, TypeOK
  <2> QED
    BY <2>3, OffWalk
<1>12. ASSUME NEW w \in Walker, FallBack(w)
       PROVE  WalkIsCurrent(v)'
  <2>1. v = w
    BY DEF OneWalker
  <2>2. /\ UNCHANGED <<rows, catalogue, stored, batch, moved>>
        /\ pc[v] \in {"fp", "page"} /\ pc'[v] = "page" /\ need'[v] = None
    BY <1>12, <2>1 DEF FallBack, TypeInv, TypeOK
  <2>3. Queued(v)' = {}
    BY <2>2 DEF Queued
  <2> QED
    BY <1>0, <2>2, <2>3
    DEF WalkIsCurrent, IndexIsCurrent, QueuedDiffer, BatchDiffers, IndexOf
<1> QED
  BY <1>1, <1>2, <1>3, <1>4, <1>5, <1>6, <1>7, <1>8, <1>9, <1>10, <1>11, <1>12
  DEF Next, Environment, WalkStep

(* A revision changes with its content or on a commit of a book that has moved. *)
LEMMA NoChurnStep ==
  ASSUME AllDated, TypeInv, ChurnInv, [Next]_vars,
         NEW b \in Book, rows[b] # NoRow, rows'[b] # NoRow, rows'[b].rev # rows[b].rev
  PROVE  \/ ContentOf(rows'[b]) # ContentOf(rows[b])
         \/ \E w \in Walker : pc[w] = "commit" /\ b \in moved[w]
<1> USE DEF provider, table, claimVars, walkVars, history
<1>0. rows[b] \in Row
  BY DEF TypeInv, TypeOK
<1>1. ASSUME NEW w \in Walker, CommitPage(w), b \notin moved[w]
      PROVE  ContentOf(rows'[b]) # ContentOf(rows[b])
  <2> DEFINE m == batch[w][b]
  <2>1. pc[w] = "commit"
    BY <1>1 DEF CommitPage
  <2>2. m # None
    BY <1>1, CommitFacts DEF TypeInv
  <2>3. m \in Meta /\ \E n \in Nat \ {0} : rows'[b] = LedgerRow(m, n)
    BY <1>1, <2>2, CommitFacts DEF TypeInv
  <2>4. stored[w][b] = IndexOf(rows[b]) /\ Differs(stored[w][b], m)
    BY <1>1, <2>1, <2>2 DEF ChurnInv, WalkIsCurrent, IndexIsCurrent, BatchDiffers
  <2> HIDE DEF m
  <2>5. fingerprint(rows[b].meta) # fingerprint(m) \/ ~ rows[b].live
    BY <1>0, <2>4, IndexedRow DEF Differs
  <2>6. ContentOf(rows'[b]) = m
    BY <2>3 DEF ContentOf, LedgerRow, AllDated
  <2>7. m # None
    BY <2>3, LedgerAssumption
  <2> QED
    BY <2>5, <2>6, <2>7 DEF ContentOf
<1>2. ASSUME NEW w \in Walker, Tombstone(w)
      PROVE  ContentOf(rows'[b]) # ContentOf(rows[b])
  <2> DEFINE gone == MissedBy(w)
  <2>a. PICK r \in Numbering(gone) :
          rows' = [c \in Book |->
                     IF c \in gone /\ rows[c] # NoRow
                       THEN [rows[c] EXCEPT !.rev = r[c], !.live = FALSE]
                       ELSE rows[c]]
    BY <1>2 DEF Tombstone
  <2>b. pc[w] = "tombstones"
    BY <1>2 DEF Tombstone
  <2> HIDE DEF gone
  <2>1. b \in gone
    BY <2>a
  <2> DEFINE n == r[b]
  <2>2. rows'[b] = [rows[b] EXCEPT !.rev = n, !.live = FALSE]
    BY <2>a, <2>1
  <2> HIDE DEF n
  <2>3. stored[w][b] = IndexOf(rows[b]) /\ stored[w][b].live
    BY <2>b, <2>1 DEF gone, MissedBy, ChurnInv, WalkIsCurrent, IndexIsCurrent
  <2>4. rows[b].live /\ rows[b].meta \in Meta
    BY <1>0, <2>3, IndexedRow DEF Row
  <2>5. ~ rows'[b].live
    BY <1>0, <2>2 DEF Row
  <2> QED
    BY <2>4, <2>5, LedgerAssumption DEF ContentOf
<1>3. ASSUME NEW w \in Walker, Finish(w)
      PROVE  FALSE
  BY <1>3 DEF Finish, Compacted
<1>4. ASSUME UNCHANGED rows
      PROVE  FALSE
  BY <1>4
<1>5. ASSUME \/ \E c \in Book, m \in Meta \cup {None} : Edit(c, m)
             \/ \E c \in Book, slip \in [Walker -> SUBSET Book] : Withdraw(c, slip)
             \/ GoDown \/ ComeUp \/ AgeOut \/ Restart
             \/ \E k \in Key, rev \in 0 .. nextRev - 1 : RecordDevice(k, rev)
             \/ UNCHANGED vars
      PROVE  UNCHANGED rows
  BY <1>5 DEF Edit, Withdraw, GoDown, ComeUp, AgeOut, Restart, RecordDevice, vars
<1>6. ASSUME NEW w \in Walker,
             \/ Claim(w) \/ Snapshot(w)
             \/ \E p \in todo[w] : FpPage(w, p) \/ FetchPage(w, p)
             \/ FpDone(w) \/ PageDone(w) \/ Refuse(w) \/ FailStamp(w)
             \/ Cleanup(w) \/ ProviderRaises(w) \/ FallBack(w)
      PROVE  UNCHANGED rows
  BY <1>6 DEF Claim, Snapshot, FpPage, FetchPage, FpDone, PageDone, Refuse,
              Release, FailStamp, Cleanup, ProviderRaises, FallBack
<1>7. \A w \in Walker : CommitPage(w) => pc[w] = "commit"
  BY DEF CommitPage
<1> QED
  BY <1>1, <1>2, <1>3, <1>4, <1>5, <1>6, <1>7 DEF Next, Environment, WalkStep

(* While walks do not overlap and every book is dated, no device is made   *)
(* to replay what it has: a row moves to a new revision only when what     *)
(* devices see in it changes, or its book was edited between the two       *)
(* fingerprint passes ("steady-state walks touch no rows").  Both          *)
(* conditions are needed: see OneWalker.                                   *)
THEOREM SteadyWalksTouchNoRows == OneWalker /\ AllDated /\ Spec => NoChurn
<1>1. ASSUME OneWalker, AllDated
      PROVE  Spec => NoChurn
  <2>1. Init => ChurnInv
    BY OffWalkInit
  <2>2. TypeInv /\ ChurnInv /\ [Next]_vars => ChurnInv'
    BY <1>1, ChurnStep
  <2>3. TypeInv /\ ChurnInv /\ [Next]_vars =>
          [\A b \in Book :
             /\ rows[b] # NoRow
             /\ rows'[b] # NoRow
             /\ rows'[b].rev # rows[b].rev
             => \/ ContentOf(rows'[b]) # ContentOf(rows[b])
                \/ \E w \in Walker : pc[w] = "commit" /\ b \in moved[w]]_vars
    BY <1>1, NoChurnStep
  <2>4. LedgerInv => TypeInv
    BY DEF LedgerInv
  <2> QED
    BY <2>1, <2>2, <2>3, <2>4, LedgerInvHolds, PTL DEF Spec, NoChurn
<1> QED
  BY <1>1

---------------------------------------------------------------------------
(* The ledger implements the change log.                                   *)

(* A row is dead exactly when it has no content.                           *)
LEMMA RowFacts ==
  ASSUME NEW row \in Row
  PROVE  /\ row # NoRow
         /\ ContentOf(row) \in Meta \cup {None}
         /\ ContentOf(row) = None <=> ~row.live
<1>1. row \in [rev : Nat, live : BOOLEAN, meta : Meta]
  BY DEF Row
<1>2. None \notin Meta /\ row # NoRow
  BY <1>1, LedgerAssumption
<1> QED
  BY <1>1, <1>2 DEF ContentOf

(* The change log counts as the ledger does.                               *)
LEMMA SameCardinality ==
  ASSUME NEW S
  PROVE  Log!Cardinality(S) = Cardinality(S)
BY DEF Log!Cardinality, Cardinality

(* The change log numbers as the ledger does.                              *)
LEMMA SameNumbering ==
  ASSUME NEW books \in SUBSET Book
  PROVE  Log!Numbering(books, nextRev) = Numbering(books)
BY SameCardinality DEF Log!Numbering, Numbering

(* A transaction that deals revisions to a batch of books and stores rows  *)
(* for some of them publishes them.                                        *)
LEMMA WriteIsPublish ==
  ASSUME TypeOK,
         NEW put \in SUBSET Book, NEW written \in SUBSET put,
         NEW r \in Numbering(put), NEW new \in [written -> Row],
         \A b \in written : new[b].rev = r[b],
         rows' = [b \in Book |-> IF b \in written THEN new[b] ELSE rows[b]],
         nextRev' = nextRev + Cardinality(put),
         UNCHANGED reported
  PROVE  Log!Publish(put, written)
<1> DEFINE c == [b \in written |-> ContentOf(new[b])]
<1>1. \A b \in written :
        /\ new[b] # NoRow
        /\ ContentOf(new[b]) \in Meta \cup {None}
  BY RowFacts
<1>2. c \in [written -> Meta \cup {None}]
  BY <1>1
<1>3. r \in Log!Numbering(put, nextRev)
  BY SameNumbering
<1>4. LogRows' = [b \in Book |->
                    IF b \in written THEN [rev |-> r[b], content |-> c[b]]
                                     ELSE LogRows[b]]
  <2>1. \A b \in Book : rows'[b] = IF b \in written THEN new[b] ELSE rows[b]
    OBVIOUS
  <2> QED
    BY <1>1, <2>1 DEF LogRows, ContentOf
<1> HIDE DEF c
<1> QED
  BY <1>2, <1>3, <1>4, SameCardinality DEF Log!Publish

(* A step of the ledger is a step of the change log or none.               *)
LEMMA LogStep ==
  ASSUME TypeOK, [Next]_vars
  PROVE  [Log!LogNext]_<<LogRows, nextRev, reported>>
<1> USE DEF provider, table, claimVars, walkVars, history
<1>1. ASSUME NEW w \in Walker, CommitPage(w)
      PROVE  \E put \in SUBSET Book : \E written \in SUBSET put :
               Log!Publish(put, written)
  <2> DEFINE put == {b \in Book : batch[w][b] # None}
  <2>1. put \in SUBSET Book /\ \A b \in put : batch[w][b] \in Meta
    BY DEF TypeOK
  <2>2. PICK r \in Numbering(put), written \in SUBSET put :
           rows' = [b \in Book |->
                      IF b \in written THEN LedgerRow(batch[w][b], r[b])
                                       ELSE rows[b]]
    BY <1>1 DEF CommitPage
  <2>3. nextRev' = nextRev + Cardinality(put) /\ UNCHANGED reported
    BY <1>1 DEF CommitPage
  <2> HIDE DEF put
  <2> DEFINE new == [b \in written |-> LedgerRow(batch[w][b], r[b])]
  <2>4. \A b \in written : LedgerRow(batch[w][b], r[b]) \in Row
    BY <2>1, NumberingFacts, MetaFacts
  <2>5. new \in [written -> Row]
    BY <2>4
  <2>6. \A b \in written : new[b].rev = r[b]
    BY DEF LedgerRow
  <2>7. rows' = [b \in Book |-> IF b \in written THEN new[b] ELSE rows[b]]
    BY <2>2
  <2> HIDE DEF new
  <2>8. Log!Publish(put, written)
    BY <2>1, <2>3, <2>5, <2>6, <2>7, WriteIsPublish
  <2> QED
    BY <2>1, <2>8
<1>2. ASSUME NEW w \in Walker, Tombstone(w)
      PROVE  \E put \in SUBSET Book : \E written \in SUBSET put :
               Log!Publish(put, written)
  <2> DEFINE gone == MissedBy(w)
             written == {b \in gone : rows[b] # NoRow}
  <2>1. gone \in SUBSET Book /\ written \in SUBSET gone
    BY DEF MissedBy
  <2>2. PICK r \in Numbering(gone) :
          rows' = [b \in Book |->
                     IF b \in gone /\ rows[b] # NoRow
                       THEN [rows[b] EXCEPT !.rev = r[b], !.live = FALSE]
                       ELSE rows[b]]
    BY <1>2 DEF Tombstone
  <2>3. nextRev' = nextRev + Cardinality(gone) /\ UNCHANGED reported
    BY <1>2 DEF Tombstone
  <2> DEFINE new ==
        [b \in written |-> [rows[b] EXCEPT !.rev = r[b], !.live = FALSE]]
  <2>4. rows' = [b \in Book |-> IF b \in written THEN new[b] ELSE rows[b]]
    BY <2>2
  <2>5. ASSUME NEW b \in written
        PROVE  new[b] \in Row /\ new[b].rev = r[b]
    <3>1. rows[b] \in Row
      BY <2>1 DEF TypeOK
    <3>2. r[b] \in Nat \ {0}
      BY <2>1, NumberingFacts
    <3> QED
      BY <3>1, <3>2 DEF Row
  <2>6. new \in [written -> Row]
    BY <2>5
  <2> HIDE DEF new, written, gone
  <2>7. Log!Publish(gone, written)
    BY <2>1, <2>3, <2>4, <2>5, <2>6, WriteIsPublish
  <2> QED
    BY <2>1, <2>7
<1>3. ASSUME NEW w \in Walker, Finish(w)
      PROVE  Log!Compact \/ UNCHANGED <<LogRows, nextRev, reported>>
  <2>1. UNCHANGED <<nextRev, reported>>
    BY <1>3 DEF Finish
  <2>2. CASE rows' = rows
    BY <2>1, <2>2 DEF LogRows
  <2>3. CASE rows' = Compacted
    <3>1. ASSUME NEW b \in Book
          PROVE  LogRows'[b] = IF Log!Compactable(b) THEN NoRow ELSE LogRows[b]
      <4>1. rows[b] \in Row \cup {NoRow}
        BY DEF TypeOK
      <4>2. BelowEveryReport(rows[b].rev) <=> Log!BelowEveryReport(rows[b].rev)
        BY DEF BelowEveryReport, Log!BelowEveryReport
      <4>3. rows[b] # NoRow =>
              /\ LogRows[b] # NoRow
              /\ LogRows[b].rev = rows[b].rev
              /\ LogRows[b].content = None <=> ~rows[b].live
        <5>1. ASSUME rows[b] # NoRow
              PROVE  /\ LogRows[b] = [rev |-> rows[b].rev,
                                      content |-> ContentOf(rows[b])]
                     /\ rows[b].rev \in Nat
                     /\ ContentOf(rows[b]) \in Meta \cup {None}
                     /\ ContentOf(rows[b]) = None <=> ~rows[b].live
          BY <4>1, <5>1, RowFacts DEF LogRows, Row
        <5> QED
          BY <5>1, LedgerAssumption
      <4>4. rows[b] = NoRow => LogRows[b] = NoRow
        BY DEF LogRows
      <4>5. LogRows'[b] = IF rows'[b] = NoRow THEN NoRow
                          ELSE [rev |-> rows'[b].rev,
                                content |-> ContentOf(rows'[b])]
        BY DEF LogRows
      <4>6. rows'[b] = IF rows[b] # NoRow /\ ~rows[b].live
                            /\ BelowEveryReport(rows[b].rev)
                         THEN NoRow ELSE rows[b]
        BY <2>3 DEF Compacted, Tombstones
      <4> QED
        BY <4>2, <4>3, <4>4, <4>5, <4>6 DEF LogRows, Log!Compactable
    <3>2. LogRows' = [b \in Book |->
                        IF Log!Compactable(b) THEN NoRow ELSE LogRows[b]]
      BY <3>1 DEF LogRows
    <3> QED
      BY <2>1, <3>2 DEF Log!Compact
  <2> QED
    BY <1>3, <2>2, <2>3 DEF Finish
<1>4. ASSUME NEW k \in Key, NEW rev \in 0 .. nextRev - 1, RecordDevice(k, rev)
      PROVE  Log!RecordDevice(k, rev)
  BY <1>4 DEF RecordDevice, Log!RecordDevice, LogRows
<1>5. ASSUME UNCHANGED <<rows, nextRev, reported>>
      PROVE  UNCHANGED <<LogRows, nextRev, reported>>
  BY <1>5 DEF LogRows
<1>6. ASSUME \/ \E b \in Book, m \in Meta \cup {None} : Edit(b, m)
             \/ \E b \in Book, slip \in [Walker -> SUBSET Book] : Withdraw(b, slip)
             \/ GoDown \/ ComeUp \/ AgeOut \/ Restart
             \/ UNCHANGED vars
      PROVE  UNCHANGED <<rows, nextRev, reported>>
  BY <1>6 DEF Edit, Withdraw, GoDown, ComeUp, AgeOut, Restart, vars
<1>7. ASSUME NEW w \in Walker,
             \/ Claim(w) \/ Snapshot(w)
             \/ \E p \in todo[w] : FpPage(w, p) \/ FetchPage(w, p)
             \/ FpDone(w) \/ PageDone(w) \/ Refuse(w) \/ FailStamp(w)
             \/ Cleanup(w) \/ ProviderRaises(w) \/ FallBack(w)
      PROVE  UNCHANGED <<rows, nextRev, reported>>
  BY <1>7 DEF Claim, Snapshot, FpPage, FetchPage, FpDone, PageDone, Refuse,
              Release, FailStamp, Cleanup, ProviderRaises, FallBack
<1> QED
  BY <1>1, <1>2, <1>3, <1>4, <1>5, <1>6, <1>7
  DEF Next, Environment, WalkStep, Log!LogNext

(* The ledger is a change log, whatever its walks do and however many of   *)
(* them overlap with stale indexes: every step of it maps to a step of     *)
(* ChangeLog or leaves the log alone (ledger.py, "a monotonic revision     *)
(* change log").                                                           *)
THEOREM LedgerIsAChangeLog == Spec => ImplementsChangeLog
<1>1. Init => Log!LogInit
  BY DEF Init, Log!LogInit, LogRows
<1>2. LedgerInv => TypeOK
  BY DEF LedgerInv, TypeInv
<1>3. TypeOK /\ [Next]_vars => [Log!LogNext]_<<LogRows, nextRev, reported>>
  BY LogStep
<1>4. TypeOK /\ [Next]_vars => [Log!LogNext]_Log!logVars
  BY <1>3 DEF Log!logVars
<1> QED
  BY <1>1, <1>2, <1>4, LedgerInvHolds, PTL
  DEF Spec, ImplementsChangeLog, Log!LogSpec
=============================================================================
