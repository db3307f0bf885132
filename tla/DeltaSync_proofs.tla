-------------------------- MODULE DeltaSync_proofs --------------------------
(***************************************************************************)
(* Proofs about the devices that replay the change log, for any number of  *)
(* books, devices and sync threads, any page size and any bound.           *)
(***************************************************************************)
EXTENDS DeltaSync, FiniteSetTheorems, TLAPS

---------------------------------------------------------------------------
(* The log the devices share.                                              *)

LogInv == LogTypeOK /\ RevsAreFresh

(* A batch of books has a size.                                            *)
LEMMA BatchSize ==
  ASSUME NEW batch \in SUBSET Book
  PROVE  Cardinality(batch) \in Nat
BY ChangeLogAssumption, FS_Subset, FS_CardinalityType

(* What a transaction of the writer does to a row: it stays as it was or   *)
(* carries a revision at or above the old next_rev, and the new next_rev   *)
(* lies beyond it.                                                         *)
LEMMA PublishFacts ==
  ASSUME LogTypeOK,
         NEW batch \in SUBSET Book, NEW written \in SUBSET batch,
         Publish(batch, written)
  PROVE  /\ LogTypeOK'
         /\ nextRev <= nextRev'
         /\ \A b \in Book :
              \/ b \notin written /\ rows'[b] = rows[b]
              \/ /\ b \in written
                 /\ rows'[b] \in Row
                 /\ rows'[b] # NoRow
                 /\ nextRev <= rows'[b].rev
                 /\ rows'[b].rev < nextRev'
         /\ \A b, c \in written : b # c => rows'[b].rev # rows'[c].rev
<1>1. Cardinality(batch) \in Nat
  BY BatchSize
<1>2. PICK r \in Numbering(batch, nextRev), says \in [written -> Content \cup {Gone}] :
        /\ rows' = [b \in Book |->
                      IF b \in written THEN [rev |-> r[b], content |-> says[b]]
                                       ELSE rows[b]]
        /\ nextRev' = nextRev + Cardinality(batch)
        /\ UNCHANGED reported
  BY DEF Publish
<1>3. nextRev \in Nat \ {0} /\ nextRev' \in Nat \ {0} /\ nextRev <= nextRev'
  BY <1>1, <1>2 DEF LogTypeOK
<1>4. r \in [batch -> nextRev .. nextRev + Cardinality(batch) - 1]
  BY <1>2 DEF Numbering
<1>5. ASSUME NEW b \in batch
      PROVE  r[b] \in Nat \ {0} /\ nextRev <= r[b] /\ r[b] < nextRev'
  <2>1. r[b] \in nextRev .. nextRev + Cardinality(batch) - 1
    BY <1>4
  <2> QED
    BY <1>1, <1>2, <1>3, <2>1
<1>6. \A b, d \in batch : b # d => r[b] # r[d]
  BY <1>2 DEF Numbering
<1>7. ASSUME NEW b \in written
      PROVE  /\ b \in batch
             /\ rows'[b].rev = r[b]
             /\ rows'[b] \in Row
             /\ rows'[b] # NoRow
  <2>1. says[b] \in Content \cup {Gone}
    BY <1>2
  <2>2. rows'[b] = [rev |-> r[b], content |-> says[b]]
    BY <1>2
  <2>3. rows'[b] \in Row
    BY <1>5, <2>1, <2>2 DEF Row
  <2> QED
    BY <2>2, <2>3, ChangeLogAssumption DEF Row
<1>8. \A b \in Book : b \notin written => rows'[b] = rows[b]
  BY <1>2
<1>9. LogTypeOK'
  <2>1. rows' \in [Book -> Row \cup {NoRow}]
    BY <1>2, <1>7, <1>8 DEF LogTypeOK
  <2> QED
    BY <1>2, <1>3, <2>1 DEF LogTypeOK
<1>10. \A b \in written : nextRev <= rows'[b].rev /\ rows'[b].rev < nextRev'
  BY <1>5, <1>7
<1>11. \A b, d \in written : b # d => rows'[b].rev # rows'[d].rev
  BY <1>6, <1>7
<1> QED
  BY <1>3, <1>7, <1>8, <1>9, <1>10, <1>11

(* The log numbers what it publishes upwards, past every row before.       *)
LEMMA PublishFresh ==
  ASSUME LogInv,
         NEW batch \in SUBSET Book, NEW written \in SUBSET batch,
         Publish(batch, written)
  PROVE  RevsAreFresh'
<1> USE DEF LogInv
<1>1. /\ LogTypeOK'
      /\ nextRev <= nextRev'
      /\ \A b \in Book :
              \/ b \notin written /\ rows'[b] = rows[b]
              \/ /\ b \in written
                 /\ rows'[b] \in Row
                 /\ rows'[b] # NoRow
                 /\ nextRev <= rows'[b].rev
                 /\ rows'[b].rev < nextRev'
      /\ \A b, c \in written : b # c => rows'[b].rev # rows'[c].rev
  BY PublishFacts
<1>2. \A b \in Book : rows[b] # NoRow => rows[b].rev \in Nat /\ rows[b].rev < nextRev
  BY DEF LogTypeOK, RevsAreFresh, Row
<1>3. nextRev \in Nat /\ nextRev' \in Nat
  BY <1>1 DEF LogTypeOK
<1>4. \A b \in Book : rows'[b] # NoRow => rows'[b].rev < nextRev'
  BY <1>1, <1>2, <1>3
<1>5. ASSUME NEW b \in Book, NEW c \in Book, b # c,
             rows'[b] # NoRow, rows'[c] # NoRow
      PROVE  rows'[b].rev # rows'[c].rev
  <2>1. CASE b \in written /\ c \in written
    BY <1>1, <1>5, <2>1
  <2>2. CASE b \in written /\ c \notin written
    BY <1>1, <1>2, <1>3, <1>5, <2>2 DEF Row
  <2>3. CASE b \notin written /\ c \in written
    BY <1>1, <1>2, <1>3, <1>5, <2>3 DEF Row
  <2>4. CASE b \notin written /\ c \notin written
    BY <1>1, <1>5, <2>4 DEF RevsAreFresh
  <2> QED
    BY <2>1, <2>2, <2>3, <2>4
<1> QED
  BY <1>4, <1>5 DEF RevsAreFresh

(* Compaction only takes rows away.                                        *)
LEMMA CompactFacts ==
  ASSUME LogInv, Compact
  PROVE  /\ LogInv'
         /\ nextRev' = nextRev
         /\ reported' = reported
         /\ \A b \in Book : rows'[b] = rows[b] \/ rows'[b] = NoRow
<1>1. \A b \in Book : rows'[b] = rows[b] \/ rows'[b] = NoRow
  BY DEF Compact
<1>2. LogTypeOK'
  BY DEF Compact, LogInv, LogTypeOK
<1>3. RevsAreFresh'
  BY <1>1 DEF Compact, LogInv, RevsAreFresh
<1> QED
  BY <1>1, <1>2, <1>3 DEF Compact, LogInv

(* A report of a device leaves the log in its invariant.                   *)
LEMMA RecordDeviceFacts ==
  ASSUME LogInv, NEW k \in Key, NEW rev \in Nat, RecordDevice(k, rev)
  PROVE  LogInv'
BY DEF RecordDevice, LogInv, LogTypeOK, RevsAreFresh

(* How a step of the log moves: a row stays, leaves, or is written under a *)
(* revision at or above the old next_rev.                                  *)
LEMMA LogMoves ==
  ASSUME LogInv, [LogNext]_logVars
  PROVE  /\ LogInv'
         /\ nextRev <= nextRev'
         /\ \A b \in Book :
              \/ rows'[b] = rows[b]
              \/ rows'[b] = NoRow
              \/ rows'[b] \in Row /\ rows'[b] # NoRow /\ nextRev <= rows'[b].rev
<1>1. nextRev \in Nat
  BY DEF LogInv, LogTypeOK
<1>2. ASSUME NEW batch \in SUBSET Book, NEW written \in SUBSET batch,
             Publish(batch, written)
      PROVE  /\ LogInv'
             /\ nextRev <= nextRev'
             /\ \A b \in Book :
                  \/ rows'[b] = rows[b]
                  \/ rows'[b] \in Row /\ rows'[b] # NoRow /\ nextRev <= rows'[b].rev
  BY <1>2, PublishFacts, PublishFresh DEF LogInv
<1>3. CASE Compact
  BY <1>1, <1>3, CompactFacts
<1>4. ASSUME NEW k \in Key, NEW rev \in 0 .. nextRev - 1, RecordDevice(k, rev)
      PROVE  LogInv' /\ UNCHANGED <<rows, nextRev>>
  <2>1. rev \in Nat
    BY <1>1
  <2> QED
    BY <1>4, <2>1, RecordDeviceFacts DEF RecordDevice
<1>5. CASE UNCHANGED logVars
  BY <1>1, <1>5 DEF logVars, LogInv, LogTypeOK, RevsAreFresh
<1> QED
  BY <1>1, <1>2, <1>3, <1>4, <1>5 DEF LogNext

(* The log numbers its changes faithfully: whatever transactions,          *)
(* compactions and reports happen, each revision in the table names one    *)
(* book's last change and lies below next_rev (the UNIQUE rev column,      *)
(* which the writers never violate).                                       *)
THEOREM LogRevsFresh == LogSpec => []RevsAreFresh
<1>1. LogInit => LogInv
  BY DEF LogInit, LogInv, LogTypeOK, RevsAreFresh
<1>2. LogInv /\ [LogNext]_logVars => LogInv'
  BY LogMoves
<1> QED
  BY <1>1, <1>2, PTL DEF LogSpec, LogInv

---------------------------------------------------------------------------
(* Pages of a delta.                                                       *)

(* A bounded set of numbers has a greatest one: a member above which a     *)
(* minimal part of the set lies.                                           *)
LEMMA GreatestExists ==
  ASSUME NEW S \in SUBSET Nat, S # {}, NEW n \in Nat, \A s \in S : s <= n
  PROVE  \E m \in S : \A s \in S : s <= m
<1> DEFINE Above(m) == {s \in S : s > m}
           T == {Above(m) : m \in S}
<1>1. IsFiniteSet(S)
  BY FS_BoundedSetOfNaturals
<1>2. IsWellFoundedOn(StrictSubsetOrdering(S), SUBSET S)
  BY <1>1, FS_StrictSubsetOrderingWellFounded, FS_FiniteSubsetsOfFinite
<1>3. T \subseteq SUBSET S /\ T # {}
  OBVIOUS
<1>4. \E X \in T : \A Y \in T : ~ (<<Y, X>> \in StrictSubsetOrdering(S))
  <2> HIDE DEF T
  <2> QED
    BY <1>2, <1>3, WFMin
<1>5. PICK m \in S : \A k \in S : ~ (<<Above(k), Above(m)>> \in StrictSubsetOrdering(S))
  BY <1>4
<1>6. ASSUME NEW k \in S, k > m
      PROVE  FALSE
  <2>1. Above(k) \subseteq Above(m)
    <3>1. k \in Nat /\ m \in Nat /\ \A s \in S : s \in Nat
      OBVIOUS
    <3>2. \A s \in S : s > k => s > m
      BY <1>6, <3>1
    <3> QED
      BY <3>2
  <2>2. k \in Above(m) /\ k \notin Above(k)
    BY <1>6
  <2>3. Above(k) \in SUBSET S /\ Above(m) \in SUBSET S
    OBVIOUS
  <2>4. <<Above(k), Above(m)>> \in StrictSubsetOrdering(S)
    <3> HIDE DEF Above
    <3> QED
      BY <2>1, <2>2, <2>3 DEF StrictSubsetOrdering
  <2> QED
    BY <1>5, <2>4
<1> QED
  BY <1>5, <1>6

(* Last is the greatest revision of a set of rows.                         *)
LEMMA LastFacts ==
  ASSUME LogInv, NEW c \in Nat, c < nextRev,
         NEW S \in SUBSET Changed(c)
  PROVE  /\ Last(S, c) \in Nat
         /\ c <= Last(S, c)
         /\ Last(S, c) < nextRev
         /\ \A b \in S : rows[b].rev <= Last(S, c)
         /\ S = {} => Last(S, c) = c
         /\ S # {} => \E b \in S : rows[b].rev = Last(S, c)
<1> DEFINE R == {rows[b].rev : b \in S}
<1>1. nextRev \in Nat
  BY DEF LogInv, LogTypeOK
<1>2. \A b \in S : rows[b].rev \in Nat /\ rows[b].rev < nextRev /\ rows[b].rev > c
  BY DEF LogInv, LogTypeOK, RevsAreFresh, Changed, Row
<1>3. CASE S = {}
  BY <1>3 DEF Last
<1>4. CASE S # {}
  <2>1. R \in SUBSET Nat /\ R # {} /\ \A s \in R : s <= nextRev
    BY <1>1, <1>2, <1>4
  <2>2. \E m \in R : \A s \in R : s <= m
    <3> HIDE DEF R
    <3> QED
      BY <1>1, <2>1, GreatestExists
  <2>3. \E m \in R : \A b \in S : rows[b].rev <= m
    BY <2>2
  <2>4. Last(S, c) = CHOOSE r \in R : \A b \in S : rows[b].rev <= r
    BY <1>4 DEF Last
  <2>5. Last(S, c) \in R /\ \A b \in S : rows[b].rev <= Last(S, c)
    BY <2>3, <2>4
  <2> QED
    BY <1>1, <1>2, <1>4, <2>5
<1> QED
  BY <1>3, <1>4

(* A page holds every change between the cursor and the revision the round *)
(* ends at, and nothing else.                                              *)
LEMMA PageIsPrefix ==
  ASSUME LogInv, NEW c \in Nat, c < nextRev, NEW b \in Changed(c),
         rows[b].rev <= Last(Page(c), c)
  PROVE  b \in Page(c)
<1>1. Page(c) \subseteq Changed(c) /\ Changed(c) \subseteq Book
  BY DEF Page, Changed
<1>2. \A x \in Changed(c) : rows[x].rev \in Nat /\ rows[x].rev > c
  BY DEF LogInv, LogTypeOK, Changed, Row
<1>3. Page(c) # {}
  BY <1>1, <1>2, LastFacts
<1>4. PICK x \in Page(c) : rows[x].rev = Last(Page(c), c)
  BY <1>1, <1>3, LastFacts
<1>5. Before(b, c) \subseteq Before(x, c)
  BY <1>1, <1>2, <1>4 DEF Before
<1>6. IsFiniteSet(Before(x, c))
  BY <1>1, ChangeLogAssumption, FS_Subset DEF Before
<1>7. /\ Cardinality(Before(b, c)) \in Nat
      /\ Cardinality(Before(x, c)) \in Nat
      /\ Cardinality(Before(b, c)) <= Cardinality(Before(x, c))
  BY <1>5, <1>6, FS_Subset, FS_CardinalityType
<1>8. Cardinality(Before(x, c)) < Batch
  BY <1>4 DEF Page
<1> QED
  BY <1>7, <1>8, DeltaAssumption DEF Page

(* What a delta from a cursor says.                                        *)
LEMMA DeltaFacts ==
  ASSUME LogInv, NEW c \in Nat, c < nextRev
  PROVE  /\ Delta(c) \in Round
         /\ c <= Delta(c).next
         /\ Delta(c).next < nextRev
         /\ \A b \in Book : Delta(c).content[b] # None =>
              rows[b] # NoRow /\ rows[b].rev > c
         /\ \A b \in Book :
              rows[b] # NoRow /\ rows[b].rev > c /\ rows[b].rev <= Delta(c).next =>
                Delta(c).content[b] = rows[b].content
<1>1. Page(c) \subseteq Changed(c) /\ Changed(c) \subseteq Book
  BY DEF Page, Changed
<1>2. /\ Last(Page(c), c) \in Nat
      /\ c <= Last(Page(c), c)
      /\ Last(Page(c), c) < nextRev
  BY <1>1, LastFacts
<1>3. \A b \in Page(c) : rows[b] # NoRow /\ rows[b].rev > c
                         /\ rows[b].content \in Content \cup {Gone}
  BY <1>1 DEF LogInv, LogTypeOK, Changed, Row
<1>4. Delta(c) \in Round
  BY <1>2, <1>3 DEF Delta, Round
<1>5. \A b \in Book : Delta(c).content[b] =
                        IF b \in Page(c) THEN rows[b].content ELSE None
  BY DEF Delta
<1>6. Delta(c).next = Last(Page(c), c)
  BY DEF Delta
<1>7. ASSUME NEW b \in Book, rows[b] # NoRow, rows[b].rev > c,
             rows[b].rev <= Delta(c).next
      PROVE  Delta(c).content[b] = rows[b].content
  BY <1>5, <1>6, <1>7, PageIsPrefix DEF Changed
<1> QED
  BY <1>2, <1>3, <1>4, <1>5, <1>6, <1>7

---------------------------------------------------------------------------
(* Types, fresh revisions, and cursors that name revisions handed out.     *)

Bounds ==
  /\ \A d \in Device : cursor[d] < nextRev
  /\ \A w \in Worker : at[w] < nextRev /\ round[w].next < nextRev

Inv == TypeOK /\ RevsAreFresh /\ Bounds

(* The invariant holds that of the log.                                    *)
LEMMA InvIsLogInv == Inv => LogInv
BY DEF Inv, TypeOK, LogInv

(* A chain that has not begun is a round of no page.                       *)
LEMMA NoRoundIsRound == NoRound \in Round /\ NoRound.next = 0
BY DEF NoRound, Round

(* The server and the device start inside the invariant.                   *)
LEMMA InitInv == Init => Inv
BY NoRoundIsRound
   DEF Init, LogInit, Inv, TypeOK, LogTypeOK, RevsAreFresh, Bounds, PCs

(* Devices touch the log only through record_device, with a cursor the log *)
(* has reached.                                                            *)
LEMMA StepOfLog ==
  ASSUME Inv, [Next]_vars
  PROVE  [LogNext]_logVars
<1>1. CASE ServerPublishes
  BY <1>1 DEF ServerPublishes, LogNext
<1>2. CASE ServerCompacts
  BY <1>2 DEF ServerCompacts, LogNext
<1>3. ASSUME NEW w \in Worker, Report(w)
      PROVE  [LogNext]_logVars
  <2>1. KeyOf[Owner[w]] \in Key
    BY DeltaAssumption
  <2>2. at[w] \in 0 .. nextRev - 1
    BY DEF Inv, TypeOK, LogTypeOK, Bounds
  <2> QED
    BY <1>3, <2>1, <2>2 DEF Report, LogNext
<1>4. ASSUME NEW w \in Worker,
             \/ Start(w) \/ CheckTop(w) \/ Fetch(w) \/ CheckFetched(w)
             \/ Apply(w) \/ Fail(w) \/ Abort(w)
      PROVE  UNCHANGED logVars
  BY <1>4 DEF Start, CheckTop, Fetch, CheckFetched, Apply, Fail, Abort
<1>5. ASSUME NEW d \in Device, Crash(d) \/ Reset(d) \/ \E b \in Book : DeleteCloud(d, b)
      PROVE  UNCHANGED logVars
  BY <1>5 DEF Crash, Reset, DeleteCloud
<1>6. CASE UNCHANGED vars
  BY <1>6 DEF vars, logVars
<1> QED
  BY <1>1, <1>2, <1>3, <1>4, <1>5, <1>6 DEF Next, Step

(* Ending chains leaves the memory of the workers well formed.             *)
LEMMA EndChainsFacts ==
  ASSUME Inv, NEW W \in SUBSET Worker, EndChains(W), nextRev' \in Nat, nextRev <= nextRev'
  PROVE  /\ pc' \in [Worker -> PCs]
         /\ at' \in [Worker -> Nat]
         /\ round' \in [Worker -> Round]
         /\ rounds' \in [Worker -> Nat]
         /\ cancel' \in [Worker -> BOOLEAN]
         /\ \A w \in Worker : at'[w] < nextRev' /\ round'[w].next < nextRev'
<1>1. nextRev \in Nat \ {0}
  BY DEF Inv, TypeOK, LogTypeOK
<1>2. "idle" \in PCs
  BY DEF PCs
<1>3. \A w \in Worker : round[w].next \in Nat /\ at[w] \in Nat
  BY DEF Inv, TypeOK, Round
<1>4. /\ pc' \in [Worker -> PCs]
      /\ at' \in [Worker -> Nat]
      /\ round' \in [Worker -> Round]
      /\ rounds' \in [Worker -> Nat]
      /\ cancel' \in [Worker -> BOOLEAN]
  BY <1>2, NoRoundIsRound DEF EndChains, Inv, TypeOK
<1>5. \A w \in Worker : at'[w] < nextRev' /\ round'[w].next < nextRev'
  BY <1>1, <1>3, NoRoundIsRound DEF EndChains, Inv, Bounds
<1> QED
  BY <1>4, <1>5

(* A page applied to a table gives a table.                                *)
LEMMA AppliedType ==
  ASSUME NEW copy \in [Book -> Content \cup {None}],
         NEW content \in [Book -> Content \cup {Gone, None}]
  PROVE  Applied(copy, content) \in [Book -> Content \cup {None}]
BY DEF Applied

(* Every step, of the server and of the chain.                             *)
LEMMA NextInv ==
  ASSUME Inv, [Next]_vars
  PROVE  Inv'
<1> USE DeltaAssumption
<1>1. LogInv
  BY InvIsLogInv
<1>2. LogInv' /\ nextRev <= nextRev'
  BY <1>1, StepOfLog, LogMoves
<1>3. LogTypeOK' /\ RevsAreFresh' /\ nextRev \in Nat \ {0} /\ nextRev' \in Nat \ {0}
  BY <1>1, <1>2 DEF LogInv, LogTypeOK
<1>4. \A w \in Worker : /\ at[w] \in Nat /\ at[w] < nextRev
                        /\ round[w] \in Round
                        /\ round[w].next \in Nat /\ round[w].next < nextRev
                        /\ round[w].content \in [Book -> Content \cup {Gone, None}]
                        /\ rounds[w] \in Nat
                        /\ Owner[w] \in Device
  BY DEF Inv, TypeOK, Bounds, Round
<1>5. \A d \in Device : cursor[d] \in Nat /\ cursor[d] < nextRev
                        /\ store[d] \in [Book -> Content \cup {None}]
                        /\ erased[d] \in SUBSET Book
  BY DEF Inv, TypeOK, Bounds
<1>6. CASE UNCHANGED devVars
  BY <1>2, <1>3, <1>4, <1>5, <1>6 DEF devVars, Inv, TypeOK, Bounds
<1>7. ASSUME NEW w \in Worker, Start(w)
      PROVE  Inv'
  BY <1>3, <1>4, <1>5, <1>7 DEF Start, logVars, Inv, TypeOK, Bounds, PCs
<1>8. ASSUME NEW w \in Worker, CheckTop(w) \/ CheckFetched(w)
      PROVE  Inv'
  <2>1. UNCHANGED <<logVars, store, cursor, erased, faults>>
    BY <1>8 DEF CheckTop, CheckFetched
  <2>2. CASE EndChains({w})
    BY <1>2, <1>3, <2>1, <2>2, EndChainsFacts DEF logVars, Inv, TypeOK, Bounds
  <2>3. CASE /\ pc' = [pc EXCEPT ![w] = "fetch"] \/ pc' = [pc EXCEPT ![w] = "apply"]
             /\ UNCHANGED <<at, round, rounds, cancel>>
    BY <1>3, <2>1, <2>3 DEF logVars, Inv, TypeOK, Bounds, PCs
  <2> QED
    BY <1>8, <2>2, <2>3 DEF CheckTop, CheckFetched
<1>9. ASSUME NEW w \in Worker, Fetch(w)
      PROVE  Inv'
  <2>1. /\ Delta(at[w]) \in Round
        /\ Delta(at[w]).next < nextRev
    BY <1>1, <1>4, DeltaFacts
  <2>2. round' = [round EXCEPT ![w] = Delta(at[w])]
    BY <1>9 DEF Fetch
  <2>3. round' \in [Worker -> Round]
    BY <2>1, <2>2 DEF Inv, TypeOK
  <2>4. \A v \in Worker : round'[v].next < nextRev
    BY <1>4, <2>1, <2>2 DEF Inv, TypeOK
  <2> QED
    BY <1>3, <1>9, <2>3, <2>4 DEF Fetch, logVars, Inv, TypeOK, Bounds, PCs
<1>10. ASSUME NEW w \in Worker, Apply(w)
       PROVE  Inv'
  <2>1. Applied(store[Owner[w]], round[w].content) \in [Book -> Content \cup {None}]
    BY <1>4, <1>5, AppliedType
  <2>2. UNCHANGED <<logVars, cancel, faults>>
    BY <1>10 DEF Apply
  <2>3. store' \in [Device -> [Book -> Content \cup {None}]]
    BY <1>10, <2>1 DEF Apply, Inv, TypeOK
  <2>8. erased' \in [Device -> SUBSET Book]
    BY <1>4, <1>5, <1>10 DEF Apply, Inv, TypeOK
  <2>4. cursor' \in [Device -> Nat] /\ \A d \in Device : cursor'[d] < nextRev
    BY <1>4, <1>5, <1>10 DEF Apply, Inv, TypeOK
  <2>5. at' \in [Worker -> Nat] /\ \A v \in Worker : at'[v] < nextRev
    BY <1>4, <1>10 DEF Apply, Inv, TypeOK
  <2>6. round' \in [Worker -> Round] /\ \A v \in Worker : round'[v].next < nextRev
    BY <1>3, <1>4, <1>10, NoRoundIsRound DEF Apply, Inv, TypeOK
  <2>7. rounds' \in [Worker -> Nat] /\ pc' \in [Worker -> PCs]
    BY <1>4, <1>10 DEF Apply, Inv, TypeOK, PCs
  <2> QED
    BY <1>3, <2>2, <2>3, <2>4, <2>5, <2>6, <2>7, <2>8 DEF logVars, Inv, TypeOK, Bounds
<1>11. ASSUME NEW w \in Worker, Report(w)
       PROVE  Inv'
  <2>1. EndChains({w}) /\ UNCHANGED <<store, cursor, erased, faults>> /\ nextRev' = nextRev
    BY <1>11 DEF Report, RecordDevice, logVars
  <2> QED
    BY <1>2, <1>3, <1>5, <2>1, EndChainsFacts DEF Inv, TypeOK, Bounds
<1>12. ASSUME NEW w \in Worker, Fail(w)
       PROVE  Inv'
  BY <1>2, <1>3, <1>5, <1>12, EndChainsFacts DEF Fail, logVars, Inv, TypeOK, Bounds
<1>13. ASSUME NEW w \in Worker, Abort(w)
       PROVE  Inv'
  BY <1>3, <1>4, <1>5, <1>13 DEF Abort, logVars, Inv, TypeOK, Bounds
<1>14. ASSUME NEW d \in Device, Crash(d)
       PROVE  Inv'
  <2>1. ChainsOf(d) \in SUBSET Worker
    BY DEF ChainsOf
  <2> QED
    BY <1>2, <1>3, <1>5, <1>14, <2>1, EndChainsFacts
       DEF Crash, logVars, Inv, TypeOK, Bounds
<1>15. ASSUME NEW d \in Device, Reset(d)
       PROVE  Inv'
  <2>1. ChainsOf(d) \in SUBSET Worker
    BY DEF ChainsOf
  <2>2. /\ store' \in [Device -> [Book -> Content \cup {None}]]
        /\ cursor' \in [Device -> Nat]
        /\ erased' \in [Device -> SUBSET Book]
        /\ \A e \in Device : cursor'[e] < nextRev
    BY <1>3, <1>5, <1>15 DEF Reset, Inv, TypeOK
  <2> QED
    BY <1>2, <1>3, <1>15, <2>1, <2>2, EndChainsFacts
       DEF Reset, logVars, Inv, TypeOK, Bounds
<1>16. ASSUME NEW d \in Device, NEW b \in Book, DeleteCloud(d, b)
       PROVE  Inv'
  <2>1. /\ store' \in [Device -> [Book -> Content \cup {None}]]
        /\ erased' \in [Device -> SUBSET Book]
    BY <1>5, <1>16 DEF DeleteCloud, Inv, TypeOK
  <2> QED
    BY <1>3, <1>4, <1>5, <1>16, <2>1 DEF DeleteCloud, logVars, Inv, TypeOK, Bounds
<1> QED
  BY <1>6, <1>7, <1>8, <1>9, <1>10, <1>11, <1>12, <1>13, <1>14, <1>15, <1>16
     DEF Next, Step, ServerPublishes, ServerCompacts, vars, devVars

(* The invariant of the log and the chain.                                 *)
LEMMA InvHolds == Spec => []Inv
BY InitInv, NextInv, PTL DEF Spec

(* Every variable keeps its type, whatever overlaps.                       *)
THEOREM TypeCorrect == Spec => []TypeOK
BY InvHolds, PTL DEF Inv

(* Whatever the devices do - lost reports, aborted chains, several chains  *)
(* at once, wipes - the log they share remains a change log: they only     *)
(* ever report revisions it has handed out.                                *)
THEOREM DevicesKeepTheLog == Spec => LogSpec
<1>1. Init => LogInit
  BY DEF Init
<1>2. Inv /\ [Next]_vars => [LogNext]_logVars
  BY StepOfLog
<1> QED
  BY <1>1, <1>2, InvHolds, PTL DEF Spec, LogSpec

---------------------------------------------------------------------------
(* The replica.  With one chain per device, what a worker has fetched      *)
(* still says of every row in its interval what the log says: a row that   *)
(* has moved since carries a revision beyond the interval.                 *)

OneChain == \A v, w \in Worker : Owner[v] = Owner[w] => v = w

RoundAgrees(w) ==
  /\ at[w] <= round[w].next
  /\ \A b \in Book : rows[b] # NoRow /\ rows[b].rev <= at[w] =>
       round[w].content[b] = None
  /\ \A b \in Book : rows[b] # NoRow /\ at[w] < rows[b].rev
                     /\ rows[b].rev <= round[w].next =>
       round[w].content[b] = rows[b].content

ChainAgrees ==
  \A w \in Worker :
    /\ pc[w] # "idle" => at[w] = cursor[Owner[w]]
    /\ pc[w] \in {"fetched", "apply"} => RoundAgrees(w)

ReplicaInv == ReplicaAgrees /\ ChainAgrees

(* The log may move under a device without disturbing what it holds.       *)
LEMMA LogMovesReplica ==
  ASSUME Inv, ReplicaInv, [LogNext]_logVars,
         UNCHANGED <<store, cursor, erased, at, round>>
  PROVE  /\ ReplicaAgrees'
         /\ \A w \in Worker : RoundAgrees(w) => RoundAgrees(w)'
<1>1. \A b \in Book :
        \/ rows'[b] = rows[b]
        \/ rows'[b] = NoRow
        \/ rows'[b] \in Row /\ rows'[b] # NoRow /\ nextRev <= rows'[b].rev
  BY InvIsLogInv, LogMoves
<1>2. nextRev \in Nat /\ \A d \in Device : cursor[d] \in Nat /\ cursor[d] < nextRev
  BY DEF Inv, TypeOK, LogTypeOK, Bounds
<1>3. \A w \in Worker : /\ at[w] \in Nat /\ at[w] < nextRev
                        /\ round[w].next \in Nat /\ round[w].next < nextRev
  BY DEF Inv, TypeOK, Bounds, Round
<1>4. \A r \in Row : r.rev \in Nat
  BY DEF Row
<1>5. ASSUME NEW d \in Device, NEW b \in Book,
             rows'[b] # NoRow, rows'[b].rev <= cursor'[d]
      PROVE  store'[d][b] = Owed(d, b)'
  <2>1. rows'[b] = rows[b]
    BY <1>1, <1>2, <1>4, <1>5
  <2> QED
    BY <1>5, <2>1 DEF ReplicaInv, ReplicaAgrees, Owed, CopyOf
<1>6. ReplicaAgrees'
  BY <1>5 DEF ReplicaAgrees
<1>7. ASSUME NEW w \in Worker, RoundAgrees(w)
      PROVE  RoundAgrees(w)'
  <2>1. \A b \in Book : rows'[b] # NoRow /\ (rows'[b].rev <= at[w] \/ rows'[b].rev <= round[w].next)
                        => rows'[b] = rows[b]
    BY <1>1, <1>2, <1>3, <1>4
  <2> QED
    BY <1>7, <2>1 DEF RoundAgrees
<1> QED
  BY <1>6, <1>7

(* A fetch from the cursor of the chain.                                   *)
LEMMA FetchAgrees ==
  ASSUME Inv, NEW w \in Worker, Fetch(w)
  PROVE  RoundAgrees(w)'
<1>1. /\ at[w] \in Nat /\ at[w] < nextRev
      /\ \A b \in Book : rows[b] # NoRow => rows[b].rev \in Nat
  BY DEF Inv, TypeOK, LogTypeOK, Bounds, Row
<1>2. /\ at[w] <= Delta(at[w]).next
      /\ Delta(at[w]) \in Round
      /\ \A b \in Book : Delta(at[w]).content[b] # None =>
           rows[b] # NoRow /\ rows[b].rev > at[w]
      /\ \A b \in Book :
           rows[b] # NoRow /\ rows[b].rev > at[w] /\ rows[b].rev <= Delta(at[w]).next =>
             Delta(at[w]).content[b] = rows[b].content
  BY <1>1, InvIsLogInv, DeltaFacts
<1>3. round'[w] = Delta(at[w]) /\ UNCHANGED <<rows, at>>
  BY DEF Fetch, Inv, TypeOK, logVars
<1>4. \A b \in Book : rows[b] # NoRow /\ rows[b].rev <= at[w] =>
        Delta(at[w]).content[b] = None
  BY <1>1, <1>2
<1> QED
  BY <1>1, <1>2, <1>3, <1>4 DEF RoundAgrees

(* A round that agrees with the log takes the replica to its end.          *)
LEMMA ApplyAgrees ==
  ASSUME Inv, ReplicaInv, NEW w \in Worker, Apply(w)
  PROVE  ReplicaAgrees'
<1> DEFINE me == Owner[w]
<1>1. me \in Device /\ at[w] = cursor[me] /\ RoundAgrees(w)
  BY DeltaAssumption DEF Apply, ReplicaInv, ChainAgrees
<1>2. /\ UNCHANGED rows
      /\ cursor' = [cursor EXCEPT ![me] = round[w].next]
      /\ store' = [store EXCEPT ![me] = Applied(store[me], round[w].content)]
      /\ erased' = [erased EXCEPT ![me] = {b \in @ : round[w].content[b] = None}]
  BY DEF Apply, logVars
<1>3. /\ cursor \in [Device -> Nat] /\ store \in [Device -> [Book -> Content \cup {None}]]
      /\ erased \in [Device -> SUBSET Book]
  BY DEF Inv, TypeOK
<1>4. \A b \in Book : rows[b] # NoRow =>
        rows[b].rev \in Nat /\ rows[b].content \in Content \cup {Gone}
  BY DEF Inv, TypeOK, LogTypeOK, Row
<1>5. at[w] \in Nat /\ round[w].next \in Nat
  BY DEF Inv, TypeOK, Round
<1>6. ASSUME NEW b \in Book, rows[b] # NoRow, rows[b].rev <= round[w].next
      PROVE  store'[me][b] = IF b \in erased'[me] THEN None ELSE CopyOf(rows[b])
  <2>1. store'[me][b] = IF round[w].content[b] = None THEN store[me][b]
                        ELSE IF round[w].content[b] = Gone THEN None
                        ELSE round[w].content[b]
    BY <1>1, <1>2, <1>3 DEF Applied
  <2>4. b \in erased'[me] <=> b \in erased[me] /\ round[w].content[b] = None
    BY <1>1, <1>2, <1>3
  <2>2. CASE rows[b].rev <= at[w]
    BY <1>1, <1>6, <2>1, <2>2, <2>4 DEF RoundAgrees, ReplicaInv, ReplicaAgrees, Owed
  <2>3. CASE at[w] < rows[b].rev
    BY <1>1, <1>4, <1>6, <2>1, <2>3, <2>4, DeltaAssumption DEF RoundAgrees, CopyOf
  <2> QED
    BY <1>4, <1>5, <1>6, <2>2, <2>3
<1>7. ASSUME NEW d \in Device, NEW b \in Book,
             rows[b] # NoRow, rows[b].rev <= cursor'[d]
      PROVE  store'[d][b] = IF b \in erased'[d] THEN None ELSE CopyOf(rows[b])
  <2>1. CASE d = me
    BY <1>2, <1>3, <1>6, <1>7, <2>1
  <2>2. CASE d # me
    BY <1>2, <1>3, <1>7, <2>2 DEF ReplicaInv, ReplicaAgrees, Owed
  <2> QED
    BY <2>1, <2>2
<1> QED
  BY <1>2, <1>7 DEF ReplicaAgrees, Owed, CopyOf

(* Every step, for one chain on the device.                                *)
LEMMA NextReplica ==
  ASSUME OneChain, Inv, ReplicaInv, [Next]_vars
  PROVE  ReplicaInv'
<1> USE DeltaAssumption
<1>1. [LogNext]_logVars
  BY StepOfLog
<1>2. \A w \in Worker : Owner[w] \in Device
  OBVIOUS
<1>3. \A v, w \in Worker : v # w => Owner[v] # Owner[w]
  BY DEF OneChain
<1>4. CASE UNCHANGED devVars
  BY <1>1, <1>4, LogMovesReplica DEF devVars, ReplicaInv, ChainAgrees
<1>5. ASSUME NEW w \in Worker, Start(w) \/ Abort(w)
      PROVE  ReplicaInv'
  <2>1. UNCHANGED <<logVars, store, cursor, erased, round>>
    BY <1>5 DEF Start, Abort
  <2>2. ReplicaAgrees'
    BY <2>1 DEF ReplicaInv, ReplicaAgrees, Owed, CopyOf, logVars
  <2>3. CASE Start(w)
    <3>1. /\ pc' = [pc EXCEPT ![w] = "top"]
          /\ at' = [at EXCEPT ![w] = cursor[Owner[w]]]
      BY <2>3 DEF Start
    <3>2. \A v \in Worker : v # w => pc'[v] = pc[v] /\ at'[v] = at[v]
      BY <3>1 DEF Inv, TypeOK
    <3>3. pc'[w] = "top" /\ at'[w] = cursor[Owner[w]]
      BY <3>1 DEF Inv, TypeOK
    <3> QED
      BY <2>1, <2>2, <3>2, <3>3 DEF ReplicaInv, ChainAgrees, RoundAgrees, logVars
  <2>4. CASE Abort(w)
    BY <2>1, <2>2, <2>4 DEF Abort, ReplicaInv, ChainAgrees, RoundAgrees, logVars
  <2> QED
    BY <1>5, <2>3, <2>4
<1>6. ASSUME NEW w \in Worker, CheckTop(w) \/ CheckFetched(w) \/ Fail(w) \/ Report(w)
      PROVE  ReplicaInv'
  <2>1. UNCHANGED <<store, cursor, erased, rows>>
    BY <1>6 DEF CheckTop, CheckFetched, Fail, Report, RecordDevice, logVars
  <2>2. ReplicaAgrees'
    BY <2>1 DEF ReplicaInv, ReplicaAgrees, Owed, CopyOf
  <2>3. CASE EndChains({w})
    <3>1. \A v \in Worker : \/ pc'[v] = "idle"
                            \/ pc'[v] = pc[v] /\ at'[v] = at[v] /\ round'[v] = round[v]
      BY <2>3 DEF EndChains
    <3> QED
      BY <2>1, <2>2, <3>1 DEF ReplicaInv, ChainAgrees, RoundAgrees
  <2>4. CASE (CheckTop(w) \/ CheckFetched(w)) /\ ~cancel[w]
    <3>1. UNCHANGED <<at, round>>
      BY <2>4 DEF CheckTop, CheckFetched
    <3>2. \A v \in Worker : /\ pc'[v] # "idle" => pc[v] # "idle"
                            /\ pc'[v] \in {"fetched", "apply"} => pc[v] \in {"fetched", "apply"}
      BY <2>4 DEF CheckTop, CheckFetched, Inv, TypeOK
    <3> QED
      BY <2>1, <2>2, <3>1, <3>2 DEF ReplicaInv, ChainAgrees, RoundAgrees
  <2>5. EndChains({w}) \/ ((CheckTop(w) \/ CheckFetched(w)) /\ ~cancel[w])
    <3>1. CASE CheckTop(w) \/ CheckFetched(w)
      BY <3>1 DEF CheckTop, CheckFetched
    <3>2. CASE Fail(w) \/ Report(w)
      BY <3>2 DEF Fail, Report
    <3> QED
      BY <1>6, <3>1, <3>2
  <2> QED
    BY <2>3, <2>4, <2>5
<1>7. ASSUME NEW w \in Worker, Fetch(w)
      PROVE  ReplicaInv'
  <2>1. UNCHANGED <<logVars, store, cursor, erased, at>>
    BY <1>7 DEF Fetch
  <2>2. ReplicaAgrees'
    BY <2>1 DEF ReplicaInv, ReplicaAgrees, Owed, CopyOf, logVars
  <2>3. RoundAgrees(w)'
    BY <1>7, FetchAgrees
  <2>4. \A v \in Worker : /\ pc'[v] # "idle" => pc[v] # "idle"
                          /\ v # w => pc'[v] = pc[v] /\ round'[v] = round[v]
    BY <1>7 DEF Fetch, Inv, TypeOK
  <2>5. ASSUME NEW v \in Worker, pc'[v] \in {"fetched", "apply"}
        PROVE  RoundAgrees(v)'
    <3>1. CASE v = w
      BY <2>3, <3>1
    <3>2. CASE v # w
      BY <2>1, <2>4, <2>5, <3>2 DEF ReplicaInv, ChainAgrees, RoundAgrees, logVars
    <3> QED
      BY <3>1, <3>2
  <2> QED
    BY <2>1, <2>2, <2>4, <2>5 DEF ReplicaInv, ChainAgrees
<1>8. ASSUME NEW w \in Worker, Apply(w)
      PROVE  ReplicaInv'
  <2>1. ReplicaAgrees'
    BY <1>8, ApplyAgrees
  <2>2. UNCHANGED rows
    BY <1>8 DEF Apply, logVars
  <2>3. cursor' = [cursor EXCEPT ![Owner[w]] = round[w].next]
    BY <1>8 DEF Apply
  <2>4. at'[w] = cursor'[Owner[w]] /\ pc'[w] \in {"top", "report"}
    BY <1>2, <1>8, <2>3 DEF Apply, Inv, TypeOK
  <2>5. ASSUME NEW v \in Worker, v # w
        PROVE  /\ pc'[v] = pc[v] /\ at'[v] = at[v] /\ round'[v] = round[v]
               /\ cursor'[Owner[v]] = cursor[Owner[v]]
    BY <1>2, <1>3, <1>8, <2>3, <2>5 DEF Apply, Inv, TypeOK
  <2>6. ASSUME NEW v \in Worker
        PROVE  /\ pc'[v] # "idle" => at'[v] = cursor'[Owner[v]]
               /\ pc'[v] \in {"fetched", "apply"} => RoundAgrees(v)'
    <3>1. CASE v = w
      BY <2>4, <3>1
    <3>2. CASE v # w
      BY <2>2, <2>5, <3>2 DEF ReplicaInv, ChainAgrees, RoundAgrees
    <3> QED
      BY <3>1, <3>2
  <2> QED
    BY <2>1, <2>6 DEF ReplicaInv, ChainAgrees
<1>9. ASSUME NEW d \in Device, Crash(d) \/ Reset(d)
      PROVE  ReplicaInv'
  <2>1. UNCHANGED logVars /\ EndChains(ChainsOf(d))
    BY <1>9 DEF Crash, Reset
  <2>2. ASSUME NEW v \in Worker, pc'[v] # "idle"
        PROVE  /\ pc'[v] = pc[v] /\ at'[v] = at[v] /\ round'[v] = round[v]
               /\ Owner[v] # d
    BY <2>1, <2>2 DEF EndChains, ChainsOf
  <2>3. ASSUME NEW e \in Device, e # d
        PROVE  cursor'[e] = cursor[e] /\ store'[e] = store[e] /\ erased'[e] = erased[e]
    BY <1>9, <2>3 DEF Crash, Reset, Inv, TypeOK
  <2>4. \/ cursor'[d] = cursor[d] /\ store'[d] = store[d] /\ erased'[d] = erased[d]
        \/ cursor'[d] = 0
    BY <1>9 DEF Crash, Reset, Inv, TypeOK
  <2>5. \A b \in Book : rows[b] # NoRow => rows[b].rev \in Nat /\ rows[b].rev > 0
    BY DEF Inv, TypeOK, LogTypeOK, Row
  <2>6. ASSUME NEW e \in Device, NEW b \in Book, rows[b] # NoRow, rows[b].rev <= cursor'[e]
        PROVE  store'[e][b] = IF b \in erased'[e] THEN None ELSE CopyOf(rows[b])
    <3>1. cursor'[e] = cursor[e] /\ store'[e] = store[e] /\ erased'[e] = erased[e]
      BY <2>3, <2>4, <2>5, <2>6
    <3> QED
      BY <2>6, <3>1 DEF ReplicaInv, ReplicaAgrees, Owed
  <2>7. ReplicaAgrees'
    BY <2>1, <2>6 DEF ReplicaAgrees, Owed, CopyOf, logVars
  <2>8. ChainAgrees'
    BY <1>2, <2>1, <2>2, <2>3 DEF ReplicaInv, ChainAgrees, RoundAgrees, logVars
  <2> QED
    BY <2>7, <2>8 DEF ReplicaInv
<1>10. ASSUME NEW d \in Device, NEW b \in Book, DeleteCloud(d, b)
       PROVE  ReplicaInv'
  <2>1. UNCHANGED <<logVars, cursor, pc, at, round>>
    BY <1>10 DEF DeleteCloud
  <2>2. /\ \A e \in Device, x \in Book :
             store'[e][x] = IF e = d /\ x = b THEN None ELSE store[e][x]
        /\ \A e \in Device, x \in Book :
             x \in erased'[e] <=> x \in erased[e] \/ (e = d /\ x = b)
    BY <1>10 DEF DeleteCloud, Inv, TypeOK
  <2>3. ReplicaAgrees'
    BY <2>1, <2>2 DEF ReplicaInv, ReplicaAgrees, Owed, CopyOf, logVars
  <2> QED
    BY <2>1, <2>3 DEF ReplicaInv, ChainAgrees, RoundAgrees, logVars
<1> QED
  BY <1>4, <1>5, <1>6, <1>7, <1>8, <1>9, <1>10
     DEF Next, Step, ServerPublishes, ServerCompacts, vars, devVars

(* The guarantee of the sync protocol: at every moment, mid-chain or not,  *)
(* after any aborts, failures, crashes and wipes, a device holds exactly   *)
(* what the log says of every row at or below its cursor, but for those    *)
(* its reader deleted from the cloud - as long as it runs one chain at a   *)
(* time (which start_sync's flag alone does not give: an aborted worker is *)
(* not waited for).                                                        *)
THEOREM ReplicaIsFaithful == OneChain /\ Spec => []ReplicaAgrees
<1>1. ASSUME OneChain
      PROVE  Spec => []ReplicaAgrees
  <2>1. Init => ReplicaInv
    BY DEF Init, LogInit, ReplicaInv, ReplicaAgrees, ChainAgrees
  <2>2. Inv /\ ReplicaInv /\ [Next]_vars => ReplicaInv'
    BY <1>1, NextReplica
  <2> QED
    BY <2>1, <2>2, InvHolds, PTL DEF Spec, ReplicaInv
<1> QED
  BY <1>1

---------------------------------------------------------------------------
(* Ghosts.  A log to which no cursor is reported never drops a tombstone,  *)
(* so every book a device has or is about to store keeps its row.          *)

GhostInv ==
  /\ \A k \in Key : reported[k] = NoReport
  /\ NoGhost
  /\ \A w \in Worker, b \in Book : round[w].content[b] # None => rows[b] # NoRow

(* Every step, while nobody reports.                                       *)
LEMMA NextGhost ==
  ASSUME Reporter = {}, Inv, GhostInv, [Next]_vars
  PROVE  GhostInv'
<1> USE DeltaAssumption DEF GhostInv
<1>1. \A b \in Book : rows[b] # NoRow => rows'[b] # NoRow
  <2>1. CASE ServerPublishes
    <3>1. PICK batch \in SUBSET Book : \E written \in SUBSET batch : Publish(batch, written)
      BY <2>1 DEF ServerPublishes
    <3>2. PICK written \in SUBSET batch : Publish(batch, written)
      BY <3>1
    <3> QED
      BY <3>2, PublishFacts DEF Inv, TypeOK
  <2>2. CASE ServerCompacts
    BY <2>2 DEF ServerCompacts, Compactable, BelowEveryReport
  <2>3. CASE ~ServerPublishes /\ ~ServerCompacts
    BY <2>3 DEF Next, Step, Start, CheckTop, Fetch, CheckFetched, Apply, Report,
                Fail, Abort, Crash, Reset, DeleteCloud, vars, logVars
  <2> QED
    BY <2>1, <2>2, <2>3
<1>2. reported' = reported
  <2>1. CASE ServerPublishes
    BY <2>1 DEF ServerPublishes, Publish
  <2>2. CASE ServerCompacts
    BY <2>2 DEF ServerCompacts, Compact
  <2>3. CASE ~ServerPublishes /\ ~ServerCompacts
    BY <2>3 DEF Next, Step, Start, CheckTop, Fetch, CheckFetched, Apply, Report,
                Fail, Abort, Crash, Reset, DeleteCloud, vars, logVars
  <2> QED
    BY <2>1, <2>2, <2>3
<1>3. ASSUME NEW w \in Worker, NEW b \in Book, round'[w].content[b] # None
      PROVE  rows'[b] # NoRow
  <2>1. CASE round'[w] = round[w] \/ round'[w] = NoRound
    BY <1>1, <1>3, <2>1 DEF NoRound
  <2>2. CASE Fetch(w)
    <3>1. round'[w] = Delta(at[w])
      BY <2>2 DEF Fetch, Inv, TypeOK
    <3>2. at[w] \in Nat /\ at[w] < nextRev
      BY DEF Inv, TypeOK, Bounds
    <3>3. rows[b] # NoRow
      BY <1>3, <3>1, <3>2, InvIsLogInv, DeltaFacts
    <3> QED
      BY <1>1, <3>3
  <2>3. round'[w] = round[w] \/ round'[w] = NoRound \/ Fetch(w)
    <3>1. ASSUME NEW v \in Worker, Step(v) \/ Fail(v) \/ Abort(v)
          PROVE  round'[w] = round[w] \/ round'[w] = NoRound \/ Fetch(w)
      BY <3>1 DEF Step, Start, CheckTop, Fetch, CheckFetched, Apply, Report,
                  Fail, Abort, EndChains, Inv, TypeOK
    <3>2. ASSUME NEW d \in Device, Crash(d) \/ Reset(d) \/ \E b1 \in Book : DeleteCloud(d, b1)
          PROVE  round'[w] = round[w] \/ round'[w] = NoRound
      BY <3>2 DEF Crash, Reset, DeleteCloud, EndChains
    <3>3. CASE ServerPublishes \/ ServerCompacts \/ UNCHANGED vars
      BY <3>3 DEF ServerPublishes, ServerCompacts, vars, devVars
    <3> QED
      BY <3>1, <3>2, <3>3 DEF Next
  <2> QED
    BY <2>1, <2>2, <2>3
<1>4. ASSUME NEW d \in Device, NEW b \in Book, rows'[b] = NoRow
      PROVE  store'[d][b] = None
  <2>1. store[d][b] = None /\ rows[b] = NoRow
    BY <1>1, <1>4 DEF NoGhost
  <2>2. ASSUME NEW w \in Worker, Apply(w)
        PROVE  store'[d][b] = None
    <3>1. round[w].content[b] = None
      BY <2>1
    <3>2. store' = [store EXCEPT ![Owner[w]] = Applied(store[Owner[w]], round[w].content)]
      BY <2>2 DEF Apply
    <3> QED
      BY <2>1, <3>1, <3>2 DEF Applied, Inv, TypeOK
  <2>3. ASSUME NEW e \in Device, Reset(e)
        PROVE  store'[d][b] = None
    BY <2>1, <2>3 DEF Reset, Inv, TypeOK
  <2>4. CASE UNCHANGED store
    BY <2>1, <2>4
  <2>5. ASSUME NEW e \in Device, NEW x \in Book, DeleteCloud(e, x)
        PROVE  store'[d][b] = None
    BY <2>1, <2>5 DEF DeleteCloud, Inv, TypeOK
  <2> QED
    BY <2>2, <2>3, <2>4, <2>5
       DEF Next, Step, Start, CheckTop, Fetch, CheckFetched, Report, Fail, Abort,
           Crash, ServerPublishes, ServerCompacts, vars, devVars
<1> QED
  BY <1>1, <1>2, <1>3, <1>4 DEF NoGhost

(* The shipped client never posts a cursor (client.rs, report_state), and  *)
(* as long as no device does, no device is ever left with a book whose     *)
(* tombstone the server has dropped - with any number of devices and of    *)
(* overlapping chains.                                                     *)
THEOREM SilentDevicesKeepNoGhosts == Reporter = {} /\ Spec => []NoGhost
<1>1. ASSUME Reporter = {}
      PROVE  Spec => []NoGhost
  <2>1. Init => GhostInv
    BY DEF Init, LogInit, GhostInv, NoGhost, NoRound
  <2>2. Inv /\ GhostInv /\ [Next]_vars => GhostInv'
    BY <1>1, NextGhost
  <2> QED
    BY <2>1, <2>2, InvHolds, PTL DEF Spec, GhostInv
<1> QED
  BY <1>1
---------------------------------------------------------------------------
(* Ghosts of a device that reports.  What its reports have passed is gone  *)
(* from it for good: the tombstone was at or below the cursor when it was  *)
(* reported, so that the copy had been removed, and a round fetched later  *)
(* cannot bring it back, because what the book becomes again gets a        *)
(* revision that no report has reached.                                    *)

OneDevice == \A d, e \in Device : d = e

Passed(b) ==
  \/ rows[b] = NoRow
  \/ /\ rows[b].content = Gone
     /\ \E k \in Key : reported[k] # NoReport /\ rows[b].rev <= reported[k]

PassedIsGone ==
  \A b \in Book : Passed(b) =>
    /\ \A d \in Device : store[d][b] = None
    /\ \A w \in Worker : round[w].content[b] \in {None, Gone}

ReportInv ==
  /\ PassedIsGone
  /\ \A k \in Key : reported[k] # NoReport => reported[k] < nextRev

(* A step of the server makes a book passed only if it was already.        *)
LEMMA LogPassesNothing ==
  ASSUME Inv, ReportInv, ServerPublishes \/ ServerCompacts
  PROVE  /\ \A b \in Book : Passed(b)' => Passed(b)
         /\ \A k \in Key : reported'[k] # NoReport => reported'[k] < nextRev'
<1> USE DEF ReportInv
<1>1. /\ nextRev \in Nat /\ reported \in [Key -> Nat \cup {NoReport}]
      /\ \A b \in Book : rows[b] # NoRow => rows[b].rev \in Nat
  BY DEF Inv, TypeOK, LogTypeOK, Row
<1>2. CASE ServerPublishes
  <2>1. PICK batch \in SUBSET Book : \E written \in SUBSET batch : Publish(batch, written)
    BY <1>2 DEF ServerPublishes
  <2>2. PICK written \in SUBSET batch : Publish(batch, written)
    BY <2>1
  <2>3. /\ nextRev' \in Nat /\ nextRev <= nextRev'
        /\ \A b \in Book : rows'[b] = rows[b] \/ (rows'[b] \in Row /\ rows'[b] # NoRow
                                                   /\ nextRev <= rows'[b].rev)
    BY <2>2, PublishFacts DEF Inv, TypeOK, LogTypeOK
  <2>4. reported' = reported
    BY <2>2 DEF Publish
  <2>5. ASSUME NEW b \in Book, Passed(b)' PROVE Passed(b)
    <3>1. CASE rows'[b] = rows[b]
      BY <2>4, <2>5, <3>1 DEF Passed
    <3>2. CASE rows'[b] \in Row /\ rows'[b] # NoRow /\ nextRev <= rows'[b].rev
      <4>1. rows'[b].rev \in Nat
        BY <3>2 DEF Row
      <4>2. PICK k \in Key : reported[k] # NoReport /\ rows'[b].rev <= reported[k]
        BY <2>4, <2>5, <3>2 DEF Passed
      <4> QED
        BY <1>1, <3>2, <4>1, <4>2
    <3> QED
      BY <2>3, <3>1, <3>2
  <2> QED
    BY <1>1, <2>3, <2>4, <2>5
<1>3. CASE ServerCompacts
  <2>1. /\ rows' = [b \in Book |-> IF Compactable(b) THEN NoRow ELSE rows[b]]
        /\ UNCHANGED <<nextRev, reported>>
    BY <1>3 DEF ServerCompacts, Compact
  <2>2. ASSUME NEW b \in Book, Compactable(b) PROVE Passed(b)
    <3>1. PICK k \in Key : reported[k] # NoReport
      BY <2>2 DEF Compactable, BelowEveryReport
    <3>2. rows[b].rev < reported[k] /\ rows[b] # NoRow /\ rows[b].content = Gone
      BY <2>2, <3>1 DEF Compactable, BelowEveryReport
    <3> QED
      BY <1>1, <3>1, <3>2 DEF Passed
  <2> QED
    BY <2>1, <2>2 DEF Passed
<1> QED
  BY <1>2, <1>3

(* A round says nothing of a passed book but that it is gone.              *)
LEMMA FetchKeepsPassed ==
  ASSUME Inv, ReportInv, NEW w \in Worker, Fetch(w)
  PROVE  ReportInv'
<1>1. UNCHANGED <<rows, nextRev, reported, store>>
  BY DEF Fetch, logVars
<1>2. \A v \in Worker : round'[v] = IF v = w THEN Delta(at[w]) ELSE round[v]
  BY DEF Fetch, Inv, TypeOK
<1>3. /\ at[w] \in Nat /\ at[w] < nextRev
  BY DEF Inv, TypeOK, Bounds
<1>4. ASSUME NEW b \in Book, Passed(b)
      PROVE  Delta(at[w]).content[b] \in {None, Gone}
  <2>1. Delta(at[w]).content[b] = IF b \in Page(at[w]) THEN rows[b].content ELSE None
    BY DEF Delta
  <2>2. CASE rows[b] = NoRow
    BY <1>3, <2>2, InvIsLogInv, DeltaFacts
  <2>3. CASE rows[b].content = Gone
    BY <2>1, <2>3
  <2> QED
    BY <1>4, <2>2, <2>3 DEF Passed
<1>5. \A b \in Book : Passed(b)' <=> Passed(b)
  BY <1>1 DEF Passed
<1> QED
  BY <1>1, <1>2, <1>4, <1>5 DEF ReportInv, PassedIsGone

(* What is applied of a passed book leaves it away.                        *)
LEMMA ApplyKeepsPassed ==
  ASSUME Inv, ReportInv, NEW w \in Worker, Apply(w)
  PROVE  ReportInv'
<1> USE DeltaAssumption
<1>1. UNCHANGED <<rows, nextRev, reported>>
  BY DEF Apply, logVars
<1>2. \A v \in Worker : round'[v] = IF v = w THEN NoRound ELSE round[v]
  BY DEF Apply, Inv, TypeOK
<1>3. \A d \in Device : store'[d] = IF d = Owner[w] THEN Applied(store[d], round[w].content)
                                                    ELSE store[d]
  BY DEF Apply, Inv, TypeOK
<1>4. \A b \in Book : Passed(b)' <=> Passed(b)
  BY <1>1 DEF Passed
<1>5. ASSUME NEW b \in Book, Passed(b), NEW d \in Device PROVE store'[d][b] = None
  <2>1. store[d][b] = None /\ round[w].content[b] \in {None, Gone}
    BY <1>5 DEF ReportInv, PassedIsGone
  <2> QED
    BY <1>3, <2>1 DEF Applied
<1>6. \A b \in Book : NoRound.content[b] = None
  BY DEF NoRound
<1> QED
  BY <1>1, <1>2, <1>4, <1>5, <1>6 DEF ReportInv, PassedIsGone

(* What a report passes is gone from the device that reports, which has    *)
(* no round in the air: its chain is at its end.                           *)
LEMMA ReportPassesWhatIsGone ==
  ASSUME OneChain, OneDevice, Inv, ReplicaInv, ReportInv, NEW w \in Worker, Report(w)
  PROVE  ReportInv'
<1> USE DeltaAssumption
<1>1. UNCHANGED <<rows, nextRev, store>> /\ pc[w] = "report"
  BY DEF Report, RecordDevice, logVars
<1>2. at[w] = cursor[Owner[w]] /\ Owner[w] \in Device
  BY <1>1 DEF ReplicaInv, ChainAgrees
<1>3. \A v \in Worker : v = w
  BY DEF OneChain, OneDevice
<1>4. \A v \in Worker, b \in Book : round'[v].content[b] = None
  BY <1>3 DEF Report, EndChains, NoRound
<1>5. \/ reported' = reported
      \/ reported' = [reported EXCEPT ![KeyOf[Owner[w]]] = at[w]]
  BY DEF Report, RecordDevice, logVars
<1>6. /\ reported \in [Key -> Nat \cup {NoReport}] /\ at[w] \in Nat /\ at[w] < nextRev
  BY DEF Inv, TypeOK, LogTypeOK, Bounds
<1>7. \A k \in Key : reported'[k] = reported[k] \/ reported'[k] = at[w]
  BY <1>5, <1>6
<1>8. ASSUME NEW b \in Book, Passed(b)', NEW d \in Device
      PROVE  store'[d][b] = None
  <2>1. CASE Passed(b)
    BY <1>1, <2>1 DEF ReportInv, PassedIsGone
  <2>2. CASE ~Passed(b)
    <3>1. rows[b] # NoRow /\ rows[b].content = Gone
      BY <1>1, <1>8, <2>2 DEF Passed
    <3>2. PICK k \in Key : reported'[k] # NoReport /\ rows[b].rev <= reported'[k]
      BY <1>1, <1>8, <3>1 DEF Passed
    <3>3. rows[b].rev <= cursor[d]
      BY <1>2, <1>7, <2>2, <3>1, <3>2 DEF Passed, OneDevice
    <3>4. store[d][b] = Owed(d, b)
      BY <3>1, <3>3 DEF ReplicaInv, ReplicaAgrees
    <3> QED
      BY <1>1, <3>1, <3>4 DEF Owed, CopyOf
  <2> QED
    BY <2>1, <2>2
<1>9. \A k \in Key : reported'[k] # NoReport => reported'[k] < nextRev'
  BY <1>1, <1>6, <1>7 DEF ReportInv
<1> QED
  BY <1>4, <1>8, <1>9 DEF ReportInv, PassedIsGone

(* Every step, of the server and of the chain.                             *)
LEMMA NextReport ==
  ASSUME OneChain, OneDevice, Inv, ReplicaInv, ReportInv, [Next]_vars
  PROVE  ReportInv'
<1> USE DeltaAssumption
<1>1. CASE ServerPublishes \/ ServerCompacts
  <2>1. UNCHANGED <<store, round>>
    BY <1>1 DEF ServerPublishes, ServerCompacts, devVars
  <2> QED
    BY <1>1, <2>1, LogPassesNothing DEF ReportInv, PassedIsGone
<1>2. ASSUME UNCHANGED <<logVars, store>>,
             \A v \in Worker : round'[v] \in {round[v], NoRound}
      PROVE  ReportInv'
  <2>1. \A b \in Book : Passed(b)' <=> Passed(b)
    BY <1>2 DEF Passed, logVars
  <2>2. \A b \in Book : NoRound.content[b] = None
    BY DEF NoRound
  <2> QED
    BY <1>2, <2>1, <2>2 DEF ReportInv, PassedIsGone, logVars
<1>3. ASSUME NEW w \in Worker,
             Start(w) \/ CheckTop(w) \/ CheckFetched(w) \/ Fail(w) \/ Abort(w)
      PROVE  ReportInv'
  <2>1. UNCHANGED <<logVars, store>>
    BY <1>3 DEF Start, CheckTop, CheckFetched, Fail, Abort
  <2>2. \A v \in Worker : round'[v] \in {round[v], NoRound}
    BY <1>3 DEF Start, CheckTop, CheckFetched, Fail, Abort, EndChains
  <2> QED
    BY <1>2, <2>1, <2>2
<1>4. ASSUME NEW d \in Device, Crash(d)
      PROVE  ReportInv'
  BY <1>2, <1>4 DEF Crash, EndChains
<1>5. ASSUME NEW d \in Device, Reset(d)
      PROVE  ReportInv'
  <2>1. UNCHANGED logVars /\ \A v \in Worker : round'[v] \in {round[v], NoRound}
    BY <1>5 DEF Reset, EndChains
  <2>2. \A e \in Device, b \in Book : store'[e][b] \in {store[e][b], None}
    BY <1>5 DEF Reset, Inv, TypeOK
  <2>3. \A b \in Book : Passed(b)' <=> Passed(b)
    BY <2>1 DEF Passed, logVars
  <2>4. \A b \in Book : NoRound.content[b] = None
    BY DEF NoRound
  <2> QED
    BY <2>1, <2>2, <2>3, <2>4 DEF ReportInv, PassedIsGone, logVars
<1>6. CASE UNCHANGED vars
  BY <1>2, <1>6 DEF vars, devVars, logVars
<1>7. ASSUME NEW d \in Device, NEW b \in Book, DeleteCloud(d, b)
      PROVE  ReportInv'
  <2>1. UNCHANGED <<logVars, round>>
    BY <1>7 DEF DeleteCloud
  <2>2. \A e \in Device, x \in Book : store'[e][x] \in {store[e][x], None}
    BY <1>7 DEF DeleteCloud, Inv, TypeOK
  <2>3. \A x \in Book : Passed(x)' <=> Passed(x)
    BY <2>1 DEF Passed, logVars
  <2> QED
    BY <2>1, <2>2, <2>3 DEF ReportInv, PassedIsGone, logVars
<1> QED
  BY <1>1, <1>3, <1>4, <1>5, <1>6, <1>7, FetchKeepsPassed, ApplyKeepsPassed, ReportPassesWhatIsGone
     DEF Next, Step

(* A device that reports its cursor and is the only one of its server      *)
(* never keeps a book whose tombstone was dropped, whatever reports are    *)
(* lost, whatever chain is aborted or dies, and after any wipe, although a *)
(* wipe leaves the server with a cursor the device no longer has.  With a  *)
(* second device that stays silent it fails: record_device promises more   *)
(* than _compact_tombstones keeps.                                         *)
THEOREM TheOnlyDeviceKeepsNoGhosts == OneChain /\ OneDevice /\ Spec => []NoGhost
<1>1. ASSUME OneChain, OneDevice
      PROVE  Spec => []NoGhost
  <2>1. Init => ReplicaInv /\ ReportInv
    BY DEF Init, LogInit, ReplicaInv, ReplicaAgrees, ChainAgrees, ReportInv, PassedIsGone, NoRound
  <2>2. Inv /\ ReplicaInv /\ ReportInv /\ [Next]_vars => ReplicaInv' /\ ReportInv'
    BY <1>1, NextReplica, NextReport
  <2>3. ReportInv => NoGhost
    BY DEF ReportInv, PassedIsGone, Passed, NoGhost
  <2> QED
    BY <2>1, <2>2, <2>3, InvHolds, PTL DEF Spec
<1> QED
  BY <1>1
=============================================================================
