------------------------- MODULE CoverFlight_proofs -------------------------
(***************************************************************************)
(* Proofs about the covers of the server, for any number of books, threads *)
(* and entries of the negative cache, and for any faults.                  *)
(***************************************************************************)
EXTENDS CoverFlight, TLAPS

---------------------------------------------------------------------------
(* The parts of the inductive invariant.                                   *)

(* A thread at work is at work on a book.                                  *)
WorkHasBook == \A t \in Thread : pc[t] # "idle" => book[t] \in Book

(* The table of slots names the owners: OneOwner is what follows from it.  *)
SlotNamesOwner ==
  \A b \in Book, t \in Thread :
    inflight[b] = t <=> pc[t] \in Owning /\ book[t] = b

(* Who waits for a thread is in the wait.                                  *)
WaitersWait == \A t \in Thread : waits[t] # None => pc[t] = "wait"

(* An owner about to mark a book has the provider's word for it.           *)
MarkIsConfirmed == \A t \in Thread : pc[t] = "mark" => book[t] \in confirmed

FlightInv ==
  /\ TypeOK
  /\ WorkHasBook
  /\ SlotNamesOwner
  /\ WaitersWait
  /\ NoOrphanWait
  /\ MarkIsConfirmed
  /\ MissingMeansAbsent

---------------------------------------------------------------------------
(* The negative cache.                                                     *)

Distinct(s) == \A i, j \in 1 .. Len(s) : s[i] = s[j] => i = j

(* Without b the list of missing books is still one of distinct books.     *)
LEMMA OthersFacts ==
  ASSUME missing \in Seq(Book), Distinct(missing), NEW b \in Book
  PROVE  /\ Others(b) \in Seq(Book)
         /\ Len(Others(b)) = IF Known(b) THEN Len(missing) - 1 ELSE Len(missing)
         /\ Distinct(Others(b))
         /\ \A i \in 1 .. Len(Others(b)) :
              Others(b)[i] # b /\ \E j \in 1 .. Len(missing) : Others(b)[i] = missing[j]
<1>1. CASE ~Known(b)
  BY <1>1 DEF Others, Known, Distinct
<1>2. CASE Known(b)
  <2> DEFINE k == CHOOSE i \in 1 .. Len(missing) : missing[i] = b
             rest == RemoveAt(missing, k)
  <2>1. k \in 1 .. Len(missing) /\ missing[k] = b
    BY <1>2 DEF Known
  <2>2. Others(b) = rest
    BY <1>2 DEF Others
  <2> HIDE DEF k
  <2>3. /\ rest \in Seq(Book)
        /\ Len(rest) = Len(missing) - 1
        /\ \A i \in 1 .. Len(missing) - 1 :
             rest[i] = IF i < k THEN missing[i] ELSE missing[i + 1]
    <3> DEFINE left == SubSeq(missing, 1, k - 1)
               right == SubSeq(missing, k + 1, Len(missing))
    <3>1. /\ left \in Seq(Book)
          /\ Len(left) = k - 1
          /\ \A i \in 1 .. k - 1 : left[i] = missing[i]
      BY <2>1
    <3>2. /\ right \in Seq(Book)
          /\ Len(right) = Len(missing) - k
          /\ \A i \in 1 .. Len(missing) - k : right[i] = missing[i + k]
      BY <2>1
    <3>3. rest = left \o right
      BY DEF RemoveAt
    <3> HIDE DEF left, right, rest
    <3>4. rest \in Seq(Book) /\ Len(rest) = Len(missing) - 1
      <4>1. rest \in Seq(Book)
        BY <3>1, <3>2, <3>3
      <4>2. Len(rest) = Len(left) + Len(right)
        <5>1. left \in Seq(Book) /\ right \in Seq(Book)
          BY <3>1, <3>2
        <5>2. \A s, u \in Seq(Book) : Len(s \o u) = Len(s) + Len(u)
          OBVIOUS
        <5> QED
          BY <3>3, <5>1, <5>2
      <4>3. (k - 1) + (Len(missing) - k) = Len(missing) - 1
        BY <2>1
      <4> QED
        BY <3>1, <3>2, <4>1, <4>2, <4>3
    <3>5. ASSUME NEW i \in 1 .. Len(missing) - 1
          PROVE  rest[i] = IF i < k THEN missing[i] ELSE missing[i + 1]
      <4>1. CASE i < k
        BY <2>1, <3>1, <3>2, <3>3, <4>1
      <4>2. CASE ~(i < k)
        <5>1. rest[i] = right[i - (k - 1)]
          BY <2>1, <3>1, <3>2, <3>3, <4>2
        <5>2. i - (k - 1) \in 1 .. Len(missing) - k
          BY <2>1, <4>2
        <5> QED
          BY <2>1, <3>2, <4>2, <5>1, <5>2
      <4> QED
        BY <4>1, <4>2
    <3> QED
      BY <3>4, <3>5
  <2> HIDE DEF rest
  <2>4. \A i \in 1 .. Len(rest) :
          /\ i < k => rest[i] = missing[i] /\ i \in 1 .. Len(missing)
          /\ ~(i < k) => rest[i] = missing[i + 1] /\ i + 1 \in 1 .. Len(missing)
    BY <2>1, <2>3
  <2>5. Distinct(rest)
    BY <2>1, <2>4 DEF Distinct
  <2>6. ASSUME NEW i \in 1 .. Len(rest)
        PROVE  rest[i] # b /\ \E j \in 1 .. Len(missing) : rest[i] = missing[j]
    <3>1. CASE i < k
      BY <2>1, <2>4, <3>1 DEF Distinct
    <3>2. CASE ~(i < k)
      <4>1. rest[i] = missing[i + 1] /\ i + 1 \in 1 .. Len(missing) /\ i + 1 # k
        BY <2>1, <2>3, <2>4, <3>2
      <4> QED
        BY <2>1, <4>1 DEF Distinct
    <3> QED
      BY <3>1, <3>2
  <2> QED
    BY <1>2, <2>2, <2>3, <2>5, <2>6
<1> QED
  BY <1>1, <1>2

(* The negative cache keeps its form when it is asked and gets no entry.   *)
LEMMA AskMissingFacts ==
  ASSUME TypeOK, NEW b \in Book, AskMissing(b)
  PROVE  /\ missing' \in Seq(Book)
         /\ Len(missing') <= MissingMax
         /\ Distinct(missing')
         /\ \A c \in Book : Known(c)' => Known(c)
<1>1. missing \in Seq(Book) /\ Len(missing) <= MissingMax /\ Distinct(missing)
  BY DEF TypeOK, Distinct
<1>2. /\ Others(b) \in Seq(Book)
      /\ Len(Others(b)) = IF Known(b) THEN Len(missing) - 1 ELSE Len(missing)
      /\ Distinct(Others(b))
      /\ \A i \in 1 .. Len(Others(b)) :
           Others(b)[i] # b /\ \E j \in 1 .. Len(missing) : Others(b)[i] = missing[j]
  BY <1>1, OthersFacts
<1>3. CASE ~Known(b)
  BY <1>1, <1>3 DEF AskMissing, Known
<1>4. CASE Known(b) /\ b \in stale
  <2>1. missing' = Others(b)
    BY <1>4 DEF AskMissing
  <2> QED
    BY <1>1, <1>2, <1>4, <2>1, CoverAssumption DEF Known
<1>5. CASE Known(b) /\ b \notin stale
  <2>1. missing' = Append(Others(b), b)
    BY <1>5 DEF AskMissing
  <2>2. /\ missing' \in Seq(Book)
        /\ Len(missing') = Len(missing)
        /\ missing'[Len(missing)] = b
        /\ \A i \in 1 .. Len(missing) - 1 : missing'[i] = Others(b)[i]
    BY <1>1, <1>2, <1>5, <2>1
  <2> DEFINE n == Len(missing)
  <2>3. n \in Nat /\ Len(Others(b)) = n - 1
    BY <1>1, <1>2, <1>5
  <2>4. \A i \in 1 .. n : i = n \/ i \in 1 .. n - 1
    BY <2>3
  <2>5. ASSUME NEW i \in 1 .. n - 1
        PROVE  missing'[i] # b /\ \E j \in 1 .. n : missing'[i] = missing[j]
    <3>1. missing'[i] = Others(b)[i] /\ i \in 1 .. Len(Others(b))
      BY <2>2, <2>3
    <3> QED
      BY <1>2, <3>1
  <2> HIDE DEF n
  <2>6. \A i, j \in 1 .. n - 1 : missing'[i] = missing'[j] => i = j
    BY <1>2, <2>2, <2>3 DEF Distinct, n
  <2>7. Len(missing') = n /\ missing'[n] = b
    BY <2>2 DEF n
  <2>8. Distinct(missing')
    BY <2>4, <2>5, <2>6, <2>7 DEF Distinct
  <2>9. \A c \in Book : Known(c)' => Known(c)
    BY <1>5, <2>4, <2>5, <2>7 DEF Known, n
  <2> QED
    BY <1>1, <2>2, <2>8, <2>9
<1> QED
  BY <1>3, <1>4, <1>5

(* Marking keeps the bound, and no book but the marked one comes in.       *)
LEMMA MarkMissingFacts ==
  ASSUME TypeOK, NEW b \in Book, MarkMissing(b)
  PROVE  /\ missing' \in Seq(Book)
         /\ Len(missing') <= MissingMax
         /\ Distinct(missing')
         /\ \A c \in Book : Known(c)' => c = b \/ Known(c)
<1> DEFINE n == Len(Others(b))
           marked == Append(Others(b), b)
<1>1. missing \in Seq(Book) /\ Len(missing) <= MissingMax /\ Distinct(missing)
  BY DEF TypeOK, Distinct
<1>2. /\ Others(b) \in Seq(Book)
      /\ n \in Nat
      /\ n <= Len(missing)
      /\ Distinct(Others(b))
      /\ \A i \in 1 .. n :
           Others(b)[i] # b /\ \E j \in 1 .. Len(missing) : Others(b)[i] = missing[j]
  BY <1>1, OthersFacts
<1>3. /\ marked \in Seq(Book)
      /\ Len(marked) = n + 1
      /\ marked[n + 1] = b
      /\ \A i \in 1 .. n : marked[i] = Others(b)[i]
  BY <1>2
<1>4. Distinct(marked)
  <2>1. \A i \in 1 .. n + 1 : i = n + 1 \/ i \in 1 .. n
    BY <1>2
  <2>2. \A i \in 1 .. n : marked[i] # b
    BY <1>2, <1>3
  <2>3. \A i, j \in 1 .. n : marked[i] = marked[j] => i = j
    BY <1>2, <1>3 DEF Distinct
  <2> HIDE DEF marked, n
  <2> QED
    BY <1>3, <2>1, <2>2, <2>3 DEF Distinct
<1>5. \A i \in 1 .. n + 1 : marked[i] = b \/ \E j \in 1 .. Len(missing) : marked[i] = missing[j]
  BY <1>2, <1>3
<1>6. missing' = IF Len(marked) > MissingMax THEN Tail(marked) ELSE marked
  BY DEF MarkMissing
<1> HIDE DEF marked, n
<1>7. CASE ~(n + 1 > MissingMax)
  <2>1. missing' = marked
    BY <1>3, <1>6, <1>7
  <2> QED
    BY <1>2, <1>3, <1>4, <1>5, <1>7, <2>1, CoverAssumption DEF Known
<1>8. CASE n + 1 > MissingMax
  <2>1. missing' = Tail(marked)
    BY <1>3, <1>6, <1>8
  <2>2. /\ missing' \in Seq(Book)
        /\ Len(missing') = n
        /\ \A i \in 1 .. n : missing'[i] = marked[i + 1]
    BY <1>2, <1>3, <2>1
  <2>3. Distinct(missing')
    BY <1>2, <1>3, <1>4, <2>2 DEF Distinct
  <2>4. \A c \in Book : Known(c)' => c = b \/ Known(c)
    <3>1. \A i \in 1 .. n : i + 1 \in 1 .. n + 1
      BY <1>2
    <3>2. \A i \in 1 .. n :
            missing'[i] = b \/ \E j \in 1 .. Len(missing) : missing'[i] = missing[j]
      BY <1>5, <2>2, <3>1
    <3> QED
      BY <2>2, <3>2 DEF Known
  <2> QED
    BY <1>1, <1>2, <2>2, <2>3, <2>4, CoverAssumption
<1> QED
  BY <1>2, <1>7, <1>8, CoverAssumption

---------------------------------------------------------------------------
(* The steps.                                                              *)

(* Types: what is not obvious is the negative cache.                        *)
LEMMA TypeStep ==
  ASSUME TypeOK, WorkHasBook, [Next]_vars
  PROVE  TypeOK'
<1>1. ASSUME NEW t \in Thread, NEW b \in Book, Ask(t, b) PROVE TypeOK'
  BY <1>1, CoverAssumption DEF Ask, Goes, cache, bounds, TypeOK, States, Owning
<1>2. ASSUME NEW t \in Thread, Look(t) PROVE TypeOK'
  BY <1>2, CoverAssumption
     DEF Look, Answer, Goes, cache, bounds, TypeOK, States, Owning
<1>3. ASSUME NEW t \in Thread, LookMissing(t) PROVE TypeOK'
  <2>1. missing' \in Seq(Book) /\ Len(missing') <= MissingMax /\ Distinct(missing')
    BY <1>3, AskMissingFacts DEF LookMissing, TypeOK, WorkHasBook
  <2>2. disk' = disk /\ fresh' = fresh /\ stale' = stale
    BY <1>3 DEF LookMissing, AskMissing
  <2> QED
    BY <1>3, <2>1, <2>2, CoverAssumption
       DEF LookMissing, Answer, Goes, bounds, TypeOK, States, Owning, Distinct
<1>4. ASSUME NEW t \in Thread, LookAgain(t) PROVE TypeOK'
  BY <1>4, CoverAssumption
     DEF LookAgain, Answer, Goes, cache, bounds, TypeOK, States, Owning
<1>5. ASSUME NEW t \in Thread, TakeSlot(t) PROVE TypeOK'
  <2>1. /\ pc' \in [Thread -> States]
        /\ inflight' \in [Book -> Thread \cup {None}]
        /\ waits' \in [Thread -> Thread \cup {None}]
    <3>1. book[t] \in Book
      BY <1>5 DEF TakeSlot, WorkHasBook
    <3>2. CASE inflight[book[t]] = None
      BY <1>5, <3>1, <3>2 DEF TakeSlot, Goes, TypeOK, States, Owning
    <3>3. CASE inflight[book[t]] # None
      BY <1>5, <3>1, <3>3 DEF TakeSlot, Goes, TypeOK, States, Owning
    <3> QED
      BY <3>2, <3>3
  <2> QED
    BY <1>5, <2>1 DEF TakeSlot, cache, bounds, TypeOK
<1>6. ASSUME NEW t \in Thread, WaitTimesOut(t) PROVE TypeOK'
  BY <1>6, CoverAssumption
     DEF WaitTimesOut, Goes, cache, bounds, TypeOK, States, Owning
<1>7. ASSUME NEW t \in Thread, Reread(t) PROVE TypeOK'
  BY <1>7, CoverAssumption
     DEF Reread, Answer, Goes, cache, bounds, TypeOK, States, Owning
<1>8. ASSUME NEW t \in Thread, Mark(t) PROVE TypeOK'
  <2>1. missing' \in Seq(Book) /\ Len(missing') <= MissingMax /\ Distinct(missing')
    BY <1>8, MarkMissingFacts DEF Mark, TypeOK, WorkHasBook
  <2> QED
    BY <1>8, <2>1, CoverAssumption
       DEF Mark, Goes, bounds, TypeOK, States, Owning, Distinct
<1>9. ASSUME NEW t \in Thread, Store(t) PROVE TypeOK'
  <2>1. pc' \in [Thread -> States] /\ raw' \in [Thread -> Body \cup {"garbage", None}]
    BY <1>9 DEF Store, Goes, TypeOK, States, Owning
  <2>2. /\ disk' \in [Book -> Version \cup {None}]
        /\ fresh' \subseteq Book
        /\ faults' \in 0 .. MaxFaults
    BY <1>9, CoverAssumption DEF Store, TypeOK, WorkHasBook
  <2> QED
    BY <1>9, <2>1, <2>2 DEF Store, TypeOK
<1>10. ASSUME NEW t \in Thread, PopSlot(t) PROVE TypeOK'
  BY <1>10, CoverAssumption DEF PopSlot, Goes, cache, bounds, TypeOK, States, Owning
<1>11. ASSUME NEW t \in Thread, SetEvent(t) PROVE TypeOK'
  BY <1>11, CoverAssumption DEF SetEvent, cache, bounds, TypeOK, States, Owning
<1>12. ASSUME NEW t \in Thread, Fetch(t) PROVE TypeOK'
  <2>1. /\ pc' \in [Thread -> States]
        /\ raw' \in [Thread -> Body \cup {"garbage", None}]
        /\ confirmed' \subseteq Book
    <3>1. book[t] \in Book /\ upstream[book[t]] \in Body \cup {"absent", "garbage"}
      BY <1>12 DEF Fetch, WorkHasBook, TypeOK
    <3>2. CASE upstream[book[t]] = "absent"
      BY <1>12, <3>1, <3>2 DEF Fetch, Goes, TypeOK, States, Owning
    <3>3. CASE upstream[book[t]] # "absent"
      BY <1>12, <3>1, <3>3 DEF Fetch, Goes, TypeOK, States, Owning
    <3> QED
      BY <3>2, <3>3
  <2> QED
    BY <1>12, <2>1 DEF Fetch, cache, bounds, TypeOK
<1>13. ASSUME NEW t \in Thread, FetchFails(t) PROVE TypeOK'
  BY <1>13, CoverAssumption
     DEF FetchFails, Goes, cache, bounds, TypeOK, States, Owning
<1>14. ASSUME NEW b \in Book, NEW there \in Body \cup {"absent", "garbage"}, Edit(b, there)
      PROVE  TypeOK'
  BY <1>14, CoverAssumption DEF Edit, cache, threads, bounds, TypeOK, States, Owning
<1>15. ASSUME NEW b \in Book, FileAges(b) PROVE TypeOK'
  BY <1>15, CoverAssumption
     DEF FileAges, cache, threads, bounds, TypeOK, States, Owning
<1>16. ASSUME NEW b \in Book, MarkAges(b) PROVE TypeOK'
  BY <1>16, CoverAssumption
     DEF MarkAges, cache, threads, bounds, TypeOK, States, Owning
<1>17. CASE Restart
  BY <1>17, CoverAssumption DEF Restart, bounds, TypeOK, States, Owning
<1>18. CASE UNCHANGED vars
  BY <1>18, CoverAssumption DEF vars, cache, threads, bounds, TypeOK, States, Owning
<1> QED
  BY <1>1, <1>2, <1>3, <1>4, <1>5, <1>6, <1>7, <1>8, <1>9, <1>10, <1>11, <1>12,
     <1>13, <1>14, <1>15, <1>16, <1>17, <1>18
     DEF Next, Step

(* A thread keeps its book as long as it works.                            *)
LEMMA WorkHasBookStep ==
  ASSUME TypeOK, WorkHasBook, WaitersWait, [Next]_vars
  PROVE  WorkHasBook'
<1>1. ASSUME NEW t \in Thread, NEW b \in Book, Ask(t, b) PROVE WorkHasBook'
  BY <1>1 DEF Ask, Goes, cache, bounds, TypeOK, WorkHasBook
<1>2. ASSUME NEW t \in Thread, Look(t) PROVE WorkHasBook'
  BY <1>2 DEF Look, Answer, Goes, cache, bounds, TypeOK, WorkHasBook
<1>3. ASSUME NEW t \in Thread, LookMissing(t) PROVE WorkHasBook'
  BY <1>3 DEF LookMissing, Answer, Goes, cache, bounds, TypeOK, WorkHasBook
<1>4. ASSUME NEW t \in Thread, LookAgain(t) PROVE WorkHasBook'
  BY <1>4 DEF LookAgain, Answer, Goes, cache, bounds, TypeOK, WorkHasBook
<1>5. ASSUME NEW t \in Thread, TakeSlot(t) PROVE WorkHasBook'
  BY <1>5 DEF TakeSlot, Goes, cache, bounds, TypeOK, WorkHasBook
<1>6. ASSUME NEW t \in Thread, WaitTimesOut(t) PROVE WorkHasBook'
  BY <1>6 DEF WaitTimesOut, Goes, cache, bounds, TypeOK, WorkHasBook
<1>7. ASSUME NEW t \in Thread, Reread(t) PROVE WorkHasBook'
  BY <1>7 DEF Reread, Answer, Goes, cache, bounds, TypeOK, WorkHasBook
<1>8. ASSUME NEW t \in Thread, Mark(t) PROVE WorkHasBook'
  BY <1>8 DEF Mark, Goes, cache, bounds, TypeOK, WorkHasBook
<1>9. ASSUME NEW t \in Thread, Store(t) PROVE WorkHasBook'
  BY <1>9 DEF Store, Goes, cache, bounds, TypeOK, WorkHasBook
<1>10. ASSUME NEW t \in Thread, PopSlot(t) PROVE WorkHasBook'
  BY <1>10 DEF PopSlot, Goes, cache, bounds, TypeOK, WorkHasBook
<1>11. ASSUME NEW t \in Thread, SetEvent(t) PROVE WorkHasBook'
  BY <1>11, CoverAssumption
     DEF SetEvent, cache, bounds, TypeOK, WorkHasBook, WaitersWait, Thread
<1>12. ASSUME NEW t \in Thread, Fetch(t) PROVE WorkHasBook'
  BY <1>12 DEF Fetch, Goes, cache, bounds, TypeOK, WorkHasBook
<1>13. ASSUME NEW t \in Thread, FetchFails(t) PROVE WorkHasBook'
  BY <1>13 DEF FetchFails, Goes, cache, bounds, TypeOK, WorkHasBook
<1>14. ASSUME NEW b \in Book, NEW there \in Body \cup {"absent", "garbage"}, Edit(b, there)
      PROVE  WorkHasBook'
  BY <1>14 DEF Edit, cache, threads, bounds, TypeOK, WorkHasBook
<1>15. ASSUME NEW b \in Book, FileAges(b) PROVE WorkHasBook'
  BY <1>15 DEF FileAges, cache, threads, bounds, TypeOK, WorkHasBook
<1>16. ASSUME NEW b \in Book, MarkAges(b) PROVE WorkHasBook'
  BY <1>16 DEF MarkAges, cache, threads, bounds, TypeOK, WorkHasBook
<1>17. CASE Restart
  BY <1>17 DEF Restart, bounds, TypeOK, WorkHasBook
<1>18. CASE UNCHANGED vars
  BY <1>18 DEF vars, cache, threads, bounds, TypeOK, WorkHasBook
<1> QED
  BY <1>1, <1>2, <1>3, <1>4, <1>5, <1>6, <1>7, <1>8, <1>9, <1>10, <1>11, <1>12,
     <1>13, <1>14, <1>15, <1>16, <1>17, <1>18
     DEF Next, Step

(* The slot of a book is made with its owner and goes with it.             *)
LEMMA SlotStep ==
  ASSUME TypeOK, WorkHasBook, SlotNamesOwner, WaitersWait, [Next]_vars
  PROVE  SlotNamesOwner'
<1>1. ASSUME NEW t \in Thread, NEW b \in Book, Ask(t, b) PROVE SlotNamesOwner'
  BY <1>1, CoverAssumption
     DEF Ask, Goes, cache, bounds, TypeOK, WorkHasBook, SlotNamesOwner, Thread,
         Owning
<1>2. ASSUME NEW t \in Thread, Look(t) PROVE SlotNamesOwner'
  BY <1>2, CoverAssumption
     DEF Look, Answer, Goes, cache, bounds, TypeOK, WorkHasBook, SlotNamesOwner,
         Thread, Owning
<1>3. ASSUME NEW t \in Thread, LookMissing(t) PROVE SlotNamesOwner'
  BY <1>3, CoverAssumption
     DEF LookMissing, Answer, Goes, cache, bounds, TypeOK, WorkHasBook,
         SlotNamesOwner, Thread, Owning
<1>4. ASSUME NEW t \in Thread, LookAgain(t) PROVE SlotNamesOwner'
  BY <1>4, CoverAssumption
     DEF LookAgain, Answer, Goes, cache, bounds, TypeOK, WorkHasBook,
         SlotNamesOwner, Thread, Owning
<1>5. ASSUME NEW t \in Thread, TakeSlot(t) PROVE SlotNamesOwner'
  BY <1>5, CoverAssumption
     DEF TakeSlot, Goes, cache, bounds, TypeOK, WorkHasBook, SlotNamesOwner, Thread,
         Owning
<1>6. ASSUME NEW t \in Thread, WaitTimesOut(t) PROVE SlotNamesOwner'
  BY <1>6, CoverAssumption
     DEF WaitTimesOut, Goes, cache, bounds, TypeOK, WorkHasBook, SlotNamesOwner,
         Thread, Owning
<1>7. ASSUME NEW t \in Thread, Reread(t) PROVE SlotNamesOwner'
  BY <1>7, CoverAssumption
     DEF Reread, Answer, Goes, cache, bounds, TypeOK, WorkHasBook, SlotNamesOwner,
         Thread, Owning
<1>8. ASSUME NEW t \in Thread, Mark(t) PROVE SlotNamesOwner'
  BY <1>8, CoverAssumption
     DEF Mark, Goes, cache, bounds, TypeOK, WorkHasBook, SlotNamesOwner, Thread,
         Owning
<1>9. ASSUME NEW t \in Thread, Store(t) PROVE SlotNamesOwner'
  BY <1>9, CoverAssumption
     DEF Store, Goes, cache, bounds, TypeOK, WorkHasBook, SlotNamesOwner, Thread,
         Owning
<1>10. ASSUME NEW t \in Thread, PopSlot(t) PROVE SlotNamesOwner'
  BY <1>10, CoverAssumption
     DEF PopSlot, Goes, cache, bounds, TypeOK, WorkHasBook, SlotNamesOwner, Thread,
         Owning
<1>11. ASSUME NEW t \in Thread, SetEvent(t) PROVE SlotNamesOwner'
  BY <1>11, CoverAssumption
     DEF SetEvent, cache, bounds, TypeOK, WorkHasBook, SlotNamesOwner, WaitersWait,
         Thread, Owning
<1>12. ASSUME NEW t \in Thread, Fetch(t) PROVE SlotNamesOwner'
  BY <1>12, CoverAssumption
     DEF Fetch, Goes, cache, bounds, TypeOK, WorkHasBook, SlotNamesOwner, Thread,
         Owning
<1>13. ASSUME NEW t \in Thread, FetchFails(t) PROVE SlotNamesOwner'
  BY <1>13, CoverAssumption
     DEF FetchFails, Goes, cache, bounds, TypeOK, WorkHasBook, SlotNamesOwner,
         Thread, Owning
<1>14. ASSUME NEW b \in Book, NEW there \in Body \cup {"absent", "garbage"}, Edit(b, there)
      PROVE  SlotNamesOwner'
  BY <1>14, CoverAssumption
     DEF Edit, cache, threads, bounds, TypeOK, WorkHasBook, SlotNamesOwner, Thread,
         Owning
<1>15. ASSUME NEW b \in Book, FileAges(b) PROVE SlotNamesOwner'
  BY <1>15, CoverAssumption
     DEF FileAges, cache, threads, bounds, TypeOK, WorkHasBook, SlotNamesOwner,
         Thread, Owning
<1>16. ASSUME NEW b \in Book, MarkAges(b) PROVE SlotNamesOwner'
  BY <1>16, CoverAssumption
     DEF MarkAges, cache, threads, bounds, TypeOK, WorkHasBook, SlotNamesOwner,
         Thread, Owning
<1>17. CASE Restart
  BY <1>17, CoverAssumption
     DEF Restart, bounds, TypeOK, WorkHasBook, SlotNamesOwner, Thread, Owning
<1>18. CASE UNCHANGED vars
  BY <1>18, CoverAssumption
     DEF vars, cache, threads, bounds, TypeOK, WorkHasBook, SlotNamesOwner, Thread,
         Owning
<1> QED
  BY <1>1, <1>2, <1>3, <1>4, <1>5, <1>6, <1>7, <1>8, <1>9, <1>10, <1>11, <1>12,
     <1>13, <1>14, <1>15, <1>16, <1>17, <1>18
     DEF Next, Step

(* A waiter came while its owner owned, and is woken with the event.       *)
LEMMA WaitStep ==
  ASSUME TypeOK, WorkHasBook, SlotNamesOwner, WaitersWait, NoOrphanWait, [Next]_vars
  PROVE  WaitersWait' /\ NoOrphanWait'
<1>1. ASSUME NEW t \in Thread, NEW b \in Book, Ask(t, b)
      PROVE  WaitersWait' /\ NoOrphanWait'
  BY <1>1, CoverAssumption
     DEF Ask, Goes, cache, bounds, TypeOK, WorkHasBook, SlotNamesOwner, WaitersWait,
         NoOrphanWait, Thread, Owning
<1>2. ASSUME NEW t \in Thread, Look(t) PROVE WaitersWait' /\ NoOrphanWait'
  BY <1>2, CoverAssumption
     DEF Look, Answer, Goes, cache, bounds, TypeOK, WorkHasBook, SlotNamesOwner,
         WaitersWait, NoOrphanWait, Thread, Owning
<1>3. ASSUME NEW t \in Thread, LookMissing(t) PROVE WaitersWait' /\ NoOrphanWait'
  BY <1>3, CoverAssumption
     DEF LookMissing, Answer, Goes, cache, bounds, TypeOK, WorkHasBook,
         SlotNamesOwner, WaitersWait, NoOrphanWait, Thread, Owning
<1>4. ASSUME NEW t \in Thread, LookAgain(t) PROVE WaitersWait' /\ NoOrphanWait'
  BY <1>4, CoverAssumption
     DEF LookAgain, Answer, Goes, cache, bounds, TypeOK, WorkHasBook,
         SlotNamesOwner, WaitersWait, NoOrphanWait, Thread, Owning
<1>5. ASSUME NEW t \in Thread, TakeSlot(t) PROVE WaitersWait' /\ NoOrphanWait'
  BY <1>5, CoverAssumption
     DEF TakeSlot, Goes, cache, bounds, TypeOK, WorkHasBook, SlotNamesOwner,
         WaitersWait, NoOrphanWait, Thread, Owning
<1>6. ASSUME NEW t \in Thread, WaitTimesOut(t) PROVE WaitersWait' /\ NoOrphanWait'
  BY <1>6, CoverAssumption
     DEF WaitTimesOut, Goes, cache, bounds, TypeOK, WorkHasBook, SlotNamesOwner,
         WaitersWait, NoOrphanWait, Thread, Owning
<1>7. ASSUME NEW t \in Thread, Reread(t) PROVE WaitersWait' /\ NoOrphanWait'
  BY <1>7, CoverAssumption
     DEF Reread, Answer, Goes, cache, bounds, TypeOK, WorkHasBook, SlotNamesOwner,
         WaitersWait, NoOrphanWait, Thread, Owning
<1>8. ASSUME NEW t \in Thread, Mark(t) PROVE WaitersWait' /\ NoOrphanWait'
  BY <1>8, CoverAssumption
     DEF Mark, Goes, cache, bounds, TypeOK, WorkHasBook, SlotNamesOwner,
         WaitersWait, NoOrphanWait, Thread, Owning
<1>9. ASSUME NEW t \in Thread, Store(t) PROVE WaitersWait' /\ NoOrphanWait'
  BY <1>9, CoverAssumption
     DEF Store, Goes, cache, bounds, TypeOK, WorkHasBook, SlotNamesOwner,
         WaitersWait, NoOrphanWait, Thread, Owning
<1>10. ASSUME NEW t \in Thread, PopSlot(t) PROVE WaitersWait' /\ NoOrphanWait'
  BY <1>10, CoverAssumption
     DEF PopSlot, Goes, cache, bounds, TypeOK, WorkHasBook, SlotNamesOwner,
         WaitersWait, NoOrphanWait, Thread, Owning
<1>11. ASSUME NEW t \in Thread, SetEvent(t) PROVE WaitersWait' /\ NoOrphanWait'
  BY <1>11, CoverAssumption
     DEF SetEvent, cache, bounds, TypeOK, WorkHasBook, SlotNamesOwner, WaitersWait,
         NoOrphanWait, Thread, Owning
<1>12. ASSUME NEW t \in Thread, Fetch(t) PROVE WaitersWait' /\ NoOrphanWait'
  BY <1>12, CoverAssumption
     DEF Fetch, Goes, cache, bounds, TypeOK, WorkHasBook, SlotNamesOwner,
         WaitersWait, NoOrphanWait, Thread, Owning
<1>13. ASSUME NEW t \in Thread, FetchFails(t) PROVE WaitersWait' /\ NoOrphanWait'
  BY <1>13, CoverAssumption
     DEF FetchFails, Goes, cache, bounds, TypeOK, WorkHasBook, SlotNamesOwner,
         WaitersWait, NoOrphanWait, Thread, Owning
<1>14. ASSUME NEW b \in Book, NEW there \in Body \cup {"absent", "garbage"}, Edit(b, there)
      PROVE  WaitersWait' /\ NoOrphanWait'
  BY <1>14, CoverAssumption
     DEF Edit, cache, threads, bounds, TypeOK, WorkHasBook, SlotNamesOwner,
         WaitersWait, NoOrphanWait, Thread, Owning
<1>15. ASSUME NEW b \in Book, FileAges(b) PROVE WaitersWait' /\ NoOrphanWait'
  BY <1>15, CoverAssumption
     DEF FileAges, cache, threads, bounds, TypeOK, WorkHasBook, SlotNamesOwner,
         WaitersWait, NoOrphanWait, Thread, Owning
<1>16. ASSUME NEW b \in Book, MarkAges(b) PROVE WaitersWait' /\ NoOrphanWait'
  BY <1>16, CoverAssumption
     DEF MarkAges, cache, threads, bounds, TypeOK, WorkHasBook, SlotNamesOwner,
         WaitersWait, NoOrphanWait, Thread, Owning
<1>17. CASE Restart
  BY <1>17, CoverAssumption
     DEF Restart, bounds, TypeOK, WorkHasBook, SlotNamesOwner, WaitersWait,
         NoOrphanWait, Thread, Owning
<1>18. CASE UNCHANGED vars
  BY <1>18, CoverAssumption
     DEF vars, cache, threads, bounds, TypeOK, WorkHasBook, SlotNamesOwner,
         WaitersWait, NoOrphanWait, Thread, Owning
<1> QED
  BY <1>1, <1>2, <1>3, <1>4, <1>5, <1>6, <1>7, <1>8, <1>9, <1>10, <1>11, <1>12,
     <1>13, <1>14, <1>15, <1>16, <1>17, <1>18
     DEF Next, Step

(* Only the provider's word marks a book.                                  *)
LEMMA MissingStep ==
  ASSUME TypeOK, WorkHasBook, MarkIsConfirmed, MissingMeansAbsent, [Next]_vars
  PROVE  MarkIsConfirmed' /\ MissingMeansAbsent'
<1>1. ASSUME UNCHANGED <<missing, confirmed>> PROVE MissingMeansAbsent'
  BY <1>1 DEF MissingMeansAbsent, Known
<1>2. ASSUME NEW t \in Thread, NEW b \in Book, Ask(t, b)
      PROVE  MarkIsConfirmed' /\ UNCHANGED <<missing, confirmed>>
  BY <1>2 DEF Ask, Goes, cache, TypeOK, MarkIsConfirmed
<1>3. ASSUME NEW t \in Thread, Look(t)
      PROVE  MarkIsConfirmed' /\ UNCHANGED <<missing, confirmed>>
  BY <1>3 DEF Look, Answer, Goes, cache, TypeOK, MarkIsConfirmed
<1>4. ASSUME NEW t \in Thread, LookAgain(t)
      PROVE  MarkIsConfirmed' /\ UNCHANGED <<missing, confirmed>>
  BY <1>4 DEF LookAgain, Answer, Goes, cache, TypeOK, MarkIsConfirmed
<1>5. ASSUME NEW t \in Thread, TakeSlot(t)
      PROVE  MarkIsConfirmed' /\ UNCHANGED <<missing, confirmed>>
  BY <1>5 DEF TakeSlot, Goes, cache, TypeOK, MarkIsConfirmed
<1>6. ASSUME NEW t \in Thread, WaitTimesOut(t)
      PROVE  MarkIsConfirmed' /\ UNCHANGED <<missing, confirmed>>
  BY <1>6 DEF WaitTimesOut, Goes, cache, TypeOK, MarkIsConfirmed
<1>7. ASSUME NEW t \in Thread, Reread(t)
      PROVE  MarkIsConfirmed' /\ UNCHANGED <<missing, confirmed>>
  BY <1>7 DEF Reread, Answer, Goes, cache, TypeOK, MarkIsConfirmed
<1>8. ASSUME NEW t \in Thread, Store(t)
      PROVE  MarkIsConfirmed' /\ UNCHANGED <<missing, confirmed>>
  BY <1>8 DEF Store, Goes, cache, TypeOK, MarkIsConfirmed
<1>9. ASSUME NEW t \in Thread, PopSlot(t)
      PROVE  MarkIsConfirmed' /\ UNCHANGED <<missing, confirmed>>
  BY <1>9 DEF PopSlot, Goes, cache, TypeOK, MarkIsConfirmed
<1>10. ASSUME NEW t \in Thread, SetEvent(t)
      PROVE  MarkIsConfirmed' /\ UNCHANGED <<missing, confirmed>>
  BY <1>10 DEF SetEvent, cache, TypeOK, MarkIsConfirmed
<1>11. ASSUME NEW t \in Thread, FetchFails(t)
      PROVE  MarkIsConfirmed' /\ UNCHANGED <<missing, confirmed>>
  BY <1>11 DEF FetchFails, Goes, cache, TypeOK, MarkIsConfirmed
<1>12. ASSUME NEW t \in Thread, LookMissing(t)
      PROVE  MarkIsConfirmed' /\ MissingMeansAbsent'
  <2>1. \A c \in Book : Known(c)' => Known(c)
    BY <1>12, AskMissingFacts DEF LookMissing, WorkHasBook
  <2>2. MarkIsConfirmed' /\ UNCHANGED confirmed
    BY <1>12 DEF LookMissing, Answer, Goes, TypeOK, MarkIsConfirmed
  <2> QED
    BY <2>1, <2>2 DEF MissingMeansAbsent
<1>13. ASSUME NEW t \in Thread, Mark(t)
      PROVE  MarkIsConfirmed' /\ MissingMeansAbsent'
  <2>1. book[t] \in Book /\ book[t] \in confirmed
    BY <1>13 DEF Mark, WorkHasBook, MarkIsConfirmed
  <2>2. \A c \in Book : Known(c)' => c = book[t] \/ Known(c)
    BY <1>13, <2>1, MarkMissingFacts DEF Mark
  <2>3. MarkIsConfirmed' /\ UNCHANGED confirmed
    BY <1>13 DEF Mark, Goes, TypeOK, MarkIsConfirmed
  <2> QED
    BY <2>1, <2>2, <2>3 DEF MissingMeansAbsent
<1>14. ASSUME NEW t \in Thread, Fetch(t)
      PROVE  MarkIsConfirmed' /\ MissingMeansAbsent'
  <2>1. confirmed \subseteq confirmed' /\ UNCHANGED missing
    BY <1>14 DEF Fetch, cache
  <2>2. MarkIsConfirmed'
    BY <1>14, <2>1 DEF Fetch, Goes, TypeOK, MarkIsConfirmed
  <2> QED
    BY <2>1, <2>2 DEF MissingMeansAbsent, Known
<1>15. ASSUME NEW b \in Book, NEW there \in Body \cup {"absent", "garbage"}, Edit(b, there)
      PROVE  MarkIsConfirmed' /\ UNCHANGED <<missing, confirmed>>
  BY <1>15 DEF Edit, cache, threads, MarkIsConfirmed
<1>16. ASSUME NEW b \in Book, FileAges(b)
      PROVE  MarkIsConfirmed' /\ UNCHANGED <<missing, confirmed>>
  BY <1>16 DEF FileAges, cache, threads, MarkIsConfirmed
<1>17. ASSUME NEW b \in Book, MarkAges(b)
      PROVE  MarkIsConfirmed' /\ UNCHANGED <<missing, confirmed>>
  BY <1>17 DEF MarkAges, cache, threads, MarkIsConfirmed
<1>18. CASE Restart
  BY <1>18 DEF Restart, MarkIsConfirmed, MissingMeansAbsent, Known
<1>19. CASE UNCHANGED vars
  BY <1>19 DEF vars, cache, threads, MarkIsConfirmed, MissingMeansAbsent, Known
<1> QED
  BY <1>1, <1>2, <1>3, <1>4, <1>5, <1>6, <1>7, <1>8, <1>9, <1>10, <1>11, <1>12,
     <1>13, <1>14, <1>15, <1>16, <1>17, <1>18, <1>19
     DEF Next, Step

---------------------------------------------------------------------------
(* The server starts inside the invariant.                                 *)
LEMMA FlightInit == Init => FlightInv
<1> SUFFICES ASSUME Init PROVE FlightInv
  OBVIOUS
<1>1. \A t \in Thread : pc[t] = "idle" /\ waits[t] = None /\ t # None
  BY CoverAssumption DEF Init, Thread
<1>2. missing = <<>> /\ Len(missing) = 0
  BY DEF Init
<1>3. TypeOK
  BY <1>2, CoverAssumption DEF Init, TypeOK, States
<1>4. WorkHasBook /\ WaitersWait /\ NoOrphanWait /\ MarkIsConfirmed
  BY <1>1 DEF WorkHasBook, WaitersWait, NoOrphanWait, MarkIsConfirmed
<1>5. SlotNamesOwner
  BY <1>1 DEF SlotNamesOwner, Init, Owning
<1>6. MissingMeansAbsent
  BY <1>2 DEF MissingMeansAbsent, Known
<1> QED
  BY <1>3, <1>4, <1>5, <1>6 DEF FlightInv

(* The invariant of the flights.                                           *)
LEMMA FlightInvariant == Spec => []FlightInv
<1>1. FlightInv /\ [Next]_vars => FlightInv'
  BY TypeStep, WorkHasBookStep, SlotStep, WaitStep, MissingStep DEF FlightInv
<1> QED
  BY <1>1, FlightInit, PTL DEF Spec

(* Types, with the bound of the negative cache, for every number of        *)
(* threads and books.                                                      *)
THEOREM CoverTypeCorrect == Spec => []TypeOK
<1>1. FlightInv => TypeOK
  BY DEF FlightInv
<1> QED
  BY <1>1, FlightInvariant, PTL

(* At most one thread per book is between claim and release, and the table *)
(* of slots names exactly those threads, whatever fails or restarts.       *)
THEOREM OneOwnerPerBook == Spec => []OneOwner
<1>1. FlightInv => OneOwner
  <2> SUFFICES ASSUME FlightInv PROVE OneOwner
    OBVIOUS
  <2>1. \A t \in Thread : pc[t] \in Owning => book[t] \in Book /\ inflight[book[t]] = t
    BY DEF FlightInv, WorkHasBook, SlotNamesOwner, Owning
  <2> QED
    BY <2>1 DEF FlightInv, SlotNamesOwner, OneOwner
<1> QED
  BY <1>1, FlightInvariant, PTL

(* A waiter's owner is at work on the same book, or about to set the event.*)
THEOREM NoWaiterIsLeft == Spec => []NoOrphanWait
<1>1. FlightInv => NoOrphanWait
  BY DEF FlightInv
<1> QED
  BY <1>1, FlightInvariant, PTL

(* The negative cache holds only books of which the provider has said that *)
(* there is no cover.                                                      *)
THEOREM OnlyAbsenceIsRemembered == Spec => []MissingMeansAbsent
<1>1. FlightInv => MissingMeansAbsent
  BY DEF FlightInv
<1> QED
  BY <1>1, FlightInvariant, PTL
=============================================================================
