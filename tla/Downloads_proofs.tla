-------------------------- MODULE Downloads_proofs --------------------------
(***************************************************************************)
(* Proofs about the downloads of the device, for any number of books, any  *)
(* window and any number of jobs issued, with and without keys that close  *)
(* the sheet.                                                              *)
(***************************************************************************)
EXTENDS Downloads, FiniteSetTheorems, TLAPS

---------------------------------------------------------------------------
(* The parts of the inductive invariant.                                   *)

Unsettled == {b \in Book : live[b] # 0}

(* The job of book b under generation g is queued, at the worker, or its   *)
(* result has yet to be drained.                                           *)
Queued(b, g) == [id |-> b, gen |-> g] \in jobs
AtWorker(b, g) == job = [id |-> b, gen |-> g]
Reported(b, g) == \E d \in done : d.id = b /\ d.gen = g
Flying(b, g) == Queued(b, g) \/ AtWorker(b, g) \/ Reported(b, g)

(* The entries of the live map are the unvoided jobs: QueueBalances, by    *)
(* book and generation.                                                    *)
EntriesFly ==
  \A b \in Book, g \in 1 .. gen : live[b] = g <=> Flying(b, g) /\ g > epoch

(* A job is in one place at a time, and is reported once.                  *)
NoTwins ==
  /\ \A b \in Book, g \in 1 .. gen :
       /\ ~(Queued(b, g) /\ AtWorker(b, g))
       /\ ~(Queued(b, g) /\ Reported(b, g))
       /\ ~(AtWorker(b, g) /\ Reported(b, g))
  /\ \A d, e \in done : d.id = e.id /\ d.gen = e.gen => d = e

(* Books are staged only behind a full window of a download-all batch.     *)
StagedWait == dl.queue # {} => dl.all /\ pending >= Window

(* Where no key closes the sheet, it is up as long as jobs are pending.    *)
SheetStaysUp == pending > 0 => sheet

(* What is tallied, pending and staged together is what was announced.     *)
TallyHasRoom ==
  dl.total > 0 => dl.done + dl.failed + pending + Cardinality(dl.queue) <= dl.total

(* An unvoided success has left its file where the flag will say it is.    *)
SuccessLanded ==
  /\ \A d \in done : d.ok /\ d.gen > epoch => d.id \in landed
  /\ wpc \in {"recheck", "send"} /\ ok /\ job.gen > epoch => job.id \in landed

DownloadsInv ==
  /\ TypeOK
  /\ pending = Cardinality(Unsettled)
  /\ EntriesFly
  /\ NoTwins
  /\ StagedWait
  /\ ~hasKeys => /\ SheetStaysUp
                 /\ TallyHasRoom
                 /\ flagged \subseteq landed
                 /\ SuccessLanded

---------------------------------------------------------------------------
(* Issuing jobs.                                                           *)

(* A part of a finite set and the rest make up the whole.                  *)
LEMMA PartsAddUp ==
  ASSUME NEW S, IsFiniteSet(S), NEW T \in SUBSET S
  PROVE  /\ Cardinality(S) = Cardinality(T) + Cardinality(S \ T)
         /\ Cardinality(T) \in Nat /\ Cardinality(S \ T) \in Nat
<1> DEFINE U == S \ T
<1>1. S = T \cup U /\ T \cap U = {}
  OBVIOUS
<1>2. IsFiniteSet(T) /\ IsFiniteSet(U)
  BY FS_Subset
<1> HIDE DEF U
<1>3. Cardinality(S) = Cardinality(T) + Cardinality(U) - Cardinality({})
  BY <1>1, <1>2, FS_Union
<1>4. Cardinality(T) \in Nat /\ Cardinality(U) \in Nat /\ Cardinality({}) = 0
  BY <1>2, FS_CardinalityType, FS_EmptySet
<1>5. Cardinality(S) = Cardinality(T) + Cardinality(U)
  BY <1>3, <1>4
<1> QED
  BY <1>4, <1>5 DEF U

(* The jobs of one tap are numbered above all that were queued before. *)
LEMMA GenerationsAreFresh ==
  ASSUME NEW books \in SUBSET Book, NEW r \in Numbering(books, gen + 1), gen \in Nat
  PROVE  /\ IsFiniteSet(books)
         /\ Cardinality(books) \in Nat
         /\ \A b \in books : r[b] \in gen + 1 .. gen + Cardinality(books)
<1>1. IsFiniteSet(books)
  BY DownloadsAssumption, FS_Subset
<1>2. Cardinality(books) \in Nat
  BY <1>1, FS_CardinalityType
<1>3. gen + 1 + Cardinality(books) - 1 = gen + Cardinality(books)
  BY <1>2
<1> QED
  BY <1>1, <1>2, <1>3 DEF Numbering

(* Whatever results have been settled meanwhile, issuing jobs for books    *)
(* without an entry keeps the entries and the jobs in step.                *)
LEMMA IssueKeepsEntries ==
  ASSUME TypeOK, NoTwins,
         NEW books \in SUBSET Book,
         NEW entries \in [Book -> 0 .. gen],
         NEW n \in Nat,
         n = Cardinality({b \in Book : entries[b] # 0}),
         \A b \in books : entries[b] = 0,
         \A b \in Book, g \in 1 .. gen :
           entries[b] = g <=>
             (Queued(b, g) \/ AtWorker(b, g) \/ Reported(b, g)') /\ g > epoch,
         done' \subseteq done,
         UNCHANGED <<job, epoch>>,
         Issue(books, entries, n)
  PROVE  /\ gen' \in Nat /\ gen <= gen'
         /\ live' \in [Book -> 0 .. gen']
         /\ pending' \in Nat
         /\ pending' = n + Cardinality(books)
         /\ pending' = Cardinality(Unsettled)'
         /\ jobs' \subseteq Job'
         /\ EntriesFly'
         /\ NoTwins'
<1> PICK r \in Numbering(books, gen + 1) :
      /\ live' = [b \in Book |-> IF b \in books THEN r[b] ELSE entries[b]]
      /\ jobs' = jobs \cup {[id |-> b, gen |-> r[b]] : b \in books}
      /\ gen' = gen + Cardinality(books)
      /\ pending' = n + Cardinality(books)
  BY DEF Issue
<1>1. gen \in Nat /\ epoch \in 0 .. gen
  BY DEF TypeOK
<1>2. /\ IsFiniteSet(books)
      /\ Cardinality(books) \in Nat
      /\ \A b \in books : r[b] \in gen + 1 .. gen'
  BY <1>1, GenerationsAreFresh
<1>3. gen' \in Nat /\ gen <= gen' /\ pending' \in Nat
  BY <1>1, <1>2
<1>4. live' \in [Book -> 0 .. gen']
  BY <1>1, <1>2, <1>3
<1>5. jobs' \subseteq Job'
  BY <1>1, <1>2, <1>3 DEF TypeOK, Job
<1>6. pending' = Cardinality(Unsettled)'
  <2> DEFINE old == {b \in Book : entries[b] # 0}
  <2>1. Unsettled' = old \cup books
    BY <1>1, <1>2 DEF Unsettled
  <2>2. IsFiniteSet(old)
    BY DownloadsAssumption, FS_Subset
  <2>3. old \cap books = {}
    OBVIOUS
  <2>4. Cardinality(old \cup books) = Cardinality(old) + Cardinality(books) - 0
    BY <1>2, <2>2, <2>3, FS_Union, FS_EmptySet
  <2> QED
    BY <1>2, <2>1, <2>4
<1>7. ASSUME NEW b \in Book, NEW g \in 1 .. gen
      PROVE  /\ live'[b] = g <=> entries[b] = g
             /\ Queued(b, g)' <=> Queued(b, g)
             /\ AtWorker(b, g)' <=> AtWorker(b, g)
             /\ Reported(b, g)' => Reported(b, g)
  <2>1. \A c \in books : r[c] # g
    BY <1>1, <1>2
  <2>2. live'[b] = g <=> entries[b] = g
    BY <2>1
  <2>3. Queued(b, g)' <=> Queued(b, g)
    <3>1. \A c \in books : [id |-> c, gen |-> r[c]] # [id |-> b, gen |-> g]
      BY <2>1
    <3> QED
      BY <3>1 DEF Queued
  <2> QED
    BY <2>2, <2>3 DEF AtWorker, Reported
<1>8. ASSUME NEW b \in Book, NEW g \in gen + 1 .. gen'
      PROVE  /\ live'[b] = g <=> Queued(b, g)'
             /\ ~AtWorker(b, g)'
             /\ ~Reported(b, g)'
             /\ g > epoch'
  <2>1. ~Queued(b, g) /\ ~AtWorker(b, g) /\ ~Reported(b, g)
    BY <1>1, <1>3, DownloadsAssumption
    DEF TypeOK, Job, Done, Queued, AtWorker, Reported
  <2>2. live'[b] = g <=> b \in books /\ r[b] = g
    BY <1>1, <1>2, <1>3
  <2>3. Queued(b, g)' <=> b \in books /\ r[b] = g
    BY <2>1 DEF Queued
  <2> QED
    BY <1>1, <1>3, <2>1, <2>2, <2>3 DEF AtWorker, Reported
<1>9. \A g \in 1 .. gen' : g \in 1 .. gen \/ g \in gen + 1 .. gen'
  BY <1>1, <1>3
<1>10. EntriesFly'
  <2> SUFFICES ASSUME NEW b \in Book, NEW g \in 1 .. gen'
               PROVE  live'[b] = g <=> Flying(b, g)' /\ g > epoch'
    BY DEF EntriesFly
  <2>1. CASE g \in 1 .. gen
    BY <1>7, <2>1 DEF Flying
  <2>2. CASE g \in gen + 1 .. gen'
    BY <1>8, <2>2 DEF Flying
  <2> QED
    BY <1>9, <2>1, <2>2
<1>11. NoTwins'
  <2>1. ASSUME NEW b \in Book, NEW g \in 1 .. gen'
        PROVE  /\ ~(Queued(b, g)' /\ AtWorker(b, g)')
               /\ ~(Queued(b, g)' /\ Reported(b, g)')
               /\ ~(AtWorker(b, g)' /\ Reported(b, g)')
    <3>1. CASE g \in 1 .. gen
      BY <1>7, <3>1 DEF NoTwins
    <3>2. CASE g \in gen + 1 .. gen'
      BY <1>8, <3>2
    <3> QED
      BY <1>9, <3>1, <3>2
  <2> QED
    BY <2>1 DEF NoTwins
<1> QED
  BY <1>3, <1>4, <1>5, <1>6, <1>10, <1>11
(* The types of what is already under way hold as generations grow.        *)
LEMMA TypesSurviveIssue ==
  ASSUME TypeOK, gen' \in Nat, gen <= gen',
         done' \subseteq done, UNCHANGED <<epoch, workerVars>>
  PROVE  /\ epoch' \in 0 .. gen'
         /\ done' \subseteq Done'
         /\ job' \in Job' \cup {None}
         /\ (job' = None) <=> (wpc' = "wait")
         /\ wpc' \in {"wait", "fetch", "probe", "write", "rename", "recheck", "send"}
         /\ ok' \in BOOLEAN
<1>1. gen \in Nat /\ 1 .. gen \subseteq 1 .. gen'
  BY DEF TypeOK
<1>2. Job \subseteq Job' /\ Done \subseteq Done'
  BY <1>1 DEF Job, Done
<1> QED
  BY <1>1, <1>2 DEF TypeOK, workerVars

(* Queueing a book leaves every other entry as it was. *)
LEMMA EnqueueKeepsEntries ==
  ASSUME DownloadsInv, NEW books \in SUBSET Book, Enqueue(books),
         UNCHANGED <<epoch, done, workerVars>>
  PROVE  /\ gen' \in Nat /\ gen <= gen'
         /\ live' \in [Book -> 0 .. gen']
         /\ pending' \in Nat
         /\ pending' = Cardinality(Unsettled)'
         /\ jobs' \subseteq Job'
         /\ EntriesFly'
         /\ NoTwins'
<1> DEFINE new == {b \in books : live[b] = 0}
<1>1. new \in SUBSET Book /\ \A b \in new : live[b] = 0
  OBVIOUS
<1>2. /\ live \in [Book -> 0 .. gen] /\ pending \in Nat
      /\ pending = Cardinality({b \in Book : live[b] # 0})
      /\ TypeOK /\ NoTwins
  BY DEF DownloadsInv, TypeOK, Unsettled
<1>3. \A b \in Book, g \in 1 .. gen :
        live[b] = g <=> (Queued(b, g) \/ AtWorker(b, g) \/ Reported(b, g)') /\ g > epoch
  BY DEF DownloadsInv, EntriesFly, Flying, Reported
<1>4. Issue(new, live, pending) /\ UNCHANGED <<job, epoch>> /\ done' \subseteq done
  BY DEF Enqueue, workerVars
<1> HIDE DEF new
<1> QED
  BY <1>1, <1>2, <1>3, <1>4, IssueKeepsEntries

(* Topping up spends staged books on jobs, and stops at a full window.     *)
LEMMA TopUpFacts ==
  ASSUME TypeOK, NoTwins,
         NEW batch \in Batch, NEW entries \in [Book -> 0 .. gen], NEW n \in Nat,
         n = Cardinality({b \in Book : entries[b] # 0}),
         \A b \in Book, g \in 1 .. gen :
           entries[b] = g <=>
             (Queued(b, g) \/ AtWorker(b, g) \/ Reported(b, g)') /\ g > epoch,
         done' \subseteq done,
         UNCHANGED <<epoch, workerVars>>,
         TopUp(batch, entries, n)
  PROVE  /\ gen' \in Nat /\ gen <= gen'
         /\ live' \in [Book -> 0 .. gen']
         /\ pending' \in Nat
         /\ pending' = Cardinality(Unsettled)'
         /\ jobs' \subseteq Job'
         /\ EntriesFly'
         /\ NoTwins'
         /\ dl' \in Batch
         /\ dl'.queue \subseteq batch.queue
         /\ dl' = [batch EXCEPT !.queue = dl'.queue]
         /\ dl'.queue # {} => pending' >= Window
         /\ pending' + Cardinality(dl'.queue) <= n + Cardinality(batch.queue)
<1> PICK popped \in SUBSET batch.queue :
      LET new == {b \in popped : entries[b] = 0 /\ b \notin batch.failedIds}
      IN  /\ n >= Window => popped = {}
          /\ n < Window => n + Cardinality(new) <= Window
          /\ popped # batch.queue => n + Cardinality(new) >= Window
          /\ Issue(new, entries, n)
          /\ dl' = [batch EXCEPT !.queue = @ \ popped]
  BY DEF TopUp
<1> DEFINE new == {b \in popped : entries[b] = 0 /\ b \notin batch.failedIds}
<1>1. batch.queue \subseteq Book
  BY DEF Batch
<1>2. new \in SUBSET Book /\ new \subseteq popped /\ \A b \in new : entries[b] = 0
  BY <1>1
<1>3. /\ popped # batch.queue => n + Cardinality(new) >= Window
      /\ Issue(new, entries, n)
      /\ UNCHANGED <<job, epoch>>
  BY DEF workerVars
<1> HIDE DEF new
<1>4. /\ gen' \in Nat /\ gen <= gen'
      /\ live' \in [Book -> 0 .. gen']
      /\ pending' \in Nat
      /\ pending' = n + Cardinality(new)
      /\ pending' = Cardinality(Unsettled)'
      /\ jobs' \subseteq Job'
      /\ EntriesFly'
      /\ NoTwins'
  BY <1>2, <1>3, IssueKeepsEntries
<1>5. /\ dl' \in Batch /\ dl'.queue = batch.queue \ popped
      /\ dl' = [batch EXCEPT !.queue = dl'.queue]
  BY DEF Batch
<1>6. dl'.queue # {} => pending' >= Window
  BY <1>3, <1>4, <1>5
<1>7. Cardinality(new) + Cardinality(batch.queue \ popped) <= Cardinality(batch.queue)
  <2>1. IsFiniteSet(batch.queue) /\ IsFiniteSet(popped)
    BY <1>1, DownloadsAssumption, FS_Subset
  <2>2. /\ IsFiniteSet(new) /\ Cardinality(new) <= Cardinality(popped)
        /\ IsFiniteSet(batch.queue \ popped)
    BY <1>2, <2>1, FS_Subset
  <2>3. /\ Cardinality(batch.queue) = Cardinality(popped) + Cardinality(batch.queue \ popped)
        /\ Cardinality(popped) \in Nat /\ Cardinality(batch.queue \ popped) \in Nat
    BY <2>1, PartsAddUp
  <2>4. Cardinality(new) \in Nat
    BY <2>2, FS_CardinalityType
  <2> QED
    BY <2>2, <2>3, <2>4
<1>8. /\ Cardinality(new) \in Nat
      /\ Cardinality(batch.queue \ popped) \in Nat
      /\ Cardinality(batch.queue) \in Nat
  BY <1>1, <1>2, DownloadsAssumption, FS_Subset, FS_CardinalityType
<1> QED
  BY <1>4, <1>5, <1>6, <1>7, <1>8

---------------------------------------------------------------------------
(* The user.                                                               *)

(* A press on a book, queued or refused.                                   *)
LEMMA PressKeepsInv ==
  ASSUME DownloadsInv, NEW b \in Book, Press(b)
  PROVE  DownloadsInv'
<1> USE DEF DownloadsInv
<1>1. CASE b \in landed
  <2>1. /\ flagged' = flagged \cup {b} /\ reader' = b
        /\ UNCHANGED <<pending, live, gen, epoch, dl, sheet, ui, hasKeys, jobs, done,
                       workerVars, landed, parts>>
    BY <1>1 DEF Press
  <2>2. TypeOK'
    BY <2>1 DEF TypeOK, Job, Done, workerVars
  <2>3. Unsettled' = Unsettled /\ EntriesFly' /\ NoTwins'
    BY <2>1 DEF Unsettled, EntriesFly, Flying, Queued, AtWorker, Reported, NoTwins, workerVars
  <2> QED
    BY <1>1, <2>1, <2>2, <2>3
    DEF StagedWait, SheetStaysUp, TallyHasRoom, SuccessLanded, workerVars
<1>2. CASE b \notin landed
  <2>1. /\ Enqueue({b})
        /\ dl' = StartSingle(b)
        /\ sheet' = TRUE
        /\ UNCHANGED <<flagged, reader, epoch, ui, done, hasKeys, workerVars, landed, parts>>
    BY <1>2 DEF Press
  <2>2. /\ gen' \in Nat /\ gen <= gen'
        /\ live' \in [Book -> 0 .. gen']
        /\ pending' \in Nat
        /\ pending' = Cardinality(Unsettled)'
        /\ jobs' \subseteq Job'
        /\ EntriesFly'
        /\ NoTwins'
    BY <2>1, EnqueueKeepsEntries
  <2>3. dl' \in Batch /\ dl'.queue = {} /\ dl'.total = 0
    BY <2>1 DEF StartSingle, NoBatch, Batch
  <2>4. TypeOK'
    BY <2>1, <2>2, <2>3, TypesSurviveIssue DEF TypeOK
  <2>5. StagedWait' /\ SheetStaysUp' /\ TallyHasRoom'
    BY <2>1, <2>3 DEF StagedWait, SheetStaysUp, TallyHasRoom
  <2>6. ~hasKeys' => flagged' \subseteq landed' /\ SuccessLanded'
    BY <2>1 DEF SuccessLanded, workerVars
  <2> QED
    BY <2>2, <2>4, <2>5, <2>6
<1> QED
  BY <1>1, <1>2

(* A tap on Download. *)
LEMMA DownloadKeepsInv ==
  ASSUME DownloadsInv, NEW books \in SUBSET Book, Download(books)
  PROVE  DownloadsInv'
<1> USE DEF DownloadsInv
<1>1. /\ Enqueue(books)
      /\ dl' = NoBatch
      /\ sheet' = TRUE
      /\ UNCHANGED <<epoch, ui, reader, done, hasKeys, workerVars, flagged, landed, parts>>
  BY DEF Download
<1>2. /\ gen' \in Nat /\ gen <= gen'
      /\ live' \in [Book -> 0 .. gen']
      /\ pending' \in Nat
      /\ pending' = Cardinality(Unsettled)'
      /\ jobs' \subseteq Job'
      /\ EntriesFly'
      /\ NoTwins'
  BY <1>1, EnqueueKeepsEntries
<1>3. dl' \in Batch /\ dl'.queue = {} /\ dl'.total = 0
  BY <1>1 DEF NoBatch, Batch
<1>4. TypeOK'
  BY <1>1, <1>2, <1>3, TypesSurviveIssue DEF TypeOK
<1>5. StagedWait' /\ SheetStaysUp' /\ TallyHasRoom'
  BY <1>1, <1>3 DEF StagedWait, SheetStaysUp, TallyHasRoom
<1>6. ~hasKeys' => flagged' \subseteq landed' /\ SuccessLanded'
  BY <1>1 DEF SuccessLanded, workerVars
<1> QED
  BY <1>2, <1>4, <1>5, <1>6

(* Downloading everything, as many as the queue takes. *)
LEMMA DownloadAllKeepsInv ==
  ASSUME DownloadsInv, DownloadAll
  PROVE  DownloadsInv'
<1> USE DEF DownloadsInv
<1> DEFINE targets == Book \ flagged
           batch == StartAll(targets)
<1>1. /\ OnShelf
      /\ TopUp(batch, live, pending)
      /\ sheet' = TRUE
      /\ UNCHANGED <<epoch, ui, reader, done, hasKeys, workerVars, flagged, landed, parts>>
  BY DEF DownloadAll
<1>2. Cardinality(targets) \in Nat
  BY DownloadsAssumption, FS_Subset, FS_CardinalityType
<1>3. /\ batch \in Batch /\ batch.all /\ batch.queue = targets
      /\ batch.total = Cardinality(targets) /\ batch.done = 0 /\ batch.failed = 0
  BY <1>2 DEF StartAll, NoBatch, Batch
<1>4. /\ live \in [Book -> 0 .. gen] /\ pending \in Nat
      /\ pending = Cardinality({b \in Book : live[b] # 0})
      /\ TypeOK /\ NoTwins /\ done' \subseteq done
  BY <1>1 DEF TypeOK, Unsettled
<1>5. \A b \in Book, g \in 1 .. gen :
        live[b] = g <=> (Queued(b, g) \/ AtWorker(b, g) \/ Reported(b, g)') /\ g > epoch
  BY <1>1 DEF EntriesFly, Flying, Reported
<1> HIDE DEF batch
<1>6. /\ gen' \in Nat /\ gen <= gen'
      /\ live' \in [Book -> 0 .. gen']
      /\ pending' \in Nat
      /\ pending' = Cardinality(Unsettled)'
      /\ jobs' \subseteq Job'
      /\ EntriesFly'
      /\ NoTwins'
      /\ dl' \in Batch
      /\ dl' = [batch EXCEPT !.queue = dl'.queue]
      /\ dl'.queue # {} => pending' >= Window
      /\ pending' + Cardinality(dl'.queue) <= pending + Cardinality(batch.queue)
  BY <1>1, <1>3, <1>4, <1>5, TopUpFacts
<1>7. /\ dl'.all /\ dl'.total = Cardinality(targets)
      /\ dl'.done = 0 /\ dl'.failed = 0
  <2> DEFINE q == dl'.queue
  <2>1. dl' = [batch EXCEPT !.queue = q]
    BY <1>6
  <2> HIDE DEF q
  <2> QED
    BY <1>3, <2>1 DEF Batch
<1>8. TypeOK'
  BY <1>1, <1>4, <1>6, TypesSurviveIssue DEF TypeOK
<1>9. StagedWait'
  BY <1>6, <1>7 DEF StagedWait
<1>10. ASSUME ~hasKeys' PROVE SheetStaysUp' /\ TallyHasRoom'
  <2>1. pending = 0
    BY <1>1, <1>4, <1>10 DEF OnShelf, SheetStaysUp
  <2>2. Cardinality(dl'.queue) \in Nat
    BY <1>6, DownloadsAssumption, FS_Subset, FS_CardinalityType DEF Batch
  <2> QED
    BY <1>1, <1>2, <1>3, <1>6, <1>7, <2>1, <2>2 DEF SheetStaysUp, TallyHasRoom
<1>11. ~hasKeys' => flagged' \subseteq landed' /\ SuccessLanded'
  BY <1>1 DEF SuccessLanded, workerVars
<1> QED
  BY <1>6, <1>8, <1>9, <1>10, <1>11

(* Without pending jobs nothing is unvoided.                               *)
LEMMA QuietMeansVoid ==
  ASSUME DownloadsInv, pending = 0, NEW b \in Book, NEW g \in 1 .. gen, Flying(b, g)
  PROVE  g <= epoch
<1>1. IsFiniteSet(Unsettled)
  BY DownloadsAssumption, FS_Subset DEF Unsettled
<1>2. Unsettled = {}
  BY <1>1, FS_EmptySet DEF DownloadsInv
<1>3. live[b] = 0
  BY <1>2 DEF Unsettled
<1>4. ~(g > epoch)
  BY <1>3 DEF DownloadsInv, EntriesFly
<1> QED
  BY <1>4 DEF DownloadsInv, TypeOK

(* Deleting from the device. *)
LEMMA DeleteKeepsInv ==
  ASSUME DownloadsInv, NEW b \in Book, Delete(b)
  PROVE  DownloadsInv'
<1> USE DEF DownloadsInv
<1>1. /\ OnShelf /\ landed' = landed \ {b} /\ flagged' = flagged \ {b}
      /\ UNCHANGED <<uiVars, jobs, done, workerVars, parts>>
  BY DEF Delete
<1>2. TypeOK'
  BY <1>1 DEF TypeOK, Job, Done, uiVars, workerVars
<1>3. Unsettled' = Unsettled /\ EntriesFly' /\ NoTwins'
  BY <1>1 DEF Unsettled, EntriesFly, Flying, Queued, AtWorker, Reported, NoTwins,
              uiVars, workerVars
<1>4. StagedWait' /\ (~hasKeys' => SheetStaysUp' /\ TallyHasRoom')
  BY <1>1 DEF StagedWait, SheetStaysUp, TallyHasRoom, uiVars
<1>5. ASSUME ~hasKeys' PROVE SuccessLanded'
  <2>1. pending = 0
    BY <1>1, <1>5 DEF OnShelf, SheetStaysUp, TypeOK, uiVars
  <2>2. ASSUME NEW d \in done PROVE ~(d.gen > epoch)
    <3>1. d.id \in Book /\ d.gen \in 1 .. gen /\ Flying(d.id, d.gen)
      BY DEF TypeOK, Done, Flying, Reported
    <3> QED
      BY <2>1, <3>1, QuietMeansVoid DEF TypeOK
  <2>3. ASSUME wpc \in {"recheck", "send"} PROVE ~(job.gen > epoch)
    <3>1. /\ job.id \in Book /\ job.gen \in 1 .. gen
          /\ job = [id |-> job.id, gen |-> job.gen]
      BY <2>3 DEF TypeOK, Job
    <3>2. Flying(job.id, job.gen)
      BY <3>1 DEF Flying, AtWorker
    <3> QED
      BY <2>1, <3>1, <3>2, QuietMeansVoid DEF TypeOK
  <2> QED
    BY <1>1, <2>2, <2>3 DEF SuccessLanded, uiVars, workerVars
<1>6. ~hasKeys' => flagged' \subseteq landed'
  BY <1>1 DEF uiVars
<1> QED
  BY <1>1, <1>2, <1>3, <1>4, <1>5, <1>6 DEF uiVars

(* Cancelling what is queued. *)
LEMMA CancelKeepsInv ==
  ASSUME DownloadsInv, Cancel
  PROVE  DownloadsInv'
<1> USE DEF DownloadsInv
<1>1. /\ epoch' = gen /\ pending' = 0 /\ live' = NothingLive /\ done' = {}
      /\ dl' = NoBatch /\ sheet' = FALSE
      /\ UNCHANGED <<gen, ui, reader, jobs, hasKeys, workerVars, flagged, landed, parts>>
  BY DEF Cancel
<1>2. gen \in Nat
  BY DEF TypeOK
<1>3. TypeOK'
  <2>1. dl' \in Batch
    BY <1>1 DEF NoBatch, Batch
  <2>2. live' \in [Book -> 0 .. gen'] /\ pending' \in Nat /\ epoch' \in 0 .. gen'
    BY <1>1, <1>2 DEF NothingLive
  <2>3. jobs' \subseteq Job' /\ done' \subseteq Done' /\ job' \in Job' \cup {None}
    BY <1>1 DEF TypeOK, Job, workerVars
  <2> QED
    BY <1>1, <1>2, <2>1, <2>2, <2>3 DEF TypeOK, workerVars
<1>4. Unsettled' = {} /\ pending' = Cardinality(Unsettled)'
  BY <1>1, FS_EmptySet DEF Unsettled, NothingLive
<1>5. EntriesFly'
  <2> SUFFICES ASSUME NEW b \in Book, NEW g \in 1 .. gen
               PROVE  live'[b] # g /\ ~(g > epoch')
    BY <1>1 DEF EntriesFly
  <2> QED
    BY <1>1, <1>2 DEF NothingLive
<1>6. NoTwins'
  BY <1>1 DEF NoTwins, Queued, AtWorker, Reported, workerVars
<1>7. StagedWait' /\ SheetStaysUp' /\ TallyHasRoom'
  BY <1>1 DEF StagedWait, SheetStaysUp, TallyHasRoom, NoBatch
<1>8. ASSUME ~hasKeys' PROVE flagged' \subseteq landed' /\ SuccessLanded'
  <2>1. wpc' \in {"recheck", "send"} => ~(job'.gen > epoch')
    BY <1>1, <1>2 DEF TypeOK, Job, workerVars
  <2> QED
    BY <1>1, <1>8, <2>1 DEF SuccessLanded
<1> QED
  BY <1>3, <1>4, <1>5, <1>6, <1>7, <1>8

(* Closing the sheet. *)
LEMMA CloseSheetKeepsInv ==
  ASSUME DownloadsInv, CloseSheet
  PROVE  DownloadsInv'
<1> USE DEF DownloadsInv
<1>1. /\ pending = 0 \/ hasKeys
      /\ sheet' = FALSE
      /\ UNCHANGED <<pending, live, gen, epoch, dl, ui, reader, jobs, done,
                     hasKeys, workerVars, flagged, landed, parts>>
  BY DEF CloseSheet
<1>2. TypeOK'
  BY <1>1 DEF TypeOK, Job, Done, workerVars
<1>3. Unsettled' = Unsettled /\ EntriesFly' /\ NoTwins' /\ StagedWait'
  BY <1>1 DEF Unsettled, EntriesFly, Flying, Queued, AtWorker, Reported, NoTwins,
              StagedWait, workerVars
<1>4. ~hasKeys' => SheetStaysUp' /\ TallyHasRoom' /\ flagged' \subseteq landed' /\ SuccessLanded'
  BY <1>1 DEF SheetStaysUp, TallyHasRoom, SuccessLanded, workerVars
<1> QED
  BY <1>1, <1>2, <1>3, <1>4

---------------------------------------------------------------------------
(* The drain.                                                              *)

(* The drain of the queue begins.                                          *)
LEMMA DrainStartKeepsInv ==
  ASSUME DownloadsInv, DrainStart
  PROVE  DownloadsInv'
<1> USE DEF DownloadsInv
<1>1. /\ ui' = "drain"
      /\ UNCHANGED <<pending, live, gen, epoch, dl, sheet, reader, jobs, done,
                     hasKeys, workerVars, flagged, landed, parts>>
  BY DEF DrainStart
<1>2. TypeOK'
  BY <1>1 DEF TypeOK, Job, Done, workerVars
<1>3. Unsettled' = Unsettled /\ EntriesFly' /\ NoTwins' /\ StagedWait'
  BY <1>1 DEF Unsettled, EntriesFly, Flying, Queued, AtWorker, Reported, NoTwins,
              StagedWait, workerVars
<1>4. ~hasKeys' => SheetStaysUp' /\ TallyHasRoom' /\ flagged' \subseteq landed' /\ SuccessLanded'
  BY <1>1 DEF SheetStaysUp, TallyHasRoom, SuccessLanded, workerVars
<1> QED
  BY <1>1, <1>2, <1>3, <1>4

(* A result that is dropped was void: it matched no entry.                 *)
LEMMA DrainStopsKeepsInv ==
  ASSUME DownloadsInv, DrainStops
  PROVE  DownloadsInv'
<1> USE DEF DownloadsInv
<1>1. /\ ui' = "tail"
      /\ UNCHANGED <<pending, live, gen, epoch, dl, sheet, reader, jobs,
                     hasKeys, workerVars, flagged, landed, parts>>
      /\ done' \subseteq done
      /\ \A d \in done : d \in done' \/ ~Matches(d)
  BY DEF DrainStops
<1>2. TypeOK'
  BY <1>1 DEF TypeOK, Job, Done, workerVars
<1>3. Unsettled' = Unsettled /\ StagedWait'
  BY <1>1 DEF Unsettled, StagedWait
<1>4. ASSUME NEW b \in Book, NEW g \in 1 .. gen
      PROVE  /\ Queued(b, g)' <=> Queued(b, g)
             /\ AtWorker(b, g)' <=> AtWorker(b, g)
             /\ Reported(b, g)' => Reported(b, g)
             /\ Reported(b, g) => Reported(b, g)' \/ live[b] # g
  BY <1>1 DEF Queued, AtWorker, Reported, Matches, workerVars
<1>5. EntriesFly'
  BY <1>1, <1>4 DEF EntriesFly, Flying
<1>6. NoTwins'
  BY <1>1, <1>4 DEF NoTwins
<1>7. ~hasKeys' => SheetStaysUp' /\ TallyHasRoom' /\ flagged' \subseteq landed' /\ SuccessLanded'
  BY <1>1 DEF SheetStaysUp, TallyHasRoom, SuccessLanded, workerVars
<1> QED
  BY <1>1, <1>2, <1>3, <1>5, <1>6, <1>7

(* The end of a drain. *)
LEMMA DrainEndKeepsInv ==
  ASSUME DownloadsInv, DrainEnd
  PROVE  DownloadsInv'
<1> USE DEF DownloadsInv
<1> DEFINE over == pending = 0 /\ dl.queue = {} /\ sheet
<1>1. /\ ui' = "ready"
      /\ sheet' = (sheet /\ ~(over /\ dl.single))
      /\ reader' = IF over /\ dl.single /\ dl.autopen # None THEN dl.autopen ELSE reader
      /\ dl' = IF ~over THEN dl
               ELSE IF dl.single THEN [dl EXCEPT !.single = FALSE, !.autopen = None]
               ELSE [dl EXCEPT !.all = FALSE]
      /\ UNCHANGED <<pending, live, gen, epoch, jobs, done, hasKeys,
                     workerVars, flagged, landed, parts>>
  BY DEF DrainEnd
<1>2. /\ dl' \in Batch /\ dl'.queue = dl.queue /\ dl'.total = dl.total
      /\ dl'.done = dl.done /\ dl'.failed = dl.failed
      /\ dl.queue # {} => dl'.all = dl.all
  BY <1>1 DEF TypeOK, Batch
<1>3. sheet' \in BOOLEAN /\ reader' \in Book \cup {None}
  BY <1>1 DEF TypeOK, Batch
<1>4. TypeOK'
  BY <1>1, <1>2, <1>3 DEF TypeOK, Job, Done, workerVars
<1>5. Unsettled' = Unsettled /\ EntriesFly' /\ NoTwins' /\ StagedWait'
  BY <1>1, <1>2 DEF Unsettled, EntriesFly, Flying, Queued, AtWorker, Reported, NoTwins,
                    StagedWait, workerVars
<1>6. pending > 0 => ~over
  BY DEF TypeOK
<1>7. ~hasKeys' => SheetStaysUp' /\ TallyHasRoom' /\ flagged' \subseteq landed' /\ SuccessLanded'
  BY <1>1, <1>2, <1>6 DEF SheetStaysUp, TallyHasRoom, SuccessLanded, workerVars
<1> QED
  BY <1>1, <1>4, <1>5, <1>7

(* A result that settles takes the one entry it belongs to with it.        *)
LEMMA SettledFacts ==
  ASSUME DownloadsInv, NEW d \in done, Matches(d), done' = done \ {d}
  PROVE  LET entries == [live EXCEPT ![d.id] = 0]
             n       == IF pending = 0 THEN 0 ELSE pending - 1
         IN  /\ d.id \in Book /\ d.ok \in BOOLEAN /\ d.gen > epoch
             /\ entries \in [Book -> 0 .. gen]
             /\ pending > 0 /\ n = pending - 1 /\ n \in Nat
             /\ n = Cardinality({b \in Book : entries[b] # 0})
             /\ job' = job =>
                  \A b \in Book, g \in 1 .. gen :
                    entries[b] = g <=>
                      (Queued(b, g) \/ AtWorker(b, g) \/ Reported(b, g)') /\ g > epoch
<1> USE DEF DownloadsInv
<1> DEFINE entries == [live EXCEPT ![d.id] = 0]
           n == IF pending = 0 THEN 0 ELSE pending - 1
<1>1. /\ d.id \in Book /\ d.ok \in BOOLEAN /\ d.gen \in 1 .. gen
      /\ live[d.id] = d.gen
      /\ live \in [Book -> 0 .. gen] /\ gen \in Nat /\ pending \in Nat
  BY DEF TypeOK, Done, Matches
<1>2. d.gen > epoch
  BY <1>1 DEF EntriesFly
<1>3. entries \in [Book -> 0 .. gen] /\ \A b \in Book : entries[b] = IF b = d.id THEN 0 ELSE live[b]
  BY <1>1
<1> HIDE DEF entries
<1>4. /\ pending > 0 /\ n = pending - 1 /\ n \in Nat
      /\ n = Cardinality({b \in Book : entries[b] # 0})
  <2>1. d.id \in Unsettled /\ IsFiniteSet(Unsettled)
    BY <1>1, DownloadsAssumption, FS_Subset DEF Unsettled
  <2> DEFINE rest == {b \in Book : entries[b] # 0}
  <2>2. rest = Unsettled \ {d.id}
    BY <1>3 DEF Unsettled
  <2> HIDE DEF rest
  <2>3. Cardinality(rest) = pending - 1
    BY <2>1, <2>2, FS_RemoveElement
  <2>4. pending # 0
    BY <2>1, FS_EmptySet
  <2>5. n = pending - 1 /\ pending > 0 /\ n \in Nat
    BY <1>1, <2>4
  <2> QED
    BY <2>3, <2>5 DEF rest
<1>5. ASSUME job' = job, NEW b \in Book, NEW g \in 1 .. gen
      PROVE  entries[b] = g <=>
               (Queued(b, g) \/ AtWorker(b, g) \/ Reported(b, g)') /\ g > epoch
  <2>1. live[b] = g <=> Flying(b, g) /\ g > epoch
    BY DEF EntriesFly
  <2>2. CASE b = d.id /\ g = d.gen
    <3>1. Reported(b, g)
      BY <2>2 DEF Reported
    <3>2. ~Queued(b, g) /\ ~AtWorker(b, g)
      BY <3>1 DEF NoTwins
    <3>3. ~Reported(b, g)'
      BY <2>2 DEF Reported, NoTwins
    <3> QED
      BY <1>1, <1>3, <2>2, <3>2, <3>3
  <2>3. CASE b # d.id \/ g # d.gen
    <3>1. Reported(b, g)' <=> Reported(b, g)
      BY <2>3 DEF Reported
    <3>2. entries[b] = g <=> live[b] = g
      BY <1>1, <1>3, <2>3
    <3> QED
      BY <2>1, <3>1, <3>2 DEF Flying
  <2> QED
    BY <2>2, <2>3
<1> QED
  BY <1>1, <1>2, <1>3, <1>4, <1>5 DEF entries

(* Counting a result is an operation on the batch and on its tally. *)
LEMMA CountedFacts ==
  ASSUME dl \in Batch, NEW d, d.id \in Book, d.ok \in BOOLEAN
  PROVE  /\ Counted(d) \in Batch
         /\ Counted(d).queue = dl.queue
         /\ Counted(d).total = dl.total
         /\ Counted(d).all = dl.all
         /\ Counted(d).done + Counted(d).failed = dl.done + dl.failed + 1
<1>1. /\ dl.done \in Nat /\ dl.failed \in Nat /\ dl.failedIds \cup {d.id} \in SUBSET Book
      /\ dl.done + 1 \in Nat /\ dl.failed + 1 \in Nat
  BY DEF Batch
<1>2. /\ Counted(d).queue = dl.queue
      /\ Counted(d).total = dl.total
      /\ Counted(d).all = dl.all
      /\ Counted(d).done = IF d.ok THEN dl.done + 1 ELSE dl.done
      /\ Counted(d).failed = IF d.ok THEN dl.failed ELSE dl.failed + 1
  BY DEF Counted, Batch
<1>3. Counted(d) \in Batch
  BY <1>1 DEF Counted, Batch
<1> QED
  BY <1>1, <1>2, <1>3

(* A result that is current settles its entry; a void one is dropped. *)
LEMMA SettleKeepsInv ==
  ASSUME DownloadsInv, NEW d \in done, Settle(d)
  PROVE  DownloadsInv'
<1> USE DEF DownloadsInv
<1> DEFINE entries == [live EXCEPT ![d.id] = 0]
           n == IF pending = 0 THEN 0 ELSE pending - 1
<1>1. /\ Matches(d) /\ done' = done \ {d}
      /\ flagged' = IF d.ok THEN flagged \cup {d.id} ELSE flagged
      /\ dl.all => TopUp(Counted(d), entries, n)
      /\ ~dl.all => Issue({}, entries, n) /\ dl' = Counted(d)
      /\ UNCHANGED <<epoch, sheet, ui, reader, hasKeys, workerVars, landed, parts>>
  BY DEF Settle
<1>2. /\ d.id \in Book /\ d.ok \in BOOLEAN /\ d.gen > epoch
      /\ entries \in [Book -> 0 .. gen]
      /\ pending > 0 /\ n = pending - 1 /\ n \in Nat
      /\ n = Cardinality({b \in Book : entries[b] # 0})
      /\ \A b \in Book, g \in 1 .. gen :
           entries[b] = g <=>
             (Queued(b, g) \/ AtWorker(b, g) \/ Reported(b, g)') /\ g > epoch
  BY <1>1, SettledFacts DEF workerVars
<1> HIDE DEF entries, n
<1>3. /\ Counted(d) \in Batch
      /\ Counted(d).queue = dl.queue
      /\ Counted(d).total = dl.total
      /\ Counted(d).all = dl.all
      /\ Counted(d).done + Counted(d).failed = dl.done + dl.failed + 1
  BY <1>2, CountedFacts DEF TypeOK
<1>4. /\ TypeOK /\ NoTwins /\ done' \subseteq done
      /\ UNCHANGED <<epoch, workerVars>> /\ UNCHANGED <<job, epoch>>
  BY <1>1 DEF workerVars
<1>5. /\ gen' \in Nat /\ gen <= gen'
      /\ live' \in [Book -> 0 .. gen']
      /\ pending' \in Nat
      /\ pending' = Cardinality(Unsettled)'
      /\ jobs' \subseteq Job'
      /\ EntriesFly'
      /\ NoTwins'
      /\ dl' \in Batch
      /\ dl'.all = dl.all /\ dl'.total = dl.total
      /\ dl'.done + dl'.failed = dl.done + dl.failed + 1
      /\ dl'.queue # {} => dl.all /\ pending' >= Window
      /\ pending' + Cardinality(dl'.queue) <= n + Cardinality(dl.queue)
  <2>1. CASE dl.all
    <3>1. /\ gen' \in Nat /\ gen <= gen'
          /\ live' \in [Book -> 0 .. gen']
          /\ pending' \in Nat
          /\ pending' = Cardinality(Unsettled)'
          /\ jobs' \subseteq Job'
          /\ EntriesFly'
          /\ NoTwins'
          /\ dl' \in Batch
          /\ dl' = [Counted(d) EXCEPT !.queue = dl'.queue]
          /\ dl'.queue # {} => pending' >= Window
          /\ pending' + Cardinality(dl'.queue) <= n + Cardinality(Counted(d).queue)
      BY <1>1, <1>2, <1>3, <1>4, <2>1, TopUpFacts
    <3>2. /\ dl'.all = Counted(d).all /\ dl'.total = Counted(d).total
          /\ dl'.done = Counted(d).done /\ dl'.failed = Counted(d).failed
      <4> DEFINE q == dl'.queue
                 batch == Counted(d)
      <4>1. dl' = [batch EXCEPT !.queue = q] /\ batch \in Batch
        BY <1>3, <3>1
      <4> HIDE DEF q, batch
      <4>2. /\ dl'.all = batch.all /\ dl'.total = batch.total
            /\ dl'.done = batch.done /\ dl'.failed = batch.failed
        BY <4>1 DEF Batch
      <4> QED
        BY <4>2 DEF batch
    <3> QED
      BY <1>3, <2>1, <3>1, <3>2
  <2>2. CASE ~dl.all
    <3>1. Issue({}, entries, n) /\ dl' = Counted(d)
      BY <1>1, <2>2
    <3>2. /\ gen' \in Nat /\ gen <= gen'
          /\ live' \in [Book -> 0 .. gen']
          /\ pending' \in Nat
          /\ pending' = n + Cardinality({})
          /\ pending' = Cardinality(Unsettled)'
          /\ jobs' \subseteq Job'
          /\ EntriesFly'
          /\ NoTwins'
      <4>1. {} \in SUBSET Book /\ \A b \in {} : entries[b] = 0
        OBVIOUS
      <4> QED
        BY <1>2, <1>4, <3>1, <4>1, IssueKeepsEntries
    <3>3. dl.queue = {} /\ dl'.queue = {} /\ Cardinality({}) = 0
      BY <1>3, <2>2, <3>1, FS_EmptySet DEF StagedWait
    <3>4. pending' = n
      BY <1>2, <3>2, <3>3
    <3>5. pending' + Cardinality(dl'.queue) <= n + Cardinality(dl.queue)
      BY <1>2, <3>3, <3>4
    <3> QED
      BY <1>3, <3>1, <3>2, <3>3, <3>5
  <2> QED
    BY <2>1, <2>2
<1>6. TypeOK'
  <2>1. flagged' \subseteq Book
    BY <1>1, <1>2 DEF TypeOK
  <2> QED
    BY <1>1, <1>4, <1>5, <2>1, TypesSurviveIssue DEF TypeOK
<1>7. StagedWait'
  BY <1>5 DEF StagedWait
<1>8. ASSUME ~hasKeys' PROVE SheetStaysUp' /\ TallyHasRoom'
  <2>1. SheetStaysUp /\ TallyHasRoom
    BY <1>1, <1>8
  <2>2. /\ dl'.queue \in SUBSET Book /\ dl.queue \in SUBSET Book
        /\ dl.done + dl.failed \in Nat /\ dl.total \in Nat /\ pending \in Nat
    BY <1>5 DEF TypeOK, Batch
  <2>3. Cardinality(dl'.queue) \in Nat /\ Cardinality(dl.queue) \in Nat
    BY <2>2, DownloadsAssumption, FS_Subset, FS_CardinalityType
  <2> QED
    BY <1>1, <1>2, <1>5, <2>1, <2>2, <2>3 DEF SheetStaysUp, TallyHasRoom
<1>9. ~hasKeys' => flagged' \subseteq landed' /\ SuccessLanded'
  BY <1>1, <1>2 DEF SuccessLanded, workerVars
<1> QED
  BY <1>5, <1>6, <1>7, <1>8, <1>9

---------------------------------------------------------------------------
(* The worker.                                                             *)

(* The steps of one job between the two channels.                          *)
LEMMA JobStepKeepsInv ==
  ASSUME DownloadsInv, Fetch \/ Probe \/ Write \/ Rename
  PROVE  DownloadsInv'
<1> USE DEF DownloadsInv
<1>1. UNCHANGED <<uiVars, flagged, jobs, done, job>>
  BY DEF Fetch, Probe, Write, Rename, WorkerGoes
<1>2. wpc \in {"fetch", "probe", "write", "rename"}
  BY DEF Fetch, Probe, Write, Rename
<1>3. job \in Job
  BY <1>2 DEF TypeOK
<1>4. /\ wpc' \in {"probe", "recheck", "write", "rename"}
      /\ ok' \in BOOLEAN
      /\ parts' \subseteq Book /\ landed' \subseteq Book /\ landed \subseteq landed'
      /\ wpc' = "recheck" /\ ok' => job.id \in landed'
  <2>1. job.id \in Book
    BY <1>3 DEF Job
  <2>2. CASE Fetch
    BY <2>2 DEF Fetch, WorkerGoes, TypeOK
  <2>3. CASE Probe
    BY <2>3 DEF Probe, WorkerGoes, TypeOK
  <2>4. CASE Write
    BY <2>1, <2>4 DEF Write, WorkerGoes, TypeOK
  <2>5. CASE Rename
    BY <2>1, <2>5 DEF Rename, WorkerGoes, TypeOK
  <2> QED
    BY <2>2, <2>3, <2>4, <2>5
<1>5. TypeOK'
  <2>1. job' # None /\ wpc' # "wait"
    BY <1>1, <1>2, <1>4 DEF TypeOK
  <2> QED
    BY <1>1, <1>4, <2>1 DEF TypeOK, Job, Done, uiVars
<1>6. Unsettled' = Unsettled /\ EntriesFly' /\ NoTwins' /\ StagedWait'
  BY <1>1 DEF Unsettled, EntriesFly, Flying, Queued, AtWorker, Reported, NoTwins,
              StagedWait, uiVars
<1>7. ~hasKeys' => SheetStaysUp' /\ TallyHasRoom' /\ flagged' \subseteq landed' /\ SuccessLanded'
  BY <1>1, <1>4 DEF SheetStaysUp, TallyHasRoom, SuccessLanded, uiVars
<1> QED
  BY <1>1, <1>5, <1>6, <1>7 DEF uiVars

(* The worker takes a job. *)
LEMMA TakeKeepsInv ==
  ASSUME DownloadsInv, NEW j \in jobs, Take(j)
  PROVE  DownloadsInv'
<1> USE DEF DownloadsInv
<1>1. /\ wpc = "wait" /\ job = None
      /\ jobs' = jobs \ {j}
      /\ UNCHANGED <<uiVars, flagged, done, ok, landed, parts>>
      /\ \/ j.gen <= epoch /\ wpc' = "wait" /\ job' = None
         \/ ~(j.gen <= epoch) /\ wpc' = "fetch" /\ job' = j
  BY DEF Take, WorkerGoes, TypeOK
<1>2. /\ j.id \in Book /\ j.gen \in 1 .. gen /\ j = [id |-> j.id, gen |-> j.gen]
      /\ j \in Job /\ j # None /\ gen \in Nat /\ epoch \in 0 .. gen
  BY DownloadsAssumption DEF TypeOK, Job
<1>3. TypeOK'
  <2>1. job' \in Job \cup {None} /\ (job' = None <=> wpc' = "wait")
    BY <1>1, <1>2
  <2> QED
    BY <1>1, <2>1 DEF TypeOK, Job, Done, uiVars
<1>4. ASSUME NEW b \in Book, NEW g \in 1 .. gen
      PROVE  /\ Queued(b, g)' <=> Queued(b, g) /\ ~(b = j.id /\ g = j.gen)
             /\ AtWorker(b, g)' => b = j.id /\ g = j.gen
             /\ g > epoch /\ b = j.id /\ g = j.gen => AtWorker(b, g)'
             /\ ~AtWorker(b, g)
             /\ Reported(b, g)' <=> Reported(b, g)
             /\ b = j.id /\ g = j.gen => Queued(b, g)
  <2>1. [id |-> b, gen |-> g] = j <=> b = j.id /\ g = j.gen
    BY <1>2
  <2>2. None # [id |-> b, gen |-> g]
    BY <1>2, DownloadsAssumption
  <2>3. g > epoch => ~(g <= epoch)
    BY <1>2
  <2> QED
    BY <1>1, <2>1, <2>2, <2>3 DEF Queued, AtWorker, Reported, TypeOK
<1>5. EntriesFly'
  <2> SUFFICES ASSUME NEW b \in Book, NEW g \in 1 .. gen
               PROVE  live[b] = g <=> Flying(b, g)' /\ g > epoch
    BY <1>1 DEF EntriesFly, uiVars
  <2>1. live[b] = g <=> Flying(b, g) /\ g > epoch
    BY DEF EntriesFly
  <2> QED
    BY <1>4, <2>1 DEF Flying
<1>6. NoTwins'
  BY <1>1, <1>4 DEF NoTwins, uiVars
<1>7. Unsettled' = Unsettled /\ StagedWait'
  BY <1>1 DEF Unsettled, StagedWait, uiVars
<1>8. ~hasKeys' => SheetStaysUp' /\ TallyHasRoom' /\ flagged' \subseteq landed' /\ SuccessLanded'
  BY <1>1 DEF SheetStaysUp, TallyHasRoom, SuccessLanded, uiVars
<1> QED
  BY <1>1, <1>3, <1>5, <1>6, <1>7, <1>8 DEF uiVars

(* The worker drops a job that was voided while it wrote, or goes on to report it. *)
LEMMA RecheckKeepsInv ==
  ASSUME DownloadsInv, Recheck
  PROVE  DownloadsInv'
<1> USE DEF DownloadsInv
<1>1. /\ wpc = "recheck"
      /\ UNCHANGED <<uiVars, flagged, jobs, done, ok, landed, parts>>
      /\ \/ job.gen <= epoch /\ wpc' = "wait" /\ job' = None
         \/ ~(job.gen <= epoch) /\ wpc' = "send" /\ job' = job
  BY DEF Recheck, WorkerGoes, Void
<1>2. /\ job \in Job /\ job # None /\ job.gen \in 1 .. gen
      /\ gen \in Nat /\ epoch \in 0 .. gen
  <2>1. job \in Job /\ job # None
    BY <1>1 DEF TypeOK
  <2> QED
    BY <2>1 DEF TypeOK, Job
<1>3. TypeOK'
  <2>1. job' \in Job \cup {None} /\ (job' = None <=> wpc' = "wait")
    BY <1>1, <1>2
  <2> QED
    BY <1>1, <2>1 DEF TypeOK, Job, Done, uiVars
<1>4. ASSUME NEW b \in Book, NEW g \in 1 .. gen
      PROVE  /\ Queued(b, g)' <=> Queued(b, g)
             /\ AtWorker(b, g)' => AtWorker(b, g)
             /\ AtWorker(b, g) /\ g > epoch => AtWorker(b, g)'
             /\ Reported(b, g)' <=> Reported(b, g)
  <2>1. None # [id |-> b, gen |-> g]
    BY <1>2, DownloadsAssumption
  <2>2. AtWorker(b, g) => g = job.gen
    BY DEF AtWorker
  <2>3. g > epoch => ~(g <= epoch)
    BY <1>2
  <2> QED
    BY <1>1, <2>1, <2>2, <2>3 DEF Queued, AtWorker, Reported
<1>5. EntriesFly'
  <2> SUFFICES ASSUME NEW b \in Book, NEW g \in 1 .. gen
               PROVE  live[b] = g <=> Flying(b, g)' /\ g > epoch
    BY <1>1 DEF EntriesFly, uiVars
  <2>1. live[b] = g <=> Flying(b, g) /\ g > epoch
    BY DEF EntriesFly
  <2> QED
    BY <1>4, <2>1 DEF Flying
<1>6. NoTwins'
  BY <1>1, <1>4 DEF NoTwins, uiVars
<1>7. Unsettled' = Unsettled /\ StagedWait'
  BY <1>1 DEF Unsettled, StagedWait, uiVars
<1>8. ~hasKeys' => SheetStaysUp' /\ TallyHasRoom' /\ flagged' \subseteq landed' /\ SuccessLanded'
  BY <1>1 DEF SheetStaysUp, TallyHasRoom, SuccessLanded, uiVars
<1> QED
  BY <1>1, <1>3, <1>5, <1>6, <1>7, <1>8 DEF uiVars

(* The worker sends its result. *)
LEMMA SendKeepsInv ==
  ASSUME DownloadsInv, Send
  PROVE  DownloadsInv'
<1> USE DEF DownloadsInv
<1> DEFINE res == [id |-> job.id, gen |-> job.gen, ok |-> ok]
<1>1. /\ wpc = "send" /\ wpc' = "wait" /\ job' = None
      /\ done' = done \cup {res}
      /\ UNCHANGED <<uiVars, flagged, jobs, ok, landed, parts>>
  BY DEF Send, WorkerGoes
<1>2. /\ job.id \in Book /\ job.gen \in 1 .. gen /\ job = [id |-> job.id, gen |-> job.gen]
      /\ ok \in BOOLEAN
  <2>1. job \in Job
    BY <1>1 DEF TypeOK
  <2> QED
    BY <2>1 DEF TypeOK, Job
<1>3. res \in Done /\ res.id = job.id /\ res.gen = job.gen /\ res.ok = ok
  BY <1>2 DEF Done
<1> HIDE DEF res
<1>4. TypeOK'
  BY <1>1, <1>3 DEF TypeOK, Job, Done, uiVars
<1>5. ASSUME NEW b \in Book, NEW g \in 1 .. gen
      PROVE  /\ Queued(b, g)' <=> Queued(b, g)
             /\ ~AtWorker(b, g)'
             /\ AtWorker(b, g) <=> b = job.id /\ g = job.gen
             /\ Reported(b, g)' <=> Reported(b, g) \/ AtWorker(b, g)
  <2>1. None # [id |-> b, gen |-> g]
    BY DownloadsAssumption DEF TypeOK
  <2>2. AtWorker(b, g) <=> b = job.id /\ g = job.gen
    BY <1>2 DEF AtWorker
  <2>3. Reported(b, g)' <=> Reported(b, g) \/ (b = job.id /\ g = job.gen)
    BY <1>1, <1>3 DEF Reported
  <2> QED
    BY <1>1, <2>1, <2>2, <2>3 DEF Queued, AtWorker
<1>6. EntriesFly'
  <2> SUFFICES ASSUME NEW b \in Book, NEW g \in 1 .. gen
               PROVE  live[b] = g <=> Flying(b, g)' /\ g > epoch
    BY <1>1 DEF EntriesFly, uiVars
  <2>1. live[b] = g <=> Flying(b, g) /\ g > epoch
    BY DEF EntriesFly
  <2> QED
    BY <1>5, <2>1 DEF Flying
<1>7. NoTwins'
  <2>1. \A d \in done : ~(d.id = job.id /\ d.gen = job.gen)
    <3>1. AtWorker(job.id, job.gen)
      BY <1>2 DEF AtWorker
    <3>2. ~Reported(job.id, job.gen)
      BY <1>2, <3>1 DEF NoTwins
    <3> QED
      BY <3>2 DEF Reported
  <2>2. \A d, e \in done' : d.id = e.id /\ d.gen = e.gen => d = e
    BY <1>1, <1>3, <2>1 DEF NoTwins
  <2>3. \A b \in Book, g \in 1 .. gen' :
          /\ ~(Queued(b, g)' /\ AtWorker(b, g)')
          /\ ~(Queued(b, g)' /\ Reported(b, g)')
          /\ ~(AtWorker(b, g)' /\ Reported(b, g)')
    BY <1>1, <1>5 DEF NoTwins, uiVars
  <2> QED
    BY <2>2, <2>3 DEF NoTwins
<1>8. Unsettled' = Unsettled /\ StagedWait'
  BY <1>1 DEF Unsettled, StagedWait, uiVars
<1>9. ~hasKeys' => SheetStaysUp' /\ TallyHasRoom' /\ flagged' \subseteq landed' /\ SuccessLanded'
  BY <1>1, <1>3 DEF SheetStaysUp, TallyHasRoom, SuccessLanded, uiVars
<1> QED
  BY <1>1, <1>4, <1>6, <1>7, <1>8, <1>9 DEF uiVars

---------------------------------------------------------------------------
(* The invariant.                                                          *)

(* A process that has just started is inside the invariant.                *)
LEMMA FreshStart ==
  ASSUME pending = 0, live = NothingLive, gen = 0, epoch = 0, dl = NoBatch,
         sheet = FALSE, ui = "ready", reader = None, hasKeys \in BOOLEAN,
         jobs = {}, done = {}, wpc = "wait", job = None, ok = FALSE,
         landed \in SUBSET Book, flagged = landed, parts = {}
  PROVE  DownloadsInv
<1>1. TypeOK
  <2>1. NoBatch \in Batch
    BY DEF NoBatch, Batch
  <2>2. live \in [Book -> 0 .. gen] /\ epoch \in 0 .. gen
    BY DEF NothingLive
  <2> QED
    BY <2>1, <2>2 DEF TypeOK
<1>2. pending = Cardinality(Unsettled)
  <2>1. Unsettled = {}
    BY DEF Unsettled, NothingLive
  <2> QED
    BY <2>1, FS_EmptySet
<1>3. EntriesFly /\ NoTwins
  BY DEF EntriesFly, NoTwins
<1>4. StagedWait /\ SheetStaysUp /\ TallyHasRoom /\ SuccessLanded
  BY DEF StagedWait, NoBatch, SheetStaysUp, TallyHasRoom, SuccessLanded
<1> QED
  BY <1>1, <1>2, <1>3, <1>4 DEF DownloadsInv

(* A device starts with nothing queued. *)
LEMMA InitInv == Init => DownloadsInv
BY FreshStart, DownloadsAssumption DEF Init

(* A reboot starts again from the files. *)
LEMMA RebootKeepsInv ==
  ASSUME DownloadsInv, Reboot
  PROVE  DownloadsInv'
<1>1. hasKeys \in BOOLEAN /\ landed \in SUBSET Book
  BY DEF DownloadsInv, TypeOK
<1>2. NoBatch \in Batch /\ 1 .. 0 = {}
  BY DEF NoBatch, Batch
<1>3. TypeOK'
  <2>1. live' \in [Book -> 0 .. gen'] /\ epoch' \in 0 .. gen'
    BY DEF Reboot, NothingLive
  <2> QED
    BY <1>1, <1>2, <2>1 DEF Reboot, TypeOK
<1>4. pending' = Cardinality(Unsettled)'
  <2>1. Unsettled' = {}
    BY DEF Reboot, Unsettled, NothingLive
  <2> QED
    BY <2>1, FS_EmptySet DEF Reboot
<1>5. EntriesFly' /\ NoTwins'
  BY DEF Reboot, EntriesFly, NoTwins
<1>6. StagedWait' /\ SheetStaysUp' /\ TallyHasRoom' /\ SuccessLanded' /\ flagged' = landed'
  BY DEF Reboot, StagedWait, NoBatch, SheetStaysUp, TallyHasRoom, SuccessLanded
<1> QED
  BY <1>3, <1>4, <1>5, <1>6 DEF DownloadsInv

(* A step that changes nothing here. *)
LEMMA StutterKeepsInv ==
  ASSUME DownloadsInv, UNCHANGED vars
  PROVE  DownloadsInv'
BY DEF DownloadsInv, vars, uiVars, workerVars, TypeOK, Job, Done, Unsettled, EntriesFly, Flying,
       Queued, AtWorker, Reported, NoTwins, StagedWait, SheetStaysUp, TallyHasRoom, SuccessLanded

(* Every step. *)
LEMMA NextKeepsInv ==
  ASSUME DownloadsInv, [Next]_vars
  PROVE  DownloadsInv'
<1>1. CASE User
  BY <1>1, PressKeepsInv, DeleteKeepsInv, DownloadKeepsInv, DownloadAllKeepsInv,
     CancelKeepsInv, CloseSheetKeepsInv DEF User
<1>2. CASE Drain
  BY <1>2, DrainStartKeepsInv, SettleKeepsInv, DrainStopsKeepsInv, DrainEndKeepsInv DEF Drain
<1>3. CASE WorkerStep
  BY <1>3, TakeKeepsInv, JobStepKeepsInv, RecheckKeepsInv, SendKeepsInv DEF WorkerStep
<1>4. CASE Reboot
  BY <1>4, RebootKeepsInv
<1>5. CASE UNCHANGED vars
  BY <1>5, StutterKeepsInv
<1> QED
  BY <1>1, <1>2, <1>3, <1>4, <1>5 DEF Next

(* The invariant holds in every state. *)
LEMMA DownloadsInvariant == Spec => []DownloadsInv
<1>1. DownloadsInv /\ [Next]_vars => DownloadsInv'
  BY NextKeepsInv
<1> QED
  BY InitInv, <1>1, PTL DEF Spec

---------------------------------------------------------------------------
(* QueueBalances says of sets of generations what EntriesFly says of each. *)
LEMMA EntriesBalance ==
  ASSUME TypeOK, EntriesFly, pending = Cardinality(Unsettled)
  PROVE  QueueBalances
<1>1. ASSUME NEW b \in Book
      PROVE  Unvoided(b) = IF live[b] = 0 THEN {} ELSE {live[b]}
  <2>1. /\ live[b] \in 0 .. gen /\ gen \in Nat
        /\ \A g \in 1 .. gen : live[b] = g <=> Flying(b, g) /\ g > epoch
    BY DEF TypeOK, EntriesFly
  <2>2. \A j \in InFlight :
          j.id \in Book /\ j.gen \in 1 .. gen /\ Flying(j.id, j.gen)
    <3>1. \A j \in jobs : j.id \in Book /\ j.gen \in 1 .. gen /\ j = [id |-> j.id, gen |-> j.gen]
      BY DEF TypeOK, Job
    <3>2. job # None => job.id \in Book /\ job.gen \in 1 .. gen /\ job = [id |-> job.id, gen |-> job.gen]
      BY DEF TypeOK, Job
    <3>3. \A d \in done : d.id \in Book /\ d.gen \in 1 .. gen
      BY DEF TypeOK, Done
    <3>4. \A j \in jobs : Flying(j.id, j.gen)
      BY <3>1 DEF Flying, Queued
    <3>5. job # None => Flying(job.id, job.gen)
      BY <3>2 DEF Flying, AtWorker
    <3>6. \A d \in done : Flying(d.id, d.gen)
      BY DEF Flying, Reported
    <3> QED
      BY <3>1, <3>2, <3>3, <3>4, <3>5, <3>6 DEF InFlight
  <2>3. ASSUME NEW g \in 1 .. gen, Flying(b, g)
        PROVE  [id |-> b, gen |-> g] \in InFlight
    BY <2>3, DownloadsAssumption DEF Flying, Queued, AtWorker, Reported, InFlight, TypeOK
  <2>4. \A g : g \in Unvoided(b) <=> g \in 1 .. gen /\ Flying(b, g) /\ g > epoch
    <3>1. ASSUME NEW g, g \in Unvoided(b)
          PROVE  g \in 1 .. gen /\ Flying(b, g) /\ g > epoch
      BY <2>2, <3>1 DEF Unvoided
    <3>2. ASSUME NEW g, g \in 1 .. gen, Flying(b, g), g > epoch
          PROVE  g \in Unvoided(b)
      <4> DEFINE j == [id |-> b, gen |-> g]
      <4>1. j \in InFlight /\ j.id = b /\ j.gen = g
        BY <2>3, <3>2
      <4> HIDE DEF j
      <4> QED
        BY <3>2, <4>1 DEF Unvoided
    <3> QED
      BY <3>1, <3>2
  <2> QED
    BY <2>1, <2>4
<1> QED
  BY <1>1 DEF QueueBalances, Unsettled

(* Types hold, the entries of the live map are exactly the unvoided jobs   *)
(* between the channels, pending counts them, and where no key closes the  *)
(* sheet a download-all batch never tallies more than it announced         *)
(* (enqueue, top_up_batch, try_next, drain_downloads, cancel_downloads).   *)
THEOREM TheSheetCountsTrue == Spec => []SheetCounts
<1>1. DownloadsInv => SheetCounts
  <2> SUFFICES ASSUME DownloadsInv PROVE SheetCounts
    OBVIOUS
  <2>1. TypeOK /\ QueueBalances
    BY EntriesBalance DEF DownloadsInv
  <2>2. TallyAddsUp
    <3> SUFFICES ASSUME ~hasKeys, dl.total > 0 PROVE dl.done + dl.failed <= dl.total
      BY DEF TallyAddsUp
    <3>1. dl.done + dl.failed + pending + Cardinality(dl.queue) <= dl.total
      BY DEF DownloadsInv, TallyHasRoom
    <3>2. /\ dl.queue \in SUBSET Book
          /\ dl.done \in Nat /\ dl.failed \in Nat /\ dl.total \in Nat /\ pending \in Nat
      BY <2>1 DEF TypeOK, Batch
    <3>3. Cardinality(dl.queue) \in Nat
      BY <3>2, DownloadsAssumption, FS_Subset, FS_CardinalityType
    <3> QED
      BY <3>1, <3>2, <3>3
  <2> QED
    BY <2>1, <2>2 DEF SheetCounts
<1> QED
  BY <1>1, DownloadsInvariant, PTL

(* Where no key closes the sheet, a flag never lacks its file: whatever is *)
(* cancelled, fails, is deleted or rebooted (set_downloaded behind         *)
(* try_next, delete_book, refresh_downloaded_flags).                       *)
THEOREM FlaggedBooksHaveFiles == Spec => []FlagsHaveFiles
<1>1. DownloadsInv => FlagsHaveFiles
  BY DEF DownloadsInv, FlagsHaveFiles
<1> QED
  BY <1>1, DownloadsInvariant, PTL

(* What is tallied was issued after the last cancel: the matching of       *)
(* generations in try_next lets no voided result settle anything.          *)
THEOREM VoidedResultsNeverSettle == Spec => StaleNeverSettles
<1> DEFINE Told == dl'.done + dl'.failed > dl.done + dl.failed =>
                     \E d \in done \ done' : d.gen > epoch
<1>1. DownloadsInv /\ [Next]_vars => [Told]_vars
  <2> SUFFICES ASSUME DownloadsInv, Next PROVE Told
    OBVIOUS
  <2>1. dl.done \in Nat /\ dl.failed \in Nat
    BY DEF DownloadsInv, TypeOK, Batch
  <2>2. CASE dl'.done = dl.done /\ dl'.failed = dl.failed
    BY <2>1, <2>2
  <2>3. CASE dl'.done = 0 /\ dl'.failed = 0
    BY <2>1, <2>3
  <2>4. ASSUME NEW d \in done, Settle(d)
        PROVE  Told
    <3>1. Matches(d) /\ done' = done \ {d}
      BY <2>4 DEF Settle
    <3>2. d.gen > epoch
      BY <3>1, SettledFacts
    <3> QED
      BY <3>1, <3>2
  <2>5. CASE User
    <3>1. ASSUME NEW b \in Book, Press(b) PROVE Told
      BY <2>2, <2>3, <3>1 DEF Press, StartSingle, NoBatch
    <3>2. ASSUME NEW b \in Book, Delete(b) PROVE Told
      BY <2>2, <3>2 DEF Delete, uiVars
    <3>3. ASSUME NEW books \in SUBSET Book, Download(books) PROVE Told
      BY <2>3, <3>3 DEF Download, NoBatch
    <3>4. CASE DownloadAll
      BY <2>3, <3>4 DEF DownloadAll, TopUp, StartAll, NoBatch
    <3>5. CASE Cancel
      BY <2>3, <3>5 DEF Cancel, NoBatch
    <3>6. CASE CloseSheet
      BY <2>2, <3>6 DEF CloseSheet
    <3> QED
      BY <2>5, <3>1, <3>2, <3>3, <3>4, <3>5, <3>6 DEF User
  <2>6. CASE Drain
    <3>1. CASE DrainStart
      BY <2>2, <3>1 DEF DrainStart
    <3>2. CASE DrainStops
      BY <2>2, <3>2 DEF DrainStops
    <3>3. CASE DrainEnd
      <4>1. dl'.done = dl.done /\ dl'.failed = dl.failed
        BY <3>3 DEF DrainEnd, DownloadsInv, TypeOK, Batch
      <4> QED
        BY <2>2, <4>1
    <3> QED
      BY <2>4, <2>6, <3>1, <3>2, <3>3 DEF Drain
  <2>7. CASE WorkerStep
    BY <2>2, <2>7 DEF WorkerStep, Take, Fetch, Probe, Write, Rename, Recheck, Send,
                      WorkerGoes, uiVars
  <2>8. CASE Reboot
    BY <2>3, <2>8 DEF Reboot, NoBatch
  <2> QED
    BY <2>5, <2>6, <2>7, <2>8 DEF Next
<1> QED
  BY <1>1, DownloadsInvariant, PTL DEF Spec, StaleNeverSettles

=============================================================================
