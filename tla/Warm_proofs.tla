----------------------------- MODULE Warm_proofs -----------------------------
(***************************************************************************)
(* Proofs about the covers of the device, for any library, any number of   *)
(* passes and any size of the cache of tiles.  A local book never gets a   *)
(* file from the server, because no thread goes on with the placeholder;   *)
(* so what shadows its own art can only be an old file, which the tile     *)
(* unlinks before it is drawn.                                             *)
(***************************************************************************)
EXTENDS Warm, SequenceTheorems, TLAPS

---------------------------------------------------------------------------
(* The inductive invariant.                                                *)

Thread == [at : {"idle", "next", "get", "open", "write", "rename", "unlink"},
           id : Books \cup {None}, ids : Seq(Books), inode : {None, "tmp", "png", "gone"}]

(* A thread at work is at work on a book, writes none that is local, and a *)
(* worker has no more left than the library.                               *)
Sound(p, r) ==
  /\ r \in Thread
  /\ r.at \in {"get", "open", "write", "rename", "unlink"} => r.id \in Books
  /\ r.at \in {"open", "write", "rename"} => r.id \notin LocalBooks
  /\ p \in Workers => Len(r.ids) <= Len(Library)

Threads ==
  /\ proc = [p \in Procs |-> proc[p]]
  /\ \A p \in Procs : Sound(p, proc[p])

(* What is kept of a local book is its own: no file but an old placeholder,*)
(* and art extracted, remembered and shown only where there is some.       *)
Own(b) ==
  /\ png[b] \in {None, "tiny"} /\ tmp[b] = None
  /\ raw[b] = "whole" => HasArt(b)
  /\ raw[b] = "empty" => ~ HasArt(b)
  /\ Contains(memo, b) => HasArt(b)
  /\ shown[b] # None => (shown[b] = "art" <=> HasArt(b))

WarmInv ==
  /\ png \in [Books -> {None, "whole", "part", "torn", "tiny"}]
  /\ tmp \in [Books -> {None, "part", "torn", "whole"}]
  /\ raw \in [Books -> {None, "whole", "empty"}]
  /\ shown \in [LocalBooks -> {None, "art", "blank"}]
  /\ memo \in Seq(Books) /\ Len(memo) <= CacheCap
  /\ warm \in [total : Nat, remaining : 0 .. Len(Library), online : BOOLEAN]
  /\ net \in BOOLEAN
  /\ Threads
  /\ \A b \in LocalBooks : Own(b)

(* The lists of ids, which a worker empties from the end.                  *)
LEMMA FrontFacts ==
  ASSUME NEW s \in Seq(Books), s # <<>>
  PROVE  /\ Front(s) \in Seq(Books) /\ Len(Front(s)) = Len(s) - 1
         /\ Tail(s) \in Seq(Books) /\ Last(s) \in Books /\ Head(s) \in Books
         /\ Len(s) \in Nat \ {0}
<1>1. Len(s) \in Nat \ {0}
  OBVIOUS
<1>2. Last(s) \in Books
  BY <1>1 DEF Last
<1>3. Front(s) \in Seq(Books) /\ Len(Front(s)) = Len(s) - 1
  <2> DEFINE n == Len(s) - 1
  <2>1. \A i \in 1 .. n : s[i] \in Books
    BY <1>1
  <2>2. 1 \in Int /\ n \in Nat
    BY <1>1
  <2> DEFINE f == SubSeq(s, 1, n)
  <2> HIDE DEF n
  <2>3. f \in Seq(Books) /\ Len(f) = IF 1 <= n THEN n - 1 + 1 ELSE 0
    BY <2>1, <2>2, SubSeqProperties
  <2> HIDE DEF f
  <2>4. f \in Seq(Books) /\ Len(f) = n
    BY <2>2, <2>3
  <2> QED
    BY <2>4 DEF Front, f, n
<1> QED
  BY <1>1, <1>2, <1>3

(* The art that is remembered is of the tiles that were drawn.             *)
LEMMA MemoFacts ==
  ASSUME memo \in Seq(Books), Len(memo) <= CacheCap, NEW b \in Books
  PROVE  /\ Memoised(b) \in Seq(Books) /\ Len(Memoised(b)) <= CacheCap
         /\ \A c : Contains(Memoised(b), c) => c = b \/ Contains(memo, c)
<1>1. CASE Contains(memo, b)
  BY <1>1 DEF Memoised
<1>2. CASE ~ Contains(memo, b)
  <2> DEFINE rest == IF Len(memo) >= CacheCap THEN Tail(memo) ELSE memo
  <2>1. CacheCap \in Nat \ {0} /\ Len(memo) \in Nat
    BY WarmAssumption
  <2>2. rest \in Seq(Books) /\ Len(rest) < CacheCap
    BY <2>1
  <2>3. \A i \in 1 .. Len(rest) : \E j \in 1 .. Len(memo) : rest[i] = memo[j]
    <3>1. CASE Len(memo) >= CacheCap
      <4>1. memo # <<>>
        BY <2>1, <3>1
      <4>2. \A i \in 1 .. Len(memo) - 1 : Tail(memo)[i] = memo[i + 1]
        BY <4>1
      <4>3. Len(rest) = Len(memo) - 1 /\ rest = Tail(memo)
        BY <3>1, <4>1
      <4> QED
        <5> TAKE i \in 1 .. Len(rest)
        <5>1. i + 1 \in 1 .. Len(memo) /\ rest[i] = memo[i + 1]
          BY <2>1, <4>2, <4>3
        <5> QED
          BY <5>1
    <3>2. CASE ~ (Len(memo) >= CacheCap)
      BY <3>2
    <3> QED
      BY <3>1, <3>2
  <2>4. Memoised(b) = Append(rest, b)
    BY <1>2 DEF Memoised
  <2> HIDE DEF rest
  <2>5. Append(rest, b) \in Seq(Books) /\ Len(Append(rest, b)) = Len(rest) + 1
    BY <2>2
  <2>6. \A i \in 1 .. Len(rest) + 1 : Append(rest, b)[i] = IF i = Len(rest) + 1 THEN b ELSE rest[i]
    BY <2>2
  <2>7. Len(rest) \in Nat
    BY <2>2
  <2>8. ASSUME NEW c, Contains(Memoised(b), c) PROVE c = b \/ Contains(memo, c)
    <3>1. PICK i \in 1 .. Len(rest) + 1 : Append(rest, b)[i] = c
      BY <2>4, <2>5, <2>8 DEF Contains
    <3>2. CASE i = Len(rest) + 1
      BY <2>6, <3>1, <3>2
    <3>3. CASE i \in 1 .. Len(rest)
      BY <2>3, <2>6, <2>7, <3>1, <3>3 DEF Contains
    <3> QED
      BY <2>7, <3>1, <3>2, <3>3
  <2> QED
    BY <2>1, <2>2, <2>4, <2>5, <2>7, <2>8
<1> QED
  BY <1>1, <1>2

---------------------------------------------------------------------------
(* The threads.                                                            *)

(* A thread that has nothing to do, and one that has something before it.  *)
LEMMA Resting ==
  /\ Idle \in Thread /\ Idle.at = "idle" /\ Idle.id = None
  /\ \A p : Sound(p, Idle)
<1>1. <<>> \in Seq(Books) /\ Len(<<>>) = 0 /\ Len(Library) \in Nat
  BY WarmAssumption
<1> QED
  BY <1>1 DEF Sound, Thread, Idle

(* A thread may start on its list with nothing in its hands. *)
LEMMA Starting ==
  ASSUME NEW p, NEW s \in Seq(Books), p \in Workers => s = Library
  PROVE  Sound(p, [Idle EXCEPT !.at = "next", !.ids = s])
<1> DEFINE r == [Idle EXCEPT !.at = "next", !.ids = s]
<1>1. Len(Library) \in Nat
  BY WarmAssumption
<1>2. r \in Thread /\ r.at = "next" /\ r.id = None /\ r.ids = s
  BY Resting DEF Thread
<1> HIDE DEF r
<1>3. Sound(p, r)
  BY <1>1, <1>2 DEF Sound
<1> QED
  BY <1>3 DEF r

(* So may the application on a file that it unlinks. *)
LEMMA Unlinking ==
  ASSUME NEW b \in Books
  PROVE  Sound(UI, [Idle EXCEPT !.at = "unlink", !.id = b])
<1> DEFINE r == [Idle EXCEPT !.at = "unlink", !.id = b]
<1>1. UI \notin Workers
  BY WarmAssumption
<1>2. r \in Thread /\ r.at = "unlink" /\ r.id = b
  BY Resting DEF Thread
<1> HIDE DEF r
<1>3. Sound(UI, r)
  BY <1>1, <1>2 DEF Sound
<1> QED
  BY <1>3 DEF r

(* A thread that goes on, and one that finds what to fetch.                *)
LEMMA GoingOn ==
  ASSUME NEW p, NEW r, Sound(p, r)
  PROVE  /\ Sound(p, Onward(r))
         /\ \A b \in Books : Sound(p, [r EXCEPT !.at = "get", !.id = b])
BY DEF Sound, Onward, Thread

(* Wanting the cover of another book loses nothing that is known. *)
LEMMA Finding ==
  ASSUME NEW p, NEW r, Sound(p, r), NEW b \in Books
  PROVE  Sound(p, Wants(r, b))
BY GoingOn DEF Wants

(* A step of one thread alone.                                             *)
LEMMA OneThread ==
  ASSUME Threads, NEW p \in Procs, NEW r, Sound(p, r), proc' = [proc EXCEPT ![p] = r]
  PROVE  Threads'
BY DEF Threads, Sound

(* The local books depend on what is kept of them, and on nothing else.    *)
LEMMA OwnStays ==
  ASSUME \A b \in LocalBooks : Own(b), UNCHANGED <<png, tmp, raw, memo, shown>>
  PROVE  \A b \in LocalBooks : Own(b)'
BY DEF Own

(* A step of one worker keeps what every other one relies on. *)
LEMMA WorkerStep ==
  ASSUME WarmInv, NEW w \in Workers, StartPass(w) \/ WorkerNext(w)
  PROVE  WarmInv'
<1>1. UNCHANGED <<png, tmp, raw, memo, shown, net>> /\ w \in Procs /\ Threads
  BY DEF StartPass, WorkerNext, files, Procs, WarmInv
<1>2. Len(Library) \in Nat /\ Library \in Seq(Books)
  BY WarmAssumption
<1>3. Threads' /\ warm' \in [total : Nat, remaining : 0 .. Len(Library), online : BOOLEAN]
  <2>1. CASE StartPass(w)
    <3>1. Sound(w, [Idle EXCEPT !.at = "next", !.ids = Library])
      BY <1>2, Starting
    <3>2. Threads'
      BY <1>1, <2>1, <3>1, OneThread DEF StartPass
    <3>3. warm' = [warm EXCEPT !.total = Len(Library), !.remaining = Len(Library)]
      BY <2>1 DEF StartPass
    <3> DEFINE n == Len(Library)
    <3>4. n \in Nat /\ n \in 0 .. n
      BY <1>2
    <3> HIDE DEF n
    <3>5. warm' = [warm EXCEPT !.total = n, !.remaining = n]
      BY <3>3 DEF n
    <3>6. warm \in [total : Nat, remaining : 0 .. n, online : BOOLEAN]
      BY DEF WarmInv, n
    <3>7. warm' \in [total : Nat, remaining : 0 .. n, online : BOOLEAN]
      BY <3>4, <3>5, <3>6
    <3> QED
      BY <3>2, <3>7 DEF n
  <2>2. CASE WorkerNext(w)
    <3> DEFINE r == proc[w]
               ids == r.ids
    <3>1. Sound(w, r)
      BY <1>1 DEF Threads
    <3>2. ids \in Seq(Books) /\ Len(ids) <= Len(Library)
      BY <3>1 DEF Sound, Thread
    <3>3. CASE ids = <<>>
      <4>1. proc' = [proc EXCEPT ![w] = Idle] /\ warm' = [warm EXCEPT !.remaining = 0]
        BY <2>2, <3>3 DEF WorkerNext
      <4>2. Sound(w, Idle)
        BY Resting
      <4>3. Threads'
        BY <1>1, <4>1, <4>2, OneThread
      <4>4. 0 \in 0 .. Len(Library)
        BY <1>2
      <4> QED
        BY <4>1, <4>3, <4>4 DEF WarmInv
    <3>4. CASE ids # <<>>
      <4>1. Front(ids) \in Seq(Books) /\ Len(Front(ids)) = Len(ids) - 1 /\ Last(ids) \in Books
            /\ Len(ids) \in Nat \ {0}
        BY <3>2, <3>4, FrontFacts
      <4> DEFINE f == [r EXCEPT !.ids = Front(ids)]
      <4>2. Sound(w, f)
        <5> DEFINE s == Front(ids)
        <5>1. s \in Seq(Books) /\ Len(s) <= Len(Library)
          BY <1>2, <3>2, <4>1
        <5>2. f = [r EXCEPT !.ids = s]
          OBVIOUS
        <5> HIDE DEF r, s, f
        <5> QED
          BY <3>1, <5>1, <5>2 DEF Sound, Thread
      <4>3. CASE ~ warm.online
        <5>1. proc' = [proc EXCEPT ![w] = f] /\ warm' = warm
          BY <2>2, <3>4, <4>3, <1>1 DEF WorkerNext, Offline, Threads
        <5> HIDE DEF f
        <5> QED
          BY <1>1, <4>2, <5>1, OneThread DEF WarmInv
      <4>4. CASE warm.online
        <5>1. proc' = [proc EXCEPT ![w] = Wants(f, Last(ids))]
              /\ warm' = [warm EXCEPT !.remaining = Len(ids) - 1]
          BY <2>2, <3>4, <4>4, <1>1 DEF WorkerNext, Threads
        <5> HIDE DEF f
        <5>2. Sound(w, Wants(f, Last(ids)))
          BY <4>1, <4>2, Finding
        <5>3. Threads'
          BY <1>1, <5>1, <5>2, OneThread
        <5>4. Len(ids) - 1 \in 0 .. Len(Library)
          BY <1>2, <3>2, <4>1
        <5> HIDE DEF ids
        <5> QED
          BY <5>1, <5>3, <5>4 DEF WarmInv
      <4> QED
        BY <4>3, <4>4
    <3> QED
      BY <3>3, <3>4
  <2> QED
    BY <2>1, <2>2
<1>4. \A b \in LocalBooks : Own(b)'
  BY <1>1, OwnStays DEF WarmInv
<1> QED
  BY <1>1, <1>3, <1>4 DEF WarmInv

(* Turning the page of covers. *)
LEMMA FlipStep ==
  ASSUME WarmInv, (\E b \in Books : Flip(<<b>>)) \/ FlipNext
  PROVE  WarmInv'
<1>1. UNCHANGED <<png, tmp, raw, memo, shown, warm, net>> /\ UI \in Procs /\ UI \notin Workers /\ Threads
  BY WarmAssumption DEF Flip, FlipNext, files, Procs, WarmInv
<1>2. Threads'
  <2>1. ASSUME NEW b \in Books, Flip(<<b>>) PROVE Threads'
    <3>1. Sound(UI, [Idle EXCEPT !.at = "next", !.ids = <<b>>])
      <4>1. <<b>> \in Seq(Books)
        OBVIOUS
      <4> QED
        BY <1>1, <4>1, Starting
    <3> QED
      BY <1>1, <2>1, <3>1, OneThread DEF Flip
  <2>2. CASE FlipNext
    <3> DEFINE r == proc[UI]
               ids == r.ids
    <3>1. Sound(UI, r)
      BY <1>1 DEF Threads
    <3>2. ids \in Seq(Books)
      BY <3>1 DEF Sound, Thread
    <3>3. CASE ids = <<>>
      <4>1. proc' = [proc EXCEPT ![UI] = Idle]
        BY <2>2, <3>3 DEF FlipNext
      <4>2. Sound(UI, Idle)
        BY Resting
      <4> QED
        BY <1>1, <4>1, <4>2, OneThread
    <3>4. CASE ids # <<>>
      <4> DEFINE f == [r EXCEPT !.ids = Tail(ids)]
      <4>1. Tail(ids) \in Seq(Books) /\ Head(ids) \in Books
        BY <3>2, <3>4, FrontFacts
      <4>2. Sound(UI, f)
        <5> HIDE DEF r
        <5> QED
          BY <1>1, <3>1, <4>1 DEF Sound, Thread
      <4>3. proc' = [proc EXCEPT ![UI] = Wants(f, Head(ids))]
        BY <2>2, <3>4, <1>1 DEF FlipNext, Threads
      <4> HIDE DEF f
      <4>4. Sound(UI, Wants(f, Head(ids)))
        BY <4>1, <4>2, Finding
      <4> QED
        BY <1>1, <4>3, <4>4, OneThread
    <3> QED
      BY <3>3, <3>4
  <2> QED
    BY <2>1, <2>2
<1>3. \A b \in LocalBooks : Own(b)'
  BY <1>1, OwnStays DEF WarmInv
<1> QED
  BY <1>1, <1>2, <1>3 DEF WarmInv

---------------------------------------------------------------------------
(* A fetch: the placeholder goes no further than the answer.               *)
LEMMA FetchStep ==
  ASSUME WarmInv, NEW p \in Procs, Get(p) \/ Open(p) \/ Write(p) \/ Rename(p)
  PROVE  WarmInv'
<1> DEFINE r == proc[p]
           b == r.id
<1>1. UNCHANGED <<raw, memo, shown, warm, net>> /\ Threads /\ Sound(p, r)
  BY DEF Get, Open, Write, Rename, files, WarmInv, Threads
<1>2. b \in Books
  BY <1>1 DEF Get, Open, Write, Rename, At, Sound
<1>3. CASE Get(p)
  <2>1. PICK a \in IF net THEN Answers(b) ELSE {"error"} :
          proc' = [proc EXCEPT ![p] = IF Valid(a) THEN [r EXCEPT !.at = "open"] ELSE Onward(r)]
    BY <1>3, <1>1 DEF Get, Threads
  <2> DEFINE to == IF Valid(a) THEN [r EXCEPT !.at = "open"] ELSE Onward(r)
  <2>2. Sound(p, to)
    <3>1. CASE Valid(a)
      <4>1. a = "whole" /\ a # "error"
        BY <3>1 DEF Valid
      <4>2. b \notin LocalBooks
        BY <2>1, <4>1, ServerAssumption
      <4> HIDE DEF r
      <4>3. Sound(p, [r EXCEPT !.at = "open"])
        BY <1>1, <1>2, <4>2 DEF Sound, Thread
      <4> QED
        BY <3>1, <4>3
    <3>2. CASE ~ Valid(a)
      BY <1>1, <3>2, GoingOn
    <3> QED
      BY <3>1, <3>2
  <2> HIDE DEF to
  <2>3. proc' = [proc EXCEPT ![p] = to]
    BY <2>1 DEF to
  <2>4. Threads'
    BY <1>1, <2>2, <2>3, OneThread
  <2>5. UNCHANGED <<png, tmp>>
    BY <1>3 DEF Get, files
  <2>6. \A c \in LocalBooks : Own(c)'
    BY <1>1, <2>5, OwnStays DEF WarmInv
  <2> QED
    BY <1>1, <2>4, <2>5, <2>6 DEF WarmInv
<1>0. ASSUME Fails(p), UNCHANGED <<png, tmp>> PROVE WarmInv'
  <2>1. proc' = [proc EXCEPT ![p] = Onward(r)]
    BY <1>0, <1>1 DEF Fails, Threads
  <2>2. Threads'
    BY <1>1, <2>1, GoingOn, OneThread
  <2>3. \A c \in LocalBooks : Own(c)'
    BY <1>0, <1>1, OwnStays DEF WarmInv
  <2> QED
    BY <1>0, <1>1, <2>2, <2>3 DEF WarmInv
<1>4. CASE Open(p) /\ ~ (Fails(p) /\ UNCHANGED tmp)
  <2>1. b \notin LocalBooks
    BY <1>1, <1>4 DEF Open, At, Sound
  <2>2. proc' = [proc EXCEPT ![p] = [r EXCEPT !.at = "write", !.inode = "tmp"]]
    BY <1>1, <1>4 DEF Open, Threads
  <2>3. Sound(p, [r EXCEPT !.at = "write", !.inode = "tmp"])
    <3> HIDE DEF r
    <3> QED
      BY <1>1, <1>2, <2>1 DEF Sound, Thread
  <2>4. Threads'
    BY <1>1, <2>2, <2>3, OneThread
  <2>5. png' = png /\ tmp' = [tmp EXCEPT ![b] = "part"]
    BY <1>4 DEF Open
  <2>6. \A c \in LocalBooks : Own(c)'
    BY <1>1, <2>1, <2>5, WarmAssumption DEF WarmInv, Own
  <2>7. tmp' \in [Books -> {None, "part", "torn", "whole"}]
    BY <2>5 DEF WarmInv
  <2> QED
    BY <1>1, <2>4, <2>5, <2>6, <2>7 DEF WarmInv
<1>5. CASE Write(p)
  <2>1. b \notin LocalBooks
    BY <1>1, <1>5 DEF Write, At, Sound
  <2>2. PICK wrote \in {"whole", "torn"} :
          /\ tmp' = IF Lands(r, "tmp") THEN [tmp EXCEPT ![b] = wrote] ELSE tmp
          /\ png' = IF Lands(r, "png") THEN [png EXCEPT ![b] = wrote] ELSE png
          /\ IF wrote = "torn" THEN Fails(p) ELSE proc' = [proc EXCEPT ![p].at = "rename"]
    BY <1>5 DEF Write
  <2> DEFINE to == IF wrote = "torn" THEN Onward(r) ELSE [r EXCEPT !.at = "rename"]
  <2>3. Sound(p, to)
    <3>1. Sound(p, Onward(r))
      BY <1>1, GoingOn
    <3>2. Sound(p, [r EXCEPT !.at = "rename"])
      <4> HIDE DEF r
      <4> QED
        BY <1>1, <1>2, <2>1 DEF Sound, Thread
    <3> QED
      BY <3>1, <3>2
  <2>4. Threads'
    <3>1. proc' = [proc EXCEPT ![p] = to]
      BY <1>1, <2>2 DEF Fails, Threads
    <3> HIDE DEF to
    <3> QED
      BY <1>1, <2>3, <3>1, OneThread
  <2>5. /\ tmp' = tmp \/ tmp' = [tmp EXCEPT ![b] = "whole"] \/ tmp' = [tmp EXCEPT ![b] = "torn"]
        /\ png' = png \/ png' = [png EXCEPT ![b] = "whole"] \/ png' = [png EXCEPT ![b] = "torn"]
    BY <2>2
  <2>6. \A c \in LocalBooks : png'[c] = png[c] /\ tmp'[c] = tmp[c]
    BY <2>1, <2>5, WarmAssumption DEF WarmInv
  <2>7. \A c \in LocalBooks : Own(c)'
    BY <1>1, <2>6 DEF WarmInv, Own
  <2>8. tmp' \in [Books -> {None, "part", "torn", "whole"}] /\ png' \in [Books -> {None, "whole", "part", "torn", "tiny"}]
    BY <2>5 DEF WarmInv
  <2> QED
    BY <1>1, <2>4, <2>7, <2>8 DEF WarmInv
<1>6. CASE Rename(p) /\ ~ (Fails(p) /\ UNCHANGED <<png, tmp>>)
  <2>1. b \notin LocalBooks
    BY <1>1, <1>6 DEF Rename, At, Sound
  <2> DEFINE here == tmp[b] # None
             followed(q) == IF proc[q].id # b \/ ~ here THEN proc[q].inode
                            ELSE CASE proc[q].inode = "tmp" -> "png"
                                   [] proc[q].inode = "png" -> "gone"
                                   [] OTHER -> proc[q].inode
  <2>2. proc' = [q \in Procs |-> IF q = p THEN Onward(r)
                                 ELSE [proc[q] EXCEPT !.inode = followed(q)]]
    BY <1>6 DEF Rename
  <2>3. ASSUME NEW q \in Procs PROVE Sound(q, proc'[q])
    <3>1. CASE q = p
      BY <1>1, <2>2, <3>1, GoingOn
    <3>2. CASE q # p
      <4> DEFINE x == proc[q]
                 i == followed(q)
      <4>1. Sound(q, x)
        BY <1>1 DEF Threads
      <4>2. i \in {None, "tmp", "png", "gone"}
        BY <4>1 DEF Sound, Thread
      <4>3. proc'[q] = [x EXCEPT !.inode = i]
        BY <2>2, <3>2
      <4> HIDE DEF x, i
      <4> QED
        BY <4>1, <4>2, <4>3 DEF Sound, Thread
    <3> QED
      BY <3>1, <3>2
  <2>4. Threads'
    <3>1. proc' = [q \in Procs |-> proc'[q]]
      BY <2>2
    <3> QED
      BY <2>3, <3>1 DEF Threads, Sound
  <2>5. /\ tmp' = [tmp EXCEPT ![b] = None]
        /\ png' = IF here THEN [png EXCEPT ![b] = tmp[b]] ELSE png
    BY <1>6 DEF Rename
  <2>6. \A c \in LocalBooks : png'[c] = png[c] /\ tmp'[c] = tmp[c]
    BY <2>1, <2>5, WarmAssumption DEF WarmInv
  <2>7. \A c \in LocalBooks : Own(c)'
    BY <1>1, <2>6 DEF WarmInv, Own
  <2>8. tmp' \in [Books -> {None, "part", "torn", "whole"}] /\ png' \in [Books -> {None, "whole", "part", "torn", "tiny"}]
    BY <1>2, <2>5 DEF WarmInv
  <2> QED
    BY <1>1, <2>4, <2>7, <2>8 DEF WarmInv
<1>7. CASE Open(p) /\ Fails(p) /\ UNCHANGED tmp
  BY <1>0, <1>7 DEF Open
<1>8. CASE Rename(p) /\ Fails(p) /\ UNCHANGED <<png, tmp>>
  BY <1>0, <1>8
<1> QED
  BY <1>3, <1>4, <1>5, <1>6, <1>7, <1>8

---------------------------------------------------------------------------
(* The tiles.                                                              *)

(* A tile is drawn of art, or blank: for a local book as its file is.      *)
LEMMA DrawnRight ==
  ASSUME WarmInv, NEW b \in Books, NEW real \in BOOLEAN, Drew(b, real),
         b \in LocalBooks => (real <=> HasArt(b))
  PROVE  /\ memo' \in Seq(Books) /\ Len(memo)' <= CacheCap
         /\ shown' \in [LocalBooks -> {None, "art", "blank"}]
         /\ \A c \in LocalBooks :
              /\ Contains(memo, c)' => HasArt(c)
              /\ shown'[c] # None => (shown'[c] = "art" <=> HasArt(c))
<1>1. memo' = memo \/ (real /\ memo' = Memoised(b))
  BY DEF Drew
<1>2. /\ memo' \in Seq(Books) /\ Len(memo)' <= CacheCap
      /\ \A c : Contains(memo, c)' => (real /\ c = b) \/ Contains(memo, c)
  <2>1. CASE memo' = memo
    BY <2>1 DEF WarmInv, Contains
  <2>2. CASE real /\ memo' = Memoised(b)
    <3>1. /\ Memoised(b) \in Seq(Books) /\ Len(Memoised(b)) <= CacheCap
          /\ \A c : Contains(Memoised(b), c) => c = b \/ Contains(memo, c)
      BY MemoFacts DEF WarmInv
    <3> QED
      BY <2>2, <3>1 DEF Contains
  <2> QED
    BY <1>1, <2>1, <2>2
<1>3. shown' = [c \in LocalBooks |-> IF c # b THEN shown[c] ELSE IF real THEN "art" ELSE "blank"]
  BY DEF Drew
<1>4. shown' \in [LocalBooks -> {None, "art", "blank"}]
  BY <1>3 DEF WarmInv
<1>5. ASSUME NEW c \in LocalBooks
      PROVE  /\ Contains(memo, c)' => HasArt(c)
             /\ shown'[c] # None => (shown'[c] = "art" <=> HasArt(c))
  <2>1. Own(c) /\ c \in Books
    BY WarmAssumption DEF WarmInv
  <2>2. Contains(memo, c)' => HasArt(c)
    BY <1>2, <2>1 DEF Own
  <2>3. shown'[c] # None => (shown'[c] = "art" <=> HasArt(c))
    <3>1. CASE c = b
      BY <1>3, <2>1, <3>1 DEF WarmInv
    <3>2. CASE c # b
      BY <1>3, <2>1, <3>2 DEF WarmInv, Own
    <3> QED
      BY <3>1, <3>2
  <2> QED
    BY <2>2, <2>3
<1> QED
  BY <1>2, <1>4, <1>5

(* local_cover_art extracts what the file has.                             *)
LEMMA LocalArtRight ==
  ASSUME WarmInv, NEW b \in Books, LocalArt(b)
  PROVE  /\ memo' \in Seq(Books) /\ Len(memo)' <= CacheCap
         /\ shown' \in [LocalBooks -> {None, "art", "blank"}]
         /\ raw' \in [Books -> {None, "whole", "empty"}]
         /\ \A c \in LocalBooks :
              /\ raw'[c] = "whole" => HasArt(c)
              /\ raw'[c] = "empty" => ~ HasArt(c)
              /\ Contains(memo, c)' => HasArt(c)
              /\ shown'[c] # None => (shown'[c] = "art" <=> HasArt(c))
<1>1. CASE b \notin LocalBooks
  <2>1. Drew(b, FALSE) /\ raw' = raw
    BY <1>1 DEF LocalArt
  <2> DEFINE real == FALSE
  <2>2. real \in BOOLEAN /\ Drew(b, real)
    BY <2>1
  <2> HIDE DEF real
  <2>3. /\ memo' \in Seq(Books) /\ Len(memo)' <= CacheCap
        /\ shown' \in [LocalBooks -> {None, "art", "blank"}]
        /\ \A c \in LocalBooks :
             /\ Contains(memo, c)' => HasArt(c)
             /\ shown'[c] # None => (shown'[c] = "art" <=> HasArt(c))
    BY <1>1, <2>2, DrawnRight
  <2> QED
    BY <2>1, <2>3 DEF WarmInv, Own
<1>2. CASE b \in LocalBooks
  <2> DEFINE real == raw'[b] = "whole"
             value == IF raw[b] # None THEN raw[b] ELSE IF HasArt(b) THEN "whole" ELSE "empty"
  <2>1. raw' = [raw EXCEPT ![b] = value]
    BY <1>2 DEF LocalArt, WarmInv
  <2>2. value \in {"whole", "empty"} /\ (value = "whole" <=> HasArt(b))
    BY <1>2, WarmAssumption DEF WarmInv, Own
  <2> HIDE DEF value
  <2>3. raw' \in [Books -> {None, "whole", "empty"}] /\ raw'[b] = value
    BY <2>1, <2>2 DEF WarmInv
  <2>4. \A c \in LocalBooks : /\ raw'[c] = "whole" => HasArt(c)
                              /\ raw'[c] = "empty" => ~ HasArt(c)
    BY <2>1, <2>2, <2>3, WarmAssumption DEF WarmInv, Own
  <2>5. real \in BOOLEAN /\ (real <=> HasArt(b))
    BY <2>2, <2>3
  <2>6. Drew(b, real)
    BY <1>2 DEF LocalArt
  <2> HIDE DEF real
  <2>7. /\ memo' \in Seq(Books) /\ Len(memo)' <= CacheCap
        /\ shown' \in [LocalBooks -> {None, "art", "blank"}]
        /\ \A c \in LocalBooks :
             /\ Contains(memo, c)' => HasArt(c)
             /\ shown'[c] # None => (shown'[c] = "art" <=> HasArt(c))
    BY <2>5, <2>6, DrawnRight
  <2> QED
    BY <2>3, <2>4, <2>7
<1> QED
  BY <1>1, <1>2

(* Showing a cover that has been loaded. *)
LEMMA ShowStep ==
  ASSUME WarmInv, NEW b \in Books, Show(b)
  PROVE  WarmInv'
<1>1. UNCHANGED <<png, tmp, warm, net>> /\ Threads /\ UI \in Procs /\ UI \notin Workers
  BY WarmAssumption DEF Show, WarmInv, Procs
<1>2. CASE Contains(memo, b)
  <2> DEFINE real == TRUE
  <2>1. UNCHANGED <<proc, raw>> /\ Drew(b, real) /\ real \in BOOLEAN
    BY <1>2 DEF Show
  <2>2. b \in LocalBooks => (real <=> HasArt(b))
    BY <1>2, WarmAssumption DEF WarmInv, Own
  <2> HIDE DEF real
  <2>3. /\ memo' \in Seq(Books) /\ Len(memo)' <= CacheCap
        /\ shown' \in [LocalBooks -> {None, "art", "blank"}]
        /\ \A c \in LocalBooks :
             /\ Contains(memo, c)' => HasArt(c)
             /\ shown'[c] # None => (shown'[c] = "art" <=> HasArt(c))
    BY <2>1, <2>2, DrawnRight
  <2> QED
    BY <1>1, <2>1, <2>3 DEF WarmInv, Own, Threads, Sound
<1>3. CASE ~ Contains(memo, b) /\ Poisoned(b)
  <2>1. /\ UNCHANGED <<raw, memo, shown>>
        /\ proc' = [proc EXCEPT ![UI] = [Idle EXCEPT !.at = "unlink", !.id = b]]
    BY <1>3 DEF Show
  <2>2. Sound(UI, [Idle EXCEPT !.at = "unlink", !.id = b])
    BY Unlinking
  <2>3. Threads'
    BY <1>1, <2>1, <2>2, OneThread
  <2>4. \A c \in LocalBooks : Own(c)'
    BY <1>1, <2>1, OwnStays DEF WarmInv
  <2> QED
    BY <1>1, <2>1, <2>3, <2>4 DEF WarmInv
<1>4. CASE ~ Contains(memo, b) /\ ~ Poisoned(b) /\ png[b] # None
  <2> DEFINE real == png[b] = "whole"
  <2>1. UNCHANGED <<proc, raw>> /\ Drew(b, real) /\ real \in BOOLEAN
    BY <1>4 DEF Show
  <2>2. b \notin LocalBooks
    BY <1>4 DEF WarmInv, Own, Poisoned
  <2> HIDE DEF real
  <2>3. /\ memo' \in Seq(Books) /\ Len(memo)' <= CacheCap
        /\ shown' \in [LocalBooks -> {None, "art", "blank"}]
        /\ \A c \in LocalBooks :
             /\ Contains(memo, c)' => HasArt(c)
             /\ shown'[c] # None => (shown'[c] = "art" <=> HasArt(c))
    BY <2>1, <2>2, DrawnRight
  <2> QED
    BY <1>1, <2>1, <2>3 DEF WarmInv, Own, Threads, Sound
<1>5. CASE ~ Contains(memo, b) /\ ~ Poisoned(b) /\ png[b] = None
  <2>1. LocalArt(b) /\ proc' = proc
    BY <1>5 DEF Show
  <2>2. /\ memo' \in Seq(Books) /\ Len(memo)' <= CacheCap
        /\ shown' \in [LocalBooks -> {None, "art", "blank"}]
        /\ raw' \in [Books -> {None, "whole", "empty"}]
        /\ \A c \in LocalBooks :
             /\ raw'[c] = "whole" => HasArt(c)
             /\ raw'[c] = "empty" => ~ HasArt(c)
             /\ Contains(memo, c)' => HasArt(c)
             /\ shown'[c] # None => (shown'[c] = "art" <=> HasArt(c))
    BY <2>1, LocalArtRight
  <2> QED
    BY <1>1, <2>1, <2>2 DEF WarmInv, Own, Threads, Sound
<1> QED
  BY <1>2, <1>3, <1>4, <1>5

(* Unlinking a cover on the device. *)
LEMMA UnlinkStep ==
  ASSUME WarmInv, Unlink
  PROVE  WarmInv'
<1> DEFINE b == proc[UI].id
<1>1. UNCHANGED <<tmp, warm, net>> /\ Threads /\ UI \in Procs /\ UI \notin Workers
  BY WarmAssumption DEF Unlink, WarmInv, Procs
<1>2. b \in Books /\ LocalArt(b) /\ png' = [png EXCEPT ![b] = None]
  BY <1>1 DEF Unlink, Threads, Sound, At
<1>3. proc' = [q \in Procs |->
                IF q = UI THEN Idle
                ELSE IF proc[q].id = b /\ proc[q].inode = "png" THEN [proc[q] EXCEPT !.inode = "gone"]
                ELSE proc[q]]
  BY DEF Unlink
<1>4. ASSUME NEW q \in Procs PROVE Sound(q, proc'[q])
  <2> DEFINE x == proc[q]
  <2>1. Sound(q, x) /\ Sound(UI, Idle)
    BY <1>1, Resting DEF Threads
  <2>2. \/ q = UI /\ proc'[q] = Idle
        \/ proc'[q] = x
        \/ proc'[q] = [x EXCEPT !.inode = "gone"]
    BY <1>3
  <2> HIDE DEF x
  <2>3. Sound(q, [x EXCEPT !.inode = "gone"])
    BY <2>1 DEF Sound, Thread
  <2> QED
    BY <2>1, <2>2, <2>3
<1>5. Threads'
  <2>1. proc' = [q \in Procs |-> proc'[q]]
    BY <1>3
  <2> QED
    BY <1>4, <2>1 DEF Threads, Sound
<1> HIDE DEF b
<1>6. /\ memo' \in Seq(Books) /\ Len(memo)' <= CacheCap
      /\ shown' \in [LocalBooks -> {None, "art", "blank"}]
      /\ raw' \in [Books -> {None, "whole", "empty"}]
      /\ \A c \in LocalBooks :
           /\ raw'[c] = "whole" => HasArt(c)
           /\ raw'[c] = "empty" => ~ HasArt(c)
           /\ Contains(memo, c)' => HasArt(c)
           /\ shown'[c] # None => (shown'[c] = "art" <=> HasArt(c))
  BY <1>2, LocalArtRight
<1>7. png' \in [Books -> {None, "whole", "part", "torn", "tiny"}]
  BY <1>2 DEF WarmInv
<1>8. \A c \in LocalBooks : png'[c] \in {None, "tiny"} /\ tmp'[c] = None
  BY <1>1, <1>2, WarmAssumption DEF WarmInv, Own
<1> QED
  BY <1>1, <1>5, <1>6, <1>7, <1>8 DEF WarmInv, Own

---------------------------------------------------------------------------
(* The inductive invariant of the covers: a cover of a local book is decided by *)
(* its own art and by nothing that a server or another worker left (covers.rs). *)
THEOREM WarmInvariant == Spec => []WarmInv
<1>1. Init => WarmInv
  <2> SUFFICES ASSUME Init PROVE WarmInv
    OBVIOUS
  <2>1. PICK r \in [Books -> {None, "empty"}], current \in BOOLEAN :
          /\ \A b \in Books : r[b] = "empty" => b \in LocalBooks /\ (current => ~ HasArt(b))
          /\ raw = Validated(r, current)
    BY DEF Init
  <2>2. /\ raw \in [Books -> {None, "whole", "empty"}]
        /\ \A b \in Books : raw[b] # "whole" /\ (raw[b] = "empty" => ~ HasArt(b))
    BY <2>1, WarmAssumption DEF Validated
  <2>3. Threads
    BY WarmAssumption DEF Init, Threads, Sound, Thread, Idle, Procs
  <2>4. \A b : ~ Contains(memo, b)
    BY DEF Init, Contains
  <2>5. Len(Library) \in Nat /\ memo \in Seq(Books) /\ Len(memo) <= CacheCap
    BY WarmAssumption DEF Init
  <2>6. png \in [Books -> {None, "tiny", "torn"}] /\ tmp = [b \in Books |-> None]
        /\ shown = [b \in LocalBooks |-> None]
        /\ net \in BOOLEAN
    BY DEF Init
  <2>7. ASSUME NEW b \in LocalBooks PROVE Own(b)
    <3>1. b \in Books
      BY WarmAssumption
    <3>2. png[b] \in {None, "tiny"} /\ tmp[b] = None /\ shown[b] = None /\ ~ Contains(memo, b)
      BY <2>4, <2>6, <3>1 DEF Init
    <3> QED
      BY <2>2, <3>1, <3>2 DEF Own
  <2>8. warm \in [total : Nat, remaining : 0 .. Len(Library), online : BOOLEAN]
    <3>1. 0 \in 0 .. Len(Library) /\ warm = [total |-> 0, remaining |-> 0, online |-> TRUE]
      BY <2>5 DEF Init
    <3> QED
      BY <3>1
  <2> QED
    BY <2>2, <2>3, <2>5, <2>6, <2>7, <2>8 DEF WarmInv
<1>2. WarmInv /\ [Next]_vars => WarmInv'
  <2> SUFFICES ASSUME WarmInv, [Next]_vars PROVE WarmInv'
    OBVIOUS
  <2>1. ASSUME NEW w \in Workers, StartPass(w) \/ WorkerNext(w) PROVE WarmInv'
    BY <2>1, WorkerStep
  <2>2. CASE (\E b \in Books : Flip(<<b>>)) \/ FlipNext
    BY <2>2, FlipStep
  <2>3. ASSUME NEW p \in Procs, Get(p) \/ Open(p) \/ Write(p) \/ Rename(p) PROVE WarmInv'
    BY <2>3, FetchStep
  <2>4. ASSUME NEW b \in Books, Show(b) PROVE WarmInv'
    BY <2>4, ShowStep
  <2>5. CASE Unlink
    BY <2>5, UnlinkStep
  <2>6. CASE Tick \/ Network \/ UNCHANGED vars
    <3>1. UNCHANGED <<png, tmp, raw, proc, memo, shown>>
      BY <2>6 DEF Tick, Network, vars, files
    <3>3. net' \in BOOLEAN
      BY <2>6 DEF Tick, Network, vars, WarmInv
    <3>2. warm' \in [total : Nat, remaining : 0 .. Len(Library), online : BOOLEAN]
      <4>1. warm' = warm \/ warm' = [warm EXCEPT !.online = net]
        BY <2>6 DEF Tick, Network, vars
      <4> QED
        BY <4>1 DEF WarmInv
    <3> QED
      BY <3>1, <3>2, <3>3, OwnStays DEF WarmInv, Threads, Sound
  <2> QED
    BY <2>1, <2>2, <2>3, <2>4, <2>5, <2>6 DEF Next
<1> QED
  BY <1>1, <1>2, PTL DEF Spec

(* A local book with art in its file shows it, and one without shows none, *)
(* whatever was fetched for its id and whatever an older build cached      *)
(* (validate_cover_bytes, load_valid_rgb, local_cover_art).                *)
THEOREM LocalBooksShowTheirArt == Spec => []LocalArtShows
<1>1. WarmInv => LocalArtShows
  BY DEF WarmInv, LocalArtShows, TypeOK, Threads, Sound, Thread, Own
<1> QED
  BY <1>1, WarmInvariant, PTL
=============================================================================
