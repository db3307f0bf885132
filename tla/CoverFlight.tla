---------------------------- MODULE CoverFlight ----------------------------
(***************************************************************************)
(* The covers of the server: request and warm-up threads over a cache on   *)
(* disk, a memory of missing covers and one slot per book in flight        *)
(* (api/api/server.py, api/storage/cover_cache.py, cover_proc.py).         *)
(*                                                                         *)
(* Every look at the cache, at the memory of missing covers and at the     *)
(* table of slots is a step of its own: a thread acts on what it saw       *)
(* earlier.                                                                *)
(***************************************************************************)
EXTENDS Naturals, SequencesExt

CONSTANTS
  Book,
  Client,       \* threads that answer one device each
  Warmer,       \* workers of the warm-up pool
  Version,      \* covers that can be decoded
  MissingMax,   \* _MISSING_MAX
  MaxEdits,     \* bound on changes upstream
  MaxFaults,    \* bound on transport errors, failed writes and restarts
  None

ASSUME CoverAssumption ==
  /\ Client \cap Warmer = {}
  /\ None \notin Client \cup Warmer \cup Version
  /\ {"placeholder", "absent", "garbage"} \cap Version = {}
  /\ MissingMax \in Nat \ {0}
  /\ MaxEdits \in Nat
  /\ MaxFaults \in Nat

Thread == Client \cup Warmer
Body   == Version \cup {"placeholder"}

VARIABLES
  upstream,   \* what the provider has for a book
  disk,       \* the processed cover in the cache, or None
  fresh,      \* the books whose file is younger than max_age
  missing,    \* the negative cache, oldest first
  stale,      \* the books whose entry there has outlived its time
  inflight,   \* app.inflight: the thread that owns the slot of a book
  pc, book,
  raw,        \* what the provider gave to an owner
  waits,      \* whose slot a thread waits for
  confirmed,  \* history: the books the provider has said to have no cover
  edits, faults

cache   == <<disk, fresh, missing, stale>>
threads == <<pc, book, raw, waits>>
bounds  == <<edits, faults>>
vars    == <<upstream, cache, inflight, threads, confirmed, bounds>>

Owning == {"fetch", "mark", "store", "pop"}
States == {"idle", "look", "missing", "again", "slot", "wait", "reread", "set"} \cup Owning

(* Every variable keeps its type; the negative cache keeps its bound and   *)
(* holds a book once.                                                      *)
TypeOK ==
  /\ upstream \in [Book -> Body \cup {"absent", "garbage"}]
  /\ disk \in [Book -> Version \cup {None}]
  /\ fresh \subseteq Book
  /\ missing \in Seq(Book)
  /\ Len(missing) <= MissingMax
  /\ \A i, j \in 1 .. Len(missing) : missing[i] = missing[j] => i = j
  /\ stale \subseteq Book
  /\ inflight \in [Book -> Thread \cup {None}]
  /\ pc \in [Thread -> States]
  /\ book \in [Thread -> Book \cup {None}]
  /\ raw \in [Thread -> Body \cup {"garbage", None}]
  /\ waits \in [Thread -> Thread \cup {None}]
  /\ confirmed \subseteq Book
  /\ edits \in 0 .. MaxEdits
  /\ faults \in 0 .. MaxFaults

Init ==
  /\ upstream \in [Book -> Body \cup {"absent", "garbage"}]
  /\ disk = [b \in Book |-> None]
  /\ fresh = {}
  /\ missing = <<>>
  /\ stale = {}
  /\ inflight = [b \in Book |-> None]
  /\ pc = [t \in Thread |-> "idle"]
  /\ book = [t \in Thread |-> None]
  /\ raw = [t \in Thread |-> None]
  /\ waits = [t \in Thread |-> None]
  /\ confirmed = {}
  /\ edits = 0
  /\ faults = 0

---------------------------------------------------------------------------
(* The cache.                                                              *)
Cached(b) == disk[b] # None /\ b \in fresh

Known(b) == \E i \in 1 .. Len(missing) : missing[i] = b

Others(b) ==
  IF Known(b) THEN RemoveAt(missing, CHOOSE i \in 1 .. Len(missing) : missing[i] = b)
              ELSE missing

(* is_missing: a stale entry is dropped, a live one moves to the end.      *)
AskMissing(b) ==
  /\ missing' = IF ~Known(b) THEN missing
                ELSE IF b \in stale THEN Others(b)
                ELSE Append(Others(b), b)
  /\ UNCHANGED <<disk, fresh, stale>>

(* mark_missing: at the end, and the oldest entry goes when it is full.    *)
MarkMissing(b) ==
  LET marked == Append(Others(b), b)
  IN  missing' = IF Len(marked) > MissingMax THEN Tail(marked) ELSE marked

---------------------------------------------------------------------------
Goes(t, state) == pc' = [pc EXCEPT ![t] = state]

(* The answer leaves and the thread ends.                                  *)
Answer(t) ==
  /\ Goes(t, "idle")
  /\ book' = [book EXCEPT ![t] = None]
  /\ raw' = [raw EXCEPT ![t] = None]
  /\ waits' = [waits EXCEPT ![t] = None]

(* A request that is not conditional, or a book of the warm-up's catalogue.*)
Ask(t, b) ==
  /\ pc[t] = "idle"
  /\ Goes(t, "look")
  /\ book' = [book EXCEPT ![t] = b]
  /\ UNCHANGED <<upstream, cache, inflight, raw, waits, confirmed, bounds>>

Look(t) ==
  LET b == book[t]
  IN  /\ pc[t] = "look"
      /\ IF Cached(b)
           THEN Answer(t)
           ELSE Goes(t, "missing") /\ UNCHANGED <<book, raw, waits>>
      /\ UNCHANGED <<upstream, cache, inflight, confirmed, bounds>>

(* Mutant of LookMissing: an entry never grows old.                        *)
MutantLookMissing(t) ==
  LET b == book[t]
  IN  /\ pc[t] = "missing"
      /\ IF Known(b)
           THEN Answer(t)
           ELSE Goes(t, "again") /\ UNCHANGED <<book, raw, waits>>
      /\ UNCHANGED <<upstream, cache, inflight, confirmed, bounds>>

(* Known to have no cover: the placeholder, without asking the provider.   *)
LookMissing(t) ==
  LET b == book[t]
  IN  /\ pc[t] = "missing"
      /\ AskMissing(b)
      /\ IF Known(b) /\ b \notin stale
           THEN Answer(t)
           ELSE Goes(t, "again") /\ UNCHANGED <<book, raw, waits>>
      /\ UNCHANGED <<upstream, inflight, confirmed, bounds>>

LookAgain(t) ==
  LET b == book[t]
  IN  /\ pc[t] = "again"
      /\ IF Cached(b)
           THEN Answer(t)
           ELSE Goes(t, "slot") /\ UNCHANGED <<book, raw, waits>>
      /\ UNCHANGED <<upstream, cache, inflight, confirmed, bounds>>

(* Mutant of TakeSlot: whoever comes owns the slot.                        *)
MutantTakeSlot(t) ==
  LET b == book[t]
  IN  /\ pc[t] = "slot"
      /\ inflight' = [inflight EXCEPT ![b] = t]
      /\ Goes(t, "fetch")
      /\ UNCHANGED waits
      /\ UNCHANGED <<upstream, cache, book, raw, confirmed, bounds>>

(* One section under inflight_lock: the slot is made and claimed, or it is *)
(* somebody else's.                                                        *)
TakeSlot(t) ==
  LET b == book[t]
  IN  /\ pc[t] = "slot"
      /\ IF inflight[b] = None
           THEN /\ inflight' = [inflight EXCEPT ![b] = t]
                /\ Goes(t, "fetch")
                /\ UNCHANGED waits
           ELSE /\ waits' = [waits EXCEPT ![t] = inflight[b]]
                /\ Goes(t, "wait")
                /\ UNCHANGED inflight
      /\ UNCHANGED <<upstream, cache, book, raw, confirmed, bounds>>

(* Mutant of WaitTimesOut: the wait has no bound.                          *)
MutantWaitTimesOut(t) ==
  /\ FALSE
  /\ UNCHANGED vars

(* The wait is bounded.                                                    *)
WaitTimesOut(t) ==
  /\ pc[t] = "wait"
  /\ Goes(t, "reread")
  /\ waits' = [waits EXCEPT ![t] = None]
  /\ UNCHANGED <<upstream, cache, inflight, book, raw, confirmed, bounds>>

Reread(t) ==
  /\ pc[t] = "reread"
  /\ Answer(t)
  /\ UNCHANGED <<upstream, cache, inflight, confirmed, bounds>>

(* The provider answers: with bytes, or that there is no cover.            *)
Fetch(t) ==
  LET there == upstream[book[t]]
  IN  /\ pc[t] = "fetch"
      /\ IF there = "absent"
           THEN /\ Goes(t, "mark")
                /\ confirmed' = confirmed \cup {book[t]}
                /\ UNCHANGED raw
           ELSE /\ Goes(t, "store")
                /\ raw' = [raw EXCEPT ![t] = there]
                /\ UNCHANGED confirmed
      /\ UNCHANGED <<upstream, cache, inflight, book, waits, bounds>>

(* Mutant of FetchFails: an error is taken for an absence.                 *)
MutantFetchFails(t) ==
  /\ pc[t] = "fetch"
  /\ faults < MaxFaults
  /\ faults' = faults + 1
  /\ Goes(t, "mark")
  /\ UNCHANGED <<upstream, cache, inflight, book, raw, waits, confirmed, edits>>

(* A transport error, or any exception of the provider.                    *)
FetchFails(t) ==
  /\ pc[t] = "fetch"
  /\ faults < MaxFaults
  /\ faults' = faults + 1
  /\ Goes(t, "pop")
  /\ UNCHANGED <<upstream, cache, inflight, book, raw, waits, confirmed, edits>>

Mark(t) ==
  /\ pc[t] = "mark"
  /\ MarkMissing(book[t])
  /\ stale' = stale \ {book[t]}
  /\ Goes(t, "pop")
  /\ UNCHANGED <<upstream, disk, fresh, inflight, book, raw, waits, confirmed, bounds>>

(* process_and_store: the placeholder is passed on and not stored, what    *)
(* cannot be decoded is no cover and is not remembered.  The file replaces *)
(* the old one at once, or the write fails and the bytes are answered all  *)
(* the same.                                                               *)
Store(t) ==
  LET b == book[t]
  IN  /\ pc[t] = "store"
      /\ Goes(t, "pop")
      /\ raw' = [raw EXCEPT ![t] = None]
      /\ \/ /\ raw[t] \in Version
            /\ disk' = [disk EXCEPT ![b] = raw[t]]
            /\ fresh' = fresh \cup {b}
            /\ UNCHANGED faults
         \/ /\ raw[t] \notin Version
            /\ UNCHANGED <<disk, fresh, faults>>
         \/ /\ raw[t] \in Version
            /\ faults < MaxFaults
            /\ faults' = faults + 1
            /\ UNCHANGED <<disk, fresh>>
      /\ UNCHANGED <<upstream, missing, stale, inflight, book, waits, confirmed, edits>>

(* The finally of the owner: the slot leaves the table, then, outside the  *)
(* lock, its event is set.                                                 *)
PopSlot(t) ==
  /\ pc[t] = "pop"
  /\ inflight' = [inflight EXCEPT ![book[t]] = None]
  /\ Goes(t, "set")
  /\ UNCHANGED <<upstream, cache, book, raw, waits, confirmed, bounds>>

(* Mutant of SetEvent: the waiters are forgotten.                          *)
MutantSetEvent(t) ==
  /\ pc[t] = "set"
  /\ Answer(t)
  /\ UNCHANGED <<upstream, cache, inflight, confirmed, bounds>>

SetEvent(t) ==
  LET woken == {u \in Thread : waits[u] = t}
  IN  /\ pc[t] = "set"
      /\ pc' = [u \in Thread |-> IF u = t THEN "idle"
                                 ELSE IF u \in woken THEN "reread" ELSE pc[u]]
      /\ waits' = [u \in Thread |-> IF u \in woken THEN None ELSE waits[u]]
      /\ book' = [book EXCEPT ![t] = None]
      /\ raw' = [raw EXCEPT ![t] = None]
      /\ UNCHANGED <<upstream, cache, inflight, confirmed, bounds>>

---------------------------------------------------------------------------
(* The cover of a book changes upstream.                                   *)
Edit(b, there) ==
  /\ edits < MaxEdits
  /\ edits' = edits + 1
  /\ upstream[b] # there
  /\ upstream' = [upstream EXCEPT ![b] = there]
  /\ UNCHANGED <<cache, inflight, threads, confirmed, faults>>

(* A file outlives max_age; a missing mark outlives _MISSING_TTL.          *)
FileAges(b) ==
  /\ b \in fresh
  /\ fresh' = fresh \ {b}
  /\ UNCHANGED <<upstream, disk, missing, stale, inflight, threads, confirmed, bounds>>

MarkAges(b) ==
  /\ Known(b)
  /\ b \notin stale
  /\ stale' = stale \cup {b}
  /\ UNCHANGED <<upstream, disk, fresh, missing, inflight, threads, confirmed, bounds>>

(* The server starts again: the files are what is left.                    *)
Restart ==
  /\ faults < MaxFaults
  /\ faults' = faults + 1
  /\ missing' = <<>>
  /\ stale' = {}
  /\ inflight' = [b \in Book |-> None]
  /\ pc' = [t \in Thread |-> "idle"]
  /\ book' = [t \in Thread |-> None]
  /\ raw' = [t \in Thread |-> None]
  /\ waits' = [t \in Thread |-> None]
  /\ UNCHANGED <<upstream, disk, fresh, confirmed, edits>>

(* What a thread does without the provider.                                *)
Step(t) ==
  \/ Look(t) \/ LookMissing(t) \/ LookAgain(t)
  \/ TakeSlot(t) \/ WaitTimesOut(t) \/ Reread(t)
  \/ Mark(t) \/ Store(t) \/ PopSlot(t) \/ SetEvent(t)

Next ==
  \/ \E t \in Thread :
        \/ \E b \in Book : Ask(t, b)
        \/ Step(t)
        \/ Fetch(t)
        \/ FetchFails(t)
  \/ \E b \in Book :
        \/ \E there \in Body \cup {"absent", "garbage"} : Edit(b, there)
        \/ FileAges(b)
        \/ MarkAges(b)
  \/ Restart

Spec == Init /\ [][Next]_vars

(* Threads run, and the provider may hang for ever.                        *)
StepFairness == \A t \in Thread : WF_vars(Step(t))
HangSpec == Spec /\ StepFairness

---------------------------------------------------------------------------
(* One thread per book downloads and decodes at a time, and the table of   *)
(* slots names exactly those threads: no slot outlives its owner, however  *)
(* the provider fails ("Single-flights per book id").                      *)
OneOwner ==
  /\ \A t, u \in Thread :
       pc[t] \in Owning /\ pc[u] \in Owning /\ book[t] = book[u] => t = u
  /\ \A b \in Book, t \in Thread :
       inflight[b] = t <=> pc[t] \in Owning /\ book[t] = b

(* Nobody waits for a slot whose owner is gone: whoever found the slot in  *)
(* the table, also in the moment between its removal and its event, waits  *)
(* for an owner of the same book that has yet to set the event.            *)
NoOrphanWait ==
  \A t, u \in Thread :
    waits[t] = u => pc[u] \in Owning \cup {"set"} /\ book[u] = book[t]

(* "A blip must not placeholder the book for an hour": only the provider's *)
(* word that there is no cover enters the negative cache.                  *)
MissingMeansAbsent == \A b \in Book : Known(b) => b \in confirmed

(* A request is answered although the provider hangs, unless it is the one *)
(* that asks the provider: waiting for a slot is bounded.                  *)
EveryRequestAnswered ==
  \A t \in Thread : pc[t] # "idle" ~> pc[t] \in {"idle", "fetch"}

(* A book that has a cover for good gets it into the cache again and again,*)
(* however often the file expires and whatever marked it as missing before,*)
(* if it is asked for again and again, requests to the provider end, and   *)
(* time passes for its missing mark.                                       *)
CoversComeBack ==
  \A b \in Book :
    /\ <>[](upstream[b] \in Version)
    /\ \E t \in Thread : []<>(pc[t] = "look" /\ book[t] = b)
    /\ \A t \in Thread : []<>(pc[t] # "fetch")
    /\ []<>(Known(b) => b \in stale)
    => []<>Cached(b)
=============================================================================
