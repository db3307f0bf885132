----------------------------- MODULE Downloads -----------------------------
(***************************************************************************)
(* Book downloads of the device (eh_app/src/downloads.rs): the interface   *)
(* thread queues jobs, a single worker fetches them and lands each file    *)
(* under its final name, and the interface thread drains the results into  *)
(* the store and tops up a download-all batch.  A cancel voids what has    *)
(* been issued by moving the epoch up to the newest generation.            *)
(*                                                                         *)
(* Both channels are first in, first out.  The worker handles one job at a *)
(* time and generations only grow, so they are sets here, read at the      *)
(* smallest generation.                                                    *)
(***************************************************************************)
EXTENDS Integers, FiniteSets

CONSTANTS
  Book,      \* books with a file on the server, each with a path of its own
  Window,    \* DL_BATCH_WINDOW
  Keys,      \* devices checked: with a back or page key that closes the
             \* topmost sheet (TRUE), without (FALSE)
  MaxGen,    \* bound: jobs issued between two boots
  None       \* no book / no job

ASSUME DownloadsAssumption ==
  /\ IsFiniteSet(Book)
  /\ Window \in Nat \ {0}
  /\ Keys \subseteq BOOLEAN
  /\ MaxGen \in Nat
  /\ None \notin Book
  /\ None \notin [id : Book, gen : Nat]

VARIABLES
  \* Downloader and the interface thread
  pending,   \* jobs queued or in flight, as the interface counts them
  live,      \* generation of a book's unsettled entry, 0 for none
  gen,       \* newest generation issued
  epoch,     \* cancel generation: jobs up to it are void
  dl,        \* BatchUi
  sheet,     \* is the download sheet up?
  ui,        \* where the interface thread is: ready, or in drain_downloads
  reader,    \* the book whose file the reader was given last
  hasKeys,   \* do keys of this device close the sheet?
  \* the channels and the worker
  jobs, done, wpc, job, ok,
  \* the store and the disk
  flagged,   \* books.downloaded
  landed,    \* books whose file is under its final name
  parts      \* books with a .part fragment

uiVars == <<pending, live, gen, epoch, dl, sheet, ui, reader, hasKeys>>
workerVars == <<wpc, job, ok>>
vars == <<uiVars, jobs, done, workerVars, flagged, landed, parts>>

Job == [id : Book, gen : 1 .. gen]
Done == [id : Book, gen : 1 .. gen, ok : BOOLEAN]
Batch == [single : BOOLEAN, autopen : Book \cup {None}, all : BOOLEAN,
          done : Nat, failed : Nat, total : Nat,
          queue : SUBSET Book, failedIds : SUBSET Book]

TypeOK ==
  /\ pending \in Nat
  /\ gen \in Nat
  /\ epoch \in 0 .. gen
  /\ live \in [Book -> 0 .. gen]
  /\ dl \in Batch
  /\ sheet \in BOOLEAN
  /\ ui \in {"ready", "drain", "tail"}
  /\ reader \in Book \cup {None}
  /\ hasKeys \in BOOLEAN
  /\ jobs \subseteq Job
  /\ done \subseteq Done
  /\ wpc \in {"wait", "fetch", "probe", "write", "rename", "recheck", "send"}
  /\ job \in Job \cup {None}
  /\ (job = None) <=> (wpc = "wait")
  /\ ok \in BOOLEAN
  /\ flagged \subseteq Book
  /\ landed \subseteq Book
  /\ parts \subseteq Book

(* Every batch starts wholesale.                                           *)
NoBatch == [single |-> FALSE, autopen |-> None, all |-> FALSE, done |-> 0,
            failed |-> 0, total |-> 0, queue |-> {}, failedIds |-> {}]
StartSingle(b) == [NoBatch EXCEPT !.single = TRUE, !.autopen = b]
StartAll(targets) ==
  [NoBatch EXCEPT !.all = TRUE, !.total = Cardinality(targets), !.queue = targets]

NothingLive == [b \in Book |-> 0]

(* A start of the app: fresh memory, fragments swept, flags reconciled     *)
(* with the files that are there (refresh_downloaded_flags).               *)
Init ==
  /\ pending = 0
  /\ live = NothingLive
  /\ gen = 0
  /\ epoch = 0
  /\ dl = NoBatch
  /\ sheet = FALSE
  /\ ui = "ready"
  /\ reader = None
  /\ hasKeys \in Keys
  /\ jobs = {}
  /\ done = {}
  /\ wpc = "wait"
  /\ job = None
  /\ ok = FALSE
  /\ landed \in SUBSET Book
  /\ flagged = landed
  /\ parts = {}

Reboot ==
  /\ pending' = 0
  /\ live' = NothingLive
  /\ gen' = 0
  /\ epoch' = 0
  /\ dl' = NoBatch
  /\ sheet' = FALSE
  /\ ui' = "ready"
  /\ reader' = None
  /\ jobs' = {}
  /\ done' = {}
  /\ wpc' = "wait"
  /\ job' = None
  /\ ok' = FALSE
  /\ flagged' = landed
  /\ parts' = {}
  /\ UNCHANGED <<hasKeys, landed>>

---------------------------------------------------------------------------
(* Queueing.                                                               *)

(* Generations dealt one to each book of a set, from `first'.              *)
Numbering(books, first) ==
  {r \in [books -> first .. first + Cardinality(books) - 1] :
     \A b, c \in books : b # c => r[b] # r[c]}

(* enqueue for each book of a set; `entries' and n are the live map and    *)
(* the pending count it starts from.                                       *)
Issue(books, entries, n) ==
  \E r \in Numbering(books, gen + 1) :
    /\ live' = [b \in Book |-> IF b \in books THEN r[b] ELSE entries[b]]
    /\ jobs' = jobs \cup {[id |-> b, gen |-> r[b]] : b \in books}
    /\ gen' = gen + Cardinality(books)
    /\ pending' = n + Cardinality(books)

(* Books with an unsettled entry are absorbed.                             *)
Enqueue(books) == Issue({b \in books : live[b] = 0}, live, pending)

(* top_up_batch: staged books are popped until the window is full or none  *)
(* are left; failed books and those with an entry are passed over.  The    *)
(* order of the shelf is not modelled.                                     *)
TopUp(batch, entries, n) ==
  \E popped \in SUBSET batch.queue :
    LET new == {b \in popped : entries[b] = 0 /\ b \notin batch.failedIds}
    IN  /\ n >= Window => popped = {}
        /\ n < Window => n + Cardinality(new) <= Window
        /\ popped # batch.queue => n + Cardinality(new) >= Window
        /\ Issue(new, entries, n)
        /\ dl' = [batch EXCEPT !.queue = @ \ popped]

---------------------------------------------------------------------------
(* The interface thread.  Taps reach the shelf and its menus only while    *)
(* the sheet is down.                                                      *)
OnShelf == ui = "ready" /\ ~sheet

(* press_book: open the file that is there, or fetch it and open it then.  *)
Press(b) ==
  /\ OnShelf
  /\ IF b \in landed
       THEN /\ flagged' = flagged \cup {b}
            /\ reader' = b
            /\ UNCHANGED <<pending, live, gen, dl, sheet, jobs>>
       ELSE /\ gen < MaxGen
            /\ dl' = StartSingle(b)
            /\ Enqueue({b})
            /\ sheet' = TRUE
            /\ UNCHANGED <<flagged, reader>>
  /\ UNCHANGED <<epoch, ui, done, hasKeys, workerVars, landed, parts>>

(* The context menu's Download, of a book or of a series: whatever is on   *)
(* the device already is fetched again.                                    *)
Download(books) ==
  /\ OnShelf
  /\ gen + Cardinality(books) <= MaxGen
  /\ dl' = NoBatch
  /\ Enqueue(books)
  /\ sheet' = TRUE
  /\ UNCHANGED <<epoch, ui, reader, done, hasKeys, workerVars, flagged,
                 landed, parts>>

DownloadAll ==
  LET targets == Book \ flagged
  IN  /\ OnShelf
      /\ targets # {}
      /\ gen + Cardinality(targets) <= MaxGen
      /\ TopUp(StartAll(targets),
                 live,
                 pending)
      /\ sheet' = TRUE
      /\ UNCHANGED <<epoch, ui, reader, done, hasKeys, workerVars,
                     flagged, landed, parts>>

(* Mutant of Delete: the flag survives the file.                           *)
MutantDelete(b) ==
  /\ OnShelf
  /\ landed' = landed \ {b}
  /\ UNCHANGED <<uiVars, jobs, done, workerVars, flagged, parts>>

Delete(b) ==
  /\ OnShelf
  /\ landed' = landed \ {b}
  /\ flagged' = flagged \ {b}
  /\ UNCHANGED <<uiVars, jobs, done, workerVars, parts>>

(* Mutant of Cancel: the dedup map is kept.                                *)
MutantCancel ==
  /\ ui = "ready"
  /\ sheet
  /\ epoch' = gen
  /\ pending' = 0
  /\ done' = {}
  /\ dl' = NoBatch
  /\ sheet' = FALSE
  /\ UNCHANGED <<live, gen, ui, reader, jobs, hasKeys, workerVars, flagged,
                 landed, parts>>

(* The sheet's X: cancel_downloads.                                        *)
Cancel ==
  /\ ui = "ready"
  /\ sheet
  /\ epoch' = gen
  /\ pending' = 0
  /\ live' = NothingLive
  /\ done' = {}
  /\ dl' = NoBatch
  /\ sheet' = FALSE
  /\ UNCHANGED <<gen, ui, reader, jobs, hasKeys, workerVars, flagged,
                 landed, parts>>

(* A tap beside the sheet, which is modal while jobs are pending, and the  *)
(* back and page keys, for which it is not.                                *)
CloseSheet ==
  /\ ui = "ready"
  /\ sheet
  /\ pending = 0 \/ hasKeys
  /\ sheet' = FALSE
  /\ UNCHANGED <<pending, live, gen, epoch, dl, ui, reader, jobs, done,
                 hasKeys, workerVars, flagged, landed, parts>>

---------------------------------------------------------------------------
(* drain_downloads, called before every frame.  The worker goes on         *)
(* meanwhile, the interface does not.                                      *)
DrainStart ==
  /\ ui = "ready"
  /\ ui' = "drain"
  /\ UNCHANGED <<pending, live, gen, epoch, dl, sheet, reader, jobs, done,
                 hasKeys, workerVars, flagged, landed, parts>>

Oldest(d, queue) == \A e \in queue : d.gen <= e.gen

(* Mutants of Matches: any entry of the book will do; anything will do.    *)
MutantMatches(d) == live[d.id] # 0
MutantMatchesAll(d) == TRUE

(* try_next: the result belongs to the entry the book has now.             *)
Matches(d) == live[d.id] = d.gen

Counted(d) ==
  [dl EXCEPT !.done      = IF d.ok THEN @ + 1 ELSE @,
                 !.failed    = IF d.ok THEN @ ELSE @ + 1,
                 !.failedIds = IF dl.all /\ ~d.ok THEN @ \cup {d.id} ELSE @]

Settle(d) ==
  LET entries == [live EXCEPT ![d.id] = 0]
      n       == IF pending = 0 THEN 0 ELSE pending - 1
  IN  /\ ui = "drain"
      /\ Oldest(d,
                 done)
      /\ Matches(d)
      /\ done' = done \ {d}
      /\ flagged' = IF d.ok THEN flagged \cup {d.id} ELSE flagged
      /\ IF dl.all
           THEN TopUp(Counted(d),
                 entries, n)
           ELSE Issue({}, entries,
                 n) /\ dl' = Counted(d)
      /\ UNCHANGED <<epoch, sheet, ui, reader, hasKeys, workerVars,
                     landed, parts>>

(* A stale result is dropped, and ends the loop; so does an empty channel. *)
DrainStops ==
  /\ ui = "drain"
  /\ \/ done = {} /\ UNCHANGED done
     \/ \E d \in done :
          /\ Oldest(d, done)
          /\ ~Matches(d)
          /\ done' = done \ {d}
  /\ ui' = "tail"
  /\ UNCHANGED <<pending, live, gen, epoch, dl, sheet, reader, jobs,
                 hasKeys, workerVars, flagged, landed, parts>>

(* Behind the loop: a single press opens the reader, a download-all batch  *)
(* is declared complete.                                                   *)
DrainEnd ==
  LET over == pending = 0 /\ dl.queue = {} /\ sheet
  IN  /\ ui = "tail"
      /\ ui' = "ready"
      /\ sheet' = (sheet /\ ~(over /\ dl.single))
      /\ reader' = IF over /\ dl.single /\ dl.autopen # None THEN dl.autopen
                                                             ELSE reader
      /\ dl' = IF ~over THEN dl
               ELSE IF dl.single THEN [dl EXCEPT !.single = FALSE, !.autopen = None]
               ELSE [dl EXCEPT !.all = FALSE]
      /\ UNCHANGED <<pending, live, gen, epoch, jobs, done, hasKeys,
                     workerVars, flagged, landed, parts>>

---------------------------------------------------------------------------
(* The worker thread.                                                      *)
Void == job.gen <= epoch

WorkerGoes(pc) ==
  /\ wpc' = pc
  /\ UNCHANGED <<uiVars, flagged>>

Take(j) ==
  /\ wpc = "wait"
  /\ Oldest(j, jobs)
  /\ jobs' = jobs \ {j}
  /\ IF j.gen <= epoch
       THEN WorkerGoes("wait") /\ UNCHANGED job
       ELSE WorkerGoes("fetch") /\ job' = j
  /\ UNCHANGED <<done, ok, landed, parts>>

Fetch ==
  /\ wpc = "fetch"
  /\ \/ WorkerGoes("probe") /\ UNCHANGED ok
     \/ WorkerGoes("recheck") /\ ok' = FALSE
  /\ UNCHANGED <<jobs, done, job, landed, parts>>

(* write_part_atomic: the probe, the fragment, the rename; a failure       *)
(* removes the fragment.                                                   *)
Probe ==
  /\ wpc = "probe"
  /\ IF Void THEN WorkerGoes("recheck") /\ ok' = FALSE
             ELSE WorkerGoes("write") /\ UNCHANGED ok
  /\ UNCHANGED <<jobs, done, job, landed, parts>>

Write ==
  /\ wpc = "write"
  /\ \/ /\ WorkerGoes("rename")
        /\ parts' = parts \cup {job.id}
        /\ UNCHANGED ok
     \/ /\ WorkerGoes("recheck")
        /\ ok' = FALSE
        /\ UNCHANGED parts
  /\ UNCHANGED <<jobs, done, job, landed>>

Rename ==
  /\ wpc = "rename"
  /\ WorkerGoes("recheck")
  /\ parts' = parts \ {job.id}
  /\ \/ ok' = TRUE /\ landed' = landed \cup {job.id}
     \/ ok' = FALSE /\ UNCHANGED landed
  /\ UNCHANGED <<jobs, done, job>>

(* The second look at the epoch, and the send behind it.                   *)
Recheck ==
  /\ wpc = "recheck"
  /\ IF Void THEN WorkerGoes("wait") /\ job' = None
             ELSE WorkerGoes("send") /\ UNCHANGED job
  /\ UNCHANGED <<jobs, done, ok, landed, parts>>

(* Mutant of Send: a failed fetch is not reported.                         *)
MutantSend ==
  /\ wpc = "send"
  /\ done' = IF ok THEN done \cup {[id |-> job.id, gen |-> job.gen, ok |-> ok]}
                   ELSE done
  /\ WorkerGoes("wait")
  /\ job' = None
  /\ UNCHANGED <<jobs, ok, landed, parts>>

Send ==
  /\ wpc = "send"
  /\ done' = done \cup {[id |-> job.id, gen |-> job.gen, ok |-> ok]}
  /\ WorkerGoes("wait")
  /\ job' = None
  /\ UNCHANGED <<jobs, ok, landed, parts>>

WorkerStep ==
  \/ \E j \in jobs : Take(j)
  \/ Fetch
  \/ Probe
  \/ Write
  \/ Rename
  \/ Recheck
  \/ Send

Drain ==
  \/ DrainStart
  \/ \E d \in done : Settle(d)
  \/ DrainStops
  \/ DrainEnd

User ==
  \/ \E b \in Book : Press(b) \/ Delete(b)
  \/ \E books \in SUBSET Book : Download(books)
  \/ DownloadAll
  \/ Cancel
  \/ CloseSheet

Next == User \/ Drain \/ WorkerStep \/ Reboot

Spec == Init /\ [][Next]_vars

(* The worker's requests return (the client has timeouts), and frames keep *)
(* being drawn: the event loop ticks.                                      *)
FairSpec == Spec /\ WF_vars(WorkerStep) /\ WF_vars(Drain)

---------------------------------------------------------------------------
InFlight ==
  jobs \cup (IF job = None THEN {} ELSE {job})
       \cup {[id |-> d.id, gen |-> d.gen] : d \in done}
Unvoided(b) == {j.gen : j \in {i \in InFlight : i.id = b /\ i.gen > epoch}}

(* The interface's books balance with the worker's: each unsettled entry   *)
(* has one job or result under its generation somewhere between the two    *)
(* channels, no other unvoided job of that book is on the way (the dedup   *)
(* of enqueue), and pending counts the entries.  A job that fell out of    *)
(* either side would leave the sheet up for ever.                          *)
QueueBalances ==
  /\ pending = Cardinality({b \in Book : live[b] # 0})
  /\ \A b \in Book : Unvoided(b) = (IF live[b] = 0 THEN {} ELSE {live[b]})

(* "a canceled job that outlives its queue entry can never settle (let     *)
(* alone fail) a re-enqueued book": what is tallied was issued after the   *)
(* last cancel (try_next's generation match).                              *)
StaleNeverSettles ==
  [][dl'.done + dl'.failed > dl.done + dl.failed =>
       \E d \in done \ done' : d.gen > epoch]_vars

(* A download-all batch settles no more books than it announced, so the    *)
(* finished sheet's numbers add up.  Where a key closes the sheet on a     *)
(* running batch, the next batch counts the results of the first, too.     *)
TallyAddsUp ==
  ~hasKeys /\ dl.total > 0 => dl.done + dl.failed <= dl.total

(* What the sheet counts is true: its books balance with the worker's, and *)
(* the numbers of a batch add up.                                          *)
SheetCounts == TypeOK /\ QueueBalances /\ TallyAddsUp

(* A book whose downloaded flag is set has its file, whatever cancels,     *)
(* failures, deletions and boots came in between ("a book counts as        *)
(* downloaded when its expected filename still exists").  Where a key      *)
(* closes the sheet, a book can be deleted before its result is drained.   *)
FlagsHaveFiles == ~hasKeys => flagged \subseteq landed

(* Whatever was queued is settled or cancelled in the end, and a batch     *)
(* that was staged runs dry: no lost result, stale result, failure or      *)
(* duplicate leaves the sheet counting for ever.                           *)
EverythingSettles ==
  (pending > 0 \/ dl.queue # {}) ~> (pending = 0 /\ dl.queue = {})
=============================================================================
