----------------------------- MODULE SyncLedger -----------------------------
(***************************************************************************)
(* The server's sync ledger (api/storage/ledger.py): catalogue walks fold  *)
(* what the provider serves into the books table, page by page, while the  *)
(* catalogue changes, the provider fails and the server restarts.          *)
(*                                                                         *)
(* One step is one section under the ledger's writer lock, or one answer   *)
(* of the provider; everything between two of them is local to the walk.   *)
(* A walker is a background thread started by refresh_async.               *)
(***************************************************************************)
EXTENDS Integers, FiniteSets

CONSTANTS
  Book,              \* book ids
  Meta,              \* what a provider may say of a book
  Pages,             \* how a catalogue walk cuts the books into pages
  Key,               \* names under which devices report a cursor
  Walker,            \* background walk threads
  CompactThreshold,  \* TOMBSTONE_COMPACT_THRESHOLD
  AckEmpty,          \* ledger.ack_empty_catalogue
  FpWalkers,         \* {TRUE} if the provider offers walk_fingerprints, {FALSE}
                     \* if it does not; both, to check both
  MaxEdits,          \* bound: catalogue changes
  MaxFaults,         \* bound: provider errors, outages and restarts
  None,              \* no book / nothing to apply / no walk
  NoRow,             \* no row in the books table
  NoReport           \* no row in device_cursors

ASSUME LedgerAssumption ==
  /\ IsFiniteSet(Book)
  /\ Meta \subseteq [title : STRING, genre : STRING, dated : BOOLEAN]
  /\ None \notin Meta /\ \A S \in SUBSET Book : None # S
  /\ Pages \subseteq SUBSET Book
  /\ UNION Pages = Book
  /\ CompactThreshold \in Nat
  /\ AckEmpty \in BOOLEAN
  /\ FpWalkers \subseteq BOOLEAN
  /\ MaxEdits \in Nat
  /\ MaxFaults \in Nat
  /\ None \notin Walker
  /\ NoRow \notin [rev : Nat, live : BOOLEAN, meta : Meta]
  /\ NoRow \notin [rev : Nat, content : Meta \cup {None}]
  /\ NoRow \notin [fp : STRING \X BOOLEAN, live : BOOLEAN]
  /\ NoReport \notin Int

VARIABLES
  \* the provider (external)
  catalogue,   \* the upstream library: a Meta, or None, per book
  up,          \* FALSE while the upstream answers with an empty catalogue
  fpWalker,    \* does it offer walk_fingerprints?
  \* the SQLite file
  rows,        \* books
  nextRev,     \* state.next_rev
  fresh,       \* time.time() - state.last_walk < max_age_s
  reported,    \* device_cursors
  \* the SyncLedger object
  walking,     \* _walking
  walkDone,    \* the walk whose event _walk_done refers to
  eventSet,    \* that event, per walk
  \* the locals of each walk
  pc, stored, seen, need, yielded, batch,
  todo,        \* the pages still to read, as they are now
  \* history and bounds
  steady,      \* books listed without a break since the walk's snapshot
  moved,       \* books edited while they waited for a second fingerprint pass
  edits, faults

provider == <<catalogue, up, fpWalker>>
table    == <<rows, nextRev>>
claimVars == <<walking, walkDone, eventSet>>
walkVars == <<pc, stored, seen, todo, need, yielded, batch>>
history == <<steady, moved>>
vars == <<provider, table, fresh, reported, claimVars, walkVars, history,
          edits, faults>>

---------------------------------------------------------------------------
(* The hash over the fields "the device renders": genre is not among them. *)
fingerprint(m) == <<m.title, m.dated>>

Row   == [rev : Nat \ {0}, live : BOOLEAN, meta : Meta]
Index == [fp : {fingerprint(m) : m \in Meta}, live : BOOLEAN]

IndexOf(row) ==
  IF row = NoRow THEN NoRow
                 ELSE [fp |-> fingerprint(row.meta), live |-> row.live]

(* added_at doubles as the liveness mark: a book without a date is stored  *)
(* as a tombstone.                                                         *)
IndexOfMeta(m) == [fp |-> fingerprint(m), live |-> m.dated]
(* Mutant of LedgerRow: revisions dealt from one below next_rev.           *)
MutantLedgerRow(m, rev) == [rev |-> rev - 1, live |-> m.dated, meta |-> m]
LedgerRow(m, rev) == [rev |-> rev, live |-> m.dated, meta |-> m]

(* What the upstream lists of b now; it may answer with nothing at all.     *)
Serves(b) == IF up THEN catalogue[b] ELSE None
Served == {b \in Book : Serves(b) # None}

(* Mutants of Differs: every served book is rewritten; a tombstone whose   *)
(* book returns unchanged is left alone.                                   *)
MutantDiffersAlways(ix, m) == TRUE
MutantDiffersByHash(ix, m) == ix = NoRow \/ ix.fp # fingerprint(m)

(* New, changed, or a tombstone that came back.                            *)
Differs(ix, m) ==
  \/ ix = NoRow
  \/ ix.fp # fingerprint(m)
  \/ ~ix.live

Empty(s) == \A b \in Book : s[b] = NoRow
Tombstones == {b \in Book : rows[b] # NoRow /\ ~rows[b].live}

PCs == {"idle", "snapshot", "fp", "page", "commit", "tombstones", "stamp",
        "failed", "cleanup"}

TypeOK ==
  /\ catalogue \in [Book -> Meta \cup {None}]
  /\ up \in BOOLEAN
  /\ fpWalker \in BOOLEAN
  /\ rows \in [Book -> Row \cup {NoRow}]
  /\ nextRev \in Nat \ {0}
  /\ fresh \in BOOLEAN
  /\ reported \in [Key -> Nat \cup {NoReport}]
  /\ walking \in BOOLEAN
  /\ walkDone \in Walker \cup {None}
  /\ eventSet \in [Walker -> BOOLEAN]
  /\ pc \in [Walker -> PCs]
  /\ stored \in [Walker -> [Book -> Index \cup {NoRow}]]
  /\ seen \in [Walker -> SUBSET Book]
  /\ todo \in [Walker -> SUBSET SUBSET Book]
  /\ need \in [Walker -> (SUBSET Book) \cup {None}]
  /\ yielded \in [Walker -> BOOLEAN]
  /\ batch \in [Walker -> [Book -> Meta \cup {None}]]
  /\ steady \in [Walker -> SUBSET Book]
  /\ moved \in [Walker -> SUBSET Book]
  /\ edits \in 0 .. MaxEdits
  /\ faults \in 0 .. MaxFaults

NothingStored == [b \in Book |-> NoRow]
NothingToApply == [b \in Book |-> None]

Init ==
  /\ catalogue \in [Book -> Meta \cup {None}]
  /\ up = TRUE
  /\ fpWalker \in FpWalkers
  /\ rows = [b \in Book |-> NoRow]
  /\ nextRev = 1
  /\ fresh = FALSE
  /\ reported = [k \in Key |-> NoReport]
  /\ walking = FALSE
  /\ walkDone = None
  /\ eventSet = [w \in Walker |-> FALSE]
  /\ pc = [w \in Walker |-> "idle"]
  /\ stored = [w \in Walker |-> NothingStored]
  /\ seen = [w \in Walker |-> {}]
  /\ todo = [w \in Walker |-> {}]
  /\ need = [w \in Walker |-> None]
  /\ yielded = [w \in Walker |-> FALSE]
  /\ batch = [w \in Walker |-> NothingToApply]
  /\ steady = [w \in Walker |-> {}]
  /\ moved = [w \in Walker |-> {}]
  /\ edits = 0
  /\ faults = 0

---------------------------------------------------------------------------
(* The provider and the clock (external).                                  *)

(* Books the walk has found changed and still has to read in full.         *)
Queued(w) == IF need[w] = None THEN {} ELSE need[w]

Edit(b, m) ==
  /\ edits < MaxEdits
  /\ catalogue[b] # m
  /\ catalogue' = [catalogue EXCEPT ![b] = m]
  /\ edits' = edits + 1
  /\ steady' = IF m = None THEN [w \in Walker |-> steady[w] \ {b}] ELSE steady
  /\ moved' = [w \in Walker |->
                 IF b \in Queued(w) THEN moved[w] \cup {b} ELSE moved[w]]
  /\ UNCHANGED <<up, fpWalker, table, fresh, reported, claimVars, walkVars,
                 faults>>

(* Pages are asked for by number (_series_in_library): when a book leaves  *)
(* one that was read, those behind it move up, and what crosses into the   *)
(* pages already read is not listed in this pass.  The walk of hashes goes *)
(* over a list in memory, which does not shift.                            *)
Withdraw(b, slip) ==
  /\ edits < MaxEdits
  /\ catalogue[b] # None
  /\ ~fpWalker
  /\ \A w \in Walker : /\ slip[w] \subseteq UNION todo[w]
                        /\ slip[w] # {} => b \notin UNION todo[w]
  /\ catalogue' = [catalogue EXCEPT ![b] = None]
  /\ edits' = edits + 1
  /\ todo' = [w \in Walker |-> {p \ slip[w] : p \in todo[w]}]
  /\ steady' = [w \in Walker |-> steady[w] \ (slip[w] \cup {b})]
  /\ moved' = [w \in Walker |->
                 IF b \in Queued(w) THEN moved[w] \cup {b} ELSE moved[w]]
  /\ UNCHANGED <<up, fpWalker, table, fresh, reported, claimVars, pc, stored,
                 seen, need, yielded, batch, faults>>

GoDown ==
  /\ up
  /\ faults < MaxFaults
  /\ up' = FALSE
  /\ faults' = faults + 1
  /\ steady' = [w \in Walker |-> {}]
  /\ UNCHANGED <<catalogue, fpWalker, table, fresh, reported, claimVars,
                 walkVars, moved, edits>>

ComeUp ==
  /\ ~up
  /\ up' = TRUE
  /\ UNCHANGED <<catalogue, fpWalker, table, fresh, reported, claimVars,
                 walkVars, history, edits, faults>>

AgeOut ==
  /\ fresh
  /\ fresh' = FALSE
  /\ UNCHANGED <<provider, table, reported, claimVars, walkVars, history,
                 edits, faults>>

---------------------------------------------------------------------------
(* A walk.                                                                 *)

(* refresh_async: the claim is one section under the lock, the thread      *)
(* starts behind it.                                                       *)
Claim(w) ==
  /\ pc[w] = "idle"
  /\ ~walking
  /\ ~fresh
  /\ walking' = TRUE
  /\ walkDone' = w
  /\ eventSet' = [eventSet EXCEPT ![w] = FALSE]
  /\ pc' = [pc EXCEPT ![w] = "snapshot"]
  /\ UNCHANGED <<provider, table, fresh, reported, stored, seen, todo, need,
                 yielded, batch, history, edits, faults>>

Snapshot(w) ==
  /\ pc[w] = "snapshot"
  /\ stored' = [stored EXCEPT ![w] = [b \in Book |-> IndexOf(rows[b])]]
  /\ pc' = [pc EXCEPT ![w] = IF fpWalker THEN "fp" ELSE "page"]
  /\ todo' = [todo EXCEPT ![w] = Pages]
  /\ need' = [need EXCEPT ![w] = IF fpWalker THEN {} ELSE None]
  /\ steady' = [steady EXCEPT ![w] = Served]
  /\ moved' = [moved EXCEPT ![w] = {}]
  /\ UNCHANGED <<provider, table, fresh, reported, claimVars, seen, yielded,
                 batch, edits, faults>>

(* First pass of _walk_fingerprints: ids and hashes only.                  *)
FpPage(w, p) ==
  /\ pc[w] = "fp"
  /\ p \in todo[w]
  /\ todo' = [todo EXCEPT ![w] = @ \ {p}]
  /\ seen' = [seen EXCEPT ![w] = @ \cup (p \cap Served)]
  /\ need' = [need EXCEPT ![w] =
       @ \cup {b \in p \cap Served : Differs(stored[w][b], catalogue[b])}]
  /\ yielded' = [yielded EXCEPT ![w] = @ \/ p \cap Served # {}]
  /\ UNCHANGED <<provider, table, fresh, reported, claimVars, pc, stored,
                 batch, history, edits, faults>>

(* Mutant of Refuses: the guard is gone.                                   *)
MutantRefuses(w) == FALSE

(* Nothing came while the ledger holds rows: the walk is refused.          *)
Refuses(w) == ~yielded[w] /\ ~AckEmpty /\ ~Empty(stored[w])

FpDone(w) ==
  /\ pc[w] = "fp"
  /\ todo[w] = {}
  /\ ~Refuses(w)
  /\ IF need[w] = {}
       THEN /\ pc' = [pc EXCEPT ![w] = "tombstones"]
            /\ UNCHANGED todo
       ELSE /\ pc' = [pc EXCEPT ![w] = "page"]
            /\ todo' = [todo EXCEPT ![w] = Pages]
  /\ UNCHANGED <<provider, table, fresh, reported, claimVars, stored, seen,
                 need, yielded, batch, history, edits, faults>>

(* Mutant of FetchPage: only the books it queues join the seen set.        *)
MutantFetchPage(w, p) ==
  LET plain  == need[w] = None
      here   == p \cap Served
      wanted == {b \in here : IF plain THEN Differs(stored[w][b], catalogue[b])
                                      ELSE b \in need[w]}
  IN  /\ pc[w] = "page"
      /\ p \in todo[w]
      /\ todo' = [todo EXCEPT ![w] = @ \ {p}]
      /\ seen' = [seen EXCEPT ![w] = IF plain THEN @ \cup wanted ELSE @]
      /\ yielded' = [yielded EXCEPT ![w] = @ \/ (plain /\ here # {})]
      /\ need' = [need EXCEPT ![w] = IF plain THEN None ELSE @ \ wanted]
      /\ batch' = [batch EXCEPT ![w] =
           [b \in Book |-> IF b \in wanted THEN catalogue[b] ELSE None]]
      /\ pc' = [pc EXCEPT ![w] = IF wanted = {} THEN "page" ELSE "commit"]
      /\ UNCHANGED <<provider, table, fresh, reported, claimVars, stored,
                     history, edits, faults>>

(* One page of walk_books, diffed against the index.  The plain pass takes *)
(* every difference, the second fingerprint pass only the ids queued.  A   *)
(* page with no difference commits nothing.                                *)
FetchPage(w, p) ==
  LET plain  == need[w] = None
      here   == p \cap Served
      wanted == IF plain
                  THEN {b \in here : Differs(stored[w][b], catalogue[b])}
                  ELSE here \cap need[w]
  IN  /\ pc[w] = "page"
      /\ p \in todo[w]
      /\ todo' = [todo EXCEPT ![w] = @ \ {p}]
      /\ seen' = [seen EXCEPT ![w] = IF plain THEN @ \cup here ELSE @]
      /\ yielded' = [yielded EXCEPT ![w] = @ \/ (plain /\ here # {})]
      /\ need' = [need EXCEPT ![w] = IF plain THEN None ELSE @ \ wanted]
      /\ batch' = [batch EXCEPT ![w] =
           [b \in Book |-> IF b \in wanted THEN catalogue[b] ELSE None]]
      /\ pc' = [pc EXCEPT ![w] = IF wanted = {} THEN "page" ELSE "commit"]
      /\ UNCHANGED <<provider, table, fresh, reported, claimVars, stored,
                     history, edits, faults>>

(* Revisions nextRev, nextRev + 1, ... dealt one to each book of a page.   *)
Numbering(books) ==
  {r \in [books -> nextRev .. nextRev + Cardinality(books) - 1] :
     \A b, c \in books : b # c => r[b] # r[c]}

(* _apply_inserts then _apply_updates in one transaction.                  *)
CommitPage(w) ==
  LET put     == {b \in Book : batch[w][b] # None}
      inserts == {b \in put : stored[w][b] = NoRow}
      written == {b \in put : (b \in inserts) <=> (rows[b] = NoRow)}
  IN  /\ pc[w] = "commit"
      /\ \E r \in Numbering(put) :
           /\ \A i \in inserts, u \in put \ inserts : r[i] < r[u]
           /\ rows' = [b \in Book |->
                         IF b \in written THEN LedgerRow(batch[w][b], r[b])
                                          ELSE rows[b]]
      /\ nextRev' = nextRev + Cardinality(put)
      /\ stored' = [stored EXCEPT ![w] =
           [b \in Book |-> IF b \in put THEN IndexOfMeta(batch[w][b]) ELSE @[b]]]
      /\ batch' = [batch EXCEPT ![w] = NothingToApply]
      /\ pc' = [pc EXCEPT ![w] = "page"]
      /\ UNCHANGED <<provider, fresh, reported, claimVars, seen, todo, need,
                     yielded, history, edits, faults>>

PageDone(w) ==
  /\ pc[w] = "page"
  /\ todo[w] = {}
  /\ need[w] = None => ~Refuses(w)
  /\ pc' = [pc EXCEPT ![w] = "tombstones"]
  /\ UNCHANGED <<provider, table, fresh, reported, claimVars, stored, seen,
                 todo, need, yielded, batch, history, edits, faults>>

(* Live at the snapshot and never seen: gone.                              *)
MissedBy(w) ==
  {b \in Book : stored[w][b] # NoRow /\ stored[w][b].live /\ b \notin seen[w]}

(* Mutant of Tombstone: the row keeps the revision it had.                 *)
MutantTombstone(w) ==
  /\ pc[w] = "tombstones"
  /\ rows' = [b \in Book |->
                IF b \in MissedBy(w) /\ rows[b] # NoRow
                  THEN [rows[b] EXCEPT !.live = FALSE] ELSE rows[b]]
  /\ pc' = [pc EXCEPT ![w] = "stamp"]
  /\ UNCHANGED <<provider, nextRev, fresh, reported, claimVars, stored, seen,
                 todo, need, yielded, batch, history, edits, faults>>

Tombstone(w) ==
  LET gone == MissedBy(w)
  IN  /\ pc[w] = "tombstones"
      /\ \E r \in Numbering(gone) :
           rows' = [b \in Book |->
                      IF b \in gone /\ rows[b] # NoRow
                        THEN [rows[b] EXCEPT !.rev = r[b], !.live = FALSE]
                        ELSE rows[b]]
      /\ nextRev' = nextRev + Cardinality(gone)
      /\ pc' = [pc EXCEPT ![w] = "stamp"]
      /\ UNCHANGED <<provider, fresh, reported, claimVars, stored, seen, todo,
                     need, yielded, batch, history, edits, faults>>

(* rev < (SELECT MIN(last_rev) FROM device_cursors); false of a NULL.      *)
BelowEveryReport(rev) ==
  /\ \E k \in Key : reported[k] # NoReport
  /\ \A k \in Key : reported[k] # NoReport => rev < reported[k]

Compacted ==
  [b \in Book |-> IF b \in Tombstones /\ BelowEveryReport(rows[b].rev)
                    THEN NoRow ELSE rows[b]]

(* The tail of _run_walk: compaction, the stamp, the release of the claim. *)
Finish(w) ==
  /\ pc[w] = "stamp"
  /\ rows' = IF Cardinality(Tombstones) > CompactThreshold
               THEN Compacted ELSE rows
  /\ fresh' = TRUE
  /\ walking' = FALSE
  /\ pc' = [pc EXCEPT ![w] = "cleanup"]
  /\ UNCHANGED <<provider, nextRev, reported, walkDone, eventSet, stored,
                 seen, todo, need, yielded, batch, history, edits, faults>>

(* Both ways a walk fails: the provider raises, or the walk is refused.    *)
(* _run_walk rolls back, releases the claim and re-raises.                 *)
Release(w) ==
  /\ walking' = FALSE
  /\ pc' = [pc EXCEPT ![w] = "failed"]
  /\ UNCHANGED <<provider, table, fresh, reported, walkDone, eventSet, stored,
                 seen, todo, need, yielded, batch, history, edits>>

ProviderRaises(w) ==
  /\ pc[w] \in {"fp", "page"}
  /\ faults < MaxFaults
  /\ faults' = faults + 1
  /\ Release(w)

Refuse(w) ==
  /\ \/ pc[w] = "fp"
     \/ pc[w] = "page" /\ need[w] = None
  /\ todo[w] = {}
  /\ Refuses(w)
  /\ UNCHANGED faults
  /\ Release(w)

(* An error of the fingerprint walker that is not a RuntimeError: the      *)
(* plain pass takes over with the same index and the same seen set.        *)
FallBack(w) ==
  /\ pc[w] \in {"fp", "page"}
  /\ need[w] # None
  /\ faults < MaxFaults
  /\ faults' = faults + 1
  /\ pc' = [pc EXCEPT ![w] = "page"]
  /\ todo' = [todo EXCEPT ![w] = Pages]
  /\ need' = [need EXCEPT ![w] = None]
  /\ yielded' = [yielded EXCEPT ![w] = FALSE]
  /\ UNCHANGED <<provider, table, fresh, reported, claimVars, stored, seen,
                 batch, history, edits>>

(* _refresh_bg after a failure: the cooldown stamp, in a section of its    *)
(* own behind the one that released the claim.                             *)
FailStamp(w) ==
  /\ pc[w] = "failed"
  /\ fresh' = TRUE
  /\ pc' = [pc EXCEPT ![w] = "cleanup"]
  /\ UNCHANGED <<provider, table, reported, claimVars, stored, seen, todo,
                 need, yielded, batch, history, edits, faults>>

Forget(w) ==
  /\ stored' = [stored EXCEPT ![w] = NothingStored]
  /\ seen' = [seen EXCEPT ![w] = {}]
  /\ todo' = [todo EXCEPT ![w] = {}]
  /\ need' = [need EXCEPT ![w] = None]
  /\ yielded' = [yielded EXCEPT ![w] = FALSE]
  /\ batch' = [batch EXCEPT ![w] = NothingToApply]
  /\ steady' = [steady EXCEPT ![w] = {}]
  /\ moved' = [moved EXCEPT ![w] = {}]

(* The finally of _refresh_bg: it clears whatever claim and sets whatever  *)
(* event are current by then, and the thread ends.                         *)
Cleanup(w) ==
  /\ pc[w] = "cleanup"
  /\ walking' = FALSE
  /\ eventSet' = IF walkDone = None THEN eventSet
                                    ELSE [eventSet EXCEPT ![walkDone] = TRUE]
  /\ pc' = [pc EXCEPT ![w] = "idle"]
  /\ Forget(w)
  /\ UNCHANGED <<provider, table, fresh, reported, walkDone, edits, faults>>

---------------------------------------------------------------------------
(* record_device: a device posts the revision it has consumed.             *)
RecordDevice(k, rev) ==
  /\ reported[k] # rev
  /\ reported' = [reported EXCEPT ![k] = rev]
  /\ UNCHANGED <<provider, table, fresh, claimVars, walkVars, history, edits,
                 faults>>

(* The server process dies and starts again: the file is what is left.     *)
Restart ==
  /\ faults < MaxFaults
  /\ faults' = faults + 1
  /\ walking' = FALSE
  /\ walkDone' = None
  /\ eventSet' = [w \in Walker |-> FALSE]
  /\ pc' = [w \in Walker |-> "idle"]
  /\ stored' = [w \in Walker |-> NothingStored]
  /\ seen' = [w \in Walker |-> {}]
  /\ todo' = [w \in Walker |-> {}]
  /\ need' = [w \in Walker |-> None]
  /\ yielded' = [w \in Walker |-> FALSE]
  /\ batch' = [w \in Walker |-> NothingToApply]
  /\ steady' = [w \in Walker |-> {}]
  /\ moved' = [w \in Walker |-> {}]
  /\ UNCHANGED <<provider, table, fresh, reported, edits>>

WalkStep(w) ==
  \/ Snapshot(w)
  \/ \E p \in todo[w] : FpPage(w, p) \/ FetchPage(w, p)
  \/ FpDone(w)
  \/ CommitPage(w)
  \/ PageDone(w)
  \/ Tombstone(w)
  \/ Finish(w)
  \/ Refuse(w)
  \/ FailStamp(w)
  \/ Cleanup(w)

Environment ==
  \/ \E b \in Book, m \in Meta \cup {None} : Edit(b, m)
  \/ \E b \in Book, slip \in [Walker -> SUBSET Book] : Withdraw(b, slip)
  \/ GoDown
  \/ ComeUp
  \/ AgeOut
  \/ \E k \in Key, rev \in 0 .. nextRev - 1 : RecordDevice(k, rev)
  \/ Restart

Next ==
  \/ Environment
  \/ \E w \in Walker :
        \/ Claim(w)
        \/ WalkStep(w)
        \/ ProviderRaises(w)
        \/ FallBack(w)

Spec == Init /\ [][Next]_vars

(* A running walk goes on, devices keep polling (each poll asks for a      *)
(* refresh), time passes and an outage ends.  Faults and edits need not    *)
(* happen, and their bounds make them stop.                                *)
Fairness ==
  /\ \A w \in Walker : WF_vars(WalkStep(w))
  /\ WF_vars(\E w \in Walker : Claim(w))
  /\ WF_vars(AgeOut)
  /\ WF_vars(ComeUp)

FairSpec == Spec /\ Fairness

---------------------------------------------------------------------------
(* The change log the devices see in the books table.                      *)
ContentOf(row) == IF row.live THEN row.meta ELSE None

LogRows ==
  [b \in Book |-> IF rows[b] = NoRow
                    THEN NoRow
                    ELSE [rev |-> rows[b].rev, content |-> ContentOf(rows[b])]]

Log == INSTANCE ChangeLog WITH Content <- Meta, Gone <- None, rows <- LogRows

(* The ledger is a change log: whatever walks, failures and restarts do to *)
(* the table, a changed row carries a revision never handed out before and *)
(* only tombstones every recorded cursor has passed leave it               *)
(* (ledger.py, "a monotonic revision change log").                         *)
ImplementsChangeLog == Log!LogSpec

(* A walk never buries a book the provider listed without a break since    *)
(* the walk took its index: the difference between index and seen set,     *)
(* taken after the last page, contains only books that were missing at     *)
(* some moment of the walk, or that a removal moved past the reader from   *)
(* page to page (_walk's `gone').                                          *)
NoFalseTombstone ==
  \A w \in Walker : pc[w] = "tombstones" => steady[w] \cap MissedBy(w) = {}

(* A walk that was served nothing buries nothing, by whichever pass or     *)
(* fallback it came to its end, unless the operator acknowledged an empty  *)
(* catalogue (the "refusing to tombstone" guards).                         *)
EmptyNeverWipes ==
  \A w \in Walker :
    pc[w] = "tombstones" /\ ~AckEmpty /\ MissedBy(w) # {} => seen[w] # {}

(* A row is moved to a new revision only when what devices see in it       *)
(* changes, or when its book was edited, and edited back, between the two  *)
(* fingerprint passes: "steady-state walks touch no rows", and no device   *)
(* is made to replay what it has.                                          *)
NoChurn ==
  [][\A b \in Book :
       /\ rows[b] # NoRow
       /\ rows'[b] # NoRow
       /\ rows'[b].rev # rows[b].rev
       => \/ ContentOf(rows'[b]) # ContentOf(rows[b])
          \/ \E w \in Walker : pc[w] = "commit" /\ b \in moved[w]]_vars

(* Once the library stops changing, the table comes to say what the        *)
(* library says and stays so: no walk, failed, refused, fallen back or     *)
(* restarted, leaves a difference no later walk repairs.  What it says is  *)
(* what the fingerprint covers ("Two metas with the same fingerprint are   *)
(* indistinguishable to the app"): a change of the genre alone leaves the  *)
(* old genre in the row, and a book without a date stays a tombstone.  An  *)
(* empty library is not folded in without the operator's acknowledgement.  *)
Agrees(b) ==
  IF catalogue[b] = None
    THEN rows[b] = NoRow \/ ~rows[b].live
    ELSE /\ rows[b] # NoRow
         /\ rows[b].live = catalogue[b].dated
         /\ fingerprint(rows[b].meta) = fingerprint(catalogue[b])
LibraryIsEmpty == \A b \in Book : catalogue[b] = None
Converges == <>[]((LibraryIsEmpty /\ ~AckEmpty) \/ \A b \in Book : Agrees(b))
=============================================================================
