----------------------------- MODULE DeltaSync -----------------------------
(***************************************************************************)
(* Devices that keep a replica of the server's change log by replaying it  *)
(* from a cursor (eh_app/src/sync.rs, with the delta half of api/server.py *)
(* and the book rows of store.rs).  A chain of delta rounds runs in a      *)
(* worker thread; each round is applied, together with the cursor, in one  *)
(* transaction.  Rounds overlap with changes of the log, with aborts,      *)
(* failures, crashes and wipes of the device, and, when the device owns    *)
(* several workers, with one another.  The interface is a second writer of *)
(* the replica: it deletes the row of a book it has deleted from the cloud.*)
(***************************************************************************)
EXTENDS ChangeLog

CONSTANTS
  Device,
  Worker,       \* sync threads
  Owner,        \* the device of each worker
  KeyOf,        \* the name the server files a device's cursor under
  Reporter,     \* devices whose state report carries their cursor
  Batch,        \* limit of a delta round (EH_SYNC_BATCH)
  RoundCap,     \* rounds after which a chain stops (400)
  MaxRev,       \* bound: revisions the log hands out
  MaxFaults,    \* bound: aborts, failures, crashes and wipes
  None          \* no copy of a book / the book is not in the round

ASSUME DeltaAssumption ==
  /\ Owner \in [Worker -> Device]
  /\ KeyOf \in [Device -> Key]
  /\ Reporter \subseteq Device
  /\ Batch \in Nat \ {0}
  /\ RoundCap \in Nat
  /\ MaxRev \in Nat
  /\ MaxFaults \in Nat
  /\ None \notin Content \cup {Gone}

VARIABLES
  store,      \* per device: the copy of each book (the books table)
  cursor,     \* per device: sync_state.cursor
  erased,     \* history, per device: rows deleted there and not stored since
  pc,         \* per worker: where its chain stands
  at,         \* per worker: the chain's own cursor
  round,      \* per worker: the delta fetched last
  rounds,     \* per worker: rounds applied so far
  cancel,     \* per worker: the chain's cancel flag
  faults

devVars == <<store, cursor, erased, pc, at, round, rounds, cancel, faults>>
vars == <<rows, nextRev, reported, devVars>>

PCs == {"idle", "top", "fetch", "fetched", "apply", "report"}

Round ==
  [content : [Book -> Content \cup {Gone, None}], next : Nat, more : BOOLEAN]

NoRound == [content |-> [b \in Book |-> None], next |-> 0, more |-> FALSE]

TypeOK ==
  /\ LogTypeOK
  /\ store \in [Device -> [Book -> Content \cup {None}]]
  /\ cursor \in [Device -> Nat]
  /\ erased \in [Device -> SUBSET Book]
  /\ pc \in [Worker -> PCs]
  /\ at \in [Worker -> Nat]
  /\ round \in [Worker -> Round]
  /\ rounds \in [Worker -> Nat]
  /\ cancel \in [Worker -> BOOLEAN]
  /\ faults \in Nat

Init ==
  /\ LogInit
  /\ store = [d \in Device |-> [b \in Book |-> None]]
  /\ cursor = [d \in Device |-> 0]
  /\ erased = [d \in Device |-> {}]
  /\ pc = [w \in Worker |-> "idle"]
  /\ at = [w \in Worker |-> 0]
  /\ round = [w \in Worker |-> NoRound]
  /\ rounds = [w \in Worker |-> 0]
  /\ cancel = [w \in Worker |-> FALSE]
  /\ faults = 0

---------------------------------------------------------------------------
(* SELECT ... WHERE rev > c ORDER BY rev LIMIT Batch + 1, on a committed   *)
(* snapshot of the log.                                                    *)
Changed(c) == {b \in Book : rows[b] # NoRow /\ rows[b].rev > c}
Before(b, c) == {x \in Changed(c) : rows[x].rev < rows[b].rev}
Page(c) == {b \in Changed(c) : Cardinality(Before(b, c)) < Batch}
Last(S, c) ==
  IF S = {} THEN c
            ELSE CHOOSE r \in {rows[b].rev : b \in S} :
                   \A b \in S : rows[b].rev <= r

(* Mutant of Delta: the cursor jumps to the newest revision of the log.    *)
MutantDelta(c) ==
  [content |-> [b \in Book |-> IF b \in Page(c) THEN rows[b].content ELSE None],
   next    |-> nextRev - 1,
   more    |-> Page(c) # Changed(c)]

Delta(c) ==
  [content |-> [b \in Book |-> IF b \in Page(c) THEN rows[b].content ELSE None],
   next    |-> Last(Page(c), c),
   more    |-> Page(c) # Changed(c)]

---------------------------------------------------------------------------
(* The chain of a worker (sync).                                           *)

(* The threads of W end, and with them what they held in memory.           *)
EndChains(W) ==
  /\ pc' = [w \in Worker |-> IF w \in W THEN "idle" ELSE pc[w]]
  /\ at' = [w \in Worker |-> IF w \in W THEN 0 ELSE at[w]]
  /\ round' = [w \in Worker |-> IF w \in W THEN NoRound ELSE round[w]]
  /\ rounds' = [w \in Worker |-> IF w \in W THEN 0 ELSE rounds[w]]
  /\ cancel' = [w \in Worker |-> IF w \in W THEN FALSE ELSE cancel[w]]

(* start_sync: refused while `syncing', which only the end or the abort of *)
(* the chain before resets; a fresh cancel flag, a store handle of its     *)
(* own, the cursor read back from it.                                      *)
Start(w) ==
  /\ pc[w] = "idle"
  /\ \A v \in Worker : Owner[v] = Owner[w] => pc[v] = "idle" \/ cancel[v]
  /\ pc' = [pc EXCEPT ![w] = "top"]
  /\ at' = [at EXCEPT ![w] = cursor[Owner[w]]]
  /\ UNCHANGED <<logVars, store, cursor, erased, round, rounds, cancel, faults>>

(* The cancel flag is read between rounds: an aborted chain reports        *)
(* nothing.                                                                *)
CheckTop(w) ==
  /\ pc[w] = "top"
  /\ IF cancel[w]
       THEN EndChains({w})
       ELSE /\ pc' = [pc EXCEPT ![w] = "fetch"]
            /\ UNCHANGED <<at, round, rounds, cancel>>
  /\ UNCHANGED <<logVars, store, cursor, erased, faults>>

Fetch(w) ==
  /\ pc[w] = "fetch"
  /\ round' = [round EXCEPT ![w] = Delta(at[w])]
  /\ pc' = [pc EXCEPT ![w] = "fetched"]
  /\ UNCHANGED <<logVars, store, cursor, erased, at, rounds, cancel, faults>>

(* ... and once more after the fetch, which drops the round.               *)
CheckFetched(w) ==
  /\ pc[w] = "fetched"
  /\ IF cancel[w]
       THEN EndChains({w})
       ELSE /\ pc' = [pc EXCEPT ![w] = "apply"]
            /\ UNCHANGED <<at, round, rounds, cancel>>
  /\ UNCHANGED <<logVars, store, cursor, erased, faults>>

(* Mutant of Applied: a removal is skipped.                                *)
MutantAppliedSkipsGone(copy, content) ==
  [b \in Book |-> IF content[b] \in {None, Gone} THEN copy[b] ELSE content[b]]

(* upsert_book for what a round adds, delete_book for what it removes.     *)
Applied(copy, content) ==
  [b \in Book |-> IF content[b] = None THEN copy[b]
                  ELSE IF content[b] = Gone THEN None
                  ELSE content[b]]

(* apply_round: one transaction for the rows and the cursor.               *)
Apply(w) ==
  LET d == Owner[w]
  IN  /\ pc[w] = "apply"
      /\ store' = [store EXCEPT ![d] = Applied(store[d], round[w].content)]
      /\ erased' = [erased EXCEPT
           ![d] = {b \in @ : round[w].content[b] = None}]
      /\ cursor' = [cursor EXCEPT ![d] = round[w].next]
      /\ at' = [at EXCEPT ![w] = round[w].next]
      /\ rounds' = [rounds EXCEPT ![w] = rounds[w] + 1]
      /\ round' = [round EXCEPT ![w] = NoRound]
      /\ pc' = [pc EXCEPT ![w] =
           IF round[w].more /\ rounds[w] < RoundCap THEN "top" ELSE "report"]
      /\ UNCHANGED <<logVars, cancel, faults>>

(* Mutant of Report: the cursor the next chain would ask from, plus one.   *)
MutantReport(w) ==
  /\ pc[w] = "report"
  /\ \/ /\ Owner[w] \in Reporter
        /\ RecordDevice(KeyOf[Owner[w]], at[w] + 1)
     \/ UNCHANGED logVars
  /\ EndChains({w})
  /\ UNCHANGED <<store, cursor, erased, faults>>

(* report_state, whose outcome the chain ignores: the post may be lost.    *)
Report(w) ==
  /\ pc[w] = "report"
  /\ \/ /\ Owner[w] \in Reporter
        /\ RecordDevice(KeyOf[Owner[w]], at[w])
     \/ UNCHANGED logVars
  /\ EndChains({w})
  /\ UNCHANGED <<store, cursor, erased, faults>>

(* A request that fails, a transaction that is rolled back.                *)
Fail(w) ==
  /\ pc[w] \in {"fetch", "apply"}
  /\ faults < MaxFaults
  /\ faults' = faults + 1
  /\ EndChains({w})
  /\ UNCHANGED <<logVars, store, cursor, erased>>

(* sync_abort, which the worker does not wait for.                         *)
Abort(w) ==
  /\ pc[w] # "idle"
  /\ ~cancel[w]
  /\ faults < MaxFaults
  /\ faults' = faults + 1
  /\ cancel' = [cancel EXCEPT ![w] = TRUE]
  /\ UNCHANGED <<logVars, store, cursor, erased, pc, at, round, rounds>>

ChainsOf(d) == {w \in Worker : Owner[w] = d}

(* The app dies: what was committed stays.                                 *)
Crash(d) ==
  /\ \E w \in ChainsOf(d) : pc[w] # "idle"
  /\ faults < MaxFaults
  /\ faults' = faults + 1
  /\ EndChains(ChainsOf(d))
  /\ UNCHANGED <<logVars, store, cursor, erased>>

(* reset_database: the file is unlinked and made anew, whatever an old     *)
(* worker still writes goes to the unlinked one, and the app exits.        *)
Reset(d) ==
  /\ faults < MaxFaults
  /\ faults' = faults + 1
  /\ store' = [store EXCEPT ![d] = [b \in Book |-> None]]
  /\ cursor' = [cursor EXCEPT ![d] = 0]
  /\ erased' = [erased EXCEPT ![d] = {}]
  /\ EndChains(ChainsOf(d))
  /\ UNCHANGED logVars

(* "Delete from cloud" of the context menu, after the server has said yes: *)
(* the row goes at once, in the interface thread and on its own store,     *)
(* whatever a chain holds; the cursor stays, and the ledger will notice at *)
(* its next walk.                                                          *)
DeleteCloud(d, b) ==
  /\ store[d][b] # None
  /\ store' = [store EXCEPT ![d][b] = None]
  /\ erased' = [erased EXCEPT ![d] = @ \cup {b}]
  /\ UNCHANGED <<logVars, cursor, pc, at, round, rounds, cancel, faults>>

(* The server, within the bound on revisions.                              *)
ServerPublishes ==
  /\ \E batch \in SUBSET Book \ {{}} : \E written \in SUBSET batch :
        /\ nextRev + Cardinality(batch) <= MaxRev + 1
        /\ Publish(batch, written)
  /\ UNCHANGED devVars

ServerCompacts ==
  /\ \E b \in Book : Compactable(b)
  /\ Compact
  /\ UNCHANGED devVars

Step(w) ==
  \/ Start(w)
  \/ CheckTop(w)
  \/ Fetch(w)
  \/ CheckFetched(w)
  \/ Apply(w)
  \/ Report(w)

Next ==
  \/ ServerPublishes
  \/ ServerCompacts
  \/ \E w \in Worker : Step(w) \/ Fail(w) \/ Abort(w)
  \/ \E d \in Device : Crash(d) \/ Reset(d)
  \/ \E d \in Device, b \in Book : DeleteCloud(d, b)

Spec == Init /\ [][Next]_vars

(* Worker threads run, and every chain is followed by another: a boot, the *)
(* sync button and the settings page start them.                           *)
FairSpec == Spec /\ \A w \in Worker : WF_vars(Step(w))

---------------------------------------------------------------------------
(* What the device should hold of a row it has consumed.                   *)
CopyOf(row) == IF row.content = Gone THEN None ELSE row.content

(* ... unless the reader has deleted the book and no round has stored it   *)
(* since: then nothing, until the log says something new of it.            *)
Owed(d, b) == IF b \in erased[d] THEN None ELSE CopyOf(rows[b])

(* A device that has consumed the log up to its cursor holds exactly what  *)
(* the log says there, but for the books it deleted itself: no change at   *)
(* or below the cursor is missing, and no copy is older than the cursor    *)
(* claims.  The pages are cut by rev, the log moves between the pages,     *)
(* chains are aborted, fail, crash and start over from the cursor, and a   *)
(* row may be deleted while the round that says something of it is in the  *)
(* air (apply_round's one transaction, delta's rev > cursor,               *)
(* delete_book_row, which leaves the cursor alone).                        *)
ReplicaAgrees ==
  \A d \in Device, b \in Book :
    rows[b] # NoRow /\ rows[b].rev <= cursor[d] => store[d][b] = Owed(d, b)

(* A book whose tombstone the server has dropped is on no device: nothing  *)
(* would ever remove it there (_compact_tombstones, "no tombstone below it *)
(* can ever be replayed").                                                 *)
NoGhost ==
  \A d \in Device, b \in Book : rows[b] = NoRow => store[d][b] = None

(* Once the log stops moving, every device comes to hold what it says, by  *)
(* however many capped, aborted or failed chains (sync's rounds), but for  *)
(* the books it has deleted from the cloud and the log still has: what     *)
(* buries those is the next walk (SyncLedger).                             *)
CatchesUp ==
  \A d \in Device :
    <>[](\A b \in Book : rows[b] # NoRow => store[d][b] = Owed(d, b))
=============================================================================
