----------------------------- MODULE ChangeLog -----------------------------
(***************************************************************************)
(* What the server's sync ledger promises to the devices that replay it,   *)
(* with the way it is produced left out: a table of rows, one per book     *)
(* ever seen, each carrying the revision of its last change.  A change     *)
(* always moves the row to a revision never handed out before, a removal   *)
(* leaves a tombstone, and a tombstone leaves the table only when every    *)
(* device cursor the server has recorded lies beyond it.                   *)
(*                                                                         *)
(* SyncLedger implements this specification; DeltaSync puts the devices    *)
(* on top of it.                                                           *)
(***************************************************************************)
EXTENDS Integers, FiniteSets

CONSTANTS
  Book,       \* book ids
  Content,    \* what a live row says about its book, as a device renders it
  Key,        \* names under which devices report a cursor
  Gone,       \* the content of a tombstone (added_at IS NULL)
  NoRow,      \* no row for that id
  NoReport    \* no device_cursors row for that key

ASSUME ChangeLogAssumption ==
  /\ IsFiniteSet(Book)
  /\ Gone \notin Content
  /\ NoRow \notin [rev : Nat, content : Content \cup {Gone}]
  /\ NoReport \notin Int

VARIABLES
  rows,       \* the books table
  nextRev,    \* state.next_rev
  reported    \* the device_cursors table

logVars == <<rows, nextRev, reported>>

Row == [rev : Nat \ {0}, content : Content \cup {Gone}]

LogTypeOK ==
  /\ rows \in [Book -> Row \cup {NoRow}]
  /\ nextRev \in Nat \ {0}
  /\ reported \in [Key -> Nat \cup {NoReport}]

LogInit ==
  /\ rows = [b \in Book |-> NoRow]
  /\ nextRev = 1
  /\ reported = [k \in Key |-> NoReport]

---------------------------------------------------------------------------
(* Revisions n, n+1, ... dealt one to each book of a batch.                *)
Numbering(batch, n) ==
  {r \in [batch -> n .. n + Cardinality(batch) - 1] :
     \A b, c \in batch : b # c => r[b] # r[c]}

(* One transaction of the writer: every book of a batch is given the next  *)
(* revisions, and those of `written' have a row stored under them.  A      *)
(* revision whose statement matched no row (INSERT OR IGNORE of an id that *)
(* exists, UPDATE of one that does not) is burnt.                          *)
Publish(batch, written) ==
  /\ nextRev' = nextRev + Cardinality(batch)
  /\ UNCHANGED reported
  /\ \E r \in Numbering(batch, nextRev), c \in [written -> Content \cup {Gone}] :
       rows' = [b \in Book |->
                  IF b \in written THEN [rev |-> r[b], content |-> c[b]]
                                   ELSE rows[b]]

(* Mutant of BelowEveryReport: true of every revision while no device has  *)
(* reported.                                                               *)
MutantBelowEveryReport(rev) ==
  \A k \in Key : reported[k] # NoReport => rev < reported[k]

(* rev < (SELECT MIN(last_rev) FROM device_cursors): NULL, hence false,    *)
(* while no device has reported.                                           *)
BelowEveryReport(rev) ==
  /\ \E k \in Key : reported[k] # NoReport
  /\ \A k \in Key : reported[k] # NoReport => rev < reported[k]

Compactable(b) ==
  /\ rows[b] # NoRow
  /\ rows[b].content = Gone
  /\ BelowEveryReport(rows[b].rev)

Compact ==
  /\ rows' = [b \in Book |-> IF Compactable(b) THEN NoRow ELSE rows[b]]
  /\ UNCHANGED <<nextRev, reported>>

(* record_device: the revision a device says it has consumed, whatever it  *)
(* said before.  Devices report cursors they were handed.                  *)
RecordDevice(k, rev) ==
  /\ reported' = [reported EXCEPT ![k] = rev]
  /\ UNCHANGED <<rows, nextRev>>

LogNext ==
  \/ \E batch \in SUBSET Book : \E written \in SUBSET batch :
        Publish(batch, written)
  \/ Compact
  \/ \E k \in Key, rev \in 0 .. nextRev - 1 : RecordDevice(k, rev)

LogSpec == LogInit /\ [][LogNext]_logVars

---------------------------------------------------------------------------
(* Each revision names at most one change and lies below next_rev, so a    *)
(* reader that has consumed everything up to a cursor has missed nothing   *)
(* at or below it (rev INTEGER UNIQUE in the schema).                      *)
RevsAreFresh ==
  /\ \A b \in Book : rows[b] # NoRow => rows[b].rev < nextRev
  /\ \A b, c \in Book :
        b # c /\ rows[b] # NoRow /\ rows[c] # NoRow => rows[b].rev # rows[c].rev
=============================================================================
