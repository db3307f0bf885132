# EinkHome: specifications, model checking and proofs

EinkHome is a home screen for e-ink readers. A small HTTP server (`api/`, Python) mirrors a
library (Kavita, or a mock catalogue) into a sync ledger; the device application
(`eh_ui/`, Rust) keeps a replica of that ledger in SQLite, shows it, downloads books and
covers, and can import local folders instead. This directory holds TLA+ modules
of both, the TLC configurations that check them on small instances, and TLAPS proofs of what holds
for every instance.

`PROJECT.json` says, for every definition, which source lines it stands for, and for every
property which run checks it. Paths below are relative to the repository.

## Inventory

| Component | State | Operations | What is hard |
|---|---|---|---|
| Sync ledger (`api/storage/ledger.py`) | `books`, `state.next_rev`, `state.last_walk`, `device_cursors` in SQLite; `_walking`, `_walk_done` in memory; index, seen set and page of a walk | `refresh_async`, the three walks, `_apply_*`, compaction, `record_device`, `delta` | walks against edits, outages, restarts and each other; a stale index; revisions that must never repeat |
| Delta endpoint (`api/api/server.py` 696-843) | none of its own | `sync/delta`, `sync/state` | waits for a walk it may not have started; pages cut while the log moves |
| Device sync chain (`eh_app/src/sync.rs`, `client.rs`) | chain cursor, fetched round, cancel flag, `sync_state.cursor` | rounds, apply, report, abort, reset | abort against apply, crash between rounds, a new chain beside an old one |
| Catalogue store (`store.rs`) | `books`, the full-text index, `suggest` and its ranks, `read_markers`, `search_history`, the table `view`, the cursor | upsert, import, delete, search, suggest, rebuild the view | documents under rowids that move and are used again; statements that commit one by one; flags that outlive a row |
| Sync session of the interface (`sync.rs` 316-571) | `syncing`, popup stage, event receiver, timers | start, poll, abort, finish, close | events that never come, two owners of one flag |
| Downloads (`downloads.rs`) | pending, live, generation, worker queue, batch tally | enqueue, worker, drain, cancel, top up, sweep | cancel against rename, stale results, a bounded window |
| Server covers (`server.py` 617-650, 1128-1288, `cover_cache.py`) | in-flight slots, files with an age, a bounded memory of missing covers | get, download once, warm | single flight, waiters, a provider that hangs, marks that must grow old |
| Device covers (`cover.rs`, `pages.rs`) | cache files and their temporary names, decoded forms, memory cache, `WarmHandle` | load, warm, flip, show, unlink | one temporary name for several writers; a counter shared by passes; work popped while offline |
| Local library (`local.rs`, `local/browser.rs`, `extract.rs`) | scan thread, staged rows, the folder on the screen | kick, cancel, poll, prune, extract, browse | a scan that finishes after its source was left; damaged files |
| Source switch, boot, settings (`source.rs`, `app/`, `config.rs`, `sysapp.rs`, `reader.rs`) | active source, layers of `bookshelf.cfg`, home task | switch, boot, save, promote | which background work belongs to which source; power cuts in a save or a copy |
| Shelf and search (`store.rs` views, `choosers.rs`, `search.rs`, `pages.rs`) | `view`, page, pages, tiles, drill stack, history | page, drill, group, sort, search, switch | copies of one truth that are rebuilt at different times |
| Viewers (`viewer.rs`, `wrap.rs`) | scrolls of the log and the licences, wrapped rows | page, drag, draw | scroll moved in one place, clamped in another; byte offsets |
| Sheets, menus, browser (`menu.rs`, `choosers.rs`, `input.rs`, `context_menu.rs`) | overlay, context, picker, folder listing | draw rows, dispatch a tap on row n | drawn from one list, dispatched through another, while the store changes |
| Launcher (`launcher/`) | list of applications, layout, scroll | build, scroll, launch | four sources merged; conditional values |
| Input (`eh_backend_linuxfb/evdev.rs`, `eh_backend_inkview`, `app/events.rs`) | multi-touch decoder, press, hold, drag | decode, dispatch | several fingers, lost frames, three sources of long presses |
| Presentation (`app/frame.rs`) | dirty flag, last overlay, what was flushed | synchronise, render, flush | frames that are skipped |
| Providers (`api/providers/`) | upstream session, page cursor | `walk_books`, `walk_fingerprints`, cover, file | paging over a library that changes |
| Suggestions of the server (`suggest.py`), rendering (`eh_render`), hosts, scripts | none, or pixels | - | not modelled |

How they interact: devices poll `sync/delta`; each poll asks the ledger for a refresh when the
last walk is older than `max_age_s`, and a background thread then walks the provider. The
device applies each page of the log and its new cursor in one transaction and finally posts
its state. The interface thread talks to its workers only through a channel, shared atomic
flags and the SQLite file.

### What makes each component correct

* Ledger: a changed row carries a revision never handed out before; a walk never buries a book
  served throughout; an empty answer buries nothing; unchanged books keep their revision; the
  table comes to agree with a library that has stopped changing.
* Delta chain: a device that has consumed the log up to its cursor holds exactly what the log
  says there; dropped tombstones leave no copy behind; the device catches up through caps,
  aborts, failures and wipes.
* Downloads: the interface's entries balance with the worker's jobs; a result of a cancelled
  job settles nothing; the window holds; the tally of a batch adds up; a flagged book has its
  file; whatever is queued is settled or cancelled in the end.
* Sync session: `syncing` is set exactly while a chain can still report, and every chain leads
  to a close; one owner of the popup's stage.
* Covers: one upstream request per cover at a time, every waiter answered; on the device a torn file
  is made whole, a placeholder never hides art, and the sheet that waits for the covers closes.
* Local library and source switch: what belongs to the source that was left never reaches the
  shelf of the one that is active; every book file is read as far as it can be.
* Catalogue: the index and the ranks describe the rows; a search finds books by their own text; a
  flag of a file survives every rewrite of its row.
* Shelf: cards, tiles and books without a value partition the library; a card opens what it counts;
  the way back leads to the tiles one came from.
* Settings: the next boot sees what was saved, but for what an override has left; a home task has its settings
  beside it.
* Sheets: a tap does what its row says. Launcher: every application once. Viewers: a button moves by
  a page; wrapping loses no text.
* Input: one pointer, one action, nothing left behind; what is drawn is what taps are tested against.

## Modules

| Module | Role |
|---|---|
| `ChangeLog` | abstract: a table of rows with fresh revisions, tombstones, compaction below the recorded cursors |
| `SyncLedger` | the ledger: walks, claims, faults, restarts; implements `ChangeLog` |
| `MCSyncLedger` | instances of `SyncLedger` |
| `DeltaSync` | devices replaying a `ChangeLog` (it extends it: server side abstract, device side detailed) |
| `MCDeltaSync` | instances of `DeltaSync` |
| `Downloads` | the download queue, its worker and the batch the interface shows |
| `MCDownloads` | instances of `Downloads` |
| `Session` | the interface thread: sync session, sheet, source switch, settings, import, boot |
| `MCSession` | instances of `Session` |
| `CoverFlight` | the covers of the server: single flight, cache, negative cache |
| `MCCoverFlight` | instances of `CoverFlight` |
| `Catalogue` | the SQLite file of the device: rows, full-text index, suggestions |
| `Shelf`, `MCShelf` | views, paging, groups, search and the way back; an instance |
| `Touch` | the multi-touch decoder of `evdev.rs` under the frames of the kernel |
| `Press` | presses, holds, drags and taps over `Touch`, or over the events of the PocketBook firmware |
| `Screen`, `MCScreen` | `Press` with `present()`: what the panel shows; an instance |
| `Warm`, `MCWarm` | the covers of the device; an instance |
| `Settings` | layers of the configuration, boot, readers, home task |
| `Extract` | covers and names of book files, format by format |
| `Launcher` | the applications launcher |
| `Viewer` | log and licence viewers, word wrap |
| `Menus` | sheets, choosers, cards, context menu, folder browser and picker |
| `MCDevice` | `Catalogue`, `Settings`, `Extract`, `Launcher`, `Viewer`, `Menus` as parts of one instance |
| `SyncLedger_proofs` | types, burials and the refinement of `ChangeLog`, for any number of overlapping walks; what a lone walk leaves alone |
| `DeltaSync_proofs` | fresh revisions of the log, types, the replica and the absence of ghosts, for all constants |
| `CoverFlight_proofs` | types, single flight, waiters and the negative cache, for any number of threads |
| `Downloads_proofs` | the sheet counts true, flags have files, void results settle nothing |
| `Session_proofs` | one session at a time, a current view |
| `Device_proofs` | the index and the searches of `Catalogue`, the saved configuration and the home task of `Settings`, the page, the way back and the wholeness of `Shelf` |
| `Warm_proofs` | local books show their own art |
| `Screen_proofs` | the page is shown; a contact is one gesture; a drag up or down never launches |

The two halves of the sync path meet in `ChangeLog`: TLC checks that `SyncLedger` implements it
under the refinement mapping `Log`, and `DeltaSync` is built on it, so that the devices are
checked and proved against every log the ledger may produce and not only against one ledger.

### ChangeLog

`rows`, `nextRev` and `reported` are the tables `books`, `state` and `device_cursors`. `Publish`
is one writer transaction: a batch of books is dealt the next revisions, and a subset of it is
really written (`INSERT OR IGNORE` and `UPDATE` may match nothing; the revision is then burnt).
`Compact` and `RecordDevice` are `_compact_tombstones` and `record_device`.

### SyncLedger

One step is one section under the writer lock or one answer of the provider. A walker is a
thread started by `refresh_async`: `Claim` is the claim under the lock, `Snapshot` the read of
the index, `FpPage`/`FpDone` the first fingerprint pass, `FetchPage`/`CommitPage`/`PageDone` the
plain or second pass with one transaction per page, `Tombstone` the burial of what was not
seen, `Finish` compaction, stamp and release, `Refuse`/`ProviderRaises`/`FallBack`/`FailStamp`
the ways of failing, and `Cleanup` the `finally` of `_refresh_bg`, which is a section of its own:
between `Finish` (or `Release`) and it, the claim is free while the thread lives. `rows` keeps
the meta of every row, `LedgerRow` the rule that a book without a date is stored as a
tombstone. The catalogue is edited freely by the environment, also between the two passes. `todo` holds the
pages still to read: `Withdraw` is a removal under a walk that asks for pages by number
(`_series_in_library` of `kavita.py`, `walk_books` of `base.py`), where what moves up into a page already
read is not listed in this pass; a walk of hashes runs over a list in memory and does not shift.
`steady` and `moved` are history variables. Books that differ on one page are dealt
revisions in any order, inserts before updates, as the code does.

Abstractions: a meta is a title the fingerprint covers, a genre it does not, and whether it is
dated. Any books of the pages to come may move at a removal (a series is several books); what an
addition moves is read twice, which changes nothing, and is left out. The synchronous `refresh` is the
same walk without the thread; its claim and release are
those of `Claim` and `Finish`. The commit of the open transaction of a failed walk by another
writer, possible between lines 283 and 288 because rollback and release are two sections, is
not modelled.

### DeltaSync

A worker is one sync thread: `Start` (`start_sync`, refused while a chain of the device runs
uncancelled), `CheckTop`, `Fetch` (`_handle_sync_delta` on a committed snapshot), `CheckFetched`,
`Apply` (one transaction for rows and cursor), `Report`. `Abort` sets the flag and does not
wait; `Crash` loses what was in memory; `Reset` is the wipe. `DeleteCloud` is the second writer of the
replica: the interface deletes the row of a book it has deleted from the cloud (`context_menu.rs`
141-159), on its own store handle and whatever a chain holds, without touching the cursor. The history
variable `erased` remembers those books until a round stores or removes them; they are the exception in
`ReplicaAgrees` and `CatchesUp` (a round in the air may even bring such a book back for a while). That the
ledger buries the book is `SyncLedger`'s `Remove` and `Converges`; only the mock provider grants the
request. `Reporter` names the devices whose report carries a cursor: the shipped client posts none, an
empty set.

### Downloads

`pending`, `live`, `gen`, `epoch` and `dl` are the fields of `Downloader` and `BatchUi`; `jobs` and
`done` are the two channels, as sets read at the smallest generation, because both are
first-in-first-out and generations only grow. `Press`, `Download`, `DownloadAll`, `Delete`,
`Cancel`, `CloseSheet` are what the interface does between frames; `DrainStart`, `Settle`,
`DrainStops`, `DrainEnd` are `drain_downloads`, step by step because the worker goes on
meanwhile. `Take`, `Fetch`, `Probe`, `Write`, `Rename`, `Recheck`, `Send` are the worker. `Reboot`
keeps the files, sweeps the fragments and sets the flags from the files.

Abstractions: each book has a path of its own; the order of the shelf within a batch is free;
rows removed by a sync meanwhile are left out.

### Session

The state of the interface thread is one record, `app`; every method that changes it is an operator
from records to records, and a handler is the composition of its calls (`ApplySource` is
`set_overlay`, `sync_abort`, `cancel_scan`, the new source, then `rebuild_view` with `resync` or
`kick_import`). `Tick` is one `App::tick`: the import is polled, then the chain's events, then the
timers of the sheet. A chain is a thread with its own cancel flag, of which the interface holds
only the last one (`armed`), while the events come from the channel it reads (`rx`): the two may
differ. `mail` is that channel: a batch that has arrived, and an end. Threads may fail to start
(`spawned`), a chain may end with an event, silently after a cancel, or silently because the store
failed (`"dead"`). `rows` is the base folder the stored local rows are of, `view` what was projected
last: `RebuildView` may fail, which `rebuild_view` takes for an empty shelf (`unwrap_or(0)`); the record then
says so (`failed`), and `ViewIsCurrent` holds again from the next rebuild that succeeds. `stray` is a
history variable: the sheet was opened at a stage that nobody will move.

Abstractions: overlays other than the sync sheet are one value; counters and texts of the sheet
are left out; the warm pass is the two facts the sheet reads, whether ids were queued and whether
any are left, with any number of warm threads storing into the second. What a chain writes to the
store is in `DeltaSync`; `OneLiveChain` is what `DeltaSync!Start` takes for granted there.

### CoverFlight

A thread answers one request or warms one book; both go through `_cover_png`, one action per look:
`Look` and `LookMissing` are the two tests of the caller, `LookAgain` that of `_cover_png`,
`TakeSlot` the section under `inflight_lock`, `Fetch`/`FetchFails` the provider, `Mark` and `Store`
what follows its answer, `PopSlot` and `SetEvent` the two halves of the `finally`, which the lock
does not hold together. `WaitTimesOut` and `Reread` are the bounded wait. `missing` is the ordered
dictionary of `mark_missing`, with `MarkAges` and `FileAges` as the clock; `Restart` keeps the files.
`waits` names the thread whose slot is waited for, because a slot has exactly one owner (`OneOwner`).

Abstractions: the body of the answer is left out, and with it the conditional request, which is
answered before anything is looked at and changes nothing; the gate of the warm-up, its probes and the
limit on parallel decodes are left out, a worker simply asks for any book.

### Catalogue

`books`, `docs`, `edges` and `rank` are the tables `books`, `search_fts`, `suggest` and `suggest_rank`. A
statement is an operator on a record of tables, an action a transaction: a page of the sync chain
(`SyncUpsert`, `SyncDelete`), the apply of an import (`Import`), and `delete_book`, whose two
statements commit one by one (`DeleteRowStart`, `DeleteRow`), so that a page or a crash may come between
them. `Reopen` is the next start with `fts_backfill`. Rowids are given out as SQLite does, one
above the largest, so a rowid is used again when the last row goes.

### Shelf

`view` is the table `view`, `entries` the tiles of the page. `ViewOf` is `view_rebuild`: the scan with its
cap, the pinned groups, cards, tiles and loose books in order. An action is a handler with every
rebuild and refresh it ends in; a rebuild may fail on a locked database (`busy`) and leave the old
view. The library changes under it (`LibraryChanges`) until a sync lands. `fresh`, `trail` and `stale` are
history variables.

### Touch, Press, Screen

`Touch` is the kernel (`finger`, `told`: it leaves out values that have not changed, and may drop a frame)
and `Decoder`, whose `flush_syn` ends a frame. One frame may land, move and lift any of the fingers; it is
read slot by slot (`ReadSlot`) and then sent. `Press` takes the events one at a time: `OnEvent` is
`App::on_event` with `apply_actions`, and `Hit` and `Reported` are what Slint makes of a position and
a release, against the tree as it was last synchronised. A place has a row, about 30 pixels high, and a
column, about 60 wide: `drag_total` counts rows only, a hold both, and an area of the tree is a row high
and several columns wide. The two coordinates of a position are told together.
`backend` chooses between the decoder and the events of inkview, where the firmware reports holds
itself, may swallow a release, and opens a keyboard. The travel of a press (`total`) is kept within
`MaxTravel`, at least the height of the panel: a press that is told every position never reaches the
bound. `Screen` adds `Present`.

### Warm

A pass is a thread with its list (`WorkerNext`), the interface fetches the covers of the page it flips
to (`Flip`, `FlipNext`) and shows tiles (`Show`, `Unlink`); `Get`, `Open`, `Write` and `Rename` are the steps of
`fetch`; an open, a write or a rename may fail (`Fails`), and a failed write leaves the file torn. The
file a thread has open is an inode: `inode` says whether it is now under the temporary
name, in place, or gone, so that a writer may go on writing what another one has installed.

### Settings, Extract, Launcher, Viewer, Menus

`Settings`: a configuration is a function of its keys; `Load`, `Merge` and `Finish` are `Config::load`, and every
handler that saves is an action; a save or a copy may be cut by the power (`Cut`, `PowerOff`). Two ghosts
remember what was stored on purpose (`stored`) and what boot saves wrote over it from elsewhere (`lent`).
`Extract`: a file is the sequence of members, records or tags its format gives it, each readable or
not; one action reads one file, for its cover or for its names. `Launcher`: `Assemble` is the merge of
groups, user apps, scan and desktop files, `LcResolve` the engine of conditional values, `Layout`,
`DragMove` and `ScrollPage` the column. `Viewer`: `ViewerScroll` and `DragMove` move a scroll, `PresentPage`
clamps and draws; `WrapTexts` wraps a text forward or from its end. `Menus`: `PresentMenu` draws rows,
a `Tap` action dispatches the row that is tapped, with `StoreChanges` and `ShelfChanges` in between.

## Runs

| Run | Instance | What it shows |
|---|---|---|
| `LedgerWalk` | two books on two pages, one walker, both kinds of provider, two titles, two edits, one fault, one reporting key, threshold 0 | types; `NoFalseTombstone`; `EmptyNeverWipes`; `NoChurn`; `ImplementsChangeLog` |
| `LedgerConverges` | two books on two pages, one walker, both kinds of provider, four metas (another title, another genre, no date), two edits, two faults, no reports, fair | the table agrees with the library in all the fingerprint covers in the end |
| `DeltaReplica` | two books, two contents, pages of one row, chains of at most two rounds, four revisions, one fault, one device that reports, fair | the replica agrees below the cursor, but for books deleted from the cloud; no ghosts; the log stays a log; the device catches up |
| `DeltaTwoChains` | two workers on one device | violated: an aborted chain's round lands on top of a later one |
| `DownloadsRun` | two books, window of one, three jobs between boots, with and without keys, fair | `SheetCounts`: entries balance with jobs, tallies add up where the sheet is modal; flags have files; stale results settle nothing; everything settles |
| `SessionRun` | two chains, three generations of imports, one server or none, two base folders, fair | `OneSession`: one live chain, imports that belong, a flag with an owner; a shelf that is current unless its last rebuild failed; `SessionEnds`: sessions and sheets end, with the four exceptions the code has |
| `CoverRun` | two books, one request thread, one worker, a negative cache of one entry, one edit, one fault, a provider that may hang | one owner per book, no orphaned waiter, only confirmed absences remembered, requests answered, covers that come back |
| `ShelfRun` | six books, one of which comes and goes, two dimensions, two orders, two searches, tiles by two and three, a history of two rows a page, one rebuild that fails | `ShelfIsWhole`: every book on one row, cards open what they count, tiles are the page; `BackReturns` |
| `ScreenRun` | two fingers that a frame may change at once, four places in three rows and two columns, a queue of one, one lost frame, both backends | `OneGesture`; `LaunchIsTap`; `PageShown` |
| `WarmRun` | a server book and a local book with art, two passes, a memory cache of one, fair | art shows; a torn file that somebody writes heals; the sheet closes |
| `DeviceRun` | the parts of `MCDevice`, one in each behaviour: three books and four rowids; three saves and two faults; all files, firmware tables and texts the modules name; four panel heights | the ten properties of the parts |
| `LogRows` | the same | violated: a row of the log viewer holds a line feed |

`DeviceRun` checks six modules in one run because they share no variable: a behaviour of all of them is
an interleaving of theirs, and each property is about one.

**Bounds.** `MaxEdits`, `MaxFaults`, `MaxRev` and `MaxGen` bound counters that the code does not
bound; they only cut behaviours off. Two books on two pages are enough for a page that
succeeds before one that fails, for a book that is served beside one that is missed, and for
pages cut in the middle of a change; one fault per behaviour already meets every step of a walk
or chain. Three jobs between boots allow a book to be queued, cancelled and queued again
beside a job of another book. Two chains are enough for one that outlives its abort beside its
successor, as two threads are for an owner between the two halves of its release and a waiter of
its slot that becomes the next owner, and two books for a negative cache of one entry that overflows
(the proofs cover any number of both); three generations for an import that is replaced or
cancelled and run again. Six books make two cards, a page without one, and a group that empties
under the reader who opened it. Two passes and the interface are three writers of one temporary
name; two fingers are one that is tracked and one that is not, and the travel of three rows is that of
the whole panel; four rowids let the last one go and be
used again. The panel heights are those at which `log_rows_vis` and `viewer_scroll` agree (600, 800)
and at which they do not (1024, 1872). A session stops when its chains are used up, and `MCDevice` when
a file was read or its bounds are, hence no check for deadlock there. Books are symmetric where only
safety is checked. `LedgerConverges` has the view `WithoutRevs`: an undated book gets a new revision at every
walk, so that the states are only finitely many up to revisions; without a device that reports no step
looks at one, and states that differ in nothing else go the same ways. One walker is enough there, because a
walk that overlaps another leaves a table like any other to the next; that the table stays a log and that
nothing listed is buried is proved for walks that overlap.

**Fairness.** `SyncLedger!FairSpec` assumes that a running walk goes on (its requests have
timeouts), that some device asks for a refresh again and again (`Claim`), that time passes
(`AgeOut`) and that an outage ends (`ComeUp`); edits and faults are never forced and stop at
their bounds, which stands for a library that is left alone. `DeltaSync!FairSpec` assumes that a
sync thread runs and that another chain follows (boot, sync button, settings); aborts, failures
and crashes need not stop except by the bound. `Downloads!FairSpec` assumes that the worker's
requests return (the client sets timeouts) and that frames keep being drawn; nothing is assumed
of the user. `Session!FairSpec` assumes the same of frames and threads; a chain may still end
silently, which `SessionEnds` names as its exception (`Mute`). The sheet has three more, each a way the code
leaves it open: a warm pass that got no thread (`WarmStuck`), and, as `stray`, a sync thread that could not be
spawned behind an open sheet and the button pressed over an import whose sheet had been dismissed. `CoverFlight!HangSpec` assumes that threads
run and that the bounded wait ends; of the provider nothing. `CoversComeBack` states what it needs
besides: requests to the provider end, the book is asked for, its mark grows old. `Warm!Spec` assumes that threads run (the
client has timeouts) and that the main loop ticks between the user's taps, strongly, because a tap
may keep it busy again and again; nothing is assumed of the network, which may come and go for ever.

## Proofs

All proofs hold for every value of the constants that satisfies the named assumptions.

### Server and sync

* `DeltaSync_proofs!LogRevsFresh`: revisions are unique and below `next_rev`. The invariant is
  inductive once types are added; the step that needs work is `Publish`, where the numbering is
  injective and starts at `nextRev`.
* `DeltaSync_proofs!TypeCorrect` and `DevicesKeepTheLog`: the devices' steps are steps or
  stutters of the log. The second needs that no cursor ever reported is above the log.
* `DeltaSync_proofs!ReplicaIsFaithful`: `ReplicaAgrees` with one chain per device (`OneChain`). It is
  not inductive as it stands. The strengthening adds that a chain's own cursor is the stored
  one, and that a fetched round, held in memory while the log moves on, still agrees with
  every row that lies at or below its end: rows only leave a revision for a fresh, higher one,
  so a round can become incomplete above its end but not wrong below it. `DeltaTwoChains`
  shows that the assumption of one chain is needed and that the code does not ensure it.
* `DeltaSync_proofs!SilentDevicesKeepNoGhosts`: as long as no device reports a cursor, nothing is
  compacted and no ghost can exist.
* `DeltaSync_proofs!TheOnlyDeviceKeepsNoGhosts`: nor with one device that does report and runs one chain at a time,
  the setting of `DeltaReplica`. What the server compacts lies at or below the cursor the device reported, and
  the invariant (`ReportInv`) says that the device has passed it: whatever left the log is gone from its
  store, or its removal is in the round it holds (`PassedIsGone`). A second device that never reports is outside
  of it, and there the property fails (see below).
* `SyncLedger_proofs!LedgerTypeCorrect`, `NoServedBookIsBuried`, `EmptyAnswerBuriesNothing`: for any
  number of walkers that overlap. The invariant relates index, seen set and pages left: a book
  served without a break since the snapshot is in the seen set, or on a page that the collecting
  pass has yet to read (`SteadyIsCovered`), unless a removal moved it past the reader, which `steady`
  takes out; a pass that yielded anything has a non-empty seen set
  and queues only seen books for the second pass (`YieldIsSeen`, `QueuedAreSeen`). It holds through
  the fallback because the seen set only grows until the thread ends.
* `SyncLedger_proofs!LedgerIsAChangeLog`: the refinement. `CommitPage` and `Tombstone` are `Publish` of
  the pages' books (`WriteIsPublish`), `Finish` is `Compact` or nothing, `RecordDevice` is itself, and
  every other step leaves the log as it is. Overlapping walks, which the code does not exclude,
  are covered.
* `SyncLedger_proofs!SteadyWalksTouchNoRows`: `NoChurn`, from two hypotheses. `OneWalker`: a walk that
  overlaps another goes by an index taken before the other wrote, and writes its rows again.
  `AllDated`: a book without a date is stored as a tombstone and "resurrected" by every walk (see
  below). Both are what the code does, so the theorem says for which libraries and
  schedules "steady-state walks touch no rows" is true. The invariant says of each phase what
  the walk goes by: its index is the table, what it queued differs from its row or was
  edited since, and so does the batch it is about to commit (`WalkIsCurrent`).
* `CoverFlight_proofs!CoverTypeCorrect`, `OneOwnerPerBook`, `NoWaiterIsLeft`, `OnlyAbsenceIsRemembered`: for any
  number of threads and books and any bound of the negative cache. That the table names exactly the
  owners (`SlotNamesOwner`) is inductive with types; a waiter's owner needs it besides that a waiter
  waits (`WaitersWait`), because the event wakes everybody who came before the slot left the table.
  The negative cache needs that an owner about to mark holds the provider's word (`MarkIsConfirmed`) and
  what removal from and marking in the ordered dictionary do (`OthersFacts`, `MarkMissingFacts`).

### Interface

* `Downloads_proofs!TheSheetCountsTrue`, `FlaggedBooksHaveFiles`, `VoidedResultsNeverSettle`: for any number of
  books and jobs and any window. The invariant follows a job from the queue over the worker to its
  result: in exactly one of these places while its entry is live (`EntriesFly`, `NoTwins`), so
  that the entries are as many as `pending`; and an unvoided success has left its file
  (`SuccessLanded`), which a delete cannot take away as long as the sheet keeps the reader from it.
* `Session_proofs!OneSessionAtATime`, `TheViewIsCurrent`: for any number of chains, servers and folders. Every
  operator on `app` has a lemma that says what it keeps, and a handler chains those of the calls it
  makes. The strengthening of `OneSession` is that the channel read is the channel of the flag held
  (`Heard`), that an attached import is never outdated (`Belongs`), and that a chain may run unmarked
  only under the local source (`Flagged`), which is why the next one can be started safely elsewhere. The
  assumption that there is a chain and a generation (`Chain # {}`, `MaxGen > 0`) is what the first
  boot uses up.
* `Screen_proofs!ThePageIsShown`: for any panel and list, and whatever the fingers do. Each operation on
  `App` either leaves what the page shows alone, or sets `dirty`, or ends in an overlay that is not
  the one last presented (`Keeps`), and these compose. Only a cell of the launcher closes its overlay
  unmarked, which is safe because the overlay it closes was presented.
* `Screen_proofs!AContactIsOneGesture`, `ATapLaunches`: for any number of fingers that land, move and lift in the
  same frame, and a queue of any length. The argument follows an event from the panel:
  - a frame is read slot by slot. Whatever the kernel leaves out because it told it before, the
    decoder still has (`Knows`, `SlotIsRead`), so that after the frame they agree on every slot
    (`Agree`, `FrameRead`), and as long as no frame is lost no finger is missed (`Level`). `Frame` is a
    recursive function; that it satisfies its equations follows from the least number at which it
    could fail to (`LeastNumber`, `FrameIsScanned`).
  - what `flush_syn` sends is a contact: Down, Moves, Up (`FlushedContact`). The queue is a line of
    contacts (`Line`): between two Downs there is an end, before a first Down there is an end if
    the application still holds a press, and the last position in it is the one the decoder has sent.
    The line goes on whichever end moves (`Appended`, `Taken`, `Waits`), for the decoder and the
    firmware alike.
  - the handlers turn a line into one action at most (`PressOK`, `EventEffect`), and the travel of a press is
    the way from its Down to the last position (`Travelled`). With a lost frame the decoder may release at
    the place of another finger, where the travel says nothing: hence `drops = 0` in `LaunchIsTap`.
  `TouchAssumption` and `PressAssumption` only say that places and slots are numbers, that `None` is neither,
  and that `MaxTravel` is not below the panel.

### Device

* `Device_proofs!TheIndexTracksTheRows`, `SearchesAreSound`, `FilesStayKnown`: for any number of books, words and
  rowids. The invariant adds that no two books share a rowid, so that a document left behind is
  under a rowid no book has, and is dropped before the rowid is used again.
* `Device_proofs!TheHomeTaskHasSettings`, `SettingsComeBack`: through every power cut. Key by key the
  file holds what boot saves have lent it, else what was stored last, else a default (`SettingsInv`), and a boot
  save adds to the first only where the layer above or the scratch folder is in use.
* `Device_proofs!TapsMeetTheirTiles`, `TheWayBack`: for any library, page sizes and histories. `BackReturns` is about
  a level that was left long ago; the invariant says of every level on the way back that its view, made again of
  the same books and the same choice, has the page that was saved, with the tiles that were left (`TrailIsTrue`).
  A history of a level is forgotten when its view would be another one.
* `Device_proofs!TheShelfIsWhole`: for a library of any size, any dimensions, orders and pages. Most of it is about what
  `view_rebuild` makes. The order lists the books: no two have the same place, and as many places are taken as there
  are books (`PlacesAreTaken`, `SortedLists`). The rows of `append_grouped` stand for disjoint sets that exhaust the
  books: of those that share a value, the least in the order heads the card (`RowsCover`, `GroupedIsWhole`). A card opens
  what it counts because the scope it adds keeps exactly the books it stands for (`OneLevelDown`), at any size; that
  no book is missing needs the scan to have them all (`ScanIsComplete`). The state adds little: a fresh view is the one that
  would be made (`FreshIsFresh`), and the choices are ones the engine has (`ChoicesKnown`). `ShelfAssumption` says that
  each order gives the books different places, as every comparator ends in the id, and that the empty search
  matches all.
* `Warm_proofs!LocalBooksShowTheirArt`: for any library, any number of passes and any network. No thread goes on with
  the placeholder, so that a local book never gets a file from the server. This rests on
  `ServerAssumption`: to an id it does not know the server answers with the placeholder, which
  `api/server.py` does for every id without a cover; ids of local books are made on the device and unknown to it.

### Only model-checked

* All liveness (`Converges`, `CatchesUp`, `EverythingSettles`, `SessionEnds`, `EveryRequestAnswered`, `CoversComeBack`,
  `TornHeals`, `SheetCloses`): the prover does not do fairness or `ENABLED`.
* `NoGhost` with two devices fails when one of them does not report (see below); the theorems cover one device that
  reports, and any number that do not, as the shipped client does not.
* `Extract!FileIsRead` and `Viewer!WrapKeepsText` are about folds over members and lines: induction over data.
* `Launcher!AppsOnce`: `LcResolve` follows a value of any depth and is the one `RECURSIVE` operator;
  nothing is proved in that module or in `MCDevice`, which extends it.
* `Viewer!ViewerFollows` and `Menus!TapDoesWhatItSays`: these modules have no constants. Their sheets, rows, heights and
  texts are fixed, some of them scaled down, and `DeviceRun` explores them all: a theorem would say no more than the run.

## Where code and comments disagree

`DeltaTwoChains` and `LogRows` carry two findings. Further ones that the models contain, or that were
met while writing them, without a run of their own:

### Server and sync

* `ledger.py` 353: the `finally` of a walk clears the claim of the next one, which may have begun after
  `Finish` released it; two walks then run at once, although 263 speaks of the one that runs. The proofs
  hold with overlapping walks.
* `kavita.py` 948: paging by number over a library that shrinks leaves a served book out of the pass, and the
  walk buries it (`Withdraw`); the next one brings it back, as `Converges` shows. `base.py` 219 and `kavita.py`
  982 call the order stable, which it is only while the library is.
* `ledger.py` 787: tombstones are compacted against the cursors reported; with a second device that does
  not report, it keeps a book whose tombstone is gone (`NoGhost` fails), although the docstring of
  `record_device` promises otherwise.
* `sync.rs` 239: a store error ends the worker without an event and leaves `syncing` up for a dead chain;
  `SessionEnds` names it as its exception (`Mute`).
* `app/events.rs` 379-394: a rebuild of the view that fails (`store.rs` 984-1066, the database is locked) is taken for
  an empty library: the rows found are kept, or, when the statement that empties the table went through, none, and
  nobody tries again before the next rebuild. `ViewIsCurrent` excepts it (`failed`).
* `app/events.rs` 208-211: the keyboard's commit of an address or a token builds a new client under a live
  chain, which `app/data.rs` 261-265 says is aborted first.
* `downloads.rs` 538: a single press opens the reader when the queue drains, also when the fetch
  has failed (`DrainEnd`); 397-399 describe download, then launch.
* `downloads.rs` 381-384 says that a batch's tally never bleeds into the next. Results carry no
  batch; where a key closes the sheet while jobs run (`app/events.rs` 311-315), the next batch
  counts them. `TallyAddsUp` is therefore stated for devices without such keys.
* `context_menu.rs` 204 with `downloads.rs` 505: a book deleted while its result waits to be
  drained is flagged as downloaded without a file; again only with such keys
  (`FlagsHaveFiles`).
* `ledger.py` 504: added_at doubles as the liveness mark, so a meta without a date
  (`providers/base.py` 72) is stored as a tombstone and "resurrected" with a fresh revision by every
  walk, although "steady-state walks touch no rows" (17-18). `NoChurn` is stated for what is dated (the
  instance of `LedgerWalk`, the hypothesis `AllDated` of the theorem); `LedgerConverges` has undated books.
* `sync.rs` 317: the button pressed over a live import, after a dismissal, opens the sheet at its
  metadata stage; `poll_import` only retires a sheet at the scan stage (`local.rs` 424, 439), so
  this one stays open with nothing to wait for until it is tapped away, although 315-320 say that
  it flashes Done. The same sheet is left open when the sync thread cannot be started (`sync.rs`
  400-404), although `local.rs` 297-298 says that path takes it down. `SheetRetires` excepts both (`stray`).
* `app/data.rs` 270: Save starts a server chain also under the local source; while it runs, an
  import that lands takes the syncing flag down (`local.rs` 351), and the chain runs on unmarked.
* `app/data.rs` 257-265: after a change of the server address the store keeps the cursor of the old
  server, although the shelf is meant to "reflect the new server immediately".
* `ledger.py` 119, 142-144: "Two metas with the same fingerprint are indistinguishable to the app", but
  the genre, which the delta sends (`server.py` 772) and the device groups by (`store.rs` 156), is not
  hashed: a change of genre alone reaches no device, ever. `Converges` says of a row what the fingerprint
  covers, and holds with a second genre (`Genres`) only because it says no more.
* `downloads.rs` 49-52: a job voided by a cancel "must not touch the final path"; the probe is asked once,
  before the part is written (60), and a cancel during the write leaves the file in place (`Rename`).
* `server.py` 1135-1137: "only one thread per book ever touches the provider". One at a time does
  (`OneOwner`); a thread that looked before the owner stored its result and came to the slot after it was
  gone is a second owner, and answers the placeholder if its own fetch fails (1188-1197), although
  the cover is in the cache by then. The probes of the warm-up (1256-1259) ask outside the slots.
* `server.py` 1156-1157 and `cover_cache.py` 28: undecodable bytes are negative-cached. They are not:
  `process_and_store` returns None and nothing is marked (1198-1200), so they are fetched for every request.
* `server.py` 622: "a matching client already holds the identical bytes"; the tag is that of the book, and
  goes out with placeholders, too, so that a device that asks conditionally keeps its placeholder.

### Device covers

* `cover.rs` 177-180: "a reader on another thread must never see a truncated file". One temporary name
  serves all writers: a pass truncates the file that another thread is about to rename into place.
  `TornHeals` shows that whoever opened the file writes it where it is now. If that write fails (181), the
  truncated file stays under its name, with nobody to write it, until a tile looks at it and
  `load_valid_rgb` unlinks it. `Unlink` may also remove a good cover.
* `cover.rs` 344: a pass pops an id before it knows that the network is up; ids popped offline are not fetched
  by that pass. Two passes share `remaining`; a thread that cannot be spawned leaves it above zero.

### Settings and home task

* `sysapp.rs` 109-113: on a PocketBook the folder of the home task is that of the app, so that removing the
  home task deletes the configuration the app runs on; promoting again while it runs as the removed home
  task fails, since its binary is gone.
* A power cut in the middle of the copy leaves a partial binary, which `detect` reports as installed.
* A card that is missing at boot makes `downloads_dir` `/tmp`, and `ensure_config` saves that.
* `app/mod.rs` 601-603: an override in `/tmp` "must NOT leak" into the base file, and `config.rs` 213-215: the
  boot save "must persist the base values, not the override". `ensure_config` puts only the address and the key
  of the file back (621-628): the group, the source, the reader, the language and the folders of the override are
  written by the first boot and stay when the override is gone; every later `save_config` writes its address
  and key, too. `SettingsSurvive` has what boot saves wrote so as its exception (`lent`).
* `Config::load` without a file of its own ignores the override.
* A key cleared by the user comes back as the default after a restart; an address cleared becomes
  `http://`. `cycle_reader` saves nothing.

### Book files

* `extract.rs` 79 and 91: "forgiving on broken files", "decodable by `decode_rgb`". An EPUB's cover is
  returned without the decode check of the other formats (127-139), and a named member that cannot be
  read or resolved has no fallback. A MOBI whose header or EXTH is cut off gives up every image behind it
  (1182, 1194-1198). A record 0 shorter than two bytes, or than the twenty the magic needs, is sliced all
  the same (1098, 1178): a panic, which with `panic = "abort"` (`Cargo.toml` 26) ends the application as
  soon as the tile is drawn, and again after a restart, since no tombstone is written. `FileIsRead` names
  these as its exceptions.
* `extract.rs` 1007-1009: with a `coverpage` "only that binary qualifies". When no binary has its id, the
  first one with an image type is taken (1046).
* `Grab` takes a self-closing element for an open one. `fb2_author` joins the text of a later
  element to a name. `tar_image_cover` skips twice after an image that does not decode. `epub_series`
  cuts at 95 bytes, inside a character if one lies there.

### Shelf, menus, viewers, launcher

* `app/data.rs` 216-222: after the picker closes the tiles are those of before, and a tap in the library is
  resolved against none until something redraws (`stale`).
* `choosers.rs`: a second tap after the group chooser has closed changes the order; the rows of the group
  chooser are resolved against `group_offer` at the tap. The picker cannot page; it starts at a folder whose name
  merely begins with the root's. A double tap on the system card promotes and removes again.
* `search.rs` 57-72: a tap on a history row "re-runs that stored query"; the row is looked up from the start of the
  history (71) although the page on the screen begins further on (`app/data.rs` 158), so that a tap on the second page
  runs a query of the first (`TapSearchRow`).
* A committed search is never cleared by Home; `Total` falls back to the table when the view is empty; the scan
  cap is applied before the source is looked at.
* `store.rs` 145: `upsert_book` leaves the old document under the old rowid; `fts_backfill` runs only when the
  index is empty. `IndexTracksRows` and `SearchIsSound` show that no search is misled.
* `viewer.rs`: the page of the log is counted as (y - 138) / 34, the rows shown as (y - 146) / 34 and at most 41;
  a button passes over one row on a panel of 1024 and six on one of 1872 (`Passed`). A drag past the top
  makes the scroll -1, which means pinned to the tail. `wrap_rows_last` at its cap keeps the beginning of the
  oldest line.
* Launcher: `Users` and `U_` entries give two headers; scanned files land under the last group when the
  `Users` group is not last; an application hidden in one table reappears through the scan; the buttons may never show
  whole the cells that a page boundary cuts.

### Input and presentation

* `app/events.rs` 121-122: "A drag (moved > 48px) is not a tap", but `drag_total` (70-72) adds up the vertical
  distance alone, so that a drag of any length along a launcher cell, about 200 pixels wide, launches it
  against `input.rs` 432, "a drag-release is not a tap"; `LaunchIsTap` is about rows. A tile reports a release
  anywhere in it, dragged or not.
* A tick and the firmware may both report one hold, and both act on a chrome button. The keyboard's drain eats
  the Up of the tap that closed it, which leaves a hold behind (`eaten`).
* `app/events.rs` 191-195 says a Show refreshes the reading progress; on the PocketBook `eh_pb/src/lib.rs` 129-143
  presents and returns before the event reaches it. A minute that rolls over flushes only
  the strip of what was painted. After a lost frame a release may come from the place of another finger, and
may launch what the press was dragged away from. A tap of two fingers gives an Up without a Down; `SYN_DROPPED` and the
  slot at open are ignored, which `Overflow` contains.

## Plan

1. `ChangeLog`, `SyncLedger`, `DeltaSync`, `CoverFlight` with their proofs; `Downloads`, `Session` (done).
2. The device: `Catalogue`, `Shelf`, `Touch`, `Press`, `Screen`, `Warm`, `Settings`, `Extract`, `Launcher`, `Viewer`,
   `Menus` (done).
3. Proofs of the safety properties of `Downloads`, `Session`, `Catalogue`, `Settings`, `Shelf`, `Warm`, `Screen`,
   of `NoChurn`, and of `NoGhost` for the one device that reports (done).
4. Paging over a library that shrinks, the second writer of the replica, horizontal travel, failed writes and
   rebuilds (done).

## Not modelled

Pixels, fonts and the refresh of the panel, window hosts, the SDL backend, key maps, scripts, the mock
provider and the ranking of suggestions on the server: no state that outlives a call, or pure
input and output. JSON, XML, zip and SQL are taken for what they do at the boundary: a value or
none, a transaction or none. HTTP framing and authentication likewise: a request succeeds or
fails. The wait of a delta request for the walk it triggered changes no state. Reading progress
(`progress.rs`) is read from a file of the firmware and only drawn.
