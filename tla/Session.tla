------------------------------ MODULE Session ------------------------------
(***************************************************************************)
(* The interface thread of the device: the sync session and its sheet, the *)
(* source switch, the settings and the local import                        *)
(* (eh_app/src/sync.rs, source.rs, local.rs, app/).                        *)
(*                                                                         *)
(* The thread's state is one record, app, and every method that changes it *)
(* is an operator from records to records, so that a handler is the        *)
(* composition of the calls it makes.  Chain and scan threads run beside   *)
(* it and reach it only through their channels.                            *)
(*                                                                         *)
(* The flag `syncing' has two owners, a chain and a scan, and a chain is   *)
(* cancelled through the flag of the last one armed, not through the       *)
(* channel it is read from.                                                *)
(***************************************************************************)
EXTENDS Naturals

CONSTANTS
  Chain,      \* the sync chains one behaviour may start (a bound)
  Host,       \* addresses of servers
  NoHost,     \* no server is configured
  Base,       \* base folders of the local source
  MaxGen,     \* bound on scan_job.gen
  None

ASSUME SessionAssumption ==
  /\ NoHost \notin Host
  /\ None \notin Chain
  /\ None \notin Base
  /\ Base # {}
  /\ Chain # {}                \* the boot may start a chain
  /\ MaxGen \in Nat \ {0}      \* or a scan

VARIABLE app

vars == <<app>>

Source == {"kavita", "local", "folder"}
Stage  == {"meta", "scan", "covers", "done", "fail"}
Quiet  == [batch |-> FALSE, end |-> "none"]
Unused == [pc |-> "unused", cancelled |-> FALSE, host |-> NoHost]
NoScan == [gen |-> 0, root |-> None, walked |-> FALSE, found |-> FALSE]

App ==
  [source  : Source,
   overlay : {"none", "sync", "other"},
   open    : BOOLEAN,                      \* sync_popup.open
   stray   : BOOLEAN,                      \* history: opened where nobody moves its stage
   stage   : Stage,                        \* sync_popup.stage
   syncing : BOOLEAN,
   rx      : Chain \cup {None},            \* the chain whose events arrive
   armed   : Chain \cup {None},            \* the chain whose flag is held
   mail    : [batch : BOOLEAN, end : {"none", "complete", "failed"}],
   chain   : [Chain -> [pc : {"unused", "running", "over", "dead"},
                        cancelled : BOOLEAN, host : Host \cup {NoHost}]],
   host    : Host \cup {NoHost},           \* config.api_url and the client
   gen     : 0 .. MaxGen,                  \* scan_job.gen
   scan    : [gen : 0 .. MaxGen, root : Base \cup {None},
              walked : BOOLEAN, found : BOOLEAN],
   dir     : Base,                         \* config.local_dir
   rows    : Base \cup {None},             \* the folder the local rows are of
   view    : [source : Source, rows : Base \cup {None}, failed : BOOLEAN],
   warmers : Nat,
   queued  : BOOLEAN,                      \* warm.total > 0
   left    : BOOLEAN,                      \* warm.remaining > 0
   exiting : BOOLEAN]

(* Every variable keeps its type.                                          *)
TypeOK == app \in App

---------------------------------------------------------------------------
(* The sheet.                                                              *)

(* Leaving the sync sheet closes its state machine.                        *)
SetOverlay(a, o) ==
  [a EXCEPT !.overlay = o,
            !.open = IF a.overlay = "sync" /\ o # "sync" THEN FALSE ELSE @,
            !.stray = IF a.overlay = "sync" /\ o # "sync" THEN FALSE ELSE @]

SyncPopupOpen(a, stage) ==
  IF a.open /\ a.overlay = "sync"
    THEN a
    ELSE SetOverlay([a EXCEPT !.open = TRUE, !.stage = stage], "sync")

(* The shelf is projected again under the active source.  A rebuild that    *)
(* fails (the database is locked) goes unnoticed: it leaves the rows it    *)
(* found or none of them, which of the two is not told apart here.         *)
Unknown == [source |-> "folder", rows |-> None, failed |-> TRUE]
RebuildView(a, done) ==
  [a EXCEPT !.view = IF done THEN [source |-> a.source, rows |-> a.rows, failed |-> FALSE]
                             ELSE Unknown]

---------------------------------------------------------------------------
(* Starting and stopping background work.                                  *)

(* A chain this behaviour has not started yet.                             *)
Spare     == \E c \in Chain : app.chain[c].pc = "unused"
NextChain(a) == CHOOSE c \in Chain : a.chain[c].pc = "unused"

(* Refused while syncing and without a server; otherwise a worker with its *)
(* own client, a new channel and a new cancel flag.                        *)
StartSync(a, popup, spawned) ==
  LET c     == NextChain(a)
      run   == [a EXCEPT !.rx = c, !.armed = c, !.mail = Quiet,
                         !.syncing = TRUE,
                         !.chain[c] = [pc |-> "running", cancelled |-> FALSE,
                                       host |-> a.host]]
      shown == IF popup THEN SyncPopupOpen(run, "meta") ELSE run
  IN  IF a.syncing \/ a.host = NoHost
        THEN a
        ELSE IF spawned
               THEN shown
               ELSE [shown EXCEPT !.rx = None, !.syncing = FALSE,
                                  !.chain[c].pc = "over", !.stray = popup]

(* Mutant of SyncAbort: the channel is dropped, the flag is not set.       *)
MutantSyncAbort(a) ==
  [a EXCEPT !.rx = None, !.mail = Quiet, !.syncing = FALSE]

(* The flag of the last armed chain is set and its channel dropped; nobody *)
(* waits for the worker.                                                   *)
SyncAbort(a) ==
  [a EXCEPT !.chain = [c \in Chain |->
                         IF c = a.armed THEN [@[c] EXCEPT !.cancelled = TRUE]
                                        ELSE @[c]],
            !.rx = None, !.mail = Quiet, !.syncing = FALSE]

(* A new scan replaces whatever scan was attached, resets the sheet and    *)
(* opens it.  Its thread reads the base folder it was started with.        *)
KickImport(a, spawned) ==
  LET run   == [a EXCEPT !.gen = @ + 1,
                         !.scan = [gen |-> a.gen + 1, root |-> a.dir,
                                   walked |-> FALSE, found |-> FALSE],
                         !.open = FALSE, !.stray = FALSE, !.stage = "meta",
                         !.syncing = TRUE]
      shown == SyncPopupOpen(run, "scan")
  IN  IF spawned
        THEN shown
        ELSE SetOverlay([shown EXCEPT !.scan = NoScan, !.syncing = FALSE], "none")

(* The scan is detached and its generation outdated; its thread goes on.   *)
CancelScan(a) == [a EXCEPT !.gen = @ + 1, !.scan = NoScan]

(* The warm pass over the covers: under Kavita only, a thread of its own   *)
(* for every pass that has books to look at.                               *)
CoverWarmStart(a, some, spawned) ==
  IF a.source # "kavita"
    THEN a
    ELSE [a EXCEPT !.queued = some, !.left = some,
                   !.warmers = IF some /\ spawned THEN @ + 1 ELSE @]

---------------------------------------------------------------------------
(* What a tick does.                                                       *)

(* Mutant of PollImport: the view is left as it was.                       *)
MutantPollImport(a, stored, done) ==
  LET result  == IF a.scan.found THEN a.scan.root ELSE None
      dropped == [a EXCEPT !.scan = NoScan]
      over    == [dropped EXCEPT !.syncing = FALSE]
      landed  == IF stored THEN [over EXCEPT !.rows = result] ELSE over
  IN  IF ~a.scan.walked
        THEN a
        ELSE IF a.scan.gen # a.gen
               THEN dropped
               ELSE [landed EXCEPT !.stage =
                       IF a.open /\ a.stage = "scan"
                         THEN IF stored THEN "done" ELSE "fail"
                         ELSE @]

(* The result of the attached scan replaces the local rows in one          *)
(* transaction, or the transaction fails and is rolled back.               *)
PollImport(a, stored, done) ==
  LET result  == IF a.scan.found THEN a.scan.root ELSE None
      dropped == [a EXCEPT !.scan = NoScan]
      over    == [dropped EXCEPT !.syncing = FALSE]
      landed  == IF stored THEN RebuildView([over EXCEPT !.rows = result], done)
                           ELSE over
  IN  IF ~a.scan.walked
        THEN a
        ELSE IF a.scan.gen # a.gen
               THEN dropped
               ELSE [landed EXCEPT !.stage =
                       IF a.open /\ a.stage = "scan"
                         THEN IF stored THEN "done" ELSE "fail"
                         ELSE @]

(* Mutant of FinishSync: the flag stays up.                                *)
MutantFinishSync(a, ok, done, some, spawned) ==
  LET idle == RebuildView([a EXCEPT !.rx = None, !.mail = Quiet], done)
      warm == CoverWarmStart(idle, some, spawned)
  IN  [warm EXCEPT !.stage = IF ~a.open THEN @
                             ELSE IF ok THEN "covers" ELSE "fail"]

FinishSync(a, ok, done, some, spawned) ==
  LET idle == RebuildView([a EXCEPT !.syncing = FALSE, !.rx = None,
                                    !.mail = Quiet], done)
      warm == CoverWarmStart(idle, some, spawned)
  IN  [warm EXCEPT !.stage = IF ~a.open THEN @
                             ELSE IF ok THEN "covers" ELSE "fail"]

(* Mutant of SyncPoll: a failure is not an end.                            *)
MutantSyncPoll(a, done, some, spawned) ==
  LET met == [a EXCEPT !.stage = IF a.mail.batch THEN "meta" ELSE @,
                       !.mail.batch = FALSE]
  IN  IF a.mail.end # "complete"
        THEN met
        ELSE FinishSync(met, TRUE, done, some, spawned)

(* All events that have arrived, in order: a batch, then the end.          *)
SyncPoll(a, done, some, spawned) ==
  LET met == [a EXCEPT !.stage = IF a.mail.batch THEN "meta" ELSE @,
                       !.mail.batch = FALSE]
  IN  IF a.mail.end = "none"
        THEN met
        ELSE FinishSync(met, a.mail.end = "complete", done, some, spawned)

(* Mutant of CloseTick: the last stage does not time out.                  *)
MutantCloseTick(a, elapsed) ==
  CASE ~a.open -> a
    [] a.open /\ a.stage = "fail" /\ elapsed -> SetOverlay(a, "none")
    [] a.open /\ a.stage = "covers" /\ ~(a.queued /\ a.left) ->
         [a EXCEPT !.stage = "done"]
    [] OTHER -> a

(* A failure and the final flash time out; the cover stage lasts as long   *)
(* as the warm pass; the stages of a running chain or scan do not end here.*)
CloseTick(a, elapsed) ==
  CASE ~a.open -> a
    [] a.open /\ a.stage \in {"fail", "done"} /\ elapsed -> SetOverlay(a, "none")
    [] a.open /\ a.stage = "covers" /\ ~(a.queued /\ a.left) ->
         [a EXCEPT !.stage = "done"]
    [] OTHER -> a

(* How a call turns out, if it is made.                                    *)
Outcome(made) == IF made THEN BOOLEAN ELSE {TRUE}

Tick(elapsed) ==
  /\ ~app.exiting
  /\ \E stored, shown \in Outcome(app.scan.walked),
        done, some, spawned \in Outcome(app.mail.end # "none") :
       app' = CloseTick(SyncPoll(PollImport(app, stored, shown), done, some, spawned), elapsed)

---------------------------------------------------------------------------
(* What the user does.                                                     *)

(* The sync button of the shelf.  Over a live import it opens the sheet at *)
(* a stage the import does not move.                                       *)
DoSync ==
  /\ ~app.exiting
  /\ app.overlay = "none"
  /\ \E spawned \in BOOLEAN :
       \/ /\ app.syncing
          /\ app' = [SyncPopupOpen(app, "meta") EXCEPT !.stray = app.rx = None]
       \/ /\ ~app.syncing
          /\ app.source = "local"
          /\ app.gen < MaxGen
          /\ app' = KickImport(app, spawned)
       \/ /\ ~app.syncing
          /\ app.source # "local"
          /\ Spare
          /\ app' = StartSync(app, TRUE, spawned)

(* The dialogues that cover the shelf: source chooser, settings, menus.    *)
OpenOther ==
  /\ ~app.exiting
  /\ app.overlay = "none"
  /\ app' = SetOverlay(app, "other")

(* A tap outside, the back key or a page key.                              *)
Dismiss ==
  /\ ~app.exiting
  /\ app.overlay # "none"
  /\ app' = SetOverlay(app, "none")

(* Mutant of Left: the scan goes on.                                       *)
MutantLeft(a, source) ==
  [SyncAbort(SetOverlay(a, "none")) EXCEPT !.source = source]

(* The source that was left takes its chain and its scan with it.          *)
Left(a, source) ==
  [CancelScan(SyncAbort(SetOverlay(a, "none"))) EXCEPT !.source = source]

ApplySource(source) ==
  LET left == Left(app, source)
  IN  /\ ~app.exiting
      /\ app.overlay = "other"
      /\ app.gen + 1 < MaxGen
      /\ Spare
      /\ \E done, spawned \in BOOLEAN :
           app' = CASE source = "kavita" ->
                         StartSync(RebuildView(left, done), FALSE, spawned)
                    [] source = "local" ->
                         RebuildView(IF left.rows = None
                                       THEN KickImport(left, spawned) ELSE left, done)
                    [] source = "folder" -> left

(* The keyboard of the settings page: saved, and a new client, at once.    *)
CommitHost(host) ==
  /\ ~app.exiting
  /\ app' = [app EXCEPT !.host = host]

(* Save: the chain is stopped, the endpoints rebuilt, a chain started, also *)
(* under the local source.                                                 *)
SettingsApply ==
  LET stopped == SyncAbort(app)
  IN  /\ ~app.exiting
      /\ app.overlay = "other"
      /\ Spare
      /\ \E spawned \in BOOLEAN :
           app' = SetOverlay(IF app.source = "folder"
                               THEN stopped
                               ELSE StartSync(stopped, FALSE, spawned), "none")

(* The folder picker, which lies over the shelf, commits a base folder.    *)
CommitLocalDir(dir) ==
  LET picked == SetOverlay([app EXCEPT !.dir = dir], "other")
  IN  /\ ~app.exiting
      /\ app.overlay = "none"
      /\ app.gen < MaxGen
      /\ \E spawned \in BOOLEAN :
           app' = IF app.source = "local" THEN KickImport(picked, spawned)
                                          ELSE picked

ResetDatabase ==
  LET wiped == [CancelScan(SyncAbort(app)) EXCEPT !.rows = None,
                                                 !.exiting = TRUE]
  IN  /\ ~app.exiting
      /\ app.overlay = "other"
      /\ app.gen < MaxGen
      /\ \E done \in BOOLEAN : app' = RebuildView(SetOverlay(wiped, "none"), done)

---------------------------------------------------------------------------
(* The process starts: what is left is the configuration and the rows.     *)
Fresh(source, host, dir, rows, gen, chain) ==
  [source |-> source, overlay |-> "none", open |-> FALSE, stray |-> FALSE, stage |-> "meta",
   syncing |-> FALSE, rx |-> None, armed |-> None, mail |-> Quiet,
   chain |-> chain, host |-> host, gen |-> gen, scan |-> NoScan,
   dir |-> dir, rows |-> rows,
   view |-> [source |-> source, rows |-> rows, failed |-> FALSE],
   warmers |-> 0, queued |-> FALSE, left |-> FALSE, exiting |-> FALSE]

Boot(a, online, done, some, spawned) ==
  LET work == CASE a.source = "local" -> KickImport(a, spawned)
                [] a.source = "kavita" /\ online -> StartSync(a, FALSE, spawned)
                [] OTHER -> a
  IN  CoverWarmStart(RebuildView(work, done), some, spawned)

Init ==
  \E source \in Source, host \in Host \cup {NoHost}, dir \in Base :
  \E online, done, some, spawned \in BOOLEAN :
    app = Boot(Fresh(source, host, dir, None, 0, [c \in Chain |-> Unused]),
               online, done, some, spawned)

(* The process is killed or has closed itself, and starts again.  The      *)
(* generation goes on only so that its bound counts over the whole life.   *)
Reboot ==
  LET dead == [c \in Chain |-> IF app.chain[c].pc = "running"
                                 THEN [app.chain[c] EXCEPT !.pc = "over"]
                                 ELSE app.chain[c]]
  IN  /\ Spare
      /\ app.gen < MaxGen
      /\ \E online, done, some, spawned \in BOOLEAN :
           app' = Boot(Fresh(app.source, app.host, app.dir, app.rows, app.gen, dead),
                       online, done, some, spawned)

---------------------------------------------------------------------------
(* The threads.                                                            *)
Running(c) == app.chain[c].pc = "running"

RoundLands(c) ==
  /\ Running(c)
  /\ app.rx = c
  /\ ~app.mail.batch
  /\ app' = [app EXCEPT !.mail.batch = TRUE]

(* The worker sends its last event, if anybody listens, and returns.       *)
Ends(a, c, how) ==
  [a EXCEPT !.chain[c].pc = "over",
            !.mail.end = IF a.rx = c THEN how ELSE @]

ChainEnds(c) ==
  /\ Running(c)
  /\ \E how \in {"complete", "failed"} : app' = Ends(app, c, how)

(* A cancelled worker returns at its next look at the flag, silently.      *)
ChainStops(c) ==
  /\ Running(c)
  /\ app.chain[c].cancelled
  /\ app' = [app EXCEPT !.chain[c].pc = "over"]

(* The store fails under the worker: it returns the error to nobody.       *)
StoreFails(c) ==
  /\ Running(c)
  /\ app' = [app EXCEPT !.chain[c].pc = "dead"]

ScanEnds ==
  /\ app.scan # NoScan
  /\ ~app.scan.walked
  /\ \E found \in BOOLEAN :
       app' = [app EXCEPT !.scan.walked = TRUE, !.scan.found = found]

(* A warm thread stores how many ids it has left.                          *)
WarmGoesOn ==
  /\ app.warmers > 0
  /\ app' = [app EXCEPT !.left = TRUE]

WarmEnds ==
  /\ app.warmers > 0
  /\ app' = [app EXCEPT !.warmers = @ - 1, !.left = FALSE]

Threads(c) == ChainEnds(c) \/ ChainStops(c) \/ StoreFails(c)

User ==
  \/ DoSync
  \/ OpenOther
  \/ Dismiss
  \/ \E source \in Source : ApplySource(source)
  \/ \E host \in Host : CommitHost(host)
  \/ SettingsApply
  \/ \E dir \in Base : CommitLocalDir(dir)
  \/ ResetDatabase

Next ==
  \/ \E elapsed \in BOOLEAN : Tick(elapsed)
  \/ User
  \/ Reboot
  \/ \E c \in Chain : RoundLands(c) \/ Threads(c)
  \/ ScanEnds
  \/ WarmGoesOn
  \/ WarmEnds

Spec == Init /\ [][Next]_vars

(* Frames keep being drawn and timers run out; requests time out, a scan   *)
(* reads a finite tree and a warm thread a finite list.  Nothing is        *)
(* assumed of the user.                                                    *)
Fairness ==
  /\ WF_vars(Tick(TRUE))
  /\ \A c \in Chain : WF_vars(Threads(c))
  /\ WF_vars(ScanEnds)
  /\ WF_vars(WarmEnds)

FairSpec == Spec /\ Fairness
---------------------------------------------------------------------------
(* Whatever chain runs uncancelled is the one the interface listens to:    *)
(* no source switch, setting, import or reset leaves a chain behind that   *)
(* still writes to the store while another one is started (sync_abort;     *)
(* DeltaSync takes it for granted in Start).                               *)
OneLiveChain ==
  \A c \in Chain : Running(c) /\ ~app.chain[c].cancelled => app.rx = c

(* A scan whose result can still be applied belongs to the local source    *)
(* and to the base folder that is configured: "its result would otherwise  *)
(* land under the new source" (apply_source), and a new base folder is     *)
(* scanned again (commit_local_dir).                                       *)
ImportBelongs ==
  app.scan # NoScan /\ app.scan.gen = app.gen =>
    app.source = "local" /\ app.scan.root = app.dir

(* The flag that refuses a new sync is up only while a chain or a scan is  *)
(* attached whose end will take it down: of its two owners, neither leaves *)
(* it up without the other.                                                *)
SyncingHasOwner == app.syncing => app.rx # None \/ app.scan # NoScan

(* Unless the last rebuild failed, the projected shelf is of the active    *)
(* source, and under the local source it shows the rows that are stored,   *)
(* whichever of switch, import, reset and boot came last: no change of     *)
(* either goes without a rebuild behind it, and a rebuild that failed is   *)
(* made good by the next one (rebuild_view, which takes an error for an    *)
(* empty shelf).  The folder browser has a body of its own.                *)
ViewIsCurrent ==
  ~app.view.failed =>
    /\ app.source # "folder" => app.view.source = app.source
    /\ app.source = "local" => app.view.rows = app.rows

(* The store failed under the chain that is listened to, which died without *)
(* a word: nobody will end its session.                                    *)
Mute == app.rx # None /\ app.chain[app.rx].pc = "dead"

(* Every session ends, unless the store failed under its chain.            *)
SyncEnds == app.syncing ~> (~app.syncing \/ Mute)

(* An open sheet closes by itself at whatever stage it was opened, with    *)
(* four exceptions, each a way the code leaves it open: a chain that died  *)
(* mute, a warm pass that got no thread, a worker that got none, and the   *)
(* button pressed over an import whose sheet had been dismissed.           *)
WarmStuck == app.queued /\ app.left /\ app.warmers = 0
SheetRetires == app.open ~> (~app.open \/ Mute \/ WarmStuck \/ app.stray)

(* What a session starts comes to an end: the flag and the sheet.          *)
SessionEnds == SyncEnds /\ SheetRetires

(* What chain, import and flag are to each other: none outlives the source, *)
(* the folder or the abort that ended it (sync.rs, local.rs, source.rs).   *)
OneSession == TypeOK /\ OneLiveChain /\ SyncingHasOwner /\ ImportBelongs
=============================================================================
