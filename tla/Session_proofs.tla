--------------------------- MODULE Session_proofs ---------------------------
(***************************************************************************)
(* What the interface thread keeps of its sync session, for every number   *)
(* of chains, hosts and base folders: at most one chain is alive and it is *)
(* the one that is listened to, the syncing flag has an owner, an attached *)
(* scan belongs to the source and the folder of now, and the shelf that is *)
(* shown is the one that is stored.                                        *)
(*                                                                         *)
(* The handlers of Session are compositions of operators from states to    *)
(* states.  So is the proof: each operator has a lemma that says what it   *)
(* keeps, and a handler chains the lemmas of the calls it makes.           *)
(***************************************************************************)
EXTENDS Session, TLAPS

---------------------------------------------------------------------------
(* The inductive invariant, of a state a.                                  *)

(* The channel that is read is that of the chain whose flag is held.       *)
Heard(a) == a.rx # None => a.armed = a.rx

(* Who is told that the session has ended is told by the chain that is     *)
(* listened to, and it has returned.                                       *)
Told(a) ==
  a.mail.end # "none" => a.rx \in Chain /\ a.chain[a.rx].pc = "over"

(* OneLiveChain of the state a.                                            *)
Alive(a, c) == a.chain[c].pc = "running" /\ ~a.chain[c].cancelled
Alone(a) == \A c \in Chain : Alive(a, c) => a.rx = c

(* SyncingHasOwner of the state a.                                         *)
Owned(a) == a.syncing => a.rx # None \/ a.scan # NoScan

(* ImportBelongs of the state a, where no attached scan is ever outdated:  *)
(* whoever moves the generation on also replaces or detaches the scan.     *)
Belongs(a) ==
  a.scan # NoScan => /\ a.scan.gen = a.gen
                     /\ a.source = "local"
                     /\ a.scan.root = a.dir

(* Only an import that ends beside a chain lowers the flag under it, and   *)
(* only the local source imports: elsewhere a lowered flag means that no   *)
(* chain is listened to, so that the next one may be armed.                *)
Flagged(a) == a.rx # None /\ ~a.syncing => a.source = "local"

(* ViewIsCurrent of the state a.                                           *)
Current(a) ==
  ~a.view.failed =>
    /\ a.source # "folder" => a.view.source = a.source
    /\ a.source = "local" => a.view.rows = a.rows

Sound(a) ==
  /\ a \in App
  /\ Heard(a) /\ Told(a) /\ Alone(a) /\ Owned(a) /\ Belongs(a) /\ Flagged(a)

(* Nothing runs that could still land: the state between the end of one    *)
(* session and the start of the next.                                      *)
Idle(a) == a.rx = None /\ ~a.syncing

HasSpare(a) == \E c \in Chain : a.chain[c].pc = "unused"

(* The type of one entry of app.chain.                                     *)
Work == [pc : {"unused", "running", "over", "dead"},
         cancelled : BOOLEAN, host : Host \cup {NoHost}]

(* The type of app.scan.                                                   *)
Job == [gen : 0 .. MaxGen, root : Base \cup {None}, walked : BOOLEAN, found : BOOLEAN]

Kept(a) == Sound(a) /\ Current(a)

SessionInv == Kept(app)

---------------------------------------------------------------------------
(* What the session is made of: a call that leaves these fields alone and  *)
(* keeps the type keeps everything but the view.                           *)
SameWork(a, b) ==
  /\ b.source = a.source /\ b.syncing = a.syncing
  /\ b.rx = a.rx /\ b.armed = a.armed /\ b.chain = a.chain
  /\ b.gen = a.gen /\ b.scan = a.scan /\ b.dir = a.dir
  /\ b.mail.end = a.mail.end

(* What leaves the threads and the view alone keeps them sound. *)
LEMMA SameWorkSound ==
  ASSUME NEW a, NEW b, Sound(a), b \in App, SameWork(a, b)
  PROVE  /\ Sound(b)
         /\ Idle(a) => Idle(b)
         /\ HasSpare(a) => HasSpare(b)
BY DEF Sound, SameWork, Heard, Told, Alone, Alive, Owned, Belongs, Flagged, Idle, HasSpare

---------------------------------------------------------------------------
(* The sheet and the view.                                                 *)

(* Opening a sheet touches neither the work nor the view.                  *)
LEMMA SetOverlayEffect ==
  ASSUME NEW a \in App, NEW o \in {"none", "sync", "other"}
  PROVE  /\ SetOverlay(a, o) \in App
         /\ SameWork(a, SetOverlay(a, o))
         /\ SetOverlay(a, o).view = a.view /\ SetOverlay(a, o).rows = a.rows
<1> DEFINE up == IF a.overlay = "sync" /\ o # "sync" THEN FALSE ELSE a.open
<1>1. up \in BOOLEAN
  BY DEF App
<1> DEFINE lost == IF a.overlay = "sync" /\ o # "sync" THEN FALSE ELSE a.stray
<1>6. lost \in BOOLEAN
  BY DEF App
<1>2. SetOverlay(a, o) = [a EXCEPT !.overlay = o, !.open = up, !.stray = lost]
  BY DEF SetOverlay, App
<1> HIDE DEF up, lost
<1>3. SetOverlay(a, o) \in App
  BY <1>1, <1>2, <1>6 DEF App
<1>4. SameWork(a, SetOverlay(a, o))
  BY <1>1, <1>2, <1>6 DEF App, SameWork
<1>5. SetOverlay(a, o).view = a.view /\ SetOverlay(a, o).rows = a.rows
  BY <1>1, <1>2 DEF App
<1> QED
  BY <1>3, <1>4, <1>5

(* Opening or closing an overlay. *)
LEMMA SetOverlaySound ==
  ASSUME NEW a, Sound(a), NEW o \in {"none", "sync", "other"}
  PROVE  /\ Sound(SetOverlay(a, o))
         /\ Current(a) => Current(SetOverlay(a, o))
         /\ Idle(a) => Idle(SetOverlay(a, o))
         /\ HasSpare(a) => HasSpare(SetOverlay(a, o))
<1> DEFINE b == SetOverlay(a, o)
<1>1. b \in App /\ SameWork(a, b) /\ b.view = a.view /\ b.rows = a.rows
  BY SetOverlayEffect DEF Sound
<1> HIDE DEF b
<1>2. Sound(b) /\ (Idle(a) => Idle(b)) /\ (HasSpare(a) => HasSpare(b))
  BY <1>1, SameWorkSound
<1>3. Current(a) => Current(b)
  BY <1>1 DEF Current, SameWork
<1> QED
  BY <1>2, <1>3 DEF b

(* What opening the sync popup changes. *)
LEMMA PopupOpenEffect ==
  ASSUME NEW a \in App, NEW stage \in Stage
  PROVE  /\ SyncPopupOpen(a, stage) \in App
         /\ SameWork(a, SyncPopupOpen(a, stage))
         /\ SyncPopupOpen(a, stage).view = a.view
         /\ SyncPopupOpen(a, stage).rows = a.rows
<1>1. CASE a.open /\ a.overlay = "sync"
  BY <1>1 DEF SyncPopupOpen, SameWork
<1>2. CASE ~(a.open /\ a.overlay = "sync")
  <2> DEFINE b == [a EXCEPT !.open = TRUE, !.stage = stage]
  <2>1. b \in App /\ SameWork(a, b) /\ b.view = a.view /\ b.rows = a.rows
    BY DEF App, SameWork, Stage
  <2>2. SyncPopupOpen(a, stage) = SetOverlay(b, "sync")
    BY <1>2 DEF SyncPopupOpen
  <2> HIDE DEF b
  <2> QED
    BY <2>1, <2>2, SetOverlayEffect DEF SameWork
<1> QED
  BY <1>1, <1>2

(* Opening the sync popup keeps the session sound. *)
LEMMA PopupOpenSound ==
  ASSUME NEW a, Sound(a), NEW stage \in Stage
  PROVE  /\ Sound(SyncPopupOpen(a, stage))
         /\ Current(a) => Current(SyncPopupOpen(a, stage))
<1> DEFINE b == SyncPopupOpen(a, stage)
<1>1. b \in App /\ SameWork(a, b) /\ b.view = a.view /\ b.rows = a.rows
  BY PopupOpenEffect DEF Sound
<1> HIDE DEF b
<1>2. Sound(b) /\ (Current(a) => Current(b))
  BY <1>1, SameWorkSound DEF Current, SameWork
<1> QED
  BY <1>2 DEF b

(* Rebuilding the view makes it current, or says that it did not. *)
LEMMA RebuildSound ==
  ASSUME NEW a, Sound(a), NEW done \in BOOLEAN
  PROVE  /\ Sound(RebuildView(a, done)) /\ Current(RebuildView(a, done))
         /\ Idle(a) => Idle(RebuildView(a, done))
         /\ HasSpare(a) => HasSpare(RebuildView(a, done))
<1> DEFINE view == IF done THEN [source |-> a.source, rows |-> a.rows, failed |-> FALSE]
                           ELSE Unknown
           b == [a EXCEPT !.view = view]
<1>1. a \in App
  BY DEF Sound
<1>2. /\ view \in [source : Source, rows : Base \cup {None}, failed : BOOLEAN]
      /\ ~view.failed => view.source = a.source /\ view.rows = a.rows
  BY <1>1 DEF App, Unknown, Source
<1>3. RebuildView(a, done) = b
  BY DEF RebuildView
<1> HIDE DEF view
<1>4. b \in App
  BY <1>1, <1>2 DEF App
<1>5. SameWork(a, b) /\ b.view = view /\ b.rows = a.rows
  BY <1>1 DEF App, SameWork
<1> HIDE DEF b
<1>6. Current(b)
  BY <1>2, <1>5 DEF Current, SameWork
<1> QED
  BY <1>3, <1>4, <1>5, <1>6, SameWorkSound

---------------------------------------------------------------------------
(* Starting and stopping background work.                                  *)

(* A chain may be started where none is listened to: then none is alive.   *)
LEMMA StartSyncSound ==
  ASSUME NEW a, Sound(a), HasSpare(a), a.syncing \/ a.rx = None,
         NEW popup \in BOOLEAN, NEW spawned \in BOOLEAN
  PROVE  /\ Sound(StartSync(a, popup, spawned))
         /\ Current(a) => Current(StartSync(a, popup, spawned))
<1>1. CASE a.syncing \/ a.host = NoHost
  BY <1>1 DEF StartSync
<1>2. CASE ~(a.syncing \/ a.host = NoHost)
  <2> DEFINE c == NextChain(a)
             new == [pc |-> "running", cancelled |-> FALSE, host |-> a.host]
             run == [a EXCEPT !.rx = c, !.armed = c, !.mail = Quiet,
                              !.syncing = TRUE, !.chain[c] = new]
  <2>1. c \in Chain /\ a.chain[c].pc = "unused" /\ c # None
    BY SessionAssumption DEF NextChain, HasSpare
  <2>2. a.rx = None /\ ~a.syncing /\ a \in App
    BY <1>2 DEF Sound
  <2> HIDE DEF c
  <2>3. new \in Work
    BY <2>2 DEF App, Work
  <2>4. new.pc = "running" /\ ~new.cancelled
    OBVIOUS
  <2> HIDE DEF new
  <2> DEFINE cs == [a.chain EXCEPT ![c] = new]
  <2>7. a.chain \in [Chain -> Work]
    BY <2>2 DEF App, Work
  <2>12. cs \in [Chain -> Work] /\ cs[c] = new /\ \A d \in Chain : d # c => cs[d] = a.chain[d]
    BY <2>1, <2>3, <2>7 DEF Work
  <2>13. run = [a EXCEPT !.rx = c, !.armed = c, !.mail = Quiet, !.syncing = TRUE, !.chain = cs]
    BY <2>2 DEF App
  <2> HIDE DEF cs
  <2>5. /\ run \in App
        /\ run.rx = c /\ run.armed = c /\ run.syncing /\ run.chain = cs
        /\ run.mail.end = "none"
        /\ run.source = a.source /\ run.gen = a.gen /\ run.scan = a.scan
        /\ run.dir = a.dir /\ run.view = a.view /\ run.rows = a.rows
    <3> HIDE DEF run
    <3>1. cs \in [Chain -> Work]
      BY <2>12
    <3>2. run \in App
      <4>1. c \in Chain \cup {None} /\ TRUE \in BOOLEAN /\ a \in App
        BY <2>1, <2>2
      <4>2. Quiet \in [batch : BOOLEAN, end : {"none", "complete", "failed"}]
        BY DEF Quiet
      <4> QED
        BY <2>13, <3>1, <4>1, <4>2 DEF App, Work
    <3>3. /\ run.rx = c /\ run.armed = c /\ run.syncing /\ run.chain = cs
          /\ run.mail.end = "none"
          /\ run.source = a.source /\ run.gen = a.gen /\ run.scan = a.scan
          /\ run.dir = a.dir /\ run.view = a.view /\ run.rows = a.rows
      BY <2>2, <2>13 DEF App, Quiet
    <3> QED
      BY <3>2, <3>3
  <2> HIDE DEF run
  <2>6. \A d \in Chain : ~Alive(a, d)
    BY <2>2, SessionAssumption DEF Sound, Alone
  <2>8. Sound(run) /\ (Current(a) => Current(run))
    <3>1. Alone(run)
      BY <2>1, <2>5, <2>6, <2>12 DEF Alone, Alive
    <3> QED
      BY <2>1, <2>5, <3>1 DEF Sound, Heard, Told, Owned, Belongs, Flagged, Current
  <2> DEFINE shown == IF popup THEN SyncPopupOpen(run, "meta") ELSE run
  <2>9. Sound(shown) /\ (Current(a) => Current(shown)) /\ SameWork(run, shown)
    BY <2>8, PopupOpenSound, PopupOpenEffect DEF Stage, Sound, SameWork
  <2> HIDE DEF shown
  <2>10. CASE spawned
    <3>1. StartSync(a, popup, spawned) = shown
      BY <1>2, <2>10 DEF StartSync, shown, run, new, c
    <3> QED
      BY <2>9, <3>1
  <2>11. CASE ~spawned
    <3> DEFINE failed == [shown EXCEPT !.rx = None, !.syncing = FALSE,
                                       !.chain[c].pc = "over", !.stray = popup]
    <3>1. StartSync(a, popup, spawned) = failed
      BY <1>2, <2>11 DEF StartSync, shown, run, new, c
    <3> DEFINE over == [cs EXCEPT ![c].pc = "over"]
    <3>2. shown \in App /\ shown.chain = cs /\ shown.mail.end = "none"
      BY <2>5, <2>9 DEF Sound, SameWork
    <3>3. /\ over \in [Chain -> Work] /\ over[c].pc = "over"
          /\ \A d \in Chain : d # c => over[d] = cs[d]
      BY <2>1, <2>12 DEF Work
    <3>4. failed = [shown EXCEPT !.rx = None, !.syncing = FALSE, !.chain = over,
                                 !.stray = popup]
      BY <3>2 DEF App
    <3> HIDE DEF over, failed
    <3>5. /\ failed \in App
          /\ failed.rx = None /\ ~failed.syncing /\ failed.chain = over
          /\ failed.source = shown.source /\ failed.gen = shown.gen
          /\ failed.scan = shown.scan /\ failed.dir = shown.dir
          /\ failed.view = shown.view /\ failed.rows = shown.rows
          /\ failed.mail.end = "none"
      BY <3>2, <3>3, <3>4 DEF App, Work
    <3>6. \A d \in Chain : ~Alive(failed, d)
      BY <2>6, <2>12, <3>3, <3>5 DEF Alive
    <3>7. Sound(failed) /\ (Current(a) => Current(failed))
      BY <2>9, <3>5, <3>6 DEF Sound, Heard, Told, Alone, Owned, Belongs, Flagged, Current
    <3> QED
      BY <3>1, <3>7 DEF failed
  <2> QED
    BY <2>10, <2>11
<1> QED
  BY <1>1, <1>2

(* An abort leaves nothing alive: what was alive was listened to, what is  *)
(* listened to is armed, and the armed flag is set.                        *)
LEMMA SyncAbortSound ==
  ASSUME NEW a, Sound(a)
  PROVE  /\ Sound(SyncAbort(a)) /\ Idle(SyncAbort(a))
         /\ Current(a) => Current(SyncAbort(a))
         /\ HasSpare(a) => HasSpare(SyncAbort(a))
         /\ SyncAbort(a).gen = a.gen /\ SyncAbort(a).scan = a.scan
<1> DEFINE b == SyncAbort(a)
           cs == [c \in Chain |->
                    IF c = a.armed THEN [a.chain[c] EXCEPT !.cancelled = TRUE]
                                   ELSE a.chain[c]]
<1>1. a \in App
  BY DEF Sound
<1>2. \A c \in Chain :
        /\ a.chain[c] \in Work
        /\ cs[c].pc = a.chain[c].pc
        /\ c = a.armed => cs[c].cancelled
        /\ c # a.armed => cs[c] = a.chain[c]
  BY <1>1 DEF App, Work
<1>3. cs \in [Chain -> Work]
  BY <1>2 DEF Work
<1>4. b = [a EXCEPT !.chain = cs, !.rx = None, !.mail = Quiet, !.syncing = FALSE]
  BY <1>1 DEF SyncAbort, App
<1> HIDE DEF cs, b
<1>5. /\ b \in App /\ b.chain = cs /\ b.rx = None /\ b.syncing = FALSE
      /\ b.mail.end = "none"
      /\ b.source = a.source /\ b.gen = a.gen /\ b.scan = a.scan
      /\ b.dir = a.dir /\ b.view = a.view /\ b.rows = a.rows
  BY <1>1, <1>3, <1>4 DEF App, Quiet, Work
<1>6. Alone(b)
  BY <1>2, <1>5, SessionAssumption DEF Alone, Alive, Sound, Heard
<1>7. Sound(b) /\ Idle(b) /\ (Current(a) => Current(b)) /\ (HasSpare(a) => HasSpare(b))
  BY <1>2, <1>5, <1>6 DEF Sound, Heard, Told, Owned, Belongs, Flagged, Current, Idle, HasSpare
<1> QED
  BY <1>5, <1>7 DEF b

(* The scan detached and the flag lowered, as after a scan that ended and  *)
(* after one that got no thread.                                           *)
LEMMA DetachEffect ==
  ASSUME NEW a \in App
  PROVE  /\ [a EXCEPT !.scan = NoScan, !.syncing = FALSE] \in App
         /\ [a EXCEPT !.scan = NoScan] \in App
<1>1. NoScan \in Job
  BY SessionAssumption DEF NoScan, Job
<1> DEFINE b == [a EXCEPT !.scan = NoScan]
<1>2. b \in App
  BY <1>1 DEF App, Job
<1>3. [a EXCEPT !.scan = NoScan, !.syncing = FALSE] = [b EXCEPT !.syncing = FALSE]
  BY DEF App
<1> HIDE DEF b
<1>4. [b EXCEPT !.syncing = FALSE] \in App
  BY <1>2 DEF App
<1> QED
  BY <1>2, <1>3, <1>4 DEF b

(* A scan may be started under the local source whatever was attached      *)
(* before: it replaces it, and it reads the folder of now.                 *)
LEMMA KickImportSound ==
  ASSUME NEW a \in App, Heard(a), Told(a), Alone(a),
         a.source = "local", a.gen < MaxGen, NEW spawned \in BOOLEAN
  PROVE  /\ Sound(KickImport(a, spawned))
         /\ Current(a) => Current(KickImport(a, spawned))
<1> DEFINE new == [gen |-> a.gen + 1, root |-> a.dir, walked |-> FALSE, found |-> FALSE]
           run == [a EXCEPT !.gen = @ + 1, !.scan = new, !.open = FALSE,
                            !.stray = FALSE, !.stage = "meta", !.syncing = TRUE]
           shown == SyncPopupOpen(run, "scan")
           failed == [shown EXCEPT !.scan = NoScan, !.syncing = FALSE]
<1>1. a.gen + 1 \in 0 .. MaxGen /\ a.dir \in Base
  BY SessionAssumption DEF App
<1>2. new \in Job
  BY <1>1 DEF Job
<1>3. new.gen = a.gen + 1 /\ new.root = a.dir /\ new # NoScan
  BY <1>1, SessionAssumption DEF NoScan
<1> HIDE DEF new
<1>5. run \in App
  BY <1>1, <1>2 DEF App, Stage, Job
<1>6. /\ run.gen = new.gen /\ run.scan = new /\ run.syncing = TRUE
      /\ run.source = a.source /\ run.rx = a.rx /\ run.armed = a.armed
      /\ run.chain = a.chain /\ run.mail = a.mail /\ run.dir = a.dir
      /\ run.view = a.view /\ run.rows = a.rows
  BY <1>3 DEF App
<1> HIDE DEF run
<1>7. shown \in App /\ SameWork(run, shown) /\ shown.view = run.view /\ shown.rows = run.rows
  BY <1>5, PopupOpenEffect DEF Stage
<1> HIDE DEF shown
<1>8. CASE spawned
  <2>1. KickImport(a, spawned) = shown
    BY <1>8 DEF KickImport, shown, run, new
  <2>2. Sound(shown) /\ (Current(a) => Current(shown))
    BY <1>3, <1>6, <1>7
       DEF SameWork, Sound, Heard, Told, Alone, Alive, Owned, Belongs, Flagged, Current
  <2> QED
    BY <2>1, <2>2
<1>9. CASE ~spawned
  <2>1. KickImport(a, spawned) = SetOverlay(failed, "none")
    BY <1>9 DEF KickImport, failed, shown, run, new
  <2>2. failed \in App
    BY <1>7, DetachEffect
  <2>3. /\ failed.scan = NoScan /\ failed.syncing = FALSE
        /\ failed.source = shown.source /\ failed.rx = shown.rx /\ failed.armed = shown.armed
        /\ failed.chain = shown.chain /\ failed.mail = shown.mail /\ failed.dir = shown.dir
        /\ failed.view = shown.view /\ failed.rows = shown.rows
    BY <1>7 DEF App
  <2> HIDE DEF failed
  <2>4. Sound(failed) /\ (Current(a) => Current(failed))
    BY <1>6, <1>7, <2>2, <2>3
       DEF SameWork, Sound, Heard, Told, Alone, Alive, Owned, Belongs, Flagged, Current
  <2> QED
    BY <2>1, <2>4, SetOverlaySound
<1> QED
  BY <1>8, <1>9

(* Cancelling the scan of the local library. *)
LEMMA CancelScanSound ==
  ASSUME NEW a, Sound(a), Idle(a), a.gen < MaxGen
  PROVE  /\ Sound(CancelScan(a)) /\ Idle(CancelScan(a))
         /\ Current(a) => Current(CancelScan(a))
         /\ HasSpare(a) => HasSpare(CancelScan(a))
         /\ CancelScan(a).scan = NoScan /\ CancelScan(a).gen = a.gen + 1
<1> DEFINE b == CancelScan(a)
<1>1. a \in App /\ a.gen + 1 \in 0 .. MaxGen
  BY SessionAssumption DEF Sound, App
<1>2. NoScan \in Job
  BY SessionAssumption DEF NoScan, Job
<1>3. b \in App
  BY <1>1, <1>2 DEF CancelScan, App, Job
<1>4. /\ b.scan = NoScan /\ b.gen = a.gen + 1 /\ b.syncing = a.syncing
      /\ b.source = a.source /\ b.rx = a.rx /\ b.armed = a.armed
      /\ b.chain = a.chain /\ b.mail = a.mail /\ b.dir = a.dir
      /\ b.view = a.view /\ b.rows = a.rows
  BY <1>1 DEF CancelScan, App
<1> HIDE DEF b
<1>5. Sound(b) /\ Idle(b) /\ (Current(a) => Current(b)) /\ (HasSpare(a) => HasSpare(b))
  BY <1>3, <1>4 DEF Sound, Heard, Told, Alone, Alive, Owned, Belongs, Flagged, Current, Idle, HasSpare
<1> QED
  BY <1>4, <1>5 DEF b

(* The pass over the covers touches nothing of the session.                *)
LEMMA WarmStartEffect ==
  ASSUME NEW a \in App, NEW some \in BOOLEAN, NEW spawned \in BOOLEAN
  PROVE  /\ CoverWarmStart(a, some, spawned) \in App
         /\ SameWork(a, CoverWarmStart(a, some, spawned))
         /\ CoverWarmStart(a, some, spawned).view = a.view
         /\ CoverWarmStart(a, some, spawned).rows = a.rows
<1> DEFINE more == IF some /\ spawned THEN a.warmers + 1 ELSE a.warmers
           b == [a EXCEPT !.queued = some, !.left = some, !.warmers = more]
<1>1. more \in Nat
  BY DEF App
<1>2. CASE a.source = "kavita"
  <2>1. CoverWarmStart(a, some, spawned) = b
    BY <1>2 DEF CoverWarmStart, App
  <2> HIDE DEF more
  <2>2. b \in App
    BY <1>1 DEF App
  <2>3. SameWork(a, b) /\ b.view = a.view /\ b.rows = a.rows
    BY DEF App, SameWork
  <2> HIDE DEF b
  <2> QED
    BY <2>1, <2>2, <2>3
<1>3. CASE a.source # "kavita"
  BY <1>3 DEF CoverWarmStart, SameWork
<1> QED
  BY <1>2, <1>3

(* Starting the warm-up of the covers. *)
LEMMA WarmStartSound ==
  ASSUME NEW a, Sound(a), NEW some \in BOOLEAN, NEW spawned \in BOOLEAN
  PROVE  /\ Sound(CoverWarmStart(a, some, spawned))
         /\ Current(a) => Current(CoverWarmStart(a, some, spawned))
<1> DEFINE b == CoverWarmStart(a, some, spawned)
<1>1. b \in App /\ SameWork(a, b) /\ b.view = a.view /\ b.rows = a.rows
  BY WarmStartEffect DEF Sound
<1> HIDE DEF b
<1>2. Sound(b) /\ (Current(a) => Current(b))
  BY <1>1, SameWorkSound DEF Current, SameWork
<1> QED
  BY <1>2 DEF b

(* A source that is left takes its session with it, so that the new one    *)
(* finds nothing alive and nothing attached.                               *)
LEMMA LeftSound ==
  ASSUME NEW a, Sound(a), a.gen < MaxGen, NEW source \in Source
  PROVE  /\ Sound(Left(a, source)) /\ Idle(Left(a, source))
         /\ HasSpare(a) => HasSpare(Left(a, source))
         /\ Left(a, source).source = source /\ Left(a, source).gen = a.gen + 1
<1> DEFINE x == SetOverlay(a, "none")
           y == CancelScan(SyncAbort(x))
           b == [y EXCEPT !.source = source]
<1>1. Sound(x) /\ (HasSpare(a) => HasSpare(x)) /\ x.gen = a.gen
  BY SetOverlaySound, SetOverlayEffect DEF Sound, SameWork
<1> HIDE DEF x
<1>2. /\ Sound(SyncAbort(x)) /\ Idle(SyncAbort(x)) /\ SyncAbort(x).gen = a.gen
      /\ HasSpare(a) => HasSpare(SyncAbort(x))
  BY <1>1, SyncAbortSound
<1>3. /\ Sound(y) /\ Idle(y) /\ y.scan = NoScan /\ y.gen = a.gen + 1
      /\ HasSpare(a) => HasSpare(y)
  BY <1>2, CancelScanSound
<1> HIDE DEF y
<1>4. b \in App
  BY <1>3 DEF Sound, App
<1>5. /\ b.source = source /\ b.gen = y.gen /\ b.scan = y.scan /\ b.syncing = y.syncing
      /\ b.rx = y.rx /\ b.armed = y.armed /\ b.chain = y.chain /\ b.mail = y.mail
  BY <1>3 DEF Sound, App
<1>6. Left(a, source) = b
  BY DEF Left, y, x
<1> HIDE DEF b
<1> QED
  BY <1>3, <1>4, <1>5, <1>6
     DEF Sound, Heard, Told, Alone, Alive, Owned, Belongs, Flagged, Idle, HasSpare

---------------------------------------------------------------------------
(* What a tick does.                                                       *)

(* An outdated scan is never polled, so that whatever ends lowers the flag *)
(* under the local source only.                                            *)
LEMMA PollImportSound ==
  ASSUME NEW a, Sound(a), Current(a), NEW stored \in BOOLEAN, NEW done \in BOOLEAN
  PROVE  Sound(PollImport(a, stored, done)) /\ Current(PollImport(a, stored, done))
<1>1. CASE ~a.scan.walked
  BY <1>1 DEF PollImport
<1>2. CASE a.scan.walked
  <2> DEFINE result == IF a.scan.found THEN a.scan.root ELSE None
             over == [a EXCEPT !.scan = NoScan, !.syncing = FALSE]
             rows == [over EXCEPT !.rows = result]
             landed == IF stored THEN RebuildView(rows, done) ELSE over
             stage == IF landed.open /\ landed.stage = "scan"
                        THEN IF stored THEN "done" ELSE "fail"
                        ELSE landed.stage
             b == [landed EXCEPT !.stage = stage]
  <2>1. a \in App /\ a.scan # NoScan /\ a.scan.gen = a.gen /\ a.source = "local"
    BY <1>2 DEF Sound, Belongs, NoScan
  <2>2. result \in Base \cup {None}
    BY <2>1 DEF App
  <2>3. over \in App
    BY <2>1, DetachEffect
  <2>4. /\ over.scan = NoScan /\ over.syncing = FALSE /\ over.source = a.source
        /\ over.gen = a.gen /\ over.rx = a.rx /\ over.armed = a.armed
        /\ over.chain = a.chain /\ over.mail = a.mail /\ over.dir = a.dir
        /\ over.view = a.view /\ over.rows = a.rows
        /\ over.open = a.open /\ over.stage = a.stage
    BY <2>1 DEF App
  <2>5. PollImport(a, stored, done) = b
    <3>1. [[a EXCEPT !.scan = NoScan] EXCEPT !.syncing = FALSE] = over
      BY <2>1 DEF App
    <3>2. landed.open = a.open /\ landed.stage = a.stage
      BY <2>3, <2>4 DEF RebuildView, App
    <3> QED
      BY <1>2, <2>1, <3>1, <3>2 DEF PollImport
  <2> HIDE DEF result, over
  <2>6. Sound(over) /\ Current(over)
    BY <2>1, <2>3, <2>4
       DEF Sound, Heard, Told, Alone, Alive, Owned, Belongs, Flagged, Current
  <2>7. rows \in App /\ SameWork(over, rows)
    BY <2>2, <2>3 DEF App, SameWork
  <2>8. Sound(rows)
    BY <2>6, <2>7, SameWorkSound
  <2> HIDE DEF rows
  <2>9. Sound(landed) /\ Current(landed)
    BY <2>6, <2>8, RebuildSound
  <2> HIDE DEF landed
  <2>10. landed \in App /\ stage \in Stage
    BY <2>9 DEF Sound, App, Stage
  <2> HIDE DEF stage
  <2>11. b \in App
    BY <2>10 DEF App
  <2>12. SameWork(landed, b) /\ b.view = landed.view /\ b.rows = landed.rows
    BY <2>10 DEF App, SameWork
  <2> HIDE DEF b
  <2>13. Sound(b) /\ Current(b)
    BY <2>9, <2>11, <2>12, SameWorkSound DEF Current, SameWork
  <2> QED
    BY <2>5, <2>13
<1> QED
  BY <1>1, <1>2

(* The end of a session is told by a chain that has returned: what was     *)
(* listened to was it, and nothing else was alive.                         *)
LEMMA FinishSyncSound ==
  ASSUME NEW a, Sound(a), a.mail.end # "none",
         NEW ok \in BOOLEAN, NEW done \in BOOLEAN, NEW some \in BOOLEAN,
         NEW spawned \in BOOLEAN
  PROVE  /\ Sound(FinishSync(a, ok, done, some, spawned))
         /\ Current(FinishSync(a, ok, done, some, spawned))
<1> DEFINE idle == [a EXCEPT !.syncing = FALSE, !.rx = None, !.mail = Quiet]
           warm == CoverWarmStart(RebuildView(idle, done), some, spawned)
           stage == IF ~warm.open THEN warm.stage ELSE IF ok THEN "covers" ELSE "fail"
           b == [warm EXCEPT !.stage = stage]
<1>1. a \in App /\ \A c \in Chain : ~Alive(a, c)
  BY DEF Sound, Told, Alone, Alive
<1>2. Quiet \in [batch : BOOLEAN, end : {"none", "complete", "failed"}] /\ Quiet.end = "none"
  BY DEF Quiet
<1>3. idle \in App
  BY <1>1, <1>2 DEF App
<1>4. /\ idle.syncing = FALSE /\ idle.rx = None /\ idle.mail = Quiet
      /\ idle.source = a.source /\ idle.gen = a.gen /\ idle.scan = a.scan
      /\ idle.dir = a.dir /\ idle.chain = a.chain
      /\ idle.open = a.open /\ idle.stage = a.stage
  BY <1>1 DEF App
<1> HIDE DEF idle
<1>5. Sound(idle)
  BY <1>1, <1>2, <1>3, <1>4
     DEF Sound, Heard, Told, Alone, Alive, Owned, Belongs, Flagged
<1>6. Sound(warm) /\ Current(warm)
  BY <1>5, RebuildSound, WarmStartSound
<1>7. FinishSync(a, ok, done, some, spawned) = b
  <2>1. warm.open = a.open
    BY <1>3, <1>4 DEF CoverWarmStart, RebuildView, App
  <2> QED
    BY <2>1 DEF FinishSync, idle
<1> HIDE DEF warm
<1>8. warm \in App /\ stage \in Stage
  BY <1>6 DEF Sound, App, Stage
<1> HIDE DEF stage
<1>9. b \in App
  BY <1>8 DEF App
<1>10. SameWork(warm, b) /\ b.view = warm.view /\ b.rows = warm.rows
  BY <1>8 DEF App, SameWork
<1> HIDE DEF b
<1>11. Sound(b) /\ Current(b)
  BY <1>6, <1>9, <1>10, SameWorkSound DEF Current, SameWork
<1> QED
  BY <1>7, <1>11

(* Polling the sync thread: progress, its end, or its loss. *)
LEMMA SyncPollSound ==
  ASSUME NEW a, Sound(a), Current(a), NEW done \in BOOLEAN, NEW some \in BOOLEAN,
         NEW spawned \in BOOLEAN
  PROVE  Sound(SyncPoll(a, done, some, spawned)) /\ Current(SyncPoll(a, done, some, spawned))
<1> DEFINE stage == IF a.mail.batch THEN "meta" ELSE a.stage
           mail == [a.mail EXCEPT !.batch = FALSE]
           met == [a EXCEPT !.stage = stage, !.mail = mail]
<1>1. a \in App /\ stage \in Stage
  BY DEF Sound, App, Stage
<1>2. /\ mail \in [batch : BOOLEAN, end : {"none", "complete", "failed"}]
      /\ mail.end = a.mail.end
  BY <1>1 DEF App
<1>3. SyncPoll(a, done, some, spawned) =
        IF a.mail.end = "none" THEN met
                               ELSE FinishSync(met, a.mail.end = "complete", done, some, spawned)
  BY <1>1 DEF SyncPoll, App
<1> HIDE DEF stage, mail
<1>4. met \in App
  BY <1>1, <1>2 DEF App
<1>5. SameWork(a, met) /\ met.view = a.view /\ met.rows = a.rows
  BY <1>1, <1>2 DEF App, SameWork
<1> HIDE DEF met
<1>6. Sound(met) /\ Current(met) /\ met.mail.end = a.mail.end
  BY <1>4, <1>5, SameWorkSound DEF Current, SameWork
<1> DEFINE ok == a.mail.end = "complete"
<1>7. CASE a.mail.end = "none"
  BY <1>3, <1>6, <1>7
<1>8. CASE a.mail.end # "none"
  <2>1. ok \in BOOLEAN
    OBVIOUS
  <2>2. SyncPoll(a, done, some, spawned) = FinishSync(met, ok, done, some, spawned)
    BY <1>3, <1>8
  <2> HIDE DEF ok
  <2>3. Sound(FinishSync(met, ok, done, some, spawned)) /\ Current(FinishSync(met, ok, done, some, spawned))
    BY <1>6, <1>8, <2>1, FinishSyncSound
  <2> QED
    BY <2>2, <2>3
<1> QED
  BY <1>7, <1>8

(* The tick that closes the popup when its time is over. *)
LEMMA CloseTickSound ==
  ASSUME NEW a, Sound(a), Current(a), NEW elapsed \in BOOLEAN
  PROVE  Sound(CloseTick(a, elapsed)) /\ Current(CloseTick(a, elapsed))
<1> DEFINE b == [a EXCEPT !.stage = "done"]
<1>1. CloseTick(a, elapsed) \in {a, SetOverlay(a, "none"), b}
  BY DEF CloseTick
<1>2. a \in App
  BY DEF Sound
<1>3. b \in App
  BY <1>2 DEF App, Stage
<1>4. SameWork(a, b) /\ b.view = a.view /\ b.rows = a.rows
  BY <1>2 DEF App, SameWork
<1> HIDE DEF b
<1>5. Sound(b) /\ Current(b)
  BY <1>3, <1>4, SameWorkSound DEF Current, SameWork
<1> QED
  BY <1>1, <1>5, SetOverlaySound

---------------------------------------------------------------------------
(* The start of the process.                                               *)

(* Nothing is attached to a process that has just started.                 *)
LEMMA AtRestSound ==
  ASSUME NEW a \in App, a.syncing = FALSE, a.rx = None, a.mail = Quiet, a.scan = NoScan,
         a.view.source = a.source, a.view.rows = a.rows,
         \A c \in Chain : a.chain[c].pc # "running"
  PROVE  Sound(a) /\ Current(a) /\ Idle(a)
<1>1. Quiet.end = "none"
  BY DEF Quiet
<1> QED
  BY <1>1 DEF Sound, Heard, Told, Alone, Alive, Owned, Belongs, Flagged, Current, Idle

(* A fresh application has a type. *)
LEMMA FreshType ==
  ASSUME NEW source \in Source, NEW host \in Host \cup {NoHost}, NEW dir \in Base,
         NEW rows \in Base \cup {None}, NEW gen \in 0 .. MaxGen,
         NEW chain \in [Chain -> Work]
  PROVE  Fresh(source, host, dir, rows, gen, chain) \in App
<1>1. NoScan \in Job
  BY SessionAssumption DEF NoScan, Job
<1>2. Quiet \in [batch : BOOLEAN, end : {"none", "complete", "failed"}]
  BY DEF Quiet
<1> QED
  BY <1>1, <1>2 DEF Fresh, App, Work, Job, Stage

(* A boot starts the work of its source from an idle application. *)
LEMMA BootSound ==
  ASSUME NEW a, Sound(a), Current(a), Idle(a), HasSpare(a), a.gen < MaxGen,
         NEW online \in BOOLEAN, NEW done \in BOOLEAN, NEW some \in BOOLEAN,
         NEW spawned \in BOOLEAN
  PROVE  Sound(Boot(a, online, done, some, spawned)) /\ Current(Boot(a, online, done, some, spawned))
<1> DEFINE work == CASE a.source = "local" -> KickImport(a, spawned)
                     [] a.source = "kavita" /\ online -> StartSync(a, FALSE, spawned)
                     [] OTHER -> a
<1>1. ASSUME a.source = "local" PROVE Sound(work)
  <2>1. work = KickImport(a, spawned)
    BY <1>1
  <2>2. Sound(KickImport(a, spawned))
    BY <1>1, KickImportSound DEF Sound
  <2> QED
    BY <2>1, <2>2
<1>2. ASSUME a.source = "kavita" /\ online PROVE Sound(work)
  <2>1. work = StartSync(a, FALSE, spawned)
    BY <1>2
  <2>2. Sound(StartSync(a, FALSE, spawned))
    BY StartSyncSound DEF Idle
  <2> QED
    BY <2>1, <2>2
<1>3. ASSUME a.source # "local", ~(a.source = "kavita" /\ online) PROVE Sound(work)
  BY <1>3
<1>4. Sound(work)
  BY <1>1, <1>2, <1>3
<1>5. Boot(a, online, done, some, spawned) = CoverWarmStart(RebuildView(work, done), some, spawned)
  BY DEF Boot
<1> HIDE DEF work
<1> QED
  BY <1>4, <1>5, RebuildSound, WarmStartSound

---------------------------------------------------------------------------
(* The steps.                                                              *)

(* A handler that keeps its part of the session keeps the invariant.       *)
LEMMA KeptNext ==
  ASSUME NEW b, app' = b, Kept(b)
  PROVE  SessionInv'
BY DEF SessionInv, Kept, Sound, Heard, Told, Alone, Alive, Owned, Belongs, Flagged, Current

(* The first boot. *)
LEMMA InitInv == Init => SessionInv
<1> SUFFICES ASSUME NEW source \in Source, NEW host \in Host \cup {NoHost}, NEW dir \in Base,
                    NEW online \in BOOLEAN, NEW done \in BOOLEAN, NEW some \in BOOLEAN,
                    NEW spawned \in BOOLEAN,
                    app = Boot(Fresh(source, host, dir, None, 0, [c \in Chain |-> Unused]),
                               online, done, some, spawned)
             PROVE  SessionInv
  BY DEF Init
<1> DEFINE chain == [c \in Chain |-> Unused]
           a == Fresh(source, host, dir, None, 0, chain)
<1>1. chain \in [Chain -> Work] /\ \A c \in Chain : chain[c].pc = "unused"
  BY DEF Unused, Work
<1>2. 0 \in 0 .. MaxGen /\ 0 < MaxGen /\ None \in Base \cup {None} /\ Chain # {}
  BY SessionAssumption
<1>3. a = Fresh(source, host, dir, None, 0, chain) /\ \A c \in Chain : chain[c].pc # "running"
  BY <1>1
<1> HIDE DEF chain, a
<1>4. a \in App
  BY <1>1, <1>2, <1>3, FreshType
<1>5. /\ a.syncing = FALSE /\ a.rx = None /\ a.mail = Quiet /\ a.scan = NoScan
      /\ a.view.source = a.source /\ a.view.rows = a.rows
      /\ a.chain = chain /\ a.gen = 0
  BY <1>3 DEF Fresh
<1>6. Sound(a) /\ Current(a) /\ Idle(a)
  BY <1>3, <1>4, <1>5, AtRestSound
<1>7. HasSpare(a)
  BY <1>1, <1>2, <1>5 DEF HasSpare
<1>8. Sound(Boot(a, online, done, some, spawned)) /\ Current(Boot(a, online, done, some, spawned))
  BY <1>2, <1>6, <1>7, <1>5, BootSound
<1> QED
  BY <1>8 DEF SessionInv, Kept, a, chain

(* A reboot in any state: the threads of the old process are gone. *)
LEMMA RebootKeepsInv ==
  ASSUME SessionInv, Reboot
  PROVE  SessionInv'
<1> DEFINE dead == [c \in Chain |-> IF app.chain[c].pc = "running"
                                     THEN [app.chain[c] EXCEPT !.pc = "over"]
                                     ELSE app.chain[c]]
           a == Fresh(app.source, app.host, app.dir, app.rows, app.gen, dead)
<1>1. PICK online \in BOOLEAN, done \in BOOLEAN, some \in BOOLEAN, spawned \in BOOLEAN :
        app' = Boot(a, online, done, some, spawned)
  BY DEF Reboot
<1>2. /\ app.source \in Source /\ app.host \in Host \cup {NoHost} /\ app.dir \in Base
      /\ app.rows \in Base \cup {None} /\ app.gen \in 0 .. MaxGen
      /\ app.chain \in [Chain -> Work]
  BY DEF SessionInv, Kept, Sound, App, Work
<1>3. /\ dead \in [Chain -> Work]
      /\ \A c \in Chain : dead[c].pc # "running"
      /\ \A c \in Chain : app.chain[c].pc = "unused" => dead[c].pc = "unused"
  BY <1>2 DEF Work
<1>4. Spare /\ app.gen < MaxGen
  BY DEF Reboot
<1>5. a = Fresh(app.source, app.host, app.dir, app.rows, app.gen, dead)
  OBVIOUS
<1> HIDE DEF dead, a
<1>6. a \in App
  BY <1>2, <1>3, <1>5, FreshType
<1>7. /\ a.syncing = FALSE /\ a.rx = None /\ a.mail = Quiet /\ a.scan = NoScan
       /\ a.view.source = a.source /\ a.view.rows = a.rows
       /\ a.chain = dead /\ a.gen = app.gen
  BY <1>5 DEF Fresh
<1>8. Sound(a) /\ Current(a) /\ Idle(a)
  BY <1>3, <1>6, <1>7, AtRestSound
<1>9. HasSpare(a)
  BY <1>3, <1>4, <1>7 DEF HasSpare, Spare
<1>10. Sound(Boot(a, online, done, some, spawned)) /\ Current(Boot(a, online, done, some, spawned))
  BY <1>4, <1>8, <1>9, <1>7, BootSound
<1> QED
  BY <1>1, <1>10, KeptNext DEF a, dead, Kept

(* A tick of the user interface. *)
LEMMA TickKeepsInv ==
  ASSUME SessionInv, NEW elapsed \in BOOLEAN, Tick(elapsed)
  PROVE  SessionInv'
<1>1. PICK stored \in BOOLEAN, shown \in BOOLEAN, done \in BOOLEAN, some \in BOOLEAN,
           spawned \in BOOLEAN :
        app' = CloseTick(SyncPoll(PollImport(app, stored, shown), done, some, spawned), elapsed)
  BY DEF Tick, Outcome
<1> DEFINE x == PollImport(app, stored, shown)
           y == SyncPoll(x, done, some, spawned)
<1>2. Sound(x) /\ Current(x)
  BY PollImportSound DEF SessionInv, Kept
<1> HIDE DEF x
<1>3. Sound(y) /\ Current(y)
  BY <1>2, SyncPollSound
<1> HIDE DEF y
<1>4. Sound(CloseTick(y, elapsed)) /\ Current(CloseTick(y, elapsed))
  BY <1>3, CloseTickSound
<1>5. app' = CloseTick(y, elapsed)
  BY <1>1 DEF x, y
<1> QED
  BY <1>4, <1>5, KeptNext DEF Kept

(* Anything the user does. *)
LEMMA UserKeepsInv ==
  ASSUME SessionInv, User
  PROVE  SessionInv'
<1>1. Sound(app) /\ Current(app) /\ app \in App
  BY DEF SessionInv, Kept, Sound
<1>2. ASSUME DoSync PROVE SessionInv'
  <2>1. PICK spawned \in BOOLEAN :
          \/ /\ app.syncing
             /\ app' = [SyncPopupOpen(app, "meta") EXCEPT !.stray = app.rx = None]
          \/ /\ ~app.syncing
             /\ app.source = "local"
             /\ app.gen < MaxGen
             /\ app' = KickImport(app, spawned)
          \/ /\ ~app.syncing
             /\ app.source # "local"
             /\ Spare
             /\ app' = StartSync(app, TRUE, spawned)
    BY <1>2 DEF DoSync
  <2>2. CASE app' = [SyncPopupOpen(app, "meta") EXCEPT !.stray = app.rx = None]
    <3> DEFINE x == SyncPopupOpen(app, "meta")
               lost == app.rx = None
               b == [x EXCEPT !.stray = lost]
    <3>1. Kept(x)
      BY <1>1, PopupOpenSound DEF Stage, Kept
    <3>2. lost \in BOOLEAN
      OBVIOUS
    <3>3. app' = b
      BY <2>2
    <3> HIDE DEF x, lost
    <3>4. b \in App
      BY <3>1, <3>2 DEF Kept, Sound, App
    <3>5. SameWork(x, b) /\ b.view = x.view /\ b.rows = x.rows
      BY <3>1 DEF Kept, Sound, App, SameWork
    <3> HIDE DEF b
    <3>6. Kept(b)
      BY <3>1, <3>4, <3>5, SameWorkSound DEF Kept, Current, SameWork
    <3> QED
      BY <3>3, <3>6, KeptNext
  <2>3. CASE app.source = "local" /\ app.gen < MaxGen /\ app' = KickImport(app, spawned)
    BY <1>1, <2>3, KickImportSound, KeptNext DEF Kept, Sound
  <2>4. CASE ~app.syncing /\ app.source # "local" /\ Spare /\ app' = StartSync(app, TRUE, spawned)
    <3>1. HasSpare(app) /\ app.rx = None
      BY <1>1, <2>4 DEF HasSpare, Spare, Sound, Flagged
    <3>2. Kept(StartSync(app, TRUE, spawned))
      BY <1>1, <3>1, StartSyncSound DEF Kept
    <3> QED
      BY <2>4, <3>2, KeptNext
  <2> QED
    BY <2>1, <2>2, <2>3, <2>4
<1>3. ASSUME OpenOther \/ Dismiss PROVE SessionInv'
  <2>1. Kept(SetOverlay(app, "other")) /\ Kept(SetOverlay(app, "none"))
    BY <1>1, SetOverlaySound DEF Kept
  <2> QED
    BY <1>3, <2>1, KeptNext DEF OpenOther, Dismiss
<1>4. ASSUME NEW source \in Source, ApplySource(source) PROVE SessionInv'
  <2> DEFINE left == Left(app, source)
  <2>1. app.gen + 1 < MaxGen /\ app.gen < MaxGen /\ HasSpare(app)
    BY <1>1, <1>4, SessionAssumption DEF ApplySource, Spare, HasSpare, App
  <2>2. /\ Sound(left) /\ Idle(left) /\ HasSpare(left)
        /\ left.source = source /\ left.gen < MaxGen
    BY <1>1, <2>1, LeftSound
  <2>3. PICK done \in BOOLEAN, spawned \in BOOLEAN :
          app' = CASE source = "kavita" ->
                        StartSync(RebuildView(left, done), FALSE, spawned)
                   [] source = "local" ->
                        RebuildView(IF left.rows = None
                                      THEN KickImport(left, spawned) ELSE left, done)
                   [] source = "folder" -> left
    BY <1>4 DEF ApplySource
  <2> HIDE DEF left
  <2>4. CASE source = "kavita"
    <3> DEFINE b == RebuildView(left, done)
    <3>1. Sound(b) /\ Current(b) /\ Idle(b) /\ HasSpare(b)
      BY <2>2, RebuildSound
    <3>2. app' = StartSync(b, FALSE, spawned)
      BY <2>3, <2>4
    <3> HIDE DEF b
    <3>3. Kept(StartSync(b, FALSE, spawned))
      BY <3>1, StartSyncSound DEF Kept, Idle
    <3> QED
      BY <3>2, <3>3, KeptNext
  <2>5. CASE source = "local"
    <3> DEFINE b == IF left.rows = None THEN KickImport(left, spawned) ELSE left
    <3>1. Sound(KickImport(left, spawned))
      BY <2>2, <2>5, KickImportSound DEF Sound
    <3>2. Sound(b)
      BY <2>2, <3>1
    <3>3. app' = RebuildView(b, done)
      BY <2>3, <2>5
    <3> HIDE DEF b
    <3>4. Kept(RebuildView(b, done))
      BY <3>2, RebuildSound DEF Kept
    <3> QED
      BY <3>3, <3>4, KeptNext
  <2>6. CASE source = "folder"
    <3>1. app' = left
      BY <2>3, <2>6
    <3>2. Kept(left)
      BY <2>2, <2>6 DEF Kept, Current
    <3> QED
      BY <3>1, <3>2, KeptNext
  <2> QED
    BY <2>4, <2>5, <2>6 DEF Source
<1>5. ASSUME NEW host \in Host, CommitHost(host) PROVE SessionInv'
  <2> DEFINE b == [app EXCEPT !.host = host]
  <2>1. b \in App
    BY <1>1 DEF App
  <2>2. SameWork(app, b) /\ b.view = app.view /\ b.rows = app.rows
    BY <1>1 DEF App, SameWork
  <2>3. app' = b
    BY <1>5 DEF CommitHost
  <2> HIDE DEF b
  <2>4. Kept(b)
    BY <1>1, <2>1, <2>2, SameWorkSound DEF Kept, Current, SameWork
  <2> QED
    BY <2>3, <2>4, KeptNext
<1>6. ASSUME SettingsApply PROVE SessionInv'
  <2> DEFINE x == SyncAbort(app)
             y(spawned) == IF app.source = "folder" THEN x ELSE StartSync(x, FALSE, spawned)
  <2>1. PICK spawned \in BOOLEAN : app' = SetOverlay(y(spawned), "none")
    BY <1>6 DEF SettingsApply
  <2>2. HasSpare(app)
    BY <1>6 DEF SettingsApply, Spare, HasSpare
  <2>3. Sound(x) /\ Current(x) /\ Idle(x) /\ HasSpare(x)
    BY <1>1, <2>2, SyncAbortSound
  <2> HIDE DEF x
  <2>4. Sound(y(spawned)) /\ Current(y(spawned))
    BY <2>3, StartSyncSound DEF Idle
  <2> HIDE DEF y
  <2>5. Kept(SetOverlay(y(spawned), "none"))
    BY <2>4, SetOverlaySound DEF Kept
  <2> QED
    BY <2>1, <2>5, KeptNext
<1>7. ASSUME NEW dir \in Base, CommitLocalDir(dir) PROVE SessionInv'
  <2> DEFINE x == [app EXCEPT !.dir = dir]
             b == SetOverlay(x, "other")
  <2>1. x \in App
    BY <1>1 DEF App
  <2>2. /\ x.source = app.source /\ x.syncing = app.syncing /\ x.rx = app.rx
        /\ x.armed = app.armed /\ x.chain = app.chain /\ x.gen = app.gen
        /\ x.scan = app.scan /\ x.mail = app.mail
        /\ x.view = app.view /\ x.rows = app.rows
    BY <1>1 DEF App
  <2> HIDE DEF x
  <2>3. b \in App /\ SameWork(x, b) /\ b.view = x.view /\ b.rows = x.rows
    BY <2>1, SetOverlayEffect
  <2> HIDE DEF b
  <2>4. /\ b.source = app.source /\ b.gen = app.gen
        /\ Heard(b) /\ Told(b) /\ Alone(b) /\ Owned(b) /\ Flagged(b) /\ Current(b)
    BY <1>1, <2>2, <2>3
       DEF SameWork, Sound, Heard, Told, Alone, Alive, Owned, Flagged, Current
  <2>5. PICK spawned \in BOOLEAN :
          app' = IF app.source = "local" THEN KickImport(b, spawned) ELSE b
    BY <1>7 DEF CommitLocalDir, b, x
  <2>6. CASE app.source = "local"
    <3>1. app.gen < MaxGen
      BY <1>7 DEF CommitLocalDir
    <3>2. Kept(KickImport(b, spawned))
      BY <2>3, <2>4, <2>6, <3>1, KickImportSound DEF Kept
    <3> QED
      BY <2>5, <2>6, <3>2, KeptNext
  <2>7. CASE app.source # "local"
    <3>1. b.scan = NoScan
      BY <1>1, <2>2, <2>3, <2>7 DEF Sound, Belongs, SameWork
    <3>2. Kept(b)
      BY <2>3, <2>4, <3>1 DEF Kept, Sound, Belongs
    <3> QED
      BY <2>5, <2>7, <3>2, KeptNext
  <2> QED
    BY <2>6, <2>7
<1>8. ASSUME ResetDatabase PROVE SessionInv'
  <2> DEFINE x == CancelScan(SyncAbort(app))
             wiped == [x EXCEPT !.rows = None, !.exiting = TRUE]
             b(done) == RebuildView(SetOverlay(wiped, "none"), done)
  <2>1. PICK done \in BOOLEAN : app.gen < MaxGen /\ app' = b(done)
    BY <1>8 DEF ResetDatabase
  <2>2. Sound(x)
    BY <1>1, <2>1, SyncAbortSound, CancelScanSound
  <2> HIDE DEF x
  <2>3. wiped \in App
    BY <2>2 DEF Sound, App
  <2>4. SameWork(x, wiped)
    BY <2>2 DEF Sound, App, SameWork
  <2> HIDE DEF wiped
  <2>5. Sound(wiped)
    BY <2>2, <2>3, <2>4, SameWorkSound
  <2>6. Kept(b(done))
    BY <2>5, SetOverlaySound, RebuildSound DEF Kept
  <2> QED
    BY <2>1, <2>6, KeptNext
<1> QED
  BY <1>2, <1>3, <1>4, <1>5, <1>6, <1>7, <1>8 DEF User

(* A chain says its last word and is over, or it returns or dies without a *)
(* word; the other chains are as they were.                                *)
LEMMA ChainOver ==
  ASSUME SessionInv, NEW c \in Chain, Running(c),
         NEW how \in {"complete", "failed"}, NEW last \in {"over", "dead"},
         \/ app' = Ends(app, c, how) /\ last = "over"
         \/ app' = [app EXCEPT !.chain[c].pc = last]
  PROVE  SessionInv'
<1> DEFINE over == [app.chain EXCEPT ![c].pc = last]
<1>1. Sound(app) /\ Current(app) /\ app \in App
  BY DEF SessionInv, Kept, Sound
<1>2. app.chain \in [Chain -> Work]
  BY <1>1 DEF App, Work
<1>3. /\ over \in [Chain -> Work] /\ over[c].pc = last
      /\ \A d \in Chain : d # c => over[d] = app.chain[d]
  BY <1>2 DEF Work
<1>4. PICK end \in {"none", "complete", "failed"} :
        /\ app' = [app EXCEPT !.chain = over, !.mail = [app.mail EXCEPT !.end = end]]
        /\ end = app.mail.end \/ (app.rx = c /\ last = "over")
  <2> DEFINE end == IF app' = Ends(app, c, how) /\ last = "over" /\ app.rx = c
                      THEN how ELSE app.mail.end
             old == app.mail.end
  <2>1. end \in {"none", "complete", "failed"} /\ (end = app.mail.end \/ (app.rx = c /\ last = "over"))
    BY <1>1 DEF App
  <2>2. app = [app EXCEPT !.mail = [app.mail EXCEPT !.end = app.mail.end]]
    BY <1>1 DEF App
  <2>3. CASE app' = Ends(app, c, how) /\ last = "over"
    BY <1>1, <2>1, <2>3 DEF Ends, App
  <2>4. CASE ~(app' = Ends(app, c, how) /\ last = "over")
    <3>1. app' = [app EXCEPT !.chain = over]
      BY <1>1, <2>4 DEF App
    <3>2. app' = [app EXCEPT !.chain = over, !.mail = [app.mail EXCEPT !.end = app.mail.end]]
      BY <1>1, <3>1 DEF App
    <3>3. app.mail.end \in {"none", "complete", "failed"}
      BY <1>1 DEF App
    <3> QED
      BY <3>2, <3>3
  <2> QED
    BY <2>3, <2>4
<1> DEFINE mail == [app.mail EXCEPT !.end = end]
           b == [app EXCEPT !.chain = over, !.mail = mail]
<1>5. /\ mail \in [batch : BOOLEAN, end : {"none", "complete", "failed"}]
      /\ mail.end = end
  BY <1>1 DEF App
<1>6. app' = b
  BY <1>4
<1> HIDE DEF over, mail
<1>7. b \in App
  BY <1>1, <1>3, <1>5 DEF App, Work
<1>8. /\ b.chain = over /\ b.mail.end = end
      /\ b.source = app.source /\ b.syncing = app.syncing /\ b.rx = app.rx
      /\ b.armed = app.armed /\ b.gen = app.gen /\ b.scan = app.scan
      /\ b.dir = app.dir /\ b.view = app.view /\ b.rows = app.rows
  BY <1>1, <1>5 DEF App
<1> HIDE DEF b
<1>9. Told(b)
  BY <1>1, <1>3, <1>4, <1>8 DEF Told, Sound, Running
<1>10. Alone(b)
  BY <1>1, <1>3, <1>8 DEF Alone, Alive, Sound
<1>11. Kept(b)
  BY <1>1, <1>7, <1>8, <1>9, <1>10 DEF Kept, Sound, Heard, Owned, Belongs, Flagged, Current
<1> QED
  BY <1>6, <1>11, KeptNext

(* Anything the threads do. *)
LEMMA ThreadsKeepInv ==
  ASSUME SessionInv,
         \/ \E c \in Chain : RoundLands(c) \/ Threads(c)
         \/ ScanEnds \/ WarmGoesOn \/ WarmEnds
  PROVE  SessionInv'
<1>1. Sound(app) /\ Current(app) /\ app \in App
  BY DEF SessionInv, Kept, Sound
<1>2. ASSUME NEW b \in App, SameWork(app, b), b.view = app.view, b.rows = app.rows, app' = b
      PROVE  SessionInv'
  <2>1. Kept(b)
    BY <1>1, <1>2, SameWorkSound DEF Kept, Current, SameWork
  <2> QED
    BY <1>2, <2>1, KeptNext
<1>3. ASSUME NEW c \in Chain, RoundLands(c) PROVE SessionInv'
  <2> DEFINE mail == [app.mail EXCEPT !.batch = TRUE]
             b == [app EXCEPT !.mail = mail]
  <2>1. app' = b
    BY <1>1, <1>3 DEF RoundLands, App
  <2>2. /\ mail \in [batch : BOOLEAN, end : {"none", "complete", "failed"}]
        /\ mail.end = app.mail.end
    BY <1>1 DEF App
  <2> HIDE DEF mail
  <2>3. b \in App
    BY <1>1, <2>2 DEF App
  <2>4. SameWork(app, b) /\ b.view = app.view /\ b.rows = app.rows
    BY <1>1, <2>2 DEF App, SameWork
  <2> HIDE DEF b
  <2> QED
    BY <1>2, <2>1, <2>3, <2>4
<1>4. ASSUME NEW c \in Chain, Threads(c) PROVE SessionInv'
  <2>1. CASE ChainEnds(c)
    BY <2>1, ChainOver DEF ChainEnds
  <2>2. CASE ChainStops(c) \/ StoreFails(c)
    BY <2>2, ChainOver DEF ChainStops, StoreFails
  <2> QED
    BY <1>4, <2>1, <2>2 DEF Threads
<1>5. ASSUME ScanEnds PROVE SessionInv'
  <2>1. PICK found \in BOOLEAN : app' = [app EXCEPT !.scan.walked = TRUE, !.scan.found = found]
    BY <1>5 DEF ScanEnds
  <2> DEFINE scan == [app.scan EXCEPT !.walked = TRUE, !.found = found]
             b == [app EXCEPT !.scan = scan]
  <2>2. app.scan \in Job /\ app.scan # NoScan
    BY <1>1, <1>5 DEF App, Job, ScanEnds
  <2>3. scan \in Job /\ scan.gen = app.scan.gen /\ scan.root = app.scan.root /\ scan.walked
    BY <2>2 DEF Job
  <2>4. app' = b
    BY <1>1, <2>1 DEF App
  <2> HIDE DEF scan
  <2>5. b \in App
    BY <1>1, <2>3 DEF App, Job
  <2>6. /\ b.scan = scan /\ b.mail = app.mail /\ b.chain = app.chain
        /\ b.source = app.source /\ b.syncing = app.syncing /\ b.rx = app.rx
        /\ b.armed = app.armed /\ b.gen = app.gen
        /\ b.dir = app.dir /\ b.view = app.view /\ b.rows = app.rows
    BY <1>1 DEF App
  <2> HIDE DEF b
  <2>7. scan # NoScan
    BY <2>3 DEF NoScan
  <2>8. Kept(b)
    BY <1>1, <2>2, <2>3, <2>5, <2>6, <2>7
       DEF Kept, Sound, Heard, Told, Alone, Alive, Owned, Belongs, Flagged, Current
  <2> QED
    BY <2>4, <2>8, KeptNext
<1>6. ASSUME WarmGoesOn PROVE SessionInv'
  <2> DEFINE b == [app EXCEPT !.left = TRUE]
  <2>1. b \in App
    BY <1>1 DEF App
  <2>2. SameWork(app, b) /\ b.view = app.view /\ b.rows = app.rows
    BY <1>1 DEF App, SameWork
  <2> QED
    BY <1>2, <1>6, <2>1, <2>2 DEF WarmGoesOn
<1>7. ASSUME WarmEnds PROVE SessionInv'
  <2> DEFINE b == [app EXCEPT !.warmers = @ - 1, !.left = FALSE]
  <2>1. app.warmers - 1 \in Nat
    BY <1>1, <1>7 DEF App, WarmEnds
  <2>2. b \in App
    BY <1>1, <2>1 DEF App
  <2>3. SameWork(app, b) /\ b.view = app.view /\ b.rows = app.rows
    BY <1>1 DEF App, SameWork
  <2> QED
    BY <1>2, <1>7, <2>2, <2>3 DEF WarmEnds
<1> QED
  BY <1>3, <1>4, <1>5, <1>6, <1>7

(* The invariant holds in every state. *)
LEMMA SessionInvariant == Spec => []SessionInv
<1>1. SessionInv /\ [Next]_vars => SessionInv'
  <2>1. CASE Next
    BY <2>1, TickKeepsInv, UserKeepsInv, RebootKeepsInv, ThreadsKeepInv DEF Next
  <2>2. CASE UNCHANGED vars
    BY <2>2 DEF vars, SessionInv, Kept, Sound, Heard, Told, Alone, Alive, Owned,
                Belongs, Flagged, Current
  <2> QED
    BY <2>1, <2>2
<1> QED
  BY InitInv, <1>1, PTL DEF Spec

(* Types hold; the chain that runs uncancelled is the one listened to; a   *)
(* raised syncing flag has a chain or a scan that will lower it; a scan    *)
(* that is attached is of the local source and of the folder of now        *)
(* (start_sync, sync_abort, kick_import, poll_import, apply_source).       *)
THEOREM OneSessionAtATime == Spec => []OneSession
<1>1. SessionInv => OneSession
  BY DEF SessionInv, Kept, Sound, Alone, Alive, Owned, Belongs, OneSession, TypeOK,
         OneLiveChain, Running, SyncingHasOwner, ImportBelongs
<1> QED
  BY <1>1, SessionInvariant, PTL

(* Unless the last rebuild failed, the shelf that is shown is of the       *)
(* active source, and under the local source of the rows that are stored   *)
(* (rebuild_view behind poll_import, finish_sync, apply_source,            *)
(* reset_database and the boot).                                           *)
THEOREM TheViewIsCurrent == Spec => []ViewIsCurrent
<1>1. SessionInv => ViewIsCurrent
  BY DEF SessionInv, Kept, Current, ViewIsCurrent
<1> QED
  BY <1>1, SessionInvariant, PTL

=============================================================================
