---- MODULE Settings ----
(***************************************************************************)
(* The settings of the device: the layers of bookshelf.cfg, the boot that  *)
(* reads and completes them, the handlers that save them, the choice of a  *)
(* reader, and the home task that is installed beside them.  A configu-    *)
(* ration is a function of Key; Unset is the empty value, which no line    *)
(* carries.  On "device" (eh_pb, eh_device, eh_android) the file of the    *)
(* app is read first and /tmp/bookshelf.cfg wins over it; on "host" the    *)
(* layers of discover come first, the file of the run directory wins,      *)
(* EH_API_URL wins over that.                                              *)
(* The power may go in the middle of every save and every copy.            *)
(***************************************************************************)
LOCAL INSTANCE Naturals
LOCAL INSTANCE Sequences

CONSTANTS MaxSaves,   \* saves, boots and presses of a behaviour
          MaxFaults   \* failed writes, power cuts, changes of the system

VARIABLES kind,       \* how the app is launched
          own,        \* the file at cfg_path, or Absent
          under,      \* the merged layers below it (host)
          over,       \* the layer above it: /tmp/bookshelf.cfg or EH_API_URL
          config,     \* App.config, while the app runs
          stage,      \* "off" | "fresh" (since boot nothing was stored) | "used"
          pref,       \* App.reader_pref
          readers,    \* the readers that are installed
          usable,     \* the folders that can be created and written
          home,       \* the home task's binary: absent, partial or whole
          exe,        \* the running binary: "app", "home", or "gone"
          stored,      \* ghost: what was put on the disk by hand, or a handler stored last
          lent,        \* ghost: what boot saves wrote over it since, from elsewhere
          saves, faults

settingsVars == <<kind, own, under, over, config, stage, pref, readers, usable,
                  home, exe, stored, lent, saves, faults>>

Key == {"url", "token", "downloads", "local", "reader", "source", "group", "lang"}
Unset == "unset"
Blank == [k \in Key |-> Unset]
Absent == [k \in {"absent"} |-> Unset]
Source == {"kavita", "local", "folder"}
Group == {"none", "author"}
DevToken == "dev"       \* EH_TOKEN_DEFAULT
Scratch == "/tmp"
DefaultDir == "books"   \* PlatformPaths.downloads_dir
Directory == {DefaultDir, "card"}

\* What was put on the disk by hand before the first boot, or not.
Staged == [Blank EXCEPT !.url = "u1", !.token = "t1", !.lang = "de"]
Override == [Blank EXCEPT !.url = "u2", !.group = "author"]
EnvUrl == [Blank EXCEPT !.url = "u2"]

SettingsInit ==
  /\ kind = "device"
  /\ own = Absent /\ under = Blank /\ over = Blank
  /\ config = Blank /\ stage = "off" /\ pref = 0
  /\ readers = {"standard"} /\ usable = Directory
  /\ home = "absent" /\ exe = "app"
  /\ stored = Blank /\ lent = Blank /\ saves = 0 /\ faults = 0

(***************************************************************************)
(* Reading: merge, parse_kv_file, finish, load, discover, load_for_run.    *)
(***************************************************************************)
MutantMerge(low, high) == [k \in Key |-> IF low[k] # Unset THEN low[k] ELSE high[k]]

Merge(low, high) == [k \in Key |-> IF high[k] # Unset THEN high[k] ELSE low[k]]

Finish(cfg) == [cfg EXCEPT !.token = IF @ = Unset THEN DevToken ELSE @]

Parsed(file) == IF file = Absent THEN Blank ELSE file

\* What the keys mean that no line carries: Source::from_config,
\* group_from_config, reader_pref_from_path.
Effective(cfg) ==
  [cfg EXCEPT !.source = IF @ = Unset THEN "kavita" ELSE @,
              !.group = IF @ = Unset THEN "none" ELSE @,
              !.reader = IF @ = Unset THEN "auto" ELSE @]

\* Config::load fails as a whole when the file of the app cannot be read.
Load ==
  IF kind = "host" THEN Merge(Finish(Merge(under, Parsed(own))), over)
  ELSE IF own = Absent THEN Blank
  ELSE Finish(Merge(own, over))

(***************************************************************************)
(* Writing: Config::save writes a sibling and renames it.                  *)
(***************************************************************************)
MutantWritten(cfg) ==
  [cfg EXCEPT !.source = IF @ = Unset THEN "kavita" ELSE @,
              !.group = IF @ = Unset THEN "none" ELSE @,
              !.local = Unset,
              !.reader = IF @ = Unset THEN "auto" ELSE @]

Written(cfg) ==
  [cfg EXCEPT !.source = IF @ = Unset THEN "kavita" ELSE @,
              !.group = IF @ = Unset THEN "none" ELSE @,
              !.reader = IF @ = Unset THEN "auto" ELSE @]

Done == /\ saves < MaxSaves /\ saves' = saves + 1 /\ faults' = faults
Fault == /\ faults < MaxFaults /\ faults' = faults + 1
         /\ saves < MaxSaves /\ saves' = saves + 1

\* A save of cfg by a handler, of the app or of the home task.
Store(cfg) == own' = Written(cfg) /\ stored' = Effective(cfg) /\ lent' = Blank

\* It returns Ok, or it fails and the old file stays.
Save(cfg) ==
  \/ Store(cfg) /\ Done
  \/ UNCHANGED <<own, stored, lent>> /\ Fault

\* The power goes while the sibling is written or before it is renamed.
Cut == /\ Fault
       /\ stage' = "off" /\ config' = Blank /\ pref' = 0
       /\ UNCHANGED <<own, stored, lent>>

(***************************************************************************)
(* The reader: detect_readers and the index into its list.                 *)
(***************************************************************************)
Detected ==
  IF "koreader" \notin readers THEN <<"standard">>
  ELSE IF "standard" \in readers THEN <<"standard", "koreader">>
  ELSE <<"koreader">>

\* reader_pref_from_path
PrefOf(value) ==
  IF \E i \in DOMAIN Detected : Detected[i] = value
  THEN CHOOSE i \in DOMAIN Detected : Detected[i] = value
  ELSE 0

\* The reader open_reader launches and reader_label names.
ReaderInUse == IF pref \in DOMAIN Detected THEN Detected[pref] ELSE "auto"

(***************************************************************************)
(* Boot: App::new, ensure_writable_dir, ensure_config, resolve_reader.     *)
(***************************************************************************)
MutantKept(cfg) == cfg

\* The boot save keeps the address and the key of the file.
Kept(cfg) ==
  [cfg EXCEPT !.url = IF Parsed(own).url # Unset THEN own.url ELSE @,
              !.token = IF Parsed(own).token # Unset THEN own.token ELSE @]

\* The folder for downloads, and the scratch root when it cannot be written.
Ensured(cfg) ==
  LET dir == IF cfg.downloads = Unset THEN DefaultDir ELSE cfg.downloads
  IN [cfg EXCEPT !.downloads = IF dir \in usable \cup {Scratch} THEN dir ELSE Scratch]

\* What the boot is due to find for a key: the layer above the file, else
\* what boot saves have left, else what was stored, else the layers below.
Due(k) ==
  IF kind = "device" /\ own = Absent THEN Unset
  ELSE IF over[k] # Unset THEN over[k]
  ELSE IF lent[k] # Unset THEN lent[k]
  ELSE IF stored[k] # Unset THEN stored[k] ELSE under[k]

\* What its save may write over what was stored: the address and the key of
\* the file are put back, the rest of the layer above and the scratch root
\* are not.
Lent(k) ==
  IF k \in {"url", "token"} /\ Parsed(own)[k] # Unset THEN lent[k]
  ELSE IF k = "downloads" /\ Due(k) \notin usable \cup {Scratch, Unset} THEN Scratch
  ELSE IF over[k] # Unset /\ Due(k) = over[k] THEN over[k] ELSE lent[k]

Boot ==
  /\ stage = "off"
  /\ exe' \in {"app"} \cup (IF home = "whole" THEN {"home"} ELSE {})
  /\ config' = Ensured(Load)
  /\ pref' = PrefOf(config'.reader)
  /\ stage' = "fresh"
  /\ \/ own' = Written(Kept(config')) /\ lent' = [k \in Key |-> Lent(k)] /\ Done
     \/ UNCHANGED <<own, lent>> /\ Fault
  /\ UNCHANGED <<kind, under, over, readers, usable, home, stored>>

(***************************************************************************)
(* The handlers that change a setting and save the whole configuration.    *)
(***************************************************************************)
Change(k, v) ==
  /\ stage # "off"
  /\ \/ /\ config' = [config EXCEPT ![k] = v] /\ stage' = "used"
        /\ Save(config') /\ pref' = pref
     \/ Cut
  /\ UNCHANGED <<kind, under, over, readers, usable, home, exe>>

\* drain_keyboard: normalize_host makes "http://" of an empty address.
CommitHost(text) == Change("url", text)

CommitKey(text) == Change("token", text)

SaveSource(s) == Change("source", s)

SaveGroup(g) == Change("group", g)

CommitDownloadsDir(d) == Change("downloads", d)

CommitLocalDir(d) == Change("local", d)

SettingsApply == Change("lang", config.lang)

\* cycle_reader and apply_reader_pref: nothing is written.
CycleReader ==
  LET next == (pref + 1) % (Len(Detected) + 1) IN
  /\ stage # "off" /\ Done
  /\ pref' = next
  /\ config' = [config EXCEPT !.reader = IF next = 0 THEN Unset ELSE Detected[next]]
  /\ stage' = "used"
  /\ UNCHANGED <<kind, own, under, over, readers, usable, home, exe, stored, lent>>

(***************************************************************************)
(* The home task lies beside the file of the app (PlatformPaths of the     *)
(* PocketBook: both in /mnt/ext1/system/bin).                              *)
(***************************************************************************)
\* promote: the settings first, then the copy of the running binary.  A
\* binary that was unlinked while it ran has no path left to copy from.
Promote ==
  /\ kind = "device" /\ stage # "off" /\ home = "absent"
  /\ \/ /\ Store(config) /\ Done
        /\ home' = IF exe = "gone" THEN home ELSE "whole"
        /\ stage' = "used" /\ UNCHANGED <<config, pref>>
     \/ \* the write of the settings fails
        /\ Fault /\ UNCHANGED <<own, stored, lent, home, config, pref, stage>>
     \/ \* the copy fails and what it left is removed
        /\ Store(config) /\ Fault
        /\ stage' = "used" /\ UNCHANGED <<home, config, pref>>
     \/ \* the power goes before the rename of the settings
        /\ home' = home /\ Cut
     \/ \* the power goes in the copy
        /\ Store(config) /\ Fault
        /\ exe # "gone" /\ home' = "partial"
        /\ stage' = "off" /\ config' = Blank /\ pref' = 0
  /\ UNCHANGED <<kind, under, over, readers, usable, exe>>

MutantUnpromote ==
  /\ kind = "device" /\ stage # "off" /\ home # "absent"
  /\ own' = Absent /\ stored' = Blank /\ lent' = Blank
  /\ \/ home' = "absent" /\ Done /\ stage' = "used" /\ UNCHANGED <<config, pref>>
     \/ home' = home /\ Fault /\ stage' = "off" /\ config' = Blank /\ pref' = 0
  /\ exe' = IF exe = "home" THEN "gone" ELSE exe
  /\ UNCHANGED <<kind, under, over, readers, usable>>

\* unpromote: the binary, then the settings; the power may go in between.
Unpromote ==
  /\ kind = "device" /\ stage # "off" /\ home # "absent"
  /\ home' = "absent"
  /\ exe' = IF exe = "home" THEN "gone" ELSE exe
  /\ \/ /\ own' = Absent /\ stored' = Blank /\ lent' = Blank /\ Done
        /\ stage' = "used" /\ UNCHANGED <<config, pref>>
     \/ Cut
  /\ UNCHANGED <<kind, under, over, readers, usable>>

(***************************************************************************)
(* The system around the app.                                              *)
(***************************************************************************)
\* Files are put on the disk before the first boot.
Provision ==
  /\ stage = "off" /\ saves = 0 /\ own = Absent /\ over = Blank /\ under = Blank
  /\ kind' \in {"device", "host"}
  /\ own' \in {Absent, Staged}
  /\ stored' = Parsed(own')
  /\ over' \in {Blank, IF kind' = "host" THEN EnvUrl ELSE Override}
  /\ under' \in {Blank} \cup (IF kind' = "host" THEN {Override} ELSE {})
  /\ readers' \in {{"standard"}, {"standard", "koreader"}}
  /\ UNCHANGED <<config, stage, pref, usable, home, exe, lent, saves, faults>>

\* A reader is installed or removed, a card comes or goes, the override is
\* lost with /tmp, the power is switched off.
Around ==
  /\ faults < MaxFaults /\ faults' = faults + 1
  /\ \/ readers' \in {{"standard"}, {"standard", "koreader"}} \ {readers}
        /\ UNCHANGED <<usable, over, stage, config, pref>>
     \/ usable' \in {Directory, {DefaultDir}} \ {usable}
        /\ UNCHANGED <<readers, over, stage, config, pref>>
     \/ over # Blank /\ over' = Blank /\ stage = "off"
        /\ UNCHANGED <<readers, usable, stage, config, pref>>
  /\ UNCHANGED <<kind, own, under, home, exe, stored, lent, saves>>

PowerOff ==
  /\ stage # "off" /\ stage' = "off" /\ config' = Blank /\ pref' = 0
  /\ UNCHANGED <<kind, own, under, over, readers, usable, home, exe, stored, lent,
                 saves, faults>>

SettingsNext ==
  \/ Provision \/ Boot \/ Around \/ PowerOff
  \/ \E u \in {"u3", "http://"} : CommitHost(u)
  \/ \E t \in {"t2", Unset} : CommitKey(t)
  \/ \E s \in Source : SaveSource(s)
  \/ \E g \in Group : SaveGroup(g)
  \/ \E d \in Directory : CommitDownloadsDir(d) \/ CommitLocalDir(d)
  \/ SettingsApply \/ CycleReader
  \/ Promote \/ Unpromote

SettingsSpec == SettingsInit /\ [][SettingsNext]_settingsVars

(***************************************************************************)
(* Properties.                                                             *)
(***************************************************************************)
\* What a key is when nobody set it.
Default ==
  [Blank EXCEPT !.token = DevToken, !.source = "kavita", !.group = "none", !.reader = "auto"]

\* A boot runs with what was stored last, whatever writes failed and wherever
\* the power went since: a layer above the file hides its keys, the layers
\* below fill only what it leaves out, nothing else is made up but defaults,
\* the folder gives way to the scratch root only when it cannot be written,
\* and the reader is the stored one while it is installed.  The exception is
\* the code's: what a boot save let in of the layer above, and the scratch
\* root, stay when that layer is gone and the folder is back (`lent'; for the
\* address and the key never, once the file has one).  The comment at
\* app/mod.rs 601-603 says that nothing of the layer above leaks
\* (Config::load, load_for_run, save, ensure_config, resolve_reader).
BootsAsSaved ==
  /\ \A k \in Key \ {"downloads"} :
       config'[k] \in IF Due(k) # Unset THEN {Due(k)} ELSE {Unset, Default[k]}
  /\ Due("downloads") \in usable => config'.downloads = Due("downloads")
  /\ Due("reader") \in readers => ReaderInUse' = Due("reader")

SettingsSurvive == [][stage = "off" /\ stage' = "fresh" => BootsAsSaved]_settingsVars

\* Wherever the power goes while the home task is installed or removed, a
\* binary that is there has its settings beside it (sysapp.rs: the settings
\* are written first and removed last).
HomeHasSettings == home # "absent" => own # Absent
====
