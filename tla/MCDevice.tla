------------------------------- MODULE MCDevice --------------------------------
(***************************************************************************)
(* The parts of the device that keep their state to themselves, one of     *)
(* them in each behaviour: the SQLite file, the settings and the home      *)
(* task, what is read from a book's file, the launcher, the two viewers,   *)
(* and the sheets.  They share no variable, so that a behaviour of all is  *)
(* an interleaving of theirs and each property is about one of them.       *)
(***************************************************************************)
EXTENDS Catalogue, Settings, Extract, Launcher, Viewer, Menus, TLC

CONSTANTS k1, k2, l1, old, new, w1, w2
MCFts == (w1 :> {old}) @@ (w2 :> {})
MCLike == (w1 :> {old}) @@ (w2 :> {new})
Symmetry == Permutations({k1, k2})

VARIABLE part   \* the part that runs
Parts == {"catalogue", "settings", "extract", "launcher", "viewer", "menus"}

Init ==
  /\ part \in Parts
  /\ CatalogueInit /\ SettingsInit /\ ExtractInit
  /\ LauncherInit /\ ViewerInit /\ MenusInit

Idle(vars, p) == part # p => UNCHANGED vars

Next ==
  /\ UNCHANGED part
  /\ Idle(catalogueVars, "catalogue") /\ Idle(settingsVars, "settings")
  /\ Idle(extractVars, "extract") /\ Idle(launcherVars, "launcher")
  /\ Idle(viewerVars, "viewer") /\ Idle(menusVars, "menus")
  /\ \/ part = "catalogue" /\ CatalogueNext
     \/ part = "settings" /\ SettingsNext
     \/ part = "extract" /\ ExtractNext
     \/ part = "launcher" /\ LauncherNext
     \/ part = "viewer" /\ ViewerNext
     \/ part = "menus" /\ MenusNext
===============================================================================
