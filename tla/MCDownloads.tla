---------------------------- MODULE MCDownloads ----------------------------
(***************************************************************************)
(* Small instances of Downloads for TLC: two books, so that one can be     *)
(* queued, cancelled and queued again while the other one is in flight.    *)
(***************************************************************************)
EXTENDS Downloads
=============================================================================
