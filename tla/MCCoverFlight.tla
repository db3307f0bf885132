--------------------------- MODULE MCCoverFlight ---------------------------
(* Small instances of CoverFlight for TLC.                                 *)
EXTENDS CoverFlight
=============================================================================
