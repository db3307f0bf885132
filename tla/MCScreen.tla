------------------------------ MODULE MCScreen ------------------------------
(* Screen with four places and two contacts on a panel whose first slot is 1: *)
(* three rows, and a fourth place beside the bottom one.  The first finger of *)
(* the panel moves between the corners, the second keeps to the middle; the   *)
(* firmware's one finger goes everywhere.                                     *)
EXTENDS Screen

MCPlace == 1 .. 4
MCReach(s) == IF s = MainSlot THEN {1, 4} ELSE {2}
MCRow(p) == IF p = 4 THEN 3 ELSE p
MCCol(p) == IF p = 4 THEN 1 ELSE 0
=============================================================================
