-------------------------------- MODULE MCShelf --------------------------------
(***************************************************************************)
(* Five books of the server and one of the device.  Two share an author    *)
(* and a series, two have no author at all, so that the second page of the *)
(* grouped shelf is a card; pages of two tiles in the grid and of three in *)
(* the list.                                                               *)
(***************************************************************************)
EXTENDS Shelf

MCBook == 1..6
MCSourceOf == [b \in MCBook |-> IF b = 6 THEN "local" ELSE "kavita"]
MCDim ==
  [author |-> [b \in MCBook |-> IF b \in {2, 3} THEN "A"
                                ELSE IF b \in {4, 5} THEN "" ELSE "B"],
   series |-> [b \in MCBook |-> IF b \in {2, 3} THEN "S" ELSE ""]]
MCOrder ==
  [title |-> [b \in MCBook |-> b], recent |-> [b \in MCBook |-> 7 - b]]
MCMatching == ("" :> MCBook) @@ ("even" :> {2, 4, 6}) @@ ("B" :> {1, 3})
MCPer == [grid |-> 2, list |-> 3]
MCMoving == {2}
===============================================================================
