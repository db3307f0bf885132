------------------------------ MODULE MCWarm -------------------------------
(* Warm with a book of the server and a local file with art of its own, for *)
(* whose id the server sends its placeholder.                               *)
EXTENDS Warm

MCLibrary == <<"remote", "local">>
MCAnswers(b) == IF b = "remote" THEN {"whole", "error"} ELSE {"tiny", "error"}
MCHasArt(b) == b = "local"
=============================================================================
