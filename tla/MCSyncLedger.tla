---------------------------- MODULE MCSyncLedger ----------------------------
(***************************************************************************)
(* Small instances of SyncLedger for TLC: one or two books, each on a page *)
(* of its own, with titles that the fingerprint covers, a genre that it    *)
(* does not, and a date that may be missing.                               *)
(***************************************************************************)
EXTENDS SyncLedger, TLC

CONSTANTS Titles, Genres, Dated

MCMeta == [title : Titles, genre : Genres, dated : Dated]
MCPages == {{b} : b \in Book}

(* One field differs at a time: the title, the genre, the date.            *)
FewMeta == {m \in MCMeta : \E plain \in {[title |-> "t1", genre |-> "g1", dated |-> TRUE]} :
              Cardinality({f \in DOMAIN m : m[f] # plain[f]}) <= 1}

(* Revisions do not matter where no device reports: walks that differ in   *)
(* nothing else are one, although each deals undated books fresh ones.     *)
WithoutRevs ==
  <<provider, [b \in Book |-> IF rows[b] = NoRow THEN NoRow ELSE [rows[b] EXCEPT !.rev = 1]],
    fresh, walking, walkVars, edits, faults>>

(* Books are interchangeable.  Used by safety runs only.                   *)
BookSymmetry == Permutations(Book)
=============================================================================
