---------------------------- MODULE MCDeltaSync ----------------------------
(***************************************************************************)
(* Small instances of DeltaSync for TLC.  Worker wN runs on device dN when *)
(* there are as many devices as workers; on a single device all workers    *)
(* run there.  Likewise for the keys under which cursors are filed.        *)
(***************************************************************************)
EXTENDS DeltaSync

(* One-to-one when the sizes allow it, constant otherwise.                 *)
Spread(S, T) ==
  CHOOSE f \in [S -> T] :
    Cardinality(S) = Cardinality(T) => \A x, y \in S : x # y => f[x] # f[y]

MCOwner == Spread(Worker, Device)
MCKeyOf == Spread(Device, Key)
=============================================================================
