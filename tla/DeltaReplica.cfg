SPECIFICATION FairSpec
CONSTANTS
  Book = {b1, b2}
  Content = {c1, c2}
  Key = {k1}
  Device = {d1}
  Worker = {w1}
  Owner <- MCOwner
  KeyOf <- MCKeyOf
  Reporter = {d1}
  Batch = 1
  RoundCap = 1
  MaxRev = 4
  MaxFaults = 1
  Gone = Gone
  NoRow = NoRow
  NoReport = NoReport
  None = None
INVARIANTS
  ReplicaAgrees
  NoGhost
PROPERTIES
  CatchesUp
  LogSpec
