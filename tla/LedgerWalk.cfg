SPECIFICATION Spec
CONSTANTS
  Book = {b1, b2}
  Meta <- MCMeta
  Pages <- MCPages
  Key = {k1}
  Walker = {w1}
  CompactThreshold = 0
  AckEmpty = FALSE
  FpWalkers = {TRUE, FALSE}
  MaxEdits = 2
  MaxFaults = 1
  Titles = {"t1", "t2"}
  Genres = {"g1"}
  Dated = {TRUE}
  None = None
  NoRow = NoRow
  NoReport = NoReport
SYMMETRY BookSymmetry
INVARIANTS
  TypeOK
  NoFalseTombstone
  EmptyNeverWipes
PROPERTIES
  NoChurn
  ImplementsChangeLog
