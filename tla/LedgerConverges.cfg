SPECIFICATION FairSpec
CONSTANTS
  Book = {b1, b2}
  Meta <- FewMeta
  Pages <- MCPages
  Key = {}
  Walker = {w1}
  CompactThreshold = 0
  AckEmpty = FALSE
  FpWalkers = {TRUE, FALSE}
  MaxEdits = 2
  MaxFaults = 2
  Titles = {"t1", "t2"}
  Genres = {"g1", "g2"}
  Dated = {TRUE, FALSE}
  None = None
  NoRow = NoRow
  NoReport = NoReport
VIEW WithoutRevs
PROPERTIES
  Converges
