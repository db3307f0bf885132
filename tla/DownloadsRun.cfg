SPECIFICATION FairSpec
CONSTANTS
  Book = {b1, b2}
  Window = 1
  Keys = {TRUE, FALSE}
  MaxGen = 3
  None = None
INVARIANTS
  SheetCounts
  FlagsHaveFiles
PROPERTIES
  StaleNeverSettles
  EverythingSettles
