SPECIFICATION Spec
CONSTANTS
  Book <- MCBook
  SourceOf <- MCSourceOf
  Dim <- MCDim
  Order <- MCOrder
  Matching <- MCMatching
  ScanCap = 9
  Per <- MCPer
  RowsPer = 2
  Moving <- MCMoving
  MaxBusy = 1
INVARIANTS
  ShelfIsWhole
PROPERTY
  BackReturns
