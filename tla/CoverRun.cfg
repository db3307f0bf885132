CONSTANTS
  Book = {b1, b2}
  Client = {c1}
  Warmer = {w1}
  Version = {v1}
  MissingMax = 1
  MaxEdits = 1
  MaxFaults = 1
  None = None
SPECIFICATION HangSpec
INVARIANTS OneOwner NoOrphanWait MissingMeansAbsent
PROPERTIES EveryRequestAnswered CoversComeBack
CHECK_DEADLOCK FALSE
