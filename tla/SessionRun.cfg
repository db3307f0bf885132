CONSTANTS
  Chain = {c1, c2}
  Host = {h1}
  NoHost = NoHost
  Base = {b1, b2}
  MaxGen = 3
  None = None
SPECIFICATION FairSpec
INVARIANTS
  OneSession
  ViewIsCurrent
PROPERTIES
  SessionEnds
CHECK_DEADLOCK FALSE
