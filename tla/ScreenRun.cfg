SPECIFICATION Spec
CONSTANTS
  Place <- MCPlace
  Reach <- MCReach
  Row <- MCRow
  Col <- MCCol
  Contacts = 2
  MainSlot = 1
  QueueMax = 1
  MaxDrops = 1
  MaxScroll = 1
  MaxTravel = 3
  None = None
INVARIANTS
  OneGesture
  PageShown
PROPERTY LaunchIsTap
