INIT Init
NEXT Next
CONSTANTS
  k1 = k1
  k2 = k2
  l1 = l1
  old = old
  new = new
  w1 = w1
  w2 = w2
  Kavita = {k1, k2}
  Local = {l1}
  Texts = {old, new}
  Words = {w1, w2}
  None = None
  FtsHits <- MCFts
  LikeHits <- MCLike
  MaxRow = 4
  MaxSaves = 3
  MaxFaults = 2
INVARIANT
  LogRowsAreText
CHECK_DEADLOCK FALSE
