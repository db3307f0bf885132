SPECIFICATION Spec
CONSTANTS
  Library <- MCLibrary
  LocalBooks = {"local"}
  Answers <- MCAnswers
  HasArt <- MCHasArt
  Workers = {w1, w2}
  CacheCap = 1
  None = None
INVARIANTS
  LocalArtShows
PROPERTIES
  TornHeals
  SheetCloses
