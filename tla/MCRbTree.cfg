CONSTANTS
  SmallKeys = 6
  LargeKeys = 10
  Nodes <- MCNodes
  Key <- MCKey
  NULL = NULL
  STALE = STALE
  Pending = Pending
SPECIFICATION MCSpec
INVARIANTS
  WellFormed
  RedBlack
  SafeCursor
PROPERTIES
  IsOrderedSet
  LoopsEnd
