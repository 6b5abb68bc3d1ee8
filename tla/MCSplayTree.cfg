CONSTANTS
  N = 7
  Nodes <- MCNodes
  Key <- MCKey
  NULL = NULL
  STALE = STALE
  SCRATCH = SCRATCH
  Pending = Pending
SPECIFICATION FairSpec
INVARIANTS
  WellFormed
  ClosestOnTop
PROPERTIES
  IsOrderedSet
  CallsReturn
