CONSTANTS
  Size = 5
  MaxStep = 2
  AtomicDouble = FALSE
SPECIFICATION FairSpec
CHECK_DEADLOCK FALSE
INVARIANTS
  WatcherInv
  Fresh
PROPERTIES
  NeverBackwards
  Terminates
