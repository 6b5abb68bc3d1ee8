CONSTANTS
  Size = 3
  MaxStep = 2
  AtomicDouble = TRUE
SPECIFICATION FairSpec
CHECK_DEADLOCK FALSE
PROPERTIES
  AtLeastOnce
