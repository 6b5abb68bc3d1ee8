CONSTANTS
  Readers = {r1, r2}
  Writers = {w1, w2}
  Iterations = 2
SPECIFICATION FairSpec
INVARIANTS
  AllIncrementsAtExit
  NoUseAfterDestroy
  StableSnapshot
  IInv
PROPERTIES
  Termination
CHECK_DEADLOCK FALSE
