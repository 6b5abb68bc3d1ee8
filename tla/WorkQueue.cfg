CONSTANTS
  FIB_UNTIL = 4
  PoolSize = 2
  MaxSignals = 2
SPECIFICATION FairSpec
CHECK_DEADLOCK FALSE
INVARIANTS
  CancelledNeverRuns
  ExitIsComplete
  IInv
PROPERTIES
  NoStartAfterHandler
  KeepsPromise
  Terminates
