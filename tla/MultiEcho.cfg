CONSTANTS
  Conns = {c1, c2, c3}
  CpuCount = 2
  MaxBatch = 2
  Nobody = Nobody
SPECIFICATION FairSpec
CHECK_DEADLOCK FALSE
INVARIANTS
  HandOverInv
PROPERTIES
  ServedInTheEnd
  OrphansEnd
