CONSTANTS
  Readers = {r1, r2}
  Writers = {w1}
  Iterations = 1
SPECIFICATION Spec
CHECK_DEADLOCK FALSE
INVARIANTS
  DestroyedBySerializer
