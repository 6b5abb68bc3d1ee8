CONSTANTS
  errno <- MCErrnoOf
  Missing <- MCMissing
  Results = {0, 1, 1024}
SPECIFICATION Calls
INVARIANT Unambiguous
