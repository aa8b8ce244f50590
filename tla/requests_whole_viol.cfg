SPECIFICATION Spec
CONSTANTS
  r1 = r1
  r2 = r2
  k1 = k1
  k2 = k2
  MaxErrors = 1
  None = None
  Requests = {r1}
  Keys = {k1}
  Chunks = 2
  Retry = 3
INVARIANTS SavedIsWhole
CHECK_DEADLOCK FALSE
