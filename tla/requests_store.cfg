SPECIFICATION Spec
CONSTANTS
  r1 = r1
  r2 = r2
  k1 = k1
  k2 = k2
  MaxErrors = 1
  None = None
  Requests = {r1, r2}
  Keys = {k1, k2}
  Chunks = 2
  Retry = 3
INVARIANTS TypeOK WholeUnlessCut BrokenNeverSaved EachCountedOnce BytesBalance
PROPERTIES RequestsSettle RequestsAdvance
CHECK_DEADLOCK FALSE
