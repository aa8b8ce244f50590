SPECIFICATION Spec
CONSTANTS
  a = a
  b = b
  s1 = s1
  s2 = s2
  l1 = l1
  None = None
  Garbled = Garbled
  Size <- MCSize
  Contents = {a, b}
  Keys = {1, 2}
  Times = {1}
  Savers = {s1, s2}
  Loaders = {}
  QueueCap = 1
  ShrinkTrigger = 2
  ShrinkTarget = 1
  U64 = 32
  Prior <- MixedPrior
  MaxSaves = 2
  MaxFaults = 1
INVARIANTS TypeOK ColumnsAgree SizeIsUpperBound ScansPurgeGarbage
PROPERTIES MainThreadAdvances
