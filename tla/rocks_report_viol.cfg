SPECIFICATION Spec
CONSTANTS
  a = a
  b = b
  s1 = s1
  s2 = s2
  l1 = l1
  None = None
  Garbled = Garbled
  Size <- MCSize
  Contents = {b}
  Keys = {1}
  Times = {1}
  Savers = {s1}
  Loaders = {}
  QueueCap = 1
  ShrinkTrigger = 1
  ShrinkTarget = 1
  U64 = 32
  Prior <- NothingPrior
  MaxSaves = 1
  MaxFaults = 0
INVARIANTS ReportCoversDatabase
