SPECIFICATION Spec
CONSTANTS
  a = a
  b = b
  s1 = s1
  s2 = s2
  l1 = l1
  None = None
  Garbled = Garbled
  Size <- MCSize
  Contents = {b}
  Keys = {1, 2, 3}
  Times = {1, 2, 3}
  Savers = {}
  Loaders = {}
  QueueCap = 2
  ShrinkTrigger = 1
  ShrinkTarget = 1
  U64 = 32
  Prior <- AnyTimePrior
  MaxSaves = 0
  MaxFaults = 0
PROPERTIES QueueIsBest
