SPECIFICATION Spec
CONSTANTS
  a = a
  b = b
  s1 = s1
  s2 = s2
  l1 = l1
  None = None
  Garbled = Garbled
  Size <- MCSize
  Contents = {a, b}
  Keys = {1, 2, 3}
  Times = {1, 2}
  Savers = {s1}
  Loaders = {}
  QueueCap = 2
  ShrinkTrigger = 1
  ShrinkTarget = 0
  U64 = 32
  Prior <- SomePrior
  MaxSaves = 1
  MaxFaults = 1
PROPERTIES QueueHeadIsOldest MainThreadReturns
