SPECIFICATION Spec
CONSTANTS
  a = a
  b = b
  s1 = s1
  s2 = s2
  l1 = l1
  None = None
  Garbled = Garbled
  Size <- MCSize
  Contents = {a, b}
  Keys = {1}
  Times = {1}
  Savers = {s1, s2}
  Loaders = {l1}
  QueueCap = 1
  ShrinkTrigger = 9
  ShrinkTarget = 9
  U64 = 32
  Prior <- NothingPrior
  MaxSaves = 2
  MaxFaults = 0
INVARIANTS HitMatchesChecksum
