SPECIFICATION Spec
CONSTANTS
  a = a
  b = b
  s1 = s1
  s2 = s2
  l1 = l1
  None = None
  Garbled = Garbled
  Size <- EqualSize
  Contents = {a, b}
  Keys = {1}
  Times = {1}
  Savers = {s1, s2}
  Loaders = {l1}
  QueueCap = 1
  ShrinkTrigger = 0
  ShrinkTarget = 0
  U64 = 32
  Prior <- FullPrior
  MaxSaves = 2
  MaxFaults = 1
SYMMETRY SaverSymmetry
INVARIANTS CleanLoadCoherent
PROPERTIES ImplementsImageCache
