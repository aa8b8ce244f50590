SPECIFICATION Spec
CONSTANTS
  a = a
  b = b
  k1 = k1
  k2 = k2
  s1 = s1
  s2 = s2
  l1 = l1
  None = None
  Garbled = Garbled
  Size <- MCSize
  Keys = {k1, k2}
  Contents = {a, b}
  Savers = {s1, s2}
  Loaders = {l1}
  ShrinkTrigger = 2
  ShrinkTarget = 1
  Prior = {Garbled, b}
  MaxSaves = 2
  MaxFaults = 1
INVARIANTS TypeOK TotalCoversFiles
PROPERTIES TotalHeals ImplementsImageCache
