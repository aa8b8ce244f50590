SPECIFICATION Spec
CONSTANTS
  ka = ka
  kb = kb
  kbad = kbad
  None = None
  TokenKeys = {ka, kbad}
  BadKeys = {kbad}
  Graces = {12}
  Sleep = 5
  MaxInFlight = 1
  MaxRenewals = 1
INVARIANTS NewCertServed
CHECK_DEADLOCK FALSE
