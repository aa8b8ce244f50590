SPECIFICATION Spec
CONSTANTS
  ka = ka
  kb = kb
  kbad = kbad
  None = None
  TokenKeys = {ka, kb, kbad}
  BadKeys = {kbad}
  Graces <- AllGraces
  Sleep = 5
  MaxInFlight = 2
  MaxRenewals = 2
INVARIANTS TypeOK VerifierInSync CertInSync AliveMeansServing ToldBeforeEnd GraceOverrun
PROPERTIES KillEnds CatchesUp KillAdvances
CHECK_DEADLOCK FALSE
