SPECIFICATION Spec
CONSTANTS
  c1 = c1
  ha = ha
  hb = hb
  local = local
  ka = ka
  kb = kb
  kbad = kbad
  h1 = h1
  h2 = h2
  NotBase64 = NotBase64
  TooShort = TooShort
  None = None
  Clients = {c1}
  Hosts = {ha, hb}
  Names = {ha, hb, local}
  LocalNames = {local}
  TokenKeys = {ka, kb, kbad}
  BadKeys = {kbad}
  Chapters = {h1, h2}
  Times = {0, 1, 2}
  MaxPings = 3
INVARIANTS TypeOK NeverUnset UpstreamNotOlder VerdictFits
CHECK_DEADLOCK FALSE
