CONSTANTS
  Requests = {r1, r2}
  Admins = {t1}
  Keys = {k1, k2}
  Entries = {e1, e2}
  None = None
  RespCacheMax = 1
  MaxEpoch = 2
SPECIFICATION FairSpec
INVARIANTS TypeOK FreshAfterToggle
PROPERTIES GateIsReleased
