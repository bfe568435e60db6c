CONSTANTS
  Requests = {r1, r2}
  Admins = {t1}
  Keys = {k1}
  Entries = {e1, e2}
  None = None
  RespCacheMax = 2
  MaxEpoch = 0
SYMMETRY Symmetry
SPECIFICATION Spec
INVARIANTS OneComputation
