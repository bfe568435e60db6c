CONSTANTS
  leaf = leaf
  inter = inter
  u1 = u1
  u2 = u2
  u3 = u3
  old = old
  new = new
  delta = delta
  forged = forged
  shard = shard
  caOnly = caOnly
  endless = endless
  None = None
  Analyses = {a1}
  Chain <- VerdictChain
  CRLs = {old, new, delta, forged, shard, caOnly, endless}
  Info <- VerdictInfo
  Serves <- VerdictServes
  CDPURLs <- VerdictCDPURLs
  CAs = {inter}
  CDP <- VerdictCDP
  IssuerOf <- Issuers2
  HasOCSP = {leaf, inter}
  Responses <- VerdictResponses
  MaxTime = 3
  MaxRuns = 2
SPECIFICATION Spec
INVARIANT VerdictSound
PROPERTY StoreVetted
