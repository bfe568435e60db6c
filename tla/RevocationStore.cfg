CONSTANTS
  leaf = leaf
  inter = inter
  u1 = u1
  u2 = u2
  u3 = u3
  old = old
  new = new
  delta = delta
  forged = forged
  shard = shard
  caOnly = caOnly
  endless = endless
  None = None
  Analyses = {a1, a2}
  Chain <- StoreChain
  CRLs = {old, new}
  Info <- StoreInfo
  Serves <- StoreServes
  CDPURLs <- StoreCDPURLs
  CAs = {inter}
  CDP <- StoreCDP
  IssuerOf <- StoreIssuers
  HasOCSP = {}
  Responses = {}
  MaxTime = 3
  MaxRuns = 2
SPECIFICATION FairSpec
INVARIANTS
  TypeOK
  LatestKept
PROPERTIES
  AnalysisEnds
