CONSTANTS
  Callers = {a1, a2}
  Keys = {k1}
  Host = h1
  Endpoints = {h1}
  EndpointOf <- OneEndpoint
  Calls = {c1, c2}
  None = None
  MaxFetches = 1
  SweepAt = 2
SPECIFICATION FairSpec
INVARIANTS TypeOK NoCollateralCancel OneDownloadPerKey NoUnwatchedDownload
PROPERTIES LeavingNeverBlacklists WaiterReturns
