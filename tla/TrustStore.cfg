CONSTANTS
  r = r
  k = k
  ca = ca
  v1 = v1
  v2 = v2
  v3 = v3
  None = None
  Certs = {r, k, ca}
  Roots = {r, k}
  Versions <- MCVersions
  Bundle <- MCBundle
  Paths <- MCPaths
SPECIFICATION Spec
INVARIANTS
  TypeOK
  UntrustSurvives
  TrustJustified
  BundledTrusted
PROPERTY PoolJustified
