CONSTANTS
  u1 = u1
  u2 = u2
  any = any
  lo = lo
  mapped = mapped
  None = None
  Requests = {u1, u2, any}
  Addrs = {p1, p2, mapped}
  Hosts = {name, mapped}
  SiteHost = name
  Blocked = {lo}
  Keys = {"k1", "k2"}
  BigUploads = {u1, u2}
  Unmap <- MCUnmap
  KindsOf <- MCKindsOf
  KeyOf <- MCKeyOf
  MaxVia = 2
  MaxPending = 2
  BigTransfers = 1
  NumCPU = 1
  MaxFetches <- MCMaxFetches
SPECIFICATION FairSpec
INVARIANTS
  TypeOK
  PlacesKept
  OnlyAllowedDialed
PROPERTY
  Served
