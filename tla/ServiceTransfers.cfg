CONSTANTS
  u1 = u1
  u2 = u2
  any = any
  lo = lo
  mapped = mapped
  None = None
  Requests = {u1, u2, d1, d2}
  Addrs = {p1}
  Hosts = {name}
  SiteHost = name
  Blocked = {lo}
  Keys = {"k1", "k2"}
  BigUploads = {u1, u2}
  Unmap <- MCUnmap
  KindsOf <- MCTransferKinds
  KeyOf <- MCKeyOf
  MaxVia = 1
  MaxPending = 2
  BigTransfers = 1
  NumCPU = 1
  MaxFetches <- MCMaxFetches
SPECIFICATION Spec
INVARIANT TransfersAdmitted
