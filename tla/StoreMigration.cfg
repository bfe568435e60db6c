CONSTANTS
  c1 = c1
  c2 = c2
  d1 = d1
  d2 = d2
  u1 = u1
  u2 = u2
  up = up
  None = None
  Certs = {c1, c2}
  Ocsps = {o1}
  Uploads = {up}
  Serial <- MCSerial
  CrlRow <- MCCrlRow
  MaxFaults = 2
  MaxId = 3
SPECIFICATION FairSpec
INVARIANTS
  TypeOK
  SchemaComplete
PROPERTIES
  Preserved
  StartSucceeds
