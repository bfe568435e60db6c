CONSTANTS
  l = l
  n1 = n1
  n2 = n2
  ne = ne
  ny = ny
  y = y
  r1 = r1
  r2 = r2
  u1 = u1
  u2 = u2
  None = None
  Certs = {l, n1, n2, ne, ny, y, r1, r2}
  Info <- MCInfo
  Served <- MCServed
  Inputs <- MCInputs
  Tables <- MCTables
  MaxChainDepth = 3
  MaxAIAURLs = 2
  MaxAIACerts = 2
  MaxAltCandidates = 4
  ArchiveSample = 1
  MaxChanges = 1
SPECIFICATION Spec
INVARIANTS TypeOK IncompleteIsWarned LinkLeavesNoTrace OnlyChainIsArchived AlternatesOffered WalkFindsPath
CHECK_DEADLOCK FALSE
