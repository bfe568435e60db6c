CONSTANTS
  Analyses = {a1, a2, a3}
  NumCPU = 2
  BigCRLQueue = 1
  MaxOpens = 1
SPECIFICATION FairSpec
INVARIANTS TypeOK SlotAccounting WorksOnSlot OneBigCRL RawCRLBound
PROPERTIES AcquireReturns HangIsRestarted
