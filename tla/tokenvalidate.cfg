SPECIFICATION FairSpec
CONSTANTS
  None = None
  TxOf <- MCTxOf
  MaxDepth = 4
  MaxFetches = 6
INVARIANTS
  VerdictStands
  ProvenIsBacked
  MemoLosesNothing
PROPERTIES
  ValidationEnds
