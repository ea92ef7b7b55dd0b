SPECIFICATION FairSpec
CONSTANTS
  Absent = Absent
  None = None
  NoHash = NoHash
  Block <- MCBlock
  HeightOf <- MCHeightOf
  ParentOf <- MCParentOf
  ChainTo <- MCChainTo
  TxCount <- MCTxCount
  Writes <- MCWrites
  Unavailable <- MCUnavailable
  Key <- MCKey
  Value <- MCValue
  Replay <- MCReplay
  StartHeight = 1
  UndoDepth = 2
  Window = 1
  Once = FALSE
  Until = None
  MaxReorgs = 3
INVARIANTS
  TypeOK
  IndexMatchesChain
  UndoWindowHolds
  LoopsAreClosedForms
PROPERTIES
  RollsBackOnlyOrphans
  ImplementsChainIndex
  CatchesUp
