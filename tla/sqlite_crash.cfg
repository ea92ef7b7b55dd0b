SPECIFICATION DurableSpec
CONSTANTS
  Absent = Absent
  None = None
  NoHash = NoHash
  Block <- SmallBlock
  HeightOf <- LowHeightOf
  ParentOf <- LowParentOf
  ChainTo <- LowChainTo
  TxCount <- LowTxCount
  Writes <- MCWrites
  Unavailable <- MCUnavailable
  Key <- MCKey
  Value <- MCValue
  Replay <- MCReplay
  StartHeight = 1
  UndoDepth = 2
  Window = 1
  Once = FALSE
  Until = None
  MaxReorgs = 2
  CrashAnywhere = TRUE
  MaxRestarts = 2
INVARIANT DurableIndexMatchesChain
