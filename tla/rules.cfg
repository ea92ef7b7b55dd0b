SPECIFICATION Spec
CONSTANTS
  Absent = Absent
  Null = Null
  None = None
  NoToken = NoToken
  NoKey = NoKey
  NoOwner = NoOwner
  t = t
  alice = alice
  bob = bob
  Tick <- MCTick
  Owner <- MCOwner
  Outputs <- MCOutputs
  MaxInputs = 2
  MaxTxs = 3
  MaxDepth = 3
INVARIANTS
  BalancesMatchOutputs
  OutputsAreLiveOrSpent
  SupplyCoversCirculation
  ReplayInOrder
  ReplayAgrees
PROPERTIES
  DeployStands
CHECK_DEADLOCK FALSE
