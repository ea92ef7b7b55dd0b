SPECIFICATION Spec
CONSTANTS
  Absent = Absent
  Null = Null
  None = None
  NoToken = NoToken
  NoKey = NoKey
  NoOwner = NoOwner
  t = t
  alice = alice
  bob = bob
  Tick <- MCTick
  Owner <- MCOwner
  Outputs <- Outputs20
  MaxInputs = 2
  MaxTxs = 3
  MaxDepth = 3
INVARIANT MintsAccumulate
CHECK_DEADLOCK FALSE
