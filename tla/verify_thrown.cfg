SPECIFICATION Spec
CONSTANTS
  Coinbase = Coinbase
  None = None
  TxOf <- MCTxOf
  MaxHops = 3
  MaxFetches = 6
INVARIANT TransfersConfirmed
