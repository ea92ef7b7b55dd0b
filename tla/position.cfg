SPECIFICATION FairPositionSpec
CONSTANTS
  Coinbase = Coinbase
  None = None
  Cat = Cat
  Dog = Dog
  TxOf <- MCTxOf
  Inscribed <- MCInscribed
  Lie <- MCLie
  Requests <- MCRequests
  MaxHops = 3
  MaxFetches = 6
INVARIANTS
  TypeOK
  OriginTrue
  TipTrue
  HolderFound
  VerdictIsTrue
  InspectionTellsAll
PROPERTIES
  PositionAnswered
