SPECIFICATION Spec
CONSTANTS
  Absent = Absent
  Null = Null
  None = None
  NoToken = NoToken
  NoKey = NoKey
  NoOwner = NoOwner
  NoBytes = NoBytes
  NoField = NoField
  Blank = Blank
  Junk = Junk
  MaxUint = 500
  MaxEnvelopes = 2
  Lower <- MCLower
  LongTick <- MCLongTick
  OutpointAt <- MCOutpointAt
  NotJson = NotJson
  Parseable <- MCParseable
  Here <- MCHere
  Outputs <- MCOutputs
  Deploys <- MCDeploys
INVARIANTS
  ScannerReadsEnvelopes
  IndexSeesWhatViewShows
  ContentIsWhatViewHashes
  WellFormedIsUsable
  DisplayIsExact
CHECK_DEADLOCK FALSE
