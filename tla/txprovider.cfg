SPECIFICATION FairSpec
CONSTANTS
  None = None
  a = a
  b = b
  c = c
  Caller = {a, b, c}
  Item <- MCItem
  ModeOf <- MCModeOf
  Chains <- MCChains
  MaxFetches = 1
  CacheMax <- MCCacheMax
  Asks <- MCAsks
INVARIANTS
  WithinLimits
  NobodyAbandoned
  ServedFromChain
PROPERTIES
  EveryoneAnswered
