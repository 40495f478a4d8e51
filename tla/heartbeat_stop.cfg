SPECIFICATION FairSpec
CONSTANTS
  Holder <- MCHolder
  Scope <- MCScope
  Parent <- MCParent
  Rounds <- MCRounds
  Limits <- MCLimits
  TTL = 6
  HeartbeatInterval = 1
  CacheTTL = 1
  MaxWait <- MCWait
  MaxLag = 1
  MaxFaults = 0
  NoLimit = NoLimit
  NoHolder = NoHolder
  None = None
PROPERTIES CleanupCompletes
