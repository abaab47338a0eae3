SPECIFICATION FairSpec
CONSTANTS
  n1 = n1
  u1 = u1
  u2 = u2
  e1 = e1
  NoUid = NoUid
  NoEntry = NoEntry
  Uids <- OnePod
  Names <- OneName
  NameOf <- SameName
  Cost <- UnitCost
  Capacity = 2
  CreateConcurrency = 1
  NeverRestart = {}
  Callers <- MCCallers
  Evictors = {e1}
  WatchedPods = {}
  Pressure = FALSE
  MaxCrashes = 1
 
PROPERTY GhostsEvicted
PROPERTY DeletesReturn
PROPERTY OrphansStopped
