SPECIFICATION Spec
CONSTANTS
  n1 = n1
  u1 = u1
  u2 = u2
  e1 = e1
  NoUid = NoUid
  NoEntry = NoEntry
  Uids <- TwoPods
  Names <- OneName
  NameOf <- SameName
  Cost <- UnitCost
  Capacity = 2
  CreateConcurrency = 1
  NeverRestart = {u2}
  Callers <- MCCallers
  Evictors = {}
  WatchedPods = {u1}
  Pressure = TRUE
  MaxCrashes = 0
INVARIANT UsedMatchesPods
INVARIANT DeletionsCounted
INVARIANT CreationsAlone
