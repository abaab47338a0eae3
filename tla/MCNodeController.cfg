SPECIFICATION FairSpec
CONSTANTS
  p1 = p1
  Pods <- OnePod
  MaxNodes = 2
  MaxEvents = 1
  MaxRetries = 2
CHECK_DEADLOCK FALSE
PROPERTY ForeignItemsKept
PROPERTY StatusConverges
PROPERTY LeaseHeld
PROPERTY DrainEndsLease
PROPERTY RunStops
