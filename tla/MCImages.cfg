SPECIFICATION FairSpec
CONSTANTS
  Hosts = {"a", "b"}
  Pulls <- MCPulls
  Layers = {"l1", "l2"}
  HostOf <- MCHostOf
  LayersOf <- MCLayersOf
  MaxAttempts = 2
  MaxEvents = 2
CHECK_DEADLOCK FALSE
INVARIANT LayersWhole
 
 
INVARIANT AnnouncementsEnd
 
