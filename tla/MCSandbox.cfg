CONSTANTS
  Pods = {"p", "q"}
  NoPod = "none"
  Containers <- MCContainers
  Inits = {"init"}
  PVCPods = {"p"}
  ProjectedPods = {"q"}
  HostPIDPods = {"q"}
  PawnOf <- MCPawnOf
  MaxOffset = 3
  MaxEvents = 2
SPECIFICATION FairSpec
CHECK_DEADLOCK FALSE
 
 
INVARIANT AddressesDistinct
PROPERTY VolumesFresh
 
