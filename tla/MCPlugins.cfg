SPECIFICATION FairSpec
CONSTANTS
  Drivers = {"a", "b"}
  Slots <- MCSlots
  MaxEvents = 1
CHECK_DEADLOCK FALSE
INVARIANT AnnotationBacked
PROPERTY DriversKept
PROPERTY RegistrarsTold
