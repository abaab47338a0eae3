SPECIFICATION FairSpec
CONSTANTS
  u1 = u1
  u2 = u2
  Uids <- TwoPods
  MaxEvents = 2
  MaxNotes = 2
CHECK_DEADLOCK FALSE
INVARIANT UpdatesAreKnown
INVARIANT StatusOfOwnPod
PROPERTY OnlyDeletedForced
PROPERTY LatestStatusReported
PROPERTY DeletedPodsGo
