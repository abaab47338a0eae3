SPECIFICATION FairSpec
CONSTANTS
  Addrs = {"a", "b"}
  Conns = {"c1", "c2"}
  MaxEvents = 1
  MaxNow = 1
INVARIANT DiskIsServed
PROPERTY AnswersCover
PROPERTY HandshakesEnd
