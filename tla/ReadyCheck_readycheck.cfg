\* A room of three.
CONSTANTS
  Members = {s1, s2, s3}
  Room = room
SPECIFICATION FairSpec
INVARIANTS
  RInv
  FanInNeverBlocks
PROPERTIES
  CoordinatorReturns
  FanInsEnd
  ReadySpec
CHECK_DEADLOCK FALSE
