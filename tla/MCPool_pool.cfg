\* Four players, one of whom joins twice with different ratings.
CONSTANTS
  t1 = t1
  t2 = t2
  t3 = t3
  t4 = t4
  t5 = t5
  p1 = p1
  p2 = p2
  p3 = p3
  p4 = p4
  Tickets = {t1, t2, t3, t4, t5}
  PlayerIDs = {p1, p2, p3, p4}
  PlayerOf <- ClusteredPlayer
  MMR <- ClusteredMMR
  BracketSize = 2
  MaxMMR = 3
  Brackets = {0, 1}
  PlayersPerMatch = 2
  MaxBracketExpansion = 1
  WaitWeight = 2
  MaxNow = 2
  None = None
SPECIFICATION Spec
INVARIANTS
  PInv
  IndexMatchesBrackets
PROPERTIES
  NoBetterRoom
  NoEndlessOvertaking
  QueueSpec
CHECK_DEADLOCK FALSE
