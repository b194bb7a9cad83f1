\* A session of two players, an outsider, three submissions and one reader.
CONSTANTS
  m1 = m1
  p1 = p1
  p2 = p2
  p3 = p3
  SessionIDs = {m1}
  Players = {p1, p2, p3}
  RoomOf <- RoomOfTwo
  Calls = {c1, c2, c3}
  Reads = {r1}
  None = None
SPECIFICATION Spec
SYMMETRY Symmetry
INVARIANTS
  SInv
  FinalizedWhenComplete
  AckedExactlyOnce
  SummaryEntriesStand
CHECK_DEADLOCK FALSE
