\* Two players, rooms of one, a ForceMatch call, one slot.
CONSTANTS
  s1 = s1
  s2 = s2
  m1 = m1
  m2 = m2
  Streams = {s1, s2}
  PlayerIDs = {s1, s2}
  PlayerOf <- OwnIDs
  Rooms = {m1, m2}
  PlayersPerMatch = 1
  None = None
  Callers = {f1}
  Worker = worker
  MaxStreams = 1
SPECIFICATION FairServerSpec
CONSTRAINT PatientInOrder
INVARIANTS
  ServerInv
  SlotsMatchStreams
  StopWaitsForWorker
  NeverUndercounts
PROPERTIES
  WaitEnds
  DrainHeldByClientsOnly
CHECK_DEADLOCK FALSE
