\* Two players, one of whom opens two streams; rooms of two.
CONSTANTS
  s1 = s1
  s2 = s2
  s3 = s3
  p1 = p1
  p2 = p2
  Streams = {s1, s2, s3}
  PlayerIDs = {p1, p2}
  PlayerOf <- SharedIDs
  Rooms = {m1, m2}
  PlayersPerMatch = 2
  None = None
SPECIFICATION Spec
SYMMETRY SecondPlayerAndRooms
CONSTRAINT OneStopsPrompted
INVARIANTS
  IInv
  VInv
  OneOwner
  MatchChReady
  VerdictAgreement
  SessionMembersGone
  LonePlayersKeepQueueing
  OrphanAcceptedOnce
PROPERTIES
  EvictedByOwnPlayer
  QueueSpec
  VerdictSpec
CHECK_DEADLOCK FALSE
