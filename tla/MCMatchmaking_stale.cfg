\* Two players, one stream each, rooms of two.
CONSTANTS
  s1 = s1
  s2 = s2
  s3 = s3
  p1 = p1
  p2 = p2
  Streams = {s1, s2}
  PlayerIDs = {s1, s2}
  PlayerOf <- OwnIDs
  Rooms = {m1, m2}
  PlayersPerMatch = 2
  None = None
SPECIFICATION FairSpec
PROPERTY AcceptMeansThisRoom
CHECK_DEADLOCK FALSE
