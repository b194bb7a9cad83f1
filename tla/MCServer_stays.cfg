\* One player and nothing that disturbs the shutdown.
CONSTANTS
  s1 = s1
  s2 = s2
  m1 = m1
  m2 = m2
  Streams = {s1}
  PlayerIDs = {s1}
  PlayerOf <- OwnIDs
  Rooms = {m1}
  PlayersPerMatch = 1
  None = None
  Callers = {}
  Worker = worker
  MaxStreams = 1
SPECIFICATION FairServerSpec
PROPERTY ShutdownCompletes
CHECK_DEADLOCK FALSE
