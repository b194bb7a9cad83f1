\* Two bots and one room of two: a room that is cancelled cannot be followed by another.
CONSTANTS
  Streams = {b1, b2}
  PlayerIDs = {b1, b2}
  PlayerOf <- OwnIDs
  Rooms = {m1}
  PlayersPerMatch = 2
  None = None
SPECIFICATION FairSimSpec
INVARIANTS
  SimIInv
  SubmissionsWelcome
  TallyAddsUp
  MembersAreMatched
  ClicksMeanThisRoom
PROPERTIES
  SimulationCompletes
  HandlersEnd
CHECK_DEADLOCK FALSE
