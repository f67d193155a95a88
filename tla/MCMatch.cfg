CONSTANTS
  Length = 5
  Unfinished = FALSE
  MaxGames = 9
  MaxCube = 4
SPECIFICATION Spec
INVARIANTS TypeOK ScoresAddUp CubeOwned
PROPERTIES OffersAreSettled ImplementsScoreBoard
CHECK_DEADLOCK FALSE
