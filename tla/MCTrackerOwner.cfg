SPECIFICATION Spec
CONSTANTS
  Length = 2
  MaxMoves = 2
  MaxCube = 2
  MaxGames = 2
  MaxAway = 3
  Values = {1, 2}
  Dances <- SomeDances
PROPERTY OwnerDoubles
CHECK_DEADLOCK FALSE
