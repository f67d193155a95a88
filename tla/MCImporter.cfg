CONSTANTS
  Names = {p}
  Stems = {s, t}
  Ranks = {1, 2}
  MaxRatings = 2
SPECIFICATION FairSpec
INVARIANTS TypeOK EndsComplete
PROPERTIES ImportEnds
CHECK_DEADLOCK FALSE
