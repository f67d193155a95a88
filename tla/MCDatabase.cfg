CONSTANTS
  Players = {p, q}
  Scores = {0}
  Interference = {"users", "reads", "writes"}
  MayCancel = TRUE
  MaxCalls = 4
  MaxActive = 2
  MaxOthers = 3
  MaxCrashes = 1
SPECIFICATION FairSpec
INVARIANTS TypeOK KeepsPromises NothingLeaks CountriesWhole
PROPERTIES UpdateEnds
CHECK_DEADLOCK FALSE
