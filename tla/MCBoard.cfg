CONSTANTS
  Points = 7
  Home = 3
  MaxMine = 3
  MaxHers = 1
  MaxSteps = 4
SPECIFICATION Spec
INVARIANTS LegalIffRules MoveApplies
CHECK_DEADLOCK FALSE
