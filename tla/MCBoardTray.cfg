CONSTANTS
  Points = 7
  Home = 3
  MaxMine = 3
  MaxHers = 0
  MaxSteps = 0
SPECIFICATION Spec
INVARIANTS LegalIsLegal
CHECK_DEADLOCK FALSE
