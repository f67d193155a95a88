CONSTANTS
  MaxCommands = 4
  MaxLines = 3
  Size = 3
  Word = 16
  Failures = TRUE
SPECIFICATION ChattySpec
INVARIANTS TypeOK WireInOrder NoForgottenWrite
PROPERTIES EverythingArrives BreakdownIsNoticed
CHECK_DEADLOCK FALSE
