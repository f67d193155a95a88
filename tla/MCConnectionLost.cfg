CONSTANTS
  MaxCommands = 3
  MaxLines = 0
  Size = 2
  Word = 16
  Failures = FALSE
SPECIFICATION FairSpec
PROPERTIES ReplyReleasesNext
CHECK_DEADLOCK FALSE
