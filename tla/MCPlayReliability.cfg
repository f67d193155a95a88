CONSTANTS
  Me = Me
  Others = {p, q}
  None = None
  MaxEvents = 6
SPECIFICATION SpecInOrder
PROPERTY ReliabilityDeserved
CHECK_DEADLOCK FALSE
