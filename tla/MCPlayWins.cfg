CONSTANTS
  Me = Me
  Others = {p, q}
  None = None
  MaxEvents = 6
SPECIFICATION SpecInOrder
INVARIANT WinsAreBooked
CHECK_DEADLOCK FALSE
