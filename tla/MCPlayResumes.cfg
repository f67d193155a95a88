CONSTANTS
  Me = Me
  Others = {p, q}
  None = None
  MaxEvents = 6
SPECIFICATION SpecInOrder
PROPERTY ResumesAreHonored
CHECK_DEADLOCK FALSE
