CONSTANTS
  Me = Me
  Others = {p, q, r}
  None = None
  MaxEvents = 9
SYMMETRY Alike
SPECIFICATION Spec
INVARIANTS TypeOK Agreement RecordsRightMatch BookedOnce
CHECK_DEADLOCK FALSE
