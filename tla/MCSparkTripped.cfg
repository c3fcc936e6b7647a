SPECIFICATION Spec
CONSTANTS
  Reqs = {r1}
  MaxSlots = 1
  None = None
PROPERTY TrippedNotDone
CHECK_DEADLOCK FALSE
