SPECIFICATION FairSpec
CONSTANTS
  Reqs = {r1}
  MaxSlots = 1
  None = None
PROPERTY ShutdownEnds
CHECK_DEADLOCK FALSE
