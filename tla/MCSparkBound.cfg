SPECIFICATION Spec
CONSTANTS
  Reqs = {r1, r2}
  MaxSlots = 1
  None = None
INVARIANT BoundIdsAreLive
CHECK_DEADLOCK FALSE
