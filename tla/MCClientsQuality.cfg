SPECIFICATION ClientsFairSpec
CONSTANTS
  Programs = {"quality"}
  Warmups = 0
  Repeat = 1
  MaxChunks = 1
  OutCap = 2
  ErrCap = 2
  MaxLogs = 3
  Faults = {}
PROPERTY QualityGateEnds
CHECK_DEADLOCK FALSE
