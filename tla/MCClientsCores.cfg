SPECIFICATION ClientsFairSpec
CONSTANTS
  Programs = {"cores"}
  Warmups = 0
  Repeat = 1
  MaxChunks = 1
  OutCap = 2
  ErrCap = 2
  MaxLogs = 3
  Faults = {"error"}
PROPERTY CoresidencyEnds
CHECK_DEADLOCK FALSE
