SPECIFICATION IdleSpec
CONSTANTS
  Sids = {s1, s2}
  NoId = NoId
  MelPaths = {m1}
  Pcms = {}
  TempFiles = {}
  None = None
  PhysBatch = 2
  MaxSlots = 2
  PcmSupported = FALSE
  IdleTimeout = 1
  PipeCap = 2
INVARIANT ReapsOnlySilent
CHECK_DEADLOCK FALSE
