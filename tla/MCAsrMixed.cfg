SPECIFICATION Spec
CONSTANTS
  Sids = {s1}
  NoId = NoId
  MelPaths = {m1}
  Pcms = {p1}
  TempFiles = {f1, f2}
  None = None
  PhysBatch = 2
  MaxSlots = 2
  PcmSupported = TRUE
  IdleTimeout = 1
  PipeCap = 1
SYMMETRY Symmetry
INVARIANT LastAudioWins
CHECK_DEADLOCK FALSE
