SPECIFICATION SequentialSpec
CONSTANTS
  Sids = {s1, s2}
  NoId = NoId
  MelPaths = {m1}
  Pcms = {p1, p2}
  TempFiles = {w1, w2, w3}
  None = None
  PhysBatch = 2
  MaxSlots = 2
  PcmSupported = TRUE
  IdleTimeout = 0
  PipeCap = 1
  MaxBatch = 4
  AsrMax = 2
  TtsMax = 1
  AsrOwners = {a1, a2, a3}
  TtsOwners = {t1, t2}
  OwnerIds = {a1, a2, a3, t1, t2}
  NoOwner = NoOwner
  KvLengths = {0, 1}
  Files = {f1, f2}
  OldFiles = {f1}
  MaxBuild = 2
  Specs = {"step0", "vocos", "hf"}
  HfOnly = {"hf"}
  Companions <- MCComp
  Onnx <- MCOnnx
  Hosts = {"nano", "nx"}
  MaxBuilds = 4
  NCases = 2
  Blank = {2}
  MaxRuns = 2
  Repeat = 2
  NPrompts = 2
  LatencyRuns = 3
  Latencies = {400, 1100}
  MedianGate = 500
  P95Gate = 1050
  StartPaths <- MCStartPaths
  Models <- MCModels
  Slots <- MCSlots
  ShapeOf <- MCShape
  MaxTools = 3
INVARIANTS
  TypeOK TempFilesOwned LastOfItsKind
  PartitionRespected RefusedOnlyWhenFull HeldLanesAreOwned
  DeploySound InventoryOfStage
  BundlePublished
  GateSound ReportHonest
  VerdictHonest
  ProductAppWins OkMeansConforming
  MeaningKept
CHECK_DEADLOCK FALSE
