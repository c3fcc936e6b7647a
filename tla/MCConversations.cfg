\* Three sessions on two lanes; two requests on one Spark slot; two requests with one
\* token and one executor thread; all four scripts, every fault, a worker that logs
\* more than a pipe holds.
\* The quality gate and the co-residency probe can wait for ever: no deadlock check.
SPECIFICATION ConversationSpec
CONSTANTS
  Sids = {s1, s2, s3}
  NoId = NoId
  MelPaths = {}
  Pcms = {}
  TempFiles = {}
  None = None
  PhysBatch = 2
  MaxSlots = 4
  PcmSupported = FALSE
  IdleTimeout = 1
  PipeCap = 1
  SparkReqs = {r1, r2}
  SparkSlots = 1
  Async = {a, b}
  Concurrency = 1
  ExecThreads = 1
  Programs = {"smoke", "moss", "cores", "quality"}
  Warmups = 1
  Repeat = 2
  MaxChunks = 2
  OutCap = 2
  ErrCap = 1
  MaxLogs = 3
  Faults = {"crash", "error", "noise"}
INVARIANTS LaneOwnership AudioIsWhole ChildrenReaped
PROPERTIES ImplementsSessionPool IdleReclaimed RequestsEnd WorkerGone ClientEnds Answered
CHECK_DEADLOCK FALSE
