SPECIFICATION Spec
CONSTANTS
  Reqs = {a, b}
  Async = {a, b}
  NoId = NoId
  Concurrency = 1
  ExecThreads = 2
  TaskCancel = FALSE
  ReaderMayCrash = FALSE
  CancelAware = FALSE
  MaxChunks = 0
INVARIANT CancelsAreSilent
CHECK_DEADLOCK FALSE
