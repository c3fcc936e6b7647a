SPECIFICATION FairSpec
CONSTANTS
  Reqs = {a, b}
  Async = {a, b}
  NoId = NoId
  Concurrency = 1
  ExecThreads = 1
  TaskCancel = FALSE
  ReaderMayCrash = FALSE
  CancelAware = TRUE
  MaxChunks = 0
PROPERTY CloseEndsRequests
CHECK_DEADLOCK FALSE
