SPECIFICATION Spec
CONSTANTS
  Reqs = {a, b}
  Async = {a, b}
  NoId = NoId
  Concurrency = 1
  ExecThreads = 2
  TaskCancel = TRUE
  ReaderMayCrash = FALSE
  CancelAware = TRUE
  MaxChunks = 0
INVARIANT SlotsComeBack
CHECK_DEADLOCK FALSE
