SPECIFICATION Spec
CONSTANTS
  Reqs = {a, s}
  Async = {a}
  NoId = NoId
  Concurrency = 2
  ExecThreads = 1
  TaskCancel = TRUE
  ReaderMayCrash = FALSE
  CancelAware = TRUE
  MaxChunks = 1
INVARIANTS TypeOK TokensConserved NoVainWait StreamsApart
CHECK_DEADLOCK FALSE
