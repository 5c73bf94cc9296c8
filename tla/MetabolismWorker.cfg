SPECIFICATION FairSpec
CONSTANTS
  MaxEdits = 2
  MaxRequests = 1
INVARIANTS TypeOK OneLiveWorker ReleasedAfterShutdown NoStalePrompt
PROPERTIES EditReachesWorker ShutdownReturns
CHECK_DEADLOCK FALSE
