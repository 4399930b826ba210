SPECIFICATION FairSpec
CONSTANTS
  Runs = {r1, r2}
  MaxAttempts = 2
  StoreFaults = TRUE
  MaxConnections = 2
  MaxCrashes = 1
  None = None
INVARIANTS OfferedOnce PendingIsUntouched ShownIsStored
CHECK_DEADLOCK FALSE
PROPERTIES CompletionSettles ShutdownEnds
