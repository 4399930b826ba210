SPECIFICATION FairSpec
CONSTANTS
  Runs = {r1, r2}
  MaxAttempts = 3
  StoreFaults = FALSE
  MaxConnections = 1
  MaxCrashes = 0
  None = None
PROPERTY SinkReturns
CHECK_DEADLOCK FALSE
