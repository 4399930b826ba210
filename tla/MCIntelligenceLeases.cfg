CONSTANTS
    InitialJobs = {j1}
    Workers = {w1, w2}
    Consumers = {c1}
    None = None
    SameId = TRUE
    BatchSize = 1
    MaxAttempts = 2
    MaxRenewals = 1
    MaxFaults = 2
SPECIFICATION FairSpec
INVARIANT AcceptedIsFound
PROPERTY ResultsSettle
CHECK_DEADLOCK FALSE
