CONSTANTS
    InitialJobs = {j1, j2}
    Workers = {w1}
    Consumers = {c1, c2}
    None = None
    SameId = TRUE
    BatchSize = 2
    MaxAttempts = 1
    MaxRenewals = 0
    MaxFaults = 1
SPECIFICATION Spec
INVARIANTS NoLostWakeup EffectOnce FollowUpOnce
CHECK_DEADLOCK FALSE
