CONSTANTS
    Servers = {s1, s2}
    Jobs = {j1}
    Requests = {q1, q2}
    Keys = {k1, k2}
    Results = {"passed", "blocked", "error"}
    Mismatches = {{}, {j1}}
    None = None
    StopOnBlocked = TRUE
    MaxSession = 2
    MaxFaults = 2
SPECIFICATION FairSpec
INVARIANTS StartedOnce AcceptedWasLeased ProjectionsAgree
PROPERTY LeasedIsSettled
CHECK_DEADLOCK FALSE
