CONSTANTS
    Starts = {t1, t2}
    Stops = {s1, s2}
    NoFile = NoFile
    MaxFaults = 1
SPECIFICATION FairSpec
INVARIANTS OnlyOwnStopped RecordedWhileUp
PROPERTIES StopTakesEffect LeftoverGoes
CHECK_DEADLOCK FALSE
