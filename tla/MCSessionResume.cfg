CONSTANTS
    Calls = {c1, c2, c3}
    None = None
    MaxRotation = 2
SPECIFICATION FairSpec
INVARIANTS OneServing NothingAfterShutdown SpoolTokenAccepted
PROPERTY EstablishingEnds
CHECK_DEADLOCK FALSE
