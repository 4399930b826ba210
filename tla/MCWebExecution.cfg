CONSTANTS
  Plans <- MCPlans
  MaxSteps = 2
  MaxNavigations = 2
SPECIFICATION FairSpec
INVARIANTS DispatchedWhereSeen OkStayedHome EveryActionAccounted ObservedIsMasked
PROPERTIES DispatchIsLive RunEnds
CHECK_DEADLOCK FALSE
