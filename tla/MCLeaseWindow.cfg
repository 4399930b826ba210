SPECIFICATION WindowSpec
CONSTANTS
  LeaseDurationMs = 9
  SafetyMargin = 1
  MaxSkew = 1
  Horizon = 26
INVARIANT NeverPastCoreExpiry
