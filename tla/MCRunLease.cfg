SPECIFICATION Spec
CONSTANTS
  JobRuns = {j1}
  FreshRuns = {f1, f2}
  Sessions = {s1, s2}
  Completions = {x1, x2}
  Slots = {c1, c2}
  LeaseDuration = 2
  MaxTime = 3
  None = None
INVARIANTS EndsOnce SinkAuthoritative HeldIsStored
PROPERTIES EvidenceOnlyWhileOwned EndedRowsFrozen ImplementsLifecycle
SYMMETRY Symmetry
