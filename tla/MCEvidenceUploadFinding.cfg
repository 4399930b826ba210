CONSTANTS
  Runs = {r1}
  Length = 3
  Observations = {1}
  Findings = {2}
  Refs <- MCRefs
  ChunkCount = 2
  BatchLimit = 2
  MaxFaults = 1
  None = None
SPECIFICATION Spec
INVARIANT AcknowledgedFindingStored
