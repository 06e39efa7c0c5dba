CONSTANTS
  Job = {s1, s2}
  MaxAttempts = 2
  Lease = 1
  NoJob = NoJob
  Manifest = {old, new}
  MaxFeed = 2
  MaxRegistration = 2
  None = None
SYMMETRY Symmetry
SPECIFICATION Spec
INVARIANTS
  ItemsOnce
  CursorIsCovered
  RemovedLeavesNothing
