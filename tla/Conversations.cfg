CONSTANTS
  Job = {m1, m2}
  MaxAttempts = 2
  Lease = 1
  NoJob = NoJob
  Item = {likes, plans}
  None = None
SYMMETRY Symmetry
SPECIFICATION Spec
INVARIANTS
  AnsweredIsStored
  SucceededIsComplete
