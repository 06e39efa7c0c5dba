CONSTANTS
  Proc = {p1, p2}
  Key = {k1}
  Operation = {"request", "approve", "reject", "complete"}
  Label = {pay}
  Proposal <- MCProposal
  Confidence = {92}
  TTL = 1
  MaxClock = 1
  MaxSnapshot = 2
  MaxPolicy = 2
  None = None
SYMMETRY Symmetry
SPECIFICATION Spec
INVARIANTS
  AutomaticWithinFloor
PROPERTIES
  AutomaticUsedInTime
  KeepsLifecycle
  RemovedPolicyGrantsNothing
