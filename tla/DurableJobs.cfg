CONSTANTS
  Job <- MCJob
  AlwaysHandled <- MCAlwaysHandled
  Requeueable <- MCRequeueable
  MaxAttempts = 3
  InitialDelay <- MCInitialDelay
  RetryDelay <- MCRetryDelay
  MaxDelay = 3
  Lease = 1
  NoJob = NoJob
  Worker = {w1, w2}
  Row = {r1}
  File = {f1}
  MaxHomes = 3
  MaxArchives = 2
  MaxKills = 2
  None = None
SPECIFICATION BackgroundSpec
INVARIANTS
  HeldJobIsRunning
  NoKeyTravels
  WalBelongs
PROPERTIES
  KeepsContract
  JobsEnd
  OwnedIsKept
  AppliedWhole
  
CHECK_DEADLOCK FALSE
