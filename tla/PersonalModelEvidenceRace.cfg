CONSTANTS
  Request = {r1, r2}
  Evidence <- MCEvidence
  Key <- MCKey
  Alias <- MCAlias
  KeyOf <- MCKeyOf
  AliasKey <- MCAliasKey
  CanonicalKey <- MCCanonicalKey
  MaxRevision = 3
  MaxRestart = 0
  Asker = {r1, r2}
  Question = {q1, q2}
  Trait = {t1, t2}
  Situation = {home, work}
  MaxLimit = 2
  MaxAnswer = 2
  Unused = Unused
SPECIFICATION EvidenceSpec
SYMMETRY Threads
INVARIANTS
  FreshSnapshotHasStoredEvidence
CHECK_DEADLOCK FALSE
