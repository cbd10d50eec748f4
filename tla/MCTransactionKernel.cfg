SPECIFICATION MCSpec
CONSTANTS
  MaxCandidates = 3
  s1 = s1
  s2 = s2
  d1 = d1
  d2 = d2
  StateIds = {s1, s2}
  Snapshot <- MCSnapshot
  TransactionIds = {t1, t2, t3, t4, t5, blank}
  BlankId = blank
  InitialState <- MCInitialState
INVARIANTS
  TypeOK
  DeltaChain
  TraceMatchesDeltas
  RollbackReversesOnce
  OneEffectPerTransaction
  AuditTellsOneLife
  CommitNeverFailsLate
PROPERTIES
  ImplementsLedger
SYMMETRY TransactionSymmetry
CHECK_DEADLOCK FALSE
