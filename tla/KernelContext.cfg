CONSTANTS
  Nobody = Nobody
  Summary = Summary
  Turn = {t1, t2}
  NewSession = {r1, r2}
  Compact = {}
  MaxHistory = 2
SPECIFICATION FairSpec
INVARIANTS
  NewSessionIsFresh
  CompactionLosesNothing
PROPERTIES
  RollbackKeepsOthers
  FailureLeavesOnlyNote
  EveryMessageSettles
  EveryResetSettles
CHECK_DEADLOCK FALSE
