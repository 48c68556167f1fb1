CONSTANTS
  MaxEvents = 2
  MaxIdle = 2
  MaxErrors = 1
  MaxDeaths = 2
SPECIFICATION Spec
INVARIANTS FailedSyncFreezes
CHECK_DEADLOCK FALSE
