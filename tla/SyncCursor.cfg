CONSTANTS
  MaxEvents = 2
  MaxIdle = 2
  MaxErrors = 1
  MaxDeaths = 2
SPECIFICATION Spec
INVARIANTS TypeOK NothingSkipped
PROPERTIES CursorNeverGoesBack StopIsNotReplayed EveryEventHandled CursorCatchesUp
CHECK_DEADLOCK FALSE
