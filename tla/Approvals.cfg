CONSTANTS
  r1 = r1
  r2 = r2
  Request = {r1, r2}
  Cancellable = {r1}
  MaxInterrupts = 2
  MaxRestarts = 1
SPECIFICATION Spec
INVARIANTS TypeOK FailClosed OnlyExceptionsDangle
PROPERTIES OutcomeIsFinal EveryRequestReturns
CHECK_DEADLOCK FALSE
