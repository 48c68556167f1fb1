SPECIFICATION Spec
CONSTANTS
  Engine <- Tokens
  Slot = {s1, s2}
  MaxTasks = 2
  MaxRounds = 2
  None = None
INVARIANT ContextByLastClaimant
CHECK_DEADLOCK FALSE
