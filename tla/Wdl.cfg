SPECIFICATION FairSpec
CONSTANTS
  Engine <- Tokens
  Slot = {s1, s2}
  MaxTasks = 2
  MaxRounds = 1
  None = None
INVARIANT ClaimInvariant
PROPERTIES OutcomeByLastClaimant FinishedStays RunningEnds
CHECK_DEADLOCK FALSE
