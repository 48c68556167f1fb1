SPECIFICATION FairSpec
CONSTANTS
  Node <- MCNode
  Templates <- MCTemplates
  LaterTemplates <- MCLater
  Cap = 2
  MaxHops = 3
  MaxFlows = 2
  MaxSpawns = 2
  MaxOps = 1
INVARIANTS
  TypeOK
  NoStrandedWork
  LoopsAreCut
PROPERTIES
  ReleasedStaysQuiet
  WaitEndsOrUnmet
CHECK_DEADLOCK FALSE
