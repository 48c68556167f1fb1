SPECIFICATION Spec
CONSTANTS
  Sides = {side}
  MaxMessages = 2
  MaxSaves = 3
  MaxTroubles = 2
INVARIANT
  RecoveryIsWhole
CHECK_DEADLOCK FALSE
