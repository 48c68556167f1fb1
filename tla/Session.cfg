SPECIFICATION Spec
CONSTANTS
  Sides = {side}
  MaxMessages = 2
  MaxSaves = 2
  MaxTroubles = 2
INVARIANTS
  RecoveryIsExact
  CursorIsTape
  TurnSavedOrTold
CHECK_DEADLOCK FALSE
