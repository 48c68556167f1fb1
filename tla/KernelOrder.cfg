CONSTANTS
  Nobody = Nobody
  Summary = Summary
  Turn = {t1, t2, t3}
  NewSession = {r1}
  Compact = {c1}
  MaxHistory = 1
SPECIFICATION Spec
SYMMETRY TurnSymmetry
INVARIANTS
  TypeOK
  FirstComeFirstServed
  CancelledNeverRuns
  BusyIsExact
PROPERTIES
  ServesInOrder
CHECK_DEADLOCK FALSE
