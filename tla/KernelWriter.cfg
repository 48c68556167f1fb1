CONSTANTS
  Nobody = Nobody
  Summary = Summary
  Turn = {t1, t2}
  NewSession = {}
  Compact = {c1}
  MaxHistory = 2
SPECIFICATION Spec
PROPERTIES
  ContextOnlyByHolder
CHECK_DEADLOCK FALSE
