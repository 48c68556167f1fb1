CONSTANTS
  w1 = w1
  w2 = w2
  m1 = m1
  m2 = m2
  b1 = b1
  Web = {w1, w2}
  Matrix = {m1, m2}
  Background = {b1}
  Slash = {w2, m2}
  Fallible = {w1, m1}
  Nobody = Nobody
  MaxRounds = 1
  MaxCommands = 1
SPECIFICATION Spec
INVARIANTS TypeOK NothingVanishes NothingTwice OneDriverPerLane NoForgottenMessage
PROPERTIES EveryDriverLeaves
CHECK_DEADLOCK FALSE
