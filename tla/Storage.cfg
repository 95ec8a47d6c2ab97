SPECIFICATION Spec
CONSTANTS
  Readers = {r1, r2}
  Writers = {w1, w2}
  Checks = {h1}
  MaxConns = 2
  None = None
INVARIANTS AllOrNothing
PROPERTY CallsEnd
CHECK_DEADLOCK FALSE
