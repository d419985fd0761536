SPECIFICATION Spec
CONSTANTS
  Client = {c1, c2}
  Token = {t1, t2, t3}
  NoToken = NoToken
  MaxLost = 0
SYMMETRY Symmetry
INVARIANTS
  OneTimeUse
CHECK_DEADLOCK FALSE
