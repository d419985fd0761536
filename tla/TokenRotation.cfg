SPECIFICATION Spec
CONSTANTS
  Client = {c1, c2}
  Token = {t1, t2, t3, t4}
  NoToken = NoToken
  MaxLost = 1
SYMMETRY Symmetry
INVARIANTS
  ExchangesBounded
  RevokedIsReplaced
CHECK_DEADLOCK FALSE
