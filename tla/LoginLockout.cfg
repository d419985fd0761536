SPECIFICATION Spec
CONSTANTS
  Client = {c1, c2, c3}
  MaxLoginAttempts = 3
  LockoutDuration = 1
  MaxTime = 1
  MaxLost = 1
SYMMETRY Symmetry
INVARIANTS
  WrongPasswordsBounded
PROPERTIES
  LiftedByOlderOnly
CHECK_DEADLOCK FALSE
