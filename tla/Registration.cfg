SPECIFICATION RegistrationSpec
CONSTANTS
  Req = {r1, r2, r3}
  Address = {a1, a2}
  Email = {e1}
  Invitation <- MCInvitation
  EmailOf <- MCEmailOf
  Burst = 1
  MaxTicks = 1
  MaxStarts = 2
  None = none
SYMMETRY Symmetry
INVARIANTS
  AdmittedBounded
  UsedMeansRegistered
  SpentUnlessLost
CHECK_DEADLOCK FALSE
