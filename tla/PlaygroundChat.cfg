SPECIFICATION ChatSpec
CONSTANTS
  Req = {r1, r2}
  Visitor = {v1, v2}
  Id = {id1, id2}
  Quota = 2
  TTL = 1
  Every = 2
  MaxTime = 5
  Window = 2
  None = none
SYMMETRY Symmetry
INVARIANTS
  KeptUnlessSlow
  ToolsSpaced
CHECK_DEADLOCK FALSE
