SPECIFICATION Spec
CONSTANTS
  Req = {r1, r2, r3, r4}
  PromptKey = {p1}
  AgentKey = {a1}
  None = none
SYMMETRY Symmetry
INVARIANTS
  AnsweredAsStored
  RealTimeOrder
PROPERTIES
  ImplementsVersionedStore
