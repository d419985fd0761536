SPECIFICATION Spec
CONSTANTS
  Slug <- MCSlug
  e1 = e1
  e2 = e2
  other = other
  Editor <- MCEditor
  PromptIn <- MCPromptIn
  SubsIn <- MCSubsIn
  Load = {l1, l2}
  Run = {t1}
  MaxIter = 1
  MaxCalls = 2
  MaxDepth = 2
  Free = free
SYMMETRY Symmetry
INVARIANTS
  OfferedCanRun
  LoneLoadIsFresh
  StoredByTopRun
PROPERTIES
  PromptsNeverOlder
CHECK_DEADLOCK FALSE
