SPECIFICATION Spec
CONSTANTS
  WindowSize = 4
  Reading <- Strengths
INVARIANTS
  HoldsRecent
  TotalIsSum
