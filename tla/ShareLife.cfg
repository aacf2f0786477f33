SPECIFICATION LifeSpec
CONSTANTS
  None = None
  MaxNodes = 4
  MaxDepth = 2
  Size = 5
  Contents <- MCContents
INVARIANTS
  ReadsTheShownBranch
  CompleteHasNoGap
  UpdatesAreContinuations
