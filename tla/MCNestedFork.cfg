SPECIFICATION Spec
CONSTANTS
  Trees <- NestedTrees
  Modes = {"Thread"}
  Results = {"Succ"}
  Forever = 3
  MaxRuns = 1
  None = None
INVARIANT FrozenWasExecuted
CHECK_DEADLOCK FALSE
