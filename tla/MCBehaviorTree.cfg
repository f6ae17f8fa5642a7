SPECIFICATION Spec
CONSTANTS
  Trees <- FlatTrees
  Modes = {"Thread", "Block", "Step"}
  Results = {"Succ", "Error", "Exit", "Break"}
  Forever = 3
  MaxRuns = 2
  None = None
INVARIANTS
  TypeOK
  RangeIntact
  NothingLeftBehind
  NoPanic
  VisitsExact
  ThreadsDistinct
PROPERTY BotEnds
CHECK_DEADLOCK FALSE
