SPECIFICATION Spec
CONSTANTS
  Tasks = {t1, t2}
  Total = 2
  Clients = {c1}
  Main = Main
  None = None
  MayRemove = TRUE
  MaxCrashes = 1
INVARIANTS
  TypeOK
  ProgressBacked
  ReportsComplete
  ListMatches
CHECK_DEADLOCK FALSE
SYMMETRY Symmetry
