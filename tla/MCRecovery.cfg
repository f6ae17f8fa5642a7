SPECIFICATION Spec
CONSTANTS
  Tasks = {t1}
  Total = 1
  Clients = {c1}
  Main = Main
  None = None
  MayRemove = FALSE
  MaxCrashes = 1
INVARIANT RunningIsKept
CHECK_DEADLOCK FALSE
