SPECIFICATION Spec
CONSTANTS
  Tasks = {t1, t2}
  Total = 1
  Clients = {c1}
  Main = Main
  None = None
  MayRemove = FALSE
  MaxCrashes = 0
PROPERTY AcceptedIsCreated
CHECK_DEADLOCK FALSE
