SPECIFICATION FairSpec
CONSTANTS
  a = a b = b
  Node = {a, b}
  Breakable = {b}
  Track <- Steps
  MaxClicks = 5
  MaxFlight = 1
  MaxLost = 1
INVARIANTS
  TypeOK
  LeakBound
  HaltHeld
  EndedForgotten
PROPERTY RunEnds
CHECK_DEADLOCK FALSE
