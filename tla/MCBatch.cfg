SPECIFICATION Spec
CONSTANT Jobs <- SmallJobs
INVARIANTS
  TypeOK
  Concurrency
  LaunchBound
  RowBehind
  DoneComplete
PROPERTIES
  ImplementsJob
  BatchEnds
CHECK_DEADLOCK FALSE
