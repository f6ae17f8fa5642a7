SPECIFICATION Spec
CONSTANT Jobs <- SmallJobs
PROPERTY RunExits
CHECK_DEADLOCK FALSE
