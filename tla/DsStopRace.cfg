\* Violation: a stop that comes while the task spawns the server leaves it running.
SPECIFICATION Spec
CONSTANTS
  Starts = {1}
  None = None
INVARIANTS
  StoppedMeansNoServer
CHECK_DEADLOCK FALSE
