\* Violation: an interface that was added twice comes back after its removal.
SPECIFICATION Spec
CONSTANTS
  Args = {a1}
  Ends = {e1}
  None = None
  MaxCrashes = 1
INVARIANTS
  RemovedIsNotReattached
CHECK_DEADLOCK FALSE
