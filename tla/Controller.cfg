SPECIFICATION Spec
CONSTANTS
  Args = {a1, a2}
  Ends = {e1}
  None = None
  MaxCrashes = 2
INVARIANTS
  RunningSurvivesCrash
  StopIsDurable
  InterfacesSavedOnce
  RemovedStaysRemoved
CHECK_DEADLOCK FALSE
