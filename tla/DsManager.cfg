\* Two starts, stops at any moment, some of them cancelled.
SPECIFICATION FairSpec
CONSTANTS
  Starts = {1, 2}
  None = None
INVARIANTS
  LivingServerIsTracked
  QuietStopIsComplete
  EarlyStopPreventsServer
  MarkerNamesInstall
  PulledServerIsWhole
PROPERTIES
  StopEnds
CHECK_DEADLOCK FALSE
