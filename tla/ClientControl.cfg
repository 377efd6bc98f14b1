\* Two sessions one after the other, one server that is renamed, one other peer.
SPECIFICATION FairControlSpec
CONSTANTS
  a = a
  b = b
  x = x
  y = y
  None = None
  Discover = Discover
  Sessions <- TwoSessions
  Servers <- OneServer
  Others <- OneOther
  Names <- ShortAndCut
  DefaultName <- Default
  MaxBytes = 3
  MaxHeard = 1
  MaxRenames = 1
  Cancels = TRUE
INVARIANTS
  StopReleasesPort
  FailedStartHoldsNothing
  NodesAreHeld
  SessionDialsOneServer
PROPERTIES
  RestartMeetsOnlyCancelled
  OperationsEnd
  DroppedReleasesPort
  ServersAreFound
CHECK_DEADLOCK FALSE
