\* Violation: after the game server was away, nobody reads its datagrams any more.
SPECIFICATION Spec
CONSTANTS
  l1 = l1
  l2 = l2
  Links <- OneLink
  None = None
  Sentinel = Sentinel
  ChannelCap = 2
  StartFails = FALSE
  Talkers <- OneLink
  MaxData = 2
  MaxReplies = 1
  MaxStops = 1
INVARIANTS
  BothWays
CHECK_DEADLOCK FALSE
