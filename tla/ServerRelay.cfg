\* Two links, one place in each channel, so the router waits for room for its
\* sentinels; one link carries two datagrams; the game server stops once.
SPECIFICATION FairSpec
CONSTANTS
  l1 = l1
  l2 = l2
  Links <- TwoLinks
  None = None
  Sentinel = Sentinel
  ChannelCap = 1
  StartFails = TRUE
  Talkers <- OneLink
  MaxData = 2
  MaxReplies = 1
  MaxStops = 1
INVARIANTS
  TypeOK
  GameServerGetsInOrder
  SentinelComesLast
  SendersNameLiveRelays
  OpenLinkHasRelay
  LostLinkForgotten
PROPERTIES
  EventsHandled
  ToScEndsWithLink
CHECK_DEADLOCK FALSE
