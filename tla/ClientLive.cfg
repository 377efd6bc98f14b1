\* One source whose relays overlap, three packets, no empty datagram: liveness.
SPECIFICATION FairSpec
CONSTANTS
  s1 = s1
  s2 = s2
  Srcs <- OneSource
  Tasks = {1, 2, 3}
  None = None
  ChannelCap = 1
  EmptyDatagrams = FALSE
  SocketErrors = FALSE
  MaxPackets = 3
  MaxReplies = 0
PROPERTIES
  PacketsHandedOn
  ReplacedRelayEnds
CHECK_DEADLOCK FALSE
