\* Violation: an empty datagram ends a send task; the next packet of its source stops
\* the UDP loop, and no packet of any other source is read again.
SPECIFICATION FairSpec
CONSTANTS
  s1 = s1
  s2 = s2
  Srcs <- OneSource
  Tasks = {1, 2, 3}
  None = None
  ChannelCap = 1
  EmptyDatagrams = TRUE
  SocketErrors = FALSE
  MaxPackets = 3
  MaxReplies = 0
PROPERTIES
  PacketsHandedOn
CHECK_DEADLOCK FALSE
