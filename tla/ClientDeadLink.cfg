\* Violation: after a link has closed the packets of its source still go to its relay.
SPECIFICATION Spec
CONSTANTS
  s1 = s1
  s2 = s2
  Srcs <- OneSource
  Tasks = {1, 2}
  None = None
  ChannelCap = 1
  EmptyDatagrams = FALSE
  SocketErrors = FALSE
  MaxPackets = 2
  MaxReplies = 0
PROPERTIES
  ClosedLinkIsReplaced
CHECK_DEADLOCK FALSE
