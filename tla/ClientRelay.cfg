\* Two sources, interleaved relays, replies, failing sockets, empty datagrams.
SPECIFICATION Spec
CONSTANTS
  s1 = s1
  s2 = s2
  Srcs <- TwoSources
  Tasks = {1, 2}
  None = None
  ChannelCap = 1
  EmptyDatagrams = TRUE
  SocketErrors = TRUE
  MaxPackets = 3
  MaxReplies = 1
SYMMETRY Symmetry
INVARIANTS
  TypeOK
  LinkCarriesOneSourceInOrder
  MapsNameLiveRelays
  EndedTaskHoldsNothing
CHECK_DEADLOCK FALSE
