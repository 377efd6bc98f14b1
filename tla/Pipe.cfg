\* Datagrams of up to three chunks on a link that loses packets, through a channel
\* that holds two chunks and may overflow.
SPECIFICATION Spec
CONSTANTS
  MaxChunk = 2
  MaxDatagram = 5
  Datagrams <- SampleDatagrams
  LinkMdu = 3
  ChannelCap = 2
  Lossy = TRUE
  MaxSent = 4
INVARIANTS
  TypeOK
  DeliveredInOrder
  Lossless
PROPERTIES
  ImplementsChannel
CHECK_DEADLOCK FALSE
