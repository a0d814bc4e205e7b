SPECIFICATION FairSpec
CONSTANTS
  h1 = h1
  h2 = h2
  c1 = c1
  c2 = c2
  Handles = {h1, h2}
  Channels = {c1, c2}
  ChannelOf <- MCChannelOf
  SendBounds <- MCSendBounds
  MaxData = 3
  MaxPages = 1
INVARIANTS
  TypeOK
  InOrder
  Accounted
  QueueIsFetched
PROPERTIES
  Delivered
  ImplementsOrderedChannel
CHECK_DEADLOCK FALSE
