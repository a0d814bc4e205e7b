SPECIFICATION Spec
CONSTANTS
  h1 = h1
  h2 = h2
  c1 = c1
  c2 = c2
  Handles = {h1, h2}
  Channels = {c1}
  ChannelOf <- MCShared
  SendBounds <- MCSendBounds
  MaxData = 3
  MaxPages = 1
INVARIANT
  InOrder
CHECK_DEADLOCK FALSE
