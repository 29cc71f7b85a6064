CONSTANTS
  c1 = c1
  c2 = c2
  idle = idle
  running = running
  None = None
  Conns <- MCOneConn
  Contents <- MCContents
  HistoryLimit = 2
  ChannelCap = 3
  MaxSequence = 5
  MaxRebuilds = 3
  MaxBatch = 2
  MaxLosses = 2
  MaxRestarts = 0
SPECIFICATION FairDeliverySpec
PROPERTY CaughtUp
CHECK_DEADLOCK FALSE
