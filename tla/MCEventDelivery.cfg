CONSTANTS
  c1 = c1
  c2 = c2
  idle = idle
  running = running
  None = None
  Conns <- MCConns
  Contents <- MCContents
  HistoryLimit = 2
  ChannelCap = 2
  MaxSequence = 3
  MaxRebuilds = 2
  MaxBatch = 2
  MaxLosses = 1
  MaxRestarts = 1
SPECIFICATION DeliverySpec
INVARIANT DeliveryTypeOK
PROPERTY FeedSpec
SYMMETRY MCSymmetry
CHECK_DEADLOCK FALSE
