CONSTANTS
  c1 = c1
  c2 = c2
  idle = idle
  running = running
  Conns <- MCConns
  Contents <- MCContents
  HistoryLimit = 2
  ChannelCap = 3
  MaxSequence = 4
  MaxRebuilds = 4
  MaxBatch = 2
SPECIFICATION Spec
INVARIANTS
  TypeOK
  HistoryIsSuffix
  ReplayNeverBlocks
  StreamIdsIncrease
  NoHoleWithoutDrop
  StaleOnlyBySubscribeCopy
PROPERTY LockReleased
CHECK_DEADLOCK FALSE
