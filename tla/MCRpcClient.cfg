SPECIFICATION FairSpec
CONSTANTS
  main = main
  w1 = w1
  None = None
  Main <- main
  Workers <- MCWorkers
  MaxLines = 4
  PipeCap = 1
INVARIANTS
  TypeOK
  OwnReply
  ReaderNeverBlocks
  PendingIsInside
  AnswerOnItsWay
PROPERTIES
  CloseReleasesAll
  DoneLeadsToClose
CHECK_DEADLOCK FALSE
