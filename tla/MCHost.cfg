SPECIFICATION HostSpec
CONSTANTS
  Size = 4
  MaxRead = 3
  Lens = {1, 3}
  SeqModulus = 16
  SeqStart = 14
  MaxLoss = 1
  MaxFrames = 3
  None = None
  SocketRoom = 1
  MaxAnswers = 3
  MaxUiFrames = 3
  Pages = {p1, p2}
  MaxLoads = 3
INVARIANTS
  ThreadsKeepApart
  EverythingSaved
  LossNeverUndercounted
  ExitZeroIsComplete
  FramesWhole
  LastAnswerArrives
  ZeroMeansFetched
PROPERTIES
  InOrder
  Drains
  Terminates
  BothEnd
  ServedAsNeeded
CHECK_DEADLOCK FALSE
