SPECIFICATION BridgeSpec
CONSTANTS
  Conns = {c1, c2}
  Outcomes = {"packets", "exception", "exit"}
  Chunks = 2
  NoConn = NoConn
  MaxStarts = 2
  MaxRequests = 3
  MaxTraffic = 3
INVARIANTS
  OneCaptureAtATime
  FreshUnlessExit
  OneCapturePerStream
PROPERTY EveryoneServed
CHECK_DEADLOCK FALSE
