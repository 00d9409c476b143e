SPECIFICATION BridgeSpec
CONSTANTS
  Conns = {c1, c2}
  Outcomes = {"packets", "exit"}
  Chunks = 1
  NoConn = NoConn
  MaxStarts = 2
  MaxRequests = 3
  MaxTraffic = 3
INVARIANT FreshBuffers
CHECK_DEADLOCK FALSE
