SPECIFICATION SessionSpec
CONSTANTS
  Tags = {t1, t2}
  PortWidths = {2, 4}
  DefaultWidth = 4
  None = None
  MaxRuns = 3
  WatchLists <- MCWatchLists
  MaxComparators = 2
  PollTries = 2
INVARIANTS
  
  
  ArmTypeOK
  ArmedAsAsked
  SetUpWhileOff
