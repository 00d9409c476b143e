SPECIFICATION DecodeSpec
CONSTANTS
  f = f
  PendSV = PendSV
  Symbols <- MCSymbols
  Ranges <- MCRanges
  Threads = {1, 2}
  Exceptions = {PendSV}
  Boot = Boot
  Root = Root
  Unknown = Unknown
  NoCall = NoCall
  NoRange = NoRange
  NoEdge = NoEdge
  MaxOpen = 9
  MaxContexts = 9
  MaxGaps = 9
  Counter = 8
  Epochs = 4
  PerCycle = 2
  Captures <- MCCaptures
  Etm = Etm
  Tables <- MCTables
  Bases = {"time", "hybrid"}
  Generated <- MCGenerated
  TidOf <- MCTidOf
  WatchComp = 0
  IsrTrack <- MCIsrTrack
  Untagged = Untagged
  None = None
  MaxElements = 4
  MaxPackets = 3
  MaxNotes = 5
  MaxSlices = 4
INVARIANT CleanMeansLossless
CHECK_DEADLOCK FALSE
