SPECIFICATION FrontEndSpec
CONSTANTS
  FrameLen = 4
  Ids = {0, 1}
  Data = {6, 255}
  MinZeros = 2
  Samples = {29, 178}
  MaxAsyncs = 1
  MaxData = 6
  None = None
INVARIANTS
  TypeOK
  BytesFindTheirStream
  FramesAlign
  PhaseIsFound
