SPECIFICATION Spec
CONSTANTS
  Size = 4
  MaxRead = 3
  Lens = {1, 3}
  SeqModulus = 16
  SeqStart = 14
  MaxLoss = 1
  MaxFrames = 1
PROPERTY Terminates
CHECK_DEADLOCK FALSE
