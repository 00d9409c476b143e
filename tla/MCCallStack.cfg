SPECIFICATION Spec
CONSTANTS
  f = f
  g = g
  Symbols <- MCSymbols
  Ranges <- MCRanges
  Threads = {t1, t2}
  Exceptions = {PendSV}
  Boot = Boot
  Root = Root
  Unknown = Unknown
  NoCall = NoCall
  NoRange = NoRange
  NoEdge = NoEdge
  MaxOpen = 3
  MaxContexts = 2
  MaxGaps = 1
INVARIANTS
  TypeOK
  ThreadLaneAccounts
  IsrLaneAccounts
  BalancedAtFinish
  BlindSpotForgetsCall
PROPERTIES
  KeepsStacksApart
SYMMETRY ThreadSymmetry
VIEW StateView
CHECK_DEADLOCK FALSE
