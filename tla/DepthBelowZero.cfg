SPECIFICATION Spec
CONSTANTS
  f = f
  g = g
  Symbols <- MCSymbols
  Ranges <- MCRanges
  Threads = {t1, t2}
  Exceptions = {PendSV}
  Boot = Boot
  Root = Root
  Unknown = Unknown
  NoCall = NoCall
  NoRange = NoRange
  NoEdge = NoEdge
  MaxOpen = 3
  MaxContexts = 2
  MaxGaps = 1
INVARIANT DepthNeverNegative
SYMMETRY ThreadSymmetry
VIEW StateView
CHECK_DEADLOCK FALSE
