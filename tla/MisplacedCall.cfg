SPECIFICATION TargetSpec
CONSTANTS
  main = main
  f = f
  g = g
  isr = isr
  tick = tick
  PendSV = PendSV
  SysTick = SysTick
  Symbols <- MCSymbols
  Ranges <- MCRanges
  Start <- MCStart
  Handler <- MCHandler
  CallGraph <- MCCallGraph
  TailGraph <- MCTailGraph
  GoesOn <- MCGoesOn
  PastAwkward = TRUE
  MaxCalls = 3
  MaxNesting = 3
  Threads = {t1, t2}
  Exceptions <- MCExceptions
  Boot = Boot
  Root = Root
  Unknown = Unknown
  NoCall = NoCall
  NoRange = NoRange
  NoEdge = NoEdge
  MaxOpen = 99
  MaxContexts = 9
  MaxGaps = 0
INVARIANT CallIsTheRunningLanes
VIEW TargetView
SYMMETRY ThreadSymmetry
