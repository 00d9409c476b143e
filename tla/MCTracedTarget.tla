--------------------------- MODULE MCTracedTarget ---------------------------
(* TracedTarget on a program of five functions: main at 0, f at 4, g at 8 and *)
(* the handlers isr at 12 and tick at 16. main calls f, f calls g, g calls f  *)
(* or ends in a jump to f (which is on the stack, or not when isr called g).  *)
EXTENDS TracedTarget, TLC

CONSTANTS main, f, g, isr, tick, PendSV, SysTick

Entries == {0, 4, 8, 12, 16}
MCSymbols == [a \in Entries |->
                CASE a = 0 -> main [] a = 4 -> f [] a = 8 -> g [] a = 12 -> isr [] a = 16 -> tick]
Blocks == {<<0, 2>>, <<1, 2>>, <<2, 3>>, <<3, 4>>}
MCRanges == {[start |-> a + o[1], end |-> a + o[2], branch |-> b] :
               a \in Entries, o \in Blocks, b \in Branches}
MCStart == [t \in Threads \cup {Boot} |-> 0]
MCExceptions == {PendSV, SysTick}
MCHandler == [e \in MCExceptions |-> IF e = PendSV THEN 12 ELSE 16]
MCCallGraph == {<<0, 4>>, <<4, 8>>, <<8, 4>>, <<12, 8>>}
MCTailGraph == {<<8, 4>>}
MCGoesOn == {0, 8}

ThreadSymmetry == Permutations(Threads)
\* The edge counted by the last call decides nothing, and the invariants do not read it.
TargetView == <<core, slices, noted, finished, cpu, running, idle, awkward>>
=============================================================================
