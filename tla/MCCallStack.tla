---------------------------- MODULE MCCallStack ----------------------------
(* CallStack on a small program: two functions of three instructions each, f  *)
(* at 0 and g at 3. A function's first range may end in a call or a return,   *)
(* its second one (never at the entry) in anything.                           *)
EXTENDS CallStack, TLC

CONSTANTS f, g

MCSymbols == [a \in {0, 3} |-> IF a = 0 THEN f ELSE g]
MCRanges == [start : {0}, end : {2}, branch : {"call", "other"}]
       \cup [start : {3}, end : {5}, branch : {"call", "return"}]
       \cup [start : {1}, end : {2}, branch : {"call", "return"}]

ThreadSymmetry == Permutations(Threads)
\* What the last call reported decides nothing, and the properties of the runs read it only
\* in the state after a step.
StateView == <<core, slices, finished>>
=============================================================================
