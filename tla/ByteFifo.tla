------------------------------ MODULE ByteFifo ------------------------------
(* What cortrace-grab's ring and its two threads promise of the bytes they    *)
(* accept: they reach the file in the order they were accepted, each once,    *)
(* and no more of them wait than the ring holds. Byte i of the accepted       *)
(* stream is written i.                                                       *)
EXTENDS Naturals, Sequences

CONSTANT Capacity

VARIABLES
  accepted,  \* how many bytes were accepted
  file       \* what the file holds

fifoVars == <<accepted, file>>

FifoInit == accepted = 0 /\ file = <<>>

Accept == \E n \in 0 .. Capacity - (accepted - Len(file)) :
  /\ accepted' = accepted + n
  /\ UNCHANGED file
Save == \E n \in 0 .. accepted - Len(file) :
  /\ file' = file \o [i \in 1 .. n |-> Len(file) + i - 1]
  /\ UNCHANGED accepted

FifoSpec == FifoInit /\ [][Accept \/ Save]_fifoVars
=============================================================================
