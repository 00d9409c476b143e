------------------------------- MODULE MCGrab -------------------------------
(* Grab with a ring of four bytes, writes of at most three, payloads of one   *)
(* byte and of three, and sequence numbers that wrap in the run.              *)
EXTENDS Grab
=============================================================================
