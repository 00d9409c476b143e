----------------------------- MODULE MCDeframe -----------------------------
(* The front end: one question about the phase, for every short input, and    *)
(* then Deframe with frames of two half-words, a stream and padding.         *)
EXTENDS Deframe, PhaseSearch

CONSTANTS Samples, MaxAsyncs, MaxData, None
VARIABLE input

ASSUME SamplesAssumption == Samples \subseteq 0 .. 255
ASSUME BoundsAssumption == MaxAsyncs \in Nat /\ MaxData \in Nat

Scores == [1 .. 4 -> [asyncs : 0 .. MaxAsyncs, size : {0, 1}]]
Inputs ==
  [wiring : Wirings] \cup [prefix : Scores, whole : Scores]
    \cup [data : UNION {[1 .. k -> {0, 1, 128}] : k \in 0 .. MaxData}]

FrontEndInit == Init /\ fmtId = 0 /\ input \in Inputs
Answered == input # None /\ input' = None /\ wire' = wire /\ fmtId' \in Ids
            /\ UNCHANGED <<said, meant, intact, clean, demux>>
FrontEndSpec ==
  FrontEndInit /\ [][Answered \/ (input = None /\ Next /\ UNCHANGED input)]_<<vars, input>>

Asks(field) == input # None /\ field \in DOMAIN input

(* Whatever the wiring, one of the phases that are tried restores every byte  *)
(* sequence but for its ends: "The phase is a property of the wiring, not of  *)
(* the data" (deframe.hpp:80).                                                *)
SomePhaseRestores == Asks("wiring") => RestoredByOne(input.wiring, [1 .. 4 -> Samples])

(* The A-syncs counted are the 0x80 behind at least MinZeros zero bytes, and  *)
(* no zero is counted for two of them (deframe.cpp:19-37).                    *)
AsyncsCounted == Asks("data") => CountAsync(input.data) = Cardinality(Asyncs(input.data))

(* The phase chosen is the first of the best, whatever the order of the       *)
(* others, on the prefix when that shows an A-sync under any phase at all and *)
(* otherwise on the whole capture (deframe.cpp:235-262).                      *)
BestPhaseChosen ==
  Asks("prefix") =>
    LET shown == \E i \in 1 .. 4 : input.prefix[i].asyncs > 0 IN
    IsBest(Chosen(input.prefix, input.whole), IF shown THEN input.prefix ELSE input.whole)

(* The three together: the phase of the wiring is among those tried, the      *)
(* evidence for it is counted right, and the best evidence wins.              *)
PhaseIsFound == SomePhaseRestores /\ AsyncsCounted /\ BestPhaseChosen
=============================================================================
