------------------------------ MODULE TimeBase ------------------------------
(* src/timebase.cpp: the four ways to put a time on the slices, each of which *)
(* has a byte (its place in the ETM stream), a ts (the last ETM time stamp, 0 *)
(* before the first) and a cycle (the cycles counted so far). A unit of time  *)
(* is a count of the time stamp generator; a cycle lasts PerCycle of them, so *)
(* that no rounding is needed, and a frequency of zero is a missing option.   *)
EXTENDS Integers, Sequences

CONSTANT PerCycle

ASSUME PerCycleAssumption == PerCycle \in Nat \ {0}

Later(a, b) == IF a < b THEN b ELSE a
Earlier(a, b) == IF a < b THEN a ELSE b

\* Every base ends like this: no slice has an earlier tick than the one before it.
NonDecreasing(raw) ==
  LET tick[i \in 0 .. Len(raw)] == IF i = 0 THEN 0 ELSE Later(raw[i], tick[i - 1])
  IN [i \in DOMAIN raw |-> tick[i]]
WithTicks(slices, ticks) == [i \in DOMAIN slices |-> [slices[i] EXCEPT !.tick = ticks[i]]]

\* TimeBase::ns_for: the last entry for a byte past the end.
NsFor(table, byte) ==
  IF table = <<>> THEN 0 ELSE IF byte < Len(table) THEN table[byte + 1] ELSE table[Len(table)]

ApplyTimebase(slices, table) ==
  IF table = <<>> THEN slices
  ELSE WithTicks(slices, NonDecreasing([i \in DOMAIN slices |-> NsFor(table, slices[i].byte)]))
ApplyEtmTimestamp(slices) ==
  WithTicks(slices, NonDecreasing([i \in DOMAIN slices |-> slices[i].ts]))
ApplyCycleTime(slices) ==
  WithTicks(slices, NonDecreasing([i \in DOMAIN slices |-> slices[i].cycle * PerCycle]))

(* apply_hybrid_time: the time stamps are anchors, the cycles count on from   *)
(* the anchor of a group of slices that share one, up to the next anchor. The *)
(* slices before the first time stamp are placed by counting back from it.    *)
IsAnchor(slices, i) == i = 1 \/ slices[i].ts # slices[i - 1].ts
AnchorOf(slices, i) ==
  CHOOSE a \in 1 .. i : IsAnchor(slices, a) /\ \A j \in a + 1 .. i : ~IsAnchor(slices, j)
FirstTrue(S) == CHOOSE i \in S : \A j \in S : i <= j
AnchorTime(slices, a) ==
  LET real == {i \in DOMAIN slices : slices[i].ts # 0} IN
  IF slices[a].ts # 0 THEN slices[a].ts
  ELSE IF real = {} THEN 0
  ELSE LET fa == FirstTrue(real) IN
       Later(0, slices[fa].ts - (slices[fa].cycle - slices[a].cycle) * PerCycle)
NextAnchors(slices, i) == {j \in i + 1 .. Len(slices) : IsAnchor(slices, j)}
CountedOn(slices, i) ==
  LET a == AnchorOf(slices, i) IN
  AnchorTime(slices, a) + (slices[i].cycle - slices[a].cycle) * PerCycle
HybridUncapped(slices, i) == Later(AnchorTime(slices, AnchorOf(slices, i)), CountedOn(slices, i))
Hybrid(slices, i) ==
  LET base == AnchorTime(slices, AnchorOf(slices, i))
      next == NextAnchors(slices, i)
      capped == next # {} /\ slices[FirstTrue(next)].ts # 0
  IN Later(base, IF capped THEN Earlier(slices[FirstTrue(next)].ts, CountedOn(slices, i))
                 ELSE CountedOn(slices, i))
ApplyHybridTime(slices, frequencies) ==
  IF ~frequencies THEN ApplyEtmTimestamp(slices)
  ELSE WithTicks(slices, NonDecreasing([i \in DOMAIN slices |-> Hybrid(slices, i)]))
=============================================================================
