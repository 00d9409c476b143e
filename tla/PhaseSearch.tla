---------------------------- MODULE PhaseSearch ----------------------------
(* How src/deframe.cpp turns the raw capture into the bytes of the TPIU: the  *)
(* probe samples a port of 4, 2 or 1 wires on both edges of its clock and     *)
(* stores the two half-symbols of a clock period in one raw byte. Which       *)
(* half-symbol begins a byte, and in which order a byte or a half-symbol goes *)
(* out, is the phase; it depends on the wiring and is searched for, by the    *)
(* number of ETM A-syncs that come out.                                       *)
EXTENDS Naturals, Sequences, FiniteSets

CONSTANT MinZeros   \* zero bytes of an A-sync, 11 in the code

ASSUME MinZerosAssumption == MinZeros \in Nat \ {0}

Widths == {1, 2, 4}
PerByte(width) == 8 \div width

(* assemble_width and assemble_nibbles.                                       *)
HalfSymbols(raw, width) ==
  [i \in 1 .. 2 * Len(raw) |->
     IF i % 2 = 1 THEN raw[(i + 1) \div 2] % 2 ^ width
     ELSE (raw[i \div 2] \div 16) % 2 ^ width]

Swapped(s) == 2 * (s % 2) + s \div 2   \* two bits, the only half-symbol to be reversed

Gather(symbols, first, width) ==
  LET upTo[j \in 0 .. PerByte(width)] ==
        IF j = 0 THEN 0 ELSE upTo[j - 1] + symbols[first + j - 1] * 2 ^ (width * (j - 1))
  IN upTo[PerByte(width)]

AssembleWidth(raw, phase) ==
  LET per == PerByte(phase.width)
      symbols == [i \in 1 .. 2 * Len(raw) |->
                    LET s == HalfSymbols(raw, phase.width)[i] IN
                    IF phase.order = 1 /\ phase.width = 2 THEN Swapped(s) ELSE s]
      room == IF Len(symbols) < phase.parity THEN 0 ELSE Len(symbols) - phase.parity
  IN [k \in 1 .. room \div per |-> Gather(symbols, phase.parity + (k - 1) * per + 1, phase.width)]

\* Four wires: from the high nibble of the first raw byte to the low one of the last.
NibblesOf(raw) ==
  [i \in 1 .. IF raw = <<>> THEN 0 ELSE 2 * (Len(raw) - 1) |-> HalfSymbols(raw, 4)[i + 1]]
Paired(raw, phase) ==
  LET nibs == NibblesOf(raw)
      room == IF Len(nibs) < phase.parity THEN 0 ELSE Len(nibs) - phase.parity
  IN [k \in 1 .. room \div 2 |->
        LET n0 == nibs[phase.parity + 2 * k - 1]  n1 == nibs[phase.parity + 2 * k] IN
        IF phase.order = 0 THEN 16 * n1 + n0 ELSE 16 * n0 + n1]

Assemble(raw, phase) ==
  IF phase.width = 4 THEN Paired(raw, phase) ELSE AssembleWidth(raw, phase)

\* The phases that are tried, in the order of the two loops.
NumPhasesOfNibbles(width) == 2
NumPhases(width) == IF width = 4 THEN 2 ELSE PerByte(width)
NumOrders(width) == IF width = 1 THEN 1 ELSE 2
Phases(width) ==
  [i \in 1 .. NumPhases(width) * NumOrders(width) |->
     [parity |-> (i - 1) \div NumOrders(width), order |-> (i - 1) % NumOrders(width),
      width |-> width]]

(* count_etmv4_async: zero bytes, then 0x80.                                  *)
CountAsyncAnyZeros(data) ==
  LET after[i \in 0 .. Len(data)] ==
        IF i = 0 THEN [zeros |-> 0, found |-> 0]
        ELSE LET s == after[i - 1]  async == data[i] = 128 /\ s.zeros >= MinZeros IN
             [zeros |-> IF data[i] = 0 THEN s.zeros + 1 ELSE IF async THEN 0 ELSE s.zeros,
              found |-> IF async THEN s.found + 1 ELSE s.found]
  IN after[Len(data)].found
CountAsync(data) ==
  LET after[i \in 0 .. Len(data)] ==
        IF i = 0 THEN [zeros |-> 0, found |-> 0]
        ELSE LET s == after[i - 1]  async == data[i] = 128 /\ s.zeros >= MinZeros IN
             [zeros |-> IF data[i] = 0 THEN s.zeros + 1 ELSE 0,
              found |-> IF async THEN s.found + 1 ELSE s.found]
  IN after[Len(data)].found

(* deframe_raw_capture: what each phase gives is scored by its A-syncs, and   *)
(* between equals by its size; the first of the best is kept.                 *)
Better(r, best) ==
  r.asyncs > best.asyncs \/ (r.asyncs = best.asyncs /\ r.size > best.size)
BestOf(scores) ==
  LET upTo[i \in 1 .. Len(scores)] ==
        IF i = 1 THEN 1
        ELSE IF Better(scores[i], scores[upTo[i - 1]]) THEN i ELSE upTo[i - 1]
  IN upTo[Len(scores)]
\* The search looks at a prefix, and at the whole capture only if that has no A-sync.
ChosenWithoutFallback(prefix, whole) == BestOf(prefix)
Chosen(prefix, whole) ==
  LET first == BestOf(prefix) IN
  IF prefix[first].asyncs > 0 THEN first ELSE BestOf(whole)

------------------------------------------------------------------------------
(* The port and the probe, which are not in the repository: the half-symbols  *)
(* of the bytes, low bits first, behind some left over from a byte that the   *)
(* capture missed; a port may send the high nibble first, or reverse the bits *)
(* of its half-symbols.                                                       *)
HalfSymbol(byte, j, width) == (byte \div 2 ^ (width * j)) % 2 ^ width
SentAs(byte, j, wiring) ==
  IF wiring.order = 0 THEN HalfSymbol(byte, j, wiring.width)
  ELSE IF wiring.width = 4 THEN HalfSymbol(byte, 1 - j, 4)
  ELSE Swapped(HalfSymbol(byte, j, 2))
OnTheWires(bytes, wiring) ==
  [i \in 1 .. wiring.left + PerByte(wiring.width) * Len(bytes) |->
     LET at == i - 1 - wiring.left IN
     IF i <= wiring.left THEN 0
     ELSE SentAs(bytes[at \div PerByte(wiring.width) + 1], at % PerByte(wiring.width), wiring)]
Sampled(symbols) ==
  [k \in 1 .. Len(symbols) \div 2 |-> symbols[2 * k - 1] + 16 * symbols[2 * k]]

Wirings ==
  UNION {[width : {w}, order : 0 .. NumOrders(w) - 1, left : 0 .. PerByte(w) - 1] : w \in Widths}
SeqsOf(S, n) == UNION {[1 .. k -> S] : k \in 0 .. n}

\* The bytes are there in one piece, but for one at each end perhaps.
Restores(assembled, bytes) ==
  \E from \in 0 .. Len(assembled), first \in 1 .. 2, last \in Len(bytes) - 1 .. Len(bytes) :
    /\ from <= 1 /\ from + (last - first + 1) = Len(assembled)
    /\ \A i \in first .. last : assembled[from + i - first + 1] = bytes[i]

\* One of the phases that are tried restores whatever is sent, but for its ends.
RestoredByOne(wiring, sent) ==
  \E i \in DOMAIN Phases(wiring.width) : \A bytes \in sent :
    Restores(Assemble(Sampled(OnTheWires(bytes, wiring)), Phases(wiring.width)[i]), bytes)

\* An A-sync is at the 0x80 behind enough zero bytes.
IsAsyncAt(data, i) ==
  data[i] = 128 /\ i > MinZeros /\ \A j \in i - MinZeros .. i - 1 : data[j] = 0
Asyncs(data) == {i \in DOMAIN data : IsAsyncAt(data, i)}

\* The first of the best.
IsBest(chosen, scores) ==
  \A i \in DOMAIN scores :
    /\ ~Better(scores[i], scores[chosen])
    /\ i < chosen => Better(scores[chosen], scores[i])
=============================================================================
