--------------------------- MODULE DeframeProofs ---------------------------
(* Proofs about Deframe, for every even frame length up to 16, every set of   *)
(* stream ids and data bytes, and captures of any length: its types, that     *)
(* frames stay aligned, and that every byte finds its stream; and about       *)
(* PhaseSearch, that the phase of the wiring is found.                        *)
(*                                                                            *)
(* First what get_packet makes of one frame, half-word by half-word, against  *)
(* what the formatter meant by it, position by position (PacketMeans). Then   *)
(* the invariant of the capture: after a sync the code is in step with the    *)
(* formatter (AlignInv), what it has collected is the beginning of the frame  *)
(* whose end is under way, and its stream is the one last said (MeansInv);    *)
(* before the first sync nothing looks like one (FlowInv).                    *)
(*                                                                            *)
(* The phase needs no invariant: each question asked of the search is         *)
(* answered right, for captures of any length. What the recursions compute is *)
(* found by induction up to the length of the data: the best of the scores,   *)
(* the A-syncs counted, the byte gathered of its half-symbols. The rest says  *)
(* where each half-symbol goes, from the port to the byte that is assembled.  *)
EXTENDS MCDeframe, InductionFacts, TLAPS

LEMMA Sizes ==
  /\ FrameLen \in Nat /\ Pairs \in Nat /\ FrameLen = 2 * Pairs
  /\ Pairs >= 2 /\ Pairs <= 8
BY FrameAssumption DEF Pairs

(* What the formatter puts at even positions: a stream change, or a data byte *)
(* apart from its low bit.                                                    *)
LEMMA EvenIs ==
  ASSUME NEW e \in Evens
  PROVE  /\ e.change \in BOOLEAN /\ e.flag \in {0, 1}
         /\ EvenByte(e) \in 0 .. 254
         /\ e.change => /\ e.value \in Ids /\ e.value \in 0 .. 126
                        /\ IsChange(EvenByte(e)) /\ EvenByte(e) \div 2 = e.value
         /\ ~e.change => /\ ~IsChange(EvenByte(e)) /\ EvenByte(e) = e.value
                         /\ e.value + e.flag \in Bytes
<1>1. CASE e \in [change : {TRUE}, value : Ids, flag : {0, 1}]
  <2>1. e.change = TRUE /\ e.value \in Ids /\ e.value \in 0 .. 126 /\ e.flag \in {0, 1}
    BY <1>1, IdsAssumption
  <2>2. EvenByte(e) = 2 * e.value + 1
    BY <2>1 DEF EvenByte
  <2>3. \A v \in 0 .. 126 : 2 * v + 1 \in 0 .. 254 /\ (2 * v + 1) % 2 = 1 /\ (2 * v + 1) \div 2 = v
    OBVIOUS
  <2>4. EvenByte(e) \in 0 .. 254 /\ IsChange(EvenByte(e)) /\ EvenByte(e) \div 2 = e.value
    BY <2>1, <2>2, <2>3 DEF IsChange
  <2> QED BY <2>1, <2>4, Zenon
<1>2. CASE e \in {[change |-> FALSE, value |-> d - (d % 2), flag |-> d % 2] : d \in Data}
  <2>1. PICK d \in Data : e = [change |-> FALSE, value |-> d - (d % 2), flag |-> d % 2]
    BY <1>2
  <2>2. d \in 0 .. 255 /\ EvenByte(e) = d - (d % 2) /\ e.value = d - (d % 2) /\ e.flag = d % 2
        /\ e.change = FALSE
    BY <2>1, DataAssumption DEF EvenByte
  <2>3. \A x \in 0 .. 255 : /\ x - (x % 2) \in 0 .. 254 /\ (x - (x % 2)) % 2 = 0
                            /\ x % 2 \in {0, 1} /\ (x - (x % 2)) + (x % 2) = x
    OBVIOUS
  <2>4. EvenByte(e) \in 0 .. 254 /\ e.flag \in {0, 1} /\ e.value + e.flag \in Bytes
    BY <2>2, <2>3 DEF Bytes
  <2>5. ~IsChange(EvenByte(e)) /\ EvenByte(e) = e.value
    BY <2>2, <2>3 DEF IsChange
  <2>6. e.change \in BOOLEAN /\ ~e.change
    BY <2>2
  <2> QED BY <2>4, <2>5, <2>6, Zenon
<1> QED BY <1>1, <1>2 DEF Evens

------------------------------------------------------------------------------
(* The last byte of a frame: the flags of the half-words, the first lowest.   *)
IsFlags(last, evens) ==
  /\ last \in [0 .. Pairs -> Nat] /\ last[0] = 0
  /\ \A n \in 1 .. Pairs : last[n] = evens[Pairs - n].flag + 2 * last[n - 1]

LEMMA FlagsAre ==
  ASSUME NEW evens \in [0 .. Pairs - 1 -> Evens]
  PROVE  \E last : IsFlags(last, evens) /\ Flags(evens) = last[Pairs]
<1> DEFINE P(g) == g = [n \in 0 .. Pairs |->
                         IF n = 0 THEN 0 ELSE evens[Pairs - n].flag + 2 * g[n - 1]]
           k == CHOOSE g : P(g)
           step == [p \in Nat \X Nat |->
                     IF p[2] \in 1 .. Pairs THEN evens[Pairs - p[2]].flag + 2 * p[1] ELSE 0]
<1>1. ASSUME NEW n \in 1 .. Pairs PROVE evens[Pairs - n].flag \in {0, 1}
  <2>1. Pairs - n \in 0 .. Pairs - 1
    BY Sizes
  <2> QED BY <2>1, EvenIs
<1>2. Flags(evens) = k[Pairs]
  BY Zenon DEF Flags
<1>3. PICK f : Unfolds(f, Nat, 0, step, Pairs)
  <2>1. ASSUME NEW p \in Nat \X Nat
        PROVE  (IF p[2] \in 1 .. Pairs THEN evens[Pairs - p[2]].flag + 2 * p[1] ELSE 0) \in Nat
    <3>1. p[1] \in Nat /\ (p[2] \in 1 .. Pairs => evens[Pairs - p[2]].flag \in {0, 1})
      BY <1>1
    <3> QED BY <3>1
  <2>2. Steps(step, Nat)
    BY <2>1 DEF Steps
  <2> HIDE DEF step
  <2> QED BY <2>2, Sizes, RecursionExists
<1>4. /\ f \in [0 .. Pairs -> Nat] /\ f[0] = 0
      /\ \A n \in 1 .. Pairs : f[n] = evens[Pairs - n].flag + 2 * f[n - 1]
  <2>1. /\ f \in [0 .. Pairs -> Nat] /\ f[0] = 0
        /\ \A n \in 1 .. Pairs : f[n] = step[<<f[n - 1], n>>]
    <3> HIDE DEF step
    <3> QED BY <1>3 DEF Unfolds
  <2>2. ASSUME NEW n \in 1 .. Pairs PROVE f[n] = evens[Pairs - n].flag + 2 * f[n - 1]
    <3>1. n - 1 \in 0 .. Pairs /\ f[n - 1] \in Nat /\ n \in Nat
      BY <2>1, Sizes
    <3>2. <<f[n - 1], n>> \in Nat \X Nat
      BY <3>1
    <3> QED BY <2>1, <3>2
  <2> QED BY <2>1, <2>2
<1>5. P(f)
  <2>1. \A n \in 0 .. Pairs : f[n] = IF n = 0 THEN 0 ELSE evens[Pairs - n].flag + 2 * f[n - 1]
    <3>1. \A n \in 0 .. Pairs : n = 0 \/ n \in 1 .. Pairs
      BY Sizes
    <3>2. \A n \in 1 .. Pairs : n # 0
      OBVIOUS
    <3> QED BY <1>4, <3>1, <3>2
  <2> QED BY <1>4, <2>1
<1>6. P(k)
  <2> HIDE DEF P
  <2> QED BY <1>5, Zenon
<1>7. k = [n \in 0 .. Pairs |-> IF n = 0 THEN 0 ELSE evens[Pairs - n].flag + 2 * k[n - 1]]
  BY <1>6
<1> HIDE DEF k
<1>8. k[0] = 0 /\ \A n \in 1 .. Pairs : k[n] = evens[Pairs - n].flag + 2 * k[n - 1]
  <2>1. 0 \in 0 .. Pairs
    BY Sizes
  <2>2. ASSUME NEW n \in 1 .. Pairs PROVE k[n] = evens[Pairs - n].flag + 2 * k[n - 1]
    <3>1. n \in 0 .. Pairs /\ n # 0
      BY Sizes
    <3> QED BY <1>7, <3>1
  <2> QED BY <1>7, <2>1, <2>2
<1>9. k \in [0 .. Pairs -> Nat]
  <2> DEFINE G == {n \in 0 .. Pairs : k[n] \in Nat}
  <2>1. 0 \in G
    BY <1>8, Sizes
  <2>2. \A n \in 1 .. Pairs : n - 1 \in G => n \in G
    BY <1>8, <1>1
  <2>3. 0 .. Pairs \subseteq G
    <3> HIDE DEF G
    <3> QED BY <2>1, <2>2, Sizes, InductUpTo
  <2> QED BY <1>7, <2>3
<1> QED BY <1>2, <1>8, <1>9 DEF IsFlags

\* The flags are shifted out in the order of the half-words, and fit one byte.
LEMMA FlagsShift ==
  ASSUME NEW evens \in [0 .. Pairs - 1 -> Evens], NEW last, IsFlags(last, evens)
  PROVE  /\ \A j \in 0 .. Pairs - 1 : /\ last[Pairs - j] % 2 = evens[j].flag
                                      /\ last[Pairs - j] \div 2 = last[Pairs - (j + 1)]
         /\ \A n \in 0 .. Pairs : last[n] \in Bytes
<1>1. ASSUME NEW j \in 0 .. Pairs - 1
      PROVE  /\ last[Pairs - j] % 2 = evens[j].flag
             /\ last[Pairs - j] \div 2 = last[Pairs - (j + 1)]
  <2>1. Pairs - j \in 1 .. Pairs /\ Pairs - (Pairs - j) = j /\ (Pairs - j) - 1 = Pairs - (j + 1)
        /\ Pairs - (j + 1) \in 0 .. Pairs
    BY Sizes
  <2>2. last[Pairs - j] = evens[j].flag + 2 * last[Pairs - (j + 1)]
    BY <2>1 DEF IsFlags
  <2>3. evens[j].flag \in {0, 1} /\ last[Pairs - (j + 1)] \in Nat
    BY <2>1, EvenIs DEF IsFlags
  <2>4. \A a \in {0, 1}, b \in Nat : (a + 2 * b) % 2 = a /\ (a + 2 * b) \div 2 = b
    OBVIOUS
  <2> QED BY <2>2, <2>3, <2>4
<1> DEFINE B(n, top) == n <= Pairs => last[n] <= top
<1>2. ASSUME NEW n \in 1 .. 8, NEW t \in Nat, B(n - 1, t) PROVE B(n, 2 * t + 1)
  <2> SUFFICES ASSUME n <= Pairs PROVE last[n] <= 2 * t + 1
    OBVIOUS
  <2>1. n \in 1 .. Pairs /\ n - 1 \in 0 .. Pairs /\ Pairs - n \in 0 .. Pairs - 1 /\ n - 1 <= Pairs
    BY Sizes
  <2>2. last[n] = evens[Pairs - n].flag + 2 * last[n - 1] /\ last[n - 1] \in Nat
        /\ evens[Pairs - n].flag \in {0, 1}
    BY <2>1, EvenIs DEF IsFlags
  <2>3. last[n - 1] <= t
    BY <1>2, <2>1
  <2> QED BY <2>2, <2>3
<1>3. B(0, 0)
  BY DEF IsFlags
<1> HIDE DEF B
<1>4. /\ B(0, 0) /\ B(1, 1) /\ B(2, 3) /\ B(3, 7) /\ B(4, 15) /\ B(5, 31) /\ B(6, 63)
      /\ B(7, 127) /\ B(8, 255)
  <2>1. B(1, 1)
    <3>1. B(1 - 1, 0)
      BY <1>3
    <3> QED BY <3>1, <1>2
  <2>2. B(2, 3)
    <3>1. B(2 - 1, 1)
      BY <2>1
    <3> QED BY <3>1, <1>2
  <2>3. B(3, 7)
    <3>1. B(3 - 1, 3)
      BY <2>2
    <3> QED BY <3>1, <1>2
  <2>4. B(4, 15)
    <3>1. B(4 - 1, 7)
      BY <2>3
    <3> QED BY <3>1, <1>2
  <2>5. B(5, 31)
    <3>1. B(5 - 1, 15)
      BY <2>4
    <3> QED BY <3>1, <1>2
  <2>6. B(6, 63)
    <3>1. B(6 - 1, 31)
      BY <2>5
    <3> QED BY <3>1, <1>2
  <2>7. B(7, 127)
    <3>1. B(7 - 1, 63)
      BY <2>6
    <3> QED BY <3>1, <1>2
  <2>8. B(8, 255)
    <3>1. B(8 - 1, 127)
      BY <2>7
    <3> QED BY <3>1, <1>2
  <2> QED BY <1>3, <2>1, <2>2, <2>3, <2>4, <2>5, <2>6, <2>7, <2>8
<1>5. ASSUME NEW n \in 0 .. Pairs PROVE last[n] \in Bytes
  <2>0. n \in 0 .. 8 /\ n <= Pairs
    BY Sizes
  <2>1. last[n] \in Nat /\ n \in 0 .. 8 /\ n <= Pairs
    BY <2>0 DEF IsFlags
  <2>2. last[n] <= 255
    <3>1. CASE n = 0
      BY <3>1, <2>1, <1>4 DEF B
    <3>2. CASE n = 1
      BY <3>2, <2>1, <1>4 DEF B
    <3>3. CASE n = 2
      BY <3>3, <2>1, <1>4 DEF B
    <3>4. CASE n = 3
      BY <3>4, <2>1, <1>4 DEF B
    <3>5. CASE n = 4
      BY <3>5, <2>1, <1>4 DEF B
    <3>6. CASE n = 5
      BY <3>6, <2>1, <1>4 DEF B
    <3>7. CASE n = 6
      BY <3>7, <2>1, <1>4 DEF B
    <3>8. CASE n = 7
      BY <3>8, <2>1, <1>4 DEF B
    <3>9. CASE n = 8
      BY <3>9, <2>1, <1>4 DEF B
    <3> QED BY <2>1, <3>1, <3>2, <3>3, <3>4, <3>5, <3>6, <3>7, <3>8, <3>9
  <2> DEFINE m == last[n]
  <2>3. m \in Nat /\ m <= 255
    BY <2>1, <2>2
  <2> HIDE DEF m
  <2>4. m \in 0 .. 255
    BY <2>3
  <2> QED BY <2>4 DEF Bytes, m
<1> QED BY <1>1, <1>5
------------------------------------------------------------------------------
LEMMA FrameIs ==
  ASSUME NEW evens \in [0 .. Pairs - 1 -> Evens], NEW odds \in [0 .. Pairs - 2 -> Data]
  PROVE  /\ FrameBytes(evens, odds) \in Seq(Bytes) /\ Len(FrameBytes(evens, odds)) = FrameLen
         /\ FrameBytes(evens, odds)[FrameLen] = Flags(evens)
         /\ \A j \in 0 .. Pairs - 1 : FrameBytes(evens, odds)[2 * j + 1] = EvenByte(evens[j])
         /\ \A j \in 0 .. Pairs - 2 : FrameBytes(evens, odds)[2 * j + 2] = odds[j]
<1> DEFINE f == FrameBytes(evens, odds)
           At(i) == IF i = FrameLen THEN Flags(evens)
                    ELSE IF i % 2 = 1 THEN EvenByte(evens[(i - 1) \div 2]) ELSE odds[(i - 2) \div 2]
<1>1. FrameLen \in Nat /\ Pairs \in Nat /\ FrameLen = 2 * Pairs /\ Pairs >= 2
  BY Sizes
<1>2. f = [i \in 1 .. FrameLen |-> At(i)]
  BY DEF FrameBytes
<1>3. ASSUME NEW i \in 1 .. FrameLen PROVE At(i) \in Bytes
  <2>1. CASE i = FrameLen
    <3>1. PICK last : IsFlags(last, evens) /\ Flags(evens) = last[Pairs]
      BY FlagsAre
    <3>2. Pairs \in 0 .. Pairs
      BY <1>1
    <3> QED BY <2>1, <3>1, <3>2, FlagsShift
  <2>2. CASE i # FrameLen /\ i % 2 = 1
    <3>1. (i - 1) \div 2 \in 0 .. Pairs - 1
      BY <1>1, <2>2
    <3>2. EvenByte(evens[(i - 1) \div 2]) \in 0 .. 254
      BY <3>1, EvenIs
    <3> QED BY <2>2, <3>2 DEF Bytes
  <2>3. CASE i # FrameLen /\ i % 2 # 1
    <3>1. (i - 2) \div 2 \in 0 .. Pairs - 2
      BY <1>1, <2>3
    <3>2. odds[(i - 2) \div 2] \in Bytes
      BY <3>1, DataAssumption DEF Bytes
    <3> QED BY <2>3, <3>2
  <2> QED BY <2>1, <2>2, <2>3
<1> HIDE DEF f, At
<1>4. f \in Seq(Bytes) /\ Len(f) = FrameLen
  <2>1. f \in [1 .. FrameLen -> Bytes]
    BY <1>2, <1>3
  <2> QED BY <1>1, <2>1
<1>5. f[FrameLen] = Flags(evens)
  <2>1. FrameLen \in 1 .. FrameLen
    BY <1>1
  <2> QED BY <1>2, <2>1 DEF At
<1>6. ASSUME NEW j \in 0 .. Pairs - 1 PROVE f[2 * j + 1] = EvenByte(evens[j])
  <2>1. /\ 2 * j + 1 \in 1 .. FrameLen /\ 2 * j + 1 # FrameLen /\ (2 * j + 1) % 2 = 1
        /\ ((2 * j + 1) - 1) \div 2 = j
    BY <1>1
  <2> QED BY <1>2, <2>1 DEF At
<1>7. ASSUME NEW j \in 0 .. Pairs - 2 PROVE f[2 * j + 2] = odds[j]
  <2>1. /\ 2 * j + 2 \in 1 .. FrameLen /\ 2 * j + 2 # FrameLen /\ (2 * j + 2) % 2 # 1
        /\ ((2 * j + 2) - 2) \div 2 = j
    BY <1>1
  <2> QED BY <1>2, <2>1 DEF At
<1> QED BY <1>4, <1>5, <1>6, <1>7 DEF f

------------------------------------------------------------------------------
(* get_packet, half-word by half-word.                                        *)
Shifted == [lowbits : Bytes, cur : 0 .. 127, out : Seq(Traced)]
FirstShifted(frame, c) == [lowbits |-> frame[FrameLen], cur |-> c, out |-> <<>>]
Shifts(after, frame, c) ==
  /\ after \in [0 .. Pairs -> Shifted]
  /\ after[0] = FirstShifted(frame, c)
  /\ \A j \in 0 .. Pairs - 1 : after[j + 1] = HalfWord(frame, j, after[j])

LEMMA PutIs ==
  ASSUME NEW id \in 0 .. 127, NEW byte \in Bytes
  PROVE  Put(id, byte) \in Seq(Traced)
<1>1. [id |-> id, byte |-> byte] \in Traced
  BY DEF Traced
<1> QED BY <1>1 DEF Put

LEMMA HalfWordType ==
  ASSUME NEW frame \in Seq(Bytes), Len(frame) = FrameLen, NEW j \in 0 .. Pairs - 1, NEW s \in Shifted
  PROVE  HalfWord(frame, j, s) \in Shifted
<1> DEFINE even == frame[2 * j + 1]
           odd == frame[2 * j + 2]
           flag == s.lowbits % 2
           now == StreamNow(even, flag, s.cur)
           a == IF IsChange(even) THEN <<>> ELSE Put(now, even + flag)
           b == IF j < Pairs - 1 THEN Put(now, odd) ELSE <<>>
           c == IF IsChange(even) THEN even \div 2 ELSE now
<1>1. even \in 0 .. 255 /\ odd \in 0 .. 255
  <2>1. 2 * j + 1 \in 1 .. FrameLen /\ 2 * j + 2 \in 1 .. FrameLen
    BY Sizes
  <2> QED BY <2>1 DEF Bytes
<1>2. s.lowbits \in 0 .. 255 /\ s.cur \in 0 .. 127 /\ s.out \in Seq(Traced)
  BY DEF Shifted, Bytes
<1>3. \A x \in 0 .. 255 : x \div 2 \in 0 .. 127 /\ x \div 2 \in 0 .. 255 /\ x % 2 \in {0, 1}
  OBVIOUS
<1>4. s.lowbits \div 2 \in Bytes /\ flag \in {0, 1}
  <2> DEFINE x == s.lowbits
  <2>1. x \in 0 .. 255
    BY <1>2
  <2> HIDE DEF x
  <2>2. x \div 2 \in 0 .. 255 /\ x % 2 \in {0, 1}
    BY <2>1
  <2> QED BY <2>2 DEF x, Bytes
<1> HIDE DEF even, odd, flag
<1>5. now \in 0 .. 127 /\ c \in 0 .. 127
  BY <1>1, <1>2, <1>3 DEF StreamNow
<1>6. ~IsChange(even) => even + flag \in Bytes
  <2>1. \A x \in 0 .. 255, y \in {0, 1} : x % 2 # 1 => x + y \in 0 .. 255
    OBVIOUS
  <2> QED BY <1>1, <1>4, <2>1 DEF IsChange, Bytes
<1> HIDE DEF now
<1>7. a \in Seq(Traced) /\ b \in Seq(Traced)
  <2>1. <<>> \in Seq(Traced)
    OBVIOUS
  <2>2. odd \in Bytes
    BY <1>1 DEF Bytes
  <2> QED BY <1>5, <1>6, <2>1, <2>2, PutIs
<1> HIDE DEF a, b, c
<1>8. s.out \o a \o b \in Seq(Traced)
  BY <1>2, <1>7
<1>9. HalfWord(frame, j, s) = [lowbits |-> s.lowbits \div 2, cur |-> c, out |-> s.out \o a \o b]
  BY DEF HalfWord, even, odd, flag, now, a, b, c
<1> QED BY <1>4, <1>5, <1>8, <1>9 DEF Shifted

LEMMA PacketIs ==
  ASSUME NEW frame \in Seq(Bytes), Len(frame) = FrameLen, NEW c \in 0 .. 127
  PROVE  \E after : Shifts(after, frame, c) /\ GetPacket(frame, c) = after[Pairs]
<1> DEFINE P(g) == g = [j \in 0 .. Pairs |->
                         IF j = 0 THEN [lowbits |-> frame[FrameLen], cur |-> c, out |-> <<>>]
                         ELSE HalfWord(frame, j - 1, g[j - 1])]
           k == CHOOSE g : P(g)
           first == FirstShifted(frame, c)
           step == [p \in Shifted \X Nat |->
                     IF p[2] \in 1 .. Pairs THEN HalfWord(frame, p[2] - 1, p[1]) ELSE first]
<1>1. first \in Shifted
  <2>1. FrameLen \in 1 .. Len(frame)
    BY Sizes
  <2>2. frame[FrameLen] \in Bytes /\ <<>> \in Seq(Traced)
    BY <2>1
  <2> QED BY <2>2 DEF Shifted, FirstShifted
<1> HIDE DEF first
<1>2. GetPacket(frame, c) = k[Pairs]
  BY Zenon DEF GetPacket
<1>3. PICK f : Unfolds(f, Shifted, first, step, Pairs)
  <2>1. ASSUME NEW p \in Shifted \X Nat
        PROVE  (IF p[2] \in 1 .. Pairs THEN HalfWord(frame, p[2] - 1, p[1]) ELSE first) \in Shifted
    <3>1. p[1] \in Shifted
      OBVIOUS
    <3>2. CASE p[2] \in 1 .. Pairs
      <4>1. p[2] - 1 \in 0 .. Pairs - 1
        BY <3>2, Sizes
      <4>2. HalfWord(frame, p[2] - 1, p[1]) \in Shifted
        BY <3>1, <4>1, HalfWordType
      <4> QED BY <3>2, <4>2
    <3>3. CASE p[2] \notin 1 .. Pairs
      BY <1>1, <3>3
    <3> QED BY <3>2, <3>3
  <2>2. Steps(step, Shifted)
    <3> HIDE DEF Shifted, HalfWord
    <3> QED BY <2>1 DEF Steps
  <2> HIDE DEF step
  <2> QED BY <1>1, <2>2, Sizes, RecursionExists
<1>4. /\ f \in [0 .. Pairs -> Shifted] /\ f[0] = first
      /\ \A j \in 1 .. Pairs : f[j] = HalfWord(frame, j - 1, f[j - 1])
  <2>1. /\ f \in [0 .. Pairs -> Shifted] /\ f[0] = first
        /\ \A n \in 1 .. Pairs : f[n] = step[<<f[n - 1], n>>]
    <3> HIDE DEF step
    <3> QED BY <1>3 DEF Unfolds
  <2>2. ASSUME NEW n \in 1 .. Pairs PROVE f[n] = HalfWord(frame, n - 1, f[n - 1])
    <3>1. n - 1 \in 0 .. Pairs /\ n \in Nat
      BY Sizes
    <3>2. <<f[n - 1], n>> \in Shifted \X Nat
      BY <2>1, <3>1
    <3>3. step[<<f[n - 1], n>>] = HalfWord(frame, n - 1, f[n - 1])
      BY <3>2
    <3> QED BY <2>1, <3>3
  <2> QED BY <2>1, <2>2
<1>5. P(f)
  <2>1. \A j \in 0 .. Pairs : f[j] = IF j = 0 THEN first ELSE HalfWord(frame, j - 1, f[j - 1])
    <3>1. \A j \in 0 .. Pairs : j = 0 \/ j \in 1 .. Pairs
      BY Sizes
    <3>2. \A j \in 1 .. Pairs : j # 0
      OBVIOUS
    <3> QED BY <1>4, <3>1, <3>2
  <2>2. f = [j \in 0 .. Pairs |-> IF j = 0 THEN first ELSE HalfWord(frame, j - 1, f[j - 1])]
    BY <1>4, <2>1
  <2> QED BY <2>2 DEF first, FirstShifted
<1>6. P(k)
  <2> HIDE DEF P
  <2> QED BY <1>5, Zenon
<1>7. k = [j \in 0 .. Pairs |-> IF j = 0 THEN first ELSE HalfWord(frame, j - 1, k[j - 1])]
  <2>1. P(k) => k = [j \in 0 .. Pairs |-> IF j = 0 THEN first ELSE HalfWord(frame, j - 1, k[j - 1])]
    <3> HIDE DEF k
    <3> QED BY DEF first, FirstShifted
  <2> HIDE DEF P
  <2> QED BY <1>6, <2>1
<1> HIDE DEF k
<1>8. k[0] = first /\ \A j \in 0 .. Pairs - 1 : k[j + 1] = HalfWord(frame, j, k[j])
  <2>1. 0 \in 0 .. Pairs
    BY Sizes
  <2>2. ASSUME NEW j \in 0 .. Pairs - 1 PROVE k[j + 1] = HalfWord(frame, j, k[j])
    <3>1. j + 1 \in 0 .. Pairs /\ j + 1 # 0 /\ (j + 1) - 1 = j
      BY Sizes
    <3> QED BY <1>7, <3>1
  <2> QED BY <1>7, <2>1, <2>2
<1>9. k \in [0 .. Pairs -> Shifted]
  <2> DEFINE G == {j \in 0 .. Pairs : k[j] \in Shifted}
  <2>1. 0 \in G
    BY <1>1, <1>8, Sizes
  <2>2. ASSUME NEW j \in 1 .. Pairs, j - 1 \in G PROVE j \in G
    <3>1. j - 1 \in 0 .. Pairs - 1 /\ (j - 1) + 1 = j /\ j \in 0 .. Pairs
      BY Sizes
    <3>2. k[j] = HalfWord(frame, j - 1, k[j - 1])
      BY <1>8, <3>1
    <3>3. HalfWord(frame, j - 1, k[j - 1]) \in Shifted
      BY <2>2, <3>1, HalfWordType
    <3> QED BY <3>1, <3>2, <3>3
  <2>3. 0 .. Pairs \subseteq G
    <3> HIDE DEF G
    <3> QED BY <2>1, <2>2, Sizes, InductUpTo
  <2> QED BY <1>7, <2>3
<1> QED BY <1>2, <1>8, <1>9 DEF Shifts, first

------------------------------------------------------------------------------
(* The stream last announced by a set of stream changes.                      *)
Latest(T, evens, c) ==
  IF T = {} THEN c ELSE evens[CHOOSE j \in T : \A k \in T : k <= j].value

LEMMA LatestIs ==
  ASSUME NEW evens, NEW c, NEW T \in SUBSET (0 .. Pairs - 1), NEW m \in T, \A k \in T : k <= m
  PROVE  Latest(T, evens, c) = evens[m].value
<1>1. \A j \in T : (\A k \in T : k <= j) => j = m
  BY Sizes
<1>2. (CHOOSE j \in T : \A k \in T : k <= j) = m
  BY <1>1
<1> QED BY <1>2 DEF Latest

LEMMA LatestIsOne ==
  ASSUME NEW evens \in [0 .. Pairs - 1 -> Evens], NEW c, NEW T \in SUBSET (0 .. Pairs - 1), T # {}
  PROVE  \E m \in T : Latest(T, evens, c) = evens[m].value /\ \A k \in T : k <= m
<1> DEFINE U == {Pairs - k : k \in T}
<1>1. U \in SUBSET Nat /\ U # {}
  <2>1. \A k \in T : Pairs - k \in Nat
    BY Sizes
  <2> QED BY <2>1
<1>2. PICK u \in U : \A v \in U : u <= v
  <2> HIDE DEF U
  <2> QED BY <1>1, LeastNumber
<1>3. PICK m \in T : u = Pairs - m
  BY <1>2
<1>4. ASSUME NEW k \in T PROVE k <= m
  <2>1. Pairs - k \in U
    OBVIOUS
  <2>2. Pairs - m <= Pairs - k
    BY <2>1, <1>2, <1>3
  <2>3. k \in Int /\ m \in Int /\ Pairs \in Int
    BY Sizes
  <2> QED BY <2>2, <2>3
<1> QED BY <1>4, LatestIs

LEMMA StreamIsLatest ==
  ASSUME NEW evens, NEW stream, NEW pos
  PROVE  /\ StreamAt(evens, stream, pos) = Latest(Announced(evens, pos), evens, stream)
         /\ Announced(evens, pos) \in SUBSET (0 .. Pairs - 1)
BY DEF StreamAt, Latest, Announced

LEMMA StreamType ==
  ASSUME NEW evens \in [0 .. Pairs - 1 -> Evens], NEW stream \in Ids, NEW pos
  PROVE  StreamAt(evens, stream, pos) \in Ids
<1> DEFINE T == Announced(evens, pos)
<1>1. CASE T = {}
  BY <1>1 DEF StreamAt
<1>2. CASE T # {}
  <2>0. T \in SUBSET (0 .. Pairs - 1)
    BY StreamIsLatest
  <2>1. PICK m \in T : Latest(T, evens, stream) = evens[m].value
    <3> HIDE DEF T
    <3> QED BY <1>2, <2>0, LatestIsOne
  <2>2. evens[m].change /\ evens[m] \in Evens
    BY <2>1 DEF Announced
  <2> QED BY <2>1, <2>2, StreamIsLatest, EvenIs
<1> QED BY <1>1, <1>2
------------------------------------------------------------------------------
(* What a frame means, position by position.                                  *)
Meant == [id : 0 .. 126, byte : Bytes, said : BOOLEAN]
Builds(up, evens, odds, stream, sure) ==
  /\ up \in [0 .. FrameLen - 1 -> Seq(Meant)] /\ up[0] = <<>>
  /\ \A n \in 0 .. FrameLen - 2 : up[n + 1] = up[n] \o MeaningAt(evens, odds, stream, sure, n)

LEMMA DataType ==
  ASSUME NEW evens \in [0 .. Pairs - 1 -> Evens], NEW odds \in [0 .. Pairs - 2 -> Data],
         NEW pos \in 0 .. FrameLen - 2, IsData(evens, pos)
  PROVE  DataByte(evens, odds, pos) \in Bytes
<1>1. CASE pos % 2 = 1
  <2>1. pos \div 2 \in 0 .. Pairs - 2
    BY <1>1, Sizes
  <2>2. odds[pos \div 2] \in Bytes
    BY <2>1, DataAssumption DEF Bytes
  <2> QED BY <1>1, <2>2 DEF DataByte
<1>2. CASE pos % 2 # 1
  <2>1. pos \div 2 \in 0 .. Pairs - 1
    BY Sizes
  <2>2. ~evens[pos \div 2].change
    BY <1>2 DEF IsData
  <2>3. evens[pos \div 2].value + evens[pos \div 2].flag \in Bytes
    BY <2>1, <2>2, EvenIs
  <2> QED BY <1>2, <2>3 DEF DataByte
<1> QED BY <1>1, <1>2

LEMMA MeaningAtType ==
  ASSUME NEW evens \in [0 .. Pairs - 1 -> Evens], NEW odds \in [0 .. Pairs - 2 -> Data],
         NEW stream \in Ids, NEW sure \in BOOLEAN, NEW pos \in 0 .. FrameLen - 2
  PROVE  MeaningAt(evens, odds, stream, sure, pos) \in Seq(Meant)
<1> DEFINE id == StreamAt(evens, stream, pos)
           x == [id |-> id, byte |-> DataByte(evens, odds, pos),
                 said |-> sure \/ Announced(evens, pos) # {}]
<1>1. id \in 0 .. 126
  BY StreamType, IdsAssumption
<1>2. CASE IsData(evens, pos) /\ id # 0
  <2>1. DataByte(evens, odds, pos) \in Bytes
    BY <1>2, DataType
  <2>2. x \in Meant
    BY <1>1, <2>1 DEF Meant
  <2>3. MeaningAt(evens, odds, stream, sure, pos) = <<x>>
    BY <1>2 DEF MeaningAt
  <2> HIDE DEF x
  <2> QED BY <2>2, <2>3
<1>3. CASE ~(IsData(evens, pos) /\ id # 0)
  BY <1>3 DEF MeaningAt
<1> QED BY <1>2, <1>3

LEMMA MeaningIs ==
  ASSUME NEW evens \in [0 .. Pairs - 1 -> Evens], NEW odds \in [0 .. Pairs - 2 -> Data],
         NEW stream \in Ids, NEW sure \in BOOLEAN
  PROVE  \E up : /\ Builds(up, evens, odds, stream, sure)
                 /\ Meaning(evens, odds, stream, sure) = up[FrameLen - 1]
<1> DEFINE n == FrameLen - 1
           At(i) == MeaningAt(evens, odds, stream, sure, i)
           P(g) == g = [i \in 0 .. n |-> IF i = 0 THEN <<>> ELSE g[i - 1] \o At(i - 1)]
           k == CHOOSE g : P(g)
           S == Seq(Meant)
           step == [p \in S \X Nat |-> IF p[2] \in 1 .. n THEN p[1] \o At(p[2] - 1) ELSE <<>>]
<1>0. n \in Nat /\ \A i \in 1 .. n : i - 1 \in 0 .. FrameLen - 2
  BY Sizes
<1>1. \A i \in 0 .. FrameLen - 2 : At(i) \in S
  BY MeaningAtType
<1>2. Meaning(evens, odds, stream, sure) = k[n]
  BY Zenon DEF Meaning
<1>9. <<>> \in S
  OBVIOUS
<1> HIDE DEF At
<1>10. ASSUME NEW a \in S, NEW b \in S PROVE a \o b \in S
  <2>1. a \in Seq(Meant) /\ b \in Seq(Meant)
    OBVIOUS
  <2> QED BY <2>1
<1> HIDE DEF S
<1>3. PICK f : Unfolds(f, S, <<>>, step, n)
  <2>1. ASSUME NEW p \in S \X Nat
        PROVE  (IF p[2] \in 1 .. n THEN p[1] \o At(p[2] - 1) ELSE <<>>) \in S
    <3>1. p[1] \in S
      OBVIOUS
    <3>2. CASE p[2] \in 1 .. n
      <4>1. At(p[2] - 1) \in S
        BY <1>0, <1>1, <3>2
      <4> QED BY <1>10, <3>1, <3>2, <4>1
    <3> QED BY <1>9, <3>2
  <2>2. Steps(step, S)
    BY <2>1 DEF Steps
  <2> HIDE DEF step, n
  <2> QED BY <1>0, <1>9, <2>2, RecursionExists
<1>4. /\ f \in [0 .. n -> S] /\ f[0] = <<>>
      /\ \A i \in 1 .. n : f[i] = f[i - 1] \o At(i - 1)
  <2>1. /\ f \in [0 .. n -> S] /\ f[0] = <<>>
        /\ \A i \in 1 .. n : f[i] = step[<<f[i - 1], i>>]
    <3> HIDE DEF step, n
    <3> QED BY <1>3 DEF Unfolds
  <2>2. ASSUME NEW i \in 1 .. n PROVE f[i] = f[i - 1] \o At(i - 1)
    <3>1. i - 1 \in 0 .. n /\ i \in Nat
      BY <1>0
    <3>2. <<f[i - 1], i>> \in S \X Nat
      BY <2>1, <3>1
    <3>3. step[<<f[i - 1], i>>] = f[i - 1] \o At(i - 1)
      BY <3>2
    <3> QED BY <2>1, <3>3
  <2> QED BY <2>1, <2>2
<1>5. P(f)
  <2>1. \A i \in 0 .. n : f[i] = IF i = 0 THEN <<>> ELSE f[i - 1] \o At(i - 1)
    <3>1. \A i \in 0 .. n : i = 0 \/ i \in 1 .. n
      BY <1>0
    <3>2. \A i \in 1 .. n : i # 0
      OBVIOUS
    <3> HIDE DEF n
    <3> QED BY <1>4, <3>1, <3>2
  <2> QED BY <1>4, <2>1
<1>6. P(k)
  <2> HIDE DEF P
  <2> QED BY <1>5, Zenon
<1>7. k = [i \in 0 .. n |-> IF i = 0 THEN <<>> ELSE k[i - 1] \o At(i - 1)]
  BY <1>6
<1> HIDE DEF k
<1>8. k[0] = <<>> /\ \A i \in 0 .. FrameLen - 2 : k[i + 1] = k[i] \o At(i)
  <2>1. 0 \in 0 .. n
    BY <1>0
  <2>2. ASSUME NEW i \in 0 .. FrameLen - 2 PROVE k[i + 1] = k[i] \o At(i)
    <3>1. i + 1 \in 0 .. n /\ i + 1 # 0 /\ (i + 1) - 1 = i
      BY Sizes
    <3> HIDE DEF n
    <3> QED BY <1>7, <3>1
  <2> QED BY <1>7, <2>1, <2>2
<1>11. k \in [0 .. n -> S]
  <2> DEFINE G == {i \in 0 .. n : k[i] \in S}
  <2>1. 0 \in G
    BY <1>0, <1>8, <1>9
  <2>2. ASSUME NEW i \in 1 .. n, i - 1 \in G PROVE i \in G
    <3>1. i - 1 \in 0 .. FrameLen - 2 /\ (i - 1) + 1 = i /\ i \in 0 .. n
      BY Sizes
    <3>2. k[i] = k[i - 1] \o At(i - 1)
      BY <1>8, <3>1
    <3> HIDE DEF n
    <3> QED BY <2>2, <3>1, <3>2, <1>1, <1>10
  <2>3. 0 .. n \subseteq G
    <3> HIDE DEF G, n
    <3> QED BY <2>1, <2>2, <1>0, InductUpTo
  <2> QED BY <1>7, <2>3
<1> QED BY <1>2, <1>8, <1>11 DEF Builds, S, At

------------------------------------------------------------------------------
(* What the demultiplexer gave, out, is what was meant, up, from its (k+1)-th *)
(* byte on; the k bytes before are those of the stream before the first       *)
(* change that took effect. `same`: it knew that stream; `silent`: it had     *)
(* none.                                                                      *)
Plainly(b) == [id |-> b.id, byte |-> b.byte]
Tails(out, up, k) ==
  /\ k \in 0 .. Len(up) /\ Len(out) >= Len(up) - k
  /\ \A n \in 0 .. Len(up) - k - 1 : out[Len(out) - n] = Plainly(up[Len(up) - n])
GivenFrom(k, out, up, sure, same, silent, eff) ==
  /\ Tails(out, up, k)
  /\ \A i \in 1 .. k : up[i].said = sure
  /\ same => k = 0 /\ Len(out) = Len(up)
  /\ silent => Len(out) = Len(up) - k
  /\ ~same /\ ~eff => k = Len(up)
Given(out, up, sure, same, silent, eff) ==
  \E k \in 0 .. Len(up) : GivenFrom(k, out, up, sure, same, silent, eff)

LEMMA OneMore ==
  ASSUME NEW S, NEW s \in Seq(S), NEW x \in S
  PROVE  /\ s \o <<x>> \in Seq(S) /\ Len(s \o <<x>>) = Len(s) + 1
         /\ (s \o <<x>>)[Len(s) + 1] = x
         /\ \A i \in 1 .. Len(s) : (s \o <<x>>)[i] = s[i]
OBVIOUS

LEMMA NoMore == ASSUME NEW S, NEW s \in Seq(S) PROVE s \o <<>> = s
OBVIOUS

\* Both go on with the same byte.
LEMMA BothGoOn ==
  ASSUME NEW out \in Seq(Traced), NEW up \in Seq(Meant), NEW x \in Meant,
         NEW sure, NEW same, NEW silent, NEW eff, NEW eff2, eff => eff2, eff2 \/ same,
         Given(out, up, sure, same, silent, eff)
  PROVE  Given(out \o <<Plainly(x)>>, up \o <<x>>, sure, same, silent, eff2)
<1> DEFINE y == Plainly(x)
           o == out \o <<y>>
           u == up \o <<x>>
<1>1. PICK k \in 0 .. Len(up) : GivenFrom(k, out, up, sure, same, silent, eff)
  BY DEF Given
<1>2. y \in Traced
  BY DEF Plainly, Meant, Traced
<1> HIDE DEF y
<1>3. Len(o) = Len(out) + 1 /\ o[Len(out) + 1] = y /\ \A i \in 1 .. Len(out) : o[i] = out[i]
  BY <1>2, OneMore
<1>4. Len(u) = Len(up) + 1 /\ u[Len(up) + 1] = x /\ \A i \in 1 .. Len(up) : u[i] = up[i]
  BY OneMore
<1>5. Len(out) \in Nat /\ Len(up) \in Nat
  OBVIOUS
<1> HIDE DEF o, u
<1>6. Len(out) >= Len(up) - k /\ Len(o) >= Len(u) - k /\ k \in 0 .. Len(u)
  BY <1>1, <1>3, <1>4, <1>5 DEF GivenFrom, Tails
<1>7. ASSUME NEW n \in 0 .. Len(u) - k - 1 PROVE o[Len(o) - n] = Plainly(u[Len(u) - n])
  <2>1. CASE n = 0
    BY <1>3, <1>4, <1>5, <2>1 DEF y
  <2>2. CASE n # 0
    <3>1. n - 1 \in 0 .. Len(up) - k - 1
      BY <1>4, <1>5, <2>2
    <3>2. out[Len(out) - (n - 1)] = Plainly(up[Len(up) - (n - 1)])
      BY <1>1, <3>1 DEF GivenFrom, Tails
    <3>3. /\ Len(o) - n = Len(out) - (n - 1) /\ Len(u) - n = Len(up) - (n - 1)
          /\ Len(out) - (n - 1) \in 1 .. Len(out) /\ Len(up) - (n - 1) \in 1 .. Len(up)
      BY <1>3, <1>4, <1>5, <1>6, <3>1
    <3> QED BY <1>3, <1>4, <3>2, <3>3
  <2> QED BY <2>1, <2>2
<1>8. \A i \in 1 .. k : u[i].said = sure
  BY <1>1, <1>4, <1>5 DEF GivenFrom
<1>9. GivenFrom(k, o, u, sure, same, silent, eff2)
  <2>1. Tails(o, u, k)
    BY <1>6, <1>7 DEF Tails
  <2>2. same => k = 0 /\ Len(o) = Len(u)
    BY <1>1, <1>3, <1>4 DEF GivenFrom
  <2>3. silent => Len(o) = Len(u) - k
    BY <1>1, <1>3, <1>4, <1>5 DEF GivenFrom
  <2> QED BY <1>8, <2>1, <2>2, <2>3 DEF GivenFrom
<1> QED BY <1>6, <1>9 DEF Given, o, u, y

\* No stream change has taken effect, and the stream was not known.
LEMMA EachGoesOn ==
  ASSUME NEW out \in Seq(Traced), NEW up \in Seq(Meant), NEW a \in Seq(Traced), NEW b \in Seq(Meant),
         NEW sure, NEW same, NEW silent, NEW eff, NEW eff2, ~same, ~eff,
         silent => a = <<>>, \A i \in 1 .. Len(b) : b[i].said = sure,
         Given(out, up, sure, same, silent, eff)
  PROVE  Given(out \o a, up \o b, sure, same, silent, eff2)
<1> DEFINE o == out \o a
           u == up \o b
<1>1. PICK k \in 0 .. Len(up) : GivenFrom(k, out, up, sure, same, silent, eff)
  BY DEF Given
<1>2. k = Len(up) /\ (silent => Len(out) = 0)
  <2>1. Len(up) \in Nat
    OBVIOUS
  <2>2. k = Len(up)
    BY <1>1 DEF GivenFrom
  <2> QED BY <1>1, <2>1, <2>2 DEF GivenFrom
<1>3. u \in Seq(Meant) /\ Len(u) = Len(up) + Len(b) /\ Len(u) \in Nat
      /\ o \in Seq(Traced) /\ Len(o) = Len(out) + Len(a) /\ Len(o) \in Nat
  OBVIOUS
<1>4. ASSUME NEW i \in 1 .. Len(u) PROVE u[i].said = sure
  <2>1. CASE i <= Len(up)
    <3>1. u[i] = up[i] /\ i \in 1 .. k
      BY <1>2, <2>1
    <3> QED BY <1>1, <3>1 DEF GivenFrom
  <2>2. CASE ~(i <= Len(up))
    <3>1. u[i] = b[i - Len(up)] /\ i - Len(up) \in 1 .. Len(b)
      BY <1>3, <2>2
    <3> QED BY <3>1
  <2> QED BY <2>1, <2>2
<1>5. silent => Len(o) = 0
  <2>1. silent => Len(a) = 0
    OBVIOUS
  <2> QED BY <1>2, <1>3, <2>1
<1> HIDE DEF o, u
<1>6. GivenFrom(Len(u), o, u, sure, same, silent, eff2)
  <2>1. 0 .. Len(u) - Len(u) - 1 = {} /\ Len(u) - Len(u) = 0 /\ Len(u) \in 0 .. Len(u)
    BY <1>3
  <2>2. Tails(o, u, Len(u))
    BY <1>3, <2>1 DEF Tails
  <2> QED BY <1>4, <1>5, <2>1, <2>2 DEF GivenFrom
<1>7. Len(u) \in 0 .. Len(u)
  BY <1>3
<1> QED BY <1>6, <1>7 DEF Given, o, u

(* With T the stream changes that have taken effect, the code in stream c     *)
(* before the frame and the formatter in stream `stream`.                     *)
Gives(out, up, sure, stream, c, T) == Given(out, up, sure, c = stream, c = 0, T # {})

LEMMA GivesMore ==
  ASSUME NEW out, NEW up, NEW sure, NEW stream, NEW c, NEW T, NEW U, T \subseteq U,
         Gives(out, up, sure, stream, c, T)
  PROVE  Gives(out, up, sure, stream, c, U)
<1>1. PICK k \in 0 .. Len(up) : GivenFrom(k, out, up, sure, c = stream, c = 0, T # {})
  BY DEF Gives, Given
<1>2. T # {} => U # {}
  OBVIOUS
<1>3. GivenFrom(k, out, up, sure, c = stream, c = 0, U # {})
  BY <1>1, <1>2 DEF GivenFrom
<1> QED BY <1>3 DEF Gives, Given

\* A data byte at a position, for which the code has the stream c, or one announced.
LEMMA BytePut ==
  ASSUME NEW evens \in [0 .. Pairs - 1 -> Evens], NEW odds \in [0 .. Pairs - 2 -> Data],
         NEW stream \in Ids, NEW sure \in BOOLEAN, NEW pos \in 0 .. FrameLen - 2,
         IsData(evens, pos), NEW c \in 0 .. 127, NEW now \in 0 .. 127,
         now = Latest(Announced(evens, pos), evens, c),
         NEW out \in Seq(Traced), NEW up \in Seq(Meant),
         NEW T0, T0 \subseteq Announced(evens, pos), Gives(out, up, sure, stream, c, T0)
  PROVE  Gives(out \o Put(now, DataByte(evens, odds, pos)),
               up \o MeaningAt(evens, odds, stream, sure, pos), sure, stream, c,
               Announced(evens, pos))
<1> DEFINE T == Announced(evens, pos)
           eff == T0 # {}
           id == StreamAt(evens, stream, pos)
           byte == DataByte(evens, odds, pos)
           x == [id |-> id, byte |-> byte, said |-> sure \/ T # {}]
           b == MeaningAt(evens, odds, stream, sure, pos)
           a == Put(now, byte)
<1>0. (eff => T # {}) /\ Given(out, up, sure, c = stream, c = 0, eff)
  BY DEF Gives
<1> HIDE DEF eff
<1>1. id = Latest(T, evens, stream) /\ id \in 0 .. 126 /\ byte \in Bytes
  BY StreamIsLatest, StreamType, IdsAssumption, DataType
<1>2. b = IF id # 0 THEN <<x>> ELSE <<>>
  BY DEF MeaningAt
<1>3. x \in Meant /\ Plainly(x) = [id |-> id, byte |-> byte]
  BY <1>1 DEF Meant, Plainly
<1>4. a \in Seq(Traced) /\ b \in Seq(Meant)
  <2>1. a \in Seq(Traced)
    BY <1>1, PutIs
  <2>2. b \in Seq(Meant)
    BY MeaningAtType
  <2> QED BY <2>1, <2>2
<1>5. CASE T # {} \/ c = stream
  <2>1. now = id
    BY <1>1, <1>5 DEF Latest
  <2>2. CASE id = 0
    <3>1. a = <<>> /\ b = <<>>
      BY <1>2, <2>1, <2>2 DEF Put
    <3> HIDE DEF a, b, T
    <3>2. out \o a = out /\ up \o b = up
      BY <3>1, NoMore
    <3>3. Given(out, up, sure, c = stream, c = 0, T # {})
      <4>1. PICK k \in 0 .. Len(up) : GivenFrom(k, out, up, sure, c = stream, c = 0, eff)
        BY <1>0 DEF Given
      <4>2. GivenFrom(k, out, up, sure, c = stream, c = 0, T # {})
        BY <1>5, <4>1 DEF GivenFrom
      <4> QED BY <4>2 DEF Given
    <3> QED BY <3>2, <3>3 DEF a, b, T, Gives
  <2>3. CASE id # 0
    <3>1. a = <<Plainly(x)>> /\ b = <<x>>
      BY <1>2, <1>3, <2>1, <2>3 DEF Put
    <3> DEFINE same == c = stream
               silent == c = 0
               known == T # {}
    <3>3. Given(out, up, sure, same, silent, eff) /\ (eff => known) /\ (known \/ same)
      BY <1>0, <1>5
    <3> HIDE DEF a, b, T, x, same, silent, known
    <3>4. x \in Meant
      BY <1>3
    <3>5. Given(out \o <<Plainly(x)>>, up \o <<x>>, sure, same, silent, known)
      BY <3>3, <3>4, BothGoOn
    <3> QED BY <3>1, <3>5 DEF a, b, T, same, silent, known, Gives
  <2> QED BY <2>2, <2>3
<1>6. CASE T = {} /\ c # stream
  <2>1. ~eff /\ now = c
    BY <1>0, <1>6 DEF Latest
  <2>2. c = 0 => a = <<>>
    BY <2>1 DEF Put
  <2>3. \A i \in 1 .. Len(b) : b[i].said = sure
    <3>1. CASE b = <<x>>
      <4>1. x.said = sure
        BY <1>6
      <4> HIDE DEF x, b
      <4> QED BY <3>1, <4>1
    <3>2. CASE b = <<>>
      <4> HIDE DEF b
      <4> QED BY <3>2
    <3> QED BY <1>2, <3>1, <3>2
  <2> HIDE DEF a, b
  <2>4. Given(out \o a, up \o b, sure, c = stream, c = 0, T # {})
    <3> DEFINE same == c = stream
               silent == c = 0
               known == T # {}
    <3>1. /\ Given(out, up, sure, same, silent, eff) /\ ~same /\ ~eff /\ (silent => a = <<>>)
          /\ a \in Seq(Traced) /\ b \in Seq(Meant)
      BY <1>0, <1>4, <1>6, <2>1, <2>2
    <3> HIDE DEF T, same, silent, known
    <3>2. Given(out \o a, up \o b, sure, same, silent, known)
      BY <2>3, <3>1, EachGoesOn
    <3> QED BY <3>2 DEF same, silent, known
  <2> QED BY <2>4 DEF a, b, T, Gives
<1> QED BY <1>5, <1>6
------------------------------------------------------------------------------
\* The stream changes of the half-words before the j-th.
Changes(evens, j) == {i \in 0 .. j - 1 : evens[i].change}

LEMMA ChangesAre ==
  ASSUME NEW evens \in [0 .. Pairs - 1 -> Evens], NEW j \in 0 .. Pairs - 1
  PROVE  /\ Changes(evens, j) \in SUBSET (0 .. Pairs - 1)
         /\ Changes(evens, j) \subseteq 0 .. j - 1
         /\ evens[j].change => Changes(evens, j + 1) = Changes(evens, j) \cup {j}
         /\ ~evens[j].change => /\ Changes(evens, j + 1) = Changes(evens, j)
                                /\ Announced(evens, 2 * j) = Changes(evens, j)
         /\ Announced(evens, 2 * j + 1) =
              IF evens[j].change /\ evens[j].flag = 0 THEN Changes(evens, j) \cup {j}
              ELSE Changes(evens, j)
<1>0. Pairs \in Nat
  BY Sizes
<1>1. \A i \in 0 .. Pairs - 1 : evens[i].change \in BOOLEAN /\ evens[i].flag \in {0, 1}
  BY EvenIs
<1>2. \A i \in 0 .. j - 1 : i \in 0 .. Pairs - 1
  BY <1>0
<1>3. evens[j].change => Changes(evens, j + 1) = Changes(evens, j) \cup {j}
  BY DEF Changes
<1>4. ~evens[j].change => Changes(evens, j + 1) = Changes(evens, j)
  BY DEF Changes
<1>5. ASSUME ~evens[j].change PROVE Announced(evens, 2 * j) = Changes(evens, j)
  <2>1. ASSUME NEW i \in 0 .. Pairs - 1, evens[i].change
        PROVE  2 * i + 2 * evens[i].flag <= 2 * j <=> i \in 0 .. j - 1
    <3>1. i # j /\ evens[i].flag \in {0, 1}
      BY <1>1, <1>5, <2>1
    <3> DEFINE g == evens[i].flag
    <3>2. g \in {0, 1}
      BY <3>1
    <3> HIDE DEF g
    <3>3. 2 * i + 2 * g <= 2 * j <=> i \in 0 .. j - 1
      BY <1>0, <3>1, <3>2
    <3> QED BY <3>3 DEF g
  <2> QED BY <1>2, <2>1 DEF Announced, Changes
<1>6. ASSUME NEW i \in 0 .. Pairs - 1, evens[i].change
      PROVE  2 * i + 2 * evens[i].flag <= 2 * j + 1 <=> i \in 0 .. j - 1 \/ (i = j /\ evens[i].flag = 0)
  <2> DEFINE g == evens[i].flag
  <2>1. g \in {0, 1}
    BY <1>1
  <2> HIDE DEF g
  <2>2. 2 * i + 2 * g <= 2 * j + 1 <=> i \in 0 .. j - 1 \/ (i = j /\ g = 0)
    BY <1>0, <2>1
  <2> QED BY <2>2 DEF g
<1>7. CASE evens[j].change /\ evens[j].flag = 0
  <2>1. Announced(evens, 2 * j + 1) = Changes(evens, j) \cup {j}
    BY <1>2, <1>6, <1>7 DEF Announced, Changes
  <2> QED BY <1>2, <1>3, <1>4, <1>5, <1>7, <2>1 DEF Changes
<1>8. CASE ~(evens[j].change /\ evens[j].flag = 0)
  <2>1. Announced(evens, 2 * j + 1) = Changes(evens, j)
    BY <1>2, <1>6, <1>8 DEF Announced, Changes
  <2> QED BY <1>2, <1>3, <1>4, <1>5, <1>8, <2>1 DEF Changes
<1> QED BY <1>7, <1>8

LEMMA AllChanges ==
  ASSUME NEW evens \in [0 .. Pairs - 1 -> Evens]
  PROVE  /\ Changes(evens, 0) = {} /\ Announced(evens, FrameLen) = Changes(evens, Pairs)
<1>1. Changes(evens, 0) = {}
  BY DEF Changes
<1>2. ASSUME NEW i \in 0 .. Pairs - 1 PROVE 2 * i + 2 * evens[i].flag <= FrameLen
  <2> DEFINE g == evens[i].flag
  <2>1. g \in {0, 1}
    BY EvenIs
  <2> HIDE DEF g
  <2>2. 2 * i + 2 * g <= FrameLen
    BY Sizes, <2>1
  <2> QED BY <2>2 DEF g
<1> QED BY <1>1, <1>2 DEF Announced, Changes
\* The positions that the first j half-words cover.
Covered(j) == IF j = Pairs THEN FrameLen - 1 ELSE 2 * j

LEMMA LatestNow ==
  ASSUME NEW evens \in [0 .. Pairs - 1 -> Evens], NEW c, NEW j \in 0 .. Pairs - 1
  PROVE  Latest(Changes(evens, j) \cup {j}, evens, c) = evens[j].value
<1> DEFINE T == Changes(evens, j) \cup {j}
<1>1. T \in SUBSET (0 .. Pairs - 1) /\ j \in T
  BY ChangesAre
<1>2. \A k \in T : k <= j
  <2>1. \A k \in Changes(evens, j) : k \in 0 .. j - 1
    BY ChangesAre
  <2>2. \A k \in 0 .. j - 1 : k <= j
    OBVIOUS
  <2> HIDE DEF T
  <2>3. \A k \in T : k \in Changes(evens, j) \/ k = j
    BY DEF T
  <2> QED BY <2>1, <2>2, <2>3, Sizes
<1> HIDE DEF T
<1>3. Latest(T, evens, c) = evens[j].value
  BY <1>1, <1>2, LatestIs
<1> QED BY <1>3 DEF T

LEMMA LatestType ==
  ASSUME NEW evens \in [0 .. Pairs - 1 -> Evens], NEW c \in 0 .. 127,
         NEW T \in SUBSET (0 .. Pairs - 1), \A i \in T : evens[i].change
  PROVE  Latest(T, evens, c) \in 0 .. 127
<1>1. CASE T = {}
  BY <1>1 DEF Latest
<1>2. CASE T # {}
  <2>1. PICK m \in T : Latest(T, evens, c) = evens[m].value
    BY <1>2, LatestIsOne
  <2>2. evens[m].value \in 0 .. 126
    BY <2>1, EvenIs
  <2> QED BY <2>1, <2>2
<1> QED BY <1>1, <1>2

\* The second byte of a half-word, if it is not the last of the frame.
LEMMA OddMeans ==
  ASSUME NEW evens \in [0 .. Pairs - 1 -> Evens], NEW odds \in [0 .. Pairs - 2 -> Data],
         NEW stream \in Ids, NEW sure \in BOOLEAN, NEW c \in 0 .. 127, NEW up,
         Builds(up, evens, odds, stream, sure), NEW j \in 0 .. Pairs - 2, NEW now \in 0 .. 127,
         now = Latest(Announced(evens, 2 * j + 1), evens, c), NEW out \in Seq(Traced),
         Gives(out, up[2 * j + 1], sure, stream, c, Changes(evens, j))
  PROVE  Gives(out \o Put(now, odds[j]), up[2 * j + 2], sure, stream, c, Changes(evens, j + 1))
<1> DEFINE pos == 2 * j + 1
           u == up[2 * j + 1]
           m == MeaningAt(evens, odds, stream, sure, pos)
           A == Announced(evens, pos)
<1>1. /\ pos \in 0 .. FrameLen - 2 /\ pos + 1 = 2 * j + 2 /\ pos \in 0 .. FrameLen - 1
      /\ pos % 2 = 1 /\ pos \div 2 = j /\ j \in 0 .. Pairs - 1
  BY Sizes
<1>2. IsData(evens, pos) /\ DataByte(evens, odds, pos) = odds[j]
  BY <1>1 DEF IsData, DataByte
<1>3. up[2 * j + 2] = u \o m /\ u \in Seq(Meant)
  BY <1>1 DEF Builds
<1>4. Changes(evens, j) \subseteq A /\ A \subseteq Changes(evens, j + 1)
  <2>1. /\ evens[j].change => Changes(evens, j + 1) = Changes(evens, j) \cup {j}
        /\ ~evens[j].change => Changes(evens, j + 1) = Changes(evens, j)
        /\ A = IF evens[j].change /\ evens[j].flag = 0 THEN Changes(evens, j) \cup {j}
               ELSE Changes(evens, j)
    BY <1>1, ChangesAre
  <2> DEFINE C == Changes(evens, j)
             D == Changes(evens, j + 1)
  <2> HIDE DEF A, C, D
  <2>2. \/ D = C \cup {j} /\ (A = C \/ A = C \cup {j})
        \/ D = C /\ A = C
    BY <2>1 DEF C, D
  <2> QED BY <2>2 DEF C, D
<1> HIDE DEF u, m
<1>5. Gives(out \o Put(now, DataByte(evens, odds, pos)), u \o m, sure, stream, c, A)
  <2>1. Gives(out, u, sure, stream, c, Changes(evens, j)) /\ now = Latest(A, evens, c)
    BY DEF u
  <2> HIDE DEF pos
  <2> QED BY <1>1, <1>2, <1>3, <1>4, <2>1, BytePut DEF m
<1> HIDE DEF pos, A
<1> QED BY <1>2, <1>3, <1>4, <1>5, GivesMore

(* After j half-words: the flags left, the stream, and what was given.        *)
Known(s, j, flags, evens, up, sure, stream, c) ==
  /\ s \in Shifted /\ s.lowbits = flags
  /\ s.cur = Latest(Changes(evens, j), evens, c)
  /\ Gives(s.out, up[Covered(j)], sure, stream, c, Changes(evens, j))

LEMMA HalfWordMeans ==
  ASSUME NEW evens \in [0 .. Pairs - 1 -> Evens], NEW odds \in [0 .. Pairs - 2 -> Data],
         NEW stream \in Ids, NEW sure \in BOOLEAN, NEW c \in 0 .. 127, NEW up,
         Builds(up, evens, odds, stream, sure), NEW j \in 0 .. Pairs - 1, NEW s, NEW flags,
         Known(s, j, flags, evens, up, sure, stream, c), flags % 2 = evens[j].flag,
         NEW t, t = HalfWord(FrameBytes(evens, odds), j, s)
  PROVE  Known(t, j + 1, flags \div 2, evens, up, sure, stream, c)
<1> DEFINE f == FrameBytes(evens, odds)
           e == evens[j]
           even == f[2 * j + 1]
           odd == f[2 * j + 2]
           flag == s.lowbits % 2
           now == StreamNow(even, flag, s.cur)
           a == IF IsChange(even) THEN <<>> ELSE Put(now, even + flag)
           b == IF j < Pairs - 1 THEN Put(now, odd) ELSE <<>>
           n == IF IsChange(even) THEN even \div 2 ELSE now
           T == Changes(evens, j)
<1>15. s \in Shifted /\ s.lowbits = flags /\ s.cur = Latest(T, evens, c)
  BY DEF Known
<1>16. Gives(s.out, up[2 * j], sure, stream, c, Changes(evens, j))
  <2>1. Covered(j) = 2 * j
    BY Sizes DEF Covered
  <2> QED BY <2>1 DEF Known
<1>17. t \in Shifted
  BY <1>15, FrameIs, HalfWordType
<1>0. t = [lowbits |-> s.lowbits \div 2, cur |-> n, out |-> s.out \o a \o b]
  BY DEF HalfWord
<1>1. e \in Evens /\ even = EvenByte(e) /\ flag = e.flag
  BY <1>15, FrameIs
<1>2. s.cur \in 0 .. 127 /\ s.out \in Seq(Traced)
  BY <1>15 DEF Shifted
<1>3. j < Pairs - 1 => odd = odds[j] /\ j \in 0 .. Pairs - 2
  <2>1. j < Pairs - 1 => j \in 0 .. Pairs - 2
    BY Sizes
  <2> QED BY <2>1, FrameIs
<1>4. /\ 2 * j \in 0 .. FrameLen - 2 /\ 2 * j + 1 \in 0 .. FrameLen - 1
      /\ (2 * j) % 2 # 1 /\ (2 * j) \div 2 = j /\ 2 * j \in 0 .. FrameLen - 1
  BY Sizes
<1>5. up[2 * j + 1] = up[2 * j] \o MeaningAt(evens, odds, stream, sure, 2 * j)
      /\ up[2 * j] \in Seq(Meant) /\ up[2 * j + 1] \in Seq(Meant)
  BY <1>4 DEF Builds
<1> HIDE DEF f, even, odd, flag
<1>6. IsData(evens, 2 * j) <=> ~e.change
  BY <1>4 DEF IsData
<1>7. /\ now \in 0 .. 127 /\ now = Latest(Announced(evens, 2 * j + 1), evens, c)
      /\ n = Latest(Changes(evens, j + 1), evens, c)
  <2>1. CASE e.change
    <3>1. IsChange(even) /\ even \div 2 = e.value /\ e.value \in 0 .. 126
      BY <1>1, <2>1, EvenIs
    <3>2. Latest(T \cup {j}, evens, c) = e.value
      BY LatestNow
    <3>3. CASE e.flag = 0
      <4>1. now = e.value /\ n = e.value
        BY <1>1, <3>1, <3>3 DEF StreamNow
      <4>2. Announced(evens, 2 * j + 1) = T \cup {j} /\ Changes(evens, j + 1) = T \cup {j}
        BY <2>1, <3>3, ChangesAre
      <4>3. e.value \in 0 .. 127
        BY <3>1
      <4> DEFINE A == Announced(evens, 2 * j + 1)
                 C == Changes(evens, j + 1)
                 v == e.value
      <4> HIDE DEF now, n, T, A, C, v
      <4>4. now = v /\ n = v /\ A = T \cup {j} /\ C = T \cup {j} /\ v \in 0 .. 127
            /\ Latest(T \cup {j}, evens, c) = v
        BY <3>2, <4>1, <4>2, <4>3 DEF A, C, v
      <4>5. now \in 0 .. 127 /\ now = Latest(A, evens, c) /\ n = Latest(C, evens, c)
        BY <4>4, Zenon
      <4> QED BY <4>5 DEF A, C
    <3>4. CASE e.flag # 0
      <4>1. now = s.cur /\ n = e.value
        BY <1>1, <3>1, <3>4 DEF StreamNow
      <4>2. Announced(evens, 2 * j + 1) = T /\ Changes(evens, j + 1) = T \cup {j}
        BY <2>1, <3>4, ChangesAre
      <4>3. s.cur = Latest(T, evens, c)
        BY <1>15
      <4> HIDE DEF now, n, T
      <4> QED BY <1>2, <3>2, <4>1, <4>2, <4>3
    <3> QED BY <3>3, <3>4
  <2>2. CASE ~e.change
    <3>1. ~IsChange(even)
      BY <1>1, <2>2, EvenIs
    <3>2. now = s.cur /\ n = s.cur
      BY <3>1 DEF StreamNow
    <3>3. Announced(evens, 2 * j + 1) = T /\ Changes(evens, j + 1) = T
      BY <2>2, ChangesAre
    <3>4. s.cur = Latest(T, evens, c)
      BY <1>15
    <3> HIDE DEF now, n, T
    <3> QED BY <1>2, <3>2, <3>3, <3>4
  <2> QED BY <2>1, <2>2
<1> HIDE DEF n
<1>8. s.out \o a \in Seq(Traced) /\ Gives(s.out \o a, up[2 * j + 1], sure, stream, c, T)
  <2>1. CASE e.change
    <3>1. a = <<>> /\ MeaningAt(evens, odds, stream, sure, 2 * j) = <<>>
      BY <1>1, <1>6, <2>1, EvenIs DEF MeaningAt
    <3> DEFINE u == up[2 * j]
               v == up[2 * j + 1]
    <3>2. v = u /\ s.out \o a = s.out
      <4> HIDE DEF a
      <4>1. s.out \o a = s.out
        BY <1>2, <3>1
      <4>2. u \o <<>> = u
        BY <1>5
      <4> QED BY <1>5, <3>1, <4>1, <4>2
    <3>3. Gives(s.out, u, sure, stream, c, T)
      BY <1>16
    <3> HIDE DEF a, u, v, T
    <3>4. Gives(s.out \o a, v, sure, stream, c, T)
      BY <3>2, <3>3
    <3> QED BY <1>2, <3>2, <3>4 DEF v
  <2>2. CASE ~e.change
    <3>1. ~IsChange(even) /\ even = e.value
      BY <1>1, <2>2, EvenIs
    <3>2. DataByte(evens, odds, 2 * j) = even + flag
      BY <1>1, <1>4, <3>1 DEF DataByte
    <3>3. Announced(evens, 2 * j) = T
      BY <2>2, ChangesAre
    <3>4. now = Latest(Announced(evens, 2 * j), evens, c)
      BY <1>15, <3>1, <3>3 DEF StreamNow
    <3> HIDE DEF now
    <3>5. Gives(s.out \o Put(now, DataByte(evens, odds, 2 * j)),
                up[2 * j] \o MeaningAt(evens, odds, stream, sure, 2 * j), sure, stream, c,
                Announced(evens, 2 * j))
      <4> DEFINE u == up[2 * j]
                 pos == 2 * j
      <4>1. u \in Seq(Meant) /\ pos \in 0 .. FrameLen - 2 /\ Gives(s.out, u, sure, stream, c, T)
        BY <1>4, <1>5, <1>16
      <4> HIDE DEF u, T, pos
      <4>2. IsData(evens, pos) /\ now = Latest(Announced(evens, pos), evens, c)
            /\ T \subseteq Announced(evens, pos)
        BY <1>6, <2>2, <3>3, <3>4 DEF pos
      <4>3. Gives(s.out \o Put(now, DataByte(evens, odds, pos)),
                  u \o MeaningAt(evens, odds, stream, sure, pos), sure, stream, c,
                  Announced(evens, pos))
        BY <1>2, <1>7, <4>1, <4>2, BytePut
      <4> QED BY <4>3 DEF u, pos
    <3>6. a = Put(now, even + flag)
      BY <3>1
    <3>7. DataByte(evens, odds, 2 * j) \in Bytes
      BY <1>4, <1>6, <2>2, DataType
    <3>8. a \in Seq(Traced)
      BY <1>7, <3>2, <3>6, <3>7, PutIs
    <3> HIDE DEF a, T
    <3> QED BY <1>2, <1>5, <3>2, <3>3, <3>5, <3>6, <3>8
  <2> QED BY <2>1, <2>2
<1>9. Gives(s.out \o a \o b, up[Covered(j + 1)], sure, stream, c, Changes(evens, j + 1))
  <2>1. CASE j < Pairs - 1
    <3>1. j \in 0 .. Pairs - 2 /\ odd = odds[j] /\ b = Put(now, odds[j])
      BY <1>3, <2>1
    <3>2. Covered(j + 1) = 2 * j + 2
      BY <3>1, Sizes DEF Covered
    <3> HIDE DEF a, b, now
    <3>3. Gives((s.out \o a) \o Put(now, odds[j]), up[2 * j + 2], sure, stream, c,
                Changes(evens, j + 1))
      <4> DEFINE o == s.out \o a
      <4>1. o \in Seq(Traced) /\ Gives(o, up[2 * j + 1], sure, stream, c, Changes(evens, j))
        BY <1>8
      <4> HIDE DEF o
      <4>2. Gives(o \o Put(now, odds[j]), up[2 * j + 2], sure, stream, c, Changes(evens, j + 1))
        BY <1>7, <3>1, <4>1, OddMeans
      <4> QED BY <4>2 DEF o
    <3> QED BY <3>1, <3>2, <3>3
  <2>2. CASE ~(j < Pairs - 1)
    <3>1. b = <<>> /\ Covered(j + 1) = 2 * j + 1
      BY <2>2, Sizes DEF Covered
    <3>2. T \subseteq Changes(evens, j + 1)
      BY ChangesAre
    <3> HIDE DEF a, b, now, T
    <3>3. (s.out \o a) \o b = s.out \o a
      BY <1>8, <3>1
    <3>4. Gives(s.out \o a, up[2 * j + 1], sure, stream, c, Changes(evens, j + 1))
      BY <1>8, <3>2, GivesMore
    <3> QED BY <3>1, <3>3, <3>4
  <2> QED BY <2>1, <2>2
<1> HIDE DEF a, b, now
<1>18. t.lowbits = flags \div 2 /\ t.cur = n /\ t.out = s.out \o a \o b
  BY <1>0, <1>15
<1> QED BY <1>7, <1>9, <1>17, <1>18 DEF Known
LEMMA NothingGiven ==
  ASSUME NEW sure, NEW stream, NEW c, NEW T
  PROVE  Gives(<<>>, <<>>, sure, stream, c, T)
<1>1. Len(<<>>) = 0
  OBVIOUS
<1>2. 0 \in 0 .. 0 /\ 0 .. (0 - 0) - 1 = {} /\ 0 >= 0 - 0 /\ 0 = 0 - 0 /\ 1 .. 0 = {}
  OBVIOUS
<1>3. Tails(<<>>, <<>>, 0)
  BY <1>1, <1>2 DEF Tails
<1>4. GivenFrom(0, <<>>, <<>>, sure, c = stream, c = 0, T # {})
  BY <1>1, <1>2, <1>3 DEF GivenFrom
<1> QED BY <1>1, <1>2, <1>4 DEF Gives, Given

LEMMA PacketMeans ==
  ASSUME NEW evens \in [0 .. Pairs - 1 -> Evens], NEW odds \in [0 .. Pairs - 2 -> Data],
         NEW stream \in Ids, NEW sure \in BOOLEAN, NEW c \in 0 .. 127
  PROVE  LET packet == GetPacket(FrameBytes(evens, odds), c)
             m == Meaning(evens, odds, stream, sure)
         IN /\ packet.cur = StreamAt(evens, c, FrameLen)
            /\ packet.out \in Seq(Traced) /\ m \in Seq(Meant)
            /\ Gives(packet.out, m, sure, stream, c, Announced(evens, FrameLen))
<1> DEFINE f == FrameBytes(evens, odds)
<1>1. f \in Seq(Bytes) /\ Len(f) = FrameLen /\ f[FrameLen] = Flags(evens)
  BY FrameIs
<1> HIDE DEF f
<1>2. PICK after : Shifts(after, f, c) /\ GetPacket(f, c) = after[Pairs]
  BY <1>1, PacketIs
<1>3. PICK up : Builds(up, evens, odds, stream, sure)
                /\ Meaning(evens, odds, stream, sure) = up[FrameLen - 1]
  BY MeaningIs
<1>4. PICK last : IsFlags(last, evens) /\ Flags(evens) = last[Pairs]
  BY FlagsAre
<1> DEFINE At(j) == Known(after[j], j, last[Pairs - j], evens, up, sure, stream, c)
           G == {j \in 0 .. Pairs : At(j)}
<1>5. At(0)
  <2>1. after[0].lowbits = f[FrameLen] /\ after[0].cur = c /\ after[0].out = <<>>
    BY <1>2 DEF Shifts, FirstShifted
  <2>2. Covered(0) = 0 /\ Pairs - 0 = Pairs
    BY Sizes DEF Covered
  <2>3. up[0] = <<>> /\ Latest(Changes(evens, 0), evens, c) = c
    BY <1>3, AllChanges DEF Builds, Latest
  <2>4. after[0].lowbits = last[Pairs - 0]
    BY <1>1, <1>4, <2>1, <2>2
  <2>5. Gives(after[0].out, up[Covered(0)], sure, stream, c, Changes(evens, 0))
    BY <2>1, <2>2, <2>3, NothingGiven
  <2>6. after[0] \in Shifted
    <3>1. 0 \in 0 .. Pairs
      BY Sizes
    <3> QED BY <1>2, <3>1 DEF Shifts
  <2> QED BY <2>1, <2>3, <2>4, <2>5, <2>6 DEF Known
<1>6. ASSUME NEW j \in 0 .. Pairs - 1, At(j) PROVE At(j + 1)
  <2>1. j \in 0 .. Pairs
    BY Sizes
  <2>2. after[j + 1] = HalfWord(FrameBytes(evens, odds), j, after[j])
    BY <1>2 DEF Shifts, f
  <2>3. last[Pairs - j] % 2 = evens[j].flag /\ last[Pairs - j] \div 2 = last[Pairs - (j + 1)]
    BY <1>4, FlagsShift
  <2>4. Builds(up, evens, odds, stream, sure)
    BY <1>3
  <2> DEFINE flags == last[Pairs - j]
             s == after[j]
             t == after[j + 1]
  <2>5. Known(s, j, flags, evens, up, sure, stream, c)
    BY <1>6
  <2>6. t = HalfWord(FrameBytes(evens, odds), j, s) /\ flags % 2 = evens[j].flag
    BY <2>2, <2>3
  <2>7. flags \div 2 = last[Pairs - (j + 1)]
    BY <2>3
  <2> HIDE DEF flags, s, t
  <2>8. Known(t, j + 1, flags \div 2, evens, up, sure, stream, c)
    BY <2>4, <2>5, <2>6, HalfWordMeans
  <2> QED BY <2>7, <2>8 DEF t
<1>7. Pairs \in G
  <2>1. 0 \in G
    BY <1>5, Sizes
  <2>2. ASSUME NEW j \in 1 .. Pairs, j - 1 \in G PROVE j \in G
    <3>1. j - 1 \in 0 .. Pairs - 1 /\ (j - 1) + 1 = j /\ j \in 0 .. Pairs
      BY Sizes
    <3>2. At(j - 1)
      BY <2>2
    <3> HIDE DEF At
    <3>3. At((j - 1) + 1)
      BY <1>6, <3>1, <3>2
    <3>4. At(j)
      BY <3>1, <3>3
    <3> QED BY <3>1, <3>4
  <2> HIDE DEF G
  <2>3. 0 .. Pairs \subseteq G
    BY <2>1, <2>2, Sizes, InductUpTo
  <2> QED BY <2>3, Sizes
<1>8. At(Pairs)
  BY <1>7
<1>9. Covered(Pairs) = FrameLen - 1 /\ Changes(evens, Pairs) = Announced(evens, FrameLen)
  BY AllChanges DEF Covered
<1>10. after[Pairs] \in Shifted /\ up[FrameLen - 1] \in Seq(Meant)
  <2>1. Pairs \in 0 .. Pairs /\ FrameLen - 1 \in 0 .. FrameLen - 1
    BY Sizes
  <2> QED BY <1>2, <1>3, <2>1 DEF Shifts, Builds
<1>11. after[Pairs].cur = StreamAt(evens, c, FrameLen)
  BY <1>8, <1>9, StreamIsLatest DEF Known
<1>12. after[Pairs].out \in Seq(Traced)
  BY <1>10 DEF Shifted
<1>13. Gives(after[Pairs].out, up[FrameLen - 1], sure, stream, c, Announced(evens, FrameLen))
  BY <1>8, <1>9 DEF Known
<1> QED BY <1>2, <1>3, <1>10, <1>11, <1>12, <1>13 DEF f
(* The bytes that were meant with a stream said are given, if the code knew   *)
(* what had been said; and if it knew the stream, or had none, it gave        *)
(* nothing else.                                                              *)
LEMMA GivenFinds ==
  ASSUME NEW out \in Seq(Traced), NEW m \in Seq(Meant), NEW sure \in BOOLEAN, NEW stream, NEW c,
         NEW T, Gives(out, m, sure, stream, c, T)
  PROVE  /\ (sure => c = stream) =>
              \A n \in 0 .. Len(m) - 1 : m[Len(m) - n].said =>
                n < Len(out) /\ out[Len(out) - n] = Plainly(m[Len(m) - n])
         /\ c \in {0, stream} =>
              Len(out) <= Len(m) /\ \A n \in 0 .. Len(out) - 1 :
                n < Len(out) /\ out[Len(out) - n] = Plainly(m[Len(m) - n])
<1>1. PICK k \in 0 .. Len(m) : GivenFrom(k, out, m, sure, c = stream, c = 0, T # {})
  BY DEF Gives, Given
<1>2. /\ Tails(out, m, k) /\ \A i \in 1 .. k : m[i].said = sure
      /\ c = stream => k = 0 /\ Len(out) = Len(m)
      /\ c = 0 => Len(out) = Len(m) - k
  BY <1>1 DEF GivenFrom
<1>3. Len(m) \in Nat /\ Len(out) \in Nat /\ k \in 0 .. Len(m)
  OBVIOUS
<1>4. ASSUME NEW n \in 0 .. Len(m) - k - 1
      PROVE  n < Len(out) /\ out[Len(out) - n] = Plainly(m[Len(m) - n])
  BY <1>2, <1>3 DEF Tails
<1>5. ASSUME sure => c = stream, NEW n \in 0 .. Len(m) - 1, m[Len(m) - n].said
      PROVE  n \in 0 .. Len(m) - k - 1
  <2>1. CASE n < Len(m) - k
    BY <1>3, <2>1
  <2>2. CASE ~(n < Len(m) - k)
    <3>1. Len(m) - n \in 1 .. k
      BY <1>3, <2>2
    <3>2. sure
      BY <1>2, <1>5, <3>1
    <3>3. k = 0
      BY <1>2, <1>5, <3>2
    <3> QED BY <1>3, <3>1, <3>3
  <2> QED BY <2>1, <2>2
<1>6. ASSUME c \in {0, stream}
      PROVE  Len(out) <= Len(m) /\ \A n \in 0 .. Len(out) - 1 : n \in 0 .. Len(m) - k - 1
  <2>1. Len(out) = Len(m) - k
    <3>1. CASE c = 0
      BY <1>2, <3>1
    <3>2. CASE c = stream
      BY <1>2, <1>3, <3>2
    <3> QED BY <1>6, <3>1, <3>2
  <2> QED BY <1>3, <2>1
<1>7. (sure => c = stream) =>
        \A n \in 0 .. Len(m) - 1 : m[Len(m) - n].said =>
          n < Len(out) /\ out[Len(out) - n] = Plainly(m[Len(m) - n])
  BY <1>4, <1>5
<1>8. c \in {0, stream} =>
        Len(out) <= Len(m) /\ \A n \in 0 .. Len(out) - 1 :
          n < Len(out) /\ out[Len(out) - n] = Plainly(m[Len(m) - n])
  BY <1>4, <1>6
<1> QED BY <1>7, <1>8

IsSeq(w) == \E S : w \in Seq(S)
Held == Len(rxed) + (IF low = NoByte THEN 0 ELSE 1)

\* What is left of a frame of which `held` bytes are collected. Counted from its
\* end, every second byte is a stream change or a data byte without its low bit.
FirstsPlain(w) == \A i \in 1 .. Len(w) : (Len(w) - i) % 2 = 1 => w[i] \notin {255, NoByte}
RestOfFrame(w, held) == IsSeq(w) /\ FirstsPlain(w) /\ Len(w) + held \in {0, FrameLen}

\* A full sync is under way, and what has arrived of it was noticed.
SyncComing ==
  \/ wire = <<255, 255, 255, 127>>
  \/ wire = <<255, 255, 127>> /\ ffs >= 1
  \/ wire = <<255, 127>> /\ ffs >= 2
  \/ wire = <<127>> /\ ffs = 3

\* In step with the formatter: before a byte of a frame, before a half sync, in one.
InFrame ==
  /\ RestOfFrame(wire, Held) /\ ffs <= 1
  /\ low # NoByte => low # 255 /\ ffs = 0
HalfSyncComing(w) ==
  wire = <<255, 127>> \o w /\ RestOfFrame(w, Len(rxed)) /\ low = NoByte /\ ffs <= 1
InHalfSync(w) == wire = <<127>> \o w /\ RestOfFrame(w, Len(rxed)) /\ low = 255 /\ ffs <= 2
InStep == synced /\ (InFrame \/ \E w : HalfSyncComing(w) \/ InHalfSync(w))

HalfWords == IsSeq(rxed) /\ Len(rxed) % 2 = 0 /\ Len(rxed) < FrameLen
AlignInv == ffs \in 0 .. 3 /\ HalfWords /\ (intact => SyncComing \/ InStep)

LEMMA OneMoreIsOdd == ASSUME NEW n \in Nat, n % 2 = 0 PROVE (1 + n) % 2 = 1
OBVIOUS

LEMMA RestIsEven ==
  ASSUME NEW n \in Nat, NEW held \in Nat, held % 2 = 0, n + held \in {0, FrameLen}
  PROVE  n % 2 = 0
BY FrameAssumption

LEMMA LengthIsNat == ASSUME NEW w, IsSeq(w) PROVE Len(w) \in Nat
BY DEF IsSeq

(* The rest of a frame without its first byte is the rest of a frame.         *)
LEMMA RestShrinks ==
  ASSUME NEW w, NEW held \in Nat, RestOfFrame(w, held), w # <<>>
  PROVE  /\ RestOfFrame(Tail(w), held + 1)
         /\ Len(Tail(w)) = Len(w) - 1
         /\ Len(w) + held = FrameLen
<1>1. PICK S : w \in Seq(S)
  BY DEF RestOfFrame, IsSeq
<1>2. Len(w) \in Nat /\ Len(w) > 0 /\ Tail(w) \in Seq(S) /\ Len(Tail(w)) = Len(w) - 1
  BY <1>1
<1>3. \A i \in 1 .. Len(Tail(w)) : Tail(w)[i] = w[i + 1] /\ i + 1 \in 1 .. Len(w)
  BY <1>1, <1>2
<1>4. \A i \in 1 .. Len(Tail(w)) : Len(Tail(w)) - i = Len(w) - (i + 1)
  BY <1>2
<1>5. FirstsPlain(Tail(w))
  <2> SUFFICES ASSUME NEW i \in 1 .. Len(Tail(w)), (Len(Tail(w)) - i) % 2 = 1
               PROVE  Tail(w)[i] \notin {255, NoByte}
    BY DEF FirstsPlain
  <2> QED BY <1>3, <1>4 DEF RestOfFrame, FirstsPlain
<1>6. Len(w) + held = FrameLen
  BY <1>2 DEF RestOfFrame
<1>7. IsSeq(Tail(w))
  BY <1>2 DEF IsSeq
<1>8. Len(Tail(w)) + (held + 1) = FrameLen
  BY <1>2, <1>6, FrameAssumption
<1> QED BY <1>2, <1>5, <1>6, <1>7, <1>8 DEF RestOfFrame

(* A half sync in front of something, and what is left of it.                 *)
LEMMA HalfSyncAhead ==
  ASSUME NEW w, IsSeq(w)
  PROVE  /\ <<255, 127>> \o w # <<>> /\ <<127>> \o w # <<>>
         /\ Head(<<255, 127>> \o w) = 255 /\ Tail(<<255, 127>> \o w) = <<127>> \o w
         /\ Head(<<127>> \o w) = 127 /\ Tail(<<127>> \o w) = w
         /\ Len(<<127>> \o w) = 1 + Len(w)
<1>1. PICK S : w \in Seq(S)
  BY DEF IsSeq
<1> DEFINE T == S \union {255, 127}
<1>3. w \in Seq(T)
  BY <1>1
<1>4. <<255, 127>> \in Seq(T) /\ <<127>> \in Seq(T)
  OBVIOUS
<1>5. Len(w) \in Nat /\ \A i \in 1 .. Len(w) : w[i] \in T
  BY <1>3
<1> DEFINE a == <<255, 127>> \o w  b == <<127>> \o w
<1>6. /\ a \in Seq(T) /\ Len(a) = Len(w) + 2 /\ a[1] = 255 /\ a[2] = 127
      /\ \A i \in 1 .. Len(w) : a[i + 2] = w[i]
  BY <1>3, <1>4, <1>5
<1>7. b \in Seq(T) /\ Len(b) = Len(w) + 1 /\ b[1] = 127 /\ \A i \in 1 .. Len(w) : b[i + 1] = w[i]
  BY <1>3, <1>4, <1>5
<1> HIDE DEF a, b, T
<1>8. a # <<>> /\ b # <<>> /\ Head(a) = 255 /\ Head(b) = 127
  BY <1>5, <1>6, <1>7
<1>9. Tail(a) = b
  <2>1. Tail(a) \in Seq(T) /\ Len(Tail(a)) = Len(b) /\ Len(b) \in Nat
    BY <1>5, <1>6, <1>7, <1>8
  <2>2. ASSUME NEW i \in 1 .. Len(b) PROVE Tail(a)[i] = b[i]
    <3>1. Tail(a)[i] = a[i + 1]
      BY <1>5, <1>6, <1>7, <1>8, <2>1
    <3>2. CASE i = 1
      BY <1>6, <1>7, <3>1, <3>2
    <3>3. CASE i # 1
      <4>1. i - 1 \in 1 .. Len(w)
        BY <1>5, <1>7, <3>3
      <4>2. a[(i - 1) + 2] = w[i - 1] /\ b[(i - 1) + 1] = w[i - 1]
        BY <4>1, <1>6, <1>7
      <4>3. (i - 1) + 2 = i + 1 /\ (i - 1) + 1 = i
        BY <1>5, <1>7
      <4> QED BY <3>1, <4>2, <4>3
    <3> QED BY <3>2, <3>3
  <2> QED BY <2>1, <2>2, <1>7
<1>10. Tail(b) = w
  <2>1. Tail(b) \in Seq(T) /\ Len(Tail(b)) = Len(w)
    BY <1>5, <1>7, <1>8
  <2>2. \A i \in 1 .. Len(w) : Tail(b)[i] = b[i + 1]
    BY <1>5, <1>7, <1>8, <2>1
  <2> QED BY <1>3, <1>7, <2>1, <2>2
<1> QED BY <1>5, <1>7, <1>8, <1>9, <1>10 DEF a, b

(* What the formatter puts at an even position is neither 0xFF nor no byte.   *)
LEMMA EvenBytesArePlain == ASSUME NEW e \in Evens PROVE EvenByte(e) \notin {255, NoByte}
BY EvenIs DEF NoByte

LEMMA FramesAreFrames ==
  ASSUME NEW evens \in [0 .. Pairs - 1 -> Evens], NEW odds \in [0 .. Pairs - 2 -> Data]
  PROVE  RestOfFrame(FrameBytes(evens, odds), 0)
<1> DEFINE f == FrameBytes(evens, odds)
<1>1. f \in Seq(Bytes) /\ Len(f) = FrameLen
  BY FrameIs
<1>2. ASSUME NEW i \in 1 .. FrameLen, (FrameLen - i) % 2 = 1
      PROVE  f[i] \notin {255, NoByte}
  <2>1. (i - 1) \div 2 \in 0 .. Pairs - 1 /\ i = 2 * ((i - 1) \div 2) + 1
    BY <1>2, Sizes
  <2>2. f[i] = EvenByte(evens[(i - 1) \div 2])
    BY <2>1, FrameIs
  <2> QED BY <2>1, <2>2, EvenBytesArePlain
<1> HIDE DEF f
<1>3. RestOfFrame(f, 0)
  BY <1>1, <1>2, Sizes DEF RestOfFrame, FirstsPlain, IsSeq
<1> QED BY <1>3 DEF f

LEMMA NothingIsNoFrame == RestOfFrame(<<>>, 0)
<1>1. <<>> \in Seq({}) /\ Len(<<>>) = 0
  OBVIOUS
<1> QED BY <1>1 DEF RestOfFrame, IsSeq, FirstsPlain

(* In step and nothing under way: between two frames.                         *)
LEMMA BetweenFrames ==
  ASSUME InStep, HalfWords, wire = <<>>
  PROVE  InFrame /\ Len(rxed) = 0 /\ rxed = <<>> /\ low = NoByte
<1>1. \A w : ~HalfSyncComing(w) /\ ~InHalfSync(w)
  <2>1. \A w : IsSeq(w) => <<255, 127>> \o w # <<>> /\ <<127>> \o w # <<>>
    BY DEF IsSeq
  <2> QED BY <2>1 DEF HalfSyncComing, InHalfSync, RestOfFrame
<1>2. InFrame
  BY <1>1 DEF InStep
<1>3. Held \in {0, FrameLen}
  <2>1. Len(wire) = 0
    OBVIOUS
  <2> QED BY <1>2, <2>1, LengthIsNat DEF InFrame, RestOfFrame, Held, HalfWords
<1>4. Len(rxed) = 0 /\ low = NoByte
  BY <1>3, LengthIsNat, FrameAssumption DEF Held, HalfWords
<1>5. rxed = <<>>
  BY <1>4 DEF HalfWords, IsSeq
<1> QED BY <1>2, <1>4, <1>5

(* The capture starts with no sync seen.                                      *)
LEMMA AlignedAtStart == Init => AlignInv
<1> SUFFICES ASSUME Init PROVE AlignInv
  OBVIOUS
<1>1. <<>> \in Seq({}) /\ Len(<<>>) = 0
  OBVIOUS
<1> QED BY <1>1, FrameAssumption DEF Init, AlignInv, HalfWords, IsSeq

(* A frame, a sync or a half sync is put on the wire in step.                 *)
LEMMA FramePut ==
  ASSUME AlignInv, intact, Frame
  PROVE  InFrame /\ rxed = <<>> /\ low = NoByte /\ synced' /\ InFrame'
<1>1. InStep /\ wire = <<>>
  BY DEF AlignInv, Frame, SyncComing
<1>2. InFrame /\ Len(rxed) = 0 /\ rxed = <<>> /\ low = NoByte /\ synced
  BY <1>1, BetweenFrames DEF AlignInv, InStep
<1>3. RestOfFrame(wire', 0)
  BY FramesAreFrames DEF Frame
<1>4. Held' = 0 /\ ffs' <= 1 /\ low' = NoByte /\ synced'
  BY <1>2 DEF Held, InFrame, Frame, demux
<1> QED BY <1>2, <1>3, <1>4 DEF InFrame

LEMMA FrameKeeps == AlignInv /\ Frame => AlignInv'
<1> SUFFICES ASSUME AlignInv, Frame PROVE AlignInv'
  OBVIOUS
<1>1. AlignInv!1' /\ HalfWords' /\ intact' = intact
  BY DEF AlignInv, HalfWords, Frame, demux
<1>2. intact => InStep'
  BY FramePut DEF InStep
<1> QED BY <1>1, <1>2 DEF AlignInv

LEMMA SyncKeeps == AlignInv /\ Sync => AlignInv'
BY DEF AlignInv, HalfWords, Sync, SyncComing, demux

\* A half sync is put between two half-words only.
LEMMA HalfSyncPut ==
  ASSUME AlignInv, intact, HalfSync, NEW w, w = wire
  PROVE  /\ InFrame /\ low = NoByte /\ synced' /\ HalfSyncComing(w)'
         /\ ~SyncComing /\ \A v : ~HalfSyncComing(v) /\ ~InHalfSync(v)
<1>. DEFINE Guard == Len(wire) % 2 = 0 /\ (wire # <<>> => Head(wire) # 255)
<1>0. Guard
  BY DEF HalfSync
<1>3. ~SyncComing
  <2>1. /\ Head(<<255, 255, 255, 127>>) = 255 /\ <<255, 255, 255, 127>> # <<>>
        /\ Head(<<255, 127>>) = 255 /\ <<255, 127>> # <<>>
        /\ Len(<<255, 255, 127>>) = 3 /\ Len(<<127>>) = 1
    OBVIOUS
  <2>2. wire # <<255, 255, 127>> /\ wire # <<127>>
    <3>1. 3 % 2 # 0 /\ 1 % 2 # 0
      OBVIOUS
    <3>2. Len(wire) # 3 /\ Len(wire) # 1
      BY <1>0, <3>1
    <3> QED BY <2>1, <3>2
  <2>3. wire # <<255, 255, 255, 127>> /\ wire # <<255, 127>>
    BY <1>0, <2>1
  <2> QED BY <2>2, <2>3 DEF SyncComing
<1>4. \A v : ~HalfSyncComing(v)
  <2> SUFFICES ASSUME NEW v, IsSeq(v), wire = <<255, 127>> \o v PROVE FALSE
    BY DEF HalfSyncComing, RestOfFrame
  <2>1. wire # <<>> /\ Head(wire) = 255
    BY HalfSyncAhead
  <2> QED BY <1>0, <2>1
<1>5. \A v : ~InHalfSync(v)
  <2> DEFINE Ends(u) == wire = <<127>> \o u
  <2> SUFFICES ASSUME NEW v, RestOfFrame(v, Len(rxed)), Ends(v) PROVE FALSE
    BY DEF InHalfSync
  <2>1. Len(v) \in Nat /\ Len(v) % 2 = 0
    <3>1. Len(v) \in Nat /\ Len(rxed) \in Nat
      BY LengthIsNat DEF AlignInv, HalfWords, RestOfFrame
    <3> QED BY <3>1, RestIsEven DEF AlignInv, HalfWords, RestOfFrame
  <2>2. Len(wire) = 1 + Len(v)
    BY HalfSyncAhead DEF RestOfFrame
  <2>3. Len(wire) % 2 = 1
    BY <2>1, <2>2, OneMoreIsOdd
  <2> QED BY <1>0, <2>3
<1>6. InFrame /\ synced
  BY <1>3, <1>4, <1>5 DEF AlignInv, InStep
<1>7. low = NoByte
  <2> SUFFICES ASSUME low # NoByte PROVE FALSE
    OBVIOUS
  <2>1. Len(wire) \in Nat /\ Len(wire) + Len(rxed) + 1 = FrameLen
    BY <1>6, LengthIsNat DEF InFrame, RestOfFrame, Held, AlignInv, HalfWords
  <2> QED BY <2>1, LengthIsNat, <1>0, FrameAssumption DEF AlignInv, HalfWords
<1>8. RestOfFrame(wire, Len(rxed)) /\ ffs <= 1
  BY <1>6, <1>7, LengthIsNat DEF InFrame, Held, AlignInv, HalfWords
<1>9. wire' = <<255, 127>> \o wire /\ UNCHANGED <<rxed, low, ffs, synced>>
  BY DEF HalfSync, demux
<1>10. HalfSyncComing(w)'
  BY <1>7, <1>8, <1>9 DEF HalfSyncComing
<1> QED BY <1>3, <1>4, <1>5, <1>6, <1>7, <1>9, <1>10

LEMMA HalfSyncKeeps == AlignInv /\ HalfSync => AlignInv'
<1> SUFFICES ASSUME AlignInv, HalfSync PROVE AlignInv'
  OBVIOUS
<1>1. AlignInv!1' /\ HalfWords' /\ intact' = intact
  BY DEF AlignInv, HalfWords, HalfSync, demux
<1>2. PICK w : w = wire
  OBVIOUS
<1>3. intact => synced' /\ HalfSyncComing(w)'
  BY <1>2, HalfSyncPut
<1> QED BY <1>1, <1>3 DEF AlignInv, InStep

LEMMA LoseKeeps == AlignInv /\ Lose => AlignInv'
BY DEF AlignInv, HalfWords, Lose, demux

(* A pair of bytes collected makes a half-word of the frame, or completes it. *)
LEMMA PairCollected ==
  ASSUME HalfWords, NEW d, HalfWordDone(d), ~(low = 255 /\ d = 127)
  PROVE  /\ HalfWords' /\ low' = NoByte /\ synced' = synced
         /\ Len(rxed') = IF Len(rxed) + 2 = FrameLen THEN 0 ELSE Len(rxed) + 2
<1> DEFINE frame == rxed \o <<low, d>>
<1>1. PICK S : rxed \in Seq(S)
  BY DEF HalfWords, IsSeq
<1>2. frame \in Seq(S \union {low, d}) /\ Len(frame) = Len(rxed) + 2 /\ Len(rxed) \in Nat
  <2>1. rxed \in Seq(S \union {low, d}) /\ <<low, d>> \in Seq(S \union {low, d})
    BY <1>1
  <2> QED BY <2>1
<1>3. rxed' = (IF Len(frame) = FrameLen THEN <<>> ELSE frame) /\ low' = NoByte /\ synced' = synced
  BY DEF HalfWordDone, IsWhole
<1>4. <<>> \in Seq({}) /\ Len(<<>>) = 0
  OBVIOUS
<1>5. IsSeq(rxed')
  BY <1>2, <1>3, <1>4 DEF IsSeq
<1>6. Len(rxed') = IF Len(rxed) + 2 = FrameLen THEN 0 ELSE Len(rxed) + 2
  BY <1>2, <1>3, <1>4
<1>7. (Len(rxed) + 2) % 2 = 0 /\ Len(rxed) + 2 <= FrameLen
  BY <1>2, FrameAssumption DEF HalfWords
<1>8. Len(rxed') % 2 = 0 /\ Len(rxed') < FrameLen
  <2>1. CASE Len(rxed) + 2 = FrameLen
    BY <1>6, <2>1, FrameAssumption
  <2>2. CASE Len(rxed) + 2 # FrameLen
    <3>1. Len(rxed') = Len(rxed) + 2
      BY <1>6, <2>2
    <3>2. Len(rxed) + 2 < FrameLen
      BY <1>2, <1>7, <2>2, FrameAssumption
    <3> QED BY <1>7, <3>1, <3>2
  <2> QED BY <2>1, <2>2
<1> QED BY <1>3, <1>5, <1>6, <1>8 DEF HalfWords

(* Whatever byte comes, the collected bytes stay half-words of one frame.     *)
LEMMA ByteCollects == AlignInv /\ Byte => ffs' \in 0 .. 3 /\ HalfWords'
<1> SUFFICES ASSUME AlignInv, Byte PROVE ffs' \in 0 .. 3 /\ HalfWords'
  OBVIOUS
<1> DEFINE d == Head(wire)
<1>1. ffs' \in 0 .. 3
  BY DEF AlignInv, Byte
<1>2. CASE rxed' = rxed
  BY <1>1, <1>2 DEF AlignInv, HalfWords
<1>3. CASE rxed' = <<>>
  <2>1. <<>> \in Seq({}) /\ Len(<<>>) = 0
    OBVIOUS
  <2> QED BY <1>1, <1>3, <2>1, FrameAssumption DEF HalfWords, IsSeq
<1>4. CASE HalfWordDone(d) /\ ~(low = 255 /\ d = 127)
  BY <1>1, <1>4, PairCollected DEF AlignInv
<1>5. \/ rxed' = rxed \/ rxed' = <<>>
      \/ HalfWordDone(d) /\ ~(low = 255 /\ d = 127)
  BY DEF Byte, Resync, HalfWordDone
<1> QED BY <1>2, <1>3, <1>4, <1>5

(* The sync is recognised at its end, whatever state it met.                  *)
LEMMA ByteOfSync == AlignInv /\ Byte /\ SyncComing => SyncComing' \/ InStep'
<1> SUFFICES ASSUME AlignInv, Byte, SyncComing PROVE SyncComing' \/ InStep'
  OBVIOUS
<1> DEFINE d == Head(wire)
<1>1. /\ wire' = Tail(wire)
      /\ ffs' = IF d # 255 THEN 0 ELSE IF ffs = 3 THEN 3 ELSE ffs + 1
  BY DEF Byte
<1>2. CASE wire = <<255, 255, 255, 127>>
  <2>1. d = 255 /\ Tail(wire) = <<255, 255, 127>>
    BY <1>2
  <2> QED BY <1>1, <2>1 DEF SyncComing, AlignInv
<1>3. CASE wire = <<255, 255, 127>> /\ ffs >= 1
  <2>1. d = 255 /\ Tail(wire) = <<255, 127>>
    BY <1>3
  <2> QED BY <1>1, <1>3, <2>1 DEF SyncComing, AlignInv
<1>4. CASE wire = <<255, 127>> /\ ffs >= 2
  <2>1. d = 255 /\ Tail(wire) = <<127>>
    BY <1>4
  <2> QED BY <1>1, <1>4, <2>1 DEF SyncComing, AlignInv
<1>5. CASE wire = <<127>> /\ ffs = 3
  <2>1. d = 127 /\ Tail(wire) = <<>> /\ Len(<<>>) = 0
    BY <1>5
  <2>2. synced' = TRUE /\ rxed' = <<>> /\ low' = NoByte
    BY <1>5, <2>1 DEF Byte, IsSync, Resync
  <2>3. wire' = <<>> /\ ffs' = 0 /\ Held' = 0
    BY <1>1, <2>1, <2>2 DEF Held
  <2> QED BY <2>2, <2>3, NothingIsNoFrame DEF InStep, InFrame
<1> QED BY <1>2, <1>3, <1>4, <1>5 DEF SyncComing

(* The first byte of a half-word is kept, the second completes it.            *)
LEMMA ByteOfFrame == AlignInv /\ Byte /\ synced /\ InFrame => synced' /\ InFrame'
<1> SUFFICES ASSUME AlignInv, Byte, synced, InFrame PROVE synced' /\ InFrame'
  OBVIOUS
<1> DEFINE d == Head(wire)
<1>1. /\ wire' = Tail(wire) /\ wire # <<>> /\ ~IsSync(d)
      /\ ffs' = IF d # 255 THEN 0 ELSE IF ffs = 3 THEN 3 ELSE ffs + 1
  BY DEF Byte, InFrame, IsSync, AlignInv
<1>2. Len(rxed) \in Nat /\ Len(wire) \in Nat /\ Held \in Nat
  BY LengthIsNat DEF AlignInv, HalfWords, InFrame, RestOfFrame, Held
<1>3. /\ RestOfFrame(wire', Held + 1)
      /\ Len(wire') = Len(wire) - 1 /\ Len(wire) + Held = FrameLen
  BY <1>1, <1>2, RestShrinks DEF InFrame
<1>4. CASE low = NoByte
  <2>1. low' = d /\ rxed' = rxed /\ synced'
    BY <1>1, <1>4 DEF Byte
  <2>2. d \notin {255, NoByte}
    <3>1. Len(wire) % 2 = 0 /\ 1 \in 1 .. Len(wire) /\ d = wire[1]
      <4>1. Held = Len(rxed) /\ Held % 2 = 0
        BY <1>2, <1>4 DEF Held, AlignInv, HalfWords
      <4>2. Len(wire) % 2 = 0
        BY <1>2, <1>3, <4>1, RestIsEven
      <4> QED BY <1>1, <1>2, <4>2 DEF InFrame, RestOfFrame, IsSeq
    <3>2. (Len(wire) - 1) % 2 = 1
      BY <3>1, <1>2
    <3> QED BY <3>1, <3>2 DEF InFrame, RestOfFrame, FirstsPlain
  <2>3. Held' = Held + 1 /\ ffs' = 0
    BY <1>1, <1>2, <1>4, <2>1, <2>2 DEF Held
  <2> QED BY <1>3, <2>1, <2>2, <2>3 DEF InFrame
<1>5. CASE low # NoByte
  <2>1. low # 255 /\ ffs = 0 /\ Held = Len(rxed) + 1
    BY <1>5 DEF InFrame, Held
  <2>2. HalfWordDone(d)
    BY <1>1, <1>5 DEF Byte
  <2>3. /\ low' = NoByte /\ synced' = synced
        /\ Len(rxed') = IF Len(rxed) + 2 = FrameLen THEN 0 ELSE Len(rxed) + 2
    BY <2>1, <2>2, PairCollected DEF AlignInv
  <2>4. ffs' <= 1
    BY <1>1, <2>1
  <2>5. RestOfFrame(wire', Held')
    <3>1. CASE Len(rxed) + 2 = FrameLen
      <4>1. Held' = 0 /\ Len(wire') = 0
        BY <1>2, <1>3, <2>1, <2>3, <3>1 DEF Held
      <4> QED BY <1>3, <4>1 DEF RestOfFrame
    <3>2. CASE Len(rxed) + 2 # FrameLen
      <4>1. Held' = Held + 1
        BY <1>2, <2>1, <2>3, <3>2 DEF Held
      <4> QED BY <1>3, <4>1
    <3> QED BY <3>1, <3>2
  <2> QED BY <2>3, <2>4, <2>5 DEF InFrame
<1> QED BY <1>4, <1>5

(* A half sync is taken for nothing else, and is left out.                    *)
LEMMA FirstOfHalfSync ==
  ASSUME AlignInv, Byte, synced, NEW w, HalfSyncComing(w)
  PROVE  synced' /\ rxed' = rxed /\ cur' = cur /\ InHalfSync(w)'
<1> DEFINE d == Head(wire)
<1>1. /\ wire' = Tail(wire)
      /\ ffs' = IF d # 255 THEN 0 ELSE IF ffs = 3 THEN 3 ELSE ffs + 1
  BY DEF Byte
<1>2. wire = <<255, 127>> \o w /\ RestOfFrame(w, Len(rxed)) /\ low = NoByte /\ ffs <= 1
  BY DEF HalfSyncComing
<1>3. d = 255 /\ wire' = <<127>> \o w
  BY <1>1, <1>2, HalfSyncAhead DEF RestOfFrame
<1>4. ~IsSync(d) /\ ffs' <= 2
  BY <1>1, <1>2, <1>3 DEF IsSync, AlignInv
<1>5. low' = 255 /\ rxed' = rxed /\ cur' = cur /\ synced'
  BY <1>2, <1>3, <1>4 DEF Byte
<1> QED BY <1>2, <1>3, <1>4, <1>5 DEF InHalfSync

LEMMA LastOfHalfSync ==
  ASSUME AlignInv, Byte, synced, NEW w, InHalfSync(w)
  PROVE  /\ synced' /\ rxed' = rxed /\ cur' = cur /\ low' = NoByte /\ wire' = w
         /\ got' = Nothing /\ InFrame'
<1> DEFINE d == Head(wire)
<1>1. /\ wire' = Tail(wire)
      /\ ffs' = IF d # 255 THEN 0 ELSE IF ffs = 3 THEN 3 ELSE ffs + 1
  BY DEF Byte
<1>2. wire = <<127>> \o w /\ RestOfFrame(w, Len(rxed)) /\ low = 255 /\ ffs <= 2
  BY DEF InHalfSync
<1>3. d = 127 /\ wire' = w
  BY <1>1, <1>2, HalfSyncAhead DEF RestOfFrame
<1>4. ~IsSync(d) /\ ffs' = 0
  BY <1>1, <1>2, <1>3 DEF IsSync, AlignInv
<1>5. low' = NoByte /\ rxed' = rxed /\ cur' = cur /\ synced' /\ got' = Nothing
  BY <1>2, <1>3, <1>4 DEF Byte, HalfWordDone, NoByte
<1>6. Held' = Len(rxed)
  BY <1>5, LengthIsNat DEF Held, AlignInv, HalfWords
<1> QED BY <1>2, <1>3, <1>4, <1>5, <1>6 DEF InFrame

LEMMA ByteKeeps == AlignInv /\ Byte => AlignInv'
<1> SUFFICES ASSUME AlignInv, Byte PROVE AlignInv'
  OBVIOUS
<1>1. ffs' \in 0 .. 3 /\ HalfWords'
  BY ByteCollects
<1>2. intact' => SyncComing' \/ InStep'
  <2> SUFFICES ASSUME intact PROVE SyncComing' \/ InStep'
    BY DEF Byte
  <2>1. CASE SyncComing
    BY <2>1, ByteOfSync
  <2>2. CASE synced /\ InFrame
    BY <2>2, ByteOfFrame DEF InStep
  <2>3. ASSUME NEW w, synced, HalfSyncComing(w) \/ InHalfSync(w) PROVE InStep'
    BY <2>3, FirstOfHalfSync, LastOfHalfSync DEF InStep
  <2> QED BY <2>1, <2>2, <2>3 DEF AlignInv, InStep
<1> QED BY <1>1, <1>2 DEF AlignInv

LEMMA AlignInvKept == AlignInv /\ [Next]_vars => AlignInv'
<1> SUFFICES ASSUME AlignInv, [Next]_vars PROVE AlignInv'
  OBVIOUS
<1>1. CASE UNCHANGED vars
  BY <1>1 DEF vars, sender, demux, AlignInv, HalfWords, SyncComing, InStep, InFrame,
    HalfSyncComing, InHalfSync, Held
<1> QED BY <1>1, FrameKeeps, SyncKeeps, HalfSyncKeeps, LoseKeeps, ByteKeeps DEF Next

------------------------------------------------------------------------------
(* Types.                                                                     *)
LEMMA PacketType ==
  ASSUME NEW frame \in Seq(Bytes), Len(frame) = FrameLen, NEW c \in 0 .. 127
  PROVE  GetPacket(frame, c).cur \in 0 .. 127 /\ GetPacket(frame, c).out \in Seq(Traced)
<1>1. PICK after : Shifts(after, frame, c) /\ GetPacket(frame, c) = after[Pairs]
  BY PacketIs
<1>2. after[Pairs] \in Shifted
  BY <1>1, Sizes DEF Shifts
<1> QED BY <1>1, <1>2 DEF Shifted

DemuxOK ==
  /\ {synced, got.frame} \subseteq BOOLEAN
  /\ ffs \in 0 .. 3 /\ low \in Bytes \cup {NoByte} /\ cur \in 0 .. 127
  /\ rxed \in Seq(Bytes) /\ Len(rxed) % 2 = 0 /\ Len(rxed) < FrameLen
  /\ got.bytes \in Seq(Traced)
  /\ ~synced => rxed = <<>> /\ low = NoByte /\ cur = 0
LinkOK == wire \in Seq(Bytes) /\ fmtId \in Ids /\ {said, intact, clean} \subseteq BOOLEAN

LEMMA TypesAre == TypeOK <=> LinkOK /\ DemuxOK
BY DEF TypeOK, LinkOK, DemuxOK

LEMMA LinkKeepsType ==
  ASSUME LinkOK, Frame \/ Sync \/ HalfSync \/ Lose
  PROVE  LinkOK'
<1>1. CASE Frame
  <2>1. PICK evens \in [0 .. Pairs - 1 -> Evens], odds \in [0 .. Pairs - 2 -> Data] :
          wire' = FrameBytes(evens, odds) /\ fmtId' = StreamAt(evens, fmtId, FrameLen)
    BY <1>1 DEF Frame
  <2>2. wire' \in Seq(Bytes) /\ fmtId' \in Ids
    BY <2>1, FrameIs, StreamType DEF LinkOK
  <2>3. said' \in BOOLEAN /\ intact' = intact /\ clean' = clean
    BY <1>1 DEF Frame
  <2> QED BY <2>2, <2>3 DEF LinkOK
<1>2. CASE Sync
  <2>1. <<255, 255, 255, 127>> \in Seq(Bytes)
    BY DEF Bytes
  <2> QED BY <1>2, <2>1 DEF LinkOK, Sync
<1>3. CASE HalfSync
  <2>1. <<255, 127>> \in Seq(Bytes)
    BY DEF Bytes
  <2>2. wire' \in Seq(Bytes)
    BY <1>3, <2>1 DEF LinkOK, HalfSync
  <2> QED BY <1>3, <2>2 DEF LinkOK, HalfSync
<1>4. CASE Lose
  <2>1. wire' \in Seq(Bytes)
    BY <1>4 DEF LinkOK, Lose
  <2> QED BY <1>4, <2>1 DEF LinkOK, Lose
<1> QED BY <1>1, <1>2, <1>3, <1>4

LEMMA NothingType == Nothing.frame = FALSE /\ Nothing.bytes \in Seq(Traced)
<1>1. <<>> \in Seq(Traced)
  OBVIOUS
<1> QED BY <1>1 DEF Nothing

LEMMA ByteKeepsType == LinkOK /\ DemuxOK /\ Byte => LinkOK' /\ DemuxOK'
<1> SUFFICES ASSUME LinkOK, DemuxOK, Byte PROVE LinkOK' /\ DemuxOK'
  OBVIOUS
<1> DEFINE d == Head(wire)
<1>1. d \in Bytes /\ wire' \in Seq(Bytes)
  BY DEF LinkOK, Byte
<1>2. LinkOK'
  BY <1>1 DEF LinkOK, Byte
<1>3. ffs' \in 0 .. 3
  BY DEF Byte, DemuxOK
<1>4. CASE IsSync(d)
  <2>1. synced' = TRUE /\ rxed' = <<>> /\ low' = NoByte /\ got' = Nothing /\ cur' = cur
    BY <1>4 DEF Byte, Resync
  <2>2. rxed' \in Seq(Bytes) /\ Len(rxed') = 0
    BY <2>1
  <2>3. Len(rxed') % 2 = 0 /\ Len(rxed') < FrameLen
    BY <2>2, FrameAssumption
  <2>4. {synced', got'.frame} \subseteq BOOLEAN /\ got'.bytes \in Seq(Traced)
    BY <2>1, NothingType
  <2> QED BY <1>2, <1>3, <2>1, <2>2, <2>3, <2>4 DEF DemuxOK
<1>5. CASE ~IsSync(d) /\ (~synced \/ low = NoByte)
  <2>1. /\ synced' = synced /\ rxed' = rxed /\ cur' = cur /\ got' = Nothing
        /\ low' = IF synced THEN d ELSE low
    BY <1>5 DEF Byte
  <2> QED BY <1>1, <1>2, <1>3, <2>1, NothingType DEF DemuxOK
<1>6. CASE ~IsSync(d) /\ synced /\ low # NoByte
  <2>1. HalfWordDone(d)
    BY <1>6 DEF Byte
  <2> DEFINE frame == rxed \o <<low, d>>
  <2>2. low \in Bytes /\ rxed \in Seq(Bytes) /\ Len(rxed) % 2 = 0 /\ Len(rxed) < FrameLen
    BY <1>6 DEF DemuxOK
  <2>3. frame \in Seq(Bytes) /\ Len(frame) = Len(rxed) + 2
    BY <1>1, <2>2
  <2>4. Len(frame) % 2 = 0 /\ Len(frame) <= FrameLen
    BY <2>2, <2>3, FrameAssumption
  <2> HIDE DEF frame
  <2>5. low' = NoByte /\ synced' = synced
    BY <2>1 DEF HalfWordDone
  <2>6. CASE low = 255 /\ d = 127
    <3>1. rxed' = rxed /\ cur' = cur /\ got' = Nothing
      BY <2>1, <2>6 DEF HalfWordDone
    <3> QED BY <1>2, <1>3, <1>6, <2>5, <3>1, NothingType DEF DemuxOK
  <2>7. CASE ~(low = 255 /\ d = 127) /\ ~IsWhole(frame)
    <3>1. rxed' = frame /\ cur' = cur /\ got' = Nothing
      BY <2>1, <2>7 DEF HalfWordDone, frame
    <3>2. Len(frame) < FrameLen
      BY <2>3, <2>4, <2>7, FrameAssumption DEF IsWhole
    <3> QED BY <1>2, <1>3, <1>6, <2>3, <2>4, <2>5, <3>1, <3>2, NothingType DEF DemuxOK
  <2>8. CASE ~(low = 255 /\ d = 127) /\ IsWhole(frame)
    <3> DEFINE packet == GetPacket(frame, cur)
    <3>1. rxed' = <<>> /\ cur' = packet.cur /\ got' = [frame |-> TRUE, bytes |-> packet.out]
      BY <2>1, <2>8 DEF HalfWordDone, frame
    <3>2. packet.cur \in 0 .. 127 /\ packet.out \in Seq(Traced)
      BY <2>3, <2>8, PacketType DEF IsWhole, DemuxOK
    <3> HIDE DEF packet
    <3>3. rxed' \in Seq(Bytes) /\ Len(rxed') = 0 /\ got'.frame = TRUE /\ got'.bytes \in Seq(Traced)
      BY <3>1, <3>2
    <3> QED BY <1>2, <1>3, <1>6, <2>5, <3>1, <3>2, <3>3, FrameAssumption DEF DemuxOK
  <2> QED BY <2>6, <2>7, <2>8
<1> QED BY <1>4, <1>5, <1>6

\* The types at the start of a capture, whatever the formatter said last.
LEMMA TypesAtStart == Init => TypeOK
<1> SUFFICES ASSUME Init PROVE LinkOK /\ DemuxOK
  BY TypesAre
<1>1. <<>> \in Seq(Bytes) /\ Len(<<>>) = 0 /\ <<>> \in Seq(Traced)
  OBVIOUS
<1>2. rxed \in Seq(Bytes) /\ Len(rxed) % 2 = 0 /\ Len(rxed) < FrameLen
  <2>1. 0 % 2 = 0 /\ 0 < FrameLen
    BY FrameAssumption
  <2> QED BY <1>1, <2>1 DEF Init
<1>3. {synced, got.frame} \subseteq BOOLEAN /\ got.bytes \in Seq(Traced)
  BY NothingType DEF Init
<1>4. DemuxOK
  BY <1>2, <1>3 DEF Init, DemuxOK
<1> QED BY <1>1, <1>4 DEF Init, LinkOK

\* No step spoils the types.
LEMMA TypesKept == TypeOK /\ [Next]_vars => TypeOK'
<1> SUFFICES ASSUME LinkOK, DemuxOK, [Next]_vars PROVE TypeOK'
  BY TypesAre
<1>1. (LinkOK /\ DemuxOK)'
  <2>1. CASE Frame \/ Sync \/ HalfSync \/ Lose
    <3>1. UNCHANGED demux
      BY <2>1 DEF Frame, Sync, HalfSync, Lose
    <3>2. DemuxOK'
      BY <3>1 DEF demux, DemuxOK
    <3> QED BY <2>1, <3>2, LinkKeepsType
  <2>2. CASE Byte
    BY <2>2, ByteKeepsType
  <2>3. CASE UNCHANGED vars
    BY <2>3 DEF vars, sender, demux, LinkOK, DemuxOK
  <2> QED BY <2>1, <2>2, <2>3 DEF Next
<1> QED BY <1>1 DEF TypeOK, LinkOK, DemuxOK

(* The types, and that between two bytes of a capture the code never holds a  *)
(* whole frame, and nothing at all before the first sync.                     *)
THEOREM TypeCorrect == Spec => []TypeOK
BY TypesAtStart, TypesKept, PTL DEF Spec

------------------------------------------------------------------------------
(* Before the first sync of a capture that lost nothing, no sync is seen.     *)
Flows ==
  \/ FirstsPlain(wire) /\ ffs <= 1 /\ (Len(wire) % 2 = 1 => ffs = 0)
  \/ \E w \in Seq(Bytes) :
       /\ Len(w) % 2 = 0 /\ FirstsPlain(w)
       /\ \/ wire = <<255, 127>> \o w /\ ffs <= 1
          \/ wire = <<127>> \o w /\ ffs <= 2
FlowInv == clean /\ ~intact => ~synced /\ got = Nothing /\ Flows

LEMMA FirstsShrink ==
  ASSUME NEW S, NEW w \in Seq(S), w # <<>>, FirstsPlain(w)
  PROVE  FirstsPlain(Tail(w)) /\ Len(Tail(w)) = Len(w) - 1 /\ Len(w) \in Nat /\ Len(w) > 0
<1>1. Len(w) \in Nat /\ Len(w) > 0 /\ Tail(w) \in Seq(S) /\ Len(Tail(w)) = Len(w) - 1
  OBVIOUS
<1>2. \A i \in 1 .. Len(Tail(w)) :
        Tail(w)[i] = w[i + 1] /\ i + 1 \in 1 .. Len(w) /\ Len(Tail(w)) - i = Len(w) - (i + 1)
  BY <1>1
<1> QED BY <1>1, <1>2 DEF FirstsPlain

LEMMA FlowKeeps == TypeOK /\ FlowInv /\ [Next]_vars => FlowInv'
<1> SUFFICES ASSUME TypeOK, FlowInv, [Next]_vars, clean', ~intact'
             PROVE  ~synced' /\ got' = Nothing /\ Flows'
  BY DEF FlowInv
<1>0. wire \in Seq(Bytes) /\ ffs \in 0 .. 3
  BY DEF TypeOK
<1>1. ASSUME NEW w \in Seq(Bytes)
      PROVE  /\ <<255, 127>> \o w # <<>> /\ <<127>> \o w # <<>>
             /\ Head(<<255, 127>> \o w) = 255 /\ Tail(<<255, 127>> \o w) = <<127>> \o w
             /\ Head(<<127>> \o w) = 127 /\ Tail(<<127>> \o w) = w
             /\ Len(<<127>> \o w) = 1 + Len(w) /\ Len(w) \in Nat
  <2>1. IsSeq(w)
    BY DEF IsSeq
  <2> QED BY <2>1, HalfSyncAhead
<1>2. CASE Frame
  <2>1. clean /\ ~intact /\ wire = <<>>
    BY <1>2 DEF Frame
  <2>2. ffs <= 1
    <3>1. \A w \in Seq(Bytes) : wire # <<255, 127>> \o w /\ wire # <<127>> \o w
      BY <1>1, <2>1
    <3> QED BY <2>1, <3>1 DEF FlowInv, Flows
  <2>3. PICK evens \in [0 .. Pairs - 1 -> Evens], odds \in [0 .. Pairs - 2 -> Data] :
          wire' = FrameBytes(evens, odds)
    BY <1>2 DEF Frame
  <2>4. FirstsPlain(wire') /\ Len(wire') % 2 # 1
    BY <2>3, FramesAreFrames, FrameIs, FrameAssumption DEF RestOfFrame
  <2>5. UNCHANGED <<synced, ffs, got>>
    BY <1>2 DEF Frame, demux
  <2> QED BY <2>1, <2>2, <2>4, <2>5 DEF FlowInv, Flows
<1>3. CASE HalfSync
  <2>1. clean /\ ~intact /\ wire' = <<255, 127>> \o wire /\ UNCHANGED <<synced, ffs, got>>
    BY <1>3 DEF HalfSync, demux
  <2> DEFINE Guard == Len(wire) % 2 = 0 /\ (wire # <<>> => Head(wire) # 255)
  <2>2. Guard
    BY <1>3 DEF HalfSync
  <2>3. \A w \in Seq(Bytes) : Len(w) % 2 = 0 => wire # <<255, 127>> \o w /\ wire # <<127>> \o w
    <3>1. \A w \in Seq(Bytes) : wire # <<255, 127>> \o w
      BY <1>1, <2>2
    <3> DEFINE Ends(u) == wire = <<127>> \o u
    <3>2. ASSUME NEW w \in Seq(Bytes), Len(w) % 2 = 0, Ends(w) PROVE FALSE
      <4>1. Len(wire) = 1 + Len(w) /\ Len(w) \in Nat
        BY <1>1, <3>2
      <4>2. Len(wire) % 2 = 1
        BY <3>2, <4>1, OneMoreIsOdd
      <4> QED BY <2>2, <4>2
    <3> QED BY <3>1, <3>2
  <2>4. FirstsPlain(wire) /\ ffs <= 1
    BY <2>1, <2>3 DEF FlowInv, Flows
  <2> QED BY <1>0, <2>1, <2>2, <2>4 DEF FlowInv, Flows
<1>4. CASE Byte
  <2> DEFINE d == Head(wire)
  <2>1. /\ clean /\ ~intact /\ ~synced /\ wire # <<>> /\ wire' = Tail(wire)
        /\ ffs' = IF d # 255 THEN 0 ELSE IF ffs = 3 THEN 3 ELSE ffs + 1
    BY <1>4 DEF Byte, FlowInv
  <2>2. ~IsSync(d) => ~synced' /\ got' = Nothing
    BY <1>4, <2>1 DEF Byte
  <2>3. CASE FirstsPlain(wire) /\ ffs <= 1 /\ (Len(wire) % 2 = 1 => ffs = 0)
    <3>1. FirstsPlain(wire') /\ Len(wire') = Len(wire) - 1 /\ Len(wire) \in Nat /\ Len(wire) > 0
      BY <1>0, <2>1, <2>3, FirstsShrink
    <3>2. ~IsSync(d)
      BY <2>3 DEF IsSync
    <3>3. CASE Len(wire) % 2 = 1
      <4>1. ffs' <= 1 /\ Len(wire') % 2 # 1
        BY <2>1, <2>3, <3>1, <3>3
      <4> QED BY <2>2, <3>1, <3>2, <4>1 DEF Flows
    <3>4. CASE Len(wire) % 2 # 1
      <4>1. (Len(wire) - 1) % 2 = 1 /\ 1 \in 1 .. Len(wire) /\ d = wire[1]
        BY <1>0, <2>1, <3>1, <3>4
      <4>2. d # 255
        BY <2>3, <4>1 DEF FirstsPlain
      <4>3. ffs' = 0
        BY <2>1, <4>2
      <4> QED BY <2>2, <3>1, <3>2, <4>3 DEF Flows
    <3> QED BY <3>3, <3>4
  <2>4. ASSUME NEW w \in Seq(Bytes), Len(w) % 2 = 0, FirstsPlain(w),
               wire = <<255, 127>> \o w, ffs <= 1
        PROVE  ~synced' /\ got' = Nothing /\ Flows'
    <3>1. d = 255 /\ wire' = <<127>> \o w
      BY <1>1, <2>1, <2>4
    <3>2. ffs' <= 2 /\ ~IsSync(d)
      BY <1>0, <2>1, <2>4, <3>1 DEF IsSync
    <3> QED BY <2>2, <2>4, <3>1, <3>2 DEF Flows
  <2> DEFINE Ends(u) == wire = <<127>> \o u
  <2>5. ASSUME NEW w \in Seq(Bytes), Len(w) % 2 = 0, FirstsPlain(w), Ends(w), ffs <= 2
        PROVE  ~synced' /\ got' = Nothing /\ Flows'
    <3>1. d = 127 /\ wire' = w
      BY <1>1, <2>1, <2>5
    <3>3. ffs' = 0
      BY <2>1, <3>1
    <3>4. ~IsSync(d)
      BY <1>0, <2>5 DEF IsSync
    <3>5. FirstsPlain(wire') /\ Len(wire') % 2 # 1
      BY <2>5, <3>1
    <3>2. ffs' <= 1 /\ ~IsSync(d) /\ FirstsPlain(wire') /\ (Len(wire') % 2 = 1 => ffs' = 0)
      BY <3>3, <3>4, <3>5
    <3> QED BY <2>2, <2>5, <3>1, <3>2 DEF Flows
  <2>6. Flows
    BY <2>1 DEF FlowInv
  <2> HIDE DEF d
  <2> QED BY <2>3, <2>4, <2>5, <2>6 DEF Flows
<1>5. CASE UNCHANGED vars
  BY <1>5 DEF vars, sender, demux, FlowInv, Flows
<1>6. ~Sync /\ ~Lose
  BY DEF Sync, Lose
<1> QED BY <1>2, <1>3, <1>4, <1>5, <1>6 DEF Next

------------------------------------------------------------------------------
(* In step, what is collected and what is under way is a frame of the         *)
(* formatter, and the code knows the stream that the formatter had said.      *)
Collected == IF low = NoByte THEN rxed ELSE Append(rxed, low)
Between == (said => cur = fmtId) /\ (clean => cur \in {0, fmtId})
IsFrame(bytes, evens, odds, stream, sure) ==
  /\ bytes = FrameBytes(evens, odds)
  /\ fmtId = StreamAt(evens, stream, FrameLen)
  /\ meant = Meaning(evens, odds, stream, sure)
  /\ said = (sure \/ Announced(evens, FrameLen) # {})
  /\ sure => cur = stream
  /\ clean => cur \in {0, stream}
Means(c, w) ==
  IF w = <<>> THEN Between
  ELSE \E evens \in [0 .. Pairs - 1 -> Evens], odds \in [0 .. Pairs - 2 -> Data],
          stream \in Ids, sure \in BOOLEAN : IsFrame(c \o w, evens, odds, stream, sure)

SyncMeans ==
  ~said /\ (clean => cur \in {0, fmtId} /\ (synced => Held + Len(wire) = 4))
Understood ==
  \/ SyncComing /\ SyncMeans
  \/ synced /\ InFrame /\ Means(Collected, wire)
  \/ \E w : synced /\ (HalfSyncComing(w) \/ InHalfSync(w)) /\ Means(rxed, w)
MeansInv == intact => Understood

(* A frame taken apart: the stream that was said is known, and every byte     *)
(* that was meant with one is found.                                          *)
Finds(bytes, m) ==
  \A n \in 0 .. Len(m) - 1 : m[Len(m) - n].said =>
    n < Len(bytes) /\ bytes[Len(bytes) - n] = Plainly(m[Len(m) - n])
OnlyMeant(bytes, m) ==
  /\ Len(bytes) <= Len(m)
  /\ \A n \in 0 .. Len(bytes) - 1 :
       n < Len(bytes) /\ bytes[Len(bytes) - n] = Plainly(m[Len(m) - n])

TakenApart(packet, c, evens, stream, sure, m, id) ==
  /\ sure \/ Announced(evens, FrameLen) # {} => packet.cur = id
  /\ c \in {0, stream} => packet.cur \in {0, id} /\ OnlyMeant(packet.out, m)
  /\ Finds(packet.out, m)

LEMMA FrameTakenApart ==
  ASSUME NEW evens \in [0 .. Pairs - 1 -> Evens], NEW odds \in [0 .. Pairs - 2 -> Data],
         NEW stream \in Ids, NEW sure \in BOOLEAN, NEW c \in 0 .. 127,
         sure => c = stream, NEW packet, packet = GetPacket(FrameBytes(evens, odds), c),
         NEW m, m = Meaning(evens, odds, stream, sure),
         NEW id, id = StreamAt(evens, stream, FrameLen)
  PROVE  TakenApart(packet, c, evens, stream, sure, m, id)
<1> DEFINE A == Announced(evens, FrameLen)
<1>1. /\ packet.cur = StreamAt(evens, c, FrameLen)
      /\ packet.out \in Seq(Traced) /\ m \in Seq(Meant)
      /\ Gives(packet.out, m, sure, stream, c, A)
  BY PacketMeans
<1>2. id = Latest(A, evens, stream) /\ packet.cur = Latest(A, evens, c)
  BY <1>1, StreamIsLatest
<1> HIDE DEF A
<1>5. sure \/ A # {} => packet.cur = id
  <2>1. A # {} => packet.cur = id
    BY <1>2 DEF Latest
  <2>2. A = {} => packet.cur = c /\ id = stream
    BY <1>2 DEF Latest
  <2> QED BY <2>1, <2>2
<1>6. c \in {0, stream} => packet.cur \in {0, id}
  <2>1. A # {} => packet.cur = id
    BY <1>2 DEF Latest
  <2>2. A = {} => packet.cur = c /\ id = stream
    BY <1>2 DEF Latest
  <2> QED BY <2>1, <2>2
<1>7. Finds(packet.out, m) /\ (c \in {0, stream} => OnlyMeant(packet.out, m))
  <2> DEFINE out == packet.out
  <2>1. out \in Seq(Traced) /\ m \in Seq(Meant) /\ Gives(out, m, sure, stream, c, A)
    BY <1>1
  <2> HIDE DEF out
  <2>2. /\ (sure => c = stream) =>
              \A n \in 0 .. Len(m) - 1 : m[Len(m) - n].said =>
                n < Len(out) /\ out[Len(out) - n] = Plainly(m[Len(m) - n])
        /\ c \in {0, stream} =>
              Len(out) <= Len(m) /\ \A n \in 0 .. Len(out) - 1 :
                n < Len(out) /\ out[Len(out) - n] = Plainly(m[Len(m) - n])
    BY <2>1, GivenFinds
  <2>3. Finds(out, m) /\ (c \in {0, stream} => OnlyMeant(out, m))
    BY <2>2 DEF Finds, OnlyMeant
  <2> QED BY <2>3 DEF out
<1> QED BY <1>5, <1>6, <1>7 DEF A, TakenApart

LEMMA FindsIsEnough ==
  ASSUME intact => Finds(got.bytes, meant), clean => OnlyMeant(got.bytes, meant)
  PROVE  BytesFindTheirStream
<1>1. ASSUME NEW n PROVE SameByte(n) <=>
        n < Len(got.bytes) /\ got.bytes[Len(got.bytes) - n] = Plainly(meant[Len(meant) - n])
  BY DEF SameByte, Plainly
<1>2. ResyncRestores
  BY <1>1 DEF Finds, ResyncRestores
<1>3. NothingGuessedAtStart
  BY <1>1 DEF OnlyMeant, NothingGuessedAtStart
<1> QED BY <1>2, <1>3 DEF BytesFindTheirStream

LEMMA NoFrameIsEnough ==
  ~FrameDone \/ (~intact /\ ~clean) => BytesFindTheirStream
BY DEF BytesFindTheirStream, ResyncRestores, NothingGuessedAtStart

\* A frame is put on the wire between two frames.
LEMMA FrameMeans ==
  ASSUME TypeOK, AlignInv, MeansInv, Frame
  PROVE  MeansInv'
<1> SUFFICES ASSUME intact PROVE Understood'
  BY DEF MeansInv, Frame
<1>1. InFrame /\ rxed = <<>> /\ low = NoByte /\ synced' /\ InFrame' /\ wire = <<>>
  BY FramePut DEF Frame
<1>2. Between
  <2>1. ~SyncComing
    BY <1>1 DEF SyncComing
  <2>2. \A w : ~(HalfSyncComing(w) \/ InHalfSync(w))
    <3>1. \A w : IsSeq(w) => <<255, 127>> \o w # <<>> /\ <<127>> \o w # <<>>
      BY HalfSyncAhead
    <3> QED BY <1>1, <3>1 DEF HalfSyncComing, InHalfSync, RestOfFrame
  <2>3. Means(Collected, wire)
    BY <2>1, <2>2 DEF MeansInv, Understood
  <2> QED BY <1>1, <2>3 DEF Means
<1>3. PICK evens \in [0 .. Pairs - 1 -> Evens], odds \in [0 .. Pairs - 2 -> Data] :
        /\ wire' = FrameBytes(evens, odds)
        /\ meant' = Meaning(evens, odds, fmtId, said)
        /\ fmtId' = StreamAt(evens, fmtId, FrameLen)
        /\ said' = (said \/ Announced(evens, FrameLen) # {})
  BY DEF Frame
<1>4. PICK stream \in Ids : stream = fmtId
  BY DEF TypeOK
<1>5. PICK sure \in BOOLEAN : sure = said
  BY DEF TypeOK
<1>6. wire' \in Seq(Bytes) /\ wire' # <<>>
  <2>1. wire' \in Seq(Bytes) /\ Len(wire') = FrameLen /\ FrameLen # 0
    BY <1>3, FrameIs, FrameAssumption
  <2> QED BY <2>1
<1>7. rxed' = <<>> /\ low' = NoByte /\ cur' = cur /\ clean' = clean
  BY <1>1 DEF Frame, demux
<1>8. IsFrame(<<>> \o wire, evens, odds, stream, sure)'
  <2>1. <<>> \o wire' = wire'
    BY <1>6
  <2>2. (sure => cur = stream) /\ (clean => cur \in {0, stream})
    BY <1>2, <1>4, <1>5 DEF Between
  <2>3. meant' = Meaning(evens, odds, stream, sure) /\ fmtId' = StreamAt(evens, stream, FrameLen)
        /\ said' = (sure \/ Announced(evens, FrameLen) # {})
    BY <1>3, <1>4, <1>5
  <2> QED BY <1>3, <1>7, <2>1, <2>2, <2>3 DEF IsFrame
<1>9. Means(<<>>, wire)'
  BY <1>6, <1>8 DEF Means
<1>10. Collected' = <<>>
  BY <1>7 DEF Collected
<1> QED BY <1>1, <1>9, <1>10 DEF Understood

LEMMA SyncKeepsMeaning ==
  ASSUME TypeOK, AlignInv, FlowInv, MeansInv, Sync
  PROVE  MeansInv'
<1>1. wire = <<>> /\ wire' = <<255, 255, 255, 127>> /\ said' = FALSE /\ cur' = cur
      /\ fmtId' = fmtId /\ clean' = clean /\ UNCHANGED <<rxed, low, synced>>
  BY DEF Sync, demux
<1>2. clean => cur \in {0, fmtId} /\ (synced => Held = 0)
  <2>1. CASE intact
    <3>1. ~SyncComing
      BY <1>1 DEF SyncComing
    <3>2. InStep
      BY <2>1, <3>1 DEF AlignInv
    <3>3. InFrame /\ Len(rxed) = 0 /\ low = NoByte
      BY <1>1, <3>2, BetweenFrames DEF AlignInv
    <3>4. \A w : ~(HalfSyncComing(w) \/ InHalfSync(w))
      <4>1. \A w : IsSeq(w) => <<255, 127>> \o w # <<>> /\ <<127>> \o w # <<>>
        BY HalfSyncAhead
      <4> QED BY <1>1, <4>1 DEF HalfSyncComing, InHalfSync, RestOfFrame
    <3>5. Means(Collected, wire)
      BY <2>1, <3>1, <3>4 DEF MeansInv, Understood
    <3>6. Held = 0
      BY <3>3 DEF Held
    <3> QED BY <1>1, <3>5, <3>6 DEF Means, Between
  <2>2. CASE ~intact
    BY <2>2 DEF FlowInv, TypeOK
  <2> QED BY <2>1, <2>2
<1>3. Len(<<255, 255, 255, 127>>) = 4
  OBVIOUS
<1>4. Held' = Held /\ Len(wire') = 4
  BY <1>1, <1>3 DEF Held
<1>5. SyncMeans'
  BY <1>1, <1>2, <1>4 DEF SyncMeans
<1>6. SyncComing'
  BY <1>1 DEF SyncComing
<1> QED BY <1>5, <1>6 DEF MeansInv, Understood

LEMMA HalfSyncMeans ==
  ASSUME AlignInv, MeansInv, HalfSync
  PROVE  MeansInv'
<1> SUFFICES ASSUME intact PROVE Understood'
  BY DEF MeansInv, HalfSync
<1>1. PICK w : w = wire
  OBVIOUS
<1>2. InFrame /\ low = NoByte /\ synced' /\ HalfSyncComing(w)'
  BY <1>1, HalfSyncPut
<1>3. Means(rxed, w)
  <2>1. Means(Collected, wire) /\ Collected = rxed
    BY <1>2, <1>1, HalfSyncPut DEF MeansInv, Understood, Collected
  <2> QED BY <1>1, <2>1
<1>4. UNCHANGED <<fmtId, said, meant, clean, cur, rxed>>
  BY DEF HalfSync, demux
<1>5. Means(rxed, w)'
  BY <1>3, <1>4 DEF Means, Between, IsFrame
<1> QED BY <1>2, <1>5 DEF Understood

\* The bytes of a sync complete no frame of a capture that lost nothing.
LEMMA SyncByteMeans ==
  ASSUME TypeOK, AlignInv, Byte, intact, SyncComing, SyncMeans
  PROVE  Understood' /\ BytesFindTheirStream'
<1> DEFINE d == Head(wire)
<1>1. /\ wire' = Tail(wire) /\ UNCHANGED <<fmtId, said, clean>> /\ ffs \in 0 .. 3
      /\ ffs' = IF d # 255 THEN 0 ELSE IF ffs = 3 THEN 3 ELSE ffs + 1
  BY DEF Byte, AlignInv
<1>2. CASE wire = <<127>> /\ ffs = 3
  <2>1. d = 127 /\ Tail(wire) = <<>>
    BY <1>2
  <2>2. synced' = TRUE /\ rxed' = <<>> /\ low' = NoByte /\ cur' = cur /\ got' = Nothing
    BY <1>2, <2>1 DEF Byte, IsSync, Resync
  <2>3. Len(<<>>) = 0
    OBVIOUS
  <2>4. wire' = <<>> /\ ffs' = 0 /\ Held' = 0
    BY <1>1, <2>1, <2>2, <2>3 DEF Held
  <2>5. InFrame'
    BY <2>2, <2>4, NothingIsNoFrame DEF InFrame
  <2>6. Means(Collected, wire)'
    BY <1>1, <2>2, <2>4 DEF Means, Between, SyncMeans
  <2>7. BytesFindTheirStream'
    <3>1. ~FrameDone'
      BY <2>2 DEF FrameDone, Nothing
    <3> QED BY <3>1, NoFrameIsEnough, PTL
  <2> QED BY <2>2, <2>5, <2>6, <2>7 DEF Understood
<1>3. CASE \/ wire = <<255, 255, 255, 127>>
           \/ wire = <<255, 255, 127>> /\ ffs >= 1
           \/ wire = <<255, 127>> /\ ffs >= 2
  <2>1. d = 255 /\ wire' # <<>> /\ Len(wire) \in 2 .. 4 /\ Len(wire') = Len(wire) - 1
    <3>1. CASE wire = <<255, 255, 255, 127>>
      <4>1. d = 255 /\ Len(wire) = 4 /\ Tail(wire) = <<255, 255, 127>>
        BY <3>1
      <4>2. Len(<<255, 255, 127>>) = 3 /\ <<255, 255, 127>> # <<>>
        OBVIOUS
      <4> QED BY <1>1, <4>1, <4>2
    <3>2. CASE wire = <<255, 255, 127>>
      <4>1. d = 255 /\ Len(wire) = 3 /\ Tail(wire) = <<255, 127>>
        BY <3>2
      <4>2. Len(<<255, 127>>) = 2 /\ <<255, 127>> # <<>>
        OBVIOUS
      <4> QED BY <1>1, <4>1, <4>2
    <3>3. CASE wire = <<255, 127>>
      <4>1. d = 255 /\ Len(wire) = 2 /\ Tail(wire) = <<127>>
        BY <3>3
      <4>2. Len(<<127>>) = 1 /\ <<127>> # <<>>
        OBVIOUS
      <4> QED BY <1>1, <4>1, <4>2
    <3> QED BY <1>3, <3>1, <3>2, <3>3
  <2>2. SyncComing'
    <3>1. CASE wire = <<255, 255, 255, 127>>
      <4>1. Tail(wire) = <<255, 255, 127>>
        BY <3>1
      <4> QED BY <1>1, <2>1, <4>1 DEF SyncComing
    <3>2. CASE wire = <<255, 255, 127>> /\ ffs >= 1
      <4>1. Tail(wire) = <<255, 127>>
        BY <3>2
      <4> QED BY <1>1, <2>1, <3>2, <4>1 DEF SyncComing
    <3>3. CASE wire = <<255, 127>> /\ ffs >= 2
      <4>1. Tail(wire) = <<127>>
        BY <3>3
      <4> QED BY <1>1, <2>1, <3>3, <4>1 DEF SyncComing
    <3> QED BY <1>3, <3>1, <3>2, <3>3
  <2>3. ~IsSync(d)
    BY <2>1 DEF IsSync
  <2>4. ASSUME clean PROVE cur' \in {0, fmtId} /\ (synced' => Held' + Len(wire') = 4)
    <3>1. cur \in {0, fmtId} /\ (synced => Held + Len(wire) = 4)
      BY <2>4 DEF SyncMeans
    <3>2. CASE ~synced
      <4>1. cur' = cur /\ synced' = synced
        BY <2>3, <3>2 DEF Byte
      <4> QED BY <3>1, <3>2, <4>1
    <3>3. CASE synced /\ low = NoByte
      <4>1. low' = 255 /\ rxed' = rxed /\ cur' = cur
        BY <2>1, <2>3, <3>3 DEF Byte
      <4>2. Len(rxed) \in Nat
        BY DEF TypeOK
      <4>3. Held' = Held + 1 /\ Held \in Nat
        BY <3>3, <4>1, <4>2 DEF Held, NoByte
      <4> QED BY <2>1, <3>1, <3>3, <4>1, <4>3
    <3>4. CASE synced /\ low # NoByte
      <4>1. HalfWordDone(d)
        BY <2>3, <3>4 DEF Byte
      <4>2. Len(rxed) \in Nat /\ Len(rxed) % 2 = 0 /\ rxed \in Seq(Bytes) /\ low \in Bytes
        BY <3>4 DEF TypeOK
      <4>3. Len(rxed) = 0
        <5>1. Len(rxed) + 1 \in 0 .. 2
          BY <2>1, <3>1, <3>4, <4>2 DEF Held
        <5> QED BY <4>2, <5>1
      <4> DEFINE frame == rxed \o <<low, d>>
      <4>4. frame \in Seq(Bytes) /\ Len(frame) = 2
        <5>1. d \in Bytes
          BY <2>1 DEF Bytes
        <5> HIDE DEF d
        <5> QED BY <4>2, <4>3, <5>1
      <4> HIDE DEF frame
      <4>5. ~IsWhole(frame)
        BY <4>4, FrameAssumption DEF IsWhole
      <4>6. rxed' = frame /\ cur' = cur /\ low' = NoByte
        BY <2>1, <4>1, <4>5 DEF HalfWordDone, frame
      <4>7. Held' = 2 /\ Held = 1
        BY <3>4, <4>3, <4>4, <4>6 DEF Held
      <4> QED BY <2>1, <3>1, <3>4, <4>6, <4>7
    <3> QED BY <3>2, <3>3, <3>4
  <2>5. SyncMeans'
    BY <1>1, <2>4 DEF SyncMeans
  <2>6. BytesFindTheirStream'
    <3>1. ~FrameDone'
      BY <2>1 DEF FrameDone
    <3> QED BY <3>1, NoFrameIsEnough, PTL
  <2> QED BY <2>2, <2>5, <2>6 DEF Understood
<1> QED BY <1>2, <1>3 DEF SyncComing

\* A half sync leaves what is collected as it is.
LEMMA HalfSyncByteMeans ==
  ASSUME AlignInv, Byte, synced, NEW w, HalfSyncComing(w) \/ InHalfSync(w), Means(rxed, w)
  PROVE  Understood' /\ BytesFindTheirStream'
<1>0. UNCHANGED <<fmtId, said, meant, clean>>
  BY DEF Byte
<1>1. CASE HalfSyncComing(w)
  <2>1. synced' /\ rxed' = rxed /\ cur' = cur /\ InHalfSync(w)'
    BY <1>1, FirstOfHalfSync
  <2>2. Means(rxed, w)'
    BY <1>0, <2>1 DEF Means, Between, IsFrame
  <2>3. wire' # <<>>
    <3>1. IsSeq(w)
      BY <1>1 DEF HalfSyncComing, RestOfFrame
    <3> QED BY <2>1, <3>1, HalfSyncAhead DEF InHalfSync
  <2>4. BytesFindTheirStream'
    <3>1. ~FrameDone'
      BY <2>3 DEF FrameDone
    <3> QED BY <3>1, NoFrameIsEnough, PTL
  <2> QED BY <2>1, <2>2, <2>4 DEF Understood
<1>2. CASE InHalfSync(w)
  <2>1. /\ synced' /\ rxed' = rxed /\ cur' = cur /\ low' = NoByte /\ wire' = w
        /\ got' = Nothing /\ InFrame'
    BY <1>2, LastOfHalfSync
  <2>2. Means(rxed, w)'
    BY <1>0, <2>1 DEF Means, Between, IsFrame
  <2>3. Means(Collected, wire)'
    BY <2>1, <2>2 DEF Collected
  <2>4. BytesFindTheirStream'
    <3>1. ~FrameDone'
      BY <2>1 DEF FrameDone, Nothing
    <3> QED BY <3>1, NoFrameIsEnough, PTL
  <2> QED BY <2>1, <2>3, <2>4 DEF Understood
<1> QED BY <1>1, <1>2

LEMMA MoveOne ==
  ASSUME NEW S, NEW c \in Seq(S), NEW w \in Seq(S), w # <<>>
  PROVE  /\ Append(c, Head(w)) \o Tail(w) = c \o w
         /\ Len(w) \in Nat /\ Len(w) > 0 /\ Len(Tail(w)) = Len(w) - 1
         /\ Append(c, Head(w)) \in Seq(S) /\ Len(Append(c, Head(w))) = Len(c) + 1
OBVIOUS

LEMMA TwoMore ==
  ASSUME NEW S, NEW c \in Seq(S), NEW x \in S, NEW y \in S
  PROVE  c \o <<x, y>> = Append(Append(c, x), y)
OBVIOUS

LEMMA LengthsAdd ==
  ASSUME NEW S, NEW c \in Seq(S), NEW w \in Seq(S) PROVE Len(c \o w) = Len(c) + Len(w)
OBVIOUS

LEMMA EmptyOnes ==
  ASSUME NEW S, NEW w \in Seq(S)
  PROVE  (w = <<>> <=> Len(w) = 0) /\ w \o <<>> = w
OBVIOUS

\* A byte of a frame; the last one completes it.
LEMMA FrameByteMeans ==
  ASSUME TypeOK, AlignInv, Byte, intact, synced, InFrame, Means(Collected, wire)
  PROVE  Understood' /\ BytesFindTheirStream'
<1> DEFINE d == Head(wire)
<1>0. /\ wire # <<>> /\ wire' = Tail(wire) /\ UNCHANGED <<fmtId, said, meant, clean>>
      /\ ~IsSync(d)
  BY DEF Byte, InFrame, IsSync
<1>1. synced' /\ InFrame'
  BY ByteOfFrame
<1>2. PICK evens \in [0 .. Pairs - 1 -> Evens], odds \in [0 .. Pairs - 2 -> Data],
           stream \in Ids, sure \in BOOLEAN : IsFrame(Collected \o wire, evens, odds, stream, sure)
  BY <1>0 DEF Means
<1> DEFINE f == FrameBytes(evens, odds)
<1>3. wire \in Seq(Bytes) /\ rxed \in Seq(Bytes) /\ low \in Bytes \cup {NoByte}
      /\ Len(rxed) \in Nat /\ Len(rxed) % 2 = 0 /\ cur \in 0 .. 127
  BY DEF TypeOK
<1>4. Collected \in Seq(Bytes) /\ Len(Collected) = Held /\ Held \in Nat /\ d \in Bytes
      /\ wire' \in Seq(Bytes)
  BY <1>0, <1>3 DEF Collected, Held
<1>5. f \in Seq(Bytes) /\ Len(f) = FrameLen /\ f = Collected \o wire
  BY <1>2, FrameIs DEF IsFrame
<1> HIDE DEF f
<1> DEFINE next == Append(Collected, d)
<1>6. /\ next \o wire' = f /\ next \in Seq(Bytes) /\ Len(next) = Held + 1
      /\ Len(wire) \in Nat /\ Len(wire) > 0 /\ Len(wire') = Len(wire) - 1
  BY <1>0, <1>3, <1>4, <1>5, MoveOne
<1>7. Held + 1 + Len(wire') = FrameLen
  <2>1. Len(Collected \o wire) = Len(Collected) + Len(wire)
    BY <1>3, <1>4, LengthsAdd
  <2>2. FrameLen = Held + Len(wire)
    BY <1>4, <1>5, <2>1
  <2> QED BY <1>4, <1>6, <2>2
<1> HIDE DEF d
<1>8. ASSUME wire' # <<>>, Collected' = next, cur' = cur PROVE Understood' /\ BytesFindTheirStream'
  <2>1. IsFrame(Collected \o wire, evens, odds, stream, sure)'
    <3>1. (Collected \o wire)' = FrameBytes(evens, odds)
      BY <1>6, <1>8 DEF f
    <3> QED BY <1>0, <1>2, <1>8, <3>1 DEF IsFrame
  <2>2. Means(Collected, wire)'
    BY <1>8, <2>1 DEF Means
  <2>3. BytesFindTheirStream'
    <3>1. ~FrameDone'
      BY <1>8 DEF FrameDone
    <3> QED BY <3>1, NoFrameIsEnough, PTL
  <2> QED BY <1>1, <2>2, <2>3 DEF Understood
<1>9. CASE low = NoByte
  <2>1. low' = d /\ rxed' = rxed /\ cur' = cur
    BY <1>0, <1>9 DEF Byte, d
  <2>2. Collected' = next
    <3>1. d # NoByte
      BY <1>4 DEF Bytes, NoByte
    <3> QED BY <1>9, <2>1, <3>1 DEF Collected
  <2>3. wire' # <<>>
    <3>1. Held = Len(rxed)
      BY <1>3, <1>9 DEF Held
    <3>2. Len(wire') # 0
      <4>1. \A n, k, l \in Nat : n % 2 = 0 /\ l % 2 = 0 /\ n + 1 + k = l => k # 0
        OBVIOUS
      <4>2. Len(wire') \in Nat
        BY <1>4
      <4> QED BY <1>3, <1>7, <3>1, <4>1, <4>2, FrameAssumption
    <3> QED BY <1>4, <3>2, EmptyOnes
  <2> QED BY <1>8, <2>1, <2>2, <2>3
<1>10. CASE low # NoByte
  <2>1. HalfWordDone(d)
    BY <1>0, <1>10 DEF Byte, d
  <2>2. low # 255 /\ low \in Bytes
    BY <1>3, <1>10 DEF InFrame
  <2>3. rxed \o <<low, d>> = next
    <3>1. Collected = Append(rxed, low)
      BY <1>10 DEF Collected
    <3>2. rxed \o <<low, d>> = Append(Append(rxed, low), d)
      <4>1. low \in Bytes /\ d \in Bytes /\ rxed \in Seq(Bytes)
        BY <1>3, <1>4, <2>2
      <4> QED BY <4>1, TwoMore
    <3> QED BY <3>1, <3>2
  <2> HIDE DEF next
  <2>4. CASE ~IsWhole(next)
    <3>1. rxed' = next /\ cur' = cur /\ low' = NoByte
      BY <2>1, <2>2, <2>3, <2>4 DEF HalfWordDone
    <3>2. Collected' = next
      BY <3>1 DEF Collected
    <3>3. Len(wire') # 0
      <4>1. Len(next) = Held + 1 /\ Len(next) # FrameLen /\ Len(next) + Len(wire') = FrameLen
        BY <1>6, <1>7, <2>4 DEF IsWhole
      <4>2. Len(wire') = 0 => Len(next) = FrameLen
        BY <1>4, <4>1
      <4> QED BY <4>1, <4>2
    <3>4. wire' # <<>>
      BY <1>4, <3>3, EmptyOnes
    <3> QED BY <1>8, <3>1, <3>2, <3>4
  <2>5. CASE IsWhole(next)
    <3> DEFINE packet == GetPacket(next, cur)
    <3>1. /\ rxed' = <<>> /\ low' = NoByte /\ cur' = packet.cur
          /\ got' = [frame |-> TRUE, bytes |-> packet.out]
      BY <2>1, <2>2, <2>3, <2>5 DEF HalfWordDone
    <3>2. wire' = <<>> /\ next = FrameBytes(evens, odds)
      <4>1. Len(wire') = 0
        BY <1>4, <1>6, <1>7, <2>5, FrameAssumption DEF IsWhole
      <4>2. wire' = <<>>
        BY <1>4, <4>1, EmptyOnes
      <4>3. next \o <<>> = next
        BY <1>6, EmptyOnes
      <4> QED BY <1>6, <4>2, <4>3 DEF f
    <3>3. PICK c \in 0 .. 127 : c = cur
      BY <1>3
    <3>4. PICK p : p = packet
      OBVIOUS
    <3>5. PICK m : m = meant
      OBVIOUS
    <3>6. PICK id : id = fmtId
      OBVIOUS
    <3>7. /\ p = GetPacket(FrameBytes(evens, odds), c)
          /\ m = Meaning(evens, odds, stream, sure)
          /\ id = StreamAt(evens, stream, FrameLen)
          /\ (sure => c = stream)
          /\ (clean => c \in {0, stream})
          /\ said = (sure \/ Announced(evens, FrameLen) # {})
      BY <1>2, <3>2, <3>3, <3>4, <3>5, <3>6 DEF IsFrame
    <3>13. TakenApart(p, c, evens, stream, sure, m, id)
      BY <3>7, FrameTakenApart
    <3>8. /\ sure \/ Announced(evens, FrameLen) # {} => p.cur = id
          /\ c \in {0, stream} => p.cur \in {0, id} /\ OnlyMeant(p.out, m)
          /\ Finds(p.out, m)
      BY <3>13 DEF TakenApart
    <3> HIDE DEF packet
    <3>9. cur' = p.cur /\ got'.bytes = p.out /\ meant' = m /\ fmtId' = id /\ said' = said
          /\ clean' = clean
      BY <1>0, <3>1, <3>4, <3>5, <3>6
    <3>10. Between'
      BY <3>7, <3>8, <3>9 DEF Between
    <3>11. Means(Collected, wire)'
      BY <3>2, <3>10 DEF Means
    <3>12. BytesFindTheirStream'
      <4>1. Finds(got.bytes, meant)' /\ (clean => OnlyMeant(got.bytes, meant))'
        BY <3>7, <3>8, <3>9
      <4> QED BY <4>1, FindsIsEnough, PTL
    <3> QED BY <1>1, <3>11, <3>12 DEF Understood
  <2> QED BY <2>4, <2>5
<1> QED BY <1>9, <1>10

LEMMA ByteMeans ==
  ASSUME TypeOK, AlignInv, FlowInv, FlowInv', MeansInv, Byte
  PROVE  MeansInv' /\ BytesFindTheirStream'
<1>1. CASE intact
  <2>1. Understood' /\ BytesFindTheirStream'
    <3>1. CASE SyncComing /\ SyncMeans
      BY <1>1, <3>1, SyncByteMeans
    <3>2. CASE synced /\ InFrame /\ Means(Collected, wire)
      BY <1>1, <3>2, FrameByteMeans
    <3>3. ASSUME NEW w, synced, HalfSyncComing(w) \/ InHalfSync(w), Means(rxed, w)
          PROVE  Understood' /\ BytesFindTheirStream'
      BY <3>3, HalfSyncByteMeans
    <3> QED BY <1>1, <3>1, <3>2, <3>3 DEF MeansInv, Understood
  <2> QED BY <2>1 DEF MeansInv
<1>2. CASE ~intact
  <2>1. ~intact' /\ clean' = clean
    BY <1>2 DEF Byte
  <2>2. ~FrameDone' \/ (~intact' /\ ~clean')
    BY <2>1 DEF FlowInv, FrameDone, Nothing
  <2>3. BytesFindTheirStream'
    BY <2>2, NoFrameIsEnough, PTL
  <2> QED BY <2>1, <2>3 DEF MeansInv
<1> QED BY <1>1, <1>2

(* The other steps complete no frame: one puts bytes on the wire, or loses    *)
(* the claim to what is on it.                                                *)
LEMMA LinkFinds ==
  ASSUME TypeOK, Frame \/ Sync \/ HalfSync \/ Lose PROVE BytesFindTheirStream'
<1>1. ~FrameDone' \/ (~intact' /\ ~clean')
  <2>1. CASE Frame
    <3>1. PICK evens \in [0 .. Pairs - 1 -> Evens], odds \in [0 .. Pairs - 2 -> Data] :
            wire' = FrameBytes(evens, odds)
      BY <2>1 DEF Frame
    <3>2. Len(wire') = FrameLen /\ Len(<<>>) = 0 /\ FrameLen # 0
      BY <3>1, FrameIs, FrameAssumption
    <3> QED BY <3>2 DEF FrameDone
  <2>2. CASE Sync
    BY <2>2 DEF Sync, FrameDone
  <2>3. CASE HalfSync
    <3>1. IsSeq(wire) /\ wire' = <<255, 127>> \o wire
      BY <2>3 DEF HalfSync, TypeOK, IsSeq
    <3> QED BY <3>1, HalfSyncAhead DEF FrameDone
  <2>4. CASE Lose
    BY <2>4 DEF Lose
  <2> QED BY <2>1, <2>2, <2>3, <2>4
<1> QED BY <1>1, NoFrameIsEnough, PTL

DeframeInv == AlignInv /\ FlowInv /\ MeansInv /\ BytesFindTheirStream

LEMMA DeframeInvAtStart == Init => DeframeInv
<1> SUFFICES ASSUME Init PROVE DeframeInv
  OBVIOUS
<1>1. AlignInv
  BY AlignedAtStart
<1>2. FlowInv
  <2>1. Len(<<>>) = 0 /\ \A i \in 1 .. 0 : FALSE
    OBVIOUS
  <2>2. FirstsPlain(<<>>) /\ 0 % 2 # 1
    BY <2>1 DEF FirstsPlain
  <2> QED BY <2>1, <2>2 DEF Init, FlowInv, Flows
<1>3. MeansInv /\ ~FrameDone
  BY DEF Init, MeansInv, FrameDone, Nothing
<1>4. BytesFindTheirStream
  BY <1>3, NoFrameIsEnough
<1> QED BY <1>1, <1>2, <1>3, <1>4 DEF DeframeInv

LEMMA DeframeInvKept == TypeOK /\ DeframeInv /\ [Next]_vars => DeframeInv'
<1> SUFFICES ASSUME TypeOK, AlignInv, FlowInv, MeansInv, BytesFindTheirStream, [Next]_vars
             PROVE  DeframeInv'
  BY DEF DeframeInv
<1>1. FlowInv'
  BY FlowKeeps
<1>2. AlignInv'
  BY AlignInvKept
<1>3. MeansInv' /\ BytesFindTheirStream'
  <2>1. CASE Frame
    BY <2>1, FrameMeans, LinkFinds
  <2>2. CASE Sync
    BY <2>2, SyncKeepsMeaning, LinkFinds
  <2>3. CASE HalfSync
    BY <2>3, HalfSyncMeans, LinkFinds
  <2>4. CASE Lose
    <3>1. ~intact'
      BY <2>4 DEF Lose
    <3> QED BY <2>4, <3>1, LinkFinds DEF MeansInv
  <2>5. CASE Byte
    BY <1>1, <2>5, ByteMeans
  <2>6. CASE UNCHANGED vars
    <3>1. MeansInv'
      <4>1. \A c, w : Means(c, w)' <=> Means(c, w)
        BY <2>6 DEF vars, sender, demux, Means, Between, IsFrame
      <4>2. /\ SyncComing' = SyncComing /\ SyncMeans' = SyncMeans /\ InFrame' = InFrame
            /\ Collected' = Collected /\ rxed' = rxed /\ wire' = wire /\ intact' = intact
            /\ synced' = synced
        BY <2>6 DEF vars, sender, demux, SyncComing, SyncMeans, InFrame, Held, Collected
      <4>3. \A w : HalfSyncComing(w)' <=> HalfSyncComing(w)
        BY <2>6 DEF vars, sender, demux, HalfSyncComing
      <4>4. \A w : InHalfSync(w)' <=> InHalfSync(w)
        BY <2>6 DEF vars, sender, demux, InHalfSync
      <4> QED BY <4>1, <4>2, <4>3, <4>4 DEF MeansInv, Understood
    <3>2. BytesFindTheirStream'
      BY <2>6 DEF vars, sender, demux, BytesFindTheirStream, ResyncRestores,
        NothingGuessedAtStart, SameByte, FrameDone
    <3> QED BY <3>1, <3>2
  <2> QED BY <2>1, <2>2, <2>3, <2>4, <2>5, <2>6 DEF Next
<1> QED BY <1>1, <1>2, <1>3 DEF DeframeInv

\* So it holds of every capture.
LEMMA DeframeInvHolds == Spec => []DeframeInv
BY DeframeInvAtStart, DeframeInvKept, TypeCorrect, PTL DEF Spec

\* In such a capture the frames are aligned.
LEMMA DeframeInvAligns == DeframeInv => FramesAlign
<1> SUFFICES ASSUME AlignInv, synced, intact, wire = <<>> PROVE rxed = <<>> /\ low = NoByte
  BY DEF FramesAlign, DeframeInv
<1>1. ~SyncComing
  BY DEF SyncComing
<1> QED BY <1>1, BetweenFrames DEF AlignInv

(* tpiu_deframe stays aligned with the formatter from a sync on: no byte of   *)
(* data is taken for part of a sync or half sync, and none of these for data, *)
(* for frames of any even length up to 16, any data, and captures of any      *)
(* length.                                                                    *)
THEOREM FramesStayAligned == Spec => []FramesAlign
BY DeframeInvAligns, DeframeInvHolds, PTL

(* One sync is enough: whatever was lost before it, every frame behind it is  *)
(* taken apart as the formatter put it together, for every frame length,      *)
(* every set of ids and data, and any number of frames, half syncs and losses *)
(* (deframe.cpp:194-222); and at the start of a capture no byte is attributed *)
(* to a stream that the code only guesses.                                    *)
THEOREM EveryByteFindsItsStream == Spec => []BytesFindTheirStream
<1>1. DeframeInv => BytesFindTheirStream
  BY DEF DeframeInv
<1> QED BY <1>1, DeframeInvHolds, PTL

------------------------------------------------------------------------------
(* Which phase is chosen: the best so far is the first of the best, by        *)
(* induction over the scores, because what beats it beats all it has beaten.  *)

\* The best so far, score by score.
BestSoFar(best, scores) ==
  best = [i \in 1 .. Len(scores) |->
            IF i = 1 THEN 1 ELSE IF Better(scores[i], scores[best[i - 1]]) THEN i ELSE best[i - 1]]

\* Scores as the search compares them.
Evidence == [asyncs : Nat, size : Nat]

\* The better is not beaten by what the worse beats, and what is not worse than the best so far is.
LEMMA BetterIsTransitive ==
  ASSUME NEW a \in Evidence, NEW b \in Evidence, NEW c \in Evidence
  PROVE  /\ ~Better(a, a)
         /\ Better(a, b) /\ Better(b, c) => Better(a, c)
         /\ ~Better(a, b) /\ ~Better(b, c) => ~Better(a, c)
         /\ Better(a, b) /\ ~Better(c, b) => Better(a, c)
<1>1. /\ a.asyncs \in Nat /\ a.size \in Nat /\ b.asyncs \in Nat /\ b.size \in Nat
      /\ c.asyncs \in Nat /\ c.size \in Nat
  BY DEF Evidence
<1> QED BY ONLY <1>1 DEF Better

\* What is kept is the first of the best, of any number of scores.
LEMMA BestOfIsBest ==
  ASSUME NEW n \in Nat \ {0}, NEW scores \in [1 .. n -> Evidence]
  PROVE  BestOf(scores) \in 1 .. n /\ IsBest(BestOf(scores), scores)
<1>1. Len(scores) = n /\ DOMAIN scores = 1 .. n /\ \A i \in 1 .. n : scores[i] \in Evidence
  OBVIOUS
<1> DEFINE step == [p \in Nat \X Nat |->
                     IF p[2] \notin 1 .. n THEN 0
                     ELSE IF p[2] = 1 THEN 1
                     ELSE IF Better(scores[p[2]], scores[p[1]]) THEN p[2] ELSE p[1]]
<1>2. \E h : Unfolds(h, Nat, 0, step, n)
  <2>1. Steps(step, Nat)
    <3>1. ASSUME NEW p \in Nat \X Nat
          PROVE  (IF p[2] \notin 1 .. n THEN 0
                  ELSE IF p[2] = 1 THEN 1
                  ELSE IF Better(scores[p[2]], scores[p[1]]) THEN p[2] ELSE p[1]) \in Nat
      OBVIOUS
    <3> QED BY <3>1 DEF Steps
  <2> HIDE DEF step
  <2> QED BY <2>1, RecursionExists
<1>3. PICK h : Unfolds(h, Nat, 0, step, n)
  BY <1>2
<1> DEFINE good == [i \in 1 .. n |-> h[i]]
<1>4. ASSUME NEW i \in 1 .. n
      PROVE  good[i] = h[i] /\ h[i] \in Nat /\ h[i - 1] \in Nat /\ h[i] = step[<<h[i - 1], i>>]
  <2>1. i \in 0 .. n /\ i - 1 \in 0 .. n
    OBVIOUS
  <2>2. h \in [0 .. n -> Nat]
    BY <1>3 DEF Unfolds
  <2>3. h[i] = step[<<h[i - 1], i>>]
    BY <1>3 DEF Unfolds
  <2> QED BY <2>1, <2>2, <2>3
<1>5. ASSUME NEW i \in 1 .. n
      PROVE  good[i] = IF i = 1 THEN 1 ELSE IF Better(scores[i], scores[good[i - 1]]) THEN i ELSE good[i - 1]
  <2>1. <<h[i - 1], i>> \in Nat \X Nat
    <3>1. h[i - 1] \in Nat
      BY <1>4, Zenon
    <3>2. i \in Nat
      OBVIOUS
    <3> QED BY ONLY <3>1, <3>2
  <2>2. h[i] = IF i = 1 THEN 1 ELSE IF Better(scores[i], scores[h[i - 1]]) THEN i ELSE h[i - 1]
    BY <1>4, <2>1
  <2>3. i # 1 => i - 1 \in 1 .. n
    OBVIOUS
  <2>4. i # 1 => good[i - 1] = h[i - 1]
    BY <2>3
  <2> QED BY <1>4, <2>2, <2>4
<1>6. BestSoFar(good, scores)
  <2>1. good = [i \in 1 .. n |->
                  IF i = 1 THEN 1 ELSE IF Better(scores[i], scores[good[i - 1]]) THEN i ELSE good[i - 1]]
    <3>1. good = [i \in 1 .. n |-> good[i]]
      OBVIOUS
    <3> HIDE DEF good
    <3> QED BY <1>5, <3>1
  <2> HIDE DEF good
  <2> QED BY <1>1, <2>1 DEF BestSoFar
<1> DEFINE best == CHOOSE b : BestSoFar(b, scores)
<1>7. BestOf(scores) = best[n]
  BY <1>1, Zenon DEF BestOf, BestSoFar
<1>8. BestSoFar(best, scores)
  <2> HIDE DEF good
  <2> QED BY <1>6
<1> HIDE DEF best
<1>9. ASSUME NEW i \in 1 .. n
      PROVE  best[i] = IF i = 1 THEN 1 ELSE IF Better(scores[i], scores[best[i - 1]]) THEN i ELSE best[i - 1]
  BY <1>1, <1>8 DEF BestSoFar
<1> DEFINE First(b, m) == /\ b \in 1 .. m
                          /\ \A i \in 1 .. m : /\ ~Better(scores[i], scores[b])
                                               /\ i < b => Better(scores[b], scores[i])
           G == {m \in 0 .. n : m = 0 \/ First(best[m], m)}
<1>10. 0 \in G
  OBVIOUS
<1>11. ASSUME NEW m \in 1 .. n, m - 1 \in G PROVE m \in G
  <2>1. CASE m = 1
    <3>1. best[1] = 1
      BY <1>9, <2>1
    <3>2. \A i \in 1 .. 1 : i = 1
      OBVIOUS
    <3>3. ~Better(scores[1], scores[1])
      BY <1>1, <2>1, BetterIsTransitive
    <3>4. First(1, 1)
      BY <3>2, <3>3
    <3> QED BY <2>1, <3>1, <3>4
  <2>2. CASE m # 1
    <3>1. m - 1 \in 1 .. n /\ \A i \in 1 .. m : i = m \/ i \in 1 .. m - 1
      BY <2>2
    <3>2. PICK b \in 1 .. m - 1 : b = best[m - 1] /\ First(b, m - 1)
      BY <1>11, <3>1
    <3>3. best[m] = IF Better(scores[m], scores[b]) THEN m ELSE b
      BY <1>9, <2>2, <3>2
    <3>4. scores[m] \in Evidence /\ scores[b] \in Evidence /\ ~Better(scores[m], scores[m])
      BY <1>1, <3>1, BetterIsTransitive
    <3>5. CASE Better(scores[m], scores[b])
      <4>1. ASSUME NEW i \in 1 .. m
            PROVE ~Better(scores[i], scores[m]) /\ (i < m => Better(scores[m], scores[i]))
        <5>1. CASE i = m
          BY <3>4, <5>1
        <5>2. CASE i \in 1 .. m - 1
          <6>1. ~Better(scores[i], scores[b]) /\ scores[i] \in Evidence
            BY <1>1, <3>2, <5>2
          <6>2. Better(scores[m], scores[i])
            BY <3>4, <3>5, <6>1, BetterIsTransitive
          <6>3. Better(scores[i], scores[m]) => Better(scores[i], scores[i])
            BY <3>4, <6>1, <6>2, BetterIsTransitive
          <6> QED BY <6>1, <6>2, <6>3, BetterIsTransitive
        <5> QED BY <3>1, <5>1, <5>2
      <4>2. First(m, m)
        BY <4>1
      <4>3. best[m] = m
        BY <3>3, <3>5
      <4> HIDE DEF First
      <4> QED BY <4>2, <4>3
    <3>6. CASE ~Better(scores[m], scores[b])
      <4>1. ASSUME NEW i \in 1 .. m
            PROVE ~Better(scores[i], scores[b]) /\ (i < b => Better(scores[b], scores[i]))
        <5>1. CASE i = m
          BY <3>2, <3>6, <5>1
        <5>2. CASE i \in 1 .. m - 1
          BY <3>2, <5>2
        <5> QED BY <3>1, <5>1, <5>2
      <4>2. First(b, m)
        BY <4>1
      <4>3. best[m] = b
        BY <3>3, <3>6
      <4> HIDE DEF First
      <4> QED BY <4>2, <4>3
    <3> QED BY <3>5, <3>6
  <2> QED BY <2>1, <2>2
<1> HIDE DEF G
<1>12. n \in G
  <2>1. 0 .. n \subseteq G
    BY <1>10, <1>11, InductUpTo
  <2> QED BY <2>1
<1>13. First(best[n], n)
  BY <1>12 DEF G
<1> QED BY <1>1, <1>7, <1>13 DEF IsBest

(* The phase chosen is the first of the best of what it is chosen from: of    *)
(* the scores on the prefix, when one of them counts an A-sync, or else on    *)
(* the whole capture; for any number of phases and any scores                 *)
(* (deframe.cpp:235-262).                                                     *)
THEOREM ChosenIsBest ==
  ASSUME NEW n \in Nat \ {0}, NEW prefix \in [1 .. n -> Evidence], NEW whole \in [1 .. n -> Evidence]
  PROVE  IsBest(Chosen(prefix, whole),
                IF \E i \in 1 .. n : prefix[i].asyncs > 0 THEN prefix ELSE whole)
<1>1. BestOf(prefix) \in 1 .. n /\ IsBest(BestOf(prefix), prefix)
  BY BestOfIsBest
<1>2. BestOf(whole) \in 1 .. n /\ IsBest(BestOf(whole), whole)
  BY BestOfIsBest
<1>3. CASE prefix[BestOf(prefix)].asyncs > 0
  BY <1>1, <1>3 DEF Chosen
<1>4. CASE ~(prefix[BestOf(prefix)].asyncs > 0)
  <2>1. ASSUME NEW i \in 1 .. n PROVE ~(prefix[i].asyncs > 0)
    <3>1. ~Better(prefix[i], prefix[BestOf(prefix)])
      BY <1>1 DEF IsBest
    <3>2. prefix[i].asyncs \in Nat /\ prefix[BestOf(prefix)].asyncs \in Nat
      BY <1>1 DEF Evidence
    <3> QED BY <1>4, <3>1, <3>2 DEF Better
  <2> QED BY <1>2, <1>4, <2>1 DEF Chosen
<1> QED BY <1>3, <1>4

------------------------------------------------------------------------------
(* What the evidence for a phase is: the A-syncs that count_etmv4_async       *)
(* counts are those that are there, because it always knows how long the run  *)
(* of zero bytes behind it is.                                                *)

\* The count after each byte.
CountFrom == [zeros |-> 0, found |-> 0]
EndsAsync(s, byte) == byte = 128 /\ s.zeros >= MinZeros
CountedOn(s, byte) ==
  [zeros |-> IF byte = 0 THEN s.zeros + 1 ELSE 0,
   found |-> IF EndsAsync(s, byte) THEN s.found + 1 ELSE s.found]
CountsUpTo(after, data) ==
  after = [i \in 0 .. Len(data) |->
             IF i = 0 THEN CountFrom ELSE CountedOn(after[i - 1], data[i])]
Tallies == [zeros : Nat, found : Nat]

\* The count of the code, byte by byte.
LEMMA CountIs ==
  ASSUME NEW n \in Nat, NEW data \in [1 .. n -> Nat]
  PROVE  \E h : /\ h \in [0 .. n -> Tallies] /\ h[0] = CountFrom
                /\ \A i \in 1 .. n : h[i] = CountedOn(h[i - 1], data[i])
                /\ CountAsync(data) = h[n].found
<1>1. Len(data) = n /\ \A i \in 1 .. n : data[i] \in Nat
  OBVIOUS
<1>2. \A s \in Tallies : \A byte : CountedOn(s, byte) \in Tallies
  BY DEF Tallies, CountedOn
<1>3. CountFrom \in Tallies
  BY DEF Tallies, CountFrom
<1> DEFINE step == [p \in Tallies \X Nat |-> CountedOn(p[1], data[p[2]])]
<1>4. Steps(step, Tallies)
  BY <1>2 DEF Steps
<1>5. PICK h : Unfolds(h, Tallies, CountFrom, step, n)
  <2> HIDE DEF step
  <2> QED BY <1>3, <1>4, RecursionExists
<1>6. h \in [0 .. n -> Tallies] /\ h[0] = CountFrom
  BY <1>5 DEF Unfolds
<1>7. ASSUME NEW i \in 1 .. n PROVE h[i] = CountedOn(h[i - 1], data[i])
  <2>1. i - 1 \in 0 .. n /\ i \in Nat
    OBVIOUS
  <2>2. h[i - 1] \in Tallies
    BY <1>6, <2>1
  <2>3. h[i] = step[<<h[i - 1], i>>]
    BY <1>5 DEF Unfolds
  <2>4. <<h[i - 1], i>> \in Tallies \X Nat
    BY ONLY <2>1, <2>2
  <2> QED BY <2>3, <2>4
<1> HIDE DEF step
<1> DEFINE after == CHOOSE a : CountsUpTo(a, data)
<1>8. CountAsync(data) = after[n].found
  <2>1. CountAsync(data) = after[Len(data)].found
    BY Zenon DEF CountAsync, CountsUpTo, CountFrom, CountedOn, EndsAsync
  <2> QED BY <1>1, <2>1
<1>9. CountsUpTo(h, data)
  <2>1. \A i \in 0 .. n : h[i] = IF i = 0 THEN CountFrom ELSE CountedOn(h[i - 1], data[i])
    <3>1. \A i \in 0 .. n : i = 0 \/ i \in 1 .. n
      OBVIOUS
    <3>2. \A i \in 1 .. n : i # 0
      OBVIOUS
    <3> QED BY <1>6, <1>7, <3>1, <3>2
  <2>2. h = [i \in 0 .. n |-> IF i = 0 THEN CountFrom ELSE CountedOn(h[i - 1], data[i])]
    BY <1>6, <2>1
  <2> QED BY <1>1, <2>2 DEF CountsUpTo
<1>10. CountsUpTo(after, data)
  BY <1>9, Zenon
<1> HIDE DEF after
<1>11. \A i \in 0 .. n : after[i] = IF i = 0 THEN CountFrom ELSE CountedOn(after[i - 1], data[i])
  BY <1>1, <1>10 DEF CountsUpTo
<1> DEFINE G == {i \in 0 .. n : after[i] = h[i]}
<1>12. 0 \in G
  BY <1>6, <1>11
<1>13. ASSUME NEW i \in 1 .. n, i - 1 \in G PROVE i \in G
  <2>1. i \in 0 .. n /\ i # 0
    OBVIOUS
  <2>2. after[i] = CountedOn(after[i - 1], data[i])
    BY <1>11, <2>1
  <2> QED BY <1>7, <1>13, <2>1, <2>2
<1>14. n \in G
  <2> HIDE DEF G
  <2>1. 0 .. n \subseteq G
    BY <1>12, <1>13, InductUpTo
  <2> QED BY <2>1
<1> QED BY <1>6, <1>7, <1>8, <1>14

\* The run of zero bytes that ends at the i-th is z bytes long.
ZerosBefore(data, i, z) ==
  /\ z \in 0 .. i /\ \A j \in i - z + 1 .. i : data[j] = 0
  /\ z < i => data[i - z] # 0

\* An A-sync is where the run before it is long enough.
LEMMA AsyncBehindZeros ==
  ASSUME NEW n \in Nat, NEW data \in [1 .. n -> Nat], NEW i \in 1 .. n, NEW z,
         ZerosBefore(data, i - 1, z)
  PROVE  IsAsyncAt(data, i) <=> data[i] = 128 /\ z >= MinZeros
<1>1. MinZeros \in Nat /\ MinZeros # 0 /\ z \in 0 .. i - 1
  BY MinZerosAssumption DEF ZerosBefore
<1>2. ASSUME data[i] = 128, z >= MinZeros PROVE IsAsyncAt(data, i)
  <2>1. i > MinZeros
    BY <1>1, <1>2
  <2>2. \A j \in i - MinZeros .. i - 1 : j \in (i - 1) - z + 1 .. i - 1
    BY <1>1, <1>2
  <2> QED BY <1>2, <2>1, <2>2 DEF ZerosBefore, IsAsyncAt
<1>3. ASSUME IsAsyncAt(data, i) PROVE data[i] = 128 /\ z >= MinZeros
  <2>1. data[i] = 128 /\ i > MinZeros /\ \A j \in i - MinZeros .. i - 1 : data[j] = 0
    BY <1>3 DEF IsAsyncAt
  <2>2. ASSUME ~(z >= MinZeros) PROVE FALSE
    <3>1. (i - 1) - z \in i - MinZeros .. i - 1 /\ z < i - 1
      BY <1>1, <2>1, <2>2
    <3>2. data[(i - 1) - z] = 0
      BY <2>1, <3>1
    <3> QED BY <3>1, <3>2 DEF ZerosBefore
  <2> QED BY <2>1, <2>2
<1> QED BY <1>2, <1>3

\* The run of zeros goes on with a zero and ends with anything else.
LEMMA ZerosGoOn ==
  ASSUME NEW n \in Nat, NEW data \in [1 .. n -> Nat], NEW i \in 1 .. n, NEW z,
         ZerosBefore(data, i - 1, z)
  PROVE  ZerosBefore(data, i, IF data[i] = 0 THEN z + 1 ELSE 0)
<1>1. z \in 0 .. i - 1 /\ (\A j \in (i - 1) - z + 1 .. i - 1 : data[j] = 0)
      /\ (z < i - 1 => data[(i - 1) - z] # 0)
  BY DEF ZerosBefore
<1>2. CASE data[i] = 0
  <2>1. z + 1 \in 0 .. i
    BY <1>1
  <2>2. \A j \in i - (z + 1) + 1 .. i : j = i \/ j \in (i - 1) - z + 1 .. i - 1
    BY <1>1
  <2>3. z + 1 < i => z < i - 1 /\ i - (z + 1) = (i - 1) - z
    BY <1>1
  <2> QED BY <1>1, <1>2, <2>1, <2>2, <2>3 DEF ZerosBefore
<1>3. CASE data[i] # 0
  <2>1. 0 \in 0 .. i /\ i - 0 = i /\ \A j \in i - 0 + 1 .. i : FALSE
    OBVIOUS
  <2> QED BY <1>3, <2>1 DEF ZerosBefore
<1> QED BY <1>2, <1>3

(* As many A-syncs are counted as there are, in bytes of any length: each     *)
(* 0x80 behind MinZeros zeros or more, and no zero is counted for two of them *)
(* (deframe.cpp:19-37).                                                       *)
THEOREM CountIsRight ==
  ASSUME NEW n \in Nat, NEW data \in [1 .. n -> Nat]
  PROVE  CountAsync(data) = Cardinality(Asyncs(data))
<1>1. PICK h : /\ h \in [0 .. n -> Tallies] /\ h[0] = CountFrom
               /\ \A i \in 1 .. n : h[i] = CountedOn(h[i - 1], data[i])
               /\ CountAsync(data) = h[n].found
  BY CountIs
<1> DEFINE Seen(i) == {k \in 1 .. i : IsAsyncAt(data, k)}
           Right(i) == /\ ZerosBefore(data, i, h[i].zeros)
                       /\ IsFiniteSet(Seen(i)) /\ Cardinality(Seen(i)) = h[i].found
           G == {i \in 0 .. n : Right(i)}
<1>2. 0 \in G
  <2>1. h[0].zeros = 0 /\ h[0].found = 0
    BY <1>1 DEF CountFrom
  <2>2. ZerosBefore(data, 0, 0)
    BY DEF ZerosBefore
  <2>3. Seen(0) = {}
    OBVIOUS
  <2>4. IsFiniteSet({}) /\ Cardinality({}) = 0
    BY FS_EmptySet
  <2>5. 0 \in 0 .. n
    OBVIOUS
  <2> HIDE DEF Seen
  <2>6. IsFiniteSet(Seen(0)) /\ Cardinality(Seen(0)) = h[0].found
    BY ONLY <2>1, <2>3, <2>4, Zenon
  <2>7. Right(0)
    BY ONLY <2>1, <2>2, <2>6, Zenon
  <2> HIDE DEF Right
  <2> QED BY <2>5, <2>7
<1>3. ASSUME NEW i \in 1 .. n, i - 1 \in G PROVE i \in G
  <2>1. i \in 0 .. n /\ i - 1 \in 0 .. n
    OBVIOUS
  <2>2. Right(i - 1)
    BY <1>3
  <2>3. PICK s \in Tallies : s = h[i - 1]
    BY <1>1, <2>1
  <2>4. s.zeros \in Nat /\ s.found \in Nat /\ h[i] = CountedOn(s, data[i])
    BY <1>1, <2>3 DEF Tallies
  <2>5. h[i].zeros = (IF data[i] = 0 THEN s.zeros + 1 ELSE 0)
        /\ h[i].found = (IF EndsAsync(s, data[i]) THEN s.found + 1 ELSE s.found)
    BY <2>4 DEF CountedOn
  <2>6. ZerosBefore(data, i, h[i].zeros)
    BY <2>2, <2>3, <2>5, ZerosGoOn
  <2>7. IsAsyncAt(data, i) <=> EndsAsync(s, data[i])
    <3>1. PICK z : z = s.zeros
      OBVIOUS
    <3>2. ZerosBefore(data, i - 1, z)
      BY <2>2, <2>3, <3>1
    <3>3. IsAsyncAt(data, i) <=> data[i] = 128 /\ z >= MinZeros
      BY <3>2, AsyncBehindZeros
    <3> QED BY <3>1, <3>3 DEF EndsAsync
  <2>8. IsFiniteSet(Seen(i - 1)) /\ Cardinality(Seen(i - 1)) = s.found
    BY <2>2, <2>3
  <2>9. \A k \in 1 .. i : k = i \/ k \in 1 .. i - 1
    OBVIOUS
  <2>10. \A k \in 1 .. i - 1 : k \in 1 .. i /\ k # i
    OBVIOUS
  <2>11. CASE IsAsyncAt(data, i)
    <3>1. Seen(i) = Seen(i - 1) \cup {i}
      BY <2>9, <2>10, <2>11
    <3>2. i \notin Seen(i - 1)
      BY <2>10
    <3> HIDE DEF Seen
    <3>3. PICK T : T = Seen(i - 1)
      OBVIOUS
    <3>4. IsFiniteSet(T) /\ Cardinality(T) = s.found /\ i \notin T /\ Seen(i) = T \cup {i}
      BY ONLY <2>8, <3>1, <3>2, <3>3, Zenon
    <3>5. IsFiniteSet(T \cup {i}) /\ Cardinality(T \cup {i}) = s.found + 1
      BY ONLY <3>4, FS_AddElement
    <3>6. IsFiniteSet(Seen(i)) /\ Cardinality(Seen(i)) = s.found + 1
      BY ONLY <3>4, <3>5, Zenon
    <3> QED BY <2>1, <2>5, <2>6, <2>7, <2>11, <3>6
  <2>12. CASE ~IsAsyncAt(data, i)
    <3>1. Seen(i) = Seen(i - 1)
      BY <2>9, <2>10, <2>12
    <3> HIDE DEF Seen
    <3> QED BY <2>1, <2>5, <2>6, <2>7, <2>8, <2>12, <3>1
  <2> QED BY <2>11, <2>12
<1>4. n \in G
  <2> HIDE DEF G
  <2>1. 0 .. n \subseteq G
    BY <1>2, <1>3, InductUpTo
  <2> QED BY <2>1
<1>5. Seen(n) = Asyncs(data)
  BY DEF Asyncs
<1> HIDE DEF Seen
<1> QED BY <1>1, <1>4, <1>5

------------------------------------------------------------------------------
(* A byte is the sum of its half-symbols, each in its place.                  *)

\* The powers of two that a byte is made of.
Powers == <<1, 2, 4, 8, 16, 32, 64, 128, 256>>

LEMMA PowersAre == \A e \in 0 .. 8 : 2 ^ e = Powers[e + 1]
<1>1. /\ 2 ^ 0 = 1 /\ 2 ^ 1 = 2 /\ 2 ^ 2 = 4 /\ 2 ^ 3 = 8 /\ 2 ^ 4 = 16 /\ 2 ^ 5 = 32 /\ 2 ^ 6 = 64
      /\ 2 ^ 7 = 128 /\ 2 ^ 8 = 256
  OBVIOUS
<1>2. /\ Powers[1] = 1 /\ Powers[2] = 2 /\ Powers[3] = 4 /\ Powers[4] = 8 /\ Powers[5] = 16
      /\ Powers[6] = 32 /\ Powers[7] = 64 /\ Powers[8] = 128 /\ Powers[9] = 256
  BY DEF Powers
<1> SUFFICES ASSUME NEW e \in 0 .. 8 PROVE 2 ^ e = Powers[e + 1]
  OBVIOUS
<1>3. e = 0 => 2 ^ e = Powers[e + 1]
  <2> SUFFICES ASSUME e = 0 PROVE 2 ^ e = Powers[e + 1]
    OBVIOUS
  <2>1. e + 1 = 1
    OBVIOUS
  <2> QED BY <1>1, <1>2, <2>1, Zenon
<1>4. e = 1 => 2 ^ e = Powers[e + 1]
  <2> SUFFICES ASSUME e = 1 PROVE 2 ^ e = Powers[e + 1]
    OBVIOUS
  <2>1. e + 1 = 2
    OBVIOUS
  <2> QED BY <1>1, <1>2, <2>1, Zenon
<1>5. e = 2 => 2 ^ e = Powers[e + 1]
  <2> SUFFICES ASSUME e = 2 PROVE 2 ^ e = Powers[e + 1]
    OBVIOUS
  <2>1. e + 1 = 3
    OBVIOUS
  <2> QED BY <1>1, <1>2, <2>1, Zenon
<1>6. e = 3 => 2 ^ e = Powers[e + 1]
  <2> SUFFICES ASSUME e = 3 PROVE 2 ^ e = Powers[e + 1]
    OBVIOUS
  <2>1. e + 1 = 4
    OBVIOUS
  <2> QED BY <1>1, <1>2, <2>1, Zenon
<1>7. e = 4 => 2 ^ e = Powers[e + 1]
  <2> SUFFICES ASSUME e = 4 PROVE 2 ^ e = Powers[e + 1]
    OBVIOUS
  <2>1. e + 1 = 5
    OBVIOUS
  <2> QED BY <1>1, <1>2, <2>1, Zenon
<1>8. e = 5 => 2 ^ e = Powers[e + 1]
  <2> SUFFICES ASSUME e = 5 PROVE 2 ^ e = Powers[e + 1]
    OBVIOUS
  <2>1. e + 1 = 6
    OBVIOUS
  <2> QED BY <1>1, <1>2, <2>1, Zenon
<1>9. e = 6 => 2 ^ e = Powers[e + 1]
  <2> SUFFICES ASSUME e = 6 PROVE 2 ^ e = Powers[e + 1]
    OBVIOUS
  <2>1. e + 1 = 7
    OBVIOUS
  <2> QED BY <1>1, <1>2, <2>1, Zenon
<1>10. e = 7 => 2 ^ e = Powers[e + 1]
  <2> SUFFICES ASSUME e = 7 PROVE 2 ^ e = Powers[e + 1]
    OBVIOUS
  <2>1. e + 1 = 8
    OBVIOUS
  <2> QED BY <1>1, <1>2, <2>1, Zenon
<1>11. e = 8 => 2 ^ e = Powers[e + 1]
  <2> SUFFICES ASSUME e = 8 PROVE 2 ^ e = Powers[e + 1]
    OBVIOUS
  <2>1. e + 1 = 9
    OBVIOUS
  <2> QED BY <1>1, <1>2, <2>1, Zenon
<1>12. e = 0 \/ e = 1 \/ e = 2 \/ e = 3 \/ e = 4 \/ e = 5 \/ e = 6 \/ e = 7 \/ e = 8
  OBVIOUS
<1> QED BY <1>3, <1>4, <1>5, <1>6, <1>7, <1>8, <1>9, <1>10, <1>11, <1>12

\* How many half-symbols there are in a byte, and how many values of one.
LEMMA WidthsAre ==
  ASSUME NEW w \in Widths
  PROVE  /\ w = 1 \/ w = 2 \/ w = 4
         /\ w = 1 => PerByte(w) = 8 /\ 2 ^ w = 2
         /\ w = 2 => PerByte(w) = 4 /\ 2 ^ w = 4
         /\ w = 4 => PerByte(w) = 2 /\ 2 ^ w = 16
<1>1. 2 ^ 1 = 2 /\ 2 ^ 2 = 4 /\ 2 ^ 4 = 16
  OBVIOUS
<1>2. w = 1 \/ w = 2 \/ w = 4
  BY DEF Widths
<1>3. w = 1 => 2 ^ w = 2
  BY <1>1
<1>4. w = 2 => 2 ^ w = 4
  BY <1>1
<1>5. w = 4 => 2 ^ w = 16
  BY <1>1
<1> QED BY <1>2, <1>3, <1>4, <1>5 DEF PerByte

\* The bytes that a port sends.
Octets == 0 .. 255

\* One half-symbol more of a byte.
LEMMA OneSymbolMore ==
  ASSUME NEW b \in Octets
  PROVE  /\ b % 2 = (b % 1) + ((b \div 1) % 2) * 1
         /\ b % 4 = (b % 2) + ((b \div 2) % 2) * 2
         /\ b % 8 = (b % 4) + ((b \div 4) % 2) * 4
         /\ b % 16 = (b % 8) + ((b \div 8) % 2) * 8
         /\ b % 32 = (b % 16) + ((b \div 16) % 2) * 16
         /\ b % 64 = (b % 32) + ((b \div 32) % 2) * 32
         /\ b % 128 = (b % 64) + ((b \div 64) % 2) * 64
         /\ b % 256 = (b % 128) + ((b \div 128) % 2) * 128
         /\ b % 4 = (b % 1) + ((b \div 1) % 4) * 1
         /\ b % 16 = (b % 4) + ((b \div 4) % 4) * 4
         /\ b % 64 = (b % 16) + ((b \div 16) % 4) * 16
         /\ b % 256 = (b % 64) + ((b \div 64) % 4) * 64
         /\ b % 16 = (b % 1) + ((b \div 1) % 16) * 1
         /\ b % 256 = (b % 16) + ((b \div 16) % 16) * 16
         /\ b % 1 = 0 /\ b % 256 = b
<1>1. b \in 0 .. 255
  BY DEF Octets
<1> QED BY ONLY <1>1

\* The first j half-symbols of a byte are its low bits.
LowBits(b, w, j) == b % Powers[w * j + 1]
LEMMA LowBitsAre ==
  ASSUME NEW b \in Octets, NEW w \in Widths
  PROVE  /\ LowBits(b, w, 0) = 0 /\ LowBits(b, w, PerByte(w)) = b
         /\ \A j \in 1 .. PerByte(w) :
              LowBits(b, w, j) = LowBits(b, w, j - 1) + HalfSymbol(b, j - 1, w) * 2 ^ (w * (j - 1))
<1>1. /\ w = 1 \/ w = 2 \/ w = 4
      /\ w = 1 => PerByte(w) = 8 /\ 2 ^ w = 2
      /\ w = 2 => PerByte(w) = 4 /\ 2 ^ w = 4
      /\ w = 4 => PerByte(w) = 2 /\ 2 ^ w = 16
  BY WidthsAre
<1>2. LowBits(b, w, 0) = 0 /\ LowBits(b, w, PerByte(w)) = b
  <2>1. w * 0 + 1 = 1 /\ w * PerByte(w) + 1 = 9
    BY <1>1
  <2>2. Powers[1] = 1 /\ Powers[9] = 256
    BY DEF Powers
  <2>3. LowBits(b, w, 0) = b % 1 /\ LowBits(b, w, PerByte(w)) = b % 256
    BY <2>1, <2>2, Zenon DEF LowBits
  <2> QED BY <2>3, OneSymbolMore
<1>3. ASSUME NEW j \in 1 .. PerByte(w)
      PROVE  LowBits(b, w, j) = LowBits(b, w, j - 1) + HalfSymbol(b, j - 1, w) * 2 ^ (w * (j - 1))
  <2> DEFINE e == w * (j - 1)
  <2>1. e \in 0 .. 8 /\ w * j = e + w
    <3>1. j \in Nat /\ j >= 1 /\ j <= PerByte(w)
      BY <1>1, WidthsAre
    <3>2. CASE w = 1
      <4>1. PerByte(w) = 8 /\ e = 1 * (j - 1) /\ w * j = 1 * j
        BY <1>1, <3>2
      <4> QED BY ONLY <3>1, <3>2, <4>1
    <3>3. CASE w = 2
      <4>1. PerByte(w) = 4 /\ e = 2 * (j - 1) /\ w * j = 2 * j
        BY <1>1, <3>3
      <4> QED BY ONLY <3>1, <3>3, <4>1
    <3>4. CASE w = 4
      <4>1. PerByte(w) = 2 /\ e = 4 * (j - 1) /\ w * j = 4 * j
        BY <1>1, <3>4
      <4> QED BY ONLY <3>1, <3>4, <4>1
    <3> QED BY <1>1, <3>2, <3>3, <3>4
  <2>2. 2 ^ e = Powers[e + 1]
    BY <2>1, PowersAre
  <2>3. /\ w = 1 => e \in {0, 1, 2, 3, 4, 5, 6, 7}
        /\ w = 2 => e \in {0, 2, 4, 6}
        /\ w = 4 => e \in {0, 4}
    BY <1>1
  <2> DEFINE lower == b % Powers[e + 1]
             upper == b % Powers[(e + w) + 1]
             part == (b \div Powers[e + 1]) % (2 ^ w)
  <2>4. LowBits(b, w, j) = upper /\ LowBits(b, w, j - 1) = lower
    BY <2>1, Zenon DEF LowBits
  <2>5. HalfSymbol(b, j - 1, w) = part
    BY <2>2, Zenon DEF HalfSymbol
  <2> HIDE DEF e
  <2>6. CASE w = 1
    <3>1. e + w = e + 1 /\ 2 ^ w = 2
      BY <1>1, <2>6
    <3>2. upper = b % Powers[(e + 1) + 1] /\ part = (b \div Powers[e + 1]) % 2
      BY <3>1
    <3>3. e \in {0, 1, 2, 3} => upper = lower + part * Powers[e + 1]
      BY <3>2, OneSymbolMore DEF Powers
    <3>4. e \in {4, 5, 6, 7} => upper = lower + part * Powers[e + 1]
      BY <3>2, OneSymbolMore DEF Powers
    <3>5. upper = lower + part * Powers[e + 1]
      BY <2>3, <2>6, <3>3, <3>4
    <3> QED BY <2>2, <2>4, <2>5, <3>5 DEF e
  <2>7. CASE w = 2
    <3>1. e + w = e + 2 /\ 2 ^ w = 4
      BY <1>1, <2>7
    <3>2. upper = b % Powers[(e + 2) + 1] /\ part = (b \div Powers[e + 1]) % 4
      BY <3>1
    <3>3. e \in {0, 2, 4, 6} => upper = lower + part * Powers[e + 1]
      BY <3>2, OneSymbolMore DEF Powers
    <3>5. upper = lower + part * Powers[e + 1]
      BY <2>3, <2>7, <3>3
    <3> QED BY <2>2, <2>4, <2>5, <3>5 DEF e
  <2>8. CASE w = 4
    <3>1. e + w = e + 4 /\ 2 ^ w = 16
      BY <1>1, <2>8
    <3>2. upper = b % Powers[(e + 4) + 1] /\ part = (b \div Powers[e + 1]) % 16
      BY <3>1
    <3>3. e \in {0, 4} => upper = lower + part * Powers[e + 1]
      BY <3>2, OneSymbolMore DEF Powers
    <3>5. upper = lower + part * Powers[e + 1]
      BY <2>3, <2>8, <3>3
    <3> QED BY <2>2, <2>4, <2>5, <3>5 DEF e
  <2> QED BY <1>1, <2>6, <2>7, <2>8
<1> QED BY <1>2, <1>3

\* The sum of the half-symbols, one by one.
GatheredUpTo(upTo, symbols, first, w) ==
  upTo = [j \in 0 .. PerByte(w) |->
            IF j = 0 THEN 0 ELSE upTo[j - 1] + symbols[first + j - 1] * 2 ^ (w * (j - 1))]

\* The half-symbols of a byte are gathered to the byte.
LEMMA GatherIs ==
  ASSUME NEW b \in Octets, NEW w \in Widths, NEW symbols, NEW first \in Nat,
         \A j \in 1 .. PerByte(w) : symbols[first + j - 1] = HalfSymbol(b, j - 1, w)
  PROVE  Gather(symbols, first, w) = b
<1>1. PICK per \in Nat : per = PerByte(w)
  BY WidthsAre
<1> DEFINE h == [j \in 0 .. per |-> LowBits(b, w, j)]
           upTo == CHOOSE u : GatheredUpTo(u, symbols, first, w)
<1>2. Gather(symbols, first, w) = upTo[per]
  <2>1. Gather(symbols, first, w) = upTo[PerByte(w)]
    BY Zenon DEF Gather, GatheredUpTo
  <2> QED BY <1>1, <2>1
<1>3. h[0] = 0 /\ h[per] = b
  BY <1>1, LowBitsAre
<1>4. ASSUME NEW j \in 1 .. per
      PROVE  h[j] = h[j - 1] + symbols[first + j - 1] * 2 ^ (w * (j - 1))
  <2>1. j \in 0 .. per /\ j - 1 \in 0 .. per
    OBVIOUS
  <2>2. h[j] = LowBits(b, w, j) /\ h[j - 1] = LowBits(b, w, j - 1)
    BY <2>1
  <2>3. LowBits(b, w, j) = LowBits(b, w, j - 1) + HalfSymbol(b, j - 1, w) * 2 ^ (w * (j - 1))
    BY <1>1, LowBitsAre
  <2>4. symbols[first + j - 1] = HalfSymbol(b, j - 1, w)
    BY <1>1
  <2> HIDE DEF h
  <2> QED BY ONLY <2>2, <2>3, <2>4, Zenon
<1>5. GatheredUpTo(h, symbols, first, w)
  <2>1. \A j \in 0 .. per : h[j] = IF j = 0 THEN 0 ELSE h[j - 1] + symbols[first + j - 1] * 2 ^ (w * (j - 1))
    <3>1. \A j \in 0 .. per : j = 0 \/ j \in 1 .. per
      OBVIOUS
    <3> HIDE DEF h
    <3> QED BY <1>3, <1>4, <3>1
  <2>2. h = [j \in 0 .. per |-> h[j]]
    OBVIOUS
  <2> HIDE DEF h
  <2>3. h = [j \in 0 .. per |-> IF j = 0 THEN 0 ELSE h[j - 1] + symbols[first + j - 1] * 2 ^ (w * (j - 1))]
    BY <2>1, <2>2
  <2> QED BY <1>1, <2>3 DEF GatheredUpTo
<1>6. GatheredUpTo(upTo, symbols, first, w)
  <2> HIDE DEF h
  <2> QED BY <1>5
<1> HIDE DEF h, upTo
<1>7. \A j \in 0 .. per : upTo[j] = IF j = 0 THEN 0 ELSE upTo[j - 1] + symbols[first + j - 1] * 2 ^ (w * (j - 1))
  BY <1>1, <1>6 DEF GatheredUpTo
<1> DEFINE G == {j \in 0 .. per : upTo[j] = h[j]}
<1>8. 0 \in G
  BY <1>3, <1>7
<1>9. ASSUME NEW j \in 1 .. per, j - 1 \in G PROVE j \in G
  <2>1. j \in 0 .. per /\ j # 0
    OBVIOUS
  <2>2. upTo[j] = upTo[j - 1] + symbols[first + j - 1] * 2 ^ (w * (j - 1))
    BY <1>7, <2>1
  <2>3. upTo[j - 1] = h[j - 1]
    BY <1>9
  <2>4. upTo[j] = h[j]
    BY <1>4, <2>2, <2>3, Zenon
  <2> QED BY <2>1, <2>4
<1>10. per \in G
  <2> HIDE DEF G
  <2>1. 0 .. per \subseteq G
    BY <1>8, <1>9, InductUpTo
  <2> QED BY <2>1
<1> QED BY <1>2, <1>3, <1>10

------------------------------------------------------------------------------
(* Where the port puts the half-symbols of the bytes, and that the probe and  *)
(* the first step of the front end give them back.                            *)

\* A half-symbol of a byte is one of the values that fit in it.
Fits(w) == 0 .. 2 ^ w - 1
LEMMA HalfSymbolFits ==
  ASSUME NEW b \in Octets, NEW w \in Widths, NEW j \in 0 .. PerByte(w) - 1
  PROVE  HalfSymbol(b, j, w) \in Fits(w)
<1>1. /\ w = 1 \/ w = 2 \/ w = 4
      /\ w = 1 => PerByte(w) = 8 /\ 2 ^ w = 2
      /\ w = 2 => PerByte(w) = 4 /\ 2 ^ w = 4
      /\ w = 4 => PerByte(w) = 2 /\ 2 ^ w = 16
  BY WidthsAre
<1>2. w * j \in 0 .. 8
  <2>1. CASE w = 1
    <3>1. w * j = 1 * j /\ PerByte(w) = 8
      BY <1>1, <2>1
    <3> QED BY <3>1
  <2>2. CASE w = 2
    <3>1. w * j = 2 * j /\ PerByte(w) = 4
      BY <1>1, <2>2
    <3> QED BY <3>1
  <2>3. CASE w = 4
    <3>1. w * j = 4 * j /\ PerByte(w) = 2
      BY <1>1, <2>3
    <3> QED BY <3>1
  <2> QED BY <1>1, <2>1, <2>2, <2>3
<1>3. 2 ^ (w * j) = Powers[w * j + 1]
  BY <1>2, PowersAre
<1>4. Powers[w * j + 1] \in {1, 2, 4, 8, 16, 32, 64, 128, 256}
  BY <1>2 DEF Powers
<1>5. PICK p \in {1, 2, 4, 8, 16, 32, 64, 128, 256} : p = 2 ^ (w * j)
  BY <1>3, <1>4
<1>6. HalfSymbol(b, j, w) = (b \div p) % (2 ^ w)
  BY <1>5, Zenon DEF HalfSymbol
<1>7. PICK x : x = b \div p
  OBVIOUS
<1>8. x \in Nat
  <2>1. b \in Nat
    BY DEF Octets
  <2> QED BY ONLY <1>5, <1>7, <2>1
<1>9. PICK s : s = 2 ^ w
  OBVIOUS
<1>10. s \in {2, 4, 16}
  BY <1>1, <1>9
<1>11. x % s \in 0 .. s - 1
  BY ONLY <1>8, <1>10
<1> QED BY <1>6, <1>7, <1>9, <1>11, Zenon DEF Fits

\* Reversing two bits twice gives them back.
LEMMA SwappedTwice ==
  ASSUME NEW s \in 0 .. 3
  PROVE  Swapped(s) \in 0 .. 3 /\ Swapped(Swapped(s)) = s
<1>1. s = 0 \/ s = 1 \/ s = 2 \/ s = 3
  OBVIOUS
<1>2. Swapped(s) = 2 * (s % 2) + (s \div 2)
  BY DEF Swapped
<1>3. PICK t : t = Swapped(s)
  OBVIOUS
<1>4. Swapped(t) = 2 * (t % 2) + (t \div 2)
  BY DEF Swapped
<1>5. (s = 0 => t = 0) /\ (s = 1 => t = 2) /\ (s = 2 => t = 1) /\ (s = 3 => t = 3)
  BY <1>2, <1>3
<1>6. (t = 0 => Swapped(t) = 0) /\ (t = 2 => Swapped(t) = 1) /\ (t = 1 => Swapped(t) = 2) /\ (t = 3 => Swapped(t) = 3)
  BY <1>4
<1> QED BY <1>1, <1>3, <1>5, <1>6

\* The parts of a wiring.
LEMMA WiringHas ==
  ASSUME NEW wiring \in Wirings
  PROVE  /\ wiring.width \in Widths /\ wiring.left \in 0 .. PerByte(wiring.width) - 1
         /\ wiring.order \in 0 .. NumOrders(wiring.width) - 1
<1>1. PICK w \in Widths : wiring \in [width : {w}, order : 0 .. NumOrders(w) - 1, left : 0 .. PerByte(w) - 1]
  BY DEF Wirings
<1>2. wiring.width = w
  BY <1>1
<1> QED BY <1>1, <1>2

\* What goes out of a byte fits as well.
LEMMA SentFits ==
  ASSUME NEW wiring \in Wirings, NEW b \in Octets, NEW j \in 0 .. PerByte(wiring.width) - 1
  PROVE  SentAs(b, j, wiring) \in Fits(wiring.width)
<1>1. wiring.width \in Widths /\ wiring.order \in 0 .. NumOrders(wiring.width) - 1
  BY WiringHas
<1>2. PICK w \in Widths : w = wiring.width
  BY <1>1
<1>3. j \in 0 .. PerByte(w) - 1
  BY <1>2
<1>4. CASE wiring.order = 0
  <2>1. SentAs(b, j, wiring) = HalfSymbol(b, j, w)
    BY <1>2, <1>4 DEF SentAs
  <2> QED BY <1>2, <1>3, <2>1, HalfSymbolFits
<1>5. CASE wiring.order # 0 /\ w = 4
  <2>1. SentAs(b, j, wiring) = HalfSymbol(b, 1 - j, 4)
    BY <1>2, <1>5 DEF SentAs
  <2>2. 4 \in Widths /\ PerByte(4) = 2
    BY DEF Widths, PerByte
  <2>3. 1 - j \in 0 .. PerByte(4) - 1
    BY <1>3, <1>5, <2>2
  <2>4. HalfSymbol(b, 1 - j, 4) \in Fits(4)
    BY <2>2, <2>3, HalfSymbolFits
  <2> QED BY <1>2, <1>5, <2>1, <2>4
<1>6. CASE wiring.order # 0 /\ w # 4
  <2>1. w = 2
    <3>1. w = 1 => NumOrders(w) = 1
      BY DEF NumOrders
    <3> QED BY <1>1, <1>2, <1>6, <3>1 DEF Widths
  <2>2. SentAs(b, j, wiring) = Swapped(HalfSymbol(b, j, 2))
    BY <1>2, <1>6 DEF SentAs
  <2>3. Fits(2) = 0 .. 3
    BY DEF Fits
  <2>4. HalfSymbol(b, j, 2) \in 0 .. 3
    BY <1>3, <2>1, <2>3, HalfSymbolFits
  <2> QED BY <1>2, <2>1, <2>2, <2>3, <2>4, SwappedTwice
<1> QED BY <1>4, <1>5, <1>6

\* Where the half-symbols of the bytes are on the wires.
InPlace(symbols, bytes, wiring, per, left) ==
  \A k \in 1 .. Len(bytes), j \in 0 .. per - 1 :
    symbols[left + per * (k - 1) + j + 1] = SentAs(bytes[k], j, wiring)
LEMMA OnTheWiresIs ==
  ASSUME NEW wiring \in Wirings, NEW n \in Nat, NEW bytes \in [1 .. n -> Octets],
         NEW w, NEW per, NEW left, w = wiring.width, per = PerByte(w), left = wiring.left
  PROVE  /\ left + per * n \in Nat
         /\ OnTheWires(bytes, wiring) \in [1 .. left + per * n -> Fits(w)]
         /\ InPlace(OnTheWires(bytes, wiring), bytes, wiring, per, left)
<1>1. /\ w = 1 \/ w = 2 \/ w = 4
      /\ w = 1 => PerByte(w) = 8 /\ 2 ^ w = 2
      /\ w = 2 => PerByte(w) = 4 /\ 2 ^ w = 4
      /\ w = 4 => PerByte(w) = 2 /\ 2 ^ w = 16
  BY WidthsAre, WiringHas
<1>2. per \in {8, 4, 2} /\ left \in 0 .. per - 1 /\ left \in Nat
  <2>1. per \in {8, 4, 2}
    BY <1>1
  <2>2. left \in 0 .. per - 1
    BY WiringHas
  <2> QED BY <2>1, <2>2
<1>3. PICK bound : bound = left + per * n
  OBVIOUS
<1>4. bound \in Nat /\ (per = 8 => bound = left + 8 * n) /\ (per = 4 => bound = left + 4 * n)
      /\ (per = 2 => bound = left + 2 * n)
  <2>1. (per = 8 => bound = left + 8 * n) /\ (per = 4 => bound = left + 4 * n)
        /\ (per = 2 => bound = left + 2 * n)
    BY <1>3
  <2> QED BY <1>2, <2>1
<1>5. Len(bytes) = n
  OBVIOUS
<1> DEFINE sent(i) == IF i <= left THEN 0
                      ELSE SentAs(bytes[(i - 1 - left) \div per + 1], (i - 1 - left) % per, wiring)
<1>6. OnTheWires(bytes, wiring) = [i \in 1 .. bound |-> sent(i)]
  BY <1>3, <1>5, Zenon DEF OnTheWires
<1>7. ASSUME NEW i \in 1 .. bound PROVE sent(i) \in Fits(w)
  <2>1. CASE i <= left
    <3>1. sent(i) = 0
      BY <2>1
    <3>2. 0 \in Fits(w)
      BY <1>1 DEF Fits
    <3> QED BY <3>1, <3>2
  <2>2. CASE ~(i <= left)
    <3>1. PICK at : at = i - 1 - left
      OBVIOUS
    <3>2. at \in Nat /\ (per = 8 => at < 8 * n) /\ (per = 4 => at < 4 * n) /\ (per = 2 => at < 2 * n)
      <4>1. i \in Nat /\ i <= bound /\ i > left /\ i >= 1
        BY <1>2, <1>4, <2>2
      <4> QED BY ONLY <1>2, <1>4, <3>1, <4>1
    <3>3. (at \div per) + 1 \in 1 .. n /\ at % per \in 0 .. per - 1
      BY ONLY <1>2, <3>2
    <3>4. sent(i) = SentAs(bytes[(at \div per) + 1], at % per, wiring)
      BY <2>2, <3>1
    <3>5. bytes[(at \div per) + 1] \in Octets
      BY <3>3
    <3> QED BY <3>3, <3>4, <3>5, SentFits
  <2> QED BY <2>1, <2>2
<1>8. ASSUME NEW k \in 1 .. n, NEW j \in 0 .. per - 1
      PROVE  OnTheWires(bytes, wiring)[left + per * (k - 1) + j + 1] = SentAs(bytes[k], j, wiring)
  <2>1. PICK at : at = per * (k - 1) + j
    OBVIOUS
  <2>2. (per = 8 => at = 8 * (k - 1) + j) /\ (per = 4 => at = 4 * (k - 1) + j)
        /\ (per = 2 => at = 2 * (k - 1) + j)
    BY <2>1
  <2>3. at \in Nat /\ left + at + 1 \in 1 .. bound
    <3>1. k \in Nat /\ k >= 1 /\ k <= n /\ j \in 0 .. per - 1
      OBVIOUS
    <3>2. at \in Nat
      BY ONLY <1>2, <2>2, <3>1
    <3>3. left + at + 1 <= bound
      <4>1. per = 8 => left + at + 1 <= bound
        BY ONLY <1>2, <1>4, <2>2, <3>1
      <4>2. per = 4 => left + at + 1 <= bound
        BY ONLY <1>2, <1>4, <2>2, <3>1
      <4>3. per = 2 => left + at + 1 <= bound
        BY ONLY <1>2, <1>4, <2>2, <3>1
      <4> QED BY <1>2, <4>1, <4>2, <4>3
    <3>4. left + at + 1 \in Nat /\ left + at + 1 >= 1
      BY ONLY <1>2, <3>2
    <3> QED BY <1>4, <3>2, <3>3, <3>4
  <2>4. at \div per = k - 1 /\ at % per = j
    <3>1. k \in Nat /\ k >= 1
      OBVIOUS
    <3> QED BY ONLY <1>2, <2>2, <3>1, j \in 0 .. per - 1
  <2>5. PICK i : i = left + at + 1
    OBVIOUS
  <2>6. i - 1 - left = at /\ ~(i <= left)
    BY <1>2, <2>3, <2>5
  <2>7. sent(i) = SentAs(bytes[(at \div per) + 1], at % per, wiring)
    BY <2>6, Zenon
  <2>8. (at \div per) + 1 = k
    BY <2>4
  <2>9. sent(i) = SentAs(bytes[k], j, wiring)
    BY <2>4, <2>7, <2>8, Zenon
  <2>10. left + per * (k - 1) + j + 1 = i
    <3>1. per * (k - 1) \in Nat
      BY <1>2, <2>2
    <3> QED BY <1>2, <2>1, <2>5, <3>1
  <2>11. OnTheWires(bytes, wiring)[i] = sent(i)
    BY <1>6, <2>3, <2>5, Zenon
  <2> QED BY <2>9, <2>10, <2>11, Zenon
<1> HIDE DEF sent
<1>9. InPlace(OnTheWires(bytes, wiring), bytes, wiring, per, left)
  BY <1>5, <1>8 DEF InPlace
<1>10. OnTheWires(bytes, wiring) \in [1 .. bound -> Fits(w)]
  BY <1>6, <1>7
<1> QED BY <1>3, <1>4, <1>9, <1>10

\* The probe keeps the half-symbols and the front end takes them out again.
LEMMA HalvesComeBack ==
  ASSUME NEW w \in Widths, NEW n \in Nat, NEW symbols \in [1 .. n -> Fits(w)]
  PROVE  /\ Len(Sampled(symbols)) = n \div 2 /\ n \div 2 \in Nat
         /\ HalfSymbols(Sampled(symbols), w) \in Seq(Nat)
         /\ Len(HalfSymbols(Sampled(symbols), w)) = 2 * (n \div 2)
         /\ \A i \in 1 .. 2 * (n \div 2) : HalfSymbols(Sampled(symbols), w)[i] = symbols[i]
<1>1. PICK s \in {2, 4, 16} : s = 2 ^ w
  BY WidthsAre
<1>2. \A i \in 1 .. n : symbols[i] \in 0 .. s - 1
  BY <1>1 DEF Fits
<1>3. PICK m : m = n \div 2
  OBVIOUS
<1>4. m \in Nat /\ 2 * m <= n
  BY <1>3
<1>5. PICK raw : raw = Sampled(symbols)
  OBVIOUS
<1>6. raw = [k \in 1 .. m |-> symbols[2 * k - 1] + 16 * symbols[2 * k]]
  <2>1. Len(symbols) = n
    OBVIOUS
  <2> QED BY <1>3, <1>5, <2>1, Zenon DEF Sampled
<1>7. ASSUME NEW k \in 1 .. m
      PROVE  /\ symbols[2 * k - 1] \in 0 .. s - 1 /\ symbols[2 * k] \in 0 .. s - 1
             /\ raw[k] = symbols[2 * k - 1] + 16 * symbols[2 * k]
  BY <1>2, <1>4, <1>6
<1>8. Len(raw) = m
  BY <1>4, <1>6
<1>9. PICK halves : halves = HalfSymbols(raw, w)
  OBVIOUS
<1>10. halves = [i \in 1 .. 2 * m |-> IF i % 2 = 1 THEN raw[(i + 1) \div 2] % s
                                      ELSE (raw[i \div 2] \div 16) % s]
  BY <1>1, <1>8, <1>9, Zenon DEF HalfSymbols
<1>11. ASSUME NEW i \in 1 .. 2 * m PROVE halves[i] = symbols[i]
  <2>1. CASE i % 2 = 1
    <3>1. PICK k : k = (i + 1) \div 2
      OBVIOUS
    <3>2. k \in 1 .. m /\ 2 * k - 1 = i
      BY <1>4, <2>1, <3>1
    <3>3. halves[i] = raw[k] % s
      BY <1>10, <2>1, <3>1
    <3>4. PICK a, b : a = symbols[2 * k - 1] /\ b = symbols[2 * k]
      OBVIOUS
    <3>5. a \in 0 .. s - 1 /\ b \in 0 .. s - 1 /\ raw[k] = a + 16 * b
      BY <1>7, <3>2, <3>4
    <3>6. (a + 16 * b) % s = a
      <4>1. s = 2 => (a + 16 * b) % s = a
        BY <3>5
      <4>2. s = 4 => (a + 16 * b) % s = a
        BY <3>5
      <4>3. s = 16 => (a + 16 * b) % s = a
        BY <3>5
      <4> QED BY <4>1, <4>2, <4>3
    <3> QED BY <3>2, <3>3, <3>4, <3>5, <3>6
  <2>2. CASE i % 2 # 1
    <3>1. PICK k : k = i \div 2
      OBVIOUS
    <3>2. k \in 1 .. m /\ 2 * k = i
      BY <1>4, <2>2, <3>1
    <3>3. halves[i] = (raw[k] \div 16) % s
      BY <1>10, <2>2, <3>1
    <3>4. PICK a, b : a = symbols[2 * k - 1] /\ b = symbols[2 * k]
      OBVIOUS
    <3>5. a \in 0 .. s - 1 /\ b \in 0 .. s - 1 /\ raw[k] = a + 16 * b
      BY <1>7, <3>2, <3>4
    <3>6. ((a + 16 * b) \div 16) % s = b
      <4>0. (a + 16 * b) \div 16 = b
        BY <3>5
      <4>1. s = 2 => b % s = b
        BY <3>5
      <4>2. s = 4 => b % s = b
        BY <3>5
      <4>3. s = 16 => b % s = b
        BY <3>5
      <4> QED BY <4>0, <4>1, <4>2, <4>3
    <3> QED BY <3>2, <3>3, <3>4, <3>5, <3>6
  <2> QED BY <2>1, <2>2
<1>12. \A i \in 1 .. 2 * m : symbols[i] \in Nat
  BY <1>1, <1>2, <1>4
<1>13. 2 * m \in Nat
  BY <1>4
<1>14. halves = [i \in 1 .. 2 * m |-> halves[i]]
  BY <1>10
<1>15. halves \in [1 .. 2 * m -> Nat]
  BY <1>11, <1>12, <1>14
<1>16. halves \in Seq(Nat) /\ Len(halves) = 2 * m
  BY <1>13, <1>15
<1> QED BY <1>3, <1>4, <1>5, <1>8, <1>9, <1>11, <1>16

------------------------------------------------------------------------------
(* That the phase of the wiring restores the bytes, of a port of one or two   *)
(* wires and of one of four.                                                  *)

\* The phase with the parity and the order of the wiring is tried.
LEMMA PhaseIsTried ==
  ASSUME NEW w \in Widths, NEW parity \in 0 .. NumPhases(w) - 1, NEW order \in 0 .. NumOrders(w) - 1
  PROVE  \E i \in DOMAIN Phases(w) :
           Phases(w)[i] = [parity |-> parity, order |-> order, width |-> w]
<1>1. PICK orders, phases : orders = NumOrders(w) /\ phases = NumPhases(w)
  OBVIOUS
<1>2. orders \in {1, 2} /\ phases \in {2, 4, 8}
  BY <1>1, WidthsAre DEF NumOrders, NumPhases
<1>3. Phases(w) = [i \in 1 .. phases * orders |->
                     [parity |-> (i - 1) \div orders, order |-> (i - 1) % orders, width |-> w]]
  BY <1>1, Zenon DEF Phases
<1>4. parity \in Nat /\ parity < phases /\ order \in 0 .. orders - 1
  BY <1>1, <1>2
<1>5. PICK i : i = (IF orders = 1 THEN parity ELSE 2 * parity + order) + 1
  OBVIOUS
<1>6. i \in 1 .. phases * orders
  <2>1. CASE orders = 1
    BY <1>2, <1>4, <1>5, <2>1
  <2>2. CASE orders = 2
    <3>1. phases * orders = 2 * phases
      BY <1>2, <2>2
    <3> QED BY <1>2, <1>4, <1>5, <2>2, <3>1
  <2> QED BY <1>2, <2>1, <2>2
<1>7. (i - 1) \div orders = parity /\ (i - 1) % orders = order
  <2>1. CASE orders = 1
    BY <1>2, <1>4, <1>5, <2>1
  <2>2. CASE orders = 2
    BY <1>2, <1>4, <1>5, <2>2
  <2> QED BY <1>2, <2>1, <2>2
<1> QED BY <1>3, <1>6, <1>7

\* One wire or two: the half-symbols as they come, in the order of the port.
LEMMA NarrowPortsRestored ==
  ASSUME NEW wiring \in Wirings, wiring.width # 4, NEW n \in Nat, n >= 2,
         NEW bytes \in [1 .. n -> Octets],
         NEW phase, phase = [parity |-> wiring.left, order |-> wiring.order, width |-> wiring.width]
  PROVE  Restores(Assemble(Sampled(OnTheWires(bytes, wiring)), phase), bytes)
<1>1. PICK w \in Widths : w = wiring.width
  BY WiringHas
<1>2. PICK per, left, order : per = PerByte(w) /\ left = wiring.left /\ order = wiring.order
  OBVIOUS
<1>3. /\ w \in {1, 2} /\ per \in {8, 4} /\ left \in 0 .. per - 1 /\ (w = 1 => order = 0) /\ (order # 0 => w = 2)
      /\ per = 8 \/ per = 4
  <2>1. w \in {1, 2}
    BY <1>1 DEF Widths
  <2>2. per \in {8, 4}
    BY <1>2, <2>1, WidthsAre
  <2>3. left \in 0 .. per - 1 /\ order \in 0 .. NumOrders(w) - 1
    BY <1>1, <1>2, WiringHas
  <2>4. w = 1 => NumOrders(w) = 1
    BY DEF NumOrders
  <2> QED BY <2>1, <2>2, <2>3, <2>4
<1>4. PICK bound : bound = left + per * n
  OBVIOUS
<1>5. PICK sent : sent = OnTheWires(bytes, wiring)
  OBVIOUS
<1>6. /\ bound \in Nat /\ sent \in [1 .. bound -> Fits(w)]
      /\ \A k \in 1 .. n, j \in 0 .. per - 1 : sent[left + per * (k - 1) + j + 1] = SentAs(bytes[k], j, wiring)
  <2>1. left + per * n \in Nat
    BY <1>1, <1>2, OnTheWiresIs
  <2>2. OnTheWires(bytes, wiring) \in [1 .. left + per * n -> Fits(w)]
    BY <1>1, <1>2, OnTheWiresIs
  <2>3. InPlace(sent, bytes, wiring, per, left)
    BY <1>1, <1>2, <1>5, OnTheWiresIs
  <2>4. Len(bytes) = n
    OBVIOUS
  <2>5. \A k \in 1 .. n, j \in 0 .. per - 1 : sent[left + per * (k - 1) + j + 1] = SentAs(bytes[k], j, wiring)
    BY <2>3, <2>4, Zenon DEF InPlace
  <2> QED BY <1>4, <1>5, <2>1, <2>2, <2>5, Zenon
<1>7. PICK raw, halves, m : raw = Sampled(sent) /\ halves = HalfSymbols(raw, w) /\ m = bound \div 2
  OBVIOUS
<1>8. Len(raw) = m /\ m \in Nat /\ Len(halves) = 2 * m /\ \A i \in 1 .. 2 * m : halves[i] = sent[i]
  BY <1>6, <1>7, HalvesComeBack
<1>9. /\ per = 8 => bound = left + 8 * n
      /\ per = 4 => bound = left + 4 * n
  BY <1>4
<1>10. PICK count : count = (2 * m - left) \div per
  OBVIOUS
<1>11. /\ left <= 2 * m /\ count \in n - 1 .. n
       /\ \A k \in 1 .. count : left + per * k <= 2 * m
  <2>1. m = bound \div 2 /\ n \in Nat /\ n >= 2 /\ left \in Nat /\ left < per
    BY <1>3, <1>7
  <2>2. CASE per = 8
    <3>1. left + 8 * n - 1 <= 2 * m /\ 2 * m <= left + 8 * n /\ m \in Nat
      BY ONLY <1>8, <1>9, <2>1, <2>2
    <3>2. left <= 2 * m /\ count \in n - 1 .. n /\ left + 8 * count <= 2 * m
      <4>1. PICK x : x = 2 * m - left
        OBVIOUS
      <4>2. x \in Nat /\ x >= 8 * n - 1 /\ x <= 8 * n
        BY ONLY <2>1, <3>1, <4>1
      <4>3. count = x \div 8
        BY <1>10, <2>2, <4>1
      <4>4. count \in n - 1 .. n /\ 8 * count <= x
        BY ONLY <2>1, <4>2, <4>3
      <4>5. count \in Int
        BY <2>1, <4>4
      <4> QED BY ONLY <2>1, <3>1, <4>1, <4>2, <4>4, <4>5
    <3> QED BY <2>1, <2>2, <3>1, <3>2
  <2>3. CASE per = 4
    <3>1. left + 4 * n - 1 <= 2 * m /\ 2 * m <= left + 4 * n /\ m \in Nat
      BY ONLY <1>8, <1>9, <2>1, <2>3
    <3>2. left <= 2 * m /\ count \in n - 1 .. n /\ left + 4 * count <= 2 * m
      <4>1. PICK x : x = 2 * m - left
        OBVIOUS
      <4>2. x \in Nat /\ x >= 4 * n - 1 /\ x <= 4 * n
        BY ONLY <2>1, <3>1, <4>1
      <4>3. count = x \div 4
        BY <1>10, <2>3, <4>1
      <4>4. count \in n - 1 .. n /\ 4 * count <= x
        BY ONLY <2>1, <4>2, <4>3
      <4>5. count \in Int
        BY <2>1, <4>4
      <4> QED BY ONLY <2>1, <3>1, <4>1, <4>2, <4>4, <4>5
    <3> QED BY <2>1, <2>3, <3>1, <3>2
  <2> QED BY <1>3, <2>2, <2>3
<1> DEFINE put(i) == IF phase.order = 1 /\ phase.width = 2 THEN Swapped(halves[i]) ELSE halves[i]
           symbols == [i \in 1 .. 2 * m |-> put(i)]
           whole == AssembleWidth(raw, phase)
<1>12. phase.width = w /\ phase.parity = left /\ phase.order = order
  BY <1>1, <1>2
<1>13. Len(symbols) = 2 * m
  <2>1. 2 * m \in Nat
    BY <1>8
  <2> HIDE DEF put
  <2> QED BY <2>1
<1>14. whole = [k \in 1 .. count |-> Gather(symbols, left + (k - 1) * per + 1, w)]
  <2>1. symbols = [i \in 1 .. 2 * Len(raw) |->
                    LET s == HalfSymbols(raw, phase.width)[i] IN
                    IF phase.order = 1 /\ phase.width = 2 THEN Swapped(s) ELSE s]
    BY <1>7, <1>8, <1>12, Zenon
  <2> HIDE DEF symbols
  <2>2. whole = [k \in 1 .. ((IF Len(symbols) < phase.parity THEN 0 ELSE Len(symbols) - phase.parity)
                             \div PerByte(phase.width)) |->
                   Gather(symbols, phase.parity + (k - 1) * PerByte(phase.width) + 1, phase.width)]
    BY <2>1, Zenon DEF AssembleWidth
  <2>3. (IF Len(symbols) < phase.parity THEN 0 ELSE Len(symbols) - phase.parity) = 2 * m - left
    <3>1. ~(2 * m < left)
      BY <1>3, <1>8, <1>11
    <3> QED BY <1>12, <1>13, <3>1, Zenon
  <2> HIDE DEF whole
  <2> QED BY <1>2, <1>10, <1>12, <2>2, <2>3, Zenon
<1>15. ASSUME NEW k \in 1 .. count PROVE whole[k] = bytes[k]
  <2>1. PICK first : first = left + (k - 1) * per + 1
    OBVIOUS
  <2>2. k \in 1 .. n /\ first \in Nat /\ first = left + per * (k - 1) + 1 /\ first + per - 1 = left + per * k
    <3>1. k \in 1 .. n /\ k \in Nat /\ left \in Nat
      BY <1>3, <1>11
    <3>2. per = 8 => first \in Nat /\ first = left + per * (k - 1) + 1 /\ first + per - 1 = left + per * k
      BY <2>1, <3>1
    <3>3. per = 4 => first \in Nat /\ first = left + per * (k - 1) + 1 /\ first + per - 1 = left + per * k
      BY <2>1, <3>1
    <3> QED BY <1>3, <3>1, <3>2, <3>3
  <2>3. first + per - 1 <= 2 * m
    BY <1>11, <2>2
  <2>4. bytes[k] \in Octets
    BY <2>2
  <2>5. ASSUME NEW j \in 1 .. per PROVE symbols[first + j - 1] = HalfSymbol(bytes[k], j - 1, w)
    <3>1. PICK i : i = first + j - 1
      OBVIOUS
    <3>2. i \in 1 .. 2 * m /\ j - 1 \in 0 .. per - 1
      BY <1>3, <1>8, <2>2, <2>3, <3>1
    <3>3. i = left + per * (k - 1) + (j - 1) + 1
      <4>1. PICK z : z = left + per * (k - 1)
        OBVIOUS
      <4>2. first = z + 1 /\ z \in Int
        BY <2>2, <4>1
      <4>3. i = z + (j - 1) + 1
        BY <3>1, <4>2
      <4> QED BY <4>1, <4>3
    <3>4. halves[i] = SentAs(bytes[k], j - 1, wiring)
      BY <1>6, <1>8, <2>2, <3>2, <3>3
    <3>5. symbols[i] = put(i)
      BY <3>2, Zenon
    <3>6. CASE order = 0
      <4>1. SentAs(bytes[k], j - 1, wiring) = HalfSymbol(bytes[k], j - 1, w)
        BY <1>1, <1>2, <3>6, Zenon DEF SentAs
      <4>2. put(i) = halves[i]
        BY <1>12, <3>6
      <4> QED BY <3>1, <3>4, <3>5, <4>1, <4>2
    <3>7. CASE order # 0
      <4>1. w = 2 /\ order = 1
        <5>1. order \in 0 .. NumOrders(w) - 1 /\ NumOrders(w) \in {1, 2}
          BY <1>1, <1>2, WiringHas DEF NumOrders
        <5> QED BY <1>3, <3>7, <5>1
      <4>2. SentAs(bytes[k], j - 1, wiring) = Swapped(HalfSymbol(bytes[k], j - 1, w))
        BY <1>1, <1>2, <3>7, <4>1 DEF SentAs
      <4>3. put(i) = Swapped(halves[i])
        BY <1>12, <4>1
      <4>4. Fits(w) = 0 .. 3
        BY <4>1 DEF Fits
      <4>5. HalfSymbol(bytes[k], j - 1, w) \in 0 .. 3
        BY <1>2, <2>4, <3>2, <4>4, HalfSymbolFits
      <4> HIDE DEF symbols, put
      <4> QED BY <3>1, <3>4, <3>5, <4>2, <4>3, <4>5, SwappedTwice
    <3> QED BY <3>6, <3>7
  <2> HIDE DEF symbols
  <2>6. Gather(symbols, first, w) = bytes[k]
    BY <1>2, <2>2, <2>4, <2>5, GatherIs
  <2>7. whole[k] = Gather(symbols, first, w)
    <3> HIDE DEF whole
    <3> QED BY <1>14, <2>1
  <2> QED BY <2>6, <2>7
<1> HIDE DEF whole
<1>16. Len(whole) = count /\ count \in Nat /\ n \in Nat /\ Len(bytes) = n
  <2>1. count \in Nat
    BY <1>11
  <2> HIDE DEF symbols
  <2> QED BY <1>14, <2>1
<1>17. Restores(whole, bytes)
  <2>1. 0 \in 0 .. count /\ 1 \in 1 .. 2 /\ count \in n - 1 .. n
    BY <1>11, <1>16
  <2>2. 0 <= 1 /\ 0 + (count - 1 + 1) = count
    BY <1>16
  <2>3. \A i \in 1 .. count : whole[0 + i - 1 + 1] = bytes[i]
    <3>1. \A i \in 1 .. count : 0 + i - 1 + 1 = i
      OBVIOUS
    <3> QED BY <1>15, <3>1
  <2> QED BY <1>16, <2>1, <2>2, <2>3 DEF Restores
<1>18. Assemble(raw, phase) = whole
  BY <1>1, <1>12 DEF Assemble, whole
<1> QED BY <1>5, <1>7, <1>17, <1>18

\* Four wires: the pairs begin one nibble into the capture, or with the byte after the first.
LEMMA WidePortRestored ==
  ASSUME NEW wiring \in Wirings, wiring.width = 4, NEW n \in Nat, n >= 2,
         NEW bytes \in [1 .. n -> Octets],
         NEW phase, phase = [parity |-> 1 - wiring.left, order |-> wiring.order, width |-> 4]
  PROVE  Restores(Assemble(Sampled(OnTheWires(bytes, wiring)), phase), bytes)
<1>1. PICK w \in Widths : w = 4
  BY DEF Widths
<1>2. PICK left, order : left = wiring.left /\ order = wiring.order
  OBVIOUS
<1>3. PerByte(4) = 2 /\ left \in 0 .. 1 /\ order \in 0 .. 1
  <2>1. PerByte(4) = 2 /\ NumOrders(4) = 2
    BY DEF PerByte, NumOrders
  <2>2. left \in 0 .. PerByte(4) - 1 /\ order \in 0 .. NumOrders(4) - 1
    BY <1>2, WiringHas
  <2> QED BY <2>1, <2>2
<1>4. PICK bound : bound = left + 2 * n
  OBVIOUS
<1>5. PICK sent : sent = OnTheWires(bytes, wiring)
  OBVIOUS
<1>6. /\ bound \in Nat /\ sent \in [1 .. bound -> Fits(w)]
      /\ \A k \in 1 .. n, j \in 0 .. 1 : sent[left + 2 * (k - 1) + j + 1] = SentAs(bytes[k], j, wiring)
  <2>1. PICK per : per = PerByte(w)
    OBVIOUS
  <2>2. per = 2
    BY <1>1, <1>3, <2>1
  <2>3. left + per * n \in Nat
    BY <1>1, <1>2, <2>1, OnTheWiresIs
  <2>4. sent \in [1 .. left + per * n -> Fits(w)]
    BY <1>1, <1>2, <1>5, <2>1, OnTheWiresIs
  <2>5. InPlace(sent, bytes, wiring, per, left)
    BY <1>1, <1>2, <1>5, <2>1, OnTheWiresIs
  <2>6. Len(bytes) = n
    OBVIOUS
  <2>7. \A k \in 1 .. n, j \in 0 .. per - 1 : sent[left + per * (k - 1) + j + 1] = SentAs(bytes[k], j, wiring)
    BY <2>5, <2>6, Zenon DEF InPlace
  <2>8. per - 1 = 1
    BY <2>2
  <2>9. \A k \in 1 .. n, j \in 0 .. 1 : sent[left + 2 * (k - 1) + j + 1] = SentAs(bytes[k], j, wiring)
    BY <2>2, <2>7, <2>8, Zenon
  <2>10. bound = left + per * n
    BY <1>4, <2>2
  <2> QED BY <2>3, <2>4, <2>9, <2>10, Zenon
<1>7. PICK raw, halves, m : raw = Sampled(sent) /\ halves = HalfSymbols(raw, w) /\ m = bound \div 2
  OBVIOUS
<1>8. /\ Len(raw) = m /\ m \in Nat /\ Len(halves) = 2 * m
      /\ \A i \in 1 .. 2 * m : halves[i] = sent[i]
  BY <1>6, <1>7, HalvesComeBack
<1>9. m = n /\ n >= 2 /\ n \in Nat
  BY <1>3, <1>4, <1>7
<1>10. PICK nibs : nibs = NibblesOf(raw)
  OBVIOUS
<1>11. nibs = [i \in 1 .. 2 * (n - 1) |-> halves[i + 1]]
  <2>1. raw # <<>>
    <3>1. Len(raw) # 0
      BY <1>8, <1>9
    <3> QED BY <3>1
  <2>2. (IF raw = <<>> THEN 0 ELSE 2 * (Len(raw) - 1)) = 2 * (n - 1)
    BY <1>8, <1>9, <2>1
  <2> QED BY <1>1, <1>7, <1>10, <2>2, Zenon DEF NibblesOf
<1>12. Len(nibs) = 2 * (n - 1)
  <2>1. 2 * (n - 1) \in Nat
    BY <1>9
  <2> QED BY <1>11, <2>1
<1>13. PICK count, whole : count = n - 2 + left /\ whole = Assemble(raw, phase)
  OBVIOUS
<1>14. phase.width = 4 /\ phase.parity = 1 - left /\ phase.order = order
  BY <1>2
<1>15. whole = [k \in 1 .. count |->
                  IF order = 0 THEN 16 * nibs[1 - left + 2 * k] + nibs[1 - left + 2 * k - 1]
                  ELSE 16 * nibs[1 - left + 2 * k - 1] + nibs[1 - left + 2 * k]]
  <2>1. PICK room : room = IF Len(nibs) < phase.parity THEN 0 ELSE Len(nibs) - phase.parity
    OBVIOUS
  <2>2. room = 2 * (n - 1) - (1 - left)
    BY <1>3, <1>9, <1>12, <1>14, <2>1
  <2>3. room \div 2 = count
    <3>1. CASE left = 0
      <4>1. room = 2 * n - 3 /\ count = n - 2
        BY <1>9, <1>13, <2>2, <3>1
      <4> QED BY <1>9, <4>1
    <3>2. CASE left = 1
      <4>1. room = 2 * n - 2 /\ count = n - 1
        BY <1>9, <1>13, <2>2, <3>2
      <4> QED BY <1>9, <4>1
    <3> QED BY <1>3, <3>1, <3>2
  <2>4. whole = Paired(raw, phase)
    BY <1>13, <1>14 DEF Assemble
  <2>5. Paired(raw, phase) =
          [k \in 1 .. room \div 2 |->
             IF phase.order = 0 THEN 16 * nibs[phase.parity + 2 * k] + nibs[phase.parity + 2 * k - 1]
             ELSE 16 * nibs[phase.parity + 2 * k - 1] + nibs[phase.parity + 2 * k]]
    BY <1>10, <2>1, Zenon DEF Paired
  <2> QED BY <1>14, <2>3, <2>4, <2>5, Zenon
<1>16. count \in Nat /\ Len(whole) = count
  <2>1. count \in Nat
    BY <1>3, <1>9, <1>13
  <2> QED BY <1>15, <2>1
<1>17. ASSUME NEW k \in 1 .. count PROVE whole[k] = bytes[k + 1 - left]
  <2>1. PICK b, at : at = k + 1 - left /\ b = bytes[at]
    OBVIOUS
  <2>2. at \in 1 .. n /\ b \in Octets
    <3>1. at \in 1 .. n
      BY <1>3, <1>9, <1>13, <2>1
    <3> QED BY <2>1, <3>1
  <2>3. PICK i : i = 1 - left + 2 * k
    OBVIOUS
  <2>4. /\ i \in 1 .. 2 * (n - 1) /\ i - 1 \in 1 .. 2 * (n - 1)
        /\ i = left + 2 * (at - 1) + 0 + 1 /\ i + 1 = left + 2 * (at - 1) + 1 + 1
        /\ i + 1 \in 1 .. 2 * n
    <3>1. k \in Nat /\ k >= 1 /\ k <= n - 2 + left
      BY <1>13, <1>16
    <3>2. left = 0 \/ left = 1
      BY <1>3
    <3>3. i \in Nat /\ i - 1 >= 1 /\ i <= 2 * (n - 1)
      BY ONLY <1>9, <2>3, <3>1, <3>2
    <3>4. i = left + 2 * (at - 1) + 0 + 1 /\ i + 1 = left + 2 * (at - 1) + 1 + 1
      <4>1. CASE left = 0
        BY ONLY <4>1, <2>1, <2>3, <3>1
      <4>2. CASE left = 1
        BY ONLY <4>2, <2>1, <2>3, <3>1
      <4> QED BY <3>2, <4>1, <4>2
    <3>5. i \in 1 .. 2 * (n - 1) /\ i - 1 \in 1 .. 2 * (n - 1) /\ i + 1 \in 1 .. 2 * n
      BY ONLY <1>9, <3>3
    <3> QED BY <3>4, <3>5
  <2>5. nibs[i - 1] = halves[i] /\ nibs[i] = halves[i + 1]
    <3>1. (i - 1) + 1 = i
      BY <2>4
    <3> QED BY <1>11, <2>4, <3>1, Zenon
  <2>6. halves[i] = sent[i] /\ halves[i + 1] = sent[i + 1]
    <3>1. i \in 1 .. 2 * n
      BY <1>9, <2>4
    <3> QED BY <1>8, <1>9, <2>4, <3>1, Zenon
  <2>7. sent[i] = SentAs(b, 0, wiring) /\ sent[i + 1] = SentAs(b, 1, wiring)
    <3>1. 0 \in 0 .. 1 /\ 1 \in 0 .. 1
      OBVIOUS
    <3>2. sent[left + 2 * (at - 1) + 0 + 1] = SentAs(bytes[at], 0, wiring)
      BY <1>6, <2>2, <3>1, Zenon
    <3>3. sent[left + 2 * (at - 1) + 1 + 1] = SentAs(bytes[at], 1, wiring)
      BY <1>6, <2>2, <3>1, Zenon
    <3> QED BY <2>1, <2>4, <3>2, <3>3, Zenon
  <2>8. HalfSymbol(b, 0, 4) = b % 16 /\ HalfSymbol(b, 1, 4) = (b \div 16) % 16
    <3>1. 4 * 0 = 0 /\ 4 * 1 = 4 /\ 2 ^ 0 = 1 /\ 2 ^ 4 = 16
      OBVIOUS
    <3>2. HalfSymbol(b, 0, 4) = (b \div 1) % 16 /\ HalfSymbol(b, 1, 4) = (b \div 16) % 16
      BY <3>1, Zenon DEF HalfSymbol
    <3>3. b \in 0 .. 255
      BY <2>2 DEF Octets
    <3> QED BY <3>2, <3>3
  <2>9. 16 * ((b \div 16) % 16) + (b % 16) = b
    <3>1. b \in 0 .. 255
      BY <2>2 DEF Octets
    <3> QED BY ONLY <3>1
  <2>10. whole[k] = IF order = 0 THEN 16 * nibs[i] + nibs[i - 1] ELSE 16 * nibs[i - 1] + nibs[i]
    <3>1. whole[k] = IF order = 0 THEN 16 * nibs[1 - left + 2 * k] + nibs[1 - left + 2 * k - 1]
                     ELSE 16 * nibs[1 - left + 2 * k - 1] + nibs[1 - left + 2 * k]
      BY <1>15, Zenon
    <3>2. 1 - left + 2 * k - 1 = i - 1
      BY <1>3, <2>3
    <3> QED BY <2>3, <3>1, <3>2, Zenon
  <2>11. CASE order = 0
    <3>1. SentAs(b, 0, wiring) = HalfSymbol(b, 0, 4) /\ SentAs(b, 1, wiring) = HalfSymbol(b, 1, 4)
      BY <1>2, <2>11 DEF SentAs
    <3>2. whole[k] = 16 * nibs[i] + nibs[i - 1]
      BY <2>11, <2>10, Zenon
    <3>3. nibs[i] = (b \div 16) % 16 /\ nibs[i - 1] = b % 16
      BY <2>5, <2>6, <2>7, <2>8, <3>1
    <3> QED BY <2>1, <2>9, <3>2, <3>3, Zenon
  <2>12. CASE order # 0
    <3>1. SentAs(b, 0, wiring) = HalfSymbol(b, 1, 4) /\ SentAs(b, 1, wiring) = HalfSymbol(b, 0, 4)
      <4>1. 1 - 0 = 1 /\ 1 - 1 = 0
        OBVIOUS
      <4> QED BY <1>2, <2>12, <4>1, Zenon DEF SentAs
    <3>2. whole[k] = 16 * nibs[i - 1] + nibs[i]
      BY <2>12, <2>10, Zenon
    <3>3. nibs[i - 1] = (b \div 16) % 16 /\ nibs[i] = b % 16
      BY <2>5, <2>6, <2>7, <2>8, <3>1
    <3> QED BY <2>1, <2>9, <3>2, <3>3, Zenon
  <2> QED BY <2>11, <2>12
<1>18. Restores(whole, bytes)
  <2>1. PICK first, last : first = 2 - left /\ last = n - 1
    OBVIOUS
  <2>2. 0 \in 0 .. count /\ first \in 1 .. 2 /\ last \in n - 1 .. n
    BY <1>3, <1>9, <1>16, <2>1
  <2>3. 0 <= 1 /\ 0 + (last - first + 1) = count
    BY <1>3, <1>9, <1>13, <2>1
  <2>4. ASSUME NEW i \in first .. last PROVE whole[0 + i - first + 1] = bytes[i]
    <3>1. PICK k : k = 0 + i - first + 1
      OBVIOUS
    <3>2. k \in 1 .. count /\ k + 1 - left = i
      BY <1>3, <1>9, <1>13, <2>1, <3>1
    <3> QED BY <1>17, <3>1, <3>2
  <2>5. Len(bytes) = n
    OBVIOUS
  <2>6. \A i \in first .. last : whole[0 + i - first + 1] = bytes[i]
    BY <2>4, Zenon
  <2>7. \E from \in 0 .. count, a \in 1 .. 2, b \in n - 1 .. n :
          /\ from <= 1 /\ from + (b - a + 1) = count
          /\ \A i \in a .. b : whole[from + i - a + 1] = bytes[i]
    BY <2>2, <2>3, <2>6, Zenon
  <2> QED BY <1>16, <2>5, <2>7, Zenon DEF Restores
<1> QED BY <1>5, <1>7, <1>13, <1>18

(* Whatever the wiring, one of the phases that are tried restores every byte  *)
(* sequence of any length but for its ends, and it is the same phase for all  *)
(* of them.                                                                   *)
THEOREM PhaseOfTheWiring ==
  ASSUME NEW wiring \in Wirings, NEW n \in Nat, n >= 2
  PROVE  RestoredByOne(wiring, [1 .. n -> 0 .. 255])
<1>1. PICK w \in Widths : w = wiring.width
  BY WiringHas
<1>2. wiring.left \in 0 .. PerByte(w) - 1 /\ wiring.order \in 0 .. NumOrders(w) - 1
  BY <1>1, WiringHas
<1>3. PICK parity : parity = IF w = 4 THEN 1 - wiring.left ELSE wiring.left
  OBVIOUS
<1>4. parity \in 0 .. NumPhases(w) - 1
  <2>1. w = 4 => PerByte(w) = 2
    BY DEF PerByte
  <2> QED BY <1>2, <1>3, <2>1 DEF NumPhases
<1>5. PICK i \in DOMAIN Phases(w) :
        Phases(w)[i] = [parity |-> parity, order |-> wiring.order, width |-> w]
  BY <1>2, <1>4, PhaseIsTried
<1>6. ASSUME NEW bytes \in [1 .. n -> Octets]
      PROVE  Restores(Assemble(Sampled(OnTheWires(bytes, wiring)), Phases(w)[i]), bytes)
  <2>1. PICK phase : phase = Phases(w)[i]
    OBVIOUS
  <2>2. CASE w = 4
    <3>1. phase = [parity |-> 1 - wiring.left, order |-> wiring.order, width |-> 4]
      BY <1>3, <1>5, <2>1, <2>2
    <3> QED BY <1>1, <2>1, <2>2, <3>1, WidePortRestored
  <2>3. CASE w # 4
    <3>1. phase = [parity |-> wiring.left, order |-> wiring.order, width |-> wiring.width]
      BY <1>1, <1>3, <1>5, <2>1, <2>3
    <3> QED BY <1>1, <2>1, <2>3, <3>1, NarrowPortsRestored
  <2> QED BY <2>2, <2>3
<1> QED BY <1>1, <1>5, <1>6 DEF RestoredByOne, Octets

------------------------------------------------------------------------------
(* The questions that are asked of the front end.                             *)

\* A question is one of three kinds, told apart by its fields.
LEMMA KindsOfInput ==
  ASSUME NEW q \in Inputs
  PROVE  /\ "wiring" \in DOMAIN q => q.wiring \in Wirings
         /\ "data" \in DOMAIN q => \E n \in Nat : q.data \in [1 .. n -> Nat]
         /\ "prefix" \in DOMAIN q => q.prefix \in Scores /\ q.whole \in Scores
<1>1. PICK datas : datas = UNION {[1 .. k -> {0, 1, 128}] : k \in 0 .. MaxData}
  OBVIOUS
<1>2. CASE q \in [wiring : Wirings]
  <2>1. DOMAIN q = {"wiring"} /\ q.wiring \in Wirings
    BY <1>2
  <2> QED BY <2>1
<1>3. CASE q \in [prefix : Scores, whole : Scores]
  <2>1. DOMAIN q = {"prefix", "whole"} /\ q.prefix \in Scores /\ q.whole \in Scores
    BY <1>3
  <2> QED BY <2>1
<1>4. CASE q \in [data : datas]
  <2>1. DOMAIN q = {"data"} /\ q.data \in datas
    BY <1>4
  <2>2. PICK k \in 0 .. MaxData : q.data \in [1 .. k -> {0, 1, 128}]
    BY <1>1, <2>1
  <2>3. k \in Nat /\ q.data \in [1 .. k -> Nat]
    BY <2>2, BoundsAssumption
  <2> QED BY <2>1, <2>3
<1> QED BY <1>1, <1>2, <1>3, <1>4, Zenon DEF Inputs

\* Every question is answered as it should be.
LEMMA EveryAnswer ==
  ASSUME input = None \/ input \in Inputs
  PROVE  PhaseIsFound
<1>1. ASSUME Asks("wiring") PROVE RestoredByOne(input.wiring, [1 .. 4 -> Samples])
  <2>1. input \in Inputs /\ "wiring" \in DOMAIN input
    BY <1>1 DEF Asks
  <2>2. PICK wiring \in Wirings : wiring = input.wiring
    BY <2>1, KindsOfInput
  <2>3. RestoredByOne(wiring, [1 .. 4 -> 0 .. 255])
    <3>1. PICK n \in Nat : n = 4 /\ n >= 2
      OBVIOUS
    <3>2. RestoredByOne(wiring, [1 .. n -> 0 .. 255])
      BY <3>1, PhaseOfTheWiring
    <3> QED BY <3>1, <3>2
  <2>4. \A s \in [1 .. 4 -> Samples] : s \in [1 .. 4 -> 0 .. 255]
    BY SamplesAssumption
  <2>5. RestoredByOne(wiring, [1 .. 4 -> Samples])
    BY <2>3, <2>4, Zenon DEF RestoredByOne
  <2> QED BY <2>2, <2>5
<1>2. ASSUME Asks("data") PROVE CountAsync(input.data) = Cardinality(Asyncs(input.data))
  <2>1. input \in Inputs /\ "data" \in DOMAIN input
    BY <1>2 DEF Asks
  <2>2. PICK data : data = input.data /\ \E n \in Nat : data \in [1 .. n -> Nat]
    BY <2>1, KindsOfInput
  <2>3. CountAsync(data) = Cardinality(Asyncs(data))
    <3>1. PICK n \in Nat : data \in [1 .. n -> Nat]
      BY <2>2
    <3> QED BY <3>1, CountIsRight
  <2> QED BY <2>2, <2>3
<1>3. ASSUME Asks("prefix")
      PROVE  IsBest(Chosen(input.prefix, input.whole),
                    IF \E i \in 1 .. 4 : input.prefix[i].asyncs > 0 THEN input.prefix ELSE input.whole)
  <2>1. input \in Inputs /\ "prefix" \in DOMAIN input
    BY <1>3 DEF Asks
  <2>2. PICK prefix, whole : prefix = input.prefix /\ whole = input.whole
    OBVIOUS
  <2>3. prefix \in Scores /\ whole \in Scores
    BY <2>1, <2>2, KindsOfInput
  <2>4. \A s \in [asyncs : 0 .. MaxAsyncs, size : {0, 1}] : s \in Evidence
    BY BoundsAssumption DEF Evidence
  <2>5. prefix \in [1 .. 4 -> Evidence] /\ whole \in [1 .. 4 -> Evidence]
    BY <2>3, <2>4 DEF Scores
  <2>6. 4 \in Nat \ {0}
    OBVIOUS
  <2>7. IsBest(Chosen(prefix, whole), IF \E i \in 1 .. 4 : prefix[i].asyncs > 0 THEN prefix ELSE whole)
    BY <2>5, <2>6, ChosenIsBest
  <2> QED BY <2>2, <2>7
<1> QED BY <1>1, <1>2, <1>3 DEF PhaseIsFound, SomePhaseRestores, AsyncsCounted, BestPhaseChosen

(* The phase of the wiring is among those that are tried, the evidence for it *)
(* is counted right and the best evidence wins, for every minimal run of      *)
(* zeros, every set of samples, and every bound on the scores and on the      *)
(* length of the data (deframe.cpp:19-37, 59-160, 235-262).                   *)
THEOREM PhaseIsAlwaysFound == FrontEndSpec => []PhaseIsFound
<1> DEFINE Asked == input = None \/ input \in Inputs
<1>1. FrontEndInit => Asked
  BY DEF FrontEndInit
<1>2. Asked /\ [Answered \/ (input = None /\ Next /\ UNCHANGED input)]_<<vars, input>> => Asked'
  <2> SUFFICES ASSUME Asked, input' = None \/ input' = input PROVE Asked'
    BY DEF Answered
  <2> QED BY DEF Inputs, Scores, Wirings
<1>3. Asked => PhaseIsFound
  BY EveryAnswer
<1> QED BY <1>1, <1>2, <1>3, PTL DEF FrontEndSpec

(* The front end takes apart what is captured once the questions are          *)
(* answered: until then the formatter may be in any stream, and nothing has   *)
(* been captured.                                                             *)
THEOREM FrontEndFindsEveryByte ==
  FrontEndSpec => [](TypeOK /\ FramesAlign /\ BytesFindTheirStream)
<1> DEFINE Begun == input # None => Init
           Step == Answered \/ (input = None /\ Next /\ UNCHANGED input)
<1>1. FrontEndInit => Begun /\ TypeOK /\ DeframeInv
  BY TypesAtStart, DeframeInvAtStart DEF FrontEndInit
<1>2. Init' => TypeOK' /\ DeframeInv'
  BY TypesAtStart, DeframeInvAtStart, PTL
<1>3. Begun /\ TypeOK /\ DeframeInv /\ [Step]_<<vars, input>> => (Begun /\ TypeOK /\ DeframeInv)'
  <2>1. CASE Begun /\ Answered
    <3>1. Init'
      BY <2>1 DEF Answered, Init, demux
    <3> QED BY <1>2, <3>1
  <2>2. CASE TypeOK /\ DeframeInv /\ input = None /\ Next /\ UNCHANGED input
    <3>1. input' = None
      BY <2>2
    <3>2. (TypeOK /\ DeframeInv)'
      BY <2>2, TypesKept, DeframeInvKept
    <3> QED BY <3>1, <3>2
  <2>3. CASE Begun /\ TypeOK /\ DeframeInv /\ UNCHANGED <<vars, input>>
    <3>1. UNCHANGED vars /\ UNCHANGED input
      BY <2>3
    <3>2. (TypeOK /\ DeframeInv)'
      BY <2>3, <3>1, TypesKept, DeframeInvKept
    <3>3. Begun'
      BY <2>3, <3>1 DEF vars, sender, demux, Init
    <3> QED BY <3>2, <3>3
  <2> QED BY <2>1, <2>2, <2>3
<1>4. DeframeInv => FramesAlign /\ BytesFindTheirStream
  BY DeframeInvAligns DEF DeframeInv
<1> QED BY <1>1, <1>3, <1>4, PTL DEF FrontEndSpec

=============================================================================
