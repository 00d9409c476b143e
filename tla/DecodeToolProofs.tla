-------------------------- MODULE DecodeToolProofs --------------------------
(* Proofs about DecodeTool: what a CLEAN verdict means and in which thread an *)
(* element runs, for every program, capture, time base and trace; about       *)
(* NxTrace: where a note is placed, for every width of the target's counter,  *)
(* and that a cut-off capture is walked packet by packet, whatever was sent;  *)
(* and about TimeBase: that the hybrid base keeps the order.                  *)
EXTENDS MCDecode, CallStackProofs, InductionFacts, TLAPS

\* What is known of the report while elements are observed.
Elements ==
  {Adapted(h, b) : h \in Generated \cup {[g EXCEPT !.number = n] : g \in Generated, n \in Nat},
                   b \in Nat}
CoverageTypes ==
  /\ DOMAIN cov = {"pending", "flowed", "first", "last", "blind", "regions", "lost"}
  /\ cov.pending \in BOOLEAN /\ cov.last \in Int /\ cov.regions \in Nat
ReportTypes == table \in Seq(Nat) /\ seen \in Seq(Elements) /\ CoverageTypes

Time(i) == NsFor(table, seen[i].byte)
IsRange(i) == seen[i].kind = "InstrRange"
LossBetween(i, j) == \E k \in i + 1 .. j - 1 : seen[k].kind \in Blinding
LastRange(i) == IsRange(i) /\ \A j \in i + 1 .. Len(seen) : ~IsRange(j)

\* The coverage remembers the last range and whether something was lost since.
Remembers ==
  \A i \in DOMAIN seen : LastRange(i) =>
    cov.last = Time(i) /\ (cov.pending <=> LossBetween(i, Len(seen) + 1))
\* As long as it has counted no region, no loss so far has taken time.
NoneMissed ==
  cov.regions = 0 =>
    \A i, j \in DOMAIN seen : Straddles(i, j, Blinding) => Time(i) >= Time(j)
CoverageInv == ReportTypes /\ (table # <<>> => Remembers /\ NoneMissed)

(* A time base gives every byte a time.                                       *)
LEMMA TimesAreNumbers ==
  ASSUME NEW t \in Seq(Nat), t # <<>>, NEW b \in Nat
  PROVE  NsFor(t, b) \in Nat
<1>1. Len(t) \in 1 .. Len(t) /\ (b < Len(t) => b + 1 \in 1 .. Len(t))
  OBVIOUS
<1>2. \A i \in 1 .. Len(t) : t[i] \in Nat
  OBVIOUS
<1> QED BY <1>1, <1>2 DEF NsFor

\* What a sequence over a set holds is in the set.
LEMMA ElementOfSeq ==
  ASSUME NEW S, NEW s \in Seq(S), NEW i \in 1 .. Len(s)
  PROVE  s[i] \in S
OBVIOUS

\* The elements seen have a byte, which is a number.
LEMMA SeenHasBytes ==
  ASSUME NEW s \in Seq(Elements), NEW i \in 1 .. Len(s)
  PROVE  s[i].byte \in Nat
<1>1. s[i] \in Elements
  BY ONLY s \in Seq(Elements), i \in 1 .. Len(s), ElementOfSeq
<1> QED BY <1>1 DEF Elements, Adapted

(* A step without a new element leaves the report alone.                      *)
LEMMA ReportStays ==
  ASSUME CoverageInv, UNCHANGED <<table, seen, cov>>
  PROVE  CoverageInv'
BY DEF CoverageInv, ReportTypes, CoverageTypes, Remembers, NoneMissed, LastRange, IsRange,
       LossBetween, Time, Straddles

\* An element more: the coverage remembers the last range, and misses no loss.
LEMMA GenerateKeeps ==
  ASSUME CoverageInv, NEW g \in Generated, NEW byte \in 0 .. EtmSize, Generate(g, byte)
  PROVE  CoverageInv'
<1> DEFINE e == element'
<1>0. PICK m \in Nat : m = Len(seen)
  BY DEF CoverageInv, ReportTypes
<1>1. e \in Elements /\ e.byte \in Nat /\ table' = table /\ table \in Seq(Nat)
  <2>1. byte \in Nat
    OBVIOUS
  <2>2. PICK h \in Generated \cup {[k EXCEPT !.number = n] : k \in Generated, n \in Nat} :
          e = Adapted(h, byte)
    <3>1. Len(seen) + 1 \in Nat
      BY <1>0
    <3> QED BY <3>1 DEF Generate
  <2>3. table' = table /\ table \in Seq(Nat)
    BY DEF Generate, inputs, CoverageInv, ReportTypes
  <2> QED BY <2>1, <2>2, <2>3 DEF Elements, Adapted
<1>2. cov' = Observe(e) /\ seen' = Append(seen, e)
  BY DEF Generate
<1> HIDE DEF e
<1>3. /\ seen' \in Seq(Elements) /\ Len(seen') = m + 1
      /\ DOMAIN seen = 1 .. m /\ DOMAIN seen' = 1 .. m + 1
      /\ \A i \in 1 .. m : seen'[i] = seen[i]
      /\ seen'[m + 1] = e
  BY <1>0, <1>1, <1>2 DEF CoverageInv, ReportTypes
<1>4. table # <<>> => /\ NsFor(table, e.byte) \in Nat
                      /\ \A i \in 1 .. m : NsFor(table, seen[i].byte) \in Nat
  BY <1>0, <1>1, TimesAreNumbers, SeenHasBytes DEF CoverageInv, ReportTypes
<1>5. CoverageTypes
  BY DEF CoverageInv, ReportTypes
<1>6. CoverageTypes'
  <2>1. CASE e.kind = "InstrRange" /\ table # <<>>
    <3>1. DOMAIN cov' = DOMAIN cov
      BY <1>2, <2>1 DEF Observe, ObservedRange
    <3>2. cov'.pending = FALSE /\ cov'.last = NsFor(table, e.byte)
      BY <1>2, <1>5, <2>1 DEF Observe, ObservedRange, CoverageTypes
    <3>3. cov'.regions = cov.regions \/ cov'.regions = cov.regions + 1
      BY <1>2, <1>5, <2>1 DEF Observe, ObservedRange, CoverageTypes
    <3>4. NsFor(table, e.byte) \in Int
      BY <1>4, <2>1
    <3>5. DOMAIN cov' = {"pending", "flowed", "first", "last", "blind", "regions", "lost"}
      BY <1>5, <3>1 DEF CoverageTypes
    <3>6. cov'.regions \in Nat
      BY <1>5, <3>3 DEF CoverageTypes
    <3> QED BY <3>2, <3>4, <3>5, <3>6 DEF CoverageTypes
  <2>2. CASE e.kind = "InstrRange" /\ table = <<>>
    BY <1>2, <1>5, <2>2 DEF Observe, CoverageTypes
  <2>3. CASE e.kind # "InstrRange"
    BY <1>2, <1>5, <2>3 DEF Observe, CoverageTypes
  <2> QED BY <2>1, <2>2, <2>3
<1>7. ReportTypes'
  BY <1>1, <1>3, <1>6 DEF ReportTypes
<1>8. ASSUME table # <<>>
      PROVE  (Remembers /\ NoneMissed)'
  <2>1. Remembers /\ NoneMissed
    BY <1>8 DEF CoverageInv
  \* What the new element does to what was said of the others.
  <2>2. \A i \in 1 .. m : (IsRange(i)' <=> IsRange(i)) /\ Time(i)' = Time(i)
    BY <1>1, <1>3 DEF IsRange, Time
  <2>3. (IsRange(m + 1)' <=> e.kind = "InstrRange") /\ Time(m + 1)' = NsFor(table, e.byte)
    BY <1>1, <1>3 DEF IsRange, Time
  <2>4. \A i, j \in 1 .. m : Straddles(i, j, Blinding)' <=> Straddles(i, j, Blinding)
    BY <1>3 DEF Straddles
  <2>5. \A i \in 1 .. m : LossBetween(i, m + 1)' <=> LossBetween(i, m + 1)
    BY <1>3 DEF LossBetween
  <2>6. CASE e.kind = "InstrRange"
    <3>1. /\ cov'.last = NsFor(table, e.byte) /\ cov'.pending = FALSE
          /\ cov.regions \in Nat /\ cov.last \in Int
          /\ IF cov.pending /\ NsFor(table, e.byte) > cov.last
             THEN cov'.regions = cov.regions + 1 ELSE cov'.regions = cov.regions
      BY <1>2, <1>5, <1>8, <2>6 DEF Observe, ObservedRange, CoverageTypes
    <3>2. Remembers'
      <4>1. \A i \in 1 .. m : ~LastRange(i)'
        BY <1>3, <2>3, <2>6 DEF LastRange
      <4>2. ~LossBetween(m + 1, m + 2)'
        BY DEF LossBetween
      <4> QED BY <1>3, <2>3, <3>1, <4>1, <4>2 DEF Remembers
    <3>3. ASSUME cov'.regions = 0, NEW i \in 1 .. m, Straddles(i, m + 1, Blinding)'
          PROVE  Time(i) >= NsFor(table, e.byte)
      <4>1. LastRange(i) /\ LossBetween(i, m + 1)
        BY <1>0, <1>3, <3>3 DEF LastRange, LossBetween, Straddles, IsRange
      <4>2. cov.last = Time(i) /\ cov.pending
        BY <1>0, <1>3, <2>1, <4>1 DEF Remembers
      <4>3. ~(NsFor(table, e.byte) > cov.last)
        BY <3>1, <3>3, <4>2
      <4>4. NsFor(table, e.byte) \in Nat /\ cov.last \in Int
        BY <1>4, <1>8, <3>1
      <4> QED BY <4>2, <4>3, <4>4
    <3>4. cov'.regions = 0 => cov.regions = 0
      BY <3>1
    <3>5. \A i, j \in 1 .. m + 1 : Straddles(i, j, Blinding)' => i \in 1 .. m
      BY DEF Straddles
    <3>6. ASSUME cov'.regions = 0, NEW i \in 1 .. m + 1, NEW j \in 1 .. m + 1,
                 Straddles(i, j, Blinding)'
          PROVE  Time(i)' >= Time(j)'
      <4>1. CASE j = m + 1
        BY <2>2, <2>3, <3>3, <3>5, <3>6, <4>1
      <4>2. CASE j \in 1 .. m
        BY <1>3, <2>1, <2>2, <2>4, <3>4, <3>5, <3>6, <4>2 DEF NoneMissed
      <4> QED BY <4>1, <4>2
    <3>7. NoneMissed'
      BY <1>3, <3>6 DEF NoneMissed
    <3> QED BY <3>2, <3>7
  <2>7. CASE e.kind # "InstrRange"
    <3>1. /\ cov'.last = cov.last /\ cov'.regions = cov.regions
          /\ cov'.pending <=> cov.pending \/ e.kind \in Blinding
      BY <1>2, <1>5, <2>7 DEF Observe, CoverageTypes
    <3>2. \A i \in 1 .. m : LastRange(i)' => LastRange(i)
      BY <1>0, <1>3, <2>2 DEF LastRange
    <3>3. ~LastRange(m + 1)'
      BY <2>3, <2>7 DEF LastRange
    <3>4. \A i \in 1 .. m :
            LossBetween(i, m + 2)' <=> LossBetween(i, m + 1) \/ e.kind \in Blinding
      BY <1>3 DEF LossBetween
    <3>5. Remembers'
      BY <1>0, <1>3, <2>1, <2>2, <3>1, <3>2, <3>3, <3>4 DEF Remembers
    <3>6. \A i, j \in 1 .. m + 1 : Straddles(i, j, Blinding)' => i \in 1 .. m /\ j \in 1 .. m
      BY <1>3, <2>7 DEF Straddles
    <3>7. NoneMissed'
      BY <1>3, <2>1, <2>2, <2>4, <3>1, <3>6 DEF NoneMissed
    <3> QED BY <3>5, <3>7
  <2> QED BY <2>6, <2>7
<1> QED BY <1>1, <1>7, <1>8 DEF CoverageInv

\* The invariant of the report: at the beginning, and in every step.
LEMMA InitEstablishes == ToolInit => CoverageInv
<1> SUFFICES ASSUME ToolInit PROVE CoverageInv
  OBVIOUS
<1>1. table \in Seq(Nat)
  BY TablesAssumption DEF ToolInit
<1>2. seen = <<>> /\ CoverageTypes
  BY DEF ToolInit, FreshCoverage, CoverageTypes
<1>3. seen \in Seq(Elements)
  BY ONLY <1>2
<1>4. Remembers /\ NoneMissed
  BY <1>2 DEF Remembers, NoneMissed
<1> QED BY <1>1, <1>2, <1>3, <1>4 DEF CoverageInv, ReportTypes

\* Only Generate touches the report.
LEMMA StepsKeep == CoverageInv /\ [ToolNext]_<<vars, toolVars>> => CoverageInv'
<1> SUFFICES ASSUME CoverageInv, [ToolNext]_<<vars, toolVars>> PROVE CoverageInv'
  OBVIOUS
<1>1. CASE \E g \in Generated, byte \in 0 .. EtmSize : Generate(g, byte)
  BY <1>1, GenerateKeeps
<1>2. CASE SwitchIn \/ Process \/ EndAll
  <2>1. UNCHANGED <<table, seen, cov>>
    BY <1>2 DEF SwitchIn, Process, EndAll, inputs, report
  <2> QED BY <2>1, ReportStays
<1>3. CASE UNCHANGED <<vars, toolVars>>
  <2>1. UNCHANGED <<table, seen, cov>>
    BY <1>3 DEF toolVars, inputs, report
  <2> QED BY <2>1, ReportStays
<1> QED BY <1>1, <1>2, <1>3 DEF ToolNext

\* The invariant of the report.
LEMMA CoverageInvHolds == ToolSpec => []CoverageInv
BY InitEstablishes, StepsKeep, PTL DEF ToolSpec

(* CLEAN, with a time base, is only said of a trace in which no time passed   *)
(* between two ranges that a loss separates, whatever the program, the        *)
(* capture and the time base (cortrace_decode.cpp:993-999).                   *)
THEOREM CleanIsCovered == ToolSpec => []CleanMeansCovered
<1>1. CleanExit => cov.regions = 0
  BY DEF CleanExit, ExitCode, Clean
<1>2. CoverageInv => CleanMeansCovered
  BY <1>1 DEF CoverageInv, NoneMissed, Time, CleanMeansCovered
<1> QED BY <1>2, CoverageInvHolds, PTL

------------------------------------------------------------------------------
\* unwrap_note_systime has placed a note at the time reference, from which it counts.
CountsFrom(s, reference) ==
  /\ s.haveLast /\ s.epoch \in Nat /\ s.last \in 0 .. Counter - 1
  /\ reference = s.epoch * Counter + s.last

(* A turn more is at least one Counter later.                                 *)
LEMMA TurnsAreLong ==
  ASSUME NEW C \in Nat, NEW a \in Int, NEW b \in Int, a > b
  PROVE  a * C >= b * C + C
<1>1. PICK d \in Nat : a = b + 1 + d
  <2>1. a - b - 1 \in Nat /\ a = b + 1 + (a - b - 1)
    OBVIOUS
  <2> QED BY <2>1
<1>2. a * C = b * C + C + d * C
  BY <1>1
<1>3. d * C \in Nat
  OBVIOUS
<1>4. b * C \in Int
  OBVIOUS
<1> QED BY <1>2, <1>3, <1>4

\* A number below the divisor is its own remainder.
LEMMA SmallRemainder ==
  ASSUME NEW n \in Nat, NEW x \in 0 .. n - 1
  PROVE  x % n = x
OBVIOUS

\* The time n, counted on from the start of turn e, is less than half a turn from last.
LEMMA Nearby ==
  ASSUME NEW H \in Nat, NEW T \in Int, NEW E \in Int,
         NEW last \in 0 .. 2 * H - 1, NEW cur \in 0 .. 2 * H - 1,
         (T + cur) - (E + last) < H, (E + last) - (T + cur) < H
  PROVE  /\ ~(T >= E + 4 * H) /\ ~(E >= T + 4 * H)
         /\ T = E => cur - last < H /\ last - cur < H
         /\ T = E + 2 * H => last - cur > H
         /\ T = E - 2 * H => cur - last > H
OBVIOUS

(* Which turn it is tells the code's two questions apart.                     *)
LEMMA TurnFound ==
  ASSUME NEW epoch \in Nat, NEW last \in 0 .. Counter - 1,
         NEW turn \in Nat, NEW cur \in 0 .. Counter - 1,
         (turn * Counter + cur) - (epoch * Counter + last) < Half,
         (epoch * Counter + last) - (turn * Counter + cur) < Half
  PROVE  \/ turn = epoch /\ cur - last < Half /\ last - cur < Half
         \/ turn = epoch + 1 /\ last - cur > Half
         \/ turn = epoch - 1 /\ cur - last > Half
<1>1. Counter \in Nat /\ Half \in Nat /\ Counter = 2 * Half
  BY CounterAssumption DEF Half
<1> DEFINE T == turn * Counter
           E == epoch * Counter
<1>2. T \in Int /\ E \in Int
  BY <1>1
<1>3. (epoch + 1) * Counter = E + Counter /\ (epoch - 1) * Counter = E - Counter
  BY <1>1
<1>4. turn > epoch + 1 => T >= E + Counter + Counter
  BY <1>1, <1>3, TurnsAreLong
<1>5. turn < epoch - 1 => E - Counter >= T + Counter
  BY <1>1, <1>3, TurnsAreLong
<1>6. turn = epoch => T = E
  OBVIOUS
<1>7. turn = epoch + 1 => T = E + Counter
  BY <1>3
<1>8. turn = epoch - 1 => T = E - Counter
  BY <1>3
<1>9. (T + cur) - (E + last) < Half /\ (E + last) - (T + cur) < Half
  OBVIOUS
<1> HIDE DEF T, E
<1>10. /\ ~(T >= E + 4 * Half) /\ ~(E >= T + 4 * Half)
       /\ T = E => cur - last < Half /\ last - cur < Half
       /\ T = E + 2 * Half => last - cur > Half
       /\ T = E - 2 * Half => cur - last > Half
  BY <1>1, <1>2, <1>9, Nearby
<1>11. ~(turn > epoch + 1) /\ ~(turn < epoch - 1)
  BY <1>1, <1>2, <1>4, <1>5, <1>10
<1>12. turn = epoch \/ turn = epoch + 1 \/ turn = epoch - 1
  BY <1>11
<1> QED BY <1>1, <1>2, <1>6, <1>7, <1>8, <1>10, <1>12

(* A note that is less than half a turn of the counter from the reference is  *)
(* given its true time, on either side of a wrap of the counter, and the code *)
(* then counts from this note or, if it was of the turn before, from where it *)
(* did (nxtrace.cpp:170-200).                                                 *)
LEMMA NoteCounted ==
  ASSUME NEW s, NEW reference, CountsFrom(s, reference),
         NEW turn \in 0 .. Epochs - 1, NEW cur \in 0 .. Counter - 1,
         NEW now, now = turn * Counter + cur,
         now - reference < Half, reference - now < Half
  PROVE  /\ Unwrapped(s, cur).times = Append(s.times, now)
         /\ CountsFrom(Unwrapped(s, cur), IF turn < s.epoch THEN reference ELSE now)
<1> DEFINE wrapped == cur < s.last /\ s.last - cur > Half
           late == cur > s.last /\ cur - s.last > Half
           epoch == IF wrapped THEN s.epoch + 1 ELSE s.epoch
           back == IF late THEN epoch - 1 ELSE epoch
<1>1. Counter \in Nat /\ Half \in Nat /\ Epochs \in Nat
  BY CounterAssumption, EpochsAssumption DEF Half
<1>2. /\ s.haveLast /\ s.epoch \in Nat /\ s.last \in 0 .. Counter - 1 /\ turn \in Nat
      /\ reference = s.epoch * Counter + s.last
  BY DEF CountsFrom
<1>3. \/ turn = s.epoch /\ cur - s.last < Half /\ s.last - cur < Half
      \/ turn = s.epoch + 1 /\ s.last - cur > Half
      \/ turn = s.epoch - 1 /\ cur - s.last > Half
  BY <1>2, TurnFound
<1>4. /\ back = turn /\ (late <=> turn < s.epoch)
      /\ (~late => epoch = turn) /\ (late => epoch = s.epoch)
  BY <1>1, <1>2, <1>3
<1>5. back % Epochs = turn
  BY <1>1, <1>4, SmallRemainder
<1>6. Unwrapped(s, cur) = [epoch |-> epoch, haveLast |-> TRUE,
                           last |-> IF late THEN s.last ELSE cur,
                           times |-> Append(s.times, (back % Epochs) * Counter + cur)]
  BY Zenon, <1>2 DEF Unwrapped
<1> HIDE DEF back, epoch, late
<1>7. Unwrapped(s, cur).times = Append(s.times, now)
  BY <1>5, <1>6
<1>8. /\ Unwrapped(s, cur).haveLast /\ Unwrapped(s, cur).epoch = epoch
      /\ Unwrapped(s, cur).last = IF late THEN s.last ELSE cur
  BY <1>6
<1>9. CASE turn < s.epoch
  <2>1. Unwrapped(s, cur).epoch = s.epoch /\ Unwrapped(s, cur).last = s.last
    BY <1>4, <1>8, <1>9
  <2> QED BY <1>2, <1>7, <1>8, <1>9, <2>1 DEF CountsFrom
<1>10. CASE ~(turn < s.epoch)
  <2>1. Unwrapped(s, cur).epoch = turn /\ Unwrapped(s, cur).last = cur
    BY <1>4, <1>8, <1>10
  <2> QED BY <1>2, <1>7, <1>8, <1>10, <2>1 DEF CountsFrom
<1> QED BY <1>9, <1>10

\* The note with the counter value cur is given the time now.
Placed(s, cur, now) == Unwrapped(s, cur).times = Append(s.times, now)
\* What the code counts from is not far behind the newest note.
Follows(s, newest, late) ==
  \E reference \in Int :
    CountsFrom(s, reference) /\ newest - late <= reference /\ reference <= newest

(* As long as no note is more than late behind the newest one or more than    *)
(* ahead before it, and both together are less than half a turn of the        *)
(* counter, the note is given its true time, also when it comes late across a *)
(* wrap, and so may be the next one: whatever the width of the counter        *)
(* (nxtrace.cpp:158-206).                                                     *)
THEOREM NotePlaced ==
  ASSUME NEW late \in Nat, NEW ahead \in Nat, late + ahead < Half,
         NEW s, NEW newest \in Int, Follows(s, newest, late),
         NEW turn \in 0 .. Epochs - 1, NEW cur \in 0 .. Counter - 1,
         NEW now \in newest - late .. newest + ahead, now = turn * Counter + cur
  PROVE  /\ Placed(s, cur, now)
         /\ Follows(Unwrapped(s, cur), IF now > newest THEN now ELSE newest, late)
<1>1. Half \in Nat
  BY CounterAssumption DEF Half
<1>2. PICK reference \in Int :
        CountsFrom(s, reference) /\ newest - late <= reference /\ reference <= newest
  BY DEF Follows
<1>3. now - reference < Half /\ reference - now < Half
  BY <1>1, <1>2
<1>4. /\ Unwrapped(s, cur).times = Append(s.times, now)
      /\ CountsFrom(Unwrapped(s, cur), IF turn < s.epoch THEN reference ELSE now)
  BY <1>2, <1>3, NoteCounted
<1>5. CASE turn < s.epoch
  <2>1. now <= reference
    <3>1. s.epoch \in Nat /\ s.last \in 0 .. Counter - 1 /\ reference = s.epoch * Counter + s.last
      BY <1>2 DEF CountsFrom
    <3>2. Counter \in Nat /\ s.epoch * Counter \in Int /\ turn * Counter \in Int
      BY <3>1, CounterAssumption
    <3>3. s.epoch * Counter >= turn * Counter + Counter
      BY <1>5, <3>1, <3>2, TurnsAreLong
    <3> QED BY <3>1, <3>2, <3>3
  <2> QED BY <1>2, <1>4, <1>5, <2>1 DEF Follows, Placed
<1>6. CASE ~(turn < s.epoch)
  BY <1>2, <1>4, <1>6 DEF Follows, Placed
<1> QED BY <1>5, <1>6

(* The first note is taken for one of the first turn, and is counted from.    *)
THEOREM FirstNotePlaced ==
  ASSUME NEW late \in Nat, NEW cur \in 0 .. Counter - 1
  PROVE  /\ Unwrapped(UnwrapStart, cur).times = <<cur>>
         /\ Follows(Unwrapped(UnwrapStart, cur), cur, late)
<1>1. 0 % Epochs = 0 /\ Counter \in Nat
  BY EpochsAssumption, CounterAssumption, SmallRemainder
<1>2. /\ Unwrapped(UnwrapStart, cur).epoch = 0 /\ Unwrapped(UnwrapStart, cur).haveLast
      /\ Unwrapped(UnwrapStart, cur).last = cur
      /\ Unwrapped(UnwrapStart, cur).times = Append(<<>>, (0 % Epochs) * Counter + cur)
  BY DEF Unwrapped, UnwrapStart
<1>3. (0 % Epochs) * Counter + cur = cur /\ cur = 0 * Counter + cur
  BY <1>1
<1>4. CountsFrom(Unwrapped(UnwrapStart, cur), cur)
  BY <1>2, <1>3 DEF CountsFrom
<1>5. Append(<<>>, cur) = <<cur>>
  OBVIOUS
<1> QED BY <1>2, <1>3, <1>4, <1>5 DEF Follows

------------------------------------------------------------------------------
\* Quotient and remainder.
LEMMA Division ==
  ASSUME NEW n \in Int, NEW C \in Nat \ {0}
  PROVE  n % C \in 0 .. C - 1 /\ n \div C \in Int /\ n = (n \div C) * C + (n % C)
OBVIOUS

(* A note of before the first turn of the counter is not placed, but the code *)
(* takes it for a late one, and counts on as before.                          *)
LEMMA EarlyNoteIsLate ==
  ASSUME NEW late \in Nat, NEW ahead \in Nat, late + ahead < Half,
         NEW s, NEW newest \in Int, Follows(s, newest, late),
         NEW now \in Int, newest - late <= now, now < 0
  PROVE  /\ now % Counter \in 0 .. Counter - 1
         /\ \E t \in Int : Unwrapped(s, now % Counter).times = Append(s.times, t)
         /\ Follows(Unwrapped(s, now % Counter), newest, late)
<1>1. Counter \in Nat /\ Counter > 0 /\ Half \in Nat /\ Counter = 2 * Half
  BY CounterAssumption DEF Half
<1>2. PICK reference \in Int :
        CountsFrom(s, reference) /\ newest - late <= reference /\ reference <= newest
  BY DEF Follows
<1>3. /\ s.haveLast /\ s.epoch \in Nat /\ s.last \in 0 .. Counter - 1
      /\ reference = s.epoch * Counter + s.last
  BY <1>2 DEF CountsFrom
<1>4. reference < Half /\ now > 0 - Half
  <2>1. s.epoch * Counter \in Nat
    BY <1>1, <1>3
  <2>2. reference >= 0
    BY <1>3, <2>1
  <2> QED BY <1>1, <1>2, <2>2
<1>5. s.epoch = 0
  <2>1. s.epoch > 0 => s.epoch * Counter >= 0 * Counter + Counter
    BY <1>1, <1>3, TurnsAreLong
  <2>2. s.epoch * Counter \in Int
    BY <1>1, <1>3
  <2> QED BY <1>1, <1>3, <1>4, <2>1, <2>2
<1>6. s.last = reference
  <2>1. s.epoch * Counter = 0
    BY <1>1, <1>5
  <2> QED BY <1>3, <2>1
<1> DEFINE cur == now % Counter
           q == now \div Counter
<1>7. cur \in 0 .. Counter - 1 /\ q \in Int /\ now = q * Counter + cur
  BY <1>1, Division
<1>8. cur = now + Counter
  <2> HIDE DEF cur, q
  <2>1. q >= 0 => q * Counter >= 0
    BY <1>1, <1>7
  <2>2. q < -1 => -1 * Counter >= q * Counter + Counter
    BY <1>1, <1>7, TurnsAreLong
  <2>3. q * Counter \in Int
    BY <1>1, <1>7
  <2>4. ~(q >= 0)
    BY <1>7, <2>1, <2>3
  <2>5. ~(q < -1)
    BY <1>1, <1>4, <1>7, <2>2, <2>3
  <2>6. q = -1
    BY <1>7, <2>4, <2>5
  <2>7. q * Counter = 0 - Counter
    BY <1>1, <2>6
  <2> QED BY <1>1, <1>7, <2>7
<1> HIDE DEF cur, q
<1>9. cur > s.last /\ cur - s.last > Half
  <2>1. reference - now < Half
    BY <1>1, <1>2
  <2> QED BY <1>1, <1>3, <1>4, <1>6, <1>8, <2>1
<1>10. ~(cur < s.last)
  BY <1>3, <1>7, <1>9
<1> DEFINE t == ((0 - 1) % Epochs) * Counter + cur
<1>11. t \in Int
  <2>1. (0 - 1) % Epochs \in 0 .. Epochs - 1
    BY EpochsAssumption, Division
  <2>2. (0 - 1) % Epochs \in Int
    BY <2>1, EpochsAssumption
  <2>3. \A x, y, z \in Int : x * y + z \in Int
    OBVIOUS
  <2>4. cur \in Int /\ Counter \in Int
    BY <1>1, <1>7
  <2> HIDE DEF cur
  <2> QED BY Zenon, <2>2, <2>3, <2>4
<1>12. /\ Unwrapped(s, cur).times = Append(s.times, t)
       /\ Unwrapped(s, cur).haveLast /\ Unwrapped(s, cur).epoch = s.epoch
       /\ Unwrapped(s, cur).last = s.last
  BY <1>3, <1>5, <1>9, <1>10 DEF Unwrapped
<1>13. CountsFrom(Unwrapped(s, cur), reference)
  BY <1>3, <1>12 DEF CountsFrom
<1> HIDE DEF t
<1>14. Follows(Unwrapped(s, cur), newest, late)
  BY <1>2, <1>13 DEF Follows
<1> QED BY <1>7, <1>11, <1>12, <1>14 DEF cur

(* Any note that the bounds allow is counted, and placed if it is not of      *)
(* before the first turn.                                                     *)
Counted(s, cur, now) ==
  \E t \in Int : Unwrapped(s, cur).times = Append(s.times, t) /\ (now >= 0 => t = now)
\* A note near the newest one gets its time, and the next ones are counted from there.
LEMMA NoteTaken ==
  ASSUME NEW late \in Nat, NEW ahead \in Nat, late + ahead < Half,
         NEW s, NEW newest \in Nat, Follows(s, newest, late),
         NEW now \in newest - late .. newest + ahead, now < Counter * Epochs
  PROVE  /\ now % Counter \in 0 .. Counter - 1
         /\ Counted(s, now % Counter, now)
         /\ Follows(Unwrapped(s, now % Counter), Later(now, newest), late)
<1>1. Counter \in Nat /\ Counter > 0 /\ Half \in Nat /\ Epochs \in Nat /\ now \in Int
  BY CounterAssumption, EpochsAssumption DEF Half
<1>2. CASE now < 0
  <2>1. /\ now % Counter \in 0 .. Counter - 1
        /\ \E t \in Int : Unwrapped(s, now % Counter).times = Append(s.times, t)
        /\ Follows(Unwrapped(s, now % Counter), newest, late)
    BY <1>1, <1>2, EarlyNoteIsLate
  <2>2. Later(now, newest) = newest
    BY <1>2 DEF Later
  <2> QED BY <1>2, <2>1, <2>2 DEF Counted
<1>3. CASE ~(now < 0)
  <2> DEFINE cur == now % Counter
             turn == now \div Counter
  <2>1. cur \in 0 .. Counter - 1 /\ turn \in Int /\ now = turn * Counter + cur
    BY <1>1, Division
  <2> HIDE DEF cur, turn
  <2>2. turn >= 0
    <3>1. turn < 0 => 0 * Counter >= turn * Counter + Counter
      BY <1>1, <2>1, TurnsAreLong
    <3>2. turn * Counter \in Int
      BY <1>1, <2>1
    <3> QED BY <1>1, <1>3, <2>1, <3>1, <3>2
  <2>3. turn < Epochs
    <3>1. turn > Epochs => turn * Counter >= Epochs * Counter + Counter
      BY <1>1, <2>1, TurnsAreLong
    <3>2. turn * Counter \in Int /\ Epochs * Counter \in Int /\ Epochs * Counter = Counter * Epochs
      BY <1>1, <2>1
    <3> QED BY <1>1, <1>3, <2>1, <3>1, <3>2
  <2>4. turn \in 0 .. Epochs - 1
    BY <1>1, <2>1, <2>2, <2>3
  <2>5. /\ Unwrapped(s, cur).times = Append(s.times, now)
        /\ Follows(Unwrapped(s, cur), IF now > newest THEN now ELSE newest, late)
    <3>1. newest \in Int
      OBVIOUS
    <3>2. Placed(s, cur, now)
      BY <2>1, <2>4, <3>1, NotePlaced
    <3>3. Follows(Unwrapped(s, cur), IF now > newest THEN now ELSE newest, late)
      BY <2>1, <2>4, <3>1, NotePlaced
    <3> QED BY <3>2, <3>3 DEF Placed
  <2>6. Later(now, newest) = IF now > newest THEN now ELSE newest
    BY <1>1 DEF Later
  <2>7. Counted(s, cur, now)
    BY <1>1, <2>5 DEF Counted
  <2> QED BY <2>1, <2>5, <2>6, <2>7 DEF cur
<1> QED BY <1>2, <1>3

Counts == [epoch : Int, haveLast : BOOLEAN, last : Int, times : Seq(Int)]
\* The state of the unwrapping keeps its types.
LEMMA CountsStay ==
  ASSUME NEW s \in Counts, NEW cur \in Int
  PROVE  Unwrapped(s, cur) \in Counts
<1> DEFINE wrapped == s.haveLast /\ cur < s.last /\ s.last - cur > Half
           wasLate == s.haveLast /\ cur > s.last /\ cur - s.last > Half
           epoch == IF wrapped THEN s.epoch + 1 ELSE s.epoch
           used == (IF wasLate THEN epoch - 1 ELSE epoch) % Epochs
           last == IF wasLate THEN s.last ELSE cur
           times == Append(s.times, used * Counter + cur)
<1>1. Unwrapped(s, cur) = [epoch |-> epoch, haveLast |-> TRUE, last |-> last, times |-> times]
  BY Zenon DEF Unwrapped
<1>2. s.epoch \in Int /\ s.last \in Int /\ s.times \in Seq(Int)
  BY DEF Counts
<1> HIDE DEF wrapped, wasLate
<1>3. epoch \in Int /\ last \in Int
  BY <1>2
<1>4. used \in Int
  <2>1. (IF wasLate THEN epoch - 1 ELSE epoch) \in Int
    BY <1>3
  <2> HIDE DEF epoch
  <2>2. \A x \in Int : x % Epochs \in 0 .. Epochs - 1
    BY EpochsAssumption, Division
  <2>3. used \in 0 .. Epochs - 1
    BY <2>1, <2>2
  <2> QED BY <2>3, EpochsAssumption
<1> HIDE DEF used, epoch, last
<1>5. times \in Seq(Int)
  <2>1. used * Counter + cur \in Int
    BY <1>4, CounterAssumption
  <2> QED BY <1>2, <2>1
<1> HIDE DEF times
<1> QED BY <1>1, <1>3, <1>5 DEF Counts

\* How the code walks the stream.
Walks(k, stream, n) ==
  /\ k[0] = UnwrapStart
  /\ \A i \in 1 .. n : k[i] = Unwrapped(k[i - 1], stream[i])
\* The unwrapping is a walk that takes the notes one by one.
LEMMA WalkIs ==
  ASSUME NEW n \in Nat, NEW stream \in [1 .. n -> Nat]
  PROVE  \E k : Walks(k, stream, n) /\ UnwrapNoteSystime(stream) = k[n].times
<1> DEFINE P(g) == g = [i \in 0 .. Len(stream) |->
                         IF i = 0 THEN UnwrapStart
                         ELSE IF stream[i] = Skipped THEN g[i - 1]
                         ELSE Unwrapped(g[i - 1], stream[i])]
           k == CHOOSE g : P(g)
           step == [p \in Counts \X Nat |->
                     IF p[2] \in 1 .. n THEN Unwrapped(p[1], stream[p[2]]) ELSE UnwrapStart]
<1>0. Len(stream) = n
  <2>1. stream \in Seq(Nat)
    OBVIOUS
  <2> QED BY <2>1
<1>1. UnwrapNoteSystime(stream) = k[Len(stream)].times
  BY Zenon DEF UnwrapNoteSystime
<1>2. UnwrapStart \in Counts
  <2>1. <<>> \in Seq(Int)
    OBVIOUS
  <2> QED BY <2>1 DEF UnwrapStart, Counts
<1>3. PICK h : Unfolds(h, Counts, UnwrapStart, step, n)
  <2>1. ASSUME NEW p \in Counts \X Nat
        PROVE  (IF p[2] \in 1 .. n THEN Unwrapped(p[1], stream[p[2]]) ELSE UnwrapStart) \in Counts
    <3>1. p[1] \in Counts /\ (p[2] \in 1 .. n => stream[p[2]] \in Int)
      OBVIOUS
    <3> QED BY <1>2, <3>1, CountsStay
  <2>2. Steps(step, Counts)
    BY <2>1 DEF Steps
  <2> HIDE DEF step
  <2> QED BY <1>2, <2>2, RecursionExists
<1>4. /\ h \in [0 .. n -> Counts] /\ h[0] = UnwrapStart
      /\ \A i \in 1 .. n : h[i] = Unwrapped(h[i - 1], stream[i])
  <2>1. /\ h \in [0 .. n -> Counts] /\ h[0] = UnwrapStart
        /\ \A i \in 1 .. n : h[i] = step[<<h[i - 1], i>>]
    <3> HIDE DEF step
    <3> QED BY <1>3 DEF Unfolds
  <2>2. ASSUME NEW i \in 1 .. n PROVE h[i] = Unwrapped(h[i - 1], stream[i])
    <3>1. <<h[i - 1], i>> \in Counts \X Nat
      BY <2>1
    <3> QED BY <2>1, <3>1
  <2> QED BY <2>1, <2>2
<1>5. \A i \in 1 .. n : stream[i] # Skipped /\ i # 0
  BY DEF Skipped
<1>6. P(h)
  <2>1. \A i \in 0 .. n : h[i] = IF i = 0 THEN UnwrapStart
                                 ELSE IF stream[i] = Skipped THEN h[i - 1]
                                 ELSE Unwrapped(h[i - 1], stream[i])
    <3>1. \A i \in 0 .. n : i = 0 \/ i \in 1 .. n
      OBVIOUS
    <3> QED BY <1>4, <1>5, <3>1
  <2> QED BY <1>0, <1>4, <2>1
<1>7. P(k)
  <2> HIDE DEF P
  <2> QED BY <1>6, Zenon
<1> HIDE DEF k
<1>8. \A i \in 0 .. n : k[i] = IF i = 0 THEN UnwrapStart
                               ELSE IF stream[i] = Skipped THEN k[i - 1]
                               ELSE Unwrapped(k[i - 1], stream[i])
  BY <1>0, <1>7
<1>9. Walks(k, stream, n)
  <2>1. 0 \in 0 .. n /\ \A i \in 1 .. n : i \in 0 .. n
    OBVIOUS
  <2> QED BY <1>5, <1>8, <2>1 DEF Walks
<1> QED BY <1>0, <1>1, <1>9

(* The notes of a target: each is at most late behind the newest before it    *)
(* and at most ahead of it, and the first is of the counter's first turn.     *)
Notes(now, newest, n, late, ahead) ==
  /\ late \in Nat /\ ahead \in Nat /\ late + ahead < Half
  /\ now \in [0 .. n -> Int] /\ newest \in [0 .. n -> Nat]
  /\ now[0] \in 0 .. Counter - 1 /\ newest[0] = now[0]
  /\ \A i \in 0 .. n : now[i] < Counter * Epochs
  /\ \A i \in 1 .. n : /\ now[i] \in newest[i - 1] - late .. newest[i - 1] + ahead
                       /\ newest[i] = Later(now[i], newest[i - 1])

\* What the target sends of the times: the counter.
StreamOf(now, n) == [j \in 1 .. n + 1 |-> now[j - 1] % Counter]
AllPlaced(now, n) ==
  \A i \in 0 .. n : now[i] >= 0 => UnwrapNoteSystime(StreamOf(now, n))[i + 1] = now[i]

(* Every note of the stream gets its true time, however many there are and    *)
(* whatever the width of the counter, also those that come late across a      *)
(* wrap; but for notes of before the first one's turn (nxtrace.cpp:158-206).  *)
THEOREM StreamPlaced ==
  ASSUME NEW late, NEW ahead, NEW n \in Nat, NEW now, NEW newest, Notes(now, newest, n, late, ahead)
  PROVE  AllPlaced(now, n)
<1> DEFINE stream == StreamOf(now, n)
<1>1. Counter \in Nat \ {0} /\ late \in Nat /\ ahead \in Nat /\ late + ahead < Half
  BY CounterAssumption DEF Notes
<1>2. stream \in [1 .. n + 1 -> Nat] /\ \A j \in 0 .. n : stream[j + 1] = now[j] % Counter
  <2>1. ASSUME NEW j \in 1 .. n + 1 PROVE now[j - 1] % Counter \in Nat
    <3>1. now[j - 1] \in Int
      BY DEF Notes
    <3> QED BY <1>1, <3>1, Division
  <2>2. \A j \in 0 .. n : j + 1 \in 1 .. n + 1 /\ (j + 1) - 1 = j
    OBVIOUS
  <2> QED BY <2>1, <2>2 DEF StreamOf
<1> HIDE DEF stream
<1>3. PICK k : Walks(k, stream, n + 1) /\ UnwrapNoteSystime(stream) = k[n + 1].times
  <2>1. n + 1 \in Nat
    OBVIOUS
  <2> QED BY <1>2, <2>1, WalkIs
<1> DEFINE Right(t, m) == /\ t \in Seq(Int) /\ Len(t) = m + 1
                          /\ \A j \in 0 .. m : now[j] >= 0 => t[j + 1] = now[j]
           G == {m \in 0 .. n : Right(k[m + 1].times, m) /\ Follows(k[m + 1], newest[m], late)}
<1>4. 0 \in G
  <2>1. now[0] \in 0 .. Counter - 1 /\ newest[0] = now[0]
    BY DEF Notes
  <2>2. stream[1] = now[0]
    <3>1. stream[0 + 1] = now[0] % Counter
      BY <1>2
    <3>2. now[0] % Counter = now[0]
      BY <1>1, <2>1, SmallRemainder
    <3> QED BY <3>1, <3>2
  <2>3. k[1] = Unwrapped(UnwrapStart, now[0])
    BY <1>3, <2>2 DEF Walks
  <2>4. k[1].times = <<now[0]>> /\ Follows(k[1], newest[0], late)
    BY <1>1, <2>1, <2>3, FirstNotePlaced
  <2>5. Right(<<now[0]>>, 0)
    BY <2>1
  <2> HIDE DEF Right
  <2>6. Right(k[1].times, 0)
    BY <2>4, <2>5
  <2> QED BY <2>4, <2>6
<1>5. ASSUME NEW m \in 1 .. n, m - 1 \in G PROVE m \in G
  <2> DEFINE t == k[m].times
  <2>1. Right(t, m - 1) /\ Follows(k[m], newest[m - 1], late)
    <3>1. (m - 1) + 1 = m
      OBVIOUS
    <3> QED BY <1>5, <3>1
  <2>2. /\ newest[m - 1] \in Nat /\ now[m] < Counter * Epochs
        /\ now[m] \in newest[m - 1] - late .. newest[m - 1] + ahead
        /\ newest[m] = Later(now[m], newest[m - 1])
    BY DEF Notes
  <2>3. stream[m + 1] = now[m] % Counter
    BY <1>2
  <2>4. k[m + 1] = Unwrapped(k[m], now[m] % Counter)
    <3>1. m + 1 \in 1 .. n + 1 /\ (m + 1) - 1 = m
      OBVIOUS
    <3> QED BY <1>3, <2>3, <3>1 DEF Walks
  <2>5. /\ Counted(k[m], now[m] % Counter, now[m])
        /\ Follows(Unwrapped(k[m], now[m] % Counter), newest[m], late)
    BY <1>1, <2>1, <2>2, NoteTaken
  <2>6. PICK u \in Int : k[m + 1].times = Append(t, u) /\ (now[m] >= 0 => u = now[m])
    BY <2>4, <2>5 DEF Counted
  <2> HIDE DEF t
  <2>7. Right(Append(t, u), m)
    <3>1. t \in Seq(Int) /\ Len(t) = m /\ \A j \in 0 .. m - 1 : now[j] >= 0 => t[j + 1] = now[j]
      BY <2>1
    <3>2. Append(t, u) \in Seq(Int) /\ Len(Append(t, u)) = m + 1
      BY <3>1
    <3>3. Append(t, u)[m + 1] = u /\ \A j \in 0 .. m - 1 : Append(t, u)[j + 1] = t[j + 1]
      BY <3>1
    <3>4. \A j \in 0 .. m : j = m \/ j \in 0 .. m - 1
      OBVIOUS
    <3>5. ASSUME NEW j \in 0 .. m, now[j] >= 0 PROVE Append(t, u)[j + 1] = now[j]
      <4>1. CASE j = m
        BY <2>6, <3>3, <3>5, <4>1
      <4>2. CASE j \in 0 .. m - 1
        BY <3>1, <3>3, <3>5, <4>2
      <4> QED BY <3>4, <4>1, <4>2
    <3> QED BY <3>2, <3>5
  <2> HIDE DEF Right
  <2>8. Right(k[m + 1].times, m)
    BY <2>6, <2>7
  <2>9. Follows(k[m + 1], newest[m], late)
    BY <2>4, <2>5
  <2>10. m \in 0 .. n
    OBVIOUS
  <2> QED BY <2>8, <2>9, <2>10
<1> HIDE DEF G
<1>6. 0 .. n \subseteq G
  BY <1>4, <1>5, InductUpTo
<1>7. Right(k[n + 1].times, n)
  BY <1>6 DEF G
<1> QED BY <1>3, <1>7 DEF stream, AllPlaced

------------------------------------------------------------------------------
\* The values in order: a later one is not smaller.
Ascending(h, n) == \A i, j \in 1 .. n : i <= j => h[i] <= h[j]

\* Values that never fall from one to the next are in order.
LEMMA StepByStep ==
  ASSUME NEW n \in Nat, NEW h \in [1 .. n -> Int], \A i \in 2 .. n : h[i - 1] <= h[i]
  PROVE  Ascending(h, n)
<1> SUFFICES ASSUME NEW i \in 1 .. n PROVE \A j \in 1 .. n : i <= j => h[i] <= h[j]
  BY DEF Ascending
<1> DEFINE G == {d \in 0 .. n : i + d <= n => h[i] <= h[i + d]}
<1>1. 0 \in G
  OBVIOUS
<1>2. ASSUME NEW d \in 1 .. n, d - 1 \in G PROVE d \in G
  <2>1. CASE i + d <= n
    <3>1. i + d \in 2 .. n /\ i + (d - 1) = (i + d) - 1 /\ i + (d - 1) \in 1 .. n
      BY <2>1
    <3>2. h[(i + d) - 1] <= h[i + d] /\ h[i] <= h[(i + d) - 1]
      BY <1>2, <3>1
    <3>3. h[i] \in Int /\ h[(i + d) - 1] \in Int /\ h[i + d] \in Int
      BY <3>1
    <3>4. h[i] <= h[i + d]
      BY <3>2, <3>3
    <3> QED BY <3>4
  <2>2. CASE ~(i + d <= n)
    BY <2>2
  <2> QED BY <2>1, <2>2
<1> HIDE DEF G
<1>3. 0 .. n \subseteq G
  BY <1>1, <1>2, InductUpTo
<1>4. ASSUME NEW j \in 1 .. n, i <= j PROVE h[i] <= h[j]
  <2>1. j - i \in 0 .. n /\ i + (j - i) = j
    BY <1>4
  <2>2. j - i \in G
    BY <1>3, <2>1
  <2> QED BY <2>1, <2>2, <1>4 DEF G
<1> QED BY <1>4

\* The later of two times.
LEMMA LaterIs ==
  \A a, b \in Int : /\ Later(a, b) \in {a, b} /\ a <= Later(a, b) /\ b <= Later(a, b)
                    /\ Earlier(a, b) \in {a, b} /\ Earlier(a, b) <= a /\ Earlier(a, b) <= b
BY DEF Later, Earlier

(* The ticks of a base: the greatest of the raw ones so far.                  *)
GreatestSoFar(tick, raw, n) ==
  \A i \in 1 .. n : /\ tick[i] \in Nat /\ raw[i] <= tick[i]
                    /\ \E k \in 1 .. i : tick[i] = raw[k]
                    /\ i = 1 \/ tick[i - 1] <= tick[i]
\* The ticks are the running greatest of the placed times.
LEMMA TicksAreGreatest ==
  ASSUME NEW n \in Nat, NEW raw, raw \in [1 .. n -> Nat]
  PROVE  GreatestSoFar(NonDecreasing(raw), raw, n)
<1>0. Len(raw) = n /\ DOMAIN raw = 1 .. n
  <2>1. raw \in Seq(Nat)
    OBVIOUS
  <2> QED BY <2>1
<1> DEFINE P(g) == g = [i \in 0 .. Len(raw) |-> IF i = 0 THEN 0 ELSE Later(raw[i], g[i - 1])]
           tick == CHOOSE g : P(g)
           step == [p \in Nat \X Nat |-> IF p[2] \in 1 .. n THEN Later(raw[p[2]], p[1]) ELSE 0]
<1>1. NonDecreasing(raw) = [i \in DOMAIN raw |-> tick[i]]
  BY Zenon DEF NonDecreasing
<1>2. PICK h : Unfolds(h, Nat, 0, step, n)
  <2>1. ASSUME NEW p \in Nat \X Nat
        PROVE  (IF p[2] \in 1 .. n THEN Later(raw[p[2]], p[1]) ELSE 0) \in Nat
    <3>1. p[1] \in Nat /\ (p[2] \in 1 .. n => raw[p[2]] \in Nat)
      OBVIOUS
    <3> QED BY <3>1 DEF Later
  <2>2. Steps(step, Nat)
    BY <2>1 DEF Steps
  <2> HIDE DEF step
  <2> QED BY <2>2, RecursionExists
<1>3. /\ h \in [0 .. n -> Nat] /\ h[0] = 0
      /\ \A i \in 1 .. n : h[i] = Later(raw[i], h[i - 1])
  <2>1. /\ h \in [0 .. n -> Nat] /\ h[0] = 0
        /\ \A i \in 1 .. n : h[i] = step[<<h[i - 1], i>>]
    <3> HIDE DEF step
    <3> QED BY <1>2 DEF Unfolds
  <2>2. ASSUME NEW i \in 1 .. n PROVE h[i] = Later(raw[i], h[i - 1])
    <3>1. <<h[i - 1], i>> \in Nat \X Nat
      BY <2>1
    <3> QED BY <2>1, <3>1
  <2> QED BY <2>1, <2>2
<1>4. P(h)
  <2>1. \A i \in 0 .. n : h[i] = IF i = 0 THEN 0 ELSE Later(raw[i], h[i - 1])
    BY <1>3
  <2> QED BY <1>0, <1>3, <2>1
<1>5. P(tick)
  <2> HIDE DEF P
  <2> QED BY <1>4, Zenon
<1> HIDE DEF tick, step
<1>6. tick[0] = 0 /\ \A i \in 1 .. n : tick[i] = Later(raw[i], tick[i - 1])
  <2>1. \A i \in 0 .. n : tick[i] = IF i = 0 THEN 0 ELSE Later(raw[i], tick[i - 1])
    BY <1>0, <1>5
  <2> QED BY <2>1
<1> HIDE DEF P
<1> DEFINE G == {i \in 0 .. n : /\ tick[i] \in Nat
                                /\ i > 0 => /\ raw[i] <= tick[i]
                                            /\ \E k \in 1 .. i : tick[i] = raw[k]}
<1>7. 0 \in G
  BY <1>6
<1>8. ASSUME NEW i \in 1 .. n, i - 1 \in G PROVE i \in G
  <2>1. tick[i - 1] \in Nat /\ raw[i] \in Nat /\ tick[i] = Later(raw[i], tick[i - 1])
    BY <1>6, <1>8
  <2>2. tick[i] \in Nat /\ raw[i] <= tick[i] /\ (tick[i] = raw[i] \/ tick[i] = tick[i - 1])
    BY <2>1, LaterIs
  <2>3. CASE tick[i] = raw[i]
    BY <2>2, <2>3
  <2>4. CASE tick[i] = tick[i - 1] /\ i = 1
    BY <1>6, <2>1, <2>2, <2>4
  <2>5. CASE tick[i] = tick[i - 1] /\ i # 1
    <3>1. PICK k \in 1 .. i - 1 : tick[i - 1] = raw[k]
      BY <1>8, <2>5
    <3> QED BY <2>2, <2>5, <3>1
  <2> QED BY <2>2, <2>3, <2>4, <2>5
<1> HIDE DEF G
<1>9. 0 .. n \subseteq G
  BY <1>7, <1>8, InductUpTo
<1>10. ASSUME NEW i \in 1 .. n
       PROVE  /\ tick[i] \in Nat /\ raw[i] <= tick[i] /\ \E k \in 1 .. i : tick[i] = raw[k]
              /\ tick[i - 1] <= tick[i]
  <2>1. i \in 0 .. n /\ i > 0 /\ i - 1 \in 0 .. n
    OBVIOUS
  <2>2. i \in G /\ i - 1 \in G
    BY <1>9, <2>1
  <2>3. tick[i - 1] \in Nat /\ raw[i] \in Nat /\ tick[i] = Later(raw[i], tick[i - 1])
    BY <1>6, <2>2 DEF G
  <2>4. tick[i - 1] <= tick[i]
    BY <2>3, LaterIs
  <2> QED BY <2>1, <2>2, <2>4 DEF G
<1>11. \A i \in 1 .. n : NonDecreasing(raw)[i] = tick[i]
  BY <1>0, <1>1
<1>12. ASSUME NEW i \in 1 .. n, i # 1 PROVE NonDecreasing(raw)[i - 1] <= NonDecreasing(raw)[i]
  <2>1. i - 1 \in 1 .. n
    BY <1>12
  <2> QED BY <1>10, <1>11, <2>1
<1> QED BY <1>10, <1>11, <1>12 DEF GreatestSoFar

(* Slices as the call-stack machine makes them: neither the time stamp nor    *)
(* the cycles go back.                                                        *)
Recorded(s, n) ==
  /\ DOMAIN s = 1 .. n /\ Len(s) = n
  /\ \A i \in 1 .. n : s[i].ts \in Nat /\ s[i].cycle \in Nat
  /\ \A i, j \in 1 .. n : i <= j => s[i].ts <= s[j].ts /\ s[i].cycle <= s[j].cycle

(* The anchor of a slice is the first slice with its time stamp.              *)
FirstOf(s, i, a) ==
  /\ a \in 1 .. i /\ s[a].ts = s[i].ts /\ IsAnchor(s, a)
  /\ \A k \in 1 .. i : s[k].ts = s[i].ts => a <= k
\* The anchor of a slice is the first with its time stamp.
LEMMA AnchorIsFirst ==
  ASSUME NEW n \in Nat, NEW s, Recorded(s, n), NEW i \in 1 .. n
  PROVE  FirstOf(s, i, AnchorOf(s, i))
<1> DEFINE T == {k \in 1 .. i : s[k].ts = s[i].ts}
           IsIt(a) == IsAnchor(s, a) /\ \A j \in a + 1 .. i : ~IsAnchor(s, j)
<1>1. PICK m \in T : \A k \in T : m <= k
  <2>1. T \in SUBSET Nat /\ T # {}
    OBVIOUS
  <2> HIDE DEF T
  <2> QED BY <2>1, LeastNumber
<1>2. m \in 1 .. i /\ m \in 1 .. n /\ s[m].ts = s[i].ts
  OBVIOUS
<1>3. ASSUME NEW j \in m .. i PROVE s[j].ts = s[i].ts
  <2>1. j \in 1 .. n /\ m <= j /\ j <= i
    BY <1>2
  <2>2. s[m].ts <= s[j].ts /\ s[j].ts <= s[i].ts
    BY <1>2, <2>1 DEF Recorded
  <2>3. s[m].ts \in Nat /\ s[j].ts \in Nat /\ s[i].ts \in Nat
    BY <1>2, <2>1 DEF Recorded
  <2> QED BY <1>2, <2>2, <2>3
<1>4. IsAnchor(s, m)
  <2>1. CASE m = 1
    BY <2>1 DEF IsAnchor
  <2>2. CASE m # 1
    <3>1. m - 1 \in 1 .. i /\ ~(m <= m - 1)
      BY <1>2, <2>2
    <3>2. s[m - 1].ts # s[m].ts
      BY <1>1, <1>2, <3>1
    <3> QED BY <3>2 DEF IsAnchor
  <2> QED BY <2>1, <2>2
<1>5. ASSUME NEW j \in m + 1 .. i PROVE ~IsAnchor(s, j)
  <2>1. j \in m .. i /\ j - 1 \in m .. i /\ j # 1
    BY <1>2
  <2>2. s[j].ts = s[i].ts /\ s[j - 1].ts = s[i].ts
    BY <1>3, <2>1
  <2> QED BY <2>1, <2>2 DEF IsAnchor
<1>6. IsIt(m)
  BY <1>4, <1>5
<1>7. ASSUME NEW a \in 1 .. i, IsIt(a) PROVE a = m
  <2>1. ~(a < m)
    <3>1. ASSUME a < m PROVE m \in a + 1 .. i
      BY <1>2, <3>1
    <3> QED BY <1>4, <1>7, <3>1
  <2>2. ~(a > m)
    <3>1. ASSUME a > m PROVE a \in m + 1 .. i
      BY <1>2, <3>1
    <3> QED BY <1>5, <1>7, <3>1
  <2> QED BY <1>2, <2>1, <2>2
<1>8. AnchorOf(s, i) = CHOOSE a \in 1 .. i : IsIt(a)
  BY DEF AnchorOf
<1> HIDE DEF IsIt
<1>9. AnchorOf(s, i) = m
  BY <1>2, <1>6, <1>7, <1>8
<1> QED BY <1>1, <1>2, <1>4, <1>9 DEF FirstOf

\* The first of the numbers that satisfy a condition.
LEMMA FirstTrueIs ==
  ASSUME NEW S \in SUBSET Nat, S # {}
  PROVE  FirstTrue(S) \in S /\ \A j \in S : FirstTrue(S) <= j
<1>1. \E m \in S : \A j \in S : m <= j
  BY LeastNumber
<1> QED BY <1>1 DEF FirstTrue

(* The next anchor is the first slice with a later time stamp.                *)
LEMMA NextIsLater ==
  ASSUME NEW n \in Nat, NEW s, Recorded(s, n), NEW i \in 1 .. n
  PROVE  /\ NextAnchors(s, i) \in SUBSET Nat
         /\ \A j \in NextAnchors(s, i) : j \in 1 .. n /\ i < j /\ IsAnchor(s, j) /\ s[i].ts < s[j].ts
         /\ \A j \in 1 .. n : s[i].ts < s[j].ts => \E k \in NextAnchors(s, i) : k <= j
<1>1. ASSUME NEW j \in NextAnchors(s, i)
      PROVE  j \in 1 .. n /\ i < j /\ IsAnchor(s, j) /\ s[i].ts < s[j].ts
  <2>1. j \in i + 1 .. n /\ IsAnchor(s, j)
    BY DEF NextAnchors, Recorded
  <2>2. j \in 1 .. n /\ i < j /\ j - 1 \in 1 .. n /\ j # 1 /\ i <= j - 1 /\ j - 1 <= j
    BY <2>1
  <2>3. s[j].ts # s[j - 1].ts
    BY <2>1, <2>2 DEF IsAnchor
  <2>4. s[i].ts <= s[j - 1].ts /\ s[j - 1].ts <= s[j].ts
    BY <2>2 DEF Recorded
  <2>5. s[i].ts \in Nat /\ s[j].ts \in Nat /\ s[j - 1].ts \in Nat
    BY <2>2 DEF Recorded
  <2>6. s[i].ts < s[j].ts
    BY <2>3, <2>4, <2>5
  <2> QED BY <2>1, <2>2, <2>6
<1>2. ASSUME NEW j \in 1 .. n, s[i].ts < s[j].ts
      PROVE  \E k \in NextAnchors(s, i) : k <= j
  <2> DEFINE T == {k \in 1 .. j : s[i].ts < s[k].ts}
  <2>1. PICK k \in T : \A l \in T : k <= l
    <3>1. T \in SUBSET Nat /\ T # {}
      BY <1>2
    <3> HIDE DEF T
    <3> QED BY <3>1, LeastNumber
  <2>2. k \in 1 .. n /\ k <= j /\ s[i].ts < s[k].ts
    OBVIOUS
  <2>3. s[i].ts \in Nat /\ s[k].ts \in Nat
    BY <2>2 DEF Recorded
  <2>4. i < k
    <3>1. k <= i => s[k].ts <= s[i].ts
      BY <2>2 DEF Recorded
    <3> QED BY <2>2, <2>3, <3>1
  <2>5. k - 1 \in 1 .. n /\ k # 1 /\ k - 1 \in 1 .. j /\ ~(k <= k - 1)
    BY <2>2, <2>4
  <2>6. ~(s[i].ts < s[k - 1].ts)
    BY <2>1, <2>5
  <2>7. s[k - 1].ts \in Nat
    BY <2>5 DEF Recorded
  <2>8. s[k - 1].ts # s[k].ts
    BY <2>2, <2>3, <2>6, <2>7
  <2>9. k \in i + 1 .. n /\ IsAnchor(s, k)
    BY <2>2, <2>4, <2>8 DEF IsAnchor
  <2>10. k \in NextAnchors(s, i)
    BY <2>9 DEF NextAnchors, Recorded
  <2> QED BY <2>2, <2>10
<1>3. NextAnchors(s, i) \in SUBSET Nat
  BY <1>1
<1> QED BY <1>1, <1>2, <1>3

Cycled(s, i, j) == (s[j].cycle - s[i].cycle) * PerCycle
\* Cycles take at least their time.
LEMMA CyclesTake ==
  ASSUME NEW n \in Nat, NEW s, Recorded(s, n), NEW i \in 1 .. n, NEW j \in 1 .. n, i <= j
  PROVE  Cycled(s, i, j) \in Nat
<1>1. s[j].cycle \in Nat /\ s[i].cycle \in Nat /\ s[i].cycle <= s[j].cycle
  BY DEF Recorded
<1>2. s[j].cycle - s[i].cycle \in Nat
  BY <1>1
<1> HIDE DEF Recorded
<1>3. PerCycle \in Nat
  BY PerCycleAssumption
<1>4. \A x, y \in Nat : x * y \in Nat
  OBVIOUS
<1> QED BY <1>2, <1>3, <1>4 DEF Cycled

\* The time of an anchor is its time stamp, or counted back from the first one.
LEMMA AnchorTimeIs ==
  ASSUME NEW n \in Nat, NEW s, Recorded(s, n), NEW a \in 1 .. n
  PROVE  /\ AnchorTime(s, a) \in Nat
         /\ s[a].ts # 0 => AnchorTime(s, a) = s[a].ts
         /\ \A j \in 1 .. n : s[a].ts < s[j].ts => AnchorTime(s, a) <= s[j].ts
         /\ s[a].ts = 0 =>
              \A j \in 1 .. n : s[j].ts # 0 =>
                \E k \in 1 .. n : /\ s[k].ts # 0 /\ IsAnchor(s, k) /\ a < k
                                  /\ AnchorTime(s, a) = Later(0, s[k].ts - Cycled(s, a, k))
<1>0. \A i \in 1 .. n : s[i].ts \in Nat
  BY DEF Recorded
<1>1. CASE s[a].ts # 0
  <2>1. AnchorTime(s, a) = s[a].ts
    BY <1>1 DEF AnchorTime
  <2> QED BY <1>0, <1>1, <2>1
<1>2. CASE s[a].ts = 0
  <2> DEFINE real == {i \in DOMAIN s : s[i].ts # 0}
             fa == FirstTrue(real)
  <2>1. AnchorTime(s, a) = IF real = {} THEN 0 ELSE Later(0, s[fa].ts - Cycled(s, a, fa))
    BY <1>2 DEF AnchorTime, Cycled
  <2>2. \A i \in 1 .. n : s[i].ts # 0 => i \in real
    BY DEF Recorded
  <2>3. real \in SUBSET Nat
    BY DEF Recorded
  <2>4. \A i \in real : i \in 1 .. n /\ s[i].ts # 0
    BY DEF Recorded
  <2> HIDE DEF real
  <2>5. CASE real = {}
    <3>1. AnchorTime(s, a) = 0
      BY <2>1, <2>5
    <3>2. \A j \in 1 .. n : s[j].ts = 0
      BY <2>2, <2>5
    <3> QED BY <1>0, <1>2, <3>1, <3>2
  <2>6. CASE real # {}
    <3>1. fa \in real /\ \A j \in real : fa <= j
      BY <2>3, <2>6, FirstTrueIs
    <3>2. fa \in 1 .. n /\ s[fa].ts # 0 /\ s[fa].ts \in Nat
      BY <1>0, <2>4, <3>1
    <3> HIDE DEF fa
    <3>3. a < fa
      <4>1. fa <= a => s[fa].ts <= s[a].ts
        BY <3>2 DEF Recorded
      <4> QED BY <1>2, <3>2, <4>1
    <3>4. Cycled(s, a, fa) \in Nat
      BY <3>2, <3>3, CyclesTake
    <3>5. IsAnchor(s, fa)
      <4>1. fa - 1 \in 1 .. n /\ ~(fa <= fa - 1) /\ fa # 1
        BY <3>2, <3>3
      <4>2. s[fa - 1].ts = 0
        BY <2>2, <3>1, <4>1
      <4> QED BY <3>2, <4>2 DEF IsAnchor
    <3>6. AnchorTime(s, a) = Later(0, s[fa].ts - Cycled(s, a, fa))
      BY <2>1, <2>6 DEF fa
    <3>7. AnchorTime(s, a) \in Nat /\ AnchorTime(s, a) <= s[fa].ts
      <4>1. \A t, c \in Nat : Later(0, t - c) \in Nat /\ Later(0, t - c) <= t
        BY DEF Later
      <4> QED BY <3>2, <3>4, <3>6, <4>1
    <3>8. ASSUME NEW j \in 1 .. n, s[j].ts # 0 PROVE AnchorTime(s, a) <= s[j].ts
      <4>1. fa <= j
        BY <2>2, <3>1, <3>8
      <4>2. s[fa].ts <= s[j].ts /\ s[j].ts \in Nat
        BY <1>0, <3>2, <4>1 DEF Recorded
      <4> QED BY <3>2, <3>7, <4>2
    <3>9. \A j \in 1 .. n : s[a].ts < s[j].ts => AnchorTime(s, a) <= s[j].ts
      BY <1>2, <3>8
    <3>10. \E k \in 1 .. n : /\ s[k].ts # 0 /\ IsAnchor(s, k) /\ a < k
                             /\ AnchorTime(s, a) = Later(0, s[k].ts - Cycled(s, a, k))
      BY <3>2, <3>3, <3>5, <3>6
    <3> QED BY <1>2, <3>7, <3>9, <3>10
  <2> QED BY <2>5, <2>6
<1> QED BY <1>1, <1>2

(* A slice is not before its anchor and not behind the next one, and the      *)
(* cycles between the anchor and the slice are all that is added.             *)
LEMMA HybridIs ==
  ASSUME NEW n \in Nat, NEW s, Recorded(s, n), NEW i \in 1 .. n,
         NEW a, a = AnchorOf(s, i), NEW base, base = AnchorTime(s, a)
  PROVE  /\ Hybrid(s, i) \in Nat /\ base \in Nat
         /\ base <= Hybrid(s, i) /\ Hybrid(s, i) <= base + Cycled(s, a, i)
         /\ \A j \in 1 .. n : s[i].ts < s[j].ts => Hybrid(s, i) <= s[j].ts
         /\ \/ Hybrid(s, i) = base + Cycled(s, a, i)
            \/ \E k \in 1 .. n : /\ s[i].ts < s[k].ts /\ IsAnchor(s, k) /\ i < k
                                 /\ s[k].ts < base + Cycled(s, a, i)
<1> DEFINE next == NextAnchors(s, i)
           counted == base + Cycled(s, a, i)
           nx == FirstTrue(next)
           capped == next # {} /\ s[nx].ts # 0
<1>1. a \in 1 .. n /\ a <= i /\ s[a].ts = s[i].ts
  BY AnchorIsFirst DEF FirstOf
<1>2. Cycled(s, a, i) \in Nat
  BY <1>1, CyclesTake
<1>3. /\ base \in Nat
      /\ \A j \in 1 .. n : s[i].ts < s[j].ts => base <= s[j].ts
  BY <1>1, AnchorTimeIs
<1>4. Hybrid(s, i) = Later(base, IF capped THEN Earlier(s[nx].ts, counted) ELSE counted)
  BY DEF Hybrid, CountedOn, Cycled
<1>5. counted \in Nat /\ base <= counted
  BY <1>2, <1>3
<1>6. /\ next \in SUBSET Nat
      /\ \A j \in next : j \in 1 .. n /\ i < j /\ IsAnchor(s, j) /\ s[i].ts < s[j].ts
      /\ \A j \in 1 .. n : s[i].ts < s[j].ts => \E k \in next : k <= j
  BY NextIsLater
<1>7. \A j \in 1 .. n : s[j].ts \in Nat
  BY DEF Recorded
<1> HIDE DEF next, counted
<1>8. CASE next = {}
  <2>1. Hybrid(s, i) = counted
    BY <1>3, <1>4, <1>5, <1>8 DEF Later
  <2>2. \A j \in 1 .. n : ~(s[i].ts < s[j].ts)
    BY <1>6, <1>8
  <2> QED BY <1>3, <1>5, <2>1, <2>2 DEF counted
<1>9. CASE next # {}
  <2>1. nx \in next /\ \A j \in next : nx <= j
    BY <1>6, <1>9, FirstTrueIs
  <2>2. nx \in 1 .. n /\ i < nx /\ IsAnchor(s, nx) /\ s[i].ts < s[nx].ts
    BY <1>6, <2>1
  <2> DEFINE cap == s[nx].ts
  <2>3. cap \in Nat /\ cap # 0 /\ base <= cap
    BY <1>3, <1>7, <2>2
  <2>4. Hybrid(s, i) = Later(base, Earlier(cap, counted))
    BY <1>4, <1>9, <2>3
  <2>5. ASSUME NEW j \in 1 .. n, s[i].ts < s[j].ts PROVE cap <= s[j].ts
    <3>1. PICK k \in next : k <= j
      BY <1>6, <2>5
    <3>2. nx <= j /\ nx \in 1 .. n
      BY <2>1, <2>2, <3>1, <1>6
    <3> QED BY <3>2 DEF Recorded
  <2> HIDE DEF nx, cap
  <2>6. /\ Hybrid(s, i) \in Nat /\ base <= Hybrid(s, i)
        /\ Hybrid(s, i) <= counted /\ Hybrid(s, i) <= cap
        /\ (Hybrid(s, i) = counted \/ cap < counted)
    BY <1>3, <1>5, <2>3, <2>4 DEF Later, Earlier
  <2>7. \A j \in 1 .. n : s[i].ts < s[j].ts => Hybrid(s, i) <= s[j].ts
    BY <1>7, <2>3, <2>5, <2>6
  <2>8. cap < counted => \E k \in 1 .. n : /\ s[i].ts < s[k].ts /\ IsAnchor(s, k) /\ i < k
                                           /\ s[k].ts < base + Cycled(s, a, i)
    BY <2>2 DEF cap, counted
  <2> QED BY <1>3, <2>6, <2>7, <2>8 DEF counted
<1> QED BY <1>8, <1>9

HybridTicks(s) == NonDecreasing([i \in DOMAIN s |-> Hybrid(s, i)])
\* A tick is the time of an earlier slice, and not before that of its own.
LEMMA TicksAre ==
  ASSUME NEW n \in Nat, NEW s, Recorded(s, n), NEW i \in 1 .. n
  PROVE  /\ HybridTicks(s)[i] \in Nat /\ Hybrid(s, i) <= HybridTicks(s)[i]
         /\ \E k \in 1 .. i : HybridTicks(s)[i] = Hybrid(s, k)
<1> DEFINE raw == [k \in 1 .. n |-> Hybrid(s, k)]
<1>1. HybridTicks(s) = NonDecreasing(raw)
  BY DEF HybridTicks, Recorded
<1>2. raw \in [1 .. n -> Nat]
  BY HybridIs
<1>3. \A k \in 1 .. n : raw[k] = Hybrid(s, k)
  OBVIOUS
<1> HIDE DEF raw
<1>4. GreatestSoFar(HybridTicks(s), raw, n)
  BY <1>1, <1>2, TicksAreGreatest
<1>5. PICK k \in 1 .. i : HybridTicks(s)[i] = raw[k]
  BY <1>4 DEF GreatestSoFar
<1>6. HybridTicks(s)[i] \in Nat /\ raw[i] <= HybridTicks(s)[i]
  BY <1>4 DEF GreatestSoFar
<1>7. k \in 1 .. n
  OBVIOUS
<1> QED BY <1>3, <1>5, <1>6, <1>7

(* Whatever the slices, the hybrid base keeps each between its time stamp and *)
(* the next one (timebase.hpp:65-77).                                         *)
THEOREM HybridKeepsOrder ==
  ASSUME NEW n \in Nat, NEW s, Recorded(s, n), NEW i \in 1 .. n
  PROVE  /\ s[i].ts # 0 => s[i].ts <= HybridTicks(s)[i]
         /\ \A j \in 1 .. n : s[i].ts < s[j].ts => HybridTicks(s)[i] <= s[j].ts
<1>0. \A k \in 1 .. n : s[k].ts \in Nat
  BY DEF Recorded
<1>1. PICK k \in 1 .. i : HybridTicks(s)[i] = Hybrid(s, k)
  BY TicksAre
<1>2. HybridTicks(s)[i] \in Nat /\ Hybrid(s, i) <= HybridTicks(s)[i] /\ Hybrid(s, i) \in Nat
  BY TicksAre, HybridIs
<1>3. k \in 1 .. n /\ k <= i
  OBVIOUS
<1>4. ASSUME s[i].ts # 0 PROVE s[i].ts <= HybridTicks(s)[i]
  <2> DEFINE a == AnchorOf(s, i)
  <2>1. a \in 1 .. n /\ s[a].ts = s[i].ts
    BY AnchorIsFirst DEF FirstOf
  <2>2. AnchorTime(s, a) = s[i].ts
    BY <1>4, <2>1, AnchorTimeIs
  <2>3. AnchorTime(s, a) <= Hybrid(s, i)
    BY HybridIs
  <2> QED BY <1>0, <1>2, <2>2, <2>3
<1>5. ASSUME NEW j \in 1 .. n, s[i].ts < s[j].ts PROVE HybridTicks(s)[i] <= s[j].ts
  <2>1. s[k].ts <= s[i].ts
    BY <1>3 DEF Recorded
  <2>2. s[k].ts < s[j].ts
    BY <1>0, <1>3, <1>5, <2>1
  <2> QED BY <1>1, <1>3, <2>2, HybridIs
<1> QED BY <1>4, <1>5

\* When each slice really happened: a time stamp is the time of the first slice that has it.
Clocked(s, time, n) ==
  /\ time \in [1 .. n -> Nat] /\ Ascending(time, n)
  /\ \A i \in 1 .. n : /\ s[i].ts <= time[i]
                       /\ IsAnchor(s, i) /\ s[i].ts # 0 => time[i] = s[i].ts
NotFast(s, time, n) ==
  \A i, j \in 1 .. n : i <= j => Cycled(s, i, j) <= time[j] - time[i]
Exact(s, time, n) ==
  \A i, j \in 1 .. n : i <= j => Cycled(s, i, j) = time[j] - time[i]

(* As long as the cycles do not run faster than the time, no slice is shown   *)
(* later than it was.                                                         *)
THEOREM HybridNotLate ==
  ASSUME NEW n \in Nat, NEW s, Recorded(s, n), NEW time, Clocked(s, time, n),
         NotFast(s, time, n), NEW i \in 1 .. n, s[i].ts # 0
  PROVE  HybridTicks(s)[i] <= time[i]
<1>0. \A k \in 1 .. n : s[k].ts \in Nat /\ time[k] \in Nat
  BY DEF Recorded, Clocked
<1>1. PICK k \in 1 .. i : HybridTicks(s)[i] = Hybrid(s, k)
  BY TicksAre
<1>2. k \in 1 .. n /\ k <= i
  OBVIOUS
<1>3. s[k].ts <= s[i].ts /\ time[k] <= time[i] /\ s[i].ts <= time[i]
  BY <1>2 DEF Recorded, Clocked, Ascending
<1>4. Hybrid(s, k) \in Nat
  BY <1>2, HybridIs
<1>5. CASE s[k].ts < s[i].ts
  <2>1. Hybrid(s, k) <= s[i].ts
    BY <1>2, <1>5, HybridIs
  <2> QED BY <1>0, <1>1, <1>3, <1>4, <2>1
<1>6. CASE ~(s[k].ts < s[i].ts)
  <2> DEFINE a == AnchorOf(s, k)
             base == AnchorTime(s, a)
  <2>1. s[k].ts # 0
    BY <1>0, <1>2, <1>3, <1>6
  <2>2. a \in 1 .. n /\ a <= k /\ s[a].ts = s[k].ts /\ IsAnchor(s, a)
    BY <1>2, AnchorIsFirst DEF FirstOf
  <2>3. base = s[a].ts
    BY <2>1, <2>2, AnchorTimeIs
  <2>4. time[a] = s[a].ts
    BY <2>1, <2>2 DEF Clocked
  <2>5. Hybrid(s, k) <= base + Cycled(s, a, k) /\ Cycled(s, a, k) \in Nat
    BY <1>2, <2>2, HybridIs, CyclesTake
  <2>6. Cycled(s, a, k) <= time[k] - time[a]
    BY <1>2, <2>2 DEF NotFast
  <2> HIDE DEF a, base
  <2>7. Hybrid(s, k) <= time[k]
    BY <1>0, <1>2, <1>4, <2>2, <2>3, <2>4, <2>5, <2>6
  <2> QED BY <1>0, <1>1, <1>2, <1>3, <1>4, <2>7
<1> QED BY <1>5, <1>6

(* Of a core that does not sleep every time is exact, that of the slices      *)
(* before the first time stamp too, which are placed by counting back.        *)
THEOREM HybridIsExact ==
  ASSUME NEW n \in Nat, NEW s, Recorded(s, n), NEW time, Clocked(s, time, n),
         Exact(s, time, n), NEW stamped \in 1 .. n, s[stamped].ts # 0, NEW i \in 1 .. n
  PROVE  HybridTicks(s)[i] = time[i]
<1>0. \A k \in 1 .. n : s[k].ts \in Nat /\ time[k] \in Nat
  BY DEF Recorded, Clocked
<1>1. ASSUME NEW k \in 1 .. n PROVE Hybrid(s, k) = time[k]
  <2> DEFINE a == AnchorOf(s, k)
             base == AnchorTime(s, a)
  <2>1. a \in 1 .. n /\ a <= k /\ s[a].ts = s[k].ts /\ IsAnchor(s, a)
    BY AnchorIsFirst DEF FirstOf
  <2>2. base = time[a]
    <3>1. CASE s[a].ts # 0
      BY <2>1, <3>1, AnchorTimeIs DEF Clocked
    <3>2. CASE s[a].ts = 0
      <4>1. PICK j \in 1 .. n : /\ s[j].ts # 0 /\ IsAnchor(s, j) /\ a < j
                                /\ base = Later(0, s[j].ts - Cycled(s, a, j))
        BY <2>1, <3>2, AnchorTimeIs
      <4>2. s[j].ts = time[j] /\ Cycled(s, a, j) = time[j] - time[a]
        <5>1. a <= j
          BY <2>1, <4>1
        <5> QED BY <2>1, <4>1, <5>1 DEF Clocked, Exact
      <4>3. \A t, u \in Nat : Later(0, t - (t - u)) = u
        BY DEF Later
      <4> HIDE DEF a, base
      <4> QED BY <1>0, <2>1, <4>1, <4>2, <4>3
    <3> QED BY <3>1, <3>2
  <2>3. Cycled(s, a, k) = time[k] - time[a]
    BY <2>1 DEF Exact
  <2>4. \/ Hybrid(s, k) = base + Cycled(s, a, k)
        \/ \E j \in 1 .. n : /\ s[k].ts < s[j].ts /\ IsAnchor(s, j) /\ k < j
                             /\ s[j].ts < base + Cycled(s, a, k)
    BY HybridIs
  <2> HIDE DEF a, base
  <2>5. base + Cycled(s, a, k) = time[k]
    BY <1>0, <2>1, <2>2, <2>3
  <2>6. ASSUME NEW j \in 1 .. n, s[k].ts < s[j].ts, IsAnchor(s, j), k < j, s[j].ts < time[k]
        PROVE  FALSE
    <3>1. s[j].ts # 0
      BY <1>0, <2>6
    <3>2. s[j].ts = time[j] /\ time[k] <= time[j]
      BY <2>6, <3>1 DEF Clocked, Ascending
    <3> QED BY <1>0, <2>6, <3>2
  <2> QED BY <2>4, <2>5, <2>6
<1>2. PICK k \in 1 .. i : HybridTicks(s)[i] = Hybrid(s, k)
  BY TicksAre
<1>3. k \in 1 .. n /\ k <= i /\ Hybrid(s, i) <= HybridTicks(s)[i]
  BY TicksAre
<1>4. time[k] <= time[i]
  BY <1>3 DEF Clocked, Ascending
<1>5. Hybrid(s, k) = time[k] /\ Hybrid(s, i) = time[i]
  BY <1>1, <1>3
<1> QED BY <1>0, <1>2, <1>3, <1>4, <1>5

------------------------------------------------------------------------------
Moves == [cycles : {0, 1}, time : {0, 2, 5}, stamped : BOOLEAN]
Moments == [time : Nat, cycle : Nat, ts : Nat, tick : Nat]
Start == [time |-> 9, cycle |-> 0, ts |-> 0, tick |-> 0]
After(was, m) ==
  [time |-> was.time + m.time, cycle |-> was.cycle + m.cycles, tick |-> 0,
   ts |-> IF m.stamped THEN was.time + m.time ELSE was.ts]
MovesOn(at, m, n) ==
  /\ at \in [0 .. n -> Moments] /\ at[0] = Start
  /\ \A i \in 1 .. n : at[i] = After(at[i - 1], m[i])

\* One more move of the target.
LEMMA AfterIs ==
  ASSUME NEW was \in Moments, NEW m \in Moves
  PROVE  /\ After(was, m) \in Moments
         /\ After(was, m).time = was.time + m.time
         /\ After(was, m).cycle = was.cycle + m.cycles
         /\ After(was, m).ts = IF m.stamped THEN was.time + m.time ELSE was.ts
         /\ was.time \in Nat /\ was.cycle \in Nat /\ was.ts \in Nat
         /\ m.time \in Nat /\ m.cycles \in Nat /\ m.stamped \in BOOLEAN
<1>1. /\ was.time \in Nat /\ was.cycle \in Nat /\ was.ts \in Nat
      /\ m.time \in Nat /\ m.cycles \in Nat /\ m.stamped \in BOOLEAN
  BY DEF Moments, Moves
<1>2. was.time + m.time \in Nat /\ was.cycle + m.cycles \in Nat
  BY <1>1
<1>3. /\ After(was, m).time = was.time + m.time
      /\ After(was, m).cycle = was.cycle + m.cycles
      /\ After(was, m).ts = IF m.stamped THEN was.time + m.time ELSE was.ts
  BY DEF After
<1>4. After(was, m) \in Moments
  BY <1>1, <1>2 DEF After, Moments
<1> QED BY <1>1, <1>3, <1>4

\* What the target records of its moves is one move after another.
LEMMA MovedIs ==
  ASSUME NEW n \in Nat, NEW m \in [1 .. n -> Moves], input.moves = m
  PROVE  \E at : MovesOn(at, m, n) /\ Moved = [i \in 1 .. n |-> at[i]]
<1> DEFINE P(g) == g = [i \in 0 .. Len(input.moves) |->
                         IF i = 0 THEN [time |-> 9, cycle |-> 0, ts |-> 0, tick |-> 0]
                         ELSE LET q == input.moves[i] IN
                              [time |-> g[i - 1].time + q.time,
                               cycle |-> g[i - 1].cycle + q.cycles, tick |-> 0,
                               ts |-> IF q.stamped THEN g[i - 1].time + q.time ELSE g[i - 1].ts]]
           at == CHOOSE g : P(g)
           step == [p \in Moments \X Nat |->
                     IF p[2] \in 1 .. n THEN After(p[1], m[p[2]]) ELSE Start]
<1>0. Len(m) = n /\ DOMAIN m = 1 .. n
  <2>1. m \in Seq(Moves)
    OBVIOUS
  <2> QED BY <2>1
<1>1. Moved = [i \in DOMAIN m |-> at[i]]
  <2>1. Moved = [i \in DOMAIN input.moves |-> at[i]]
    BY Zenon DEF Moved
  <2> QED BY <2>1
<1>2. PICK h : Unfolds(h, Moments, Start, step, n)
  <2>1. ASSUME NEW p \in Moments \X Nat
        PROVE  (IF p[2] \in 1 .. n THEN After(p[1], m[p[2]]) ELSE Start) \in Moments
    <3>1. p[1] \in Moments /\ (p[2] \in 1 .. n => m[p[2]] \in Moves)
      OBVIOUS
    <3>2. Start \in Moments
      BY DEF Start, Moments
    <3> QED BY <3>1, <3>2, AfterIs
  <2>2. Steps(step, Moments)
    BY <2>1 DEF Steps
  <2>3. Start \in Moments
    BY DEF Start, Moments
  <2> HIDE DEF step
  <2> QED BY <2>2, <2>3, RecursionExists
<1>3. MovesOn(h, m, n)
  <2>1. /\ h \in [0 .. n -> Moments] /\ h[0] = Start
        /\ \A i \in 1 .. n : h[i] = step[<<h[i - 1], i>>]
    <3> HIDE DEF step
    <3> QED BY <1>2 DEF Unfolds
  <2>2. ASSUME NEW i \in 1 .. n PROVE h[i] = After(h[i - 1], m[i])
    <3>1. <<h[i - 1], i>> \in Moments \X Nat
      BY <2>1
    <3> QED BY <2>1, <3>1
  <2> QED BY <2>1, <2>2 DEF MovesOn
<1>4. \A g : P(g) <=> g = [i \in 0 .. n |-> IF i = 0 THEN Start ELSE After(g[i - 1], m[i])]
  BY <1>0, Zenon DEF Start, After
<1>5. h = [i \in 0 .. n |-> IF i = 0 THEN Start ELSE After(h[i - 1], m[i])]
  BY <1>3 DEF MovesOn
<1> HIDE DEF P
<1>6. P(at)
  <2>1. P(h)
    BY <1>4, <1>5
  <2> QED BY <2>1, Zenon
<1>7. at = [i \in 0 .. n |-> IF i = 0 THEN Start ELSE After(at[i - 1], m[i])]
  BY <1>4, <1>6
<1> HIDE DEF at
<1>8. at = h
  <2> DEFINE G == {i \in 0 .. n : at[i] = h[i]}
  <2>1. at[0] = Start /\ \A i \in 1 .. n : at[i] = After(at[i - 1], m[i])
    <3>1. \A i \in 0 .. n : at[i] = IF i = 0 THEN Start ELSE After(at[i - 1], m[i])
      BY <1>7
    <3> QED BY <3>1
  <2>2. 0 \in G
    BY <1>3, <2>1 DEF MovesOn
  <2>3. ASSUME NEW i \in 1 .. n, i - 1 \in G PROVE i \in G
    BY <1>3, <2>1, <2>3 DEF MovesOn
  <2> HIDE DEF G
  <2>4. 0 .. n \subseteq G
    BY <2>2, <2>3, InductUpTo
  <2>5. \A i \in 0 .. n : at[i] = h[i]
    BY <2>4 DEF G
  <2>6. at = [i \in 0 .. n |-> at[i]]
    BY <1>7
  <2>7. h = [i \in 0 .. n |-> h[i]]
    BY <1>3 DEF MovesOn
  <2> QED BY <2>5, <2>6, <2>7
<1>9. Moved = [i \in 1 .. n |-> h[i]]
  BY <1>0, <1>1, <1>8
<1> QED BY <1>3, <1>9

\* A record of moves is what the theorems on the hybrid base ask of slices.
LEMMA MovesAreRecorded ==
  ASSUME NEW n \in Nat, NEW m \in [1 .. n -> Moves], NEW at, MovesOn(at, m, n),
         NEW s, s = [i \in 1 .. n |-> at[i]],
         NEW time, time = [i \in 1 .. n |-> at[i].time]
  PROVE  /\ Recorded(s, n) /\ Clocked(s, time, n)
         /\ (\A i \in 1 .. n : m[i].cycles * PerCycle <= m[i].time) => NotFast(s, time, n)
         /\ (\A i \in 1 .. n : m[i].cycles * PerCycle = m[i].time) => Exact(s, time, n)
<1>1. ASSUME NEW i \in 1 .. n
      PROVE  /\ at[i].time = at[i - 1].time + m[i].time
             /\ at[i].cycle = at[i - 1].cycle + m[i].cycles
             /\ at[i].ts = IF m[i].stamped THEN at[i].time ELSE at[i - 1].ts
             /\ m[i].time \in Nat /\ m[i].cycles \in Nat /\ m[i].stamped \in BOOLEAN
  <2>1. i - 1 \in 0 .. n /\ i \in 0 .. n /\ at[i - 1] \in Moments /\ m[i] \in Moves
    BY DEF MovesOn
  <2>2. at[i] = After(at[i - 1], m[i])
    BY DEF MovesOn
  <2> DEFINE was == at[i - 1]  q == m[i]  now == at[i]
  <2>3. was \in Moments /\ q \in Moves /\ now = After(was, q)
    BY <2>1, <2>2
  <2> HIDE DEF was, q, now
  <2>4. /\ now.time = was.time + q.time
        /\ now.cycle = was.cycle + q.cycles
        /\ now.ts = IF q.stamped THEN was.time + q.time ELSE was.ts
    BY <2>3, AfterIs
  <2>5. q.time \in Nat /\ q.cycles \in Nat /\ q.stamped \in BOOLEAN
    BY <2>3, AfterIs
  <2>6. now.ts = IF q.stamped THEN now.time ELSE was.ts
    BY <2>4
  <2> QED BY <2>4, <2>5, <2>6 DEF was, q, now
<1>2. ASSUME NEW i \in 0 .. n
      PROVE  at[i].time \in Nat /\ at[i].cycle \in Nat /\ at[i].ts \in Nat
  BY DEF MovesOn, Moments
<1>3. \A i \in 1 .. n : s[i].ts = at[i].ts /\ s[i].cycle = at[i].cycle /\ time[i] = at[i].time
  OBVIOUS
<1>4. DOMAIN s = 1 .. n /\ Len(s) = n
  <2>1. \A i \in 1 .. n : at[i] \in Moments
    BY DEF MovesOn
  <2>2. s \in Seq(Moments)
    BY <2>1
  <2> QED BY <2>2
<1>5. at[0].ts = 0
  BY DEF MovesOn, Start
<1> HIDE DEF MovesOn
<1>6. ASSUME NEW i \in 0 .. n PROVE at[i].ts <= at[i].time
  <2> DEFINE G == {k \in 0 .. n : at[k].ts <= at[k].time}
  <2>1. 0 \in G
    BY <1>2, <1>5
  <2>2. ASSUME NEW k \in 1 .. n, k - 1 \in G PROVE k \in G
    <3>1. k \in 0 .. n /\ k - 1 \in 0 .. n
      OBVIOUS
    <3>2. at[k - 1].ts <= at[k - 1].time
      BY <2>2
    <3>3. at[k].ts = at[k].time \/ at[k].ts = at[k - 1].ts
      BY <1>1
    <3>4. at[k].time = at[k - 1].time + m[k].time /\ m[k].time \in Nat
      BY <1>1
    <3>5. at[k].time \in Nat /\ at[k - 1].time \in Nat /\ at[k - 1].ts \in Nat
      BY <1>2, <3>1
    <3>6. at[k].ts <= at[k].time
      BY <3>2, <3>3, <3>4, <3>5
    <3> QED BY <3>1, <3>6
  <2> HIDE DEF G
  <2>3. 0 .. n \subseteq G
    BY <2>1, <2>2, InductUpTo
  <2> QED BY <2>3 DEF G
<1>7. ASSUME NEW i \in 2 .. n
      PROVE  at[i - 1].ts <= at[i].ts /\ at[i - 1].cycle <= at[i].cycle /\ at[i - 1].time <= at[i].time
  <2>1. i \in 1 .. n /\ i \in 0 .. n /\ i - 1 \in 0 .. n
    OBVIOUS
  <2>2. at[i - 1].ts <= at[i - 1].time
    BY <1>6, <2>1
  <2>3. at[i - 1].time <= at[i].time /\ at[i - 1].cycle <= at[i].cycle
    <3>1. /\ at[i].time = at[i - 1].time + m[i].time /\ m[i].time \in Nat
          /\ at[i].cycle = at[i - 1].cycle + m[i].cycles /\ m[i].cycles \in Nat
      BY <1>1, <2>1
    <3>2. at[i - 1].time \in Nat /\ at[i - 1].cycle \in Nat
      BY <1>2, <2>1
    <3> QED BY <3>1, <3>2
  <2>4. CASE m[i].stamped
    BY <1>1, <1>2, <2>1, <2>2, <2>3, <2>4
  <2>5. CASE ~m[i].stamped
    BY <1>1, <1>2, <2>1, <2>2, <2>3, <2>5
  <2> QED BY <1>1, <2>1, <2>4, <2>5
<1> DEFINE ts == [i \in 1 .. n |-> at[i].ts]
           cycle == [i \in 1 .. n |-> at[i].cycle]
<1>8. Ascending(ts, n) /\ Ascending(cycle, n) /\ Ascending(time, n)
  <2>1. ts \in [1 .. n -> Int] /\ cycle \in [1 .. n -> Int] /\ time \in [1 .. n -> Int]
    <3>1. \A i \in 1 .. n : at[i].time \in Int /\ at[i].cycle \in Int /\ at[i].ts \in Int
      BY <1>2
    <3> QED BY <3>1
  <2>2. \A i \in 2 .. n : /\ ts[i - 1] <= ts[i] /\ cycle[i - 1] <= cycle[i]
                          /\ time[i - 1] <= time[i]
    <3>1. \A i \in 2 .. n : i \in 1 .. n /\ i - 1 \in 1 .. n
      OBVIOUS
    <3> QED BY <1>7, <3>1
  <2> HIDE DEF ts, cycle
  <2> QED BY <2>1, <2>2, StepByStep
<1>9. Recorded(s, n)
  <2>1. \A i, j \in 1 .. n : i <= j => at[i].ts <= at[j].ts /\ at[i].cycle <= at[j].cycle
    BY <1>8 DEF Ascending
  <2>2. \A i \in 1 .. n : at[i].ts \in Nat /\ at[i].cycle \in Nat
    BY <1>2
  <2> QED BY <1>3, <1>4, <2>1, <2>2 DEF Recorded
<1>10. ASSUME NEW i \in 1 .. n, IsAnchor(s, i), s[i].ts # 0 PROVE time[i] = s[i].ts
  <2>1. m[i].stamped
    <3>1. CASE i = 1
      BY <1>1, <1>3, <1>5, <1>10, <3>1
    <3>2. CASE i # 1
      <4>1. i - 1 \in 1 .. n /\ s[i].ts # s[i - 1].ts
        BY <1>10, <3>2 DEF IsAnchor
      <4> QED BY <1>1, <1>3, <4>1
    <3> QED BY <3>1, <3>2
  <2> QED BY <1>1, <1>3, <2>1
<1>11. Clocked(s, time, n)
  <2>1. time \in [1 .. n -> Nat]
    <3>1. \A i \in 1 .. n : at[i].time \in Nat
      BY <1>2
    <3> QED BY <3>1
  <2>2. \A i \in 1 .. n : s[i].ts <= time[i]
    <3>1. \A i \in 1 .. n : i \in 0 .. n
      OBVIOUS
    <3> QED BY <1>3, <1>6, <3>1
  <2> QED BY <1>8, <1>10, <2>1, <2>2 DEF Clocked
<1>12. PerCycle \in Nat
  BY PerCycleAssumption
<1> DEFINE U(i) == at[i].cycle * PerCycle
           D(i) == m[i].cycles * PerCycle
<1>13. \A x, p \in Int : x * p \in Int
  OBVIOUS
<1>26. \A x, y, p \in Int : (x - y) * p = x * p - y * p
  OBVIOUS
<1>27. \A x, y, p \in Int : (x + y) * p = x * p + y * p
  OBVIOUS
<1>14. ASSUME NEW i \in 0 .. n PROVE U(i) \in Int /\ at[i].time \in Int
  <2>1. at[i].cycle \in Int /\ PerCycle \in Int /\ at[i].time \in Int
    BY <1>2, <1>12
  <2> QED BY Zenon, <1>13, <2>1
<1>22. ASSUME NEW i \in 1 .. n PROVE D(i) \in Int /\ U(i) = U(i - 1) + D(i)
  <2>1. i - 1 \in 0 .. n /\ i \in 0 .. n
    OBVIOUS
  <2>2. /\ at[i - 1].cycle \in Int /\ m[i].cycles \in Int /\ PerCycle \in Int /\ at[i].cycle \in Int
        /\ at[i].cycle = at[i - 1].cycle + m[i].cycles
    BY <1>1, <1>2, <1>12, <2>1
  <2>3. at[i].cycle * PerCycle = at[i - 1].cycle * PerCycle + m[i].cycles * PerCycle
    <3>1. at[i].cycle * PerCycle = (at[i - 1].cycle + m[i].cycles) * PerCycle
      BY ONLY <2>2
    <3> QED BY Zenon, <1>27, <2>2, <3>1
  <2>4. m[i].cycles * PerCycle \in Int
    BY Zenon, <1>13, <2>2
  <2> QED BY ONLY <2>3, <2>4
<1>23. ASSUME NEW i \in 1 .. n, NEW j \in 1 .. n
       PROVE  Cycled(s, i, j) = U(j) - U(i)
  <2>1. at[i].cycle \in Int /\ at[j].cycle \in Int /\ PerCycle \in Int
    <3>1. i \in 0 .. n /\ j \in 0 .. n
      OBVIOUS
    <3> QED BY <1>2, <1>12, <3>1
  <2>2. Cycled(s, i, j) = (at[j].cycle - at[i].cycle) * PerCycle
    BY <1>3 DEF Cycled
  <2>3. (at[j].cycle - at[i].cycle) * PerCycle = at[j].cycle * PerCycle - at[i].cycle * PerCycle
    BY Zenon, <1>26, <2>1
  <2> QED BY ONLY <2>2, <2>3
<1> DEFINE behind == [i \in 1 .. n |-> at[i].time - U(i)]
           ahead == [i \in 1 .. n |-> U(i) - at[i].time]
<1>15. /\ behind \in [1 .. n -> Int] /\ ahead \in [1 .. n -> Int]
       /\ \A i \in 1 .. n : behind[i] = at[i].time - U(i) /\ ahead[i] = U(i) - at[i].time
  <2>1. \A i \in 1 .. n : U(i) \in Int /\ at[i].time \in Int
    <3>1. \A i \in 1 .. n : i \in 0 .. n
      OBVIOUS
    <3> QED BY <1>14, <3>1
  <2> HIDE DEF U
  <2>2. \A i \in 1 .. n : at[i].time - U(i) \in Int /\ U(i) - at[i].time \in Int
    BY <2>1
  <2> QED BY <2>2
<1> HIDE DEF behind, ahead
<1>24. ASSUME NEW i \in 1 .. n
       PROVE  /\ D(i) <= m[i].time <=> U(i) - U(i - 1) <= at[i].time - at[i - 1].time
              /\ D(i) = m[i].time <=> U(i) - U(i - 1) = at[i].time - at[i - 1].time
  <2>1. i - 1 \in 0 .. n /\ i \in 0 .. n
    OBVIOUS
  <2>2. U(i) \in Int /\ U(i - 1) \in Int /\ at[i].time \in Int /\ at[i - 1].time \in Int
    BY <1>14, <2>1
  <2>3. D(i) \in Int /\ U(i) = U(i - 1) + D(i)
    BY <1>22
  <2>4. at[i].time = at[i - 1].time + m[i].time /\ m[i].time \in Int
    BY <1>1
  <2> HIDE DEF U, D
  <2> QED BY <2>2, <2>3, <2>4
<1>16. ASSUME \A i \in 1 .. n : m[i].cycles * PerCycle <= m[i].time PROVE Ascending(behind, n)
  <2>1. ASSUME NEW i \in 2 .. n PROVE behind[i - 1] <= behind[i]
    <3>1. i \in 1 .. n /\ i - 1 \in 1 .. n /\ i - 1 \in 0 .. n /\ i \in 0 .. n
      OBVIOUS
    <3>2. U(i) - U(i - 1) <= at[i].time - at[i - 1].time
      BY <1>16, <1>24, <3>1
    <3>3. U(i) \in Int /\ U(i - 1) \in Int /\ at[i].time \in Int /\ at[i - 1].time \in Int
      BY <1>14, <3>1
    <3>4. behind[i - 1] = at[i - 1].time - U(i - 1) /\ behind[i] = at[i].time - U(i)
      BY <1>15, <3>1
    <3> HIDE DEF U
    <3> QED BY <3>2, <3>3, <3>4
  <2> QED BY <1>15, <2>1, StepByStep
<1>17. ASSUME \A i \in 1 .. n : m[i].cycles * PerCycle = m[i].time PROVE Ascending(ahead, n)
  <2>1. ASSUME NEW i \in 2 .. n PROVE ahead[i - 1] <= ahead[i]
    <3>1. i \in 1 .. n /\ i - 1 \in 1 .. n /\ i - 1 \in 0 .. n /\ i \in 0 .. n
      OBVIOUS
    <3>2. U(i) - U(i - 1) = at[i].time - at[i - 1].time
      BY <1>17, <1>24, <3>1
    <3>3. U(i) \in Int /\ U(i - 1) \in Int /\ at[i].time \in Int /\ at[i - 1].time \in Int
      BY <1>14, <3>1
    <3>4. ahead[i - 1] = U(i - 1) - at[i - 1].time /\ ahead[i] = U(i) - at[i].time
      BY <1>15, <3>1
    <3> HIDE DEF U
    <3> QED BY <3>2, <3>3, <3>4
  <2> QED BY <1>15, <2>1, StepByStep
<1>25. ASSUME NEW i \in 1 .. n, NEW j \in 1 .. n
       PROVE  /\ U(i) \in Int /\ U(j) \in Int /\ time[i] \in Int /\ time[j] \in Int
              /\ behind[i] = time[i] - U(i) /\ behind[j] = time[j] - U(j)
              /\ ahead[i] = U(i) - time[i] /\ ahead[j] = U(j) - time[j]
  <2>1. i \in 0 .. n /\ j \in 0 .. n
    OBVIOUS
  <2> QED BY <1>3, <1>14, <1>15, <2>1
<1> HIDE DEF U
<1>18. ASSUME Ascending(behind, n), NEW i \in 1 .. n, NEW j \in 1 .. n, i <= j
       PROVE  Cycled(s, i, j) <= time[j] - time[i]
  <2>1. behind[i] <= behind[j]
    BY <1>18 DEF Ascending
  <2>2. Cycled(s, i, j) = U(j) - U(i)
    BY <1>23
  <2>3. /\ U(i) \in Int /\ U(j) \in Int /\ time[i] \in Int /\ time[j] \in Int
        /\ behind[i] = time[i] - U(i) /\ behind[j] = time[j] - U(j)
        /\ ahead[i] = U(i) - time[i] /\ ahead[j] = U(j) - time[j]
    BY <1>25
  <2> QED BY ONLY <2>1, <2>2, <2>3
<1>19. ASSUME Ascending(ahead, n), NEW i \in 1 .. n, NEW j \in 1 .. n, i <= j
       PROVE  Cycled(s, i, j) >= time[j] - time[i]
  <2>1. ahead[i] <= ahead[j]
    BY <1>19 DEF Ascending
  <2>2. Cycled(s, i, j) = U(j) - U(i)
    BY <1>23
  <2>3. /\ U(i) \in Int /\ U(j) \in Int /\ time[i] \in Int /\ time[j] \in Int
        /\ behind[i] = time[i] - U(i) /\ behind[j] = time[j] - U(j)
        /\ ahead[i] = U(i) - time[i] /\ ahead[j] = U(j) - time[j]
    BY <1>25
  <2> QED BY ONLY <2>1, <2>2, <2>3
<1>20. (\A i \in 1 .. n : m[i].cycles * PerCycle <= m[i].time) => NotFast(s, time, n)
  BY <1>16, <1>18 DEF NotFast
<1>21. ASSUME \A i \in 1 .. n : m[i].cycles * PerCycle = m[i].time PROVE Exact(s, time, n)
  <2>1. \A i \in 1 .. n : m[i].cycles * PerCycle <= m[i].time
    <3>1. \A i \in 1 .. n : m[i].time \in Nat
      BY <1>1
    <3> QED BY <1>21, <3>1
  <2>2. Ascending(behind, n) /\ Ascending(ahead, n)
    BY <1>16, <1>17, <1>21, <2>1
  <2>3. ASSUME NEW i \in 1 .. n, NEW j \in 1 .. n, i <= j
        PROVE  Cycled(s, i, j) = time[j] - time[i]
    <3>1. Cycled(s, i, j) <= time[j] - time[i] /\ Cycled(s, i, j) >= time[j] - time[i]
      BY <1>18, <1>19, <2>2, <2>3
    <3>2. Cycled(s, i, j) = U(j) - U(i) /\ U(i) \in Int /\ U(j) \in Int
          /\ time[i] \in Int /\ time[j] \in Int
      <4>1. Cycled(s, i, j) = U(j) - U(i)
        BY <1>23
      <4>2. U(i) \in Int /\ U(j) \in Int /\ time[i] \in Int /\ time[j] \in Int
        BY <1>25
      <4> QED BY <4>1, <4>2
    <3> QED BY ONLY <3>1, <3>2
  <2> QED BY <2>3 DEF Exact
<1> QED BY <1>9, <1>11, <1>20, <1>21

\* So these theorems answer every question on moves.
LEMMA MovesKeepOrder ==
  ASSUME NEW n \in Nat, NEW m \in [1 .. n -> Moves], input.moves = m
  PROVE  TimeKeepsOrder
<1>1. PICK at : MovesOn(at, m, n) /\ Moved = [i \in 1 .. n |-> at[i]]
  BY MovedIs
<1> DEFINE s == [i \in 1 .. n |-> at[i]]
           time == [i \in 1 .. n |-> at[i].time]
           timed == ApplyHybridTime(Moved, TRUE)
<1>2. /\ Recorded(s, n) /\ Clocked(s, time, n)
      /\ (\A i \in 1 .. n : m[i].cycles * PerCycle <= m[i].time) => NotFast(s, time, n)
      /\ (\A i \in 1 .. n : m[i].cycles * PerCycle = m[i].time) => Exact(s, time, n)
  BY <1>1, MovesAreRecorded
<1>3. ASSUME NEW i \in 1 .. n
      PROVE  s[i] = at[i] /\ s[i] \in Moments /\ time[i] = s[i].time
  BY <1>1 DEF MovesOn
<1>4. DOMAIN m = 1 .. n /\ DOMAIN s = 1 .. n /\ Moved = s
  BY <1>1
<1> HIDE DEF s, time
<1>5. timed = [i \in DOMAIN s |-> [s[i] EXCEPT !.tick = HybridTicks(s)[i]]]
  BY <1>4 DEF ApplyHybridTime, WithTicks, HybridTicks
<1>6. ASSUME NEW i \in 1 .. n
      PROVE  timed[i].tick = HybridTicks(s)[i] /\ timed[i].ts = s[i].ts /\ timed[i].time = time[i]
  <2>1. timed[i] = [s[i] EXCEPT !.tick = HybridTicks(s)[i]]
    BY <1>4, <1>5
  <2>2. s[i] \in Moments /\ time[i] = s[i].time
    BY <1>3
  <2> QED BY <2>1, <2>2 DEF Moments
<1>7. DOMAIN timed = 1 .. n
  BY <1>4, <1>5
<1> HIDE DEF timed
<1> DEFINE stamped == {i \in DOMAIN timed : timed[i].ts # 0}
<1>8. \A i \in stamped : i \in 1 .. n /\ s[i].ts # 0
  BY <1>6, <1>7
<1>9. ASSUME NEW i \in DOMAIN timed, NEW j \in stamped
      PROVE  /\ i \in stamped => timed[i].ts <= timed[i].tick
             /\ timed[i].ts < timed[j].ts => timed[i].tick <= timed[j].ts
  <2>1. i \in 1 .. n /\ j \in 1 .. n
    BY <1>7
  <2>2. /\ s[i].ts # 0 => s[i].ts <= HybridTicks(s)[i]
        /\ s[i].ts < s[j].ts => HybridTicks(s)[i] <= s[j].ts
    BY <1>2, <2>1, HybridKeepsOrder
  <2> QED BY <1>6, <1>8, <2>1, <2>2
<1>10. ASSUME \A i \in 1 .. n : m[i].cycles * PerCycle <= m[i].time, NEW i \in stamped
       PROVE  timed[i].tick <= timed[i].time
  <2>1. i \in 1 .. n /\ s[i].ts # 0
    BY <1>8
  <2>2. HybridTicks(s)[i] <= time[i]
    BY <1>2, <1>10, <2>1, HybridNotLate
  <2> QED BY <1>6, <2>1, <2>2
<1>11. ASSUME stamped # {}, \A i \in 1 .. n : m[i].cycles * PerCycle = m[i].time,
              NEW i \in DOMAIN timed
       PROVE  timed[i].tick = timed[i].time
  <2>1. PICK j \in stamped : TRUE
    BY <1>11
  <2>2. i \in 1 .. n /\ j \in 1 .. n /\ s[j].ts # 0
    BY <1>7, <1>8
  <2>3. HybridTicks(s)[i] = time[i]
    BY <1>2, <1>11, <2>2, HybridIsExact
  <2> QED BY <1>6, <2>2, <2>3
<1>12. TimeKeepsOrder =
         (Asks("moves") =>
           /\ \A i \in DOMAIN timed, j \in stamped :
                /\ i \in stamped => timed[i].ts <= timed[i].tick
                /\ timed[i].ts < timed[j].ts => timed[i].tick <= timed[j].ts
           /\ (\A i \in DOMAIN m : m[i].cycles * PerCycle <= m[i].time) =>
                \A i \in stamped : timed[i].tick <= timed[i].time
           /\ (stamped # {} /\ \A i \in DOMAIN m : m[i].cycles * PerCycle = m[i].time) =>
                \A i \in DOMAIN timed : timed[i].tick = timed[i].time)
  BY Zenon DEF TimeKeepsOrder, timed
<1> HIDE DEF stamped
<1> QED BY <1>4, <1>9, <1>10, <1>11, <1>12

\* A question on moves has moves, and a question on notes has steps.
LEMMA KindsOfQuestion ==
  ASSUME input \in Questions
  PROVE  /\ "moves" \in DOMAIN input =>
              input \in [moves : UpTo([cycles : {0, 1}, time : {0, 2, 5}, stamped : BOOLEAN],
                                      MaxSlices)]
         /\ "steps" \in DOMAIN input =>
              input \in [first : 0 .. Counter - 1, steps : UpTo(-1 .. 2, MaxNotes)]
<1> DEFINE P(p) == [packets : {p}, cut : 0 .. Len(BytesOf(p))]
           A == UNION {P(p) : p \in UpTo(MCPackets, MaxPackets)}
           B == [first : 0 .. Counter - 1, steps : UpTo(-1 .. 2, MaxNotes)]
           C == [moves : UpTo([cycles : {0, 1}, time : {0, 2, 5}, stamped : BOOLEAN], MaxSlices)]
<1>1. Questions = A \cup B \cup C
  BY DEF Questions
<1>2. ASSUME input \in A PROVE DOMAIN input = {"packets", "cut"}
  <2>1. PICK p : input \in P(p)
    BY <1>2
  <2> QED BY <2>1
<1>3. ASSUME input \in B PROVE DOMAIN input = {"first", "steps"}
  BY <1>3
<1>4. ASSUME input \in C PROVE DOMAIN input = {"moves"}
  BY <1>4
<1> HIDE DEF A, B, C
<1>5. /\ "moves" \in DOMAIN input => input \in C
      /\ "steps" \in DOMAIN input => input \in B
  BY <1>1, <1>2, <1>3, <1>4
<1> QED BY <1>5 DEF B, C

\* What is asked is one of the questions, and stays what it is.
Asked == input = None \/ input \in Questions
\* The question is an input.
LEMMA AskedAlways == DecodeSpec => []Asked
<1>1. DecodeInit => Asked
  BY DEF DecodeInit, Asked
<1>2. Asked /\ [input = None /\ ToolNext /\ UNCHANGED input]_<<vars, toolVars, input>> => Asked'
  BY DEF Asked
<1> QED BY <1>1, <1>2, PTL DEF DecodeSpec

(* However often and however late a target stamps the time, the hybrid base   *)
(* keeps a slice between its time stamp and the next one, shows none too late *)
(* if the cycles do not run fast, and is exact for a core that does not sleep *)
(* (timebase.hpp:65-77).                                                      *)
THEOREM TimeKeepsItsOrder == DecodeSpec => []TimeKeepsOrder
<1>1. Asked => TimeKeepsOrder
  <2> SUFFICES ASSUME Asked, Asks("moves") PROVE TimeKeepsOrder
    BY DEF TimeKeepsOrder
  <2>1. input \in Questions /\ "moves" \in DOMAIN input
    BY DEF Asked, Asks
  <2>2. input \in [moves : UpTo(Moves, MaxSlices)]
    BY <2>1, KindsOfQuestion DEF Moves
  <2>3. PICK n \in 0 .. MaxSlices : input.moves \in [1 .. n -> Moves]
    BY <2>2 DEF UpTo
  <2>4. n \in Nat
    BY QuestionsAssumption
  <2> QED BY <2>3, <2>4, MovesKeepOrder
<1> QED BY <1>1, AskedAlways, PTL

------------------------------------------------------------------------------
Moment(now, newest) == [now |-> now, newest |-> newest]
NextNote(was, step) ==
  LET now == was.newest + step IN [now |-> now, newest |-> Later(now, was.newest)]
NotePlaces == [now : Int, newest : Nat]
StepsOn(at, first, steps, n) ==
  /\ at \in [0 .. n -> NotePlaces] /\ at[0] = Moment(first, first)
  /\ \A i \in 1 .. n : at[i] = NextNote(at[i - 1], steps[i])

\* One more note of the target.
LEMMA NextNoteIs ==
  ASSUME NEW was \in NotePlaces, NEW step \in -1 .. 2
  PROVE  /\ NextNote(was, step) \in NotePlaces
         /\ NextNote(was, step).now = was.newest + step
         /\ NextNote(was, step).newest = Later(was.newest + step, was.newest)
         /\ was.newest \in Nat
<1>1. was.newest \in Nat
  BY DEF NotePlaces
<1>2. was.newest + step \in Int /\ Later(was.newest + step, was.newest) \in Nat
  BY <1>1 DEF Later
<1>3. /\ NextNote(was, step).now = was.newest + step
      /\ NextNote(was, step).newest = Later(was.newest + step, was.newest)
  BY DEF NextNote
<1>4. NextNote(was, step) = [now |-> was.newest + step,
                             newest |-> Later(was.newest + step, was.newest)]
  BY DEF NextNote
<1>5. NextNote(was, step) \in NotePlaces
  BY <1>2, <1>4 DEF NotePlaces
<1> QED BY <1>1, <1>3, <1>5

AsksSteps(first, steps, n) ==
  /\ n \in Nat /\ first \in Nat /\ steps \in [1 .. n -> -1 .. 2]
  /\ input.first = first /\ input.steps = steps
\* The true times of a question, and the newest note up to each.
LEMMA TrueTimesAre ==
  ASSUME NEW first, NEW steps, NEW n, AsksSteps(first, steps, n)
  PROVE  \E at : StepsOn(at, first, steps, n) /\ TrueTimes = [i \in 1 .. n + 1 |-> at[i - 1].now]
<1> DEFINE P(g) == g = [i \in 0 .. Len(input.steps) |->
                         IF i = 0 THEN [now |-> input.first, newest |-> input.first]
                         ELSE LET now == g[i - 1].newest + input.steps[i] IN
                              [now |-> now, newest |-> Later(now, g[i - 1].newest)]]
           at == CHOOSE g : P(g)
           start == Moment(first, first)
           step == [p \in NotePlaces \X Nat |->
                     IF p[2] \in 1 .. n THEN NextNote(p[1], steps[p[2]]) ELSE start]
<1> USE DEF AsksSteps
<1>0. Len(steps) = n
  <2>1. steps \in Seq(-1 .. 2)
    OBVIOUS
  <2> QED BY <2>1
<1>1. TrueTimes = [i \in 1 .. n + 1 |-> at[i - 1].now]
  <2>1. TrueTimes = [i \in 1 .. Len(input.steps) + 1 |-> at[i - 1].now]
    BY Zenon DEF TrueTimes
  <2> QED BY <1>0, <2>1
<1>2. start \in NotePlaces
  BY DEF Moment, NotePlaces
<1>3. PICK h : Unfolds(h, NotePlaces, start, step, n)
  <2>1. ASSUME NEW p \in NotePlaces \X Nat
        PROVE  (IF p[2] \in 1 .. n THEN NextNote(p[1], steps[p[2]]) ELSE start) \in NotePlaces
    <3>1. p[1] \in NotePlaces /\ (p[2] \in 1 .. n => steps[p[2]] \in -1 .. 2)
      OBVIOUS
    <3> QED BY <1>2, <3>1, NextNoteIs
  <2>2. Steps(step, NotePlaces)
    BY <2>1 DEF Steps
  <2> HIDE DEF step, start
  <2> QED BY <1>2, <2>2, RecursionExists
<1>4. StepsOn(h, first, steps, n)
  <2>1. /\ h \in [0 .. n -> NotePlaces] /\ h[0] = start
        /\ \A i \in 1 .. n : h[i] = step[<<h[i - 1], i>>]
    <3> HIDE DEF step, start
    <3> QED BY <1>3 DEF Unfolds
  <2>2. ASSUME NEW i \in 1 .. n PROVE h[i] = NextNote(h[i - 1], steps[i])
    <3>1. <<h[i - 1], i>> \in NotePlaces \X Nat
      BY <2>1
    <3> QED BY <2>1, <3>1
  <2> QED BY <2>1, <2>2 DEF StepsOn
<1>5. \A g : P(g) <=> g = [i \in 0 .. n |-> IF i = 0 THEN start ELSE NextNote(g[i - 1], steps[i])]
  BY <1>0, Zenon DEF Moment, NextNote
<1>6. P(h)
  <2>1. h = [i \in 0 .. n |-> IF i = 0 THEN start ELSE NextNote(h[i - 1], steps[i])]
    BY <1>4 DEF StepsOn
  <2> HIDE DEF P
  <2> QED BY <1>5, <2>1
<1> HIDE DEF P
<1>7. P(at)
  BY <1>6, Zenon
<1>8. at = [i \in 0 .. n |-> IF i = 0 THEN start ELSE NextNote(at[i - 1], steps[i])]
  BY <1>5, <1>7
<1> HIDE DEF at
<1>9. \A i \in 0 .. n : at[i] = h[i]
  <2> DEFINE G == {i \in 0 .. n : at[i] = h[i]}
  <2>1. at[0] = start /\ \A i \in 1 .. n : at[i] = NextNote(at[i - 1], steps[i])
    <3>1. \A i \in 0 .. n : at[i] = IF i = 0 THEN start ELSE NextNote(at[i - 1], steps[i])
      BY <1>8
    <3> HIDE DEF start
    <3> QED BY <3>1
  <2>2. 0 \in G
    BY <1>4, <2>1 DEF StepsOn
  <2>3. ASSUME NEW i \in 1 .. n, i - 1 \in G PROVE i \in G
    BY <1>4, <2>1, <2>3 DEF StepsOn
  <2> HIDE DEF G
  <2>4. 0 .. n \subseteq G
    BY <2>2, <2>3, InductUpTo
  <2> QED BY <2>4 DEF G
<1>10. TrueTimes = [i \in 1 .. n + 1 |-> h[i - 1].now]
  <2>1. \A i \in 1 .. n + 1 : i - 1 \in 0 .. n
    OBVIOUS
  <2>2. \A i \in 1 .. n + 1 : at[i - 1].now = h[i - 1].now
    BY <1>9, <2>1
  <2> QED BY <1>1, <2>2
<1> QED BY <1>4, <1>10

\* So StreamPlaced answers every question on notes.
LEMMA NotesArePlaced ==
  ASSUME 3 < Half, Counter + 2 * MaxNotes <= Counter * Epochs,
         NEW n \in 0 .. MaxNotes, NEW first \in 0 .. Counter - 1, NEW steps \in [1 .. n -> -1 .. 2],
         input.first = first, input.steps = steps
  PROVE  NotesPlaced
<1>0. Counter \in Nat /\ Epochs \in Nat /\ MaxNotes \in Nat /\ n \in Nat /\ first \in Nat
      /\ Counter * Epochs \in Nat /\ n <= MaxNotes /\ first < Counter /\ n + 1 \in Nat
  <2>1. Counter \in Nat /\ Epochs \in Nat /\ MaxNotes \in Nat
    BY CounterAssumption, EpochsAssumption, QuestionsAssumption
  <2> QED BY <2>1
<1>1. PICK at : StepsOn(at, first, steps, n) /\ TrueTimes = [i \in 1 .. n + 1 |-> at[i - 1].now]
  <2>1. AsksSteps(first, steps, n)
    BY <1>0 DEF AsksSteps
  <2> QED BY <2>1, TrueTimesAre
<1> DEFINE now == [i \in 0 .. n |-> at[i].now]
           newest == [i \in 0 .. n |-> at[i].newest]
<1>2. \A i \in 0 .. n : at[i].now \in Int /\ at[i].newest \in Nat
  BY <1>1 DEF StepsOn, NotePlaces
<1>3. /\ now \in [0 .. n -> Int] /\ newest \in [0 .. n -> Nat]
      /\ \A i \in 0 .. n : now[i] = at[i].now /\ newest[i] = at[i].newest
  BY <1>2
<1> HIDE DEF now, newest
<1>4. now[0] = first /\ newest[0] = first
  BY <1>0, <1>1, <1>3 DEF StepsOn, Moment
<1>5. ASSUME NEW i \in 1 .. n
      PROVE  /\ now[i] \in newest[i - 1] - 1 .. newest[i - 1] + 2
             /\ newest[i] = Later(now[i], newest[i - 1])
  <2>1. i \in 0 .. n /\ i - 1 \in 0 .. n
    OBVIOUS
  <2>2. at[i] = NextNote(at[i - 1], steps[i]) /\ at[i - 1] \in NotePlaces /\ steps[i] \in -1 .. 2
    BY <1>1, <2>1 DEF StepsOn
  <2> DEFINE was == at[i - 1]  step == steps[i]
  <2>3. at[i].now = was.newest + step /\ at[i].newest = Later(was.newest + step, was.newest)
        /\ was.newest \in Nat /\ step \in -1 .. 2
    <3>1. at[i] = NextNote(was, step) /\ was \in NotePlaces /\ step \in -1 .. 2
      BY <2>2
    <3> HIDE DEF was, step
    <3> QED BY <3>1, NextNoteIs
  <2>4. now[i] = was.newest + step /\ newest[i] = Later(now[i], was.newest)
        /\ newest[i - 1] = was.newest
    BY <1>3, <2>1, <2>3
  <2> HIDE DEF was, step
  <2> QED BY <2>3, <2>4
<1>6. ASSUME NEW i \in 0 .. n PROVE now[i] <= newest[i] /\ newest[i] <= first + 2 * i
  <2> DEFINE G == {k \in 0 .. n : now[k] <= newest[k] /\ newest[k] <= first + 2 * k}
  <2>1. 0 \in G
    BY <1>0, <1>4
  <2>2. ASSUME NEW k \in 1 .. n, k - 1 \in G PROVE k \in G
    <3>1. k \in 0 .. n /\ k - 1 \in 0 .. n
      OBVIOUS
    <3>2. now[k] \in Int /\ newest[k] \in Nat /\ newest[k - 1] \in Nat
      BY <1>3, <3>1
    <3>3. newest[k - 1] <= first + 2 * (k - 1)
      BY <2>2
    <3>4. now[k] <= newest[k] /\ newest[k] <= first + 2 * k
      <4>1. now[k] <= newest[k - 1] + 2 /\ newest[k] = Later(now[k], newest[k - 1])
        BY <1>5, <3>2
      <4>2. now[k] <= newest[k] /\ (newest[k] = now[k] \/ newest[k] = newest[k - 1])
        BY <3>2, <4>1, LaterIs
      <4> QED BY <1>0, <3>2, <3>3, <4>1, <4>2
    <3> QED BY <3>1, <3>4
  <2> HIDE DEF G
  <2>3. 0 .. n \subseteq G
    BY <1>0, <2>1, <2>2, InductUpTo
  <2> QED BY <2>3 DEF G
<1>7. \A i \in 0 .. n : now[i] < Counter * Epochs
  <2> SUFFICES ASSUME NEW i \in 0 .. n PROVE now[i] < Counter * Epochs
    OBVIOUS
  <2>1. now[i] \in Int /\ newest[i] \in Nat /\ i \in Nat /\ i <= MaxNotes
    BY <1>0, <1>3
  <2>2. now[i] <= newest[i] /\ newest[i] <= first + 2 * i
    BY <1>6
  <2> DEFINE all == Counter * Epochs
  <2>3. all \in Nat /\ Counter + 2 * MaxNotes <= all
    BY <1>0
  <2> HIDE DEF all
  <2>4. now[i] < all
    BY <1>0, <2>1, <2>2, <2>3
  <2> QED BY <2>4 DEF all
<1>8. Notes(now, newest, n, 1, 2)
  BY <1>0, <1>3, <1>4, <1>5, <1>7 DEF Notes
<1>9. AllPlaced(now, n)
  <2>1. n \in Nat /\ \E late, ahead : Notes(now, newest, n, late, ahead)
    BY <1>0, <1>8
  <2> QED BY ONLY <2>1, StreamPlaced, Zenon
<1>10. /\ DOMAIN TrueTimes = 1 .. n + 1
       /\ \A i \in 1 .. n + 1 : TrueTimes[i] = now[i - 1]
  <2>1. \A i \in 1 .. n + 1 : i - 1 \in 0 .. n
    BY <1>0
  <2> QED BY <1>1, <1>3, <2>1
<1>11. [i \in DOMAIN TrueTimes |-> TrueTimes[i] % Counter]
         = StreamOf(now, n)
  BY <1>10 DEF StreamOf
<1> DEFINE got == UnwrapNoteSystime([i \in DOMAIN TrueTimes |-> TrueTimes[i] % Counter])
<1>12. got = UnwrapNoteSystime(StreamOf(now, n))
  BY <1>11
<1> HIDE DEF got
<1>13. ASSUME NEW i \in DOMAIN TrueTimes, TrueTimes[i] >= 0 PROVE got[i] = TrueTimes[i]
  <2>1. i - 1 \in 0 .. n /\ (i - 1) + 1 = i /\ TrueTimes[i] = now[i - 1]
    BY <1>0, <1>10
  <2> QED BY <1>9, <1>12, <1>13, <2>1 DEF AllPlaced
<1> QED BY <1>13 DEF NotesPlaced, got

(* Notes that are less than half a turn of the counter late or apart get      *)
(* their true time, also those that come late across a wrap; but for notes of *)
(* before the turn of the first one (nxtrace.cpp:158-206). The assumptions    *)
(* say that a step of the questions, of up to three, is less than half a      *)
(* turn, and that the counter's high word, which the code has 32 bits for,    *)
(* does not overflow.                                                         *)
THEOREM NotesGetTheirTime ==
  ASSUME 3 < Half, Counter + 2 * MaxNotes <= Counter * Epochs
  PROVE  DecodeSpec => []NotesPlaced
<1>1. Asked => NotesPlaced
  <2> SUFFICES ASSUME Asked, Asks("steps") PROVE NotesPlaced
    BY DEF NotesPlaced
  <2>1. input \in Questions /\ "steps" \in DOMAIN input
    BY DEF Asked, Asks
  <2>2. input \in [first : 0 .. Counter - 1, steps : UpTo(-1 .. 2, MaxNotes)]
    BY <2>1, KindsOfQuestion
  <2>3. input.first \in 0 .. Counter - 1 /\ input.steps \in UpTo(-1 .. 2, MaxNotes)
    BY <2>2
  <2>4. PICK n \in 0 .. MaxNotes : input.steps \in [1 .. n -> -1 .. 2]
    BY <2>3 DEF UpTo
  <2> QED BY <2>3, <2>4, NotesArePlaced
<1> QED BY <1>1, AskedAlways, PTL

------------------------------------------------------------------------------
(* Lists of numbers in order, and the last change in a list: of the sets of   *)
(* items and of the switches in the capture.                                  *)

\* l lists the members of S in order.
Enumerates(l, n, S) ==
  /\ n \in Nat /\ l \in [1 .. n -> S]
  /\ \A i, j \in 1 .. n : i < j => l[i] < l[j]
  /\ \A x \in S : \E i \in 1 .. n : l[i] = x
Smaller(S, i) == {j \in S : j < i}

\* As many members of a set are below one as have a smaller index.
LEMMA RanksAreTaken ==
  ASSUME NEW S \in SUBSET Nat, IsFiniteSet(S), NEW d \in Nat, d < Cardinality(S)
  PROVE  \E i \in S : Cardinality(Smaller(S, i)) = d
<1>0. Cardinality(S) \in Nat
  BY FS_CardinalityType
<1> DEFINE n == Cardinality(S)
           G == {e \in 0 .. n : e < n => \E i \in S : Cardinality(Smaller(S, i)) = e}
<1>1. 0 \in G
  <2> SUFFICES ASSUME 0 < n PROVE \E i \in S : Cardinality(Smaller(S, i)) = 0
    BY <1>0
  <2>1. S # {}
    BY FS_EmptySet
  <2>2. PICK i \in S : \A j \in S : i <= j
    BY <2>1, LeastNumber
  <2>3. Smaller(S, i) = {}
    <3>1. ASSUME NEW j \in S PROVE ~(j < i)
      <4>1. i \in Nat /\ j \in Nat /\ i <= j
        BY <2>2
      <4> QED BY <4>1
    <3> QED BY <3>1 DEF Smaller
  <2> QED BY <2>3, FS_EmptySet
<1>2. ASSUME NEW e \in 1 .. n, e - 1 \in G PROVE e \in G
  <2> SUFFICES ASSUME e < n PROVE \E k \in S : Cardinality(Smaller(S, k)) = e
    BY <1>0
  <2>1. PICK i \in S : Cardinality(Smaller(S, i)) = e - 1
    BY <1>0, <1>2
  <2> DEFINE B == Smaller(S, i) \cup {i}
  <2>2. IsFiniteSet(Smaller(S, i)) /\ i \notin Smaller(S, i)
    BY FS_Subset DEF Smaller
  <2>3. IsFiniteSet(B) /\ Cardinality(B) = e
    BY <1>0, <2>1, <2>2, FS_AddElement
  <2>4. S \ B # {}
    <3>1. B \subseteq S
      BY DEF Smaller
    <3> QED BY <3>1, <2>3, <1>0
  <2>5. PICK k \in S \ B : \A j \in S \ B : k <= j
    BY <2>4, LeastNumber
  <2>6. Smaller(S, k) = B
    <3>1. ASSUME NEW j \in S PROVE j < k <=> j < i \/ j = i
      BY <2>5 DEF Smaller
    <3> QED BY <3>1 DEF Smaller
  <2> HIDE DEF B
  <2> QED BY <2>3, <2>5, <2>6
<1> HIDE DEF G
<1>3. 0 .. n \subseteq G
  BY <1>0, <1>1, <1>2, InductUpTo
<1> QED BY <1>0, <1>3 DEF G

\* InOrder lists the members in order.
LEMMA InOrderIs ==
  ASSUME NEW S \in SUBSET Nat, IsFiniteSet(S)
  PROVE  Enumerates(InOrder(S), Cardinality(S), S)
<1> DEFINE n == Cardinality(S)
           l == InOrder(S)
<1>0. n \in Nat
  BY FS_CardinalityType
<1>1. l = [k \in 1 .. n |-> CHOOSE i \in S : Cardinality(Smaller(S, i)) = k - 1]
  BY DEF InOrder, Smaller
<1>2. ASSUME NEW k \in 1 .. n PROVE l[k] \in S /\ Cardinality(Smaller(S, l[k])) = k - 1
  <2>1. k - 1 \in Nat /\ k - 1 < n
    BY <1>0
  <2>2. \E i \in S : Cardinality(Smaller(S, i)) = k - 1
    BY <2>1, RanksAreTaken
  <2>3. l[k] = CHOOSE i \in S : Cardinality(Smaller(S, i)) = k - 1
    BY <1>1
  <2> QED BY <2>2, <2>3
<1>3. ASSUME NEW i \in S, NEW j \in S, i <= j
      PROVE  /\ Cardinality(Smaller(S, i)) \in Nat /\ Cardinality(Smaller(S, j)) \in Nat
             /\ Cardinality(Smaller(S, i)) <= Cardinality(Smaller(S, j))
  <2>1. Smaller(S, i) \subseteq Smaller(S, j)
    <3>1. ASSUME NEW k \in S, k < i PROVE k < j
      <4>1. i \in Nat /\ j \in Nat /\ k \in Nat
        OBVIOUS
      <4> QED BY <1>3, <3>1, <4>1
    <3> QED BY <3>1 DEF Smaller
  <2>2. IsFiniteSet(Smaller(S, j))
    BY FS_Subset DEF Smaller
  <2> QED BY <2>1, <2>2, FS_Subset, FS_CardinalityType
<1>4. ASSUME NEW i \in S, NEW j \in S, i < j
      PROVE  Cardinality(Smaller(S, i)) + 1 <= Cardinality(Smaller(S, j))
  <2>1. Smaller(S, i) \cup {i} \subseteq Smaller(S, j) /\ i \notin Smaller(S, i)
    <3>1. ASSUME NEW k \in S, k < i PROVE k < j
      <4>1. i \in Nat /\ j \in Nat /\ k \in Nat
        OBVIOUS
      <4> QED BY <1>4, <3>1, <4>1
    <3>2. ~(i < i)
      <4>1. i \in Nat
        OBVIOUS
      <4> QED BY <4>1
    <3> QED BY <1>4, <3>1, <3>2 DEF Smaller
  <2>2. IsFiniteSet(Smaller(S, j)) /\ IsFiniteSet(Smaller(S, i))
    BY FS_Subset DEF Smaller
  <2>3. Cardinality(Smaller(S, i) \cup {i}) = Cardinality(Smaller(S, i)) + 1
    BY <2>1, <2>2, FS_AddElement
  <2> QED BY <2>1, <2>2, <2>3, FS_Subset
<1> HIDE DEF l
<1>5. l \in [1 .. n -> S]
  BY <1>1, <1>2
<1>6. ASSUME NEW i \in 1 .. n, NEW j \in 1 .. n, i < j PROVE l[i] < l[j]
  <2>1. l[i] \in S /\ l[j] \in S /\ l[i] \in Nat /\ l[j] \in Nat
    BY <1>2
  <2>2. Cardinality(Smaller(S, l[i])) = i - 1 /\ Cardinality(Smaller(S, l[j])) = j - 1
    BY <1>2
  <2>3. l[j] <= l[i] => j - 1 <= i - 1
    BY <1>3, <2>1, <2>2
  <2> QED BY <1>6, <2>1, <2>3
<1>7. ASSUME NEW x \in S PROVE \E i \in 1 .. n : l[i] = x
  <2> DEFINE c == Cardinality(Smaller(S, x))
  <2>1. c \in Nat /\ c < n
    <3>1. Smaller(S, x) \subseteq S \ {x}
      BY DEF Smaller
    <3>2. IsFiniteSet(S \ {x}) /\ Cardinality(S \ {x}) = n - 1
      BY FS_RemoveElement
    <3>3. c <= n - 1 /\ c \in Nat
      BY <3>1, <3>2, FS_Subset, FS_CardinalityType
    <3> QED BY <1>0, <3>3
  <2>2. c + 1 \in 1 .. n /\ (c + 1) - 1 = c
    BY <1>0, <2>1
  <2>3. l[c + 1] \in S /\ Cardinality(Smaller(S, l[c + 1])) = c
    BY <1>2, <2>2
  <2>4. l[c + 1] \in Nat /\ x \in Nat
    BY <2>3
  <2>5. ~(l[c + 1] < x) /\ ~(x < l[c + 1])
    <3>1. l[c + 1] < x => c + 1 <= c
      BY <1>4, <2>3
    <3>2. x < l[c + 1] => c + 1 <= c
      BY <1>4, <2>3
    <3> QED BY <2>1, <3>1, <3>2
  <2> QED BY <2>2, <2>4, <2>5
<1> QED BY <1>0, <1>5, <1>6, <1>7 DEF Enumerates, l

\* The members at the places that a second list names.
LEMMA ListOfList ==
  ASSUME NEW S \in SUBSET Nat, NEW l, NEW n, Enumerates(l, n, S),
         NEW A \in SUBSET (1 .. n), NEW g, NEW k, Enumerates(g, k, A)
  PROVE  Enumerates([t \in 1 .. k |-> l[g[t]]], k, {l[i] : i \in A})
<1> DEFINE h == [t \in 1 .. k |-> l[g[t]]]
           X == {l[i] : i \in A}
<1>1. n \in Nat /\ k \in Nat /\ l \in [1 .. n -> S] /\ g \in [1 .. k -> A]
  BY DEF Enumerates
<1>2. \A t \in 1 .. k : g[t] \in A /\ g[t] \in 1 .. n /\ h[t] = l[g[t]]
  BY <1>1
<1>3. h \in [1 .. k -> X]
  BY <1>1, <1>2
<1>4. ASSUME NEW i \in 1 .. k, NEW j \in 1 .. k, i < j PROVE h[i] < h[j]
  <2>1. g[i] < g[j]
    BY <1>4 DEF Enumerates
  <2>2. l[g[i]] < l[g[j]]
    BY <1>2, <2>1 DEF Enumerates
  <2> QED BY <1>2, <2>2
<1>5. ASSUME NEW x \in X PROVE \E i \in 1 .. k : h[i] = x
  <2>1. PICK i \in A : x = l[i]
    OBVIOUS
  <2>2. PICK t \in 1 .. k : g[t] = i
    BY DEF Enumerates
  <2> QED BY <1>2, <2>1, <2>2
<1> HIDE DEF h, X
<1>6. Enumerates(h, k, X)
  BY <1>1, <1>3, <1>4, <1>5 DEF Enumerates
<1> QED BY <1>6 DEF h, X

(* The last of the entries that came at or before b has the value of the last *)
(* change of the value that did; and none came if no change did.              *)
Changes(val, q) == {t \in 1 .. q : t = 1 \/ val[t] # val[t - 1]}
Rising(src, q) ==
  src \in [1 .. q -> Nat] /\ \A s, t \in 1 .. q : s <= t => src[s] <= src[t]
CameBy(src, news, r, b, p) == p \in 0 .. r /\ \A k \in 1 .. r : src[news[k]] <= b <=> k <= p
NoneBy(src, q, b) == \A t \in 1 .. q : ~(src[t] <= b)
LatestBy(src, q, b, last) ==
  last \in 1 .. q /\ src[last] <= b /\ \A t \in 1 .. q : src[t] <= b => t <= last
\* The last change up to b gives the value that was the last up to b.
LEMMA LastChange ==
  ASSUME NEW q \in Nat, NEW src, Rising(src, q), NEW val,
         NEW news, NEW r, Enumerates(news, r, Changes(val, q)),
         NEW b \in Nat, NEW p, CameBy(src, news, r, b, p)
  PROVE  /\ p = 0 => NoneBy(src, q, b)
         /\ p > 0 => \E last : LatestBy(src, q, b, last) /\ val[last] = val[news[p]]
<1> USE DEF Rising, CameBy
<1>1. r \in Nat /\ \A k \in 1 .. r : news[k] \in Changes(val, q) /\ news[k] \in 1 .. q
  BY DEF Enumerates, Changes
<1>2. ASSUME p = 0, NEW t \in 1 .. q, src[t] <= b PROVE FALSE
  <2>1. 1 \in 1 .. q /\ 1 \in Changes(val, q)
    BY DEF Changes
  <2>2. PICK k \in 1 .. r : news[k] = 1
    BY <2>1 DEF Enumerates
  <2>3. src[1] <= src[t] /\ src[1] \in Nat /\ src[t] \in Nat
    BY <2>1
  <2>4. src[news[k]] <= b
    BY <1>2, <2>2, <2>3
  <2>5. k <= p
    BY <2>4
  <2> QED BY <1>2, <2>5
<1>3. ASSUME p > 0
      PROVE  \E last \in 1 .. q :
                       /\ src[last] <= b /\ val[last] = val[news[p]]
                       /\ \A t \in 1 .. q : src[t] <= b => t <= last
  <2>1. p \in 1 .. r /\ p <= p
    BY <1>1, <1>3
  <2>2. news[p] \in 1 .. q /\ src[news[p]] <= b
    BY <1>1, <2>1
  <2> DEFINE D == {d \in 0 .. q - 1 : src[q - d] <= b}
  <2>3. q - news[p] \in D
    BY <2>2
  <2>4. PICK d \in D : \A e \in D : d <= e
    <3>1. D \in SUBSET Nat /\ D # {}
      BY <2>3
    <3> HIDE DEF D
    <3> QED BY <3>1, LeastNumber
  <2> DEFINE last == q - d
  <2>5. last \in 1 .. q /\ src[last] <= b
    BY <2>4
  <2>6. ASSUME NEW t \in 1 .. q, src[t] <= b PROVE t <= last
    <3>1. q - t \in D
      <4>1. q - t \in 0 .. q - 1 /\ q - (q - t) = t
        OBVIOUS
      <4> QED BY <2>6, <4>1
    <3>2. d <= q - t /\ d \in Nat
      <4>1. D \subseteq Nat
        OBVIOUS
      <4> HIDE DEF D
      <4> QED BY <2>4, <3>1, <4>1
    <3> QED BY <3>2
  <2> HIDE DEF last
  <2> DEFINE was == news[p]
  <2>7. was <= last /\ was \in 1 .. q
    BY <2>2, <2>6
  <2> HIDE DEF was
  <2> DEFINE G == {e \in 0 .. last - was : val[was + e] = val[was]}
  <2>8. 0 \in G
    BY <2>5, <2>7
  <2>9. ASSUME NEW e \in 1 .. last - was, e - 1 \in G PROVE e \in G
    <3> DEFINE t == was + e
    <3>1. t \in 2 .. q /\ t \in 1 .. q /\ t <= last /\ t - 1 = was + (e - 1) /\ was < t
      <4>1. last \in Int /\ q \in Int /\ last <= q /\ was \in Int /\ 1 <= was
        BY <2>5, <2>7
      <4> QED BY <4>1
    <3>2. val[t - 1] = val[was]
      BY <2>9, <3>1
    <3>3. e \in 0 .. last - was
      OBVIOUS
    <3>4. CASE val[t] = val[t - 1]
      BY <3>2, <3>3, <3>4
    <3>5. CASE val[t] # val[t - 1]
      <4> HIDE DEF t
      <4>1. t \in Changes(val, q)
        BY <3>1, <3>5 DEF Changes
      <4>2. PICK k \in 1 .. r : news[k] = t
        BY <4>1 DEF Enumerates
      <4>3. src[t] <= src[last] /\ src[t] \in Nat /\ src[last] \in Nat
        BY <2>5, <3>1
      <4>4. src[news[k]] <= b
        BY <2>5, <4>2, <4>3
      <4>5. k <= p
        BY <4>4
      <4>6. k < p => news[k] < was
        BY <2>1 DEF Enumerates, was
      <4>7. k = p \/ k < p
        BY <2>1, <4>5
      <4>8. k # p
        BY <2>7, <3>1, <4>2 DEF was
      <4> QED BY <2>7, <3>1, <4>2, <4>6, <4>7, <4>8
    <3> QED BY <3>4, <3>5
  <2>10. last - was \in Nat
    BY <2>5, <2>7
  <2> HIDE DEF G
  <2>11. last - was \in G
    <3>1. 0 .. last - was \subseteq G
      BY <2>8, <2>9, <2>10, InductUpTo
    <3> QED BY <2>10, <3>1
  <2>12. was + (last - was) = last
    BY <2>5, <2>7
  <2>13. val[last] = val[was]
    BY <2>11, <2>12 DEF G
  <2> QED BY <2>5, <2>6, <2>13 DEF was
<1>4. p = 0 => NoneBy(src, q, b)
  BY <1>2 DEF NoneBy
<1>5. p > 0 => \E last : LatestBy(src, q, b, last) /\ val[last] = val[news[p]]
  BY <1>3 DEF LatestBy
<1> QED BY <1>4, <1>5

------------------------------------------------------------------------------
(* The walk over the packets of the DWT stream, from the last byte backwards. *)

\* The packets from each byte on, when next is behind the packet that begins there.
GoesOn(g, next, L) ==
  \A i \in 1 .. L + 1 :
    g[i] = IF i > L \/ next[i] > L + 1 THEN <<>> ELSE <<i>> \o g[next[i]]

\* There is a walk from every byte, chosen from the last one backwards.
LEMMA BackwardRecursion ==
  ASSUME NEW L \in Nat, NEW next \in [1 .. L -> Nat], \A i \in 1 .. L : i < next[i]
  PROVE  \E g \in [1 .. L + 1 -> Seq(Nat)] : GoesOn(g, next, L)
<1> DEFINE From(d) == L + 1 - d .. L + 1
           Good(g, d) == /\ g \in [From(d) -> Seq(Nat)]
                         /\ \A i \in From(d) :
                              g[i] = IF i > L \/ next[i] > L + 1 THEN <<>> ELSE <<i>> \o g[next[i]]
           G == {d \in 0 .. L : \E g : Good(g, d)}
<1>1. 0 \in G
  <2> DEFINE g == [i \in From(0) |-> <<>>]
  <2>1. g \in [From(0) -> Seq(Nat)] /\ \A i \in From(0) : i > L /\ g[i] = <<>>
    OBVIOUS
  <2> HIDE DEF g
  <2>2. Good(g, 0)
    BY <2>1
  <2> QED BY <2>2
<1>2. ASSUME NEW d \in 1 .. L, d - 1 \in G PROVE d \in G
  <2>1. PICK g : Good(g, d - 1)
    BY <1>2
  <2> DEFINE a == L + 1 - d
             v == IF next[a] > L + 1 THEN <<>> ELSE <<a>> \o g[next[a]]
             h == [i \in From(d) |-> IF i = a THEN v ELSE g[i]]
  <2>2. a \in 1 .. L /\ next[a] \in Nat /\ a < next[a] /\ d \in 0 .. L
    OBVIOUS
  <2>3. \A i \in From(d) : i = a \/ i \in From(d - 1)
    OBVIOUS
  <2>4. \A i \in From(d - 1) : i # a /\ i \in From(d)
    OBVIOUS
  <2>5. ~(next[a] > L + 1) => next[a] \in From(d - 1)
    BY <2>2
  <2>6. v \in Seq(Nat)
    <3>1. CASE next[a] > L + 1
      BY <3>1
    <3>2. CASE ~(next[a] > L + 1)
      <4>1. g[next[a]] \in Seq(Nat)
        BY <2>1, <2>5, <3>2
      <4>2. <<a>> \in Seq(Nat)
        BY <2>2
      <4> QED BY <3>2, <4>1, <4>2
    <3> QED BY <3>1, <3>2
  <2>7. h \in [From(d) -> Seq(Nat)] /\ h[a] = v /\ \A i \in From(d - 1) : h[i] = g[i]
    <3>1. \A i \in From(d - 1) : g[i] \in Seq(Nat)
      BY <2>1
    <3>2. a \in From(d)
      OBVIOUS
    <3> QED BY <2>3, <2>4, <2>6, <3>1, <3>2
  <2> HIDE DEF h
  <2>8. ASSUME NEW i \in From(d)
        PROVE  h[i] = IF i > L \/ next[i] > L + 1 THEN <<>> ELSE <<i>> \o h[next[i]]
    <3>1. CASE i = a
      <4>1. ~(next[a] > L + 1) => h[next[a]] = g[next[a]]
        BY <2>5, <2>7
      <4> QED BY <2>2, <2>7, <3>1, <4>1
    <3>2. CASE i \in From(d - 1)
      <4>1. g[i] = IF i > L \/ next[i] > L + 1 THEN <<>> ELSE <<i>> \o g[next[i]]
        BY <2>1, <3>2
      <4>2. ~(i > L \/ next[i] > L + 1) => next[i] \in From(d - 1)
        <5>1. ASSUME ~(i > L), ~(next[i] > L + 1) PROVE next[i] \in From(d - 1)
          <6>1. i \in 1 .. L /\ next[i] \in Nat /\ i < next[i]
            BY <3>2, <5>1
          <6> QED BY <3>2, <5>1, <6>1
        <5> QED BY <5>1
      <4>3. ~(i > L \/ next[i] > L + 1) => h[next[i]] = g[next[i]]
        BY <2>7, <4>2
      <4>4. h[i] = g[i]
        BY <2>7, <3>2
      <4> QED BY <4>1, <4>3, <4>4
    <3> QED BY <2>3, <3>1, <3>2
  <2>9. Good(h, d)
    BY <2>7, <2>8
  <2> QED BY <2>2, <2>9
<1> HIDE DEF G
<1>3. 0 .. L \subseteq G
  BY <1>1, <1>2, InductUpTo
<1>4. L \in G
  BY <1>3
<1>5. PICK g : Good(g, L)
  BY <1>4 DEF G
<1>6. From(L) = 1 .. L + 1
  OBVIOUS
<1> HIDE DEF From
<1>7. g \in [1 .. L + 1 -> Seq(Nat)] /\ GoesOn(g, next, L)
  BY <1>5, <1>6 DEF GoesOn
<1> QED BY <1>7

\* A packet ends behind its header, if not in it.
LEMMA PacketHasEnd ==
  ASSUME NEW n \in Nat, NEW bytes \in [1 .. n -> Nat], NEW i \in 1 .. n
  PROVE  PacketEnd(bytes, i) \in Nat /\ i <= PacketEnd(bytes, i)
<1>1. bytes[i] \in Nat /\ bytes[i] % 4 \in 0 .. 3 /\ Len(bytes) = n
  OBVIOUS
<1>2. CASE IsSource(bytes[i])
  <2>1. bytes[i] % 4 \in 1 .. 3
    BY <1>1, <1>2 DEF IsSource
  <2>2. PayloadSize(bytes[i]) \in Nat
    BY <2>1 DEF PayloadSize
  <2> QED BY <1>2, <2>2 DEF PacketEnd
<1>3. ContinuationEnd(bytes, i) \in Nat /\ i <= ContinuationEnd(bytes, i)
  <2> DEFINE ends == {j \in i + 1 .. Len(bytes) : bytes[j] < 128}
  <2>1. CASE ends = {}
    BY <1>1, <2>1 DEF ContinuationEnd
  <2>2. CASE ends # {}
    <3>1. ends \in SUBSET Nat
      BY <1>1
    <3>2. PICK m \in ends : \A k \in ends : m <= k
      <4> HIDE DEF ends
      <4> QED BY <2>2, <3>1, LeastNumber
    <3> DEFINE e == CHOOSE j \in ends : \A k \in ends : j <= k
    <3>3. e \in ends
      <4> HIDE DEF ends
      <4> QED BY <3>2, Zenon
    <3>4. ContinuationEnd(bytes, i) = e
      BY <2>2 DEF ContinuationEnd
    <3> HIDE DEF e
    <3>5. e \in Nat /\ i <= e
      BY <1>1, <3>3
    <3> QED BY <3>4, <3>5
  <2> QED BY <2>1, <2>2
<1> QED BY <1>2, <1>3 DEF PacketEnd

\* The walk is what it says: a packet after another, up to the end or to one that is cut off.
Walked(from, bytes) ==
  from = [i \in 1 .. Len(bytes) + 1 |->
            IF i > Len(bytes) \/ PacketEnd(bytes, i) > Len(bytes) THEN <<>>
            ELSE <<i>> \o from[PacketEnd(bytes, i) + 1]]
\* The walk of NxTrace over the bytes exists.
LEMMA WalkExists ==
  ASSUME NEW n \in Nat, NEW bytes \in [1 .. n -> Nat]
  PROVE  \E g : /\ PacketStarts(bytes) = g[1] /\ g \in [1 .. n + 1 -> Seq(Nat)]
                /\ \A i \in 1 .. n + 1 :
                     g[i] = IF i > n \/ PacketEnd(bytes, i) > n THEN <<>>
                            ELSE <<i>> \o g[PacketEnd(bytes, i) + 1]
<1> DEFINE next == [i \in 1 .. n |-> PacketEnd(bytes, i) + 1]
<1>1. \A i \in 1 .. n : PacketEnd(bytes, i) \in Nat /\ i <= PacketEnd(bytes, i)
  BY PacketHasEnd
<1>2. next \in [1 .. n -> Nat] /\ \A i \in 1 .. n : i < next[i]
  BY <1>1
<1>3. \A i \in 1 .. n : next[i] = PacketEnd(bytes, i) + 1
  OBVIOUS
<1> HIDE DEF next
<1>4. PICK g \in [1 .. n + 1 -> Seq(Nat)] : GoesOn(g, next, n)
  BY <1>2, BackwardRecursion
<1>5. Len(bytes) = n
  OBVIOUS
<1>6. \A i \in 1 .. n + 1 : g[i] = IF i > n \/ PacketEnd(bytes, i) > n THEN <<>>
                                   ELSE <<i>> \o g[PacketEnd(bytes, i) + 1]
  <2> SUFFICES ASSUME NEW i \in 1 .. n + 1
               PROVE  g[i] = IF i > n \/ PacketEnd(bytes, i) > n THEN <<>>
                             ELSE <<i>> \o g[PacketEnd(bytes, i) + 1]
    OBVIOUS
  <2>1. g[i] = IF i > n \/ next[i] > n + 1 THEN <<>> ELSE <<i>> \o g[next[i]]
    BY <1>4 DEF GoesOn
  <2>2. CASE i > n
    BY <2>1, <2>2
  <2>3. CASE ~(i > n)
    <3>1. i \in 1 .. n
      BY <2>3
    <3>2. next[i] = PacketEnd(bytes, i) + 1 /\ PacketEnd(bytes, i) \in Nat
      BY <1>1, <1>3, <3>1
    <3>3. next[i] > n + 1 <=> PacketEnd(bytes, i) > n
      BY <3>2
    <3> QED BY <2>1, <2>3, <3>2, <3>3
  <2> QED BY <2>2, <2>3
<1>7. Walked(g, bytes)
  <2>1. g = [i \in 1 .. n + 1 |-> IF i > n \/ PacketEnd(bytes, i) > n THEN <<>>
                                  ELSE <<i>> \o g[PacketEnd(bytes, i) + 1]]
    BY <1>4, <1>6
  <2> QED BY <1>5, <2>1 DEF Walked
<1> DEFINE from == CHOOSE h : Walked(h, bytes)
<1>8. PacketStarts(bytes) = from[1]
  BY Zenon DEF PacketStarts, Walked
<1>9. Walked(from, bytes)
  BY <1>7, Zenon
<1> HIDE DEF from
<1>10. from = [i \in 1 .. n + 1 |-> IF i > n \/ PacketEnd(bytes, i) > n THEN <<>>
                                    ELSE <<i>> \o from[PacketEnd(bytes, i) + 1]]
  BY <1>5, <1>9 DEF Walked
<1>11. DOMAIN from = 1 .. n + 1 /\ \A i \in 1 .. n + 1 :
         from[i] = IF i > n \/ PacketEnd(bytes, i) > n THEN <<>>
                   ELSE <<i>> \o from[PacketEnd(bytes, i) + 1]
  BY <1>10
<1> DEFINE H == {d \in 0 .. n : \A e \in 0 .. d : from[n + 1 - e] \in Seq(Nat)}
<1>12. 0 \in H
  <2>1. n + 1 \in 1 .. n + 1 /\ n + 1 > n /\ n + 1 - 0 = n + 1
    OBVIOUS
  <2>2. from[n + 1] = <<>>
    BY <1>11, <2>1
  <2>3. \A e \in 0 .. 0 : e = 0
    OBVIOUS
  <2>4. <<>> \in Seq(Nat) /\ 0 \in 0 .. n
    OBVIOUS
  <2>5. \A e \in 0 .. 0 : from[n + 1 - e] \in Seq(Nat)
    BY <2>1, <2>2, <2>3, <2>4
  <2> QED BY <2>4, <2>5
<1>13. ASSUME NEW d \in 1 .. n, d - 1 \in H PROVE d \in H
  <2> DEFINE i == n + 1 - d
  <2>1. i \in 1 .. n /\ i \in 1 .. n + 1 /\ ~(i > n)
    OBVIOUS
  <2>2. PacketEnd(bytes, i) \in Nat /\ i <= PacketEnd(bytes, i)
    BY <1>1, <2>1
  <2>3. ASSUME ~(PacketEnd(bytes, i) > n) PROVE from[PacketEnd(bytes, i) + 1] \in Seq(Nat)
    <3> DEFINE e == n - PacketEnd(bytes, i)
    <3>1. e \in 0 .. d - 1 /\ n + 1 - e = PacketEnd(bytes, i) + 1
      BY <2>1, <2>2, <2>3
    <3> HIDE DEF e
    <3>2. from[n + 1 - e] \in Seq(Nat)
      BY <1>13, <3>1
    <3> QED BY <3>1, <3>2
  <2>4. from[i] \in Seq(Nat)
    <3> HIDE DEF i
    <3>1. <<i>> \in Seq(Nat)
      BY <2>1
    <3>2. from[i] = IF PacketEnd(bytes, i) > n THEN <<>> ELSE <<i>> \o from[PacketEnd(bytes, i) + 1]
      BY <1>11, <2>1
    <3>3. CASE PacketEnd(bytes, i) > n
      BY <3>2, <3>3
    <3>4. CASE ~(PacketEnd(bytes, i) > n)
      BY <2>3, <3>1, <3>2, <3>4
    <3> QED BY <3>3, <3>4
  <2>5. \A e \in 0 .. d : e = d \/ e \in 0 .. d - 1
    OBVIOUS
  <2> QED BY <1>13, <2>4, <2>5
<1> HIDE DEF H
<1>14. n \in H
  <2>1. 0 .. n \subseteq H
    BY <1>12, <1>13, InductUpTo
  <2> QED BY <2>1
<1>15. ASSUME NEW i \in 1 .. n + 1 PROVE from[i] \in Seq(Nat)
  <2>1. n + 1 - i \in 0 .. n /\ n + 1 - (n + 1 - i) = i
    OBVIOUS
  <2> QED BY <1>14, <2>1 DEF H
<1>16. from \in [1 .. n + 1 -> Seq(Nat)]
  BY <1>10, <1>11, <1>15
<1> QED BY <1>8, <1>11, <1>16

------------------------------------------------------------------------------
(* A packet with a one-byte pointer is two bytes of the stream: the walk      *)
(* takes every other byte for a header.                                       *)

\* The members of a sequence with one more in front.
LEMMA MoreSet ==
  ASSUME NEW i \in Nat, NEW s \in Seq(Nat)
  PROVE  ToSet(<<i>> \o s) = {i} \cup ToSet(s)
<1> DEFINE t == <<i>> \o s
<1>1. /\ DOMAIN t = 1 .. Len(s) + 1 /\ Len(s) \in Nat /\ t[1] = i /\ DOMAIN s = 1 .. Len(s)
      /\ \A k \in 1 .. Len(s) : t[k + 1] = s[k]
  OBVIOUS
<1> HIDE DEF t
<1>2. \A k \in DOMAIN t : k = 1 \/ (k - 1 \in 1 .. Len(s) /\ t[k] = s[k - 1])
  <2> SUFFICES ASSUME NEW k \in DOMAIN t, k # 1 PROVE k - 1 \in 1 .. Len(s) /\ t[k] = s[k - 1]
    OBVIOUS
  <2>1. k - 1 \in 1 .. Len(s) /\ (k - 1) + 1 = k
    BY <1>1
  <2> QED BY <1>1, <2>1
<1>3. \A k \in 1 .. Len(s) : k + 1 \in DOMAIN t /\ t[k + 1] = s[k]
  BY <1>1
<1>4. {t[k] : k \in DOMAIN t} = {i} \cup {s[k] : k \in DOMAIN s}
  <2> DEFINE A == {t[k] : k \in DOMAIN t}
             B == {s[k] : k \in DOMAIN s}
  <2>1. ASSUME NEW x \in A PROVE x \in {i} \cup B
    <3>1. PICK k \in DOMAIN t : x = t[k]
      OBVIOUS
    <3>2. CASE k = 1
      BY <1>1, <3>1, <3>2
    <3>3. CASE k # 1
      <4>1. k - 1 \in DOMAIN s /\ x = s[k - 1]
        BY <1>1, <1>2, <3>1, <3>3
      <4> QED BY <4>1
    <3> QED BY <3>2, <3>3
  <2>2. i \in A
    <3>1. 1 \in DOMAIN t
      BY <1>1
    <3> QED BY <1>1, <3>1
  <2>3. ASSUME NEW x \in B PROVE x \in A
    <3>1. PICK k \in DOMAIN s : x = s[k]
      OBVIOUS
    <3> QED BY <1>1, <1>3, <3>1
  <2> HIDE DEF A, B
  <2>4. A = {i} \cup B
    BY <2>1, <2>2, <2>3
  <2> QED BY <2>4 DEF A, B
<1> QED BY <1>4 DEF ToSet, t

\* A stream of nothing but value writes of one byte each.
OneByteWrites(bytes, m) ==
  /\ bytes \in [1 .. 2 * m -> Nat]
  /\ \A j \in 1 .. m : bytes[2 * j - 1] % 4 = 1 /\ IsValueWrite(bytes[2 * j - 1])

Odd(m) == {2 * j - 1 : j \in 1 .. m}

\* The walk finds a packet at every odd place, and at no other.
LEMMA WritesBegin ==
  ASSUME NEW m \in Nat, NEW bytes, OneByteWrites(bytes, m)
  PROVE  /\ ToSet(PacketStarts(bytes)) = Odd(m)
         /\ \A j \in 1 .. m : PacketEnd(bytes, 2 * j - 1) = 2 * j
<1> DEFINE n == 2 * m
<1>1. n \in Nat /\ bytes \in [1 .. n -> Nat]
  BY DEF OneByteWrites
<1>2. ASSUME NEW j \in 1 .. m PROVE PacketEnd(bytes, 2 * j - 1) = 2 * j
  <2>1. 2 * j - 1 \in 1 .. n /\ bytes[2 * j - 1] \in Nat /\ bytes[2 * j - 1] % 4 = 1
    BY <1>1 DEF OneByteWrites
  <2>2. IsSource(bytes[2 * j - 1]) /\ PayloadSize(bytes[2 * j - 1]) = 1
    BY <2>1 DEF IsSource, PayloadSize
  <2>3. PacketEnd(bytes, 2 * j - 1) = (2 * j - 1) + 1
    BY <2>2 DEF PacketEnd
  <2> QED BY <2>3
<1>3. PICK g : /\ PacketStarts(bytes) = g[1] /\ g \in [1 .. n + 1 -> Seq(Nat)]
               /\ \A i \in 1 .. n + 1 :
                    g[i] = IF i > n \/ PacketEnd(bytes, i) > n THEN <<>>
                           ELSE <<i>> \o g[PacketEnd(bytes, i) + 1]
  <2> HIDE DEF n
  <2> QED BY <1>1, WalkExists
<1> DEFINE From(d) == {2 * j - 1 : j \in m + 1 - d .. m}
           G == {d \in 0 .. m : ToSet(g[2 * (m - d) + 1]) = From(d)}
<1>4. 0 \in G
  <2>1. n + 1 \in 1 .. n + 1 /\ n + 1 > n /\ 2 * (m - 0) + 1 = n + 1
    BY <1>1
  <2>2. g[n + 1] = <<>>
    BY <1>3, <2>1
  <2>3. ToSet(<<>>) = {}
    BY DEF ToSet
  <2>4. From(0) = {}
    OBVIOUS
  <2>5. 0 \in 0 .. m
    OBVIOUS
  <2> HIDE DEF n, From
  <2> QED BY <2>1, <2>2, <2>3, <2>4, <2>5
<1>5. ASSUME NEW d \in 1 .. m, d - 1 \in G PROVE d \in G
  <2> DEFINE j == m + 1 - d
             i == 2 * j - 1
  <2>1. /\ j \in 1 .. m /\ i \in 1 .. n + 1 /\ ~(i > n) /\ i \in Nat /\ 2 * j <= n
        /\ 2 * (m - d) + 1 = i /\ 2 * (m - (d - 1)) + 1 = 2 * j + 1 /\ 2 * j + 1 \in 1 .. n + 1
    OBVIOUS
  <2>2. PacketEnd(bytes, i) = 2 * j
    BY <1>2, <2>1
  <2>3. g[i] = <<i>> \o g[2 * j + 1] /\ g[2 * j + 1] \in Seq(Nat)
    <3> HIDE DEF i, j, n
    <3>1. ~(2 * j > n)
      <4>1. j \in Int /\ n \in Int
        BY <1>1, <2>1
      <4> QED BY <2>1, <4>1
    <3> QED BY <1>3, <2>1, <2>2, <3>1
  <2>4. ToSet(g[2 * j + 1]) = From(d - 1)
    <3>1. ToSet(g[2 * (m - (d - 1)) + 1]) = From(d - 1)
      BY <1>5
    <3> QED BY <2>1, <3>1
  <2>5. From(d) = {i} \cup From(d - 1)
    <3>1. \A k \in m + 1 - d .. m : k = j \/ k \in m + 1 - (d - 1) .. m
      OBVIOUS
    <3>2. j \in m + 1 - d .. m /\ m + 1 - (d - 1) .. m \subseteq m + 1 - d .. m
      OBVIOUS
    <3> HIDE DEF j
    <3> QED BY <3>1, <3>2
  <2>6. ToSet(g[i]) = {i} \cup ToSet(g[2 * j + 1])
    <3> HIDE DEF i, j, n
    <3> QED BY <2>1, <2>3, MoreSet
  <2>7. d \in 0 .. m
    OBVIOUS
  <2> HIDE DEF From, i, j
  <2> QED BY <2>1, <2>4, <2>5, <2>6, <2>7
<1> HIDE DEF G
<1>6. m \in G
  <2>1. 0 .. m \subseteq G
    BY <1>4, <1>5, InductUpTo
  <2> QED BY <2>1
<1>7. ToSet(PacketStarts(bytes)) = Odd(m)
  <2>1. ToSet(g[2 * (m - m) + 1]) = From(m)
    BY <1>6 DEF G
  <2>2. 2 * (m - m) + 1 = 1 /\ m + 1 - m = 1
    OBVIOUS
  <2>3. From(m) = Odd(m)
    BY <2>2 DEF Odd
  <2> HIDE DEF From
  <2> QED BY <1>3, <2>1, <2>2, <2>3
<1> QED BY <1>2, <1>7

------------------------------------------------------------------------------
(* The switch items of a capture, their places among all bytes, and their     *)
(* bytes.                                                                     *)

\* The capture is one that the constants allow.
Fits == capture \in Seq({Etm} \cup Switches)

\* The items of a capture are finite sets of numbers.
LEMMA ItemsAre ==
  ASSUME Fits
  PROVE  /\ EtmItems \in SUBSET Nat /\ SwitchItems \in SUBSET Nat
         /\ IsFiniteSet(EtmItems) /\ IsFiniteSet(SwitchItems)
         /\ \A k \in SwitchItems : capture[k].comparator \in 0 .. 3 /\ capture[k].tcb \in 0 .. 255
<1>1. PICK n \in Nat : capture \in [1 .. n -> {Etm} \cup Switches] /\ DOMAIN capture = 1 .. n
  BY DEF Fits
<1>2. IsFiniteSet(1 .. n)
  BY FS_Interval
<1>3. EtmItems \subseteq 1 .. n /\ SwitchItems \subseteq 1 .. n
  BY <1>1 DEF EtmItems, SwitchItems
<1>4. ASSUME NEW k \in SwitchItems PROVE capture[k] \in Switches
  BY <1>1, <1>4 DEF SwitchItems, EtmItems
<1>5. ASSUME NEW k \in SwitchItems
      PROVE  capture[k].comparator \in 0 .. 3 /\ capture[k].tcb \in 0 .. 255
  BY <1>4 DEF Switches
<1>6. IsFiniteSet(EtmItems) /\ IsFiniteSet(SwitchItems)
  BY <1>2, <1>3, FS_Subset
<1> QED BY <1>3, <1>5, <1>6

\* A later item has a later place.
LEMMA PlacesInOrder ==
  ASSUME Fits, NEW i \in Nat, NEW k \in Nat
  PROVE  Place(i) \in Nat /\ Place(k) \in Nat /\ (Place(i) < Place(k) <=> i < k)
<1>1. ASSUME NEW a \in Nat, NEW b \in Nat, a <= b
      PROVE  Cardinality({j \in SwitchItems : j < a}) <= Cardinality({j \in SwitchItems : j < b})
  <2>1. {j \in SwitchItems : j < a} \subseteq {j \in SwitchItems : j < b}
    <3>1. ASSUME NEW j \in SwitchItems, j < a PROVE j < b
      <4>1. j \in Nat
        BY ItemsAre
      <4> QED BY <1>1, <3>1, <4>1
    <3> QED BY <3>1
  <2>2. IsFiniteSet({j \in SwitchItems : j < b})
    BY ItemsAre, FS_Subset
  <2> QED BY <2>1, <2>2, FS_Subset
<1>2. \A a \in Nat : Cardinality({j \in SwitchItems : j < a}) \in Nat
  <2> SUFFICES ASSUME NEW a \in Nat PROVE IsFiniteSet({j \in SwitchItems : j < a})
    BY FS_CardinalityType
  <2> QED BY ItemsAre, FS_Subset
<1> DEFINE c(a) == Cardinality({j \in SwitchItems : j < a})
<1>3. /\ c(i) \in Nat /\ c(k) \in Nat /\ (i <= k => c(i) <= c(k)) /\ (k <= i => c(k) <= c(i))
      /\ Place(i) = i + c(i) /\ Place(k) = k + c(k)
  BY <1>1, <1>2 DEF Place
<1> HIDE DEF c
<1> QED BY <1>3

\* A switch takes effect after as many bytes of ETM as are before it.
LEMMA EffectIsBehind ==
  ASSUME Fits, NEW i \in SwitchItems
  PROVE  /\ EtmItems # {} => ToEtmIndex(Place(i)) = EtmBefore(i)
         /\ EtmBefore(i) \in Nat
         /\ \A k \in SwitchItems : i <= k => EtmBefore(i) <= EtmBefore(k)
<1>1. i \in Nat /\ \A k \in EtmItems : k \in Nat
  BY ItemsAre
<1>2. {k \in EtmItems : Place(k) < Place(i)} = {j \in EtmItems : j < i}
  <2>1. \A k \in EtmItems : Place(k) < Place(i) <=> k < i
    BY <1>1, PlacesInOrder
  <2> QED BY <2>1
<1>3. \A k : IsFiniteSet({j \in EtmItems : j < k})
  BY ItemsAre, FS_Subset
<1>4. ASSUME NEW k \in SwitchItems, i <= k PROVE EtmBefore(i) <= EtmBefore(k)
  <2>1. k \in Nat
    BY ItemsAre
  <2>2. {j \in EtmItems : j < i} \subseteq {j \in EtmItems : j < k}
    <3>1. ASSUME NEW j \in EtmItems, j < i PROVE j < k
      <4>1. j \in Nat
        BY <1>1
      <4> QED BY <1>1, <1>4, <2>1, <3>1, <4>1
    <3> QED BY <3>1
  <2> QED BY <1>3, <2>2, FS_Subset DEF EtmBefore
<1>5. EtmBefore(i) \in Nat
  BY <1>3, FS_CardinalityType DEF EtmBefore
<1> QED BY <1>2, <1>4, <1>5 DEF ToEtmIndex, EtmBefore

\* The header of a write names its comparator.
LEMMA HeaderIs ==
  ASSUME NEW c \in 0 .. 3
  PROVE  LET h == 141 + 16 * c IN h % 4 = 1 /\ IsValueWrite(h) /\ (h \div 16) % 4 = c
<1>1. CASE c = 0
  BY <1>1 DEF IsValueWrite, IsSource, IsHardware
<1>2. CASE c = 1
  BY <1>2 DEF IsValueWrite, IsSource, IsHardware
<1>3. CASE c = 2
  BY <1>3 DEF IsValueWrite, IsSource, IsHardware
<1>4. CASE c = 3
  BY <1>4 DEF IsValueWrite, IsSource, IsHardware
<1> QED BY <1>1, <1>2, <1>3, <1>4

DwtBytes == [n \in DOMAIN DwtStream |-> DwtStream[n].byte]
DwtPlaces == [n \in DOMAIN DwtStream |-> DwtStream[n].src]

\* The parser's input is the header and the pointer of each switch, in turn.
LEMMA StreamIs ==
  ASSUME Fits, NEW m, NEW item, item = InOrder(SwitchItems), Enumerates(item, m, SwitchItems),
         m = Cardinality(SwitchItems)
  PROVE  /\ OneByteWrites(DwtBytes, m) /\ DOMAIN DwtPlaces = 1 .. 2 * m
         /\ \A j \in 1 .. m : /\ DwtPlaces[2 * j - 1] = Place(item[j])
                              /\ DwtBytes[2 * j - 1] = 141 + 16 * capture[item[j]].comparator
                              /\ DwtBytes[2 * j] = capture[item[j]].tcb
<1>1. m \in Nat /\ item \in [1 .. m -> SwitchItems]
  BY DEF Enumerates
<1> DEFINE i(n) == item[(n + 1) \div 2]
           second(n) == (n + 1) % 2
           byte(n) == SwitchBytes(capture[i(n)])[1 + second(n)]
<1>2. DwtStream = [n \in 1 .. 2 * m |-> [byte |-> byte(n), src |-> Place(i(n)) + second(n)]]
  BY DEF DwtStream
<1>3. DwtBytes = [n \in 1 .. 2 * m |-> byte(n)]
      /\ DwtPlaces = [n \in 1 .. 2 * m |-> Place(i(n)) + second(n)]
  BY <1>2 DEF DwtBytes, DwtPlaces
<1>4. ASSUME NEW j \in 1 .. m
      PROVE  /\ 2 * j - 1 \in 1 .. 2 * m /\ 2 * j \in 1 .. 2 * m
             /\ i(2 * j - 1) = item[j] /\ second(2 * j - 1) = 0
             /\ i(2 * j) = item[j] /\ second(2 * j) = 1
  <2>1. ((2 * j - 1) + 1) \div 2 = j /\ ((2 * j - 1) + 1) % 2 = 0
    OBVIOUS
  <2>2. ((2 * j) + 1) \div 2 = j /\ ((2 * j) + 1) % 2 = 1
    OBVIOUS
  <2> QED BY <1>1, <2>1, <2>2
<1>5. ASSUME NEW j \in 1 .. m
      PROVE  /\ byte(2 * j - 1) = 141 + 16 * capture[item[j]].comparator
             /\ byte(2 * j) = capture[item[j]].tcb
  <2>1. \A s : s.comparator = s.comparator /\ SwitchBytes(s)[1 + 0] = 141 + 16 * s.comparator
               /\ SwitchBytes(s)[1 + 1] = s.tcb
    BY DEF SwitchBytes
  <2> HIDE DEF i, second
  <2> QED BY <1>4, <2>1
<1>6. ASSUME NEW j \in 1 .. m
      PROVE  capture[item[j]].comparator \in 0 .. 3 /\ capture[item[j]].tcb \in 0 .. 255
             /\ Place(item[j]) \in Nat
  <2>1. item[j] \in SwitchItems /\ item[j] \in Nat
    BY <1>1, ItemsAre
  <2> QED BY <2>1, ItemsAre, PlacesInOrder
<1>7. ASSUME NEW n \in 1 .. 2 * m PROVE \E j \in 1 .. m : n = 2 * j - 1 \/ n = 2 * j
  <2>1. PICK j \in Int : n + 1 = 2 * j + ((n + 1) % 2) /\ (n + 1) % 2 \in 0 .. 1
    <3>1. n + 1 \in Int
      OBVIOUS
    <3>2. (n + 1) % 2 \in 0 .. 1 /\ (n + 1) \div 2 \in Int
          /\ n + 1 = 2 * ((n + 1) \div 2) + ((n + 1) % 2)
      BY ONLY <3>1
    <3> QED BY <3>2
  <2>2. n = 2 * j - 1 \/ n = 2 * j
    BY <2>1
  <2>3. j \in 1 .. m
    BY <1>1, <2>2
  <2> QED BY <2>2, <2>3
<1> HIDE DEF i, second, byte
<1>8. ASSUME NEW n \in 1 .. 2 * m PROVE byte(n) \in Nat
  <2>1. PICK j \in 1 .. m : n = 2 * j - 1 \/ n = 2 * j
    BY <1>7
  <2>2. \A c \in 0 .. 3 : 141 + 16 * c \in Nat
    OBVIOUS
  <2>3. 141 + 16 * capture[item[j]].comparator \in Nat /\ capture[item[j]].tcb \in Nat
    <3>1. \A c \in 0 .. 255 : c \in Nat
      OBVIOUS
    <3> QED BY <1>6, <2>2, <3>1
  <2> QED BY <1>5, <2>1, <2>3
<1>9. DwtBytes \in [1 .. 2 * m -> Nat] /\ DOMAIN DwtPlaces = 1 .. 2 * m
  BY <1>3, <1>8
<1>10. \A j \in 1 .. m : /\ DwtPlaces[2 * j - 1] = Place(item[j])
                         /\ DwtBytes[2 * j - 1] = 141 + 16 * capture[item[j]].comparator
                         /\ DwtBytes[2 * j] = capture[item[j]].tcb
  <2> SUFFICES ASSUME NEW j \in 1 .. m
               PROVE  /\ DwtPlaces[2 * j - 1] = Place(item[j])
                      /\ DwtBytes[2 * j - 1] = 141 + 16 * capture[item[j]].comparator
                      /\ DwtBytes[2 * j] = capture[item[j]].tcb
    OBVIOUS
  <2>1. DwtPlaces[2 * j - 1] = Place(item[j]) + 0
    BY <1>3, <1>4
  <2> QED BY <1>3, <1>4, <1>5, <1>6, <2>1
<1>11. OneByteWrites(DwtBytes, m)
  <2>1. \A j \in 1 .. m : DwtBytes[2 * j - 1] % 4 = 1 /\ IsValueWrite(DwtBytes[2 * j - 1])
    BY <1>6, <1>10, HeaderIs
  <2> QED BY <1>9, <2>1 DEF OneByteWrites
<1> QED BY <1>9, <1>10, <1>11

------------------------------------------------------------------------------
(* The events that the parser finds are those items, and the runs come of     *)
(* their changes.                                                             *)

ValueOf(i) == Word(<<capture[i].tcb>>)
EventAt(i) == [src |-> Place(i), comparator |-> capture[i].comparator, value |-> ValueOf(i)]
Events == ParseDwtDataValues(DwtBytes, DwtPlaces)

\* The events are the switch packets of the capture, in order.
LEMMA EventsAre ==
  ASSUME Fits
  PROVE  \E it, k : /\ Enumerates(it, k, SwitchItems) /\ DOMAIN Events = 1 .. k
                    /\ \A t \in 1 .. k : Events[t] = EventAt(it[t])
<1> DEFINE m == Cardinality(SwitchItems)
           item == InOrder(SwitchItems)
<1>1. Enumerates(item, m, SwitchItems)
  BY ItemsAre, InOrderIs
<1>2. m \in Nat /\ item \in [1 .. m -> SwitchItems]
  BY <1>1 DEF Enumerates
<1>3. /\ OneByteWrites(DwtBytes, m) /\ DOMAIN DwtPlaces = 1 .. 2 * m
      /\ \A j \in 1 .. m : /\ DwtPlaces[2 * j - 1] = Place(item[j])
                           /\ DwtBytes[2 * j - 1] = 141 + 16 * capture[item[j]].comparator
                           /\ DwtBytes[2 * j] = capture[item[j]].tcb
  BY <1>1, StreamIs
<1> HIDE DEF m, item
<1>4. /\ ToSet(PacketStarts(DwtBytes)) = Odd(m)
      /\ \A j \in 1 .. m : PacketEnd(DwtBytes, 2 * j - 1) = 2 * j
  BY <1>2, <1>3, WritesBegin
<1> DEFINE found == {i \in ToSet(PacketStarts(DwtBytes)) : IsValueWrite(DwtBytes[i])}
           writes == InOrder(found)
           k == Cardinality(found)
<1>5. found = Odd(m)
  <2>1. \A i \in Odd(m) : IsValueWrite(DwtBytes[i])
    BY <1>3 DEF Odd, OneByteWrites
  <2> QED BY <1>4, <2>1
<1>6. Enumerates(writes, k, Odd(m))
  <2>1. Odd(m) \subseteq 1 .. 2 * m
    BY <1>2 DEF Odd
  <2>2. IsFiniteSet(1 .. 2 * m)
    BY <1>2, FS_Interval
  <2>3. IsFiniteSet(Odd(m))
    <3>1. Odd(m) \in SUBSET (1 .. 2 * m)
      BY <2>1
    <3> QED BY <2>2, <3>1, FS_Subset
  <2>4. Odd(m) \in SUBSET Nat
    BY <1>2 DEF Odd
  <2> QED BY <1>5, <2>3, <2>4, InOrderIs
<1>7. Events = [t \in DOMAIN writes |->
                  [src |-> DwtPlaces[writes[t]], comparator |-> (DwtBytes[writes[t]] \div 16) % 4,
                   value |-> Word(Payload(DwtBytes, writes[t]))]]
  BY DEF Events, ParseDwtDataValues
<1> HIDE DEF found, writes, k
<1>8. k \in Nat /\ writes \in [1 .. k -> Odd(m)]
  BY <1>6 DEF Enumerates
<1> DEFINE half == [t \in 1 .. k |-> CHOOSE j \in 1 .. m : writes[t] = 2 * j - 1]
<1>9. ASSUME NEW t \in 1 .. k PROVE half[t] \in 1 .. m /\ writes[t] = 2 * half[t] - 1
  <2>1. writes[t] \in Odd(m)
    BY <1>8
  <2>2. \E j \in 1 .. m : writes[t] = 2 * j - 1
    BY <2>1 DEF Odd
  <2> QED BY <2>2
<1>10. half \in [1 .. k -> 1 .. m]
  BY <1>9
<1> HIDE DEF half
<1>11. Enumerates(half, k, 1 .. m)
  <2>1. ASSUME NEW s \in 1 .. k, NEW t \in 1 .. k, s < t PROVE half[s] < half[t]
    <3>1. writes[s] < writes[t]
      BY <1>6, <2>1 DEF Enumerates
    <3>2. half[s] \in Int /\ half[t] \in Int
      BY <1>9
    <3> QED BY <1>9, <3>1, <3>2
  <2>2. ASSUME NEW j \in 1 .. m PROVE \E t \in 1 .. k : half[t] = j
    <3>1. 2 * j - 1 \in Odd(m)
      BY DEF Odd
    <3>2. PICK t \in 1 .. k : writes[t] = 2 * j - 1
      BY <1>6, <3>1 DEF Enumerates
    <3>3. half[t] \in Int /\ 2 * half[t] - 1 = 2 * j - 1
      BY <1>9, <3>2
    <3>4. half[t] = j
      BY <3>3
    <3> QED BY <3>4
  <2> QED BY <1>8, <1>10, <2>1, <2>2 DEF Enumerates
<1> DEFINE it == [t \in 1 .. k |-> item[half[t]]]
<1>12. Enumerates(it, k, SwitchItems)
  <2>1. SwitchItems \in SUBSET Nat /\ 1 .. m \in SUBSET (1 .. m)
    BY ItemsAre
  <2>2. Enumerates(it, k, {item[i] : i \in 1 .. m})
    BY <1>1, <1>11, <2>1, ListOfList DEF m, item
  <2>3. {item[i] : i \in 1 .. m} = SwitchItems
    <3>1. \A x \in SwitchItems : \E i \in 1 .. m : item[i] = x
      BY <1>1 DEF Enumerates, m, item
    <3> QED BY <1>2, <3>1
  <2> QED BY <2>2, <2>3
<1>13. ASSUME NEW t \in 1 .. k PROVE Events[t] = EventAt(it[t])
  <2> DEFINE j == half[t]
             i == item[j]
  <2>1. j \in 1 .. m /\ writes[t] = 2 * j - 1 /\ it[t] = i /\ t \in DOMAIN writes
    BY <1>8, <1>9
  <2>2. i \in SwitchItems /\ capture[i].comparator \in 0 .. 3
    <3> HIDE DEF j
    <3>1. i \in SwitchItems
      BY <1>2, <2>1
    <3> QED BY <3>1, ItemsAre
  <2> HIDE DEF j
  <2>3. /\ DwtPlaces[writes[t]] = Place(i)
        /\ DwtBytes[writes[t]] = 141 + 16 * capture[i].comparator
        /\ DwtBytes[2 * j] = capture[i].tcb /\ PacketEnd(DwtBytes, writes[t]) = 2 * j
    BY <1>3, <1>4, <2>1
  <2> HIDE DEF i
  <2>4. Word(Payload(DwtBytes, writes[t])) = ValueOf(i)
    <3> DEFINE p == Payload(DwtBytes, writes[t])
    <3>1. DwtBytes \in Seq(Nat) /\ Len(DwtBytes) = 2 * m
      <4>1. 2 * m \in Nat /\ DwtBytes \in [1 .. 2 * m -> Nat]
        BY <1>2, <1>3 DEF OneByteWrites
      <4>2. \A n \in Nat : \A s \in [1 .. n -> Nat] : s \in Seq(Nat) /\ Len(s) = n
        OBVIOUS
      <4> QED BY <4>1, <4>2
    <3>2. p = SubSeq(DwtBytes, 2 * j, 2 * j) /\ 2 * j \in 1 .. Len(DwtBytes)
      <4>1. writes[t] + 1 = 2 * j
        BY <2>1
      <4>2. p = SubSeq(DwtBytes, writes[t] + 1, PacketEnd(DwtBytes, writes[t]))
        BY Zenon DEF Payload
      <4>3. p = SubSeq(DwtBytes, 2 * j, 2 * j)
        BY ONLY <2>3, <4>1, <4>2, Zenon
      <4>4. m \in Nat
        BY <1>2
      <4>5. 2 * j \in 1 .. 2 * m
        BY ONLY <2>1, <4>4
      <4>6. 2 * j \in 1 .. Len(DwtBytes)
        BY ONLY <3>1, <4>5, Zenon
      <4> QED BY ONLY <4>3, <4>6
    <3> HIDE DEF p
    <3>3. \A s \in Seq(Nat) : \A n \in 1 .. Len(s) :
            Len(SubSeq(s, n, n)) = 1 /\ SubSeq(s, n, n)[1] = s[n]
      OBVIOUS
    <3>4. Len(p) = 1 /\ p[1] = capture[i].tcb
      BY <2>3, <3>1, <3>2, <3>3
    <3>5. \A b \in 1 .. 4 : (b <= 1 <=> b = 1)
      OBVIOUS
    <3>6. Word(p) = [b \in 1 .. 4 |-> IF b = 1 THEN capture[i].tcb ELSE 0]
      BY <3>4, <3>5 DEF Word
    <3>7. Word(<<capture[i].tcb>>) = [b \in 1 .. 4 |-> IF b = 1 THEN capture[i].tcb ELSE 0]
      BY <3>5 DEF Word
    <3> QED BY <3>6, <3>7 DEF p, ValueOf
  <2>5. (DwtBytes[writes[t]] \div 16) % 4 = capture[i].comparator
    BY <2>2, <2>3, HeaderIs
  <2>6. Events[t] = [src |-> DwtPlaces[writes[t]], comparator |-> (DwtBytes[writes[t]] \div 16) % 4,
                     value |-> Word(Payload(DwtBytes, writes[t]))]
    BY <1>7, <2>1
  <2>7. Events[t] = EventAt(i)
    BY <2>3, <2>4, <2>5, <2>6 DEF EventAt
  <2> QED BY <2>1, <2>7
<1>14. DOMAIN Events = 1 .. k
  BY <1>7, <1>8
<1> HIDE DEF it
<1> QED BY <1>12, <1>13, <1>14

\* The runs made of events: one for each change of the value that is watched.
\* Each ends where the next begins, the last with the stream.
Meeting(B, r, end) ==
  \A k \in 1 .. r : B[k].end = IF k < r THEN B[k + 1].begin
                               ELSE IF end > B[k].begin THEN end ELSE B[k].begin
RunsFrom(B, events, tidOf, A, end, watch, q, news, r) ==
  /\ Enumerates(watch, q, A)
  /\ Enumerates(news, r, Changes([t \in 1 .. q |-> events[watch[t]].value], q))
  /\ DOMAIN B = 1 .. r /\ Len(B) = r
  /\ \A k \in 1 .. r : /\ B[k].begin = events[watch[news[k]]].src
                       /\ B[k].tid = tidOf[events[watch[news[k]]].value]
  /\ Meeting(B, r, end)
\* There is a run for each change of the watched value.
LEMMA RunsOfEvents ==
  ASSUME NEW n \in Nat, NEW events, DOMAIN events = 1 .. n,
         NEW tidOf, NEW watched, NEW end, NEW A, A = {k \in 1 .. n : events[k].comparator = watched},
         NEW B, B = BuildThreadRuns(events, tidOf, watched, end)
  PROVE  \E watch, q, news, r : RunsFrom(B, events, tidOf, A, end, watch, q, news, r)
<1> DEFINE watch == InOrder(A)
           q == Cardinality(A)
           val == [t \in 1 .. q |-> events[watch[t]].value]
           new == {k \in DOMAIN watch : k = 1 \/ events[watch[k]].value # events[watch[k - 1]].value}
           news == InOrder(new)
           r == Cardinality(new)
           sw == [j \in DOMAIN news |-> events[watch[news[j]]]]
<1>1. Enumerates(watch, q, A)
  <2>1. IsFiniteSet(1 .. n) /\ A \subseteq 1 .. n
    BY FS_Interval
  <2>2. A \in SUBSET Nat /\ IsFiniteSet(A)
    BY <2>1, FS_Subset
  <2> QED BY <2>2, InOrderIs
<1>2. SwitchesOf(events, watched) = sw
  BY DEF SwitchesOf
<1> HIDE DEF watch, q
<1>3. q \in Nat /\ DOMAIN watch = 1 .. q
  BY <1>1 DEF Enumerates
<1>4. new = Changes(val, q)
  <2>1. \A k \in 1 .. q : k = 1 \/ k - 1 \in 1 .. q
    BY <1>3
  <2> QED BY <1>3, <2>1 DEF Changes
<1>5. Enumerates(news, r, new)
  <2>1. IsFiniteSet(1 .. q) /\ new \subseteq 1 .. q
    BY <1>3, FS_Interval
  <2> HIDE DEF new
  <2>2. IsFiniteSet(new)
    <3>1. new \in SUBSET (1 .. q)
      BY <2>1
    <3> QED BY ONLY <2>1, <3>1, FS_Subset
  <2>3. new \in SUBSET Nat
    BY <2>1
  <2> QED BY <2>2, <2>3, InOrderIs
<1> HIDE DEF new, news, r
<1>6. r \in Nat /\ DOMAIN news = 1 .. r
  BY <1>5 DEF Enumerates
<1>7. DOMAIN sw = 1 .. r /\ Len(sw) = r /\ \A k \in 1 .. r : sw[k] = events[watch[news[k]]]
  BY <1>6
<1> HIDE DEF sw
<1>8. B = [k \in DOMAIN sw |->
     [begin |-> sw[k].src, tid |-> tidOf[sw[k].value],
      end |-> IF k < Len(sw) THEN sw[k + 1].src
              ELSE IF end > sw[k].src THEN end ELSE sw[k].src]]
  BY <1>2 DEF BuildThreadRuns
<1>9. DOMAIN B = 1 .. r /\ Len(B) = r
  BY <1>6, <1>7, <1>8
<1>10. \A k \in 1 .. r : B[k].begin = sw[k].src /\ B[k].tid = tidOf[sw[k].value]
  BY <1>7, <1>8
<1>11. \A k \in 1 .. r : /\ B[k].begin = events[watch[news[k]]].src
                         /\ B[k].tid = tidOf[events[watch[news[k]]].value]
  BY <1>7, <1>10
<1>12. Enumerates(news, r, Changes(val, q))
  BY <1>4, <1>5
<1> HIDE DEF val
<1>13. Enumerates(news, r, Changes([t \in 1 .. q |-> events[watch[t]].value], q))
  BY <1>12 DEF val
<1>14. Meeting(B, r, end)
  <2>1. ASSUME NEW k \in 1 .. r PROVE B[k].end = IF k < r THEN sw[k + 1].src
                                               ELSE IF end > sw[k].src THEN end ELSE sw[k].src
    BY <1>7, <1>8
  <2>2. \A k \in 1 .. r : k < r => k + 1 \in 1 .. r
    BY <1>6
  <2> QED BY <1>10, <2>1, <2>2 DEF Meeting
<1>15. RunsFrom(B, events, tidOf, A, end, watch, q, news, r)
  BY <1>1, <1>9, <1>11, <1>13, <1>14 DEF RunsFrom
<1> QED BY <1>15

------------------------------------------------------------------------------
(* So the runs are those of the capture's own switches, and the run that has  *)
(* begun last is that of the last switch.                                     *)

\* The switches of the watched pointer, and what is made of them: one run for each change.
Watched == {k \in SwitchItems : capture[k].comparator = WatchComp}
MadeOf(B, at, q, news, r) ==
  /\ Enumerates(at, q, Watched)
  /\ Enumerates(news, r, Changes([t \in 1 .. q |-> ValueOf(at[t])], q))
  /\ DOMAIN B = 1 .. r /\ Len(B) = r
  /\ \A k \in 1 .. r : /\ B[k].begin = ToEtmIndex(Place(at[news[k]]))
                       /\ B[k].tid = TidOf[ValueOf(at[news[k]])]
  /\ Meeting(B, r, EtmSize)

\* The runs are those of the watched switches of the capture.
LEMMA SwitchesMakeRuns ==
  ASSUME Fits
  PROVE  \E at, q, news, r : MadeOf(BuildThreads, at, q, news, r)
<1>1. PICK it, n : /\ Enumerates(it, n, SwitchItems) /\ DOMAIN Events = 1 .. n
                   /\ \A t \in 1 .. n : Events[t] = EventAt(it[t])
  BY EventsAre
<1> DEFINE ev == [k \in DOMAIN Events |-> [Events[k] EXCEPT !.src = ToEtmIndex(@)]]
           A == {k \in 1 .. n : ev[k].comparator = WatchComp}
<1>2. BuildThreads = BuildThreadRuns(ev, TidOf, WatchComp, EtmSize)
  BY DEF BuildThreads, Events, DwtBytes, DwtPlaces
<1>3. n \in Nat /\ it \in [1 .. n -> SwitchItems]
  BY <1>1 DEF Enumerates
<1>4. DOMAIN ev = 1 .. n
  BY <1>1
<1>5. ASSUME NEW t \in 1 .. n
      PROVE  /\ ev[t].src = ToEtmIndex(Place(it[t])) /\ ev[t].value = ValueOf(it[t])
             /\ ev[t].comparator = capture[it[t]].comparator
  <2>1. ev[t] = [Events[t] EXCEPT !.src = ToEtmIndex(@)]
    BY <1>1
  <2>2. Events[t] = EventAt(it[t])
    BY <1>1
  <2> HIDE DEF ev
  <2> QED BY <2>1, <2>2 DEF EventAt
<1> HIDE DEF ev
<1>6. PICK watch, q, news, r : RunsFrom(BuildThreads, ev, TidOf, A, EtmSize, watch, q, news, r)
  <2> HIDE DEF A
  <2>1. A = {k \in 1 .. n : ev[k].comparator = WatchComp}
    BY DEF A
  <2> QED BY <1>2, <1>3, <1>4, <2>1, RunsOfEvents
<1> DEFINE at == [t \in 1 .. q |-> it[watch[t]]]
<1>7. A \in SUBSET (1 .. n) /\ Enumerates(watch, q, A)
  BY <1>6 DEF RunsFrom
<1>8. Enumerates(at, q, Watched)
  <2>1. SwitchItems \in SUBSET Nat
    BY ItemsAre
  <2>2. Enumerates(at, q, {it[i] : i \in A})
    <3> HIDE DEF A
    <3> QED BY <1>1, <1>7, <2>1, ListOfList
  <2>3. {it[i] : i \in A} = Watched
    <3>1. ASSUME NEW i \in A PROVE it[i] \in Watched
      BY <1>3, <1>5 DEF Watched
    <3>2. ASSUME NEW x \in Watched PROVE \E i \in A : it[i] = x
      <4>1. PICK i \in 1 .. n : it[i] = x
        BY <1>1 DEF Enumerates, Watched
      <4>2. i \in A
        BY <1>5, <4>1 DEF Watched
      <4> QED BY <4>1, <4>2
    <3> HIDE DEF A
    <3> QED BY <3>1, <3>2
  <2> QED BY <2>2, <2>3
<1>9. q \in Nat /\ watch \in [1 .. q -> A]
  BY <1>7 DEF Enumerates
<1>10. \A t \in 1 .. q : watch[t] \in 1 .. n /\ at[t] = it[watch[t]]
  BY <1>9
<1> HIDE DEF at, A
<1>11. [t \in 1 .. q |-> ev[watch[t]].value] = [t \in 1 .. q |-> ValueOf(at[t])]
  BY <1>5, <1>10
<1>12. Enumerates(news, r, Changes([t \in 1 .. q |-> ValueOf(at[t])], q))
  BY <1>6, <1>11 DEF RunsFrom
<1>13. ASSUME NEW k \in 1 .. r
       PROVE  /\ BuildThreads[k].begin = ToEtmIndex(Place(at[news[k]]))
              /\ BuildThreads[k].tid = TidOf[ValueOf(at[news[k]])]
  <2>1. news[k] \in 1 .. q
    BY <1>12 DEF Enumerates, Changes
  <2>2. /\ BuildThreads[k].begin = ev[watch[news[k]]].src
        /\ BuildThreads[k].tid = TidOf[ev[watch[news[k]]].value]
    BY <1>6 DEF RunsFrom
  <2> QED BY <1>5, <1>10, <2>1, <2>2
<1>14. MadeOf(BuildThreads, at, q, news, r)
  BY <1>6, <1>8, <1>12, <1>13 DEF MadeOf, RunsFrom
<1> QED BY <1>14

\* Which thread runs at a byte, from the runs that have begun: the first p of them.
LEMMA ThreadAtRun ==
  ASSUME Fits, EtmItems # {}, NEW B, NEW at, NEW q, NEW news, NEW r, MadeOf(B, at, q, news, r),
         NEW b \in Nat, NEW p \in 0 .. r, \A k \in 1 .. r : B[k].begin <= b <=> k <= p
  PROVE  ThreadAt(b) = IF p = 0 THEN Boot ELSE B[p].tid
<1>1. q \in Nat /\ r \in Nat /\ at \in [1 .. q -> Watched] /\ Watched \subseteq SwitchItems
  BY DEF MadeOf, Enumerates, Watched
<1> DEFINE src == [t \in 1 .. q |-> EtmBefore(at[t])]
           val == [t \in 1 .. q |-> ValueOf(at[t])]
<1>2. ASSUME NEW t \in 1 .. q
      PROVE  /\ at[t] \in SwitchItems /\ at[t] \in Nat /\ src[t] = EtmBefore(at[t])
             /\ val[t] = ValueOf(at[t]) /\ src[t] \in Nat
             /\ ToEtmIndex(Place(at[t])) = src[t]
  <2>1. at[t] \in SwitchItems
    BY <1>1
  <2> QED BY <2>1, ItemsAre, EffectIsBehind
<1>3. src \in [1 .. q -> Nat]
  BY <1>2
<1> HIDE DEF src
<1>4. ASSUME NEW s \in 1 .. q, NEW t \in 1 .. q, s <= t
      PROVE  at[s] <= at[t] /\ src[s] <= src[t]
  <2>1. s = t \/ s < t
    BY <1>4
  <2>2. s < t => at[s] < at[t]
    BY DEF MadeOf, Enumerates
  <2>3. at[s] <= at[t]
    BY <1>2, <2>1, <2>2
  <2> QED BY <1>2, <2>3, EffectIsBehind
<1>5. Enumerates(news, r, Changes(val, q))
  BY DEF MadeOf
<1>6. \A k \in 1 .. r : news[k] \in 1 .. q
  BY <1>5 DEF Enumerates, Changes
<1> HIDE DEF val
<1>7. ASSUME NEW k \in 1 .. r PROVE src[news[k]] <= b <=> k <= p
  <2>1. B[k].begin = ToEtmIndex(Place(at[news[k]]))
    BY DEF MadeOf
  <2> QED BY <1>2, <1>6, <2>1
<1>8. /\ p = 0 => NoneBy(src, q, b)
      /\ p > 0 => \E last : LatestBy(src, q, b, last) /\ val[last] = val[news[p]]
  <2>1. Rising(src, q)
    BY <1>3, <1>4 DEF Rising
  <2>2. CameBy(src, news, r, b, p)
    BY <1>7 DEF CameBy
  <2>3. q \in Nat /\ b \in Nat
    BY <1>1
  <2> QED BY ONLY <1>5, <2>1, <2>2, <2>3, LastChange
<1> DEFINE switched == {k \in SwitchItems :
                          EtmBefore(k) <= b /\ capture[k].comparator = WatchComp}
           latest == CHOOSE k \in switched : \A j \in switched : j <= k
<1>9. ThreadAt(b) = IF switched = {} THEN Boot ELSE TidOf[ValueOf(latest)]
  BY DEF ThreadAt, ValueOf
<1>10. ASSUME NEW k \in switched PROVE \E t \in 1 .. q : at[t] = k /\ src[t] <= b
  <2>1. k \in Watched
    BY DEF Watched
  <2>2. PICK t \in 1 .. q : at[t] = k
    BY <2>1 DEF MadeOf, Enumerates
  <2> QED BY <1>2, <2>2
<1>11. ASSUME NEW t \in 1 .. q, src[t] <= b PROVE at[t] \in switched
  <2>1. at[t] \in Watched
    BY <1>1
  <2> QED BY <1>2, <1>11, <2>1 DEF Watched
<1> HIDE DEF switched
<1>12. CASE p = 0
  <2>1. switched = {}
    BY <1>8, <1>10, <1>12 DEF NoneBy
  <2> QED BY <1>9, <1>12, <2>1
<1>13. CASE p > 0
  <2>1. PICK last \in 1 .. q : /\ src[last] <= b /\ val[last] = val[news[p]]
                               /\ \A t \in 1 .. q : src[t] <= b => t <= last
    BY <1>8, <1>13 DEF LatestBy
  <2>2. at[last] \in switched
    BY <1>11, <2>1
  <2>3. ASSUME NEW j \in switched PROVE j <= at[last] /\ j \in Nat
    <3>1. PICK t \in 1 .. q : at[t] = j /\ src[t] <= b
      BY <1>10
    <3>2. t <= last
      BY <2>1, <3>1
    <3> QED BY <1>2, <1>4, <3>1, <3>2
  <2>4. latest \in switched /\ \A j \in switched : j <= latest
    <3>1. \E k \in switched : \A j \in switched : j <= k
      BY <2>2, <2>3
    <3> QED BY <3>1, Zenon
  <2> HIDE DEF latest
  <2>5. latest = at[last]
    <3>1. latest <= at[last] /\ at[last] <= latest /\ latest \in Nat /\ at[last] \in Nat
      BY <2>2, <2>3, <2>4
    <3> QED BY <3>1
  <2>6. p \in 1 .. r
    BY <1>13
  <2>7. ValueOf(latest) = ValueOf(at[news[p]])
    BY <1>2, <1>6, <2>1, <2>5, <2>6
  <2>8. B[p].tid = TidOf[ValueOf(at[news[p]])]
    BY <2>6 DEF MadeOf
  <2> QED BY <1>9, <1>13, <2>2, <2>7, <2>8
<1> QED BY <1>12, <1>13

\* The runs begin in order.
LEMMA RunsBeginInOrder ==
  ASSUME Fits, EtmItems # {}, NEW B, NEW at, NEW q, NEW news, NEW r, MadeOf(B, at, q, news, r),
         NEW i \in 1 .. r, NEW k \in 1 .. r, i <= k
  PROVE  B[i].begin \in Nat /\ B[k].begin \in Nat /\ B[i].begin <= B[k].begin
<1>1. at \in [1 .. q -> Watched] /\ Watched \subseteq SwitchItems
  BY DEF MadeOf, Enumerates, Watched
<1>2. news[i] \in 1 .. q /\ news[k] \in 1 .. q
  BY DEF MadeOf, Enumerates, Changes
<1>3. i = k \/ news[i] < news[k]
  <2>1. i = k \/ i < k
    OBVIOUS
  <2> QED BY <2>1 DEF MadeOf, Enumerates
<1>4. i = k \/ at[news[i]] < at[news[k]]
  BY <1>2, <1>3 DEF MadeOf, Enumerates
<1>5. at[news[i]] \in SwitchItems /\ at[news[k]] \in SwitchItems
  BY <1>1, <1>2
<1>6. at[news[i]] \in Nat /\ at[news[k]] \in Nat /\ at[news[i]] <= at[news[k]]
  <2>1. at[news[i]] \in Nat /\ at[news[k]] \in Nat
    BY <1>5, ItemsAre
  <2> QED BY <1>4, <2>1
<1>7. B[i].begin = EtmBefore(at[news[i]]) /\ B[k].begin = EtmBefore(at[news[k]])
  <2>1. B[i].begin = ToEtmIndex(Place(at[news[i]])) /\ B[k].begin = ToEtmIndex(Place(at[news[k]]))
    BY DEF MadeOf
  <2> QED BY <1>5, <2>1, EffectIsBehind
<1> QED BY <1>5, <1>6, <1>7, EffectIsBehind

------------------------------------------------------------------------------
(* The decode, with the schedule.                                             *)

CoverageFields(c) == DOMAIN c = {"pending", "flowed", "first", "last", "blind", "regions", "lost"}
CoverageFlags(c) == c.pending \in BOOLEAN /\ c.flowed \in BOOLEAN
CoverageCounts(c) ==
  c.first \in Nat /\ c.last \in Nat /\ c.blind \in Nat /\ c.regions \in Nat /\ c.lost \in Nat
IsCoverage(c) == CoverageFields(c) /\ CoverageFlags(c) /\ CoverageCounts(c)
LastSeen == seen[Len(seen)].byte
\* The element in the sink is the last one seen.
ElementKnown ==
  element # None => /\ seen # <<>> /\ element.byte = LastSeen
                    /\ element.byte \in 0 .. EtmSize /\ element.cycles \in Nat
                    /\ element.kind = "Timestamp" => element.number \in Nat
\* The runs that were switched in have begun, and the last of them is under way.
SwitchedInTime ==
  /\ nextSwitch \in 1 .. Len(runs) + 1
  /\ curThread = IF nextSwitch = 1 THEN Boot ELSE runs[nextSwitch - 1].tid
  /\ \A k \in 1 .. nextSwitch - 1 : seen # <<>> /\ runs[k].begin <= LastSeen
BytesSeen == \A k \in DOMAIN seen : seen[k].byte \in 0 .. EtmSize
ClockTypes == lastByte \in 0 .. EtmSize /\ cycles \in Nat /\ stamp \in Nat /\ fatal \in BOOLEAN
Inputs == Fits /\ runs = BuildThreads
ScheduleInv ==
  /\ Inputs /\ BytesSeen /\ ClockTypes /\ IsCoverage(cov)
  /\ ElementKnown /\ SwitchedInTime /\ (finished => element = None)

\* The sizes of the ETM stream and of the schedule.
LEMMA SizesAre ==
  ASSUME Inputs
  PROVE  EtmSize \in Nat /\ Len(runs) \in Nat
<1>1. EtmSize \in Nat
  BY ItemsAre, FS_CardinalityType DEF EtmSize, Inputs
<1>2. PICK at, q, news, r : MadeOf(runs, at, q, news, r)
  BY SwitchesMakeRuns DEF Inputs
<1>3. Len(runs) \in Nat
  BY <1>2 DEF MadeOf, Enumerates
<1> QED BY <1>1, <1>3

\* The capture, its items and the runs are inputs.
LEMMA InputsStay ==
  ASSUME UNCHANGED inputs
  PROVE  (Inputs' <=> Inputs) /\ EtmSize' = EtmSize /\ runs' = runs /\ table' = table
<1>1. capture' = capture /\ runs' = runs /\ table' = table
  BY DEF inputs
<1>2. EtmItems' = EtmItems
  BY <1>1 DEF EtmItems
<1>3. EtmSize' = EtmSize
  BY <1>2 DEF EtmSize
<1>4. SwitchItems' = SwitchItems
  BY <1>1, <1>2 DEF SwitchItems
<1>5. \A k : Place(k)' = Place(k)
  BY <1>4 DEF Place
<1>6. DwtStream' = DwtStream
  BY <1>1, <1>4, <1>5 DEF DwtStream
<1>7. \A s : ToEtmIndex(s)' = ToEtmIndex(s)
  BY <1>2, <1>5 DEF ToEtmIndex
<1>8. BuildThreads' = BuildThreads
  BY <1>3, <1>6, <1>7 DEF BuildThreads
<1>9. Fits' <=> Fits
  BY <1>1 DEF Fits
<1>10. Inputs' <=> Inputs
  BY <1>1, <1>8, <1>9 DEF Inputs
<1> QED BY <1>1, <1>3, <1>10

\* A run begins at a byte of ETM.
LEMMA RunBegins ==
  ASSUME Inputs, NEW k \in 1 .. Len(runs)
  PROVE  runs[k].begin \in Int
<1>1. PICK at, q, news, r : MadeOf(runs, at, q, news, r)
  BY SwitchesMakeRuns DEF Inputs
<1>2. k \in 1 .. r
  BY <1>1 DEF MadeOf
<1>3. news[k] \in 1 .. q
  BY <1>1, <1>2 DEF MadeOf, Enumerates, Changes
<1> DEFINE i == at[news[k]]
<1>4. i \in SwitchItems
  BY <1>1, <1>3 DEF MadeOf, Enumerates, Watched
<1> HIDE DEF i
<1>5. i \in Nat /\ Place(i) \in Nat
  BY <1>4, ItemsAre, PlacesInOrder DEF Inputs
<1>6. runs[k].begin = ToEtmIndex(Place(i))
  BY <1>1, <1>2 DEF MadeOf, i
<1>7. CASE EtmItems = {}
  BY <1>5, <1>6, <1>7 DEF ToEtmIndex
<1>8. CASE EtmItems # {}
  BY <1>4, <1>6, <1>8, EffectIsBehind DEF Inputs
<1> QED BY <1>7, <1>8

\* The invariant of the schedule: at the beginning, and in every step.
LEMMA ScheduleBegins == ToolInit => ScheduleInv
<1> SUFFICES ASSUME ToolInit PROVE ScheduleInv
  OBVIOUS
<1>1. Inputs
  BY CapturesAssumption DEF ToolInit, Inputs, Fits
<1>2. /\ nextSwitch = 1 /\ element = None /\ lastByte = 0 /\ cycles = 0 /\ stamp = 0
      /\ seen = <<>> /\ fatal = FALSE /\ curThread = Boot /\ cov = FreshCoverage
  BY DEF ToolInit, Init
<1>3. EtmSize \in Nat /\ Len(runs) \in Nat
  BY <1>1, SizesAre
<1>4. IsCoverage(cov)
  BY <1>2 DEF FreshCoverage, IsCoverage, CoverageFields, CoverageFlags, CoverageCounts
<1>5. BytesSeen /\ ClockTypes /\ ElementKnown
  <2>1. fatal \in BOOLEAN
    BY <1>2
  <2>2. 0 \in 0 .. EtmSize /\ 0 \in Nat
    BY <1>3
  <2>3. DOMAIN seen = {}
    BY <1>2
  <2> QED BY <1>2, <2>1, <2>2, <2>3 DEF BytesSeen, ClockTypes, ElementKnown
<1>6. SwitchedInTime
  BY <1>2, <1>3 DEF SwitchedInTime
<1> QED BY <1>1, <1>2, <1>4, <1>5, <1>6 DEF ScheduleInv

\* What the adapter makes of an element of the library.
LEMMA AdaptedIs ==
  ASSUME NEW g \in Generated, NEW n \in Nat, NEW b, NEW e,
         e = Adapted(IF g.type = "TIMESTAMP" THEN [g EXCEPT !.number = n] ELSE g, b)
  PROVE  /\ e.byte = b /\ e.cycles \in Nat /\ (e.kind = "Timestamp" => e.number \in Nat)
<1> DEFINE h == IF g.type = "TIMESTAMP" THEN [g EXCEPT !.number = n] ELSE g
<1>1. e = Adapted(h, b)
  OBVIOUS
<1>2. /\ h.type = "TIMESTAMP" => h.number \in Nat
      /\ h.type # "TIMESTAMP" => h.cc \in Nat
  <2>1. "type" \in DOMAIN g /\ "number" \in DOMAIN g /\ g.cc \in Nat
    BY GeneratedAssumption
  <2>2. CASE g.type = "TIMESTAMP"
    <3>1. h.type = g.type /\ h.number = n
      BY <2>1, <2>2
    <3> QED BY <2>2, <3>1
  <2>3. CASE g.type # "TIMESTAMP"
    BY <2>1, <2>3
  <2> QED BY <2>2, <2>3
<1> HIDE DEF h
<1>3. e.byte = b /\ e.number = h.number /\ e.kind = KindOf(h.type)
      /\ e.cycles = IF h.type \in {"INSTR_RANGE", "CYCLE_COUNT"} THEN h.cc ELSE 0
  BY <1>1 DEF Adapted
<1>4. KindOf(h.type) = "Timestamp" => h.type = "TIMESTAMP"
  BY DEF KindOf
<1> QED BY <1>2, <1>3, <1>4

\* The coverage keeps its types.
LEMMA CoverageStays ==
  ASSUME IsCoverage(cov), table \in Seq(Nat), NEW e, e.byte \in Nat
  PROVE  IsCoverage(Observe(e))
<1> DEFINE c == Observe(e)
<1>1. CASE e.kind = "InstrRange" /\ table # <<>>
  <2> DEFINE now == NsFor(table, e.byte)
  <2>1. now \in Nat
    BY <1>1, TimesAreNumbers
  <2>2. c = ObservedRange(now)
    BY <1>1 DEF Observe
  <2> HIDE DEF now, c
  <2>3. CoverageFields(c)
    BY <2>2 DEF ObservedRange, IsCoverage, CoverageFields
  <2>4. c.pending = FALSE /\ c.flowed = TRUE
    BY <2>2 DEF ObservedRange, IsCoverage, CoverageFields
  <2>5. /\ c.first = now \/ c.first = cov.first
        /\ c.last = now /\ c.lost = cov.lost
    BY <2>2 DEF ObservedRange, IsCoverage, CoverageFields
  <2>6. /\ c.blind = cov.blind \/ (now > cov.last /\ c.blind = cov.blind + (now - cov.last))
        /\ c.regions = cov.regions \/ c.regions = cov.regions + 1
    BY <2>2 DEF ObservedRange, IsCoverage, CoverageFields
  <2>7. CoverageCounts(c)
    <3>1. /\ cov.first \in Nat /\ cov.last \in Nat /\ cov.blind \in Nat
          /\ cov.regions \in Nat /\ cov.lost \in Nat
      BY DEF IsCoverage, CoverageCounts
    <3>2. c.first \in Nat /\ c.last \in Nat /\ c.lost \in Nat
      BY ONLY <2>1, <2>5, <3>1
    <3>3. c.blind \in Nat /\ c.regions \in Nat
      BY ONLY <2>1, <2>6, <3>1
    <3> QED BY ONLY <3>2, <3>3 DEF CoverageCounts
  <2> QED BY <2>3, <2>4, <2>7 DEF IsCoverage, CoverageFlags, c
<1>2. CASE e.kind = "InstrRange" /\ table = <<>>
  <2>1. c = [cov EXCEPT !.flowed = TRUE]
    BY <1>2 DEF Observe
  <2> HIDE DEF c
  <2>2. CoverageFields(c) /\ c.flowed = TRUE /\ c.pending = cov.pending
    BY <2>1 DEF IsCoverage, CoverageFields
  <2>3. CoverageCounts(c)
    BY <2>1 DEF IsCoverage, CoverageFields, CoverageCounts
  <2> QED BY <2>2, <2>3 DEF IsCoverage, CoverageFlags, c
<1>3. CASE e.kind # "InstrRange"
  <2> DEFINE pending_ == cov.pending \/ e.kind \in Blinding
             lost_ == IF e.kind \in {"NoSync", "Overflow"} /\ cov.flowed THEN cov.lost + 1 ELSE cov.lost
  <2>1. c = [cov EXCEPT !.pending = pending_, !.lost = lost_]
    BY <1>3 DEF Observe
  <2>2. pending_ \in BOOLEAN
    OBVIOUS
  <2>3. lost_ \in Nat
    BY DEF IsCoverage, CoverageCounts
  <2> HIDE DEF c, pending_, lost_
  <2>4. CoverageFields(c) /\ c.flowed = cov.flowed /\ c.pending = pending_
    BY <2>1 DEF IsCoverage, CoverageFields
  <2>5. CoverageCounts(c)
    BY <2>1, <2>3 DEF IsCoverage, CoverageFields, CoverageCounts
  <2> QED BY <2>2, <2>4, <2>5 DEF IsCoverage, CoverageFlags, c
<1> QED BY <1>1, <1>2, <1>3

\* An element more: its byte is not before the last one's.
LEMMA GenerateInTime ==
  ASSUME ScheduleInv, CoverageInv, NEW g \in Generated, NEW byte \in 0 .. EtmSize, Generate(g, byte)
  PROVE  ScheduleInv'
<1>1. UNCHANGED inputs /\ Inputs' /\ EtmSize' = EtmSize /\ runs' = runs /\ EtmSize \in Nat
      /\ Len(runs) \in Nat
  BY InputsStay, SizesAre DEF Generate, ScheduleInv
<1>2. PICK m \in Nat : m = Len(seen) /\ DOMAIN seen = 1 .. m
  BY DEF CoverageInv, ReportTypes
<1>3. seen' = Append(seen, element') /\ seen \in Seq(Elements) /\ byte \in Nat
      /\ (seen # <<>> => byte >= LastSeen)
  BY <1>1 DEF Generate, CoverageInv, ReportTypes, LastSeen
<1>4. element'.byte = byte /\ element'.cycles \in Nat
      /\ (element'.kind = "Timestamp" => element'.number \in Nat)
  <2>1. Len(seen) + 1 \in Nat
    BY <1>2
  <2> QED BY <2>1, AdaptedIs DEF Generate
<1>5. /\ DOMAIN seen' = 1 .. m + 1 /\ Len(seen') = m + 1 /\ seen' # <<>>
      /\ \A k \in 1 .. m : seen'[k] = seen[k]
      /\ seen'[m + 1] = element'
  BY <1>2, <1>3
<1>6. LastSeen' = byte
  BY <1>4, <1>5 DEF LastSeen
<1>7. IsCoverage(cov')
  <2>1. cov' = Observe(element') /\ table \in Seq(Nat) /\ IsCoverage(cov)
    BY DEF Generate, CoverageInv, ReportTypes, ScheduleInv
  <2> DEFINE e == element'
  <2>2. e.byte \in Nat
    BY <1>3, <1>4
  <2> HIDE DEF e
  <2>3. IsCoverage(Observe(e))
    BY <2>1, <2>2, CoverageStays
  <2> QED BY <2>1, <2>3 DEF e
<1>8. BytesSeen'
  <2>1. \A k \in 1 .. m + 1 : k = m + 1 \/ k \in 1 .. m
    OBVIOUS
  <2> QED BY <1>1, <1>2, <1>4, <1>5, <2>1 DEF BytesSeen, ScheduleInv
<1>9. ClockTypes' /\ finished' = finished /\ ~finished
  BY <1>1 DEF Generate, ScheduleInv, ClockTypes, clocks, vars, Decoding
<1>10. ElementKnown'
  BY <1>1, <1>4, <1>5, <1>6 DEF ElementKnown
<1>11. SwitchedInTime'
  <2>1. nextSwitch' = nextSwitch /\ curThread' = curThread /\ SwitchedInTime
    BY DEF Generate, vars, core, ScheduleInv
  <2>2. ASSUME NEW k \in 1 .. nextSwitch - 1 PROVE seen' # <<>> /\ runs[k].begin <= byte
    <3>1. seen # <<>> /\ runs[k].begin <= LastSeen
      BY <2>1 DEF SwitchedInTime
    <3>2. byte >= LastSeen /\ LastSeen \in Nat
      <4>1. m \in DOMAIN seen
        BY <1>2, <1>3, <3>1
      <4>2. seen[m].byte \in 0 .. EtmSize
        BY <4>1 DEF ScheduleInv, BytesSeen
      <4> QED BY <1>1, <1>2, <1>3, <3>1, <4>2 DEF LastSeen
    <3>3. runs[k].begin \in Int
      <4>1. k \in 1 .. Len(runs)
        BY <1>1, <2>1 DEF SwitchedInTime
      <4> QED BY <4>1, RunBegins DEF ScheduleInv
    <3> QED BY <1>3, <1>5, <3>1, <3>2, <3>3
  <2> QED BY <1>1, <1>6, <2>1, <2>2 DEF SwitchedInTime
<1> QED BY <1>1, <1>7, <1>8, <1>9, <1>10, <1>11 DEF ScheduleInv

\* A call on the call-stack machine leaves the thread alone.
LEMMA ThreadStays ==
  ASSUME Processed
  PROVE  curThread' = curThread /\ finished' = finished
<1>1. /\ \A r : InstrRange(r) => curThread' = curThread /\ finished' = finished
      /\ \A e : Exception(e) => curThread' = curThread /\ finished' = finished
  BY DEF InstrRange, Exception
<1>2. ExceptionRet \/ Discontinuity => curThread' = curThread /\ finished' = finished
  BY DEF ExceptionRet, LeaveContext, UnmatchedExceptionRet, Discontinuity
<1>3. (noted' = {} /\ UNCHANGED <<core, slices, edge, finished, out>>)
        => curThread' = curThread /\ finished' = finished
  BY DEF core
<1> QED BY <1>1, <1>2, <1>3 DEF Processed

\* An element is processed: the thread and the cursor stay.
LEMMA ProcessInTime ==
  ASSUME ScheduleInv, Process
  PROVE  ScheduleInv'
<1>1. /\ UNCHANGED inputs /\ Inputs' /\ EtmSize' = EtmSize /\ runs' = runs
      /\ nextSwitch' = nextSwitch /\ cov' = cov /\ seen' = seen /\ fatal' = fatal
      /\ element # None /\ element' = None
  BY InputsStay DEF Process, ScheduleInv
<1>2. curThread' = curThread
  BY ThreadStays DEF Process
<1>3. BytesSeen' /\ IsCoverage(cov')
  BY <1>1 DEF ScheduleInv, BytesSeen
<1>4. ClockTypes'
  <2>1. /\ element.byte \in 0 .. EtmSize /\ element.cycles \in Nat
        /\ element.kind = "Timestamp" => element.number \in Nat
    BY <1>1 DEF ScheduleInv, ElementKnown
  <2>2. /\ lastByte' = element.byte /\ cycles' = cycles + element.cycles
        /\ stamp' = IF element.kind = "Timestamp" THEN element.number ELSE stamp
    BY DEF Process
  <2>3. cycles \in Nat /\ stamp \in Nat
    BY DEF ScheduleInv, ClockTypes
  <2>4. cycles' \in Nat /\ stamp' \in Nat
    BY ONLY <2>1, <2>2, <2>3
  <2>5. fatal' \in BOOLEAN
    BY <1>1 DEF ScheduleInv, ClockTypes
  <2> QED BY <1>1, <2>1, <2>2, <2>4, <2>5 DEF ClockTypes
<1>5. ElementKnown'
  BY <1>1 DEF ElementKnown
<1>6. SwitchedInTime'
  BY <1>1, <1>2 DEF ScheduleInv, SwitchedInTime, LastSeen
<1> QED BY <1>1, <1>3, <1>4, <1>5, <1>6 DEF ScheduleInv

\* The next run is switched in: it has begun, and is the last that has.
LEMMA SwitchInTime ==
  ASSUME ScheduleInv, SwitchIn
  PROVE  ScheduleInv'
<1>1. /\ UNCHANGED inputs /\ Inputs' /\ EtmSize' = EtmSize /\ runs' = runs
      /\ nextSwitch' = nextSwitch + 1 /\ cov' = cov /\ seen' = seen /\ fatal' = fatal
      /\ element' = element /\ element # None /\ nextSwitch <= Len(runs)
      /\ runs[nextSwitch].begin <= element.byte
  BY InputsStay DEF SwitchIn, Due, report, ScheduleInv
<1>2. curThread' = runs[nextSwitch].tid /\ finished' = finished
  <2>1. CASE runs[nextSwitch].tid = curThread
    BY <2>1 DEF SwitchIn, vars, core
  <2>2. CASE runs[nextSwitch].tid # curThread
    BY <2>2 DEF SwitchIn, SwitchThread
  <2> QED BY <2>1, <2>2
<1>3. BytesSeen' /\ IsCoverage(cov')
  BY <1>1 DEF ScheduleInv, BytesSeen
<1>4. ClockTypes'
  <2>1. lastByte' = lastByte /\ cycles' = cycles /\ stamp' = stamp
    BY DEF SwitchIn, clocks
  <2> QED BY <1>1, <2>1 DEF ScheduleInv, ClockTypes
<1>5. ElementKnown'
  BY <1>1 DEF ScheduleInv, ElementKnown, LastSeen
<1>6. SwitchedInTime'
  <2>1. nextSwitch \in 1 .. Len(runs) + 1 /\ Len(runs) \in Nat
    BY SizesAre DEF ScheduleInv, SwitchedInTime
  <2>2. nextSwitch' \in 1 .. Len(runs) + 1 /\ nextSwitch' # 1 /\ nextSwitch' - 1 = nextSwitch
    BY <1>1, <2>1
  <2>3. seen # <<>> /\ runs[nextSwitch].begin <= LastSeen
    BY <1>1 DEF ScheduleInv, ElementKnown
  <2>4. ASSUME NEW k \in 1 .. nextSwitch' - 1 PROVE seen # <<>> /\ runs[k].begin <= LastSeen
    <3>0. k \in 1 .. nextSwitch /\ nextSwitch \in Nat
      <4>1. k \in 1 .. nextSwitch
        BY <2>2, Zenon
      <4>2. nextSwitch \in Nat
        BY <2>1
      <4> QED BY <4>1, <4>2
    <3>1. k = nextSwitch \/ k \in 1 .. nextSwitch - 1
      BY ONLY <3>0
    <3> QED BY <2>3, <3>1 DEF ScheduleInv, SwitchedInTime
  <2>5. LastSeen' = LastSeen
    BY <1>1 DEF LastSeen
  <2> QED BY <1>1, <1>2, <2>2, <2>4, <2>5 DEF SwitchedInTime
<1>7. finished' => element' = None
  BY <1>1, <1>2 DEF ScheduleInv
<1> QED BY <1>1, <1>3, <1>4, <1>5, <1>6, <1>7 DEF ScheduleInv

\* The end of the trace leaves the cursor where it is.
LEMMA EndInTime ==
  ASSUME ScheduleInv, EndAll
  PROVE  ScheduleInv'
<1>1. /\ UNCHANGED inputs /\ Inputs' /\ EtmSize' = EtmSize /\ runs' = runs
      /\ nextSwitch' = nextSwitch /\ cov' = cov /\ seen' = seen /\ fatal' \in BOOLEAN
      /\ element = None /\ element' = None /\ UNCHANGED clocks
  BY InputsStay DEF EndAll, report, ScheduleInv
<1>2. curThread' = curThread
  BY DEF EndAll, Finish
<1>3. BytesSeen' /\ IsCoverage(cov')
  BY <1>1 DEF ScheduleInv, BytesSeen
<1>4. ClockTypes'
  BY <1>1 DEF ScheduleInv, ClockTypes, clocks
<1>5. ElementKnown'
  BY <1>1 DEF ElementKnown
<1>6. SwitchedInTime'
  BY <1>1, <1>2 DEF ScheduleInv, SwitchedInTime, LastSeen
<1> QED BY <1>1, <1>3, <1>4, <1>5, <1>6 DEF ScheduleInv

\* All the steps keep the invariant of the schedule.
LEMMA ScheduleKept == CoverageInv /\ ScheduleInv /\ [ToolNext]_<<vars, toolVars>> => ScheduleInv'
<1> SUFFICES ASSUME CoverageInv, ScheduleInv, [ToolNext]_<<vars, toolVars>> PROVE ScheduleInv'
  OBVIOUS
<1>1. CASE \E g \in Generated, byte \in 0 .. EtmSize : Generate(g, byte)
  BY <1>1, GenerateInTime
<1>2. CASE UNCHANGED <<vars, toolVars>>
  <2>1. /\ Inputs' /\ EtmSize' = EtmSize /\ runs' = runs /\ nextSwitch' = nextSwitch
        /\ cov' = cov /\ seen' = seen /\ fatal' = fatal /\ element' = element
        /\ curThread' = curThread /\ finished' = finished /\ UNCHANGED clocks
    BY <1>2, InputsStay DEF toolVars, report, vars, core, ScheduleInv
  <2>2. BytesSeen' /\ IsCoverage(cov') /\ ClockTypes'
    BY <2>1 DEF ScheduleInv, BytesSeen, ClockTypes, clocks
  <2>3. ElementKnown' /\ SwitchedInTime'
    BY <2>1 DEF ScheduleInv, ElementKnown, SwitchedInTime, LastSeen
  <2> QED BY <2>1, <2>2, <2>3 DEF ScheduleInv
<1> QED BY <1>1, <1>2, SwitchInTime, ProcessInTime, EndInTime DEF ToolNext

\* The invariant of the schedule.
LEMMA ScheduleHolds == ToolSpec => []ScheduleInv
<1>1. ToolInit => ScheduleInv
  BY ScheduleBegins
<1>2. CoverageInv /\ ScheduleInv /\ [ToolNext]_<<vars, toolVars>> => ScheduleInv'
  BY ScheduleKept
<1> QED BY <1>1, <1>2, CoverageInvHolds, PTL DEF ToolSpec

(* The tool's own state has its types, and no element is left in the sink     *)
(* when the decode has finished (DecodeTool, of cortrace_decode.cpp).         *)
THEOREM ToolTypeCorrect == ToolSpec => []ToolTypeOK
<1>1. ScheduleInv => ToolTypeOK
  <2> SUFFICES ASSUME ScheduleInv PROVE ToolTypeOK
    OBVIOUS
  <2>1. nextSwitch \in 1 .. Len(runs) + 1
    BY DEF ScheduleInv, SwitchedInTime
  <2>2. {lastByte} \cup {seen[k].byte : k \in DOMAIN seen} \subseteq 0 .. EtmSize
    BY DEF ScheduleInv, ClockTypes, BytesSeen
  <2>3. cov.pending \in BOOLEAN /\ cov.flowed \in BOOLEAN
    BY DEF ScheduleInv, IsCoverage, CoverageFlags
  <2>4. {cov.first, cov.last, cov.blind, cov.regions, cov.lost, cycles, stamp} \subseteq Nat
    BY DEF ScheduleInv, IsCoverage, CoverageCounts, ClockTypes
  <2>5. fatal \in BOOLEAN /\ (finished => element = None)
    BY DEF ScheduleInv, ClockTypes
  <2> QED BY <2>1, <2>2, <2>3, <2>4, <2>5 DEF ToolTypeOK
<1> QED BY <1>1, ScheduleHolds, PTL

(* Whatever the capture holds, every element is processed in the thread whose *)
(* switch packet is the last before its byte, however the bytes of the ETM    *)
(* stream and the two-byte switch packets are mixed: the schedule, built from *)
(* the switch stream alone before the decode, and the cursor that walks it    *)
(* agree with the capture (cortrace_decode.cpp:581-668).                      *)
THEOREM ElementsRunInTheirThread == ToolSpec => []ThreadsLineUp
<1>1. ScheduleInv => ThreadsLineUp
  <2> SUFFICES ASSUME ScheduleInv, element # None, ~Due, EtmItems # {}
               PROVE  curThread = ThreadAt(element.byte)
    BY DEF ThreadsLineUp
  <2> DEFINE b == element.byte
             p == nextSwitch - 1
  <2>1. Fits /\ runs = BuildThreads
    BY DEF ScheduleInv, Inputs
  <2>2. PICK at, q, news, r : MadeOf(runs, at, q, news, r)
    BY <2>1, SwitchesMakeRuns
  <2>3. r = Len(runs) /\ r \in Nat
    BY <2>2 DEF MadeOf, Enumerates
  <2>4. nextSwitch \in 1 .. r + 1
    BY <2>3 DEF ScheduleInv, SwitchedInTime
  <2>5. b \in Nat /\ b = LastSeen
    BY SizesAre DEF ScheduleInv, ElementKnown
  <2>6. p \in 0 .. r
    BY <2>3, <2>4
  <2>7. ASSUME NEW k \in 1 .. r PROVE runs[k].begin <= b <=> k <= p
    <3>1. k <= p => runs[k].begin <= b
      <4>1. k <= p => k \in 1 .. nextSwitch - 1
        BY <2>3, <2>4
      <4> QED BY <2>5, <4>1 DEF ScheduleInv, SwitchedInTime
    <3>2. ASSUME k > p PROVE ~(runs[k].begin <= b)
      <4>1. nextSwitch \in 1 .. r /\ nextSwitch <= k
        BY <2>3, <2>4, <3>2
      <4>2. ~(runs[nextSwitch].begin <= b)
        BY <2>3, <4>1 DEF Due
      <4>3. /\ runs[nextSwitch].begin \in Nat /\ runs[k].begin \in Nat
            /\ runs[nextSwitch].begin <= runs[k].begin
        BY <2>1, <2>2, <4>1, RunsBeginInOrder
      <4> QED BY <2>5, <4>2, <4>3
    <3>3. k <= p \/ k > p
      BY <2>6
    <3> QED BY <3>1, <3>2, <3>3
  <2> HIDE DEF b, p
  <2>8. ThreadAt(b) = IF p = 0 THEN Boot ELSE runs[p].tid
    BY <2>1, <2>2, <2>5, <2>6, <2>7, ThreadAtRun
  <2>9. curThread = IF p = 0 THEN Boot ELSE runs[p].tid
    <3>1. p = 0 <=> nextSwitch = 1
      BY <2>3, <2>4 DEF p
    <3> QED BY <3>1 DEF ScheduleInv, SwitchedInTime, p
  <2> QED BY <2>8, <2>9 DEF b
<1> QED BY <1>1, ScheduleHolds, PTL

------------------------------------------------------------------------------
(* A sequence of sequences flattened: where each of them begins.              *)

\* The sequence all is made of n others, the k-th from the place at[k] on.
Laid(S, seqs, n, at, all) ==
  /\ at \in [1 .. n + 1 -> Nat] /\ at[1] = 1
  /\ \A k \in 1 .. n : at[k + 1] = at[k] + Len(seqs[k])
  /\ all \in Seq(S) /\ Len(all) = at[n + 1] - 1
  /\ \A k \in 1 .. n : \A j \in 1 .. Len(seqs[k]) : all[at[k] + j - 1] = seqs[k][j]

\* The flattened beginnings of a sequence of sequences.
Beginnings(h, S, seqs, n) ==
  /\ h \in [0 .. n -> Seq(S)] /\ h[0] = <<>>
  /\ \A i \in 1 .. n : h[i] = h[i - 1] \o seqs[i]

\* There is one after every of them.
LEMMA BeginningsExist ==
  ASSUME NEW S, NEW n \in Nat, NEW seqs \in [1 .. n -> Seq(S)]
  PROVE  \E h : Beginnings(h, S, seqs, n)
<1> DEFINE step == [p \in Seq(S) \X Nat |->
                     IF p[2] \in 1 .. n THEN p[1] \o seqs[p[2]] ELSE <<>>]
<1>1. <<>> \in Seq(S) /\ Steps(step, Seq(S))
  <2>1. <<>> \in Seq(S)
    OBVIOUS
  <2>2. ASSUME NEW p \in Seq(S) \X Nat
        PROVE (IF p[2] \in 1 .. n THEN p[1] \o seqs[p[2]] ELSE <<>>) \in Seq(S)
    BY <2>1
  <2> QED BY <2>1, <2>2 DEF Steps
<1>2. PICK h : Unfolds(h, Seq(S), <<>>, step, n)
  <2> HIDE DEF step
  <2> QED BY <1>1, RecursionExists
<1>3. h \in [0 .. n -> Seq(S)] /\ h[0] = <<>>
  BY <1>2 DEF Unfolds
<1>4. ASSUME NEW i \in 1 .. n PROVE h[i] = h[i - 1] \o seqs[i]
  <2>1. h[i] = step[<<h[i - 1], i>>]
    BY <1>2 DEF Unfolds
  <2>2. i - 1 \in 0 .. n /\ i \in Nat
    OBVIOUS
  <2>3. <<h[i - 1], i>> \in Seq(S) \X Nat
    BY <1>3, <2>2
  <2> QED BY <2>1, <2>3
<1> QED BY <1>3, <1>4 DEF Beginnings

Flattened(g, seqs) ==
  g = [i \in 1 .. Len(seqs) |-> IF i = 1 THEN seqs[i] ELSE g[i - 1] \o seqs[i]]

\* The last one is the flattened sequence.
LEMMA FlattenSeqIs ==
  ASSUME NEW S, NEW n \in Nat, NEW seqs \in [1 .. n -> Seq(S)],
         NEW h, Beginnings(h, S, seqs, n)
  PROVE  FlattenSeq(seqs) = h[n]
<1>1. Len(seqs) = n /\ h \in [0 .. n -> Seq(S)]
  BY DEF Beginnings
<1>2. CASE n = 0
  <2>1. seqs = <<>>
    BY <1>1, <1>2
  <2>2. FlattenSeq(seqs) = seqs
    BY <1>1, <1>2 DEF FlattenSeq
  <2> QED BY <1>2, <2>1, <2>2 DEF Beginnings
<1>3. CASE n # 0
  <2> DEFINE g == CHOOSE g : Flattened(g, seqs)
             good == [i \in 1 .. n |-> h[i]]
  <2>1. FlattenSeq(seqs) = g[n]
    BY <1>1, <1>3, Zenon DEF FlattenSeq, Flattened
  <2>2. Flattened(good, seqs)
    <3>1. ASSUME NEW i \in 1 .. n
          PROVE  good[i] = IF i = 1 THEN seqs[i] ELSE good[i - 1] \o seqs[i]
      <4>1. h[i] = h[i - 1] \o seqs[i] /\ seqs[i] \in Seq(S)
        BY DEF Beginnings
      <4>2. i = 1 => h[i - 1] = <<>>
        BY DEF Beginnings
      <4>3. i # 1 => i - 1 \in 1 .. n
        OBVIOUS
      <4>4. i = 1 => h[i] = seqs[i]
        BY <4>1, <4>2
      <4> QED BY <4>1, <4>3, <4>4
    <3>2. good = [i \in 1 .. n |-> IF i = 1 THEN seqs[i] ELSE good[i - 1] \o seqs[i]]
      BY <3>1
    <3> QED BY <1>1, <3>2 DEF Flattened
  <2>3. Flattened(g, seqs)
    <3> HIDE DEF good
    <3> QED BY <2>2
  <2> HIDE DEF g
  <2> DEFINE G == {i \in 0 .. n : i = 0 \/ g[i] = h[i]}
  <2>4. 0 \in G
    OBVIOUS
  <2>5. ASSUME NEW i \in 1 .. n, i - 1 \in G PROVE i \in G
    <3>1. g[i] = IF i = 1 THEN seqs[i] ELSE g[i - 1] \o seqs[i]
      BY <1>1, <2>3 DEF Flattened
    <3>2. h[i] = IF i = 1 THEN seqs[i] ELSE h[i - 1] \o seqs[i]
      <4>1. good[i] = IF i = 1 THEN seqs[i] ELSE good[i - 1] \o seqs[i]
        <5>1. good = [k \in 1 .. n |-> IF k = 1 THEN seqs[k] ELSE good[k - 1] \o seqs[k]]
          BY <1>1, <2>2 DEF Flattened
        <5> HIDE DEF good
        <5> QED BY <5>1
      <4>2. i # 1 => i - 1 \in 1 .. n
        OBVIOUS
      <4> QED BY <4>1, <4>2
    <3>3. i # 1 => g[i - 1] = h[i - 1]
      BY <2>5
    <3> QED BY <3>1, <3>2, <3>3
  <2>6. 0 .. n \subseteq G
    <3> HIDE DEF G
    <3> QED BY <2>4, <2>5, InductUpTo
  <2> QED BY <1>3, <2>1, <2>6
<1> QED BY <1>2, <1>3

\* What is flattened is laid out one behind the other.
LEMMA FlattenIs ==
  ASSUME NEW S, NEW n \in Nat, NEW seqs \in [1 .. n -> Seq(S)]
  PROVE  \E at : Laid(S, seqs, n, at, FlattenSeq(seqs))
<1>1. PICK h : Beginnings(h, S, seqs, n)
  BY BeginningsExist
<1>2. FlattenSeq(seqs) = h[n]
  BY <1>1, FlattenSeqIs
<1>3. h \in [0 .. n -> Seq(S)] /\ h[0] = <<>> /\ \A i \in 1 .. n : h[i] = h[i - 1] \o seqs[i]
  BY <1>1 DEF Beginnings
<1> DEFINE at == [k \in 1 .. n + 1 |-> Len(h[k - 1]) + 1]
<1>4. at \in [1 .. n + 1 -> Nat] /\ at[1] = 1
  <2>1. ASSUME NEW k \in 1 .. n + 1 PROVE Len(h[k - 1]) + 1 \in Nat
    <3>1. k - 1 \in 0 .. n
      OBVIOUS
    <3> QED BY <1>3, <3>1
  <2>2. 1 \in 1 .. n + 1
    OBVIOUS
  <2>3. at[1] = Len(h[0]) + 1
    BY <2>2
  <2> QED BY <1>3, <2>1, <2>3
<1>5. ASSUME NEW k \in 1 .. n
      PROVE  /\ at[k + 1] = at[k] + Len(seqs[k]) /\ k - 1 \in 0 .. n /\ k \in 0 .. n
             /\ at[k] = Len(h[k - 1]) + 1 /\ at[k + 1] = Len(h[k]) + 1
  <2>1. k - 1 \in 0 .. n /\ k \in 0 .. n /\ k + 1 \in 1 .. n + 1 /\ (k + 1) - 1 = k /\ k \in 1 .. n + 1
    OBVIOUS
  <2>2. at[k + 1] = Len(h[k]) + 1 /\ at[k] = Len(h[k - 1]) + 1
    BY <2>1
  <2>3. Len(h[k]) = Len(h[k - 1]) + Len(seqs[k])
    <3>1. h[k - 1] \in Seq(S) /\ seqs[k] \in Seq(S)
      BY <1>3, <2>1
    <3> QED BY <1>3, <3>1
  <2>4. Len(h[k - 1]) \in Nat /\ Len(seqs[k]) \in Nat
    <3>1. h[k - 1] \in Seq(S) /\ seqs[k] \in Seq(S)
      BY <1>3, <2>1
    <3> QED BY <3>1
  <2> QED BY <2>1, <2>2, <2>3, <2>4
<1> DEFINE G == {i \in 0 .. n : \A k \in 1 .. i : \A j \in 1 .. Len(seqs[k]) :
                                  h[i][at[k] + j - 1] = seqs[k][j]}
<1> HIDE DEF at
<1>6. 0 \in G
  OBVIOUS
<1>7. ASSUME NEW i \in 1 .. n, i - 1 \in G PROVE i \in G
  <2>0. i \in 0 .. n /\ i - 1 \in 0 .. n
    OBVIOUS
  <2>1. SUFFICES ASSUME NEW k \in 1 .. i, NEW j \in 1 .. Len(seqs[k])
                 PROVE  h[i][at[k] + j - 1] = seqs[k][j]
    BY <2>0
  <2>2. h[i] = h[i - 1] \o seqs[i] /\ h[i - 1] \in Seq(S) /\ seqs[i] \in Seq(S) /\ k \in 1 .. n
        /\ at[i] = Len(h[i - 1]) + 1
    <3>1. k \in 1 .. n
      OBVIOUS
    <3>2. h[i] = h[i - 1] \o seqs[i] /\ h[i - 1] \in Seq(S) /\ seqs[i] \in Seq(S)
      BY <1>3, <2>0
    <3> QED BY <1>5, <3>1, <3>2
  <2>3. CASE k = i
    <3>1. at[k] + j - 1 = Len(h[i - 1]) + j
      BY <2>2, <2>3
    <3> QED BY <2>2, <2>3, <3>1
  <2>4. CASE k # i
    <3>1. k \in 1 .. i - 1
      BY <2>4
    <3>2. h[i - 1][at[k] + j - 1] = seqs[k][j]
      BY <1>7, <3>1
    <3>3. at[k] + j - 1 \in 1 .. Len(h[i - 1])
      <4>1. at[k + 1] = at[k] + Len(seqs[k]) /\ at[k] = Len(h[k - 1]) + 1 /\ k - 1 \in 0 .. n
            /\ at[k + 1] = Len(h[k]) + 1
        BY <1>5, <2>2
      <4>2. Len(h[k - 1]) \in Nat /\ Len(seqs[k]) \in Nat /\ Len(h[i - 1]) \in Nat /\ Len(h[k]) \in Nat
        <5>1. h[k - 1] \in Seq(S) /\ seqs[k] \in Seq(S) /\ h[k] \in Seq(S)
          BY <1>3, <2>2, <4>1
        <5> QED BY <2>2, <5>1
      <4>3. Len(h[k]) <= Len(h[i - 1])
        <5> DEFINE H == {m \in 0 .. n : k <= m => Len(h[k]) <= Len(h[m])}
        <5>0. \A m \in 0 .. n : Len(h[m]) \in Nat
          BY <1>3
        <5>1. 0 \in H
          BY <3>1
        <5>2. ASSUME NEW m \in 1 .. n, m - 1 \in H PROVE m \in H
          <6>1. at[m + 1] = at[m] + Len(seqs[m]) /\ at[m] = Len(h[m - 1]) + 1 /\ at[m + 1] = Len(h[m]) + 1
            BY <1>5
          <6>2. Len(seqs[m]) \in Nat /\ m - 1 \in 0 .. n /\ m \in 0 .. n /\ k \in 0 .. n
            BY <1>3, <2>2
          <6>3. Len(h[m - 1]) <= Len(h[m]) /\ Len(h[m - 1]) \in Nat /\ Len(h[m]) \in Nat /\ Len(h[k]) \in Nat
            BY <5>0, <6>1, <6>2
          <6>4. k <= m => k = m \/ k <= m - 1
            BY <3>1
          <6> QED BY <5>2, <6>2, <6>3, <6>4
        <5>3. 0 .. n \subseteq H
          <6> HIDE DEF H
          <6> QED BY <5>1, <5>2, InductUpTo
        <5>4. i - 1 \in 0 .. n /\ k <= i - 1
          BY <3>1
        <5> QED BY <5>3, <5>4
      <4>4. PICK x \in Nat, y \in Nat, z \in Nat, u \in Nat :
              x = Len(h[k - 1]) /\ y = Len(seqs[k]) /\ z = Len(h[i - 1]) /\ u = Len(h[k])
        BY <4>2
      <4>5. at[k] = x + 1 /\ u + 1 = x + 1 + y /\ u <= z
        BY ONLY <4>1, <4>3, <4>4
      <4>6. j \in 1 .. y
        BY ONLY <4>4, j \in 1 .. Len(seqs[k])
      <4>7. at[k] + j - 1 \in 1 .. z
        BY ONLY <4>5, <4>6, x \in Nat, y \in Nat, z \in Nat, u \in Nat
      <4> QED BY ONLY <4>4, <4>7
    <3>4. h[i][at[k] + j - 1] = h[i - 1][at[k] + j - 1]
      BY ONLY <2>2, <3>3
    <3> QED BY ONLY <3>2, <3>4
  <2> QED BY <2>3, <2>4
<1>8. 0 .. n \subseteq G
  <2> HIDE DEF G
  <2> QED BY <1>6, <1>7, InductUpTo
<1>9. n \in G
  BY <1>8
<1>10. h[n] \in Seq(S) /\ Len(h[n]) = at[n + 1] - 1
  <2>1. n \in 0 .. n /\ n + 1 \in 1 .. n + 1 /\ (n + 1) - 1 = n
    OBVIOUS
  <2>2. at[n + 1] = Len(h[n]) + 1
    BY <2>1 DEF at
  <2> QED BY <1>3, <2>1, <2>2
<1>11. Laid(S, seqs, n, at, h[n])
  BY <1>4, <1>5, <1>9, <1>10 DEF Laid
<1> QED BY <1>2, <1>11

------------------------------------------------------------------------------
(* The packets of the DWT stream as the target frames them, and where the     *)
(* walk takes each to end: whole, and cut off.                                *)

\* A byte, and a packet as the target frames it: the header says what belongs to the packet.
Bytes == 0 .. 255
Framed(p) ==
  /\ p.header \in Bytes /\ p.payload \in Seq(Bytes)
  /\ IsSource(p.header) => Len(p.payload) = PayloadSize(p.header)
  /\ IsLongTimestamp(p.header) =>
       /\ Len(p.payload) > 0 /\ p.payload[Len(p.payload)] < 128
       /\ \A j \in 1 .. Len(p.payload) - 1 : p.payload[j] >= 128
  /\ ~IsSource(p.header) /\ ~IsLongTimestamp(p.header) => Len(p.payload) = 0

\* From place a on the bytes up to the n-th are those of the packet.
Carries(bytes, n, a, p) ==
  /\ a \in 1 .. n /\ bytes[a] = p.header
  /\ \A j \in 1 .. Len(p.payload) : a + j <= n => bytes[a + j] = p.payload[j]

\* The header of a long time stamp is not the one of a source packet.
LEMMA TimestampIsNoSource ==
  ASSUME NEW h \in Bytes, IsLongTimestamp(h)
  PROVE  ~IsSource(h) /\ h # 112 /\ h \notin {9, 10, 11} /\ ~IsValueWrite(h) /\ ~IsStimulus(h, 1)
<1>1. h \in 0 .. 255 /\ h % 16 = 0 /\ h >= 192
  BY DEF Bytes, IsLongTimestamp
<1>2. h % 4 = 0
  BY ONLY <1>1
<1>3. ~IsSource(h)
  BY <1>2 DEF IsSource
<1>4. h # 112 /\ h \notin {9, 10, 11}
  BY <1>1
<1> QED BY <1>3, <1>4 DEF IsValueWrite, IsStimulus

\* The size that a source header gives is a number.
LEMMA PayloadSizeIs ==
  ASSUME NEW h \in Bytes, IsSource(h)
  PROVE  PayloadSize(h) \in Nat
<1>1. h % 4 \in 1 .. 3
  <2>1. h \in Nat /\ h % 4 # 0
    BY DEF Bytes, IsSource
  <2> QED BY ONLY <2>1
<1> QED BY <1>1 DEF PayloadSize

\* The walk finds the end of a time stamp at the first byte that does not go on.
LEMMA TimestampEnds ==
  ASSUME NEW n \in Nat, NEW bytes \in [1 .. n -> Bytes], NEW a \in 1 .. n, NEW e \in a + 1 .. n,
         bytes[e] < 128, \A j \in a + 1 .. e - 1 : bytes[j] >= 128
  PROVE  ContinuationEnd(bytes, a) = e
<1>1. Len(bytes) = n
  OBVIOUS
<1> DEFINE ends == {j \in a + 1 .. n : bytes[j] < 128}
<1>2. e \in ends
  OBVIOUS
<1>3. ASSUME NEW k \in ends PROVE e <= k
  <2>1. k \in a + 1 .. n /\ bytes[k] < 128 /\ bytes[k] \in 0 .. 255
    BY DEF Bytes
  <2>2. ASSUME k \in a + 1 .. e - 1 PROVE FALSE
    <3>1. bytes[k] >= 128
      BY <2>2
    <3>2. PICK b \in Nat : b = bytes[k]
      BY <2>1
    <3> QED BY ONLY <2>1, <3>1, <3>2
  <2> QED BY <2>1, <2>2
<1>4. \A j \in ends : j \in Nat
  OBVIOUS
<1>5. ends # {}
  BY <1>2
<1>6. ContinuationEnd(bytes, a) = CHOOSE j \in ends : \A k \in ends : j <= k
  BY <1>1, <1>5 DEF ContinuationEnd
<1> HIDE DEF ends
<1> DEFINE m == CHOOSE j \in ends : \A k \in ends : j <= k
<1>7. m \in ends /\ \A k \in ends : m <= k
  BY <1>2, <1>3, Zenon
<1> HIDE DEF m
<1>8. m <= e /\ e <= m /\ m \in Nat /\ e \in Nat
  BY <1>2, <1>3, <1>4, <1>7
<1>9. m = e
  BY ONLY <1>8
<1> QED BY <1>6, <1>9 DEF m

\* A packet that is there in whole is found with its payload.
LEMMA WholePacket ==
  ASSUME NEW n \in Nat, NEW bytes \in [1 .. n -> Bytes], NEW p, Framed(p), NEW a,
         Carries(bytes, n, a, p), a + Len(p.payload) <= n
  PROVE  PacketEnd(bytes, a) = a + Len(p.payload) /\ Payload(bytes, a) = p.payload
<1>1. a \in 1 .. n /\ bytes[a] = p.header /\ p.header \in Bytes /\ p.payload \in Seq(Bytes)
  BY DEF Carries, Framed
<1>2. PICK d \in Nat : d = Len(p.payload)
  BY <1>1
<1>3. a + d <= n /\ \A j \in 1 .. d : bytes[a + j] = p.payload[j]
  <2>1. a + d <= n
    BY <1>2
  <2>2. \A j \in 1 .. d : a + j <= n
    BY <1>1, <2>1
  <2> QED BY <1>2, <2>1, <2>2 DEF Carries
<1>4. PacketEnd(bytes, a) = a + d
  <2>1. CASE IsSource(p.header)
    <3>1. PayloadSize(p.header) = d
      BY <1>2, <2>1 DEF Framed
    <3> QED BY <1>1, <2>1, <3>1 DEF PacketEnd
  <2>2. CASE IsLongTimestamp(p.header)
    <3>1. ~IsSource(p.header)
      BY <1>1, <2>2, TimestampIsNoSource
    <3>2. d > 0 /\ p.payload[d] < 128 /\ \A j \in 1 .. d - 1 : p.payload[j] >= 128
      BY <1>2, <2>2 DEF Framed
    <3>3. a + d \in a + 1 .. n /\ d \in 1 .. d
      BY <1>1, <1>3, <3>2
    <3>4. bytes[a + d] < 128
      BY <1>3, <3>2, <3>3
    <3>5. ASSUME NEW j \in a + 1 .. (a + d) - 1 PROVE bytes[j] >= 128
      <4>1. j - a \in 1 .. d - 1 /\ j - a \in 1 .. d /\ a + (j - a) = j
        BY <1>1
      <4> QED BY <1>3, <3>2, <4>1
    <3>6. ContinuationEnd(bytes, a) = a + d
      BY <1>1, <3>3, <3>4, <3>5, TimestampEnds
    <3> QED BY <1>1, <2>2, <3>1, <3>6 DEF PacketEnd
  <2>3. CASE ~IsSource(p.header) /\ ~IsLongTimestamp(p.header)
    <3>1. d = 0
      BY <1>2, <2>3 DEF Framed
    <3> QED BY <1>1, <2>3, <3>1 DEF PacketEnd
  <2> QED BY <2>1, <2>2, <2>3
<1>5. Payload(bytes, a) = SubSeq(bytes, a + 1, a + d)
  BY <1>4 DEF Payload
<1>6. SubSeq(bytes, a + 1, a + d) = p.payload
  <2>1. SubSeq(bytes, a + 1, a + d) = [j \in 1 .. d |-> bytes[(a + 1) + j - 1]]
    <3>1. bytes \in Seq(Bytes) /\ Len(bytes) = n /\ a + 1 \in Nat /\ a + d \in Nat
      BY <1>1
    <3>2. (a + d) - (a + 1) + 1 = d
      BY <1>1
    <3> QED BY <1>1, <3>1, <3>2
  <2>2. p.payload = [j \in 1 .. d |-> p.payload[j]]
    BY <1>1, <1>2
  <2>3. \A j \in 1 .. d : bytes[(a + 1) + j - 1] = p.payload[j]
    <3>1. \A j \in 1 .. d : (a + 1) + j - 1 = a + j
      BY <1>1
    <3> QED BY <1>3, <3>1
  <2> QED BY <2>1, <2>2, <2>3
<1> QED BY <1>2, <1>4, <1>5, <1>6

\* A packet that is cut off ends the walk, but for a time stamp, which takes what is left.
LEMMA CutPacket ==
  ASSUME NEW n \in Nat, NEW bytes \in [1 .. n -> Bytes], NEW p, Framed(p), NEW a,
         Carries(bytes, n, a, p), n < a + Len(p.payload)
  PROVE  \/ PacketEnd(bytes, a) > n
         \/ IsLongTimestamp(p.header) /\ PacketEnd(bytes, a) = n
<1>1. a \in 1 .. n /\ bytes[a] = p.header /\ p.header \in Bytes /\ p.payload \in Seq(Bytes)
  BY DEF Carries, Framed
<1>2. PICK d \in Nat : d = Len(p.payload)
  BY <1>1
<1>3. n < a + d
  BY <1>2
<1>4. CASE IsSource(p.header)
  <2>1. PayloadSize(p.header) = d
    BY <1>2, <1>4 DEF Framed
  <2> QED BY <1>1, <1>3, <1>4, <2>1 DEF PacketEnd
<1>5. CASE IsLongTimestamp(p.header)
  <2>1. ~IsSource(p.header)
    BY <1>1, <1>5, TimestampIsNoSource
  <2>2. \A j \in 1 .. d - 1 : p.payload[j] >= 128
    BY <1>2, <1>5 DEF Framed
  <2>3. ASSUME NEW j \in a + 1 .. n PROVE ~(bytes[j] < 128)
    <3>1. j - a \in 1 .. d - 1 /\ a + (j - a) = j /\ j - a \in 1 .. d /\ j <= n
      BY <1>1, <1>3
    <3>2. bytes[j] = p.payload[j - a]
      BY <1>2, <3>1 DEF Carries
    <3>3. bytes[j] >= 128
      BY <2>2, <3>1, <3>2
    <3>4. bytes[j] \in Nat
      <4>1. j \in 1 .. n
        BY <1>1
      <4>2. \A x \in Bytes : x \in Nat
        BY DEF Bytes
      <4> QED BY <4>1, <4>2
    <3> QED BY ONLY <3>3, <3>4
  <2>4. Len(bytes) = n
    OBVIOUS
  <2>5. {j \in a + 1 .. Len(bytes) : bytes[j] < 128} = {}
    BY <2>3, <2>4
  <2>6. ContinuationEnd(bytes, a) = n
    BY <2>4, <2>5 DEF ContinuationEnd
  <2>7. PacketEnd(bytes, a) = n
    BY <1>1, <1>5, <2>1, <2>6 DEF PacketEnd
  <2> QED BY <1>5, <2>7
<1>6. CASE ~IsSource(p.header) /\ ~IsLongTimestamp(p.header)
  <2>1. d = 0
    BY <1>2, <1>6 DEF Framed
  <2> QED BY <1>1, <1>3, <2>1
<1> QED BY <1>4, <1>5, <1>6

\* Places of packets one behind the other, up to where the walk stops.
Route(bytes, n, at, w) ==
  /\ at \in [1 .. w + 1 -> Nat] /\ at[1] = 1
  /\ \A k \in 1 .. w : at[k] \in 1 .. n /\ PacketEnd(bytes, at[k]) + 1 = at[k + 1]
                       /\ at[k + 1] \in 1 .. n + 1
  /\ at[w + 1] \in 1 .. n + 1 /\ (at[w + 1] <= n => PacketEnd(bytes, at[w + 1]) > n)

\* The walk finds the packets of a route and no other.
LEMMA WalkFollows ==
  ASSUME NEW n \in Nat, NEW bytes \in [1 .. n -> Bytes], NEW w \in Nat, NEW at, Route(bytes, n, at, w)
  PROVE  PacketStarts(bytes) = [k \in 1 .. w |-> at[k]]
<1>1. bytes \in [1 .. n -> Nat]
  <2>1. \A x \in Bytes : x \in Nat
    BY DEF Bytes
  <2> QED BY <2>1
<1>2. PICK g : /\ PacketStarts(bytes) = g[1] /\ g \in [1 .. n + 1 -> Seq(Nat)]
               /\ \A i \in 1 .. n + 1 :
                    g[i] = IF i > n \/ PacketEnd(bytes, i) > n THEN <<>>
                           ELSE <<i>> \o g[PacketEnd(bytes, i) + 1]
  BY <1>1, WalkExists
<1> DEFINE Rest(d, s) == Len(s) = d /\ \A j \in 1 .. d : s[j] = at[w - d + j]
           G == {d \in 0 .. w : Rest(d, g[at[w + 1 - d]])}
<1>3. 0 \in G
  <2>1. at[w + 1] \in 1 .. n + 1 /\ (at[w + 1] <= n => PacketEnd(bytes, at[w + 1]) > n)
    BY DEF Route
  <2>2. at[w + 1] > n \/ PacketEnd(bytes, at[w + 1]) > n
    BY <2>1
  <2>3. g[at[w + 1]] = <<>>
    BY <1>2, <2>1, <2>2
  <2>4. w + 1 - 0 = w + 1
    OBVIOUS
  <2> QED BY <2>3, <2>4
<1>4. ASSUME NEW d \in 1 .. w, d - 1 \in G PROVE d \in G
  <2> DEFINE k == w + 1 - d
  <2>1. k \in 1 .. w /\ w + 1 - (d - 1) = k + 1
    OBVIOUS
  <2>2. at[k] \in 1 .. n /\ PacketEnd(bytes, at[k]) + 1 = at[k + 1] /\ at[k + 1] \in 1 .. n + 1
    BY <2>1 DEF Route
  <2>3. PacketEnd(bytes, at[k]) \in Nat
    BY <1>1, <2>2, PacketHasEnd
  <2>4. g[at[k]] = <<at[k]>> \o g[at[k + 1]]
    <3>1. ~(at[k] > n) /\ ~(PacketEnd(bytes, at[k]) > n) /\ at[k] \in 1 .. n + 1
      BY <2>2, <2>3
    <3> QED BY <1>2, <2>2, <3>1
  <2>5. g[at[k + 1]] \in Seq(Nat)
    BY <1>2, <2>2
  <2>6. Rest(d - 1, g[at[k + 1]])
    BY <1>4, <2>1
  <2>7. Len(g[at[k]]) = d
    BY <2>4, <2>5, <2>6
  <2>8. ASSUME NEW j \in 1 .. d PROVE g[at[k]][j] = at[w - d + j]
    <3>1. CASE j = 1
      <4>1. w - d + 1 = k
        OBVIOUS
      <4>2. g[at[k]][1] = at[k]
        BY <2>4, <2>5
      <4> QED BY <3>1, <4>1, <4>2
    <3>2. CASE j # 1
      <4>1. j - 1 \in 1 .. d - 1 /\ w - (d - 1) + (j - 1) = w - d + j /\ j = 1 + (j - 1)
        BY <3>2
      <4>2. g[at[k + 1]][j - 1] = at[w - d + j]
        BY <2>6, <4>1
      <4>3. g[at[k]][1 + (j - 1)] = g[at[k + 1]][j - 1]
        <5>1. Len(g[at[k + 1]]) = d - 1 /\ Len(<<at[k]>>) = 1
          BY <2>6
        <5> HIDE DEF k
        <5> QED BY <2>4, <2>5, <4>1, <5>1
      <4> QED BY <4>1, <4>2, <4>3
    <3> QED BY <3>1, <3>2
  <2>9. d \in 0 .. w
    OBVIOUS
  <2> QED BY <2>7, <2>8, <2>9
<1> HIDE DEF G
<1>5. w \in G
  <2>1. 0 .. w \subseteq G
    BY <1>3, <1>4, InductUpTo
  <2> QED BY <2>1
<1>6. at[w + 1 - w] = 1 /\ 1 \in 1 .. n + 1
  <2>1. w + 1 - w = 1
    OBVIOUS
  <2> QED BY <2>1 DEF Route
<1>7. Rest(w, g[1])
  BY <1>5, <1>6 DEF G
<1>8. g[1] \in Seq(Nat)
  BY <1>2, <1>6
<1>9. \A j \in 1 .. w : g[1][j] = at[j]
  <2>1. \A j \in 1 .. w : w - w + j = j
    OBVIOUS
  <2> QED BY <1>7, <2>1
<1>10. g[1] = [j \in 1 .. w |-> at[j]]
  BY <1>7, <1>8, <1>9
<1> QED BY <1>2, <1>10

------------------------------------------------------------------------------
(* The packets one behind the other in the bytes of all.                      *)

\* The places of the pieces do not depend on how many come behind them.
LEMMA SamePlaces ==
  ASSUME NEW S, NEW n \in Nat, NEW seqs, NEW at, NEW all, NEW m \in 0 .. n, NEW first, NEW at2,
         NEW all2, Laid(S, seqs, n, at, all), Laid(S, first, m, at2, all2),
         \A k \in 1 .. m : first[k] = seqs[k]
  PROVE  at2[m + 1] = at[m + 1]
<1>0. m \in Nat
  OBVIOUS
<1> DEFINE G == {i \in 0 .. m : at2[i + 1] = at[i + 1]}
<1>1. 0 \in G
  BY DEF Laid
<1>2. ASSUME NEW i \in 1 .. m, i - 1 \in G PROVE i \in G
  <2>1. i \in 1 .. n /\ (i - 1) + 1 = i
    OBVIOUS
  <2>2. at[i + 1] = at[i] + Len(seqs[i])
    BY <2>1 DEF Laid
  <2>3. at2[i + 1] = at2[i] + Len(first[i])
    BY DEF Laid
  <2>4. first[i] = seqs[i]
    OBVIOUS
  <2>5. at2[i] = at[i]
    BY <1>2, <2>1
  <2> QED BY <2>2, <2>3, <2>4, <2>5
<1>3. 0 .. m \subseteq G
  <2> HIDE DEF G
  <2> QED BY <1>0, <1>1, <1>2, InductUpTo
<1> QED BY <1>0, <1>3

\* The bytes of each packet.
Pieces(sent) == [k \in DOMAIN sent |-> <<sent[k].header>> \o sent[k].payload]

\* Of how many bytes the first packets are.
LEMMA LengthUpTo ==
  ASSUME NEW P, \A p \in P : Framed(p), NEW sent \in Seq(P), NEW at,
         Laid(Bytes, Pieces(sent), Len(sent), at, BytesOf(sent)), NEW k \in 1 .. Len(sent)
  PROVE  Len(BytesOf(SubSeq(sent, 1, k))) = at[k + 1] - 1
<1> DEFINE n == Len(sent)
           seqs == Pieces(sent)
           first == [j \in 1 .. k |-> seqs[j]]
<1>0. n \in Nat /\ k \in Nat /\ k \in 0 .. n /\ DOMAIN sent = 1 .. n
  OBVIOUS
<1>1. seqs \in [1 .. n -> Seq(Bytes)]
  <2>1. ASSUME NEW j \in 1 .. n PROVE <<sent[j].header>> \o sent[j].payload \in Seq(Bytes)
    <3>1. sent[j] \in P
      BY <1>0
    <3>2. sent[j].header \in Bytes /\ sent[j].payload \in Seq(Bytes)
      BY <3>1 DEF Framed
    <3>3. <<sent[j].header>> \in Seq(Bytes)
      BY <3>2
    <3> QED BY <3>2, <3>3
  <2> QED BY <1>0, <2>1 DEF Pieces
<1>2. first \in [1 .. k -> Seq(Bytes)]
  BY <1>0, <1>1
<1>3. SubSeq(sent, 1, k) = [j \in 1 .. k |-> sent[j]]
  <2>1. SubSeq(sent, 1, k) = [j \in 1 .. k |-> sent[1 + j - 1]]
    <3>1. k - 1 + 1 = k
      OBVIOUS
    <3> QED BY <1>0, <3>1
  <2>2. \A j \in 1 .. k : 1 + j - 1 = j
    OBVIOUS
  <2> QED BY <2>1, <2>2
<1>4. BytesOf(SubSeq(sent, 1, k)) = FlattenSeq(first)
  <2>1. [j \in DOMAIN SubSeq(sent, 1, k) |->
           <<SubSeq(sent, 1, k)[j].header>> \o SubSeq(sent, 1, k)[j].payload] = first
    <3>1. DOMAIN SubSeq(sent, 1, k) = 1 .. k
      BY <1>3
    <3>2. ASSUME NEW j \in 1 .. k
          PROVE  <<SubSeq(sent, 1, k)[j].header>> \o SubSeq(sent, 1, k)[j].payload = seqs[j]
      <4>1. SubSeq(sent, 1, k)[j] = sent[j] /\ j \in DOMAIN sent
        BY <1>3
      <4> QED BY <4>1 DEF Pieces
    <3> HIDE DEF seqs
    <3> QED BY <3>1, <3>2
  <2> HIDE DEF first
  <2> QED BY <2>1 DEF BytesOf
<1> HIDE DEF seqs
<1>5. PICK at2 : Laid(Bytes, first, k, at2, FlattenSeq(first))
  <2> HIDE DEF first
  <2> QED BY <1>0, <1>2, FlattenIs
<1>6. at2[k + 1] = at[k + 1]
  <2>1. Laid(Bytes, seqs, n, at, BytesOf(sent))
    BY DEF seqs
  <2> HIDE DEF n
  <2>2. \A j \in 1 .. k : first[j] = seqs[j]
    OBVIOUS
  <2> HIDE DEF first
  <2>3. k \in 0 .. n /\ n \in Nat
    BY <1>0
  <2> QED BY <2>3, <1>1, <1>5, <2>1, <2>2, SamePlaces
<1>7. Len(FlattenSeq(first)) = at2[k + 1] - 1
  BY <1>5 DEF Laid
<1> QED BY <1>4, <1>6, <1>7

\* Where the packets are in the bytes of all.
Placement(sent, at) ==
  /\ at \in [1 .. Len(sent) + 1 -> Nat] /\ at[1] = 1
  /\ \A k \in 1 .. Len(sent) :
       /\ at[k + 1] = at[k] + 1 + Len(sent[k].payload)
       /\ BytesOf(sent)[at[k]] = sent[k].header
       /\ \A j \in 1 .. Len(sent[k].payload) : BytesOf(sent)[at[k] + j] = sent[k].payload[j]
       /\ Len(BytesOf(SubSeq(sent, 1, k))) = at[k + 1] - 1
  /\ BytesOf(sent) \in Seq(Bytes) /\ Len(BytesOf(sent)) = at[Len(sent) + 1] - 1

\* Every packet sent has such a place.
LEMMA PlacementExists ==
  ASSUME NEW P, \A p \in P : Framed(p), NEW sent \in Seq(P)
  PROVE  \E at : Placement(sent, at)
<1> DEFINE n == Len(sent)
           seqs == Pieces(sent)
<1>0. n \in Nat /\ DOMAIN sent = 1 .. n
  OBVIOUS
<1>1. ASSUME NEW j \in 1 .. n
      PROVE  /\ seqs[j] = <<sent[j].header>> \o sent[j].payload /\ seqs[j] \in Seq(Bytes)
             /\ sent[j].header \in Bytes /\ sent[j].payload \in Seq(Bytes)
  <2>1. sent[j] \in P
    BY <1>0
  <2>2. sent[j].header \in Bytes /\ sent[j].payload \in Seq(Bytes)
    BY <2>1 DEF Framed
  <2>3. <<sent[j].header>> \in Seq(Bytes)
    BY <2>2
  <2>4. <<sent[j].header>> \o sent[j].payload \in Seq(Bytes)
    BY <2>2, <2>3
  <2>5. seqs[j] = <<sent[j].header>> \o sent[j].payload
    BY <1>0 DEF Pieces
  <2> QED BY <2>2, <2>4, <2>5
<1>2. seqs \in [1 .. n -> Seq(Bytes)] /\ BytesOf(sent) = FlattenSeq(seqs)
  <2>1. seqs = [j \in 1 .. n |-> seqs[j]]
    BY <1>0 DEF Pieces
  <2>2. BytesOf(sent) = FlattenSeq(seqs)
    BY DEF BytesOf, Pieces
  <2> HIDE DEF seqs
  <2> QED BY <1>1, <2>1, <2>2
<1> HIDE DEF seqs
<1>3. PICK at : Laid(Bytes, seqs, n, at, BytesOf(sent))
  <2>1. PICK at : Laid(Bytes, seqs, n, at, FlattenSeq(seqs))
    BY <1>0, <1>2, FlattenIs
  <2> QED BY <1>2, <2>1
<1>4. /\ at \in [1 .. n + 1 -> Nat] /\ at[1] = 1 /\ BytesOf(sent) \in Seq(Bytes)
      /\ Len(BytesOf(sent)) = at[n + 1] - 1
  BY <1>3 DEF Laid
<1>5. ASSUME NEW k \in 1 .. n
      PROVE  /\ at[k + 1] = at[k] + 1 + Len(sent[k].payload)
             /\ BytesOf(sent)[at[k]] = sent[k].header
             /\ \A j \in 1 .. Len(sent[k].payload) : BytesOf(sent)[at[k] + j] = sent[k].payload[j]
             /\ Len(BytesOf(SubSeq(sent, 1, k))) = at[k + 1] - 1
  <2>0. sent[k].payload \in Seq(Bytes) /\ seqs[k] = <<sent[k].header>> \o sent[k].payload
    BY <1>1
  <2>1. PICK d \in Nat : d = Len(sent[k].payload)
    BY <2>0
  <2>2. at[k] \in Nat
    BY <1>4
  <2>3. Len(seqs[k]) = d + 1 /\ seqs[k][1] = sent[k].header
        /\ \A j \in 1 .. d : seqs[k][j + 1] = sent[k].payload[j]
    BY ONLY <2>0, <2>1
  <2>4. at[k + 1] = at[k] + Len(seqs[k])
    BY <1>3 DEF Laid
  <2>5. \A j \in 1 .. Len(seqs[k]) : BytesOf(sent)[at[k] + j - 1] = seqs[k][j]
    BY <1>3 DEF Laid
  <2>6. at[k + 1] = at[k] + 1 + d
    <3>1. at[k + 1] = at[k] + (d + 1)
      BY ONLY <2>3, <2>4, Zenon
    <3>2. at[k] + (d + 1) = at[k] + 1 + d
      BY ONLY <2>2, d \in Nat
    <3> QED BY ONLY <3>1, <3>2, Zenon
  <2>7. BytesOf(sent)[at[k]] = sent[k].header
    <3>1. 1 \in 1 .. Len(seqs[k]) /\ at[k] + 1 - 1 = at[k]
      BY <2>2, <2>3
    <3> QED BY <2>3, <2>5, <3>1
  <2>8. ASSUME NEW j \in 1 .. d PROVE BytesOf(sent)[at[k] + j] = sent[k].payload[j]
    <3>1. j + 1 \in 1 .. Len(seqs[k]) /\ at[k] + (j + 1) - 1 = at[k] + j
      BY ONLY <2>2, <2>3, d \in Nat, j \in 1 .. d
    <3>2. BytesOf(sent)[at[k] + (j + 1) - 1] = seqs[k][j + 1]
      BY <2>5, <3>1
    <3> QED BY <2>3, <3>1, <3>2
  <2>9. Len(BytesOf(SubSeq(sent, 1, k))) = at[k + 1] - 1
    BY <1>3, LengthUpTo DEF seqs
  <2> QED BY <2>1, <2>6, <2>7, <2>8, <2>9
<1>6. Placement(sent, at)
  BY <1>4, <1>5 DEF Placement
<1> QED BY <1>6

\* The packets come one behind the other.
LEMMA PlacesAscend ==
  ASSUME NEW sent, NEW n \in Nat, Len(sent) = n, NEW at, Placement(sent, at),
         \A k \in 1 .. n : Len(sent[k].payload) \in Nat,
         NEW i \in 1 .. n + 1, NEW j \in 1 .. n + 1, i < j
  PROVE  at[i] < at[j]
<1>1. at \in [1 .. n + 1 -> Nat] /\ \A k \in 1 .. n : at[k + 1] = at[k] + 1 + Len(sent[k].payload)
  BY DEF Placement
<1> DEFINE G == {m \in 0 .. n : i < m + 1 => at[i] < at[m + 1]}
<1>2. 0 \in G
  OBVIOUS
<1>3. ASSUME NEW m \in 1 .. n, m - 1 \in G PROVE m \in G
  <2>1. m \in 0 .. n /\ (m - 1) + 1 = m /\ m + 1 \in 1 .. n + 1 /\ m \in 1 .. n + 1
    OBVIOUS
  <2>2. at[m + 1] = at[m] + 1 + Len(sent[m].payload) /\ Len(sent[m].payload) \in Nat
    BY <1>1
  <2>3. at[m] \in Nat /\ at[m + 1] \in Nat /\ at[i] \in Nat
    BY <1>1, <2>1
  <2>4. at[m] < at[m + 1]
    BY <2>2, <2>3
  <2>5. i < m => at[i] < at[m]
    BY <1>3, <2>1
  <2>6. i < m + 1 => i = m \/ i < m
    OBVIOUS
  <2>7. i < m + 1 => at[i] < at[m + 1]
    BY <2>3, <2>4, <2>5, <2>6
  <2> QED BY <2>1, <2>7
<1>4. 0 .. n \subseteq G
  <2> HIDE DEF G
  <2> QED BY <1>2, <1>3, InductUpTo
<1>5. j - 1 \in 0 .. n /\ (j - 1) + 1 = j
  OBVIOUS
<1> QED BY <1>4, <1>5

------------------------------------------------------------------------------
(* A capture that is cut off: the packets that are there in whole, and the    *)
(* walk that finds them.                                                      *)

\* The first w packets are those that the cut leaves whole.
Arrives(at, n, cut, w) ==
  w \in 0 .. n /\ \A k \in 1 .. n : at[k + 1] - 1 <= cut <=> k <= w

\* Some first packets are left whole, if only none.
LEMMA SomeArrive ==
  ASSUME NEW n \in Nat, NEW at \in [1 .. n + 1 -> Nat], NEW cut \in Nat,
         \A i, j \in 1 .. n + 1 : i < j => at[i] < at[j]
  PROVE  \E w : Arrives(at, n, cut, w)
<1> DEFINE late == {k \in 1 .. n : ~(at[k + 1] - 1 <= cut)}
<1>1. CASE late = {}
  <2>1. \A k \in 1 .. n : at[k + 1] - 1 <= cut
    BY <1>1
  <2>2. n \in 0 .. n /\ \A k \in 1 .. n : k <= n
    OBVIOUS
  <2>3. Arrives(at, n, cut, n)
    BY <2>1, <2>2 DEF Arrives
  <2> QED BY <2>3
<1>2. CASE late # {}
  <2>1. late \in SUBSET Nat
    OBVIOUS
  <2>2. PICK m \in late : \A k \in late : m <= k
    <3> HIDE DEF late
    <3> QED BY <1>2, <2>1, LeastNumber
  <2>3. m \in 1 .. n /\ ~(at[m + 1] - 1 <= cut) /\ m - 1 \in 0 .. n
    BY <2>2
  <2>4. ASSUME NEW k \in 1 .. n PROVE at[k + 1] - 1 <= cut <=> k <= m - 1
    <3>1. CASE k < m
      <4>1. k \notin late
        <5>1. m <= k => FALSE
          BY <2>3, <3>1
        <5> HIDE DEF late
        <5> QED BY <2>2, <5>1
      <4> QED BY <2>3, <3>1, <4>1
    <3>2. CASE k = m
      BY <2>3, <3>2
    <3>3. CASE m < k
      <4>1. m + 1 \in 1 .. n + 1 /\ k + 1 \in 1 .. n + 1 /\ m + 1 < k + 1
        BY <2>3, <3>3
      <4>2. at[m + 1] < at[k + 1] /\ at[m + 1] \in Nat /\ at[k + 1] \in Nat
        BY <4>1
      <4> QED BY <2>3, <3>3, <4>2
    <3> QED BY <2>3, <3>1, <3>2, <3>3
  <2>5. Arrives(at, n, cut, m - 1)
    BY <2>3, <2>4 DEF Arrives
  <2> QED BY <2>5
<1> QED BY <1>1, <1>2

\* What is known of a cut of the bytes of the packets.
CutOff(bytes, sent, cut, at, w) ==
  /\ Placement(sent, at) /\ cut \in Nat /\ bytes \in [1 .. cut -> Bytes]
  /\ \A j \in 1 .. cut : bytes[j] = BytesOf(sent)[j]
  /\ cut <= at[Len(sent) + 1] - 1
  /\ Arrives(at, Len(sent), cut, w)
  /\ \A i, j \in 1 .. Len(sent) + 1 : i < j => at[i] < at[j]
  /\ \A k \in 1 .. Len(sent) : Framed(sent[k])

\* The packets that are there in whole, as StaysAligned says it.
WholePackets(sent, cut) ==
  {k \in DOMAIN sent : Len(BytesOf(SubSeq(sent, 1, k))) <= cut}

\* Every cut has its places and the number of packets that it leaves whole.
LEMMA CutIs ==
  ASSUME NEW P, \A p \in P : Framed(p), NEW sent \in Seq(P), NEW cut \in 0 .. Len(BytesOf(sent))
  PROVE  \E at, w : /\ CutOff(SubSeq(BytesOf(sent), 1, cut), sent, cut, at, w)
                    /\ WholePackets(sent, cut) = 1 .. w
<1>0. PICK n \in Nat : n = Len(sent) /\ DOMAIN sent = 1 .. n
  OBVIOUS
<1>1. PICK at : Placement(sent, at)
  BY PlacementExists
<1>2. \A k \in 1 .. n : Framed(sent[k]) /\ Len(sent[k].payload) \in Nat
  <2>1. ASSUME NEW k \in 1 .. n PROVE Framed(sent[k]) /\ Len(sent[k].payload) \in Nat
    <3>1. sent[k] \in P
      BY <1>0
    <3>2. sent[k].payload \in Seq(Bytes)
      BY <3>1 DEF Framed
    <3> QED BY <3>1, <3>2
  <2> QED BY <2>1
<1>3. ASSUME NEW i \in 1 .. n + 1, NEW j \in 1 .. n + 1, i < j PROVE at[i] < at[j]
  BY <1>0, <1>1, <1>2, <1>3, PlacesAscend
<1>4. at \in [1 .. n + 1 -> Nat] /\ BytesOf(sent) \in Seq(Bytes) /\ Len(BytesOf(sent)) = at[n + 1] - 1
  BY <1>0, <1>1 DEF Placement
<1>5. cut \in Nat /\ cut <= at[n + 1] - 1
  <2>1. Len(BytesOf(sent)) \in Nat
    BY <1>4
  <2> QED BY <1>4, <2>1
<1>6. PICK w : Arrives(at, n, cut, w)
  BY <1>3, <1>4, <1>5, SomeArrive
<1> DEFINE bytes == SubSeq(BytesOf(sent), 1, cut)
<1>7. bytes \in [1 .. cut -> Bytes] /\ \A j \in 1 .. cut : bytes[j] = BytesOf(sent)[j]
  <2>1. cut <= Len(BytesOf(sent)) /\ Len(BytesOf(sent)) \in Nat
    BY <1>4, <1>5
  <2>2. bytes = [j \in 1 .. cut |-> BytesOf(sent)[1 + j - 1]]
    <3>1. cut - 1 + 1 = cut
      BY <1>5
    <3> QED BY <1>4, <1>5, <2>1, <3>1
  <2>3. \A j \in 1 .. cut : 1 + j - 1 = j /\ BytesOf(sent)[j] \in Bytes
    <3>1. \A j \in 1 .. cut : j \in 1 .. Len(BytesOf(sent)) /\ 1 + j - 1 = j
      BY <1>5, <2>1
    <3> QED BY <1>4, <3>1
  <2> HIDE DEF bytes
  <2> QED BY <2>2, <2>3
<1> HIDE DEF bytes
<1>8. CutOff(bytes, sent, cut, at, w)
  BY <1>0, <1>1, <1>2, <1>3, <1>5, <1>6, <1>7 DEF CutOff
<1>9. WholePackets(sent, cut) = 1 .. w
  <2>1. \A k \in 1 .. n : Len(BytesOf(SubSeq(sent, 1, k))) = at[k + 1] - 1
    BY <1>0, <1>1 DEF Placement
  <2>2. w \in 0 .. n /\ \A k \in 1 .. n : at[k + 1] - 1 <= cut <=> k <= w
    BY <1>6 DEF Arrives
  <2>3. WholePackets(sent, cut) = {k \in 1 .. n : k <= w}
    BY <1>0, <2>1, <2>2 DEF WholePackets
  <2>4. {k \in 1 .. n : k <= w} = 1 .. w
    BY <2>2
  <2> QED BY <2>3, <2>4
<1> QED BY <1>8, <1>9 DEF bytes

\* The walk finds the packets that are there in whole, and after them at most a cut time stamp.
Finds(bytes, n, sent, w) ==
  /\ PacketStarts(bytes) \in Seq(Nat) /\ Len(PacketStarts(bytes)) \in {w, w + 1}
  /\ \A k \in DOMAIN PacketStarts(bytes) : PacketStarts(bytes)[k] \in 1 .. n
  /\ \A i, j \in DOMAIN PacketStarts(bytes) : i < j => PacketStarts(bytes)[i] < PacketStarts(bytes)[j]
  /\ \A k \in 1 .. w : /\ bytes[PacketStarts(bytes)[k]] = sent[k].header
                       /\ Payload(bytes, PacketStarts(bytes)[k]) = sent[k].payload
  /\ Len(PacketStarts(bytes)) = w + 1 => IsLongTimestamp(bytes[PacketStarts(bytes)[w + 1]])

\* A packet that begins before the cut is there as far as the cut.
LEMMA CutCarries ==
  ASSUME NEW bytes, NEW sent, NEW cut, NEW at, NEW w, CutOff(bytes, sent, cut, at, w),
         NEW n \in Nat, n = Len(sent), NEW k \in 1 .. n, at[k] <= cut
  PROVE  /\ Carries(bytes, cut, at[k], sent[k]) /\ at[k] \in 1 .. cut
         /\ at[k + 1] = at[k] + 1 + Len(sent[k].payload) /\ Len(sent[k].payload) \in Nat
<1>1. at \in [1 .. n + 1 -> Nat] /\ at[1] = 1 /\ cut \in Nat
  BY DEF CutOff, Placement
<1>2. at[k] \in 1 .. cut
  <2>1. k # 1 => at[1] < at[k]
    <3>1. 1 \in 1 .. n + 1 /\ k \in 1 .. n + 1 /\ (k # 1 => 1 < k)
      OBVIOUS
    <3> QED BY <3>1 DEF CutOff
  <2>2. at[k] \in Nat
    BY <1>1
  <2> QED BY <1>1, <2>1, <2>2
<1>3. /\ at[k + 1] = at[k] + 1 + Len(sent[k].payload)
      /\ BytesOf(sent)[at[k]] = sent[k].header
      /\ \A j \in 1 .. Len(sent[k].payload) : BytesOf(sent)[at[k] + j] = sent[k].payload[j]
  BY DEF CutOff, Placement
<1>4. \A j \in 1 .. cut : bytes[j] = BytesOf(sent)[j]
  BY DEF CutOff
<1>5. PICK d \in Nat : d = Len(sent[k].payload)
  <2>1. sent[k].payload \in Seq(Bytes)
    BY DEF CutOff, Framed
  <2> QED BY <2>1
<1>6. ASSUME NEW j \in 1 .. d, at[k] + j <= cut PROVE bytes[at[k] + j] = sent[k].payload[j]
  <2>1. at[k] + j \in 1 .. cut
    BY <1>1, <1>2, <1>6
  <2> QED BY <1>3, <1>4, <1>5, <2>1
<1>7. Carries(bytes, cut, at[k], sent[k])
  BY <1>2, <1>3, <1>4, <1>5, <1>6 DEF Carries
<1> QED BY <1>2, <1>3, <1>5, <1>7

\* The walk finds exactly the packets that the cut leaves whole.
LEMMA WalkFindsPackets ==
  ASSUME NEW bytes, NEW sent, NEW cut, NEW at, NEW w, CutOff(bytes, sent, cut, at, w),
         NEW n \in Nat, n = Len(sent)
  PROVE  Finds(bytes, cut, sent, w)
<1>1. /\ at \in [1 .. n + 1 -> Nat] /\ at[1] = 1 /\ cut \in Nat /\ bytes \in [1 .. cut -> Bytes]
      /\ cut <= at[n + 1] - 1 /\ w \in 0 .. n /\ w \in Nat
      /\ \A k \in 1 .. n : at[k + 1] - 1 <= cut <=> k <= w
  BY DEF CutOff, Placement, Arrives
<1>0. cut \in Nat /\ bytes \in [1 .. cut -> Bytes] /\ w \in Nat
  BY <1>1
<1>2. ASSUME NEW i \in 1 .. n + 1, NEW j \in 1 .. n + 1, i < j PROVE at[i] < at[j]
  BY <1>2 DEF CutOff
<1>3. at[w + 1] \in 1 .. cut + 1
  <2>1. w + 1 \in 1 .. n + 1 /\ 1 \in 1 .. n + 1
    BY <1>1
  <2>2. at[w + 1] \in Nat
    BY <1>1, <2>1
  <2>3. 1 <= at[w + 1]
    <3>1. w # 0 => 1 < w + 1
      BY <1>1
    <3>2. w # 0 => at[1] < at[w + 1]
      BY <1>2, <2>1, <3>1
    <3> QED BY <1>1, <2>2, <3>2
  <2>4. at[w + 1] <= cut + 1
    <3>1. w # 0 => w \in 1 .. n /\ w <= w
      BY <1>1
    <3>2. w # 0 => at[w + 1] - 1 <= cut
      BY <1>1, <3>1
    <3> QED BY <1>1, <2>2, <3>2
  <2> QED BY <1>1, <2>2, <2>3, <2>4
<1>4. ASSUME NEW k \in 1 .. w
      PROVE  /\ at[k] \in 1 .. cut /\ PacketEnd(bytes, at[k]) + 1 = at[k + 1] /\ at[k + 1] \in 1 .. cut + 1
             /\ bytes[at[k]] = sent[k].header /\ Payload(bytes, at[k]) = sent[k].payload
  <2>1. k \in 1 .. n /\ k \in 1 .. n + 1 /\ k + 1 \in 1 .. n + 1 /\ k < k + 1
    BY <1>1
  <2>2. at[k] \in Nat /\ at[k + 1] \in Nat /\ at[k] < at[k + 1] /\ at[k + 1] - 1 <= cut
    BY <1>1, <1>2, <2>1
  <2>3. at[k] <= cut
    BY <1>1, <2>2
  <2>4. /\ Carries(bytes, cut, at[k], sent[k]) /\ at[k] \in 1 .. cut
        /\ at[k + 1] = at[k] + 1 + Len(sent[k].payload) /\ Len(sent[k].payload) \in Nat
    BY <2>1, <2>3, CutCarries
  <2>5. at[k] + Len(sent[k].payload) <= cut
    BY <1>1, <2>2, <2>4
  <2>6. Framed(sent[k])
    BY <2>1 DEF CutOff
  <2>7. PacketEnd(bytes, at[k]) = at[k] + Len(sent[k].payload) /\ Payload(bytes, at[k]) = sent[k].payload
    BY ONLY <1>0, <2>4, <2>5, <2>6, WholePacket
  <2>8. bytes[at[k]] = sent[k].header
    BY <2>4 DEF Carries
  <2>9. PacketEnd(bytes, at[k]) + 1 = at[k + 1]
    BY <2>2, <2>4, <2>7
  <2>10. at[k + 1] \in 1 .. cut + 1
    BY <1>1, <2>2
  <2> QED BY <2>4, <2>7, <2>8, <2>9, <2>10
<1>5. CASE ~(at[w + 1] <= cut) \/ PacketEnd(bytes, at[w + 1]) > cut
  <2> DEFINE to == [k \in 1 .. w + 1 |-> at[k]]
  <2>1. to \in [1 .. w + 1 -> Nat] /\ \A k \in 1 .. w : to[k] = at[k] /\ to[k + 1] = at[k + 1]
    BY <1>1
  <2>2. to[1] = 1 /\ to[w + 1] = at[w + 1]
    BY <1>1
  <2> HIDE DEF to
  <2>3. Route(bytes, cut, to, w)
    BY <1>3, <1>4, <1>5, <2>1, <2>2 DEF Route
  <2>4. PacketStarts(bytes) = [k \in 1 .. w |-> to[k]]
    BY ONLY <1>0, <2>3, WalkFollows
  <2>5. PacketStarts(bytes) = [k \in 1 .. w |-> at[k]]
    BY <2>1, <2>4
  <2> DEFINE st == [k \in 1 .. w |-> at[k]]
  <2>6. st \in Seq(Nat) /\ Len(st) = w /\ DOMAIN st = 1 .. w /\ \A k \in 1 .. w : st[k] = at[k]
    BY <1>1
  <2>7. \A k \in 1 .. w : k \in 1 .. n + 1
    BY <1>1
  <2> HIDE DEF st
  <2>8. \A k \in 1 .. w : st[k] \in 1 .. cut
    BY <1>4, <2>6
  <2>9. \A i, j \in 1 .. w : i < j => st[i] < st[j]
    BY <1>2, <2>6, <2>7
  <2>10. \A k \in 1 .. w : bytes[st[k]] = sent[k].header /\ Payload(bytes, st[k]) = sent[k].payload
    BY <1>4, <2>6
  <2>11. Len(st) # w + 1
    BY <1>1, <2>6
  <2>12. PacketStarts(bytes) = st
    BY <2>5 DEF st
  <2> QED BY <2>6, <2>8, <2>9, <2>10, <2>11, <2>12 DEF Finds
<1>6. CASE at[w + 1] <= cut /\ ~(PacketEnd(bytes, at[w + 1]) > cut)
  <2>1. w + 1 \in 1 .. n
    <3>1. w # n
      <4> SUFFICES ASSUME w = n PROVE FALSE
        OBVIOUS
      <4>1. at[n + 1] \in Nat /\ at[n + 1] <= cut
        BY <1>1, <1>6
      <4> QED BY <1>1, <4>1
    <3> QED BY <1>1, <3>1
  <2>2. /\ Carries(bytes, cut, at[w + 1], sent[w + 1]) /\ at[w + 1] \in 1 .. cut
        /\ at[w + 1 + 1] = at[w + 1] + 1 + Len(sent[w + 1].payload) /\ Len(sent[w + 1].payload) \in Nat
    BY <1>6, <2>1, CutCarries
  <2>3. cut < at[w + 1] + Len(sent[w + 1].payload)
    <3>1. ~(at[w + 1 + 1] - 1 <= cut)
      <4>1. ~(w + 1 <= w)
        BY <1>1
      <4> QED BY <1>1, <2>1, <4>1
    <3>2. at[w + 1] \in Nat
      BY <2>2
    <3> QED BY <1>1, <2>2, <3>1, <3>2
  <2>4. Framed(sent[w + 1])
    BY <2>1 DEF CutOff
  <2>5. IsLongTimestamp(sent[w + 1].header) /\ PacketEnd(bytes, at[w + 1]) = cut
    BY ONLY <1>0, <1>6, <2>2, <2>3, <2>4, CutPacket
  <2>6. bytes[at[w + 1]] = sent[w + 1].header
    BY <2>2 DEF Carries
  <2> DEFINE to == [k \in 1 .. (w + 1) + 1 |-> IF k = (w + 1) + 1 THEN cut + 1 ELSE at[k]]
  <2>7. to \in [1 .. (w + 1) + 1 -> Nat] /\ \A k \in 1 .. w + 1 : to[k] = at[k]
    <3>1. \A k \in 1 .. w + 1 : k \in 1 .. n + 1 /\ k # (w + 1) + 1 /\ k \in 1 .. (w + 1) + 1
      BY ONLY <1>0, <2>1, n \in Nat
    <3>3. \A k \in 1 .. w + 1 : at[k] \in Nat
      BY <1>1, <3>1
    <3>2. \A k \in 1 .. (w + 1) + 1 : k = (w + 1) + 1 \/ k \in 1 .. w + 1
      BY <1>1
    <3> QED BY <1>0, <3>1, <3>2, <3>3
  <2>8. to[(w + 1) + 1] = cut + 1 /\ 1 \in 1 .. w + 1 /\ w + 1 \in Nat
    BY <1>1
  <2> HIDE DEF to
  <2>9. ASSUME NEW k \in 1 .. w + 1
        PROVE  to[k] \in 1 .. cut /\ PacketEnd(bytes, to[k]) + 1 = to[k + 1] /\ to[k + 1] \in 1 .. cut + 1
    <3>1. CASE k = w + 1
      <4>1. cut + 1 \in 1 .. cut + 1
        BY <1>1
      <4> QED BY <2>2, <2>5, <2>7, <2>8, <3>1, <4>1
    <3>2. CASE k # w + 1
      <4>1. k \in 1 .. w /\ k + 1 \in 1 .. w + 1
        BY <1>1, <3>2
      <4> QED BY <1>4, <2>7, <4>1
    <3> QED BY <3>1, <3>2
  <2>10. Route(bytes, cut, to, w + 1)
    <3>1. to[1] = 1 /\ cut + 1 \in 1 .. cut + 1 /\ ~(cut + 1 <= cut)
      BY <1>1, <2>7, <2>8
    <3> QED BY <2>7, <2>8, <2>9, <3>1 DEF Route
  <2>11. PacketStarts(bytes) = [k \in 1 .. w + 1 |-> to[k]]
    BY ONLY <1>0, <2>8, <2>10, WalkFollows
  <2> DEFINE st == [k \in 1 .. w + 1 |-> at[k]]
  <2>12. \A k \in 1 .. w + 1 : at[k] \in Nat /\ k \in 1 .. n + 1
    <3>1. \A k \in 1 .. w + 1 : k \in 1 .. n + 1
      BY ONLY <1>0, <2>1, n \in Nat
    <3> QED BY <1>1, <3>1
  <2>13. st \in Seq(Nat) /\ Len(st) = w + 1 /\ DOMAIN st = 1 .. w + 1 /\ \A k \in 1 .. w + 1 : st[k] = at[k]
    BY <2>8, <2>12
  <2>14. PacketStarts(bytes) = st
    BY <2>7, <2>11
  <2> HIDE DEF st
  <2>15. \A k \in 1 .. w + 1 : st[k] \in 1 .. cut
    BY <2>7, <2>9, <2>13
  <2>16. \A i, j \in 1 .. w + 1 : i < j => st[i] < st[j]
    BY <1>2, <2>12, <2>13
  <2>17. \A k \in 1 .. w : k \in 1 .. w + 1
    BY <1>1
  <2>18. \A k \in 1 .. w : bytes[st[k]] = sent[k].header /\ Payload(bytes, st[k]) = sent[k].payload
    BY <1>4, <2>13, <2>17
  <2>19. IsLongTimestamp(bytes[st[w + 1]])
    <3>1. w + 1 \in 1 .. w + 1
      BY <2>8
    <3> QED BY <2>5, <2>6, <2>13, <3>1
  <2> QED BY <2>13, <2>14, <2>15, <2>16, <2>18, <2>19 DEF Finds
<1> QED BY <1>5, <1>6

------------------------------------------------------------------------------
(* Lists in order are unique; what the headers say; flattening nothing more.  *)

\* A list of the members of a set in order begins like any other such list.
LEMMA ListBegins ==
  ASSUME NEW S \in SUBSET Nat, NEW l, NEW n, Enumerates(l, n, S), NEW g, NEW m, Enumerates(g, m, S)
  PROVE  n <= m /\ \A i \in 1 .. n : l[i] = g[i]
<1>1. n \in Nat /\ m \in Nat /\ l \in [1 .. n -> S] /\ g \in [1 .. m -> S]
  BY DEF Enumerates
<1>2. (\A i \in 1 .. n : l[i] \in S /\ l[i] \in Nat) /\ (\A i \in 1 .. m : g[i] \in S /\ g[i] \in Nat)
  BY <1>1
<1>3. \A i, j \in 1 .. n : i < j => l[i] < l[j]
  BY DEF Enumerates
<1>4. \A i, j \in 1 .. m : i < j => g[i] < g[j]
  BY DEF Enumerates
<1> DEFINE G == {d \in 0 .. n : d <= m /\ \A i \in 1 .. d : l[i] = g[i]}
<1>5. 0 \in G
  BY <1>1
<1>6. ASSUME NEW d \in 1 .. n, d - 1 \in G PROVE d \in G
  <2>1. d - 1 <= m /\ \A i \in 1 .. d - 1 : l[i] = g[i]
    BY <1>6
  <2>2. PICK j \in 1 .. m : g[j] = l[d]
    BY <1>2 DEF Enumerates
  <2>3. ~(j < d)
    <3> SUFFICES ASSUME j < d PROVE FALSE
      OBVIOUS
    <3>1. j \in 1 .. d - 1 /\ j \in 1 .. n
      BY <1>1
    <3>2. l[j] < l[d] /\ l[j] = l[d] /\ l[d] \in Nat
      BY <1>2, <1>3, <2>1, <2>2, <3>1
    <3> QED BY ONLY <3>2
  <2>4. d <= m /\ d \in 1 .. m /\ d \in 0 .. n
    BY <1>1, <2>2, <2>3
  <2>5. PICK i \in 1 .. n : l[i] = g[d]
    BY <1>2, <2>4 DEF Enumerates
  <2>6. ~(i < d)
    <3> SUFFICES ASSUME i < d PROVE FALSE
      OBVIOUS
    <3>1. i \in 1 .. d - 1 /\ i \in 1 .. m
      BY <1>1, <2>4
    <3>2. g[i] < g[d] /\ g[i] = g[d] /\ g[d] \in Nat
      BY <1>2, <1>4, <2>1, <2>4, <2>5, <3>1
    <3> QED BY ONLY <3>2
  <2>7. l[d] <= l[i]
    <3>1. d = i \/ d < i
      BY <1>1, <2>6
    <3>2. l[d] \in Nat /\ l[i] \in Nat /\ (d < i => l[d] < l[i])
      BY <1>2, <1>3
    <3> QED BY ONLY <3>1, <3>2
  <2>8. g[d] <= g[j]
    <3>1. d = j \/ d < j
      BY <1>1, <2>3
    <3>2. g[d] \in Nat /\ g[j] \in Nat /\ (d < j => g[d] < g[j])
      BY <1>2, <1>4, <2>4
    <3> QED BY ONLY <3>1, <3>2
  <2>9. l[d] = g[d]
    <3>1. l[d] \in Nat /\ g[d] \in Nat
      BY <1>2, <2>4
    <3> QED BY ONLY <2>2, <2>5, <2>7, <2>8, <3>1
  <2>10. \A k \in 1 .. d : k = d \/ k \in 1 .. d - 1
    OBVIOUS
  <2> QED BY <2>1, <2>4, <2>9, <2>10
<1> HIDE DEF G
<1>7. n \in G
  <2>1. 0 .. n \subseteq G
    BY <1>1, <1>5, <1>6, InductUpTo
  <2> QED BY <1>1, <2>1
<1> QED BY <1>7 DEF G

\* So there is one such list.
LEMMA OneList ==
  ASSUME NEW S \in SUBSET Nat, NEW l, NEW n, Enumerates(l, n, S), NEW g, NEW m, Enumerates(g, m, S)
  PROVE  n = m /\ l = g
<1>1. n \in Nat /\ m \in Nat /\ l \in [1 .. n -> S] /\ g \in [1 .. m -> S]
  BY DEF Enumerates
<1>2. n <= m /\ m <= n /\ \A i \in 1 .. n : l[i] = g[i]
  BY ListBegins
<1>3. n = m
  BY <1>1, <1>2
<1> QED BY <1>1, <1>2, <1>3

\* Which headers are value writes, and of which comparator.
LEMMA WriteHeaders ==
  ASSUME NEW h \in Bytes
  PROVE  /\ IsValueWrite(h) <=> h \in 140 .. 191 /\ h % 16 > 12
         /\ IsValueWrite(h) => (h \div 16) % 4 = (h - 140) \div 16
<1>1. h \in 0 .. 255
  BY DEF Bytes
<1>2. PICK q \in 0 .. 15, r \in 0 .. 15 : h = 16 * q + r /\ q = h \div 16 /\ r = h % 16
  BY <1>1
<1>3. h % 4 = r % 4 /\ h \div 4 = 4 * q + (r \div 4) /\ h \div 64 = q \div 4 /\ h \div 8 = 2 * q + (r \div 8)
  BY ONLY <1>2, q \in 0 .. 15, r \in 0 .. 15
<1>4. (4 * q + (r \div 4)) % 2 = (r \div 4) % 2 /\ (2 * q + (r \div 8)) % 2 = (r \div 8) % 2
  BY ONLY q \in 0 .. 15, r \in 0 .. 15
<1>5. IsValueWrite(h) <=> r % 4 # 0 /\ (r \div 4) % 2 = 1 /\ q \div 4 = 2 /\ (r \div 8) % 2 = 1
  BY <1>3, <1>4 DEF IsValueWrite, IsSource, IsHardware
<1>6. IsValueWrite(h) <=> r > 12 /\ q \in 8 .. 11
  <2>1. r % 4 # 0 /\ (r \div 4) % 2 = 1 /\ (r \div 8) % 2 = 1 <=> r > 12
    BY ONLY r \in 0 .. 15
  <2>2. q \div 4 = 2 <=> q \in 8 .. 11
    BY ONLY q \in 0 .. 15
  <2> QED BY <1>5, <2>1, <2>2
<1>7. r > 12 => (q \in 8 .. 11 <=> h \in 140 .. 191)
  BY ONLY <1>2, q \in 0 .. 15, r \in 0 .. 15
<1>8. r > 12 /\ q \in 8 .. 11 => q % 4 = (h - 140) \div 16
  BY ONLY <1>2, q \in 0 .. 15, r \in 0 .. 15
<1> QED BY <1>2, <1>6, <1>7, <1>8

\* Which headers are of what the target writes to port 1.
LEMMA StimulusHeaders ==
  ASSUME NEW h \in Bytes
  PROVE  IsStimulus(h, 1) <=> h \in {9, 10, 11}
<1>1. h \in 0 .. 255
  BY DEF Bytes
<1>2. h % 4 # 0 /\ ~((h \div 4) % 2 = 1) /\ h \div 8 = 1 <=> h \in {9, 10, 11}
  BY ONLY <1>1
<1> QED BY <1>2 DEF IsStimulus, IsSource, IsHardware

\* The lists are those of first, and an empty one.
EmptyBehind(seqs, first, S, n) ==
  /\ seqs \in [1 .. n + 1 -> Seq(S)] /\ first \in [1 .. n -> Seq(S)] /\ seqs[n + 1] = <<>>
  /\ \A k \in 1 .. n : first[k] = seqs[k]

\* Nothing more at the end changes nothing.
LEMMA FlattenNothingMore ==
  ASSUME NEW S, NEW n \in Nat, NEW seqs, NEW first, EmptyBehind(seqs, first, S, n)
  PROVE  FlattenSeq(seqs) = FlattenSeq(first)
<1>0. seqs \in [1 .. n + 1 -> Seq(S)] /\ first \in [1 .. n -> Seq(S)] /\ seqs[n + 1] = <<>>
     /\ \A k \in 1 .. n : first[k] = seqs[k]
  BY DEF EmptyBehind
<1>10. PICK m \in Nat : m = n + 1
  OBVIOUS
<1>11. seqs \in [1 .. m -> Seq(S)]
  BY <1>0, <1>10
<1>1. PICK h : Beginnings(h, S, seqs, m)
  BY <1>11, BeginningsExist
<1>2. FlattenSeq(seqs) = h[n + 1]
  <2>1. FlattenSeq(seqs) = h[m]
    BY ONLY <1>1, <1>11, FlattenSeqIs
  <2> QED BY <1>10, <2>1
<1> DEFINE g == [i \in 0 .. n |-> h[i]]
<1>3. h \in [0 .. n + 1 -> Seq(S)] /\ h[0] = <<>> /\ \A i \in 1 .. n + 1 : h[i] = h[i - 1] \o seqs[i]
  BY <1>1, <1>10 DEF Beginnings
<1>4. g \in [0 .. n -> Seq(S)] /\ g[0] = <<>>
  <2>1. \A i \in 0 .. n : h[i] \in Seq(S)
    BY <1>3
  <2> QED BY <1>3, <2>1
<1>5. ASSUME NEW i \in 1 .. n PROVE g[i] = g[i - 1] \o first[i]
  <2>1. i \in 0 .. n /\ i - 1 \in 0 .. n /\ i \in 1 .. n + 1
    OBVIOUS
  <2>2. h[i] = h[i - 1] \o seqs[i] /\ first[i] = seqs[i]
    BY <1>0, <1>3, <2>1
  <2> QED BY <2>1, <2>2
<1> HIDE DEF g
<1>6. Beginnings(g, S, first, n)
  BY <1>4, <1>5 DEF Beginnings
<1>7. FlattenSeq(first) = g[n]
  BY <1>0, <1>6, FlattenSeqIs
<1>8. h[n + 1] = h[n]
  <2>1. n + 1 \in 1 .. n + 1 /\ (n + 1) - 1 = n /\ n \in 0 .. n + 1
    OBVIOUS
  <2>2. h[n + 1] = h[n] \o <<>> /\ h[n] \in Seq(S)
    BY <1>0, <1>3, <2>1
  <2> QED BY <2>2
<1>9. g[n] = h[n]
  BY DEF g
<1> QED BY <1>2, <1>7, <1>8, <1>9

------------------------------------------------------------------------------
(* What the tool makes of the packets found.                                  *)

\* What is known where the walk has found the packets that arrived.
Walkable(bytes, n, arrived, w) ==
  /\ n \in Nat /\ w \in Nat /\ bytes \in [1 .. n -> Bytes]
  /\ Finds(bytes, n, arrived, w) /\ DOMAIN arrived = 1 .. w
  /\ \A k \in 1 .. w : Framed(arrived[k])

\* The places st of the packets that arrived, and of the time stamp that may be cut off behind them.
Begun(bytes, n, arrived, w, st, q) ==
  /\ PacketStarts(bytes) = st /\ q \in {w, w + 1} /\ st \in [1 .. q -> 1 .. n]
  /\ Len(st) = q
  /\ \A i, j \in 1 .. q : i < j => st[i] < st[j]
  /\ \A k \in 1 .. w : /\ k \in 1 .. q /\ bytes[st[k]] = arrived[k].header
                       /\ Payload(bytes, st[k]) = arrived[k].payload
                       /\ Framed(arrived[k])
  /\ \A k \in 1 .. q : /\ bytes[st[k]] \in Bytes
                       /\ k \notin 1 .. w => k = w + 1 /\ IsLongTimestamp(bytes[st[k]])

\* The walk begins every packet that arrived, and at most a cut time stamp.
LEMMA StartsAre ==
  ASSUME NEW bytes, NEW n, NEW arrived, NEW w, Walkable(bytes, n, arrived, w)
  PROVE  \E st, q : Begun(bytes, n, arrived, w, st, q)
<1> DEFINE st == PacketStarts(bytes)
<1>1. PICK q \in Nat : q = Len(st) /\ q \in {w, w + 1} /\ st \in Seq(Nat)
  BY DEF Walkable, Finds
<1>2. DOMAIN st = 1 .. q
  BY <1>1
<1>3. w \in Nat /\ n \in Nat /\ bytes \in [1 .. n -> Bytes]
  BY DEF Walkable
<1> HIDE DEF st
<1>4. \A k \in 1 .. q : st[k] \in 1 .. n
  BY <1>2 DEF Walkable, Finds, st
<1>5. \A i, j \in 1 .. q : i < j => st[i] < st[j]
  BY <1>2 DEF Walkable, Finds, st
<1>6. st \in [1 .. q -> 1 .. n]
  BY <1>1, <1>2, <1>4
<1>7. ASSUME NEW k \in 1 .. w
      PROVE  /\ k \in 1 .. q /\ bytes[st[k]] = arrived[k].header
             /\ Payload(bytes, st[k]) = arrived[k].payload /\ Framed(arrived[k])
  <2>1. k \in 1 .. q
    BY <1>1, <1>3
  <2> QED BY <2>1 DEF Walkable, Finds, st
<1>8. ASSUME NEW k \in 1 .. q
      PROVE  bytes[st[k]] \in Bytes /\ (k \notin 1 .. w => k = w + 1 /\ IsLongTimestamp(bytes[st[k]]))
  <2>1. bytes[st[k]] \in Bytes
    BY <1>3, <1>4
  <2>2. ASSUME k \notin 1 .. w PROVE k = w + 1 /\ IsLongTimestamp(bytes[st[k]])
    <3>1. k = w + 1 /\ q = w + 1
      BY <1>1, <1>3, <2>2
    <3>2. IsLongTimestamp(bytes[st[w + 1]])
      BY <1>1, <3>1 DEF Walkable, Finds, st
    <3> QED BY <3>1, <3>2
  <2> QED BY <2>1, <2>2
<1> QED BY <1>1, <1>5, <1>6, <1>7, <1>8 DEF st, Begun

\* The overflows found are the overflow packets that arrived.
LEMMA OverflowsCounted ==
  ASSUME NEW bytes, NEW n, NEW arrived, NEW w, Walkable(bytes, n, arrived, w)
  PROVE  Overflows(bytes) = Cardinality({k \in DOMAIN arrived : arrived[k].header = 112})
<1>1. PICK st, q : Begun(bytes, n, arrived, w, st, q)
  BY StartsAre
<1>2. DOMAIN st = 1 .. q /\ DOMAIN arrived = 1 .. w
  BY <1>1 DEF Walkable, Begun
<1>3. \A k \in 1 .. q : k \notin 1 .. w => bytes[st[k]] # 112
  BY <1>1, TimestampIsNoSource DEF Begun
<1>4. {k \in DOMAIN st : bytes[st[k]] = 112} = {k \in DOMAIN arrived : arrived[k].header = 112}
  <2>1. ASSUME NEW k \in 1 .. q, bytes[st[k]] = 112 PROVE k \in 1 .. w /\ arrived[k].header = 112
    <3>1. k \in 1 .. w
      BY <1>3, <2>1
    <3> QED BY <1>1, <2>1, <3>1 DEF Begun
  <2>2. ASSUME NEW k \in 1 .. w, arrived[k].header = 112 PROVE k \in 1 .. q /\ bytes[st[k]] = 112
    BY <1>1, <2>2 DEF Begun
  <2> QED BY <1>2, <2>1, <2>2
<1> QED BY <1>1, <1>4 DEF Overflows, Begun

\* The stimulus found is what was written to port 1.
LEMMA StimulusExtracted ==
  ASSUME NEW bytes, NEW n, NEW arrived, NEW w, Walkable(bytes, n, arrived, w)
  PROVE  ExtractItmStimulus(bytes, 1) =
           FlattenSeq([k \in DOMAIN arrived |->
             IF arrived[k].header \in {9, 10, 11} THEN arrived[k].payload ELSE <<>>])
<1>1. PICK st, q : Begun(bytes, n, arrived, w, st, q)
  BY StartsAre
<1>2. DOMAIN st = 1 .. q /\ DOMAIN arrived = 1 .. w /\ w \in Nat
  BY <1>1 DEF Walkable, Begun
<1> DEFINE found(k) == IF IsStimulus(bytes[st[k]], 1) THEN Payload(bytes, st[k]) ELSE <<>>
           kept(k) == IF arrived[k].header \in {9, 10, 11} THEN arrived[k].payload ELSE <<>>
           F == [k \in 1 .. q |-> found(k)]
           K == [k \in 1 .. w |-> kept(k)]
<1>3. ExtractItmStimulus(bytes, 1) = FlattenSeq(F)
  BY <1>1, <1>2 DEF ExtractItmStimulus, Begun
<1>4. ASSUME NEW k \in 1 .. w PROVE found(k) = kept(k) /\ kept(k) \in Seq(Bytes)
  <2>1. bytes[st[k]] = arrived[k].header /\ Payload(bytes, st[k]) = arrived[k].payload /\ bytes[st[k]] \in Bytes
    BY <1>1 DEF Begun
  <2>2. IsStimulus(bytes[st[k]], 1) <=> arrived[k].header \in {9, 10, 11}
    BY <2>1, StimulusHeaders
  <2>3. arrived[k].payload \in Seq(Bytes) /\ <<>> \in Seq(Bytes)
    BY <1>1 DEF Framed, Begun
  <2>4. found(k) = kept(k)
    BY <2>1, <2>2
  <2>5. kept(k) \in Seq(Bytes)
    BY <2>3
  <2> QED BY <2>4, <2>5
<1>5. ASSUME NEW k \in 1 .. q, k \notin 1 .. w PROVE found(k) = <<>>
  <2>1. ~IsStimulus(bytes[st[k]], 1)
    BY <1>1, <1>5, TimestampIsNoSource DEF Begun
  <2> QED BY <2>1
<1> HIDE DEF found, kept
<1>6. K \in [1 .. w -> Seq(Bytes)] /\ \A k \in 1 .. w : K[k] = kept(k)
  BY <1>4
<1>7. \A k \in 1 .. q : F[k] = found(k)
  OBVIOUS
<1>8. K = [k \in DOMAIN arrived |->
             IF arrived[k].header \in {9, 10, 11} THEN arrived[k].payload ELSE <<>>]
  BY <1>2, Zenon DEF kept
<1>9. CASE q = w
  <2>1. F = K
    BY <1>4, <1>9
  <2> HIDE DEF F, K
  <2> QED BY <1>3, <1>8, <2>1, Zenon
<1>10. CASE q = w + 1
  <2>1. \A k \in 1 .. q : found(k) \in Seq(Bytes)
    <3>1. <<>> \in Seq(Bytes)
      OBVIOUS
    <3> QED BY <1>4, <1>5, <3>1
  <2>2. F \in [1 .. w + 1 -> Seq(Bytes)]
    BY <1>10, <2>1
  <2>3. w + 1 \in 1 .. q /\ w + 1 \notin 1 .. w /\ \A k \in 1 .. w : k \in 1 .. q
    BY <1>2, <1>10
  <2>4. F[w + 1] = <<>>
    BY <1>5, <1>7, <2>3
  <2>5. \A k \in 1 .. w : K[k] = F[k]
    BY <1>4, <1>6, <1>7, <2>3
  <2> HIDE DEF F, K
  <2>6. FlattenSeq(F) = FlattenSeq(K)
    <3>1. w \in Nat
      BY <1>2
    <3>2. K \in [1 .. w -> Seq(Bytes)]
      BY <1>6
    <3>3. PICK a, b : a = F /\ b = K
      OBVIOUS
    <3>4. EmptyBehind(a, b, Bytes, w)
      BY ONLY <2>2, <2>4, <2>5, <3>2, <3>3, Zenon DEF EmptyBehind
    <3>5. FlattenSeq(a) = FlattenSeq(b)
      BY ONLY <3>1, <3>4, FlattenNothingMore
    <3> QED BY ONLY <3>3, <3>5, Zenon
  <2> QED BY <1>3, <1>8, <2>6, Zenon
<1> QED BY <1>1, <1>9, <1>10 DEF Begun

\* The value writes among the packets.
WritesIn(arrived) == {k \in DOMAIN arrived : IsWriteOf(arrived[k])}

\* The writes found are the writes that arrived, in the order in which they were sent.
LEMMA WritesParsed ==
  ASSUME NEW bytes, NEW n, NEW arrived, NEW w, Walkable(bytes, n, arrived, w),
         NEW events, events = ParseDwtDataValues(bytes, [i \in DOMAIN bytes |-> i]),
         NEW writes, writes = InOrder(WritesIn(arrived))
  PROVE  /\ [k \in DOMAIN events |-> events[k].value]
              = [k \in DOMAIN writes |-> Word(arrived[writes[k]].payload)]
         /\ \A k \in DOMAIN events :
              events[k].comparator = (arrived[writes[k]].header - 140) \div 16
<1>1. PICK st, q : Begun(bytes, n, arrived, w, st, q)
  BY StartsAre
<1>2. DOMAIN st = 1 .. q /\ DOMAIN arrived = 1 .. w /\ w \in Nat /\ n \in Nat /\ q \in Nat
  BY <1>1 DEF Walkable, Begun
<1> DEFINE A == WritesIn(arrived)
           S == {i \in ToSet(st) : IsValueWrite(bytes[i])}
           m == Cardinality(A)
           l == [t \in 1 .. m |-> st[writes[t]]]
<1>3. ASSUME NEW k \in 1 .. q PROVE IsValueWrite(bytes[st[k]]) <=> k \in A
  <2>1. CASE k \in 1 .. w
    <3>1. bytes[st[k]] = arrived[k].header /\ bytes[st[k]] \in Bytes
      BY <1>1, <2>1 DEF Begun
    <3>2. IsValueWrite(bytes[st[k]]) <=> IsWriteOf(arrived[k])
      BY <3>1, WriteHeaders DEF IsWriteOf
    <3> QED BY <1>2, <2>1, <3>2 DEF WritesIn
  <2>2. CASE k \notin 1 .. w
    <3>1. ~IsValueWrite(bytes[st[k]])
      BY <1>1, <2>2, TimestampIsNoSource DEF Begun
    <3> QED BY <1>2, <2>2, <3>1 DEF WritesIn
  <2> QED BY <2>1, <2>2
<1>4. A \subseteq 1 .. w /\ A \subseteq 1 .. q /\ IsFiniteSet(A) /\ A \in SUBSET Nat
  <2>1. A \subseteq 1 .. w
    BY <1>2 DEF WritesIn
  <2>2. A \subseteq 1 .. q
    BY <1>1, <2>1 DEF Begun
  <2>3. IsFiniteSet(1 .. w)
    BY <1>2, FS_Interval
  <2> HIDE DEF A
  <2>4. IsFiniteSet(A)
    BY <2>1, <2>3, FS_Subset
  <2>5. \A k \in 1 .. w : k \in Nat
    BY <1>2
  <2> QED BY <2>1, <2>2, <2>4, <2>5
<1>5. Enumerates(writes, m, A)
  BY <1>4, InOrderIs
<1>6. Enumerates(st, q, {st[k] : k \in 1 .. q})
  <2> DEFINE X == {st[k] : k \in 1 .. q}
  <2>1. st \in [1 .. q -> X]
    BY <1>1, <1>2 DEF Begun
  <2>2. \A x \in X : \E i \in 1 .. q : st[i] = x
    OBVIOUS
  <2> HIDE DEF X
  <2>3. Enumerates(st, q, X)
    BY <1>1, <1>2, <2>1, <2>2 DEF Enumerates, Begun
  <2> QED BY <2>3 DEF X
<1>7. S = {st[k] : k \in A}
  <2>1. ToSet(st) = {st[k] : k \in 1 .. q}
    BY <1>2 DEF ToSet
  <2>2. ASSUME NEW i \in S PROVE \E k \in A : i = st[k]
    <3>1. PICK k \in 1 .. q : i = st[k]
      BY <2>1
    <3>2. k \in A
      BY <1>3, <3>1
    <3> QED BY <3>1, <3>2
  <2>3. ASSUME NEW k \in A PROVE st[k] \in S
    <3>1. k \in 1 .. q
      BY <1>4
    <3> HIDE DEF A
    <3>2. IsValueWrite(bytes[st[k]])
      BY <1>3, <3>1
    <3> QED BY <2>1, <3>1, <3>2
  <2> HIDE DEF S, A
  <2> QED BY <2>2, <2>3
<1>8. Enumerates(l, m, {st[k] : k \in A})
  <2>1. \A k \in 1 .. q : st[k] \in 1 .. n
    BY <1>1 DEF Begun
  <2>2. {st[k] : k \in 1 .. q} \in SUBSET Nat
    BY <2>1
  <2> HIDE DEF A, m
  <2> QED BY <1>4, <1>5, <1>6, <2>2, ListOfList
<1>9. S \in SUBSET Nat /\ IsFiniteSet(S)
  <2>1. \A k \in A : st[k] \in 1 .. n
    BY <1>1, <1>4 DEF Begun
  <2>2. S \subseteq 1 .. n
    BY <1>7, <2>1
  <2>3. IsFiniteSet(1 .. n)
    BY <1>2, FS_Interval
  <2> HIDE DEF S
  <2>4. IsFiniteSet(S)
    BY <2>2, <2>3, FS_Subset
  <2>5. \A x \in 1 .. n : x \in Nat
    BY <1>2
  <2> QED BY <2>2, <2>4, <2>5
<1>10. InOrder(S) = l
  <2>1. Enumerates(InOrder(S), Cardinality(S), S)
    <3> HIDE DEF S
    <3> QED BY <1>9, InOrderIs
  <2>2. Enumerates(l, m, S)
    BY <1>7, <1>8
  <2> HIDE DEF S, l, m
  <2> QED BY <1>9, <2>1, <2>2, OneList
<1>11. m \in Nat /\ DOMAIN writes = 1 .. m /\ writes \in [1 .. m -> A]
  BY <1>5 DEF Enumerates
<1>12. events = [k \in DOMAIN InOrder(S) |->
                  [src |-> [i \in DOMAIN bytes |-> i][InOrder(S)[k]],
                   comparator |-> (bytes[InOrder(S)[k]] \div 16) % 4,
                   value |-> Word(Payload(bytes, InOrder(S)[k]))]]
  <2>1. S = {i \in ToSet(PacketStarts(bytes)) : IsValueWrite(bytes[i])}
    BY <1>1 DEF Begun
  <2> HIDE DEF S
  <2> QED BY <2>1, Zenon DEF ParseDwtDataValues
<1> HIDE DEF A, S, m
<1>13. DOMAIN l = 1 .. m /\ \A t \in 1 .. m : l[t] = st[writes[t]]
  OBVIOUS
<1> HIDE DEF l
<1>14. DOMAIN events = 1 .. m /\ \A t \in 1 .. m :
         /\ events[t].comparator = (bytes[l[t]] \div 16) % 4
         /\ events[t].value = Word(Payload(bytes, l[t]))
  <2>1. events = [k \in 1 .. m |->
                   [src |-> [i \in DOMAIN bytes |-> i][l[k]],
                    comparator |-> (bytes[l[k]] \div 16) % 4, value |-> Word(Payload(bytes, l[k]))]]
    BY <1>10, <1>12, <1>13, Zenon
  <2>2. DOMAIN events = 1 .. m
    BY <2>1, Zenon
  <2>3. ASSUME NEW t \in 1 .. m
        PROVE  events[t] = [src |-> [i \in DOMAIN bytes |-> i][l[t]],
                            comparator |-> (bytes[l[t]] \div 16) % 4,
                            value |-> Word(Payload(bytes, l[t]))]
    BY <2>1, Zenon
  <2>4. ASSUME NEW t \in 1 .. m
        PROVE  /\ events[t].comparator = (bytes[l[t]] \div 16) % 4
               /\ events[t].value = Word(Payload(bytes, l[t]))
    <3> DEFINE a == [i \in DOMAIN bytes |-> i][l[t]]
               b == (bytes[l[t]] \div 16) % 4
               c == Word(Payload(bytes, l[t]))
    <3>1. events[t] = [src |-> a, comparator |-> b, value |-> c]
      BY <2>3
    <3> HIDE DEF a, b, c
    <3>2. events[t].comparator = b /\ events[t].value = c
      BY <3>1
    <3> QED BY <3>2 DEF b, c
  <2> QED BY <2>2, <2>4
<1>15. ASSUME NEW t \in 1 .. m
       PROVE  /\ events[t].value = Word(arrived[writes[t]].payload)
              /\ events[t].comparator = (arrived[writes[t]].header - 140) \div 16
  <2>1. writes[t] \in A /\ writes[t] \in 1 .. w /\ writes[t] \in 1 .. q
    BY <1>4, <1>11
  <2>2. /\ bytes[st[writes[t]]] = arrived[writes[t]].header /\ bytes[st[writes[t]]] \in Bytes
        /\ Payload(bytes, st[writes[t]]) = arrived[writes[t]].payload
    BY <1>1, <2>1 DEF Begun
  <2>3. IsValueWrite(bytes[st[writes[t]]])
    BY <1>3, <2>1
  <2>4. (bytes[st[writes[t]]] \div 16) % 4 = (bytes[st[writes[t]]] - 140) \div 16
    BY <2>2, <2>3, WriteHeaders
  <2> QED BY <1>13, <1>14, <2>2, <2>4
<1> QED BY <1>11, <1>14, <1>15

------------------------------------------------------------------------------
(* The question on packets: wherever the cut is, the walk stays aligned.      *)

\* What StaysAligned says of the packets sent and of where they are cut.
Aligned(sent, cut) ==
  LET bytes == SubSeq(BytesOf(sent), 1, cut)
      arrived == SubSeq(sent, 1, Cardinality(WholePackets(sent, cut)))
      writes == InOrder(WritesIn(arrived))
      events == ParseDwtDataValues(bytes, [i \in DOMAIN bytes |-> i])
  IN /\ [k \in DOMAIN events |-> events[k].value]
          = [k \in DOMAIN writes |-> Word(arrived[writes[k]].payload)]
     /\ \A k \in DOMAIN events :
          events[k].comparator = (arrived[writes[k]].header - 140) \div 16
     /\ ExtractItmStimulus(bytes, 1) =
          FlattenSeq([k \in DOMAIN arrived |->
            IF arrived[k].header \in {9, 10, 11} THEN arrived[k].payload ELSE <<>>])
     /\ Overflows(bytes) = Cardinality({k \in DOMAIN arrived : arrived[k].header = 112})

(* Whatever well-formed packets are sent and wherever the capture is cut off, *)
(* the walk finds the packets that are there in whole: the writes with their  *)
(* comparators, what was written to port 1, and the overflows                 *)
(* (nxtrace.cpp:70-95).                                                       *)
THEOREM CutsStayAligned ==
  ASSUME NEW P, \A p \in P : Framed(p), NEW sent \in Seq(P), NEW cut \in 0 .. Len(BytesOf(sent))
  PROVE  Aligned(sent, cut)
<1> DEFINE bytes == SubSeq(BytesOf(sent), 1, cut)
           arrived == SubSeq(sent, 1, Cardinality(WholePackets(sent, cut)))
           writes == InOrder(WritesIn(arrived))
           events == ParseDwtDataValues(bytes, [i \in DOMAIN bytes |-> i])
<1>1. PICK at, w : CutOff(bytes, sent, cut, at, w) /\ WholePackets(sent, cut) = 1 .. w
  BY CutIs
<1>2. PICK n \in Nat : n = Len(sent)
  OBVIOUS
<1>3. w \in 0 .. n /\ w \in Nat
  <2>1. w \in 0 .. n
    BY <1>1, <1>2 DEF CutOff, Arrives
  <2> QED BY <2>1
<1>4. Cardinality(WholePackets(sent, cut)) = w
  <2>1. Cardinality(1 .. w) = w
    <3>1. 1 \in Int /\ w \in Int
      BY <1>3
    <3>2. Cardinality(1 .. w) = IF 1 > w THEN 0 ELSE w - 1 + 1
      BY ONLY <3>1, FS_Interval
    <3> QED BY <1>3, <3>2
  <2> QED BY <1>1, <2>1
<1>5. arrived = [k \in 1 .. w |-> sent[k]]
  <2>1. w <= Len(sent)
    BY <1>2, <1>3
  <2>2. SubSeq(sent, 1, w) = [k \in 1 .. w |-> sent[1 + k - 1]]
    <3>1. w - 1 + 1 = w
      BY <1>3
    <3> QED BY <1>2, <1>3, <2>1, <3>1
  <2>3. \A k \in 1 .. w : 1 + k - 1 = k
    BY <1>3
  <2>4. SubSeq(sent, 1, w) = [k \in 1 .. w |-> sent[k]]
    BY <2>2, <2>3
  <2> QED BY <1>4, <2>4
<1> HIDE DEF bytes, arrived
<1>6. Finds(bytes, cut, sent, w)
  BY <1>1, <1>2, WalkFindsPackets
<1>7. DOMAIN arrived = 1 .. w /\ \A k \in 1 .. w : arrived[k] = sent[k] /\ Framed(sent[k])
  <2>1. \A k \in 1 .. w : k \in 1 .. n
    BY <1>3
  <2> QED BY <1>1, <1>2, <1>5, <2>1 DEF CutOff
<1>8. Finds(bytes, cut, arrived, w)
  BY <1>6, <1>7 DEF Finds
<1>9. Walkable(bytes, cut, arrived, w)
  BY <1>1, <1>3, <1>7, <1>8 DEF Walkable, CutOff
<1>10. /\ [k \in DOMAIN events |-> events[k].value]
            = [k \in DOMAIN writes |-> Word(arrived[writes[k]].payload)]
       /\ \A k \in DOMAIN events :
            events[k].comparator = (arrived[writes[k]].header - 140) \div 16
  BY <1>9, WritesParsed
<1>11. ExtractItmStimulus(bytes, 1) =
         FlattenSeq([k \in DOMAIN arrived |->
           IF arrived[k].header \in {9, 10, 11} THEN arrived[k].payload ELSE <<>>])
  BY <1>9, StimulusExtracted
<1>12. Overflows(bytes) = Cardinality({k \in DOMAIN arrived : arrived[k].header = 112})
  BY <1>9, OverflowsCounted
<1> QED BY <1>10, <1>11, <1>12, Zenon DEF Aligned, bytes, arrived

\* The packets of the questions are well-formed.
LEMMA QuestionsAreFramed == \A p \in MCPackets : Framed(p)
<1>1. ASSUME NEW h \in Bytes, NEW s \in Seq(Bytes), h % 4 # 0, Len(s) = <<1, 2, 4>>[h % 4]
      PROVE  Framed(Packet(h, s))
  <2>1. IsSource(h)
    BY <1>1 DEF IsSource
  <2>2. ~IsLongTimestamp(h)
    BY <2>1, TimestampIsNoSource
  <2> QED BY <1>1, <2>1, <2>2 DEF Framed, Packet, PayloadSize
<1>2. ASSUME NEW h \in Bytes, h % 4 = 0, h < 192
      PROVE  Framed(Packet(h, <<>>))
  <2>1. ~IsSource(h) /\ ~IsLongTimestamp(h)
    <3>1. h \in 0 .. 255
      BY DEF Bytes
    <3> QED BY <1>2, <3>1 DEF IsSource, IsLongTimestamp
  <2> QED BY <2>1 DEF Framed, Packet
<1>3. Framed(Write(0, <<141>>))
  <2>1. Write(0, <<141>>) = Packet(141, <<141>>)
    BY DEF Write
  <2>2. 141 \in Bytes /\ <<141>> \in Seq(Bytes)
    BY DEF Bytes
  <2>3. 141 % 4 # 0 /\ Len(<<141>>) = <<1, 2, 4>>[141 % 4]
    OBVIOUS
  <2>4. Framed(Packet(141, <<141>>))
    BY ONLY <1>1, <2>2, <2>3
  <2> QED BY ONLY <2>1, <2>4, Zenon
<1>4. Framed(Write(3, <<0, 192>>))
  <2>1. Write(3, <<0, 192>>) = Packet(190, <<0, 192>>)
    BY DEF Write
  <2>2. 190 \in Bytes /\ <<0, 192>> \in Seq(Bytes)
    BY DEF Bytes
  <2>3. 190 % 4 # 0 /\ Len(<<0, 192>>) = <<1, 2, 4>>[190 % 4]
    OBVIOUS
  <2>4. Framed(Packet(190, <<0, 192>>))
    BY ONLY <1>1, <2>2, <2>3
  <2> QED BY ONLY <2>1, <2>4, Zenon
<1>5. Framed(Packet(143, <<141, 112, 1, 192>>))
  <2>2. 143 \in Bytes /\ <<141, 112, 1, 192>> \in Seq(Bytes)
    BY DEF Bytes
  <2>3. 143 % 4 # 0 /\ Len(<<141, 112, 1, 192>>) = <<1, 2, 4>>[143 % 4]
    OBVIOUS
  <2> QED BY ONLY <1>1, <2>2, <2>3
<1>6. Framed(Stimulus(1, <<192>>))
  <2>1. Stimulus(1, <<192>>) = Packet(9, <<192>>)
    BY DEF Stimulus
  <2>2. 9 \in Bytes /\ <<192>> \in Seq(Bytes)
    BY DEF Bytes
  <2>3. 9 % 4 # 0 /\ Len(<<192>>) = <<1, 2, 4>>[9 % 4]
    OBVIOUS
  <2>4. Framed(Packet(9, <<192>>))
    BY ONLY <1>1, <2>2, <2>3
  <2> QED BY ONLY <2>1, <2>4, Zenon
<1>7. Framed(Stimulus(17, <<141, 9>>))
  <2>1. Stimulus(17, <<141, 9>>) = Packet(138, <<141, 9>>)
    BY DEF Stimulus
  <2>2. 138 \in Bytes /\ <<141, 9>> \in Seq(Bytes)
    BY DEF Bytes
  <2>3. 138 % 4 # 0 /\ Len(<<141, 9>>) = <<1, 2, 4>>[138 % 4]
    OBVIOUS
  <2>4. Framed(Packet(138, <<141, 9>>))
    BY ONLY <1>1, <2>2, <2>3
  <2> QED BY ONLY <2>1, <2>4, Zenon
<1>8. Framed(Packet(14, <<141, 0>>))
  <2>2. 14 \in Bytes /\ <<141, 0>> \in Seq(Bytes)
    BY DEF Bytes
  <2>3. 14 % 4 # 0 /\ Len(<<141, 0>>) = <<1, 2, 4>>[14 % 4]
    OBVIOUS
  <2> QED BY ONLY <1>1, <2>2, <2>3
<1>9. Framed(Packet(133, <<1>>))
  <2>2. 133 \in Bytes /\ <<1>> \in Seq(Bytes)
    BY DEF Bytes
  <2>3. 133 % 4 # 0 /\ Len(<<1>>) = <<1, 2, 4>>[133 % 4]
    OBVIOUS
  <2> QED BY ONLY <1>1, <2>2, <2>3
<1>10. /\ Framed(Packet(16, <<>>)) /\ Framed(Packet(112, <<>>)) /\ Framed(Packet(0, <<>>))
       /\ Framed(Packet(128, <<>>))
  <2>1. 16 \in Bytes /\ 112 \in Bytes /\ 0 \in Bytes /\ 128 \in Bytes
    BY DEF Bytes
  <2>2. 16 % 4 = 0 /\ 112 % 4 = 0 /\ 0 % 4 = 0 /\ 128 % 4 = 0
    OBVIOUS
  <2> QED BY <1>2, <2>1, <2>2
<1>11. Framed(Packet(192, <<141, 5>>))
  <2>1. 192 \in Bytes /\ 192 % 4 = 0 /\ 192 % 16 = 0 /\ <<141, 5>> \in Seq(Bytes)
    BY DEF Bytes
  <2>2. ~IsSource(192) /\ IsLongTimestamp(192)
    BY <2>1 DEF IsSource, IsLongTimestamp
  <2>3. Len(<<141, 5>>) = 2 /\ <<141, 5>>[2] < 128 /\ \A j \in 1 .. 2 - 1 : <<141, 5>>[j] >= 128
    <3>1. \A j \in 1 .. 2 - 1 : j = 1
      OBVIOUS
    <3> QED BY <3>1
  <2> QED BY <2>1, <2>2, <2>3 DEF Framed, Packet
<1> SUFFICES ASSUME NEW p \in MCPackets PROVE Framed(p)
  OBVIOUS
<1>12. \/ p \in {Write(0, <<141>>), Write(3, <<0, 192>>), Packet(143, <<141, 112, 1, 192>>)}
       \/ p \in {Stimulus(1, <<192>>), Stimulus(17, <<141, 9>>), Packet(14, <<141, 0>>)}
       \/ p \in {Packet(133, <<1>>), Packet(16, <<>>), Packet(112, <<>>)}
       \/ p \in {Packet(0, <<>>), Packet(128, <<>>), Packet(192, <<141, 5>>)}
  BY DEF MCPackets
<1> QED BY <1>3, <1>4, <1>5, <1>6, <1>7, <1>8, <1>9, <1>10, <1>11, <1>12

\* A question on packets has packets, and a cut that is not behind them.
LEMMA PacketQuestions ==
  ASSUME input \in Questions, "packets" \in DOMAIN input
  PROVE  input.packets \in Seq(MCPackets) /\ input.cut \in 0 .. Len(BytesOf(input.packets))
<1> DEFINE P(p) == [packets : {p}, cut : 0 .. Len(BytesOf(p))]
           A == UNION {P(p) : p \in UpTo(MCPackets, MaxPackets)}
           B == [first : 0 .. Counter - 1, steps : UpTo(-1 .. 2, MaxNotes)]
           C == [moves : UpTo([cycles : {0, 1}, time : {0, 2, 5}, stamped : BOOLEAN], MaxSlices)]
<1>1. Questions = A \cup B \cup C
  BY DEF Questions
<1>2. ASSUME input \in B PROVE DOMAIN input = {"first", "steps"}
  BY <1>2
<1>3. ASSUME input \in C PROVE DOMAIN input = {"moves"}
  BY <1>3
<1> HIDE DEF A, B, C
<1>4. input \in A
  BY <1>1, <1>2, <1>3
<1>5. PICK p \in UpTo(MCPackets, MaxPackets) : input \in P(p)
  BY <1>4 DEF A
<1>6. input.packets = p /\ input.cut \in 0 .. Len(BytesOf(p))
  BY <1>5
<1>7. PICK n \in 0 .. MaxPackets : p \in [1 .. n -> MCPackets]
  BY DEF UpTo
<1>8. n \in Nat
  BY QuestionsAssumption
<1>9. p \in Seq(MCPackets)
  BY <1>7, <1>8
<1> QED BY <1>6, <1>9

(* Wherever a capture is cut off, the packets that are there in whole are     *)
(* found, and nothing else is taken for one (nxtrace.cpp:70-95).              *)
THEOREM WalkStaysAligned == DecodeSpec => []StaysAligned
<1>1. Asked => StaysAligned
  <2> SUFFICES ASSUME Asked, Asks("packets") PROVE StaysAligned
    BY DEF StaysAligned
  <2>1. input \in Questions /\ "packets" \in DOMAIN input
    BY DEF Asked, Asks
  <2>2. input.packets \in Seq(MCPackets) /\ input.cut \in 0 .. Len(BytesOf(input.packets))
    BY <2>1, PacketQuestions
  <2>3. Aligned(input.packets, input.cut)
    BY <2>2, QuestionsAreFramed, CutsStayAligned
  <2> QED BY <2>3, Zenon DEF StaysAligned, Aligned, WholePackets, WritesIn
<1> QED BY <1>1, AskedAlways, PTL
=============================================================================
