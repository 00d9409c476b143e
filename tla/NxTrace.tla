------------------------------ MODULE NxTrace ------------------------------
(* src/nxtrace.cpp: the packets of the ITM/DWT stream, the switch events and  *)
(* the notes that travel in them, and the thread runs made of the switches.   *)
(* A byte is a number below 256, and a field of it a quotient or a remainder. *)
(* The order within a packet and the place of every byte are kept; names are  *)
(* left out, and a 32-bit value stays the four bytes that carry it.           *)
EXTENDS Integers, Sequences, SequencesExt, FiniteSets

CONSTANTS
  Counter,   \* values of the target's cycle counter, 2^32 in the code
  Epochs     \* values of the other half of the 64-bit time, 2^32 too

ASSUME CounterAssumption == Counter \in Nat /\ Counter > 1 /\ Counter % 2 = 0
ASSUME EpochsAssumption == Epochs \in Nat \ {0}

------------------------------------------------------------------------------
\* The members of a set of numbers, from the least one on.
InOrder(S) ==
  [n \in 1 .. Cardinality(S) |-> CHOOSE i \in S : Cardinality({j \in S : j < i}) = n - 1]

(* The walk that parse_dwt_data_values and extract_itm_stimulus share. The    *)
(* low two bits of a header give the size of a source packet; a local time    *)
(* stamp of type 1 goes on while bit 7 is set; any other header is a packet   *)
(* of one byte. A source packet that is cut off ends the walk.                *)
IsSource(header) == header % 4 # 0
PayloadSize(header) == <<1, 2, 4>>[header % 4]
IsLongTimestamp(header) == header >= 192 /\ header % 16 = 0
ContinuationEnd(bytes, i) ==
  LET ends == {j \in i + 1 .. Len(bytes) : bytes[j] < 128} IN
  IF ends = {} THEN Len(bytes) ELSE CHOOSE j \in ends : \A k \in ends : j <= k

PacketEndInOneByte(bytes, i) ==
  IF IsSource(bytes[i]) THEN i + PayloadSize(bytes[i]) ELSE i
PacketEnd(bytes, i) ==
  IF IsSource(bytes[i]) THEN i + PayloadSize(bytes[i])
  ELSE IF IsLongTimestamp(bytes[i]) THEN ContinuationEnd(bytes, i)
  ELSE i

PacketStarts(bytes) ==
  LET from[i \in 1 .. Len(bytes) + 1] ==
        IF i > Len(bytes) \/ PacketEnd(bytes, i) > Len(bytes) THEN <<>>
        ELSE <<i>> \o from[PacketEnd(bytes, i) + 1]
  IN from[1]
Payload(bytes, i) == SubSeq(bytes, i + 1, PacketEnd(bytes, i))

IsHardware(header) == (header \div 4) % 2 = 1
IsValueWrite(header) ==
  IsSource(header) /\ IsHardware(header) /\ header \div 64 = 2 /\ (header \div 8) % 2 = 1
IsStimulus(header, port) == IsSource(header) /\ ~IsHardware(header) /\ header \div 8 = port

Word(payload) == [b \in 1 .. 4 |-> IF b <= Len(payload) THEN payload[b] ELSE 0]

ParseDwtDataValues(bytes, src) ==
  LET writes == InOrder({i \in ToSet(PacketStarts(bytes)) : IsValueWrite(bytes[i])}) IN
  [k \in DOMAIN writes |->
     [src |-> src[writes[k]], comparator |-> (bytes[writes[k]] \div 16) % 4,
      value |-> Word(Payload(bytes, writes[k]))]]

ExtractItmStimulus(bytes, port) ==
  FlattenSeq([k \in DOMAIN PacketStarts(bytes) |->
    LET i == PacketStarts(bytes)[k] IN
    IF IsStimulus(bytes[i], port) THEN Payload(bytes, i) ELSE <<>>])
Overflows(bytes) ==
  Cardinality({k \in DOMAIN PacketStarts(bytes) : bytes[PacketStarts(bytes)[k]] = 112})

------------------------------------------------------------------------------
(* unwrap_note_systime: the time of each note is the low half of a 64-bit     *)
(* time, the high half is counted up when the counter seems to have wrapped.  *)
(* The note stream is a sequence of counter values and of bytes, Skipped, at  *)
(* which no note begins.                                                      *)
Skipped == -1
Half == Counter \div 2
UnwrapStart == [epoch |-> 0, haveLast |-> FALSE, last |-> 0, times |-> <<>>]
UnwrappedForgetful(s, cur) ==
  LET wrapped == s.haveLast /\ cur < s.last /\ s.last - cur > Half
      late    == s.haveLast /\ cur > s.last /\ cur - s.last > Half
      epoch   == IF wrapped THEN s.epoch + 1 ELSE s.epoch
      used    == (IF late THEN epoch - 1 ELSE epoch) % Epochs
  IN [epoch |-> epoch, haveLast |-> TRUE, last |-> cur,
      times |-> Append(s.times, used * Counter + cur)]
Unwrapped(s, cur) ==
  LET wrapped == s.haveLast /\ cur < s.last /\ s.last - cur > Half
      late    == s.haveLast /\ cur > s.last /\ cur - s.last > Half
      epoch   == IF wrapped THEN s.epoch + 1 ELSE s.epoch
      used    == (IF late THEN epoch - 1 ELSE epoch) % Epochs
  IN [epoch |-> epoch, haveLast |-> TRUE, last |-> IF late THEN s.last ELSE cur,
      times |-> Append(s.times, used * Counter + cur)]
UnwrapNoteSystime(stream) ==
  LET upTo[i \in 0 .. Len(stream)] ==
        IF i = 0 THEN UnwrapStart
        ELSE IF stream[i] = Skipped THEN upTo[i - 1]
        ELSE Unwrapped(upTo[i - 1], stream[i])
  IN upTo[Len(stream)].times

------------------------------------------------------------------------------
(* Who a task pointer stands for: the map dumped from the target first, then  *)
(* the pid in the ELF image, else some bits of the pointer.                   *)
Folded(tcb) == (tcb \div 8) % 32768
NuttxResolver(map, pids, tcb) ==
  IF tcb \in DOMAIN map THEN map[tcb]
  ELSE IF tcb \in DOMAIN pids THEN pids[tcb]
  ELSE Folded(tcb)
\* The lines of the map file: [tcb, pid], or anything else, which is skipped.
LoadTcbMap(lines) ==
  LET good == {k \in DOMAIN lines : DOMAIN lines[k] = {"tcb", "pid"}} IN
  [t \in {lines[k].tcb : k \in good} |->
     lines[CHOOSE k \in good : lines[k].tcb = t
                               /\ \A j \in good : lines[j].tcb = t => j <= k].pid]

(* build_thread_runs: one run from a switch to the next; writing the pointer  *)
(* that is already there is none.                                             *)
SwitchesOf(events, watched) ==
  LET seen == InOrder({k \in DOMAIN events : events[k].comparator = watched})
      news == InOrder({k \in DOMAIN seen :
                         k = 1 \/ events[seen[k]].value # events[seen[k - 1]].value})
  IN [j \in DOMAIN news |-> events[seen[news[j]]]]
BuildThreadRuns(events, tidOf, watched, streamEnd) ==
  LET sw == SwitchesOf(events, watched) IN
  [k \in DOMAIN sw |->
     [begin |-> sw[k].src, tid |-> tidOf[sw[k].value],
      end |-> IF k < Len(sw) THEN sw[k + 1].src
              ELSE IF streamEnd > sw[k].src THEN streamEnd ELSE sw[k].src]]

\* thread_runs_to_slices: a BEGIN and an END for each run that has a length.
ThreadRunsToSlices(runs, track) ==
  FlattenSeq([k \in DOMAIN runs |->
    IF runs[k].end <= runs[k].begin THEN <<>>
    ELSE << [byte |-> runs[k].begin, begin |-> TRUE, track |-> track],
            [byte |-> runs[k].end, begin |-> FALSE, track |-> track] >>])

(* reattribute_slices_to_threads. A slice of the thread track goes to the     *)
(* lane of the thread that the call-stack machine says it is of, and without  *)
(* one to that of the run its byte is in; what stays is not later than the    *)
(* first switch. The lanes are numbered from base, by first run.              *)
LaneOf(runs, base, tid) ==
  LET first(t) == CHOOSE k \in DOMAIN runs :
                    runs[k].tid = t /\ \A j \in 1 .. k - 1 : runs[j].tid # t
  IN base + Cardinality({runs[j].tid : j \in 1 .. first(tid) - 1})
TidsOf(runs) == {runs[k].tid : k \in DOMAIN runs}
LaneForByte(runs, base, byte) ==
  LET begun == {k \in DOMAIN runs : runs[k].begin <= byte}
      k == Cardinality(begun)
  IN IF begun = {} \/ byte >= runs[k].end THEN 0 ELSE LaneOf(runs, base, runs[k].tid)
ReattributedByByte(s, runs, base, boot) ==
  IF s.track # 0 THEN s ELSE [s EXCEPT !.track = LaneForByte(runs, base, s.byte)]
Reattributed(s, runs, base, boot) ==
  LET lane == IF s.thread \in TidsOf(runs) THEN LaneOf(runs, base, s.thread)
              ELSE IF s.thread = boot THEN 0
              ELSE LaneForByte(runs, base, s.byte)
      stays == lane = 0 /\ runs # <<>> /\ s.byte > runs[1].begin
  IN IF s.track # 0 THEN s
     ELSE [s EXCEPT !.track = lane, !.byte = IF stays THEN runs[1].begin ELSE s.byte]
ReattributeSlicesToThreads(slices, runs, base, boot) ==
  [i \in DOMAIN slices |-> Reattributed(slices[i], runs, base, boot)]
=============================================================================
