------------------------------ MODULE MCDecode ------------------------------
(* The tool on traces of a program of one function, f, with one interrupt.    *)
EXTENDS DecodeTool

CONSTANTS f, PendSV

MCSymbols == [a \in {0} |-> f]
Flow(st, en, itype, sub) ==
  [type |-> "INSTR_RANGE", st |-> st, en |-> en, itype |-> itype, sub |-> sub, exec |-> TRUE,
   cc |-> 1, number |-> 0]
Other(type) ==
  [type |-> type, st |-> 0, en |-> 0, itype |-> "OTHER", sub |-> "NONE", exec |-> FALSE,
   cc |-> 0, number |-> IF type = "EXCEPTION" THEN PendSV ELSE 0]
MCGenerated ==
  {Flow(0, 2, "BR", "LINK"), Flow(1, 2, "BR_INDIRECT", "V7_IMPLIED_RET")}
    \cup {Other(type) : type \in {"EXCEPTION", "EXCEPTION_RET", "TRACE_ON", "NO_SYNC",
                                  "TIMESTAMP"}}
MCRanges == {[start |-> g.st, end |-> g.en, branch |-> BranchOf(g)] : g \in
              {h \in MCGenerated : h.type = "INSTR_RANGE"}}
MCIsrTrack == [e \in Exceptions |-> 1]

\* Two tasks; the pointer 48 is another one of the second. Comparator 1 watches something else.
Put(comparator, tcb) == [comparator |-> comparator, tcb |-> tcb]
MCLines == <<[tcb |-> 48, pid |-> 1], [comment |-> 48], [tcb |-> 48, pid |-> 2]>>
MCTidOf == [w \in {Word(<<t>>) : t \in {16, 32, 48}} |->
              NuttxResolver(LoadTcbMap(MCLines), [t \in {16, 32} |-> t \div 16], w[1])]
MCCaptures ==
  { <<Etm, Put(1, 32), Put(0, 32), Etm, Put(0, 16)>>,
    <<Put(0, 32), Etm, Put(0, 48), Put(0, 16), Put(0, 16), Etm>>,
    <<Put(0, 16), Etm, Put(0, 48), Put(0, 16), Etm>>,
    <<Put(0, 16), Put(0, 32)>> }
MCTables == {<<>>, <<4, 5>>}

------------------------------------------------------------------------------
(* Questions about the functions that are not part of the tool's steps, asked *)
(* of every short input before anything is decoded.                           *)
CONSTANTS MaxPackets, MaxNotes, MaxSlices   \* bounds: packets, notes and slices in a question
ASSUME QuestionsAssumption == MaxPackets \in Nat /\ MaxNotes \in Nat /\ MaxSlices \in Nat
VARIABLE input

Packet(header, payload) == [header |-> header, payload |-> payload]
Write(c, payload) == Packet(140 + 16 * c + Len(payload), payload)   \* of one or two bytes
Stimulus(port, payload) == Packet(8 * port + Len(payload), payload)
MCPackets ==
  { Write(0, <<141>>), Write(3, <<0, 192>>), Packet(143, <<141, 112, 1, 192>>),
    Stimulus(1, <<192>>), Stimulus(17, <<141, 9>>),
    Packet(14, <<141, 0>>), Packet(133, <<1>>),             \* an exception; a read
    Packet(16, <<>>), Packet(112, <<>>), Packet(0, <<>>), Packet(128, <<>>),
    Packet(192, <<141, 5>>) }                               \* goes on for two bytes
BytesOf(packets) == FlattenSeq([k \in DOMAIN packets |-> <<packets[k].header>> \o packets[k].payload])
UpTo(S, n) == UNION {[1 .. k -> S] : k \in 0 .. n}

Questions ==
  (UNION {[packets : {p}, cut : 0 .. Len(BytesOf(p))] : p \in UpTo(MCPackets, MaxPackets)})
    \cup [first : 0 .. Counter - 1, steps : UpTo(-1 .. 2, MaxNotes)]
    \cup [moves : UpTo([cycles : {0, 1}, time : {0, 2, 5}, stamped : BOOLEAN], MaxSlices)]

DecodeInit ==
  /\ ToolInit
  /\ \/ input = None
     \/ input \in Questions /\ table = <<>> /\ capture = CHOOSE c \in Captures : TRUE
DecodeSpec ==
  DecodeInit /\ [][input = None /\ ToolNext /\ UNCHANGED input]_<<vars, toolVars, input>>

Asks(field) == input # None /\ field \in DOMAIN input

(* Wherever the capture is cut off, the walk finds the packets that are there *)
(* in whole, and takes no byte of a payload or of a time stamp for a header,  *)
(* whatever it looks like (nxtrace.cpp:70-95: "so we stay byte-aligned").     *)
IsWriteOf(p) == p.header \in 140 .. 191 /\ p.header % 16 > 12
StaysAligned ==
  Asks("packets") =>
    LET sent == input.packets
        bytes == SubSeq(BytesOf(sent), 1, input.cut)
        whole == {k \in DOMAIN sent : Len(BytesOf(SubSeq(sent, 1, k))) <= input.cut}
        arrived == SubSeq(sent, 1, Cardinality(whole))
        writes == InOrder({k \in DOMAIN arrived : IsWriteOf(arrived[k])})
        events == ParseDwtDataValues(bytes, [i \in DOMAIN bytes |-> i])
    IN /\ [k \in DOMAIN events |-> events[k].value]
            = [k \in DOMAIN writes |-> Word(arrived[writes[k]].payload)]
       /\ \A k \in DOMAIN events :
            events[k].comparator = (arrived[writes[k]].header - 140) \div 16
       /\ ExtractItmStimulus(bytes, 1) =
            FlattenSeq([k \in DOMAIN arrived |->
              IF arrived[k].header \in {9, 10, 11} THEN arrived[k].payload ELSE <<>>])
       /\ Overflows(bytes) = Cardinality({k \in DOMAIN arrived : arrived[k].header = 112})

(* Notes that are less than half a turn of the counter late or apart get      *)
(* their true time, counted from the turn of the first, also those that come  *)
(* late across a wrap; but for notes of before the first one's turn           *)
(* (nxtrace.cpp:158-206).                                                     *)
TrueTimes ==
  LET at[i \in 0 .. Len(input.steps)] ==
        IF i = 0 THEN [now |-> input.first, newest |-> input.first]
        ELSE LET now == at[i - 1].newest + input.steps[i] IN
             [now |-> now, newest |-> Later(now, at[i - 1].newest)]
  IN [i \in 1 .. Len(input.steps) + 1 |-> at[i - 1].now]
NotesPlaced ==
  Asks("steps") =>
    LET got == UnwrapNoteSystime([i \in DOMAIN TrueTimes |-> TrueTimes[i] % Counter]) IN
    \A i \in DOMAIN TrueTimes : TrueTimes[i] >= 0 => got[i] = TrueTimes[i]

(* The hybrid base keeps a slice between its time stamp and the next one, and *)
(* never shows it later than it was if the cycles do not run fast; of a core  *)
(* that does not sleep every time is exact, before the first time stamp too   *)
(* (timebase.hpp:65-77).                                                      *)
Moved ==
  LET at[i \in 0 .. Len(input.moves)] ==
        IF i = 0 THEN [time |-> 9, cycle |-> 0, ts |-> 0, tick |-> 0]
        ELSE LET m == input.moves[i] IN
             [time |-> at[i - 1].time + m.time, cycle |-> at[i - 1].cycle + m.cycles, tick |-> 0,
              ts |-> IF m.stamped THEN at[i - 1].time + m.time ELSE at[i - 1].ts]
  IN [i \in DOMAIN input.moves |-> at[i]]
TimeKeepsOrder ==
  Asks("moves") =>
    LET moves == input.moves
        timed == ApplyHybridTime(Moved, TRUE)
        stamped == {i \in DOMAIN timed : timed[i].ts # 0}
    IN /\ \A i \in DOMAIN timed, j \in stamped :
            /\ i \in stamped => timed[i].ts <= timed[i].tick
            /\ timed[i].ts < timed[j].ts => timed[i].tick <= timed[j].ts
       /\ (\A i \in DOMAIN moves : moves[i].cycles * PerCycle <= moves[i].time) =>
            \A i \in stamped : timed[i].tick <= timed[i].time
       /\ (stamped # {} /\ \A i \in DOMAIN moves : moves[i].cycles * PerCycle = moves[i].time) =>
            \A i \in DOMAIN timed : timed[i].tick = timed[i].time
=============================================================================
