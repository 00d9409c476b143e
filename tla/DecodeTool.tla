----------------------------- MODULE DecodeTool -----------------------------
(* tools/cortrace_decode.cpp, with the OpenCSD adapter that feeds it, around  *)
(* the call-stack machine of CallStack: the thread schedule is built from the *)
(* switch stream before the ETM stream is decoded, every element is observed  *)
(* for the report, the threads that are due are switched in, the machine gets *)
(* the element; at the end the slices are given a time and a lane and written *)
(* out. The sink's calls are steps of their own, as the machine's are.        *)
EXTENDS CallStack, NxTrace, TimeBase

CONSTANTS
  Captures,     \* what a capture may hold: sequences of Etm, or [comparator, tcb]
  Etm,
  Tables,       \* ns time bases: one entry per ETM byte, or <<>> without --time
  Bases,        \* the time bases asked for
  Generated,    \* elements that the trace library may generate
  TidOf,        \* the thread resolver: value -> tid
  WatchComp,    \* --watch-comp
  IsrTrack,     \* exception -> the Perfetto track of its lane, from 1
  Untagged,     \* kThreadUntagged
  None,
  MaxElements   \* bound: elements in one trace

Switches == [comparator : 0 .. 3, tcb : 0 .. 255]
ASSUME CapturesAssumption ==
  /\ Etm \notin Switches
  /\ \A c \in Captures : c \in Seq({Etm} \cup Switches)
ASSUME TablesAssumption == Tables \subseteq Seq(Nat)
ASSUME GeneratedAssumption ==
  \A g \in Generated : {"type", "number"} \subseteq DOMAIN g /\ g.cc \in Nat

ThreadsTrack == 1000
ThreadBase == 2000

ASSUME BasesAssumption == Bases \subseteq {"hybrid", "cycle", "etm", "time"}
\* track_for_exception gives each exception a track of its own, counted from 1
\* (callstack.cpp:103); there are fewer than 512 of them on this architecture.
ASSUME TracksAssumption ==
  /\ IsrTrack \in [Exceptions -> 1 .. ThreadsTrack - 1]
  /\ \A e1, e2 \in Exceptions : IsrTrack[e1] = IsrTrack[e2] => e1 = e2
\* The threads of the machine are those that the watched pointers resolve to.
ASSUME PointersAssumption ==
  \A c \in Captures : \A k \in DOMAIN c :
    c[k] # Etm /\ c[k].comparator = WatchComp => TidOf[Word(<<c[k].tcb>>)] \in Threads

VARIABLES
  capture,     \* the assembled capture, input
  table,       \* tb
  runs,        \* nx_runs
  nextSwitch,  \* next_switch, from 1
  element,     \* the element in the sink, None between two
  lastByte,    \* last_byte_index_
  cycles,      \* cycle_clock_
  stamp,       \* last_etm_ts_
  out,         \* slices_
  cov,         \* Coverage
  patched,     \* the diagnostics counted so far
  fatal,       \* process() gave up on a byte
  seen         \* history: the elements of the trace

inputs == <<capture, table, runs>>
clocks == <<lastByte, cycles, stamp>>
report == <<cov, patched, seen>>
toolVars == <<inputs, nextSwitch, element, clocks, out, report, fatal>>

------------------------------------------------------------------------------
(* The demux, as far as the tool can see it: the ETM bytes and the switch     *)
(* stream, each byte with its place among all of them. (The bytes of the two  *)
(* streams share one assembled capture: see Deframe.)                         *)
EtmItems == {k \in DOMAIN capture : capture[k] = Etm}
SwitchItems == DOMAIN capture \ EtmItems
EtmSize == Cardinality(EtmItems)
SwitchBytes(item) == <<141 + 16 * item.comparator, item.tcb>>
\* Of the first byte of an item; a switch has two.
Place(k) == k + Cardinality({j \in SwitchItems : j < k})
DwtStream ==
  LET item(n) == InOrder(SwitchItems)[(n + 1) \div 2]
      second(n) == (n + 1) % 2
  IN [n \in 1 .. 2 * Cardinality(SwitchItems) |->
        [byte |-> SwitchBytes(capture[item(n)])[1 + second(n)],
         src |-> Place(item(n)) + second(n)]]

\* build_threads: a switch takes effect at the first ETM byte behind it.
ToEtmIndexRounded(src) == Cardinality({k \in EtmItems : Place(k) < src - 1})
ToEtmIndex(src) == IF EtmItems = {} THEN src - 1
                   ELSE Cardinality({k \in EtmItems : Place(k) < src})
BuildThreads ==
  LET events == ParseDwtDataValues([n \in DOMAIN DwtStream |-> DwtStream[n].byte],
                                   [n \in DOMAIN DwtStream |-> DwtStream[n].src]) IN
  BuildThreadRuns([k \in DOMAIN events |-> [events[k] EXCEPT !.src = ToEtmIndex(@)]],
                  TidOf, WatchComp, EtmSize)

------------------------------------------------------------------------------
(* The adapter: what it makes of an element of the library.                   *)
Classify(itype, subtype) ==
  CASE itype = "BR" /\ subtype = "LINK" -> "DirectCall"
    [] itype = "BR" /\ subtype # "LINK" -> "Direct"
    [] itype = "BR_INDIRECT" /\ subtype = "LINK" -> "IndirectCall"
    [] itype = "BR_INDIRECT" /\ subtype \in {"V7_IMPLIED_RET", "V8_RET", "V8_ERET"} -> "Return"
    [] OTHER -> "None"   \* indirect branches too: neither a call nor a return
BranchOf(g) ==
  IF ~g.exec THEN "other"
  ELSE CASE Classify(g.itype, g.sub) \in {"DirectCall", "IndirectCall"} -> "call"
         [] Classify(g.itype, g.sub) = "Return" -> "return"
         [] OTHER -> "other"
KindOf(type) ==
  CASE type = "INSTR_RANGE" -> "InstrRange"
    [] type = "CYCLE_COUNT" -> "CycleCount"
    [] type = "EXCEPTION" -> "Exception"
    [] type = "EXCEPTION_RET" -> "ExceptionRet"
    [] type = "TRACE_ON" -> "TraceOn"
    [] type = "ADDR_NACC" -> "AddrNacc"
    [] type = "TIMESTAMP" -> "Timestamp"
    [] type = "NO_SYNC" -> "NoSync"
    [] type \in {"EO_TRACE", "PE_CONTEXT", "SYNC_MARKER", "EVENT"} -> "Benign"
    [] OTHER -> "OtherUnknown"
Adapted(g, byte) ==
  [kind   |-> KindOf(g.type), byte |-> byte, number |-> g.number,
   range  |-> IF g.type = "INSTR_RANGE"
              THEN [start |-> g.st, end |-> g.en, branch |-> BranchOf(g)] ELSE NoRange,
   cycles |-> IF g.type \in {"INSTR_RANGE", "CYCLE_COUNT"} THEN g.cc ELSE 0]
\* The ranges and exceptions of the machine are those of the elements.
ASSUME ElementsAssumption ==
  \A g \in Generated :
    /\ g.type = "INSTR_RANGE" => Adapted(g, 0).range \in Ranges
    /\ g.type = "EXCEPTION" => g.number \in Exceptions

\* Coverage::observe.
Blinding == {"AddrNacc", "TraceOn", "NoSync", "Overflow"}
FreshCoverage == [pending |-> FALSE, flowed |-> FALSE, first |-> 0, last |-> 0,
                  blind |-> 0, regions |-> 0, lost |-> 0]
ObservedRange(now) ==
  LET gap == cov.pending /\ now > cov.last IN
  [cov EXCEPT !.pending = FALSE, !.flowed = TRUE, !.last = now,
              !.first = IF cov.flowed THEN @ ELSE now,
              !.blind = IF gap THEN @ + (now - cov.last) ELSE @,
              !.regions = IF gap THEN @ + 1 ELSE @]
Observe(e) ==
  IF e.kind = "InstrRange" THEN
    IF table = <<>> THEN [cov EXCEPT !.flowed = TRUE] ELSE ObservedRange(NsFor(table, e.byte))
  ELSE [cov EXCEPT !.pending = @ \/ e.kind \in Blinding,
                   !.lost = IF e.kind \in {"NoSync", "Overflow"} /\ cov.flowed THEN @ + 1 ELSE @]

------------------------------------------------------------------------------
ToolInit ==
  /\ Init
  /\ capture \in Captures /\ table \in Tables
  /\ runs = BuildThreads
  /\ nextSwitch = 1 /\ element = None /\ lastByte = 0 /\ cycles = 0 /\ stamp = 0
  /\ out = <<>> /\ cov = FreshCoverage /\ patched = {} /\ seen = <<>>
  /\ fatal = FALSE

DecodingOn == element = None
Decoding == element = None /\ ~finished

(* process() or flush(): the library generates an element, for a byte at or   *)
(* behind that of the last one.                                               *)
Generate(g, byte) ==
  /\ Decoding /\ Len(seen) < MaxElements
  /\ seen # <<>> => byte >= seen[Len(seen)].byte
  /\ element' = Adapted(IF g.type = "TIMESTAMP" THEN [g EXCEPT !.number = Len(seen) + 1] ELSE g,
                        byte)
  /\ cov' = Observe(element')
  /\ seen' = Append(seen, element')
  /\ UNCHANGED <<vars, inputs, nextSwitch, clocks, out, patched, fatal>>

Due == element # None /\ nextSwitch <= Len(runs) /\ runs[nextSwitch].begin <= element.byte

\* emit_to: n slices that begin or end on a track.
Emitted(n, begin, track, thread) ==
  [k \in 1 .. n |-> [byte |-> lastByte', begin |-> begin, track |-> track, thread |-> thread,
                     cycle |-> cycles', ts |-> stamp', tick |-> 0]]
Emit(slices2) ==
  out' = out \o [k \in DOMAIN slices2 |-> [slices2[k] EXCEPT !.tick = Len(out) + k - 1]]
CurTrack == IF Len(ctx) = 1 THEN 0 ELSE IsrTrack[Innermost.track]
CurThread == IF Len(ctx) = 1 THEN curThread ELSE Untagged

SwitchIn ==
  /\ Due
  /\ nextSwitch' = nextSwitch + 1
  /\ UNCHANGED clocks
  /\ IF runs[nextSwitch].tid = curThread THEN UNCHANGED <<vars, out>>
     ELSE /\ SwitchThread(runs[nextSwitch].tid)
          /\ Emit(IF curThread = Boot THEN Emitted(Len(ctx[1].stack) - 1, FALSE, 0, Boot)
                  ELSE <<>>)
  /\ UNCHANGED <<inputs, element, report, fatal>>

\* The slices of one range: a stale frame and the callee, what is unwound, a return.
RangeSlices(r) ==
  LET stale == Confirms(r) /\ IsStale(Book, FunctionAt(r.start)) IN
    Emitted(IF stale THEN 1 ELSE 0, FALSE, CurTrack, CurThread)
    \o Emitted(IF Confirms(r) THEN 1 ELSE 0, TRUE, CurTrack, CurThread)
    \o Emitted(Len(AfterCall(r).stack) - Len(AfterRange(r).stack), FALSE, CurTrack, CurThread)

Processed ==
  \/ /\ element.kind = "InstrRange"
     /\ InstrRange(element.range) /\ Emit(RangeSlices(element.range))
  \/ /\ element.kind = "Exception"
     /\ Exception(element.number)
     /\ Emit(Emitted(1, TRUE, IsrTrack[element.number], Untagged))
  \/ /\ element.kind = "ExceptionRet"
     /\ ExceptionRet
     /\ Emit(IF Len(ctx) = 1 THEN <<>>
             ELSE Emitted(Len(Innermost.stack), FALSE, CurTrack, Untagged))
  \/ /\ element.kind \in {"AddrNacc", "TraceOn"}
     /\ Discontinuity /\ UNCHANGED out
  \/ /\ element.kind \in {"CycleCount", "Timestamp", "NoSync", "Benign", "OtherUnknown"}
     /\ noted' = {} /\ UNCHANGED <<core, slices, edge, finished, out>>
Process ==
  /\ element # None /\ ~Due
  /\ lastByte' = element.byte
  /\ cycles' = cycles + element.cycles
  /\ stamp' = IF element.kind = "Timestamp" THEN element.number ELSE stamp
  /\ Processed
  /\ patched' = patched \cup noted'
  /\ element' = None
  /\ UNCHANGED <<inputs, nextSwitch, cov, seen, fatal>>

\* finish(): the contexts, innermost first, then the thread that runs, then the parked ones.
Ends ==
  LET isrs == Reverse(Tail(ctx))
      left == SetToSeq(DOMAIN parked)
  IN FlattenSeq([i \in DOMAIN isrs |->
       Emitted(Len(isrs[i].stack), FALSE, IsrTrack[isrs[i].track], Untagged)])
     \o Emitted(Len(ctx[1].stack) - 1, FALSE, 0, curThread)
     \o FlattenSeq([i \in DOMAIN left |->
          Emitted(Len(parked[left[i]]) - 1, FALSE, 0, left[i])])
\* All the bytes were fed, or process() gave up on one; flush() is done.
EndAll ==
  /\ element = None
  /\ fatal' \in BOOLEAN
  /\ UNCHANGED clocks
  /\ Finish
  /\ Emit(Ends)
  /\ UNCHANGED <<inputs, nextSwitch, element, report>>

(* What main returns, if the outputs can be written: an output that cannot be *)
(* is an error of its own.                                                    *)
BalancedOut == Cardinality({k \in DOMAIN out : out[k].begin}) * 2 = Len(out)
Clean == ~fatal /\ BalancedOut /\ patched = {} /\ cov.blind = 0 /\ cov.regions = 0
ExitCode(written, strict) ==
  IF written /\ (IF strict THEN Clean ELSE BalancedOut /\ ~fatal) THEN 0 ELSE 1

ToolNext ==
  \/ \E g \in Generated, byte \in 0 .. EtmSize : Generate(g, byte)
  \/ SwitchIn \/ Process \/ EndAll

ToolSpec == ToolInit /\ [][ToolNext]_<<vars, toolVars>>

------------------------------------------------------------------------------
(* The Perfetto file: the slices with the time that was asked for, in the     *)
(* lanes of their threads, behind those of the Threads track, whose times are *)
(* those of the last call-stack slice at or before their byte.                *)
Timed(base) ==
  CASE base = "hybrid" -> ApplyHybridTime(out, TRUE)
    [] base = "cycle"  -> ApplyCycleTime(out)
    [] base = "etm"    -> ApplyEtmTimestamp(out)
    [] base = "time"   -> ApplyTimebase(out, table)

NotAfter(p, q) == p.byte < q.byte \/ (p.byte = q.byte /\ p.tick <= q.tick)
TickForByte(placed, byte) ==
  LET upTo == {i \in DOMAIN placed : placed[i].byte <= byte}
      first == CHOOSE i \in DOMAIN placed :
                 \A j \in DOMAIN placed : NotAfter(placed[i], placed[j])
      last == CHOOSE i \in upTo : \A j \in upTo : NotAfter(placed[j], placed[i])
  IN IF placed = <<>> THEN byte ELSE placed[IF upTo = {} THEN first ELSE last].tick
File(base) ==
  LET log == ThreadRunsToSlices(runs, ThreadsTrack)
      placed == ReattributeSlicesToThreads(Timed(base), runs, ThreadBase, Boot)
  IN IF log = <<>> THEN Timed(base)
     ELSE [k \in DOMAIN log |-> [byte |-> log[k].byte, begin |-> log[k].begin,
                                 track |-> log[k].track, thread |-> Untagged, cycle |-> 0, ts |-> 0,
                                 tick |-> TickForByte(placed, log[k].byte)]] \o placed

(* The writer: the tracks that are described, and one packet for each slice.  *)
Uuid(track) == 4096 + track
Descriptors ==
  {Uuid(0)} \cup {Uuid(IsrTrack[seen[k].number]) :
                    k \in {j \in DOMAIN seen : seen[j].kind = "Exception"}}
    \cup IF ThreadRunsToSlices(runs, ThreadsTrack) = <<>> THEN {}
         ELSE {Uuid(LaneOf(runs, ThreadBase, t)) : t \in TidsOf(runs)} \cup {Uuid(ThreadsTrack)}
Packets(file) ==
  [k \in DOMAIN file |->
     [type |-> IF file[k].begin THEN "SLICE_BEGIN" ELSE "SLICE_END",
      uuid |-> Uuid(file[k].track), timestamp |-> file[k].tick, clears |-> k = 1]]

------------------------------------------------------------------------------
ToolTypeOK ==
  /\ nextSwitch \in 1 .. Len(runs) + 1
  /\ {lastByte} \cup {seen[k].byte : k \in DOMAIN seen} \subseteq 0 .. EtmSize
  /\ cov.pending \in BOOLEAN /\ cov.flowed \in BOOLEAN
  /\ {cov.first, cov.last, cov.blind, cov.regions, cov.lost, cycles, stamp} \subseteq Nat
  /\ fatal \in BOOLEAN /\ (finished => element = None)

(* Every element runs in the thread whose switch packet is the last before    *)
(* the element's byte in the capture (cortrace_decode.cpp:581-633). Without a *)
(* byte of ETM there is no such place, and the code takes that of the switch. *)
EtmBefore(k) == Cardinality({j \in EtmItems : j < k})
ThreadAt(byte) ==
  LET switched == {k \in SwitchItems : EtmBefore(k) <= byte /\ capture[k].comparator = WatchComp}
      last == CHOOSE k \in switched : \A j \in switched : j <= k
  IN IF switched = {} THEN Boot ELSE TidOf[Word(<<capture[last].tcb>>)]
ThreadsLineUp ==
  element # None /\ ~Due /\ EtmItems # {} => curThread = ThreadAt(element.byte)

(* In the file every lane is described and balanced and in the order of time, *)
(* whatever became of the trace, and none ends a slice that it has not begun  *)
(* unless the call-stack machine did: see DepthNeverNegative. No slice        *)
(* is on the wrong side of a switch: of an earlier byte and later than the    *)
(* run on the Threads track, or the other way round                           *)
(* (cortrace_decode.cpp:900-954).                                             *)
SidesOf(run, s) == /\ s.byte < run.byte => s.tick <= run.tick
                   /\ s.byte > run.byte => s.tick >= run.tick
Depth(packets, lane, n) ==
  2 * Cardinality({i \in lane : i <= n /\ packets[i].type = "SLICE_BEGIN"})
    - Cardinality({i \in lane : i <= n})
LanesBalance(packets) ==
  \A uuid \in {packets[i].uuid : i \in DOMAIN packets} :
    LET lane == {i \in DOMAIN packets : packets[i].uuid = uuid} IN
    /\ uuid \in Descriptors
    /\ Depth(packets, lane, Len(packets)) = 0
    /\ unbegun = {} => \A n \in lane : Depth(packets, lane, n) >= 0
    /\ \A i, j \in lane : i <= j => packets[i].timestamp <= packets[j].timestamp
FileIsBalanced ==
  finished => \A base \in Bases : LET file == File(base) IN
    /\ LanesBalance(Packets(file))
    /\ \A i, j \in DOMAIN file :
         file[i].track = ThreadsTrack /\ file[i].begin => SidesOf(file[i], file[j])

\* The ranges i and j are next to each other, with a loss in between.
Straddles(i, j, kinds) ==
  /\ i < j /\ seen[i].kind = "InstrRange" /\ seen[j].kind = "InstrRange"
  /\ \E k \in i + 1 .. j - 1 : seen[k].kind \in kinds
  /\ \A k \in i + 1 .. j - 1 : seen[k].kind # "InstrRange"
CleanExit == finished /\ ExitCode(TRUE, TRUE) = 0

(* cortrace_decode.cpp:471-473: "--strict: any nonzero loss/patch metric =>   *)
(* exit non-zero", to prove "no silent loss", and line 1012 prints "CLEAN     *)
(* (100% observable, no silent patches)". The losses are those that the       *)
(* health line of the same output counts (809-816): a NoSync or an overflow   *)
(* behind the first range.                                                    *)
CleanMeansLossless == CleanExit => cov.lost = 0

(* What a CLEAN verdict does show, given a time table: no time is left        *)
(* uncovered between two ranges that a loss separates                         *)
(* (cortrace_decode.cpp:993-999). It says nothing of a loss between two bytes *)
(* of one time, nor without a table. This is proved, not checked.             *)
CleanMeansCovered ==
  CleanExit /\ table # <<>> =>
    \A i, j \in DOMAIN seen :
      Straddles(i, j, Blinding) => NsFor(table, seen[i].byte) >= NsFor(table, seen[j].byte)
=============================================================================
