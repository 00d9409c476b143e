# A TLA+ model of cortrace

cortrace turns the ETM/TPIU trace of a Cortex-M target into a call-stack timeline: a capture
program saves the UDP stream of an FPGA probe to disk, a decoder rebuilds one call stack per RTOS
thread and per exception, and a Perfetto UI shows them, either from a file or live through a fake
`traced`. This directory holds the TLA+ modules that model it, the TLC configurations that check
them, and the theorems about them with proofs checked by TLAPS. Paths below are relative to the
repository (`src/`); `PROJECT.json` gives, for every definition, the lines it translates.

## 1. The system

| Component | State | Operations | Talks to | Hard because |
|---|---|---|---|---|
| **Call-stack machine** `src/callstack.cpp` | context stack (thread + open exceptions), parked stacks, announced call, gap count, blind-spot and re-execution flags, slices, edges, metrics | `process(element)`, `switch_thread`, `finish` | fed by the decode sink | any order of elements; lost entries and returns; a switch inside nested exceptions; branches reported twice |
| **Symbol table** `src/symbols.cpp` | sorted entries | `function_at`, `is_function_entry` | machine, reports | addresses between and below symbols |
| **Decode tool** `tools/cortrace_decode.cpp` | coverage, thread runs, cursor of the next switch, slices | build the thread schedule, feed, sink, end of the trace, file, strict verdict | all the decoder's parts | elements and switches come in two streams; a report made of many counters |
| **Deframer** `src/deframe.cpp` | TPIU stream id, half-word phase | nibble/width assembly, phase choice, demultiplexing, multi-phase merge | decode tool | sync words in mid-frame, wrong phase, lost bytes |
| **Thread fusion** `src/nxtrace.cpp` | note time base, TCB map | DWT/ITM parsing, thread runs, time-stamp unwrapping, re-attribution | decode tool | 32-bit time stamps that wrap or step back, torn packets |
| **Time base** `src/timebase.cpp` | byte→ns table | four ways to give slices a time | decode tool | order of slices must survive |
| **OpenCSD adapter** `src/opencsd_decoder.cpp` | byte index, cycle clock | classify and map elements, flush | library, decode tool | what the library may generate when |
| **Perfetto writer** `src/perfetto_writer.cpp` | – | describe tracks, one packet a slice | file | every lane must be described and balanced |
| **cortrace-grab** `tools/cortrace_grab.c` | ring, head/tail, stop flag, counters | receive, push, drain, shut down, exit code | network, disk, run by the pipeline | two threads without a lock; loss, duplicates, wrap of sequence numbers; a disk that fails; ending |
| **Record bridge** `python/cortrace/record_bridge.py` | `packets`, `_capture_done`, `_capture_thread`, lock, sockets | per-connection requests, EnableTracing, ReadBuffers, capture thread | UI (through the relay), pipeline | one thread per client and one per capture, one shared result, two writers on one socket |
| **WebSocket relay** `python/cortrace/wsrelay.py` | two sockets, a send lock | handshake, two pump threads, teardown | browser, bridge | teardown with one side blocked |
| **Capture pipeline** `capture.py`, `runstore.py`, `serve.py`, `tcbmap.py` | files, by tag | space check, set-width, grab, thread map, decode | children, disk, FPGA | every step may fail and leaves what it wrote; tags used again; a width that nobody acknowledges |
| **Arming** `trace_arm.py`, `armctl.py`, `probe.py` | target registers, which outlive a session | halt, program the trace unit, resume | debug probe | what earlier sessions left; an error between halt and resume; a dead connection that looks alive |
| **Trace hand-over** `perfetto_open.py` | one-shot HTTP server | serve, wait for the fetch, stop | browser | stop after the fetch, not before |
| **FPGA control** `fpga/*` | registers, statistics | read/write over UDP, health | probe | lost answers, retries |
| **OS plugins, command line** | – | look-ups, parsing | – | formatting only |

How a trace flows: probe → UDP → *grab* (main thread → ring → writer thread → file) → *decode tool*
(deframer → OpenCSD → elements → sink → *call-stack machine* → slices → time base → thread fusion →
Perfetto writer). Live: browser → *relay* → *bridge* → `capture_cb`, that is the *pipeline* (which
runs grab and decode as child processes) → packets → bridge → relay → browser.

What makes each part correct:

- *Call-stack machine*: the rebuilt stacks are the target's on a lossless trace; on any trace,
  threads and exceptions never get each other's frames, the slices of a lane account for its stack,
  and `finish()` leaves every lane balanced (`docs/00-architecture.md`, tested invariants).
- *Grab*: the bytes accepted reach the file once and in order; loss is never under-reported; exit
  code 0 means complete; it ends.
- *Bridge*: one capture at a time; a client gets the packets of its own capture or a later one,
  never of an earlier one, whole; nobody waits for ever for a capture that has ended.
- *Relay*: the browser gets whole frames and the answers in order, no answer sent before the bridge
  closed is lost, and both threads end when either side goes.
- *Deframer, fusion, time base*: bounded functional correctness against a reference definition,
  order of time stamps.
- *Decode tool*: an element runs in the thread that was switched in before it in the capture; the
  file is balanced and in order in every lane; a verdict of CLEAN is true.
- *Pipeline*: a run that succeeds returns files of one capture, decoded at the width it was taken with,
  whatever earlier runs of the same tag left.
- *Arming*: success means that the target is armed exactly as asked; nothing is set up while it is on.
- *Hand-over*: the server stops after the fetch and not before, and its exit code tells.

The hazards behind these properties are listed with their lines in `PROJECT.json`.

## 2. Modules

| Module | Models | Role |
|---|---|---|
| `CallStack` | the call-stack machine | component |
| `ThreadStacks` | what the machine promises about whose stack changes when | abstract specification of `CallStack` |
| `Firmware` | the traced program: threads, calls, tail calls, recursion, exceptions, aborted branches | environment (outside the repository) |
| `TracedTarget` | `Firmware` driving `CallStack` through the sink of the decode tool | composition |
| `Grab` | both threads of cortrace-grab, the network and the disk | component |
| `ByteFifo` | a bounded byte queue from network to file | abstract specification of `Grab` |
| `RecordBridge` | live mode of the fake `traced` | component |
| `Deframe` | the TPIU demultiplexer, over a formatter and a lossy link | component |
| `PhaseSearch` | byte assembly, A-sync counting, the phase search | functions |
| `NxTrace` | packets of the switch stream, note times, thread runs, re-attribution | functions |
| `TimeBase` | the four ways to time slices | functions |
| `DecodeTool` | the decode tool with its adapter, machine and writer | composition of `CallStack`, `NxTrace`, `TimeBase` |
| `WsRelay` | one connection of the relay, with a browser and a bridge | component |
| `PerfettoOpen` | the one-shot server, its request handler, the page's script, the user | component |
| `CapturePipeline` | runs of `capture.py`, their files, the FPGA's width | component |
| `TraceArm` | arming sessions over a failing probe | component |
| `CallStackProofs`, `TargetProofs` (`TracedTarget`) | the machine, by itself and under a target | theorems and proofs |
| `CaptureProofs` | `Grab`, `CapturePipeline`, `RecordBridge` | theorems and proofs |
| `SessionProofs` | `TraceArm`, `WsRelay`, `PerfettoOpen` | theorems and proofs |
| `DeframeProofs` | `Deframe`, `PhaseSearch` | theorems and proofs |
| `DecodeToolProofs` | `NxTrace`, `TimeBase`, `DecodeTool` but for its file | theorems and proofs |
| `FileProofs` | the file of `DecodeTool` | theorems and proofs |
| `InductionFacts` | induction over numbers and finite sets, recursive functions, sums | lemmas the proofs use |
| `MCCallStack`, `MCTracedTarget`, `MCGrab`, `MCRecordBridge`, `MCDeframe`, `MCDecode` | the instances TLC checks | |
| `MCHost` (`Grab`, `WsRelay`, `PerfettoOpen`), `MCSession` (`CapturePipeline`, `TraceArm`) | components that share no state, checked in one run: a behaviour is one of one of them | |

### 2.1 CallStack

One action per call the decoder can make: `InstrRange`, `Exception`, `ExceptionRet` (two cases),
`Discontinuity` (AddrNacc and TraceOn do the same thing to the state), `SwitchThread`, `Finish`.
`ctx`, `curThread`, `parked`, `gaps`, `pending`, `afterBlind`, `reexec` are the members of the same
names; `InstrRange` composes the helpers in the order `process()` calls them (`RunsAgain`, then
`DoCall`, `Reconcile`, `DoReturn`), each a function of a *book*: the stack that is being rewritten
and its lane's slices. The slice vector is summarised per lane by `open` (BEGINs minus ENDs) and
`unbegun` (lanes on which an END found nothing open); metrics and edges by what the last call added
(`noted`, `edge`). `pending` also records who announced the call and in which gap-free stretch,
history the code does not keep, for the properties.

Left out: ticks, byte offsets and time stamps, `expected_ret_` (only ever logged), logging.
An address is a number, a symbol table a function from entry addresses to names; `FunctionAt` is
the greatest entry at or below the address, as `SymbolTable::function_at` computes by binary search.

### 2.2 Firmware and TracedTarget

`Firmware` is the target, which is not in the repository: every thread and handler runs functions
of four instructions with calls, returns (conditional ones too), loops and tail calls; an exception
comes between two blocks or on the branch that ends one, which is then reported twice, as
`callstack.cpp:196-201` describes; the RTOS switches threads inside an exception. Each step of it
is one call of the machine: the sink of `cortrace_decode.cpp` applies `switch_thread` before the
element it precedes, then `process`.

Two moments look in the trace like others, and the machine takes them for those. An exception may come
between two executions of one branch with nothing in between (`AwkwardTake`): `callstack.cpp:205` takes
the completed branch for one that the exception aborted. And a switch may come behind a call, while the
callee has not run (`AwkwardSwitch`): the announced call is parked at the exception's entry (`:295`), the
switch does not clear it there (`:100`), and the exception's return hands it to the thread switched in
(`:321`). The same definition has the switches behind an aborted branch and to a thread that goes on with
the block that the other ran last. All of them are steps of the target; `awkward` is history: one of them
has come. `RebuiltAsRun` is claimed up to then, so a switch behind any other block, a return included, is
covered; what happens behind is run `misplaced_call`. `PastAwkward` is a bound: whether a trace is followed
beyond (if not, `LeftThere` is its end).
What the machine compares with is the last range outside the exceptions, of whichever thread: two
switches in one exception leave it that of the thread that was preempted, so `Switch` keeps
`cpu[1].end` (with three threads, a target that took it from the thread passed over is one on which
`RebuiltAsRun` is false).

### 2.3 Grab and ByteFifo

The threads share `head`, `tail`, `buf` and `stop`. Every access the other thread can tell apart is
a step: main tests for room (`PushDrop`/`PushStart`), copies (`PushCopy`), publishes
(`PushPublish`); the writer takes the contiguous part (`ReadContig`), writes some of it (`Write`),
advances (`Advance`), and on an empty ring looks at the stop flag and at the ring once more
(`Empty`). `head` and `tail` are the 64-bit indices of the code; byte *i* of the accepted stream is
written *i*, so the file must read 0, 1, 2… The network may lose, repeat and delay frames; the
sequence accounting is done modulo `SeqModulus` as in `uint32_t`. `open()` and `write()` may fail,
`write()` may take less. A batch of frames is one frame after the other. Memory is sequentially
consistent: each index is stored with release and loaded with acquire order, so the threads agree on
the bytes between the indices.

### 2.4 RecordBridge

A handler per connection and a worker per capture. `handler[c].at` is where the connection's thread
is in `serve_conn`/`dispatch`/`read_buffers`/`_start_capture`, `worker[n].at` where the capture
thread is. `packets` holds the number of the capture its contents come from. A chunk is sent in two
pieces, because `sendall` of up to 96 KiB is several `send` calls and no lock covers a connection;
other replies are a few bytes and are one piece. A ReadBuffers looks at `_capture_done` twice, in
`is_set()` (`Check`) and in `wait()` (`Await`): between the two it may be set and cleared again by the
next EnableTracing, and the thread then waits for the later capture. The capture thread sets the event
(`SetDone`), answers (`Answer`) and ends (`EndThread`), three steps, since `_start_capture` asks whether it
is alive. The clients are the environment: they send any
request at any time, several on one connection, and leave at any time. `Outcomes` says how a capture
may end: with packets, an `Exception`, or a `SystemExit`.

Left out: the static mode (a fixed packet list, no threads), the protobuf encoding.

### 2.5 Deframe and PhaseSearch

`Byte` is one turn of the loop of `tpiu_deframe`: `synced`, `rxed`, `low` (`rxed[byte_count]` when
`got_lowbits`), `cur` are its locals; of `sync_monitor` only the number of trailing `0xFF` matters
(`ffs`). `got` is what the last byte completed, so that the output need not be kept. Around it the
formatter (`Frame`, `Sync`, `HalfSync`) packs bytes and stream changes as the target's TPIU does,
and `Lose` drops bytes on the way; `meant` says which bytes of the last frame belong where, worked
out from the positions of the stream changes (`Announced`, `MeaningAt`), not by decoding; the properties
compare it with `got` from the end (`SameByte`), for the first bytes may be of a stream not known yet. No sequence grows, so the model is
finite for captures of any length. `PhaseSearch` holds what happens before: `Assemble` for every
port width, `CountAsync`, and the two-stage search (`BestOf`, `Chosen`). The source index that each
byte carries is left out.

### 2.6 NxTrace and TimeBase

`NxTrace` is `nxtrace.cpp` as functions of sequences. `PacketStarts` is the walk that both readers
of the stream share: where a packet begins, from its header alone, up to the first one that is cut
off. `Unwrapped` is one turn of the loop of `unwrap_note_systime`, over a counter of `Counter` values
and `Epochs` turns (2^32 of each in the code); a stream of notes is the sequence of their counter
values, and a byte at which no note begins is `Skipped`. `BuildThreadRuns`, `ThreadRunsToSlices` and
`ReattributeSlicesToThreads` carry the functions' names. A value in a packet stays the four bytes
that carry it: nothing computes with it. `TimeBase` counts time in units of the time stamp
generator, a cycle lasts `PerCycle` of them: the double-precision rounding of `timebase.cpp` is left
out.

### 2.7 DecodeTool

`main` of `cortrace_decode.cpp` in the order of its life: `ToolInit` holds the capture and the
thread schedule `BuildThreads`, which is made before anything is decoded. A capture is a sequence of
items, bytes of ETM and switches; a switch is a packet of two bytes of the DWT stream (`DwtStream`),
so the place of a byte among all (`Place`) is what the two streams have in common. Then `Generate` is
the OpenCSD library handing an element to the adapter (`Adapted`, with the tables of `opencsd_decoder.cpp`) and
the tool observing it for the report (`Observe`, the members of `Coverage`); then `SwitchIn`, once
for every run that is due, and `Process`, the call of the machine; `EndAll` is the end of the feed,
of the flush or of a fatal error, and `finish()`. Two elements never overlap, so a switch cannot come
between an element and its processing. `SwitchIn` and `Process` contain the actions of `CallStack`,
and `Emit` adds the slices that those calls push, which `CallStack` only counts. `Timed`, `File` and
`Packets` are what `main` does with the slices afterwards. The trace library may generate any
element for any byte at or behind the last one.

### 2.8 WsRelay

The two threads of an established connection, `serve` and `pump`, with their two sockets. A frame for
the browser is sent in two pieces, since one `sendall` is many sends and the other thread may want to
answer in between; the lock is what keeps it out. `TakeLock`, `SendPiece` and `SendFails` are that
sequence for either thread. `UiSends`, `UiReads`, `UiLeaves` and the three actions of the bridge are
the environment. All buffers hold at most `SocketRoom`: a full one blocks its sender. `refused` is history:
a frame could not be forwarded because the bridge had closed. Left out: the listener and the
handshake, which are over before there is a second thread, masks and lengths of frames, and the
other relays of the same process, with which a connection shares nothing but its origin list.

### 2.9 PerfettoOpen

`main` says where `serve_and_open` is: binding, announcing the URL, waiting for the event, kept alive,
shutting down. The server answers each request in a thread of its own, so a beacon is handled by a
step of its own (`Beacon`; or `BeaconFails`, when the page is gone and the answer raises before the event
is set), and a download that has begun is not stopped by the shutdown of the
listener but by the end of the process (`CutOff`: the handlers are daemon threads). A tab runs the
script of `_HOST_PAGE`: `Fetch`, `HasTrace`, `Tell`; the user may load it again or close it (`CloseTab`) at any point. A beacon sent when requests are no longer taken
is lost; the script does not mind. `Interrupt` is Ctrl-C, caught only where the code waits. What
follows in the browser (window, PING/PONG with ui.perfetto.dev) does not reach the program.

### 2.10 CapturePipeline

A run of `capture.py` is a line of steps (`at`), each a child process, and `Fail` can end it at any of
them with what the step had written by then. A file is what it was made from: `raw`, `notes`, the
switch values and the thread map hold the number of a capture, `perf` also the width it was decoded
at and whether it is whole. Files are indexed by tag and are never cleared, as on disk; `--raw-in`
reads the raw file of any tag. The FPGA has a width and is re-armed or not since it was set; that
setting the width undoes the arming is what `ctrl.py:122-126` says. `heard` is history: both
datagrams arrived. Success of a step means complete files: that `fclose` and one `fwrite` of the decoder
are unchecked (`perfetto_writer.cpp:143`, `cortrace_decode.cpp:729`), so that a disk which fills up with the
last bytes goes unnoticed, is not modelled. Left out: checks of space and duration, which come before any step; the time base
options; the pointers' names.

### 2.11 TraceArm

`Sequence` is the list of commands of `arm()`, written block by block as the code is; `todo` is what
is left of it. A register is a block, a name and an index; the registers that only configure a block
are one (`config`), but for the ETM's power (`PowerUp`), which is written while it may still be on;
comparators are all there. `Answered` is a command that worked,
`TakenForAnswered` a write, halt or resume on a connection that OpenOCD has closed, which
`_read_until_prompt` cannot tell from success, `PollOnce` one read of a poll, `Fails` a refusal, a
timeout (after which the command may have been executed), or an error of the socket. `SystemReset`
and `PowerCycle` come between sessions. Registers are what `trace_arm.py` says of the hardware: a
locked block ignores writes, a system reset leaves the debug domain alone.

## 3. What TLC checks

Passing runs:

| Run | Instance | Shows |
|---|---|---|
| `callstack` | 2 functions, 5 ranges, 2 threads, 1 exception, ≤3 open slices, ≤2 contexts, ≤1 gap | `TypeOK` (no stack is ever empty), `ThreadLaneAccounts`, `IsrLaneAccounts`, `BalancedAtFinish`, `BlindSpotForgetsCall`, and refinement of `ThreadStacks` (`KeepsStacksApart`), for every order of elements |
| `target` | 5 functions, 2 threads and boot, 2 nested exceptions, recursion, a tail call, aborted branches, ≤3 frames a thread | `RebuiltAsRun`: rebuilt stacks are the target's, frame by frame (`StacksAgree`), and no diagnostic is given (`NothingNoted`), on a lossless trace up to its first awkward moment |
| `deframe` | frames of 4 bytes, one stream and padding (id 0), 2 data bytes, any number of frames, syncs, half syncs and losses; every wiring of 1, 2 and 4 wires with sequences of 4 bytes, every sequence of ≤6 bytes for A-syncs, every pair of score tables | `BytesFindTheirStream` (after a sync, `ResyncRestores`; none before the first stream id, `NothingGuessedAtStart`), `FramesAlign`; `PhaseIsFound` (some phase restores the bytes, A-syncs are counted right, the best phase is chosen) |
| `decode` | traces of 4 elements out of 7, 3 captures of 2 ETM bytes with switches of 2 threads and a foreign comparator and one of switches alone, with and without a time table, files in 2 time bases; all sequences of ≤3 of 12 packets cut at any byte; ≤5 notes after the first, of a counter of 8; ≤4 slices | `ThreadsLineUp`, `FileIsBalanced`; `StaysAligned`, `NotesPlaced`, `TimeKeepsOrder` |
| `host` | *grab*: ring of 4, writes ≤3, payloads 1 and 3, sequence numbers modulo 16 from 14, ≤3 frames, ≤1 lost in a row | `ThreadsKeepApart`, `EverythingSaved`, `LossNeverUndercounted`, `ExitZeroIsComplete`, refinement of `ByteFifo` (`InOrder`), `Drains`, `Terminates` |
| | *relay*: 3 answers, 3 frames from the browser, buffers of 1 | `FramesWhole`, `LastAnswerArrives`, `BothEnd` |
| | *hand-over*: 2 tabs, 3 loads, every set of options, Ctrl-C and closed tabs at any point | `ZeroMeansFetched`, `ServedAsNeeded` (`ServerStops` without `--keep`, `KeptPagesServed` with it) |
| `session` | *pipeline*: 3 runs, 2 tags, 2 widths, every set of options, any step failing, any datagram lost | `ResultOfOneCapture`, `DecodedAsCaptured` |
| | *arming*: any number of sessions, 2 comparators, 4 lists of up to 3 watches, polls of 2 reads, failures at any command | `ArmTypeOK` (what is left to do is always the end of the sequence asked for), `ArmedAsAsked`, `SetUpWhileOff` |
| `bridge` | 2 clients × 3 requests, 3 requests in all, 2 captures that end in packets, an `Exception` or a `SystemExit`, traces of 2 chunks | `OneCaptureAtATime`, `FreshUnlessExit`, `OneCapturePerStream`, `EveryoneServed` (whoever waits for packets gets an answer, `WaitersServed`, and whoever starts a capture too, `StartsAnswered`) |

The components of `host`, and those of `session`, share no state. Which of them a behaviour is of is chosen
in its first state; the others then stay in a state in which none of their fair actions is enabled, so they
ask nothing of it.

Runs that TLC must find violated, each about a sentence of the repository that the code does not
keep (the findings in `PROJECT.json` quote them):

| Run | Violates | What happens |
|---|---|---|
| `grab_hangs` | `Terminates` | without traffic `recvmmsg` never returns |
| `bridge_stale` | `FreshBuffers` | a capture that ends in `SystemExit` leaves the previous capture's packets |
| `depth` | `DepthNeverNegative` | behind a gap, a function that calls itself makes `do_call` end the frame that the machine starts with: depth -1 |
| `misplaced_call` | `CallIsTheRunningLanes` | a switch behind a call: the thread switched in gets the preempted one's announced call |
| `strict_clean` | `CleanMeansLossless` | `--strict` says CLEAN, with exit code 0, of a trace that lost synchronisation in mid-stream |

What is left of each claim is a property of its own: `FreshUnlessExit`, `RebuiltAsRun` (runs `bridge` and
`target`), `UnbegunEndsAreReentries` and `CleanMeansCovered` (proved, section 4), and `Terminates` when
something keeps arriving.

The type invariants of `Grab`, `RecordBridge`, `PerfettoOpen` and `CapturePipeline` are proved (the last
one as part of `PipeInv`), and no run repeats them.

Other disagreements and oddities are visible in the models and have no run of their own:

- *Machine*. A branch that runs twice with an exception in between is taken for one that was aborted
  (`callstack.cpp:205`). After a tail call an edge is counted for two functions with no call between.
- *Decode tool*. The blind rate
  (`cortrace_decode.cpp:98`) counts the time before the first range as blind but not as part of the
  span, so it is no share, unlike in `docs/00-architecture.md:153`. A TCB address is folded to 15 bits
  (`nxtrace.cpp:216`): two threads may share a track.
- *Grab*. It exits 0 after its writer failed if the ring never filled (hence `~failed` in
  `ExitZeroIsComplete`). `g_stop` is a plain `volatile` that both threads use; the model takes its
  accesses as atomic.
- *Bridge*. The capture thread's answer can get between two pieces of a frame that a connection thread
  sends (hence the two pieces in `RecordBridge`). A start that comes while a capture thread is alive, if
  only between its answer and its end, is ignored and never answered. A ReadBuffers may sleep through the
  end of a capture when the next is started at once; it is served by that one.
- *Pipeline*. A lost set-width datagram is noticed by nobody (`ctrl.py:61`, against
  `docs/04-user-guide.md:187`): the capture goes on at the old width and is decoded at the new one.
  Without `--width` it is decoded at width 4 whatever the FPGA was left at. `DecodedAsCaptured` is
  therefore about named widths that arrived. A decode that fails may leave new notes beside the old
  trace of its tag.
- *Hand-over*. `--no-open` prints the URL and stops serving it at once (`perfetto_open.py:261`,
  against `:252` and `:36-37`), so `ServerStops` speaks of servers that open the browser. Ctrl-C while it waits gives exit code 0 (hence `~interrupted`).
- *Arming*. A connection closed before `resume` is taken for success and the core stays halted
  (`probe.py:42`, against `:17`). Any error in mid-arming, a fifth watch included, leaves the core
  halted too. The result of the poll of TRCSTATR.IDLE is ignored (`trace_arm.py:107`).

**Why the bounds are enough.** *callstack*: three open slices over two threads and one exception
let every shape of stack that the code distinguishes occur (only the root, one frame, two frames of
the same or of different names; unwinding to a frame below; a nested context on either), and one gap
separates frames pushed before and after it; `MaxContexts = 2` still allows the lost return, whose
frames stay until `finish`. The two functions give an entry, a middle and a symbol-free range each.
*target*: three frames a thread are needed for recursion through another function, three contexts
for an exception preempting a handler; `PastAwkward` is FALSE in `target`, TRUE in `misplaced_call`. *grab*: payloads that do and do not fit what is left, wrap of
the buffer inside a payload and inside a write, wrap of the sequence numbers in the first frames. A
ring of 4 wraps after two payloads; three frames are enough for late, repeated and lost ones to
combine. *bridge*: two captures are the fewest for staleness, two clients the fewest for a race on
the lock, three requests in all (`MaxTraffic`) a start, a read and another start, on one connection or two; the two chunks
make a replacement in mid-stream visible. *deframe*: a frame of 4 bytes has a first half-word with
two bytes of data and a last one whose second byte is the flags, the two cases of `get_packet`; one
data byte is `0xFF`, which could imitate a sync, and one has a clear low bit. Constant data (the
phase questions) are asked in states of their own before the first byte. *decode*: four elements are
a call, a range, a loss and a range, or a call, an exception, a return and a range; the three captures
have a switch before the first element's byte, one at it and one behind the last, a write of the
pointer that is already there, and a pointer that maps to a thread already known. The packets contain
payloads and continuation bytes that look like headers of every kind. Five notes cross the wrap of a
counter of 8 twice, late ones included; the questions are again asked in states of their own
(`input`). Four slices hold two anchors with one slice between them and one before the first. *relay*:
with buffers of one piece every send blocks; three answers are one shown, one in `pump`'s hands and
one in the socket when the bridge closes; three frames from the browser are data, PING and CLOSE.
*hand-over*: two tabs are a first and a second fetch that overlap, three loads a reload after
either. *pipeline*: two runs of one tag, the first failing, are staleness; the third lets both read a
raw file of another tag. *arming*: two comparators are one used and one left over, with zero, one,
two and too many watches; sessions are not bounded, as the state is.

`CHECK_DEADLOCK FALSE` is set where the system may stop: after `finish()`, after the program's exit,
when the clients have left or used up their requests. The `target` run checks deadlock: the target
can always go on. So does `session`, with a step for the end of the last of its bounded runs (`LastRunOver`). The `VIEW`s leave out `edge` (and `noted` in `callstack`), which report the last
call and influence nothing.

**Fairness.** *Grab*: `WF` of the clock, of main's steps that do not wait for the network and of the
writer's: two POSIX threads that the kernel schedules, and `write()` that returns. `Drains` needs no
more, and holds whether or not anything else arrives. `Terminates` needs `TrafficGoesOn` (weak
fairness of an arrival while main waits, a runt is enough): this is an assumption about the network
that the code does not justify, and `grab_hangs` drops it. *Bridge*: `WF` per connection thread and
per capture worker: Python threads are scheduled, captures end (a capture has a duration and its
children are waited for), and clients read what they are sent. Requests and departures are not fair.
*Relay*: `WF` of each thread, of a browser that reads what it is sent while it is there, and of a
bridge that does. Neither need send, close or leave; if one never does, nothing is claimed to end. A
browser that stays without reading blocks `pump` in `sendall`, and `serve` with it at the next PING:
`BothEnd` is not claimed of that.
*PerfettoOpen*: `WF` of main, of the timeout, of the handler of a beacon and of each page's script;
nobody has to load or close a page or press Ctrl-C, and without a timeout, with `--keep`, or if no page
reports, no end is claimed. *CallStack*, *TracedTarget*, *DecodeTool*, *CapturePipeline*, *TraceArm*: no fairness, all
properties are safety.

Each property of a passing run has a mutant in `PROJECT.json`: a plausible slip in one definition
(a dropped guard, a missing reset, an off-by-one) that makes TLC find the property violated.

## 4. What is proved

For all values of the constants that satisfy the modules' named assumptions:

`CallStackProofs` — `TypeCorrect` (no stack is ever empty, the running thread is never parked, the
context stack has the thread at the bottom and exceptions above), `ThreadLanesAccounted`,
`NoCallAcrossBlindSpots` and `ImplementsThreadStacks` (refinement of `ThreadStacks`). The inductive invariant is `TypeOK` with `ThreadLaneAccounts` and
`BlindSpotForgetsCall`: the accounting needs to know where a thread's stack is (base context, parked,
or fresh), hence that the running thread is not in `parked`; it also needs the stack operations to
keep a relation between length and `open`. That is stated once as lemmas about `Push`, `PopTo`,
`DoCall`, `Reconcile` and `DoReturn` on books; a pop never empties a stack, so each lemma carries
"non-empty" along. Program, ranges, symbols and threads are arbitrary; so are gaps and nesting.
`IsrLanesAccounted` (`IsrLaneAccounts`) and with it `LanesBalancedAtFinish` (`BalancedAtFinish`) are
about a sum over the contexts of one exception, of any number: a call rewrites one term of it
(`FramesSplit`), and a return removes the last. `OnlyReentriesUnbegun` (`UnbegunEndsAreReentries`:
the END of run `depth` is the only kind of END that finds its lane empty) counts the ENDs without a frame: a pop ends as many slices as the stack loses frames, and only the
guard of `do_call` on the lowest frame emits one more.

`TargetProofs` — `RebuiltExactly`: `RebuiltAsRun` for every program laid out as
`ProgramAssumption` says (functions of four instructions that do not overlap, calls and handlers at
entries), with any number of threads and any depth of calls and exceptions, up to the first
awkward moment and with no assumption on when exceptions and switches come. The
inductive invariant `TargetInv` pairs the contexts of target and machine. `Coherent` is about the
target: each frame returns behind a call of the one below. `Matches` says that frames have the right
names, or an old one where the code leaves it: on the lowest frame and on frames entered by a tail call
(`HasOldName`), and an old name never equals the one the frame should have on any frame below it, for
otherwise `Reconcile` would unwind to that. `Preempted`, `Runs` and `Waits` say what is kept of a
context that an exception preempted, that runs, or that is switched out: a call is pending exactly when
the target is about to enter a callee, and the last range kept ends at the present branch exactly when
that branch was aborted, which is what the comparison of `callstack.cpp:205` relies on. A context
that waits to be switched in again may have stopped at any block but those that `AwkwardSwitch` names. The
proof needs `~awkward` in two places: that one branch follows another with a different end, unless aborted
(`AwkwardTake`), and that no call waits for its callee across a switch (`AwkwardSwitch`).

`CaptureProofs`, on *grab* — `GrabTypeCorrect`, `NoByteShared`, `NothingLeftBehind` and `FileIsTheStream`
(refinement of `ByteFifo`), for every ring size, write limit and set of payload lengths. The
inductive invariant says that slots `tail … head - 1` hold the stream's bytes of those numbers, as
do the next `plen` once copied and not yet published; that the file holds 0 … `tail - 1`, or the
bytes just written beyond it while the writer is at `advance`; that what the writer holds is within
`head - tail`; and that a stopped main has nothing in flight. The arithmetic of `i % Size` (two
numbers less than a ring apart have different slots) is a set of lemmas of its own. `LossCounted`
and `ZeroIsComplete` are about runs that use less than half of the sequence numbers (`ShortRun`; in
the code, 2^31 frames): beyond that a late frame cannot be told from a new one, by this code or any
other. Their invariant (`LossInv`) is that `seqPrev` is the number of some frame sent, that no more
frames are sent than a loss of `MaxLoss` before each received one explains, and that `lost` counts the
missing. `Distance` shows that the difference of two numbers modulo 2^32 is the distance of the frames.

`CaptureProofs`, on the *bridge* — `BridgeTypeCorrect` (with: the thread inside `_start_capture` is the one that
holds the lock), `SingleCapture`, and `NoStalePackets` (`FreshUnlessExit`): older packets only for a capture that ended
in a `SystemExit`, of which `bridge_stale` is the counterexample. For any
number of clients, requests, captures and chunks. The inductive invariant: the captures started are
1 … `current` and all but the last are dead, and the last is dead too between the test under the
lock and the start of the next; `packets` is empty or no older than any capture past its work
that did not end in a `SystemExit` (`Recent`); `done` is false while a capture works; a thread about to read
`packets` started no capture that still works, and one that streams holds packets no older, in the same
sense, than its own captures; and what is on the
wire belongs to requests up to the present one, which is what makes a later request's capture
irrelevant to chunks already sent. `WholeStreams` (`OneCapturePerStream`) counts: the pieces sent for a
request are twice the chunks already streamed, plus one in the midst of a chunk, all of one capture, and
all of them at the eof (`WholeInv`).

`SessionProofs`, on the *relay* — `FramesStayWhole` (`FramesWhole`) and `AnswersArrive` (`LastAnswerArrives`), for any
number of answers, frames and buffers. The inductive invariant `RelayInv`: the thread at `send` is the
one with the lock, and only it is inside a frame (`OneSender`); the last piece shown is half a frame only
while its sender is there, or nothing more can be sent (`Halves`), which is what lets `SendPiece` go on
from it; the chunks received are numbered without a hole and the buffered ones follow (`Numbered`);
all that `pump` has taken is shown and nothing beyond (`Complete`, `NoneAhead`); and, while the browser
has neither closed nor left, `serve` ends only after `pump`, and `pump` only when the bridge has closed
and its buffer is empty (`Teardown`). The frames need `Halves` and `NoneAhead`, the last answers
`Complete` and `Teardown`.

`DeframeProofs` — `TypeCorrect`, `FramesStayAligned` (`FramesAlign`) and `EveryByteFindsItsStream`
(`BytesFindTheirStream`), for every even frame length up to 16 (the flags of more half-words do not fit
the last byte), every set of ids and data bytes, any losses, and captures of any length. The inductive
invariant has three parts. `AlignInv` says, while nothing is lost
since the last full sync, what is under way: the rest of a full sync, of which as many `0xFF` were
noticed as have passed (`SyncComing`), or the rest of a frame that fits the bytes collected
(`RestOfFrame`), with a half sync before or within its next half-word (`HalfSyncComing`, `InHalfSync`).
The argument that nothing imitates a sync is in `FirstsPlain`: the first byte of a half-word is never
`0xFF`, since a stream change has an id below 127 and a data byte is there without its low bit; so a
first byte of `0xFF` followed by `0x7F` is a half sync, and three `0xFF` in a row are a full one.
`MeansInv` says what the collected bytes mean: with those under way they are a frame of the formatter,
and the code's stream is the one the formatter had said before it, if it had. `FlowInv` is about a
capture before its first sync. The frame itself is `PacketMeans`: `get_packet`, half-word by half-word
with the flags shifted out, gives what the formatter meant position by position. It is an induction over
the half-words: the code's stream is the one announced last by the changes passed (`Latest`), and what it
gave agrees with what was meant from the first of them on (`Given`, `BytePut`), where a delayed change is
passed one byte later than its place. `GivenFinds` draws the two conclusions that the property states.

`DeframeProofs` also proves the phase search. `PhaseOfTheWiring` is about bytes 0 … 255 in sequences of any
length from two, and each wiring: of width 1, 2 or 4, high symbol first or bits reversed, with some
half-symbols left over from a byte that the capture missed. A byte is the sum of its half-symbols, each in
its place (`GatherIs`, `LowBitsAre`), swapping the bits of one twice gives it back (`SwappedTwice`), and
the half-symbols that the code takes from the samples are those on the wires, from some position on
(`HalvesComeBack`). On four wires the code skips the low nibble of the first sample and the high one of
the last, so the phase of a wiring with nothing left over is 1 there (`WidePortRestored`), not 0
(`NarrowPortsRestored`). `CountIsRight` counts the A-syncs (a run of zeros is followed up to each byte,
`ZerosBefore`) and `ChosenIsBest` is about the best of any number of scores; `PhaseIsAlwaysFound`
(`PhaseIsFound`) brings the three together, and `FrontEndFindsEveryByte` carries the results about the
deframer to the specification that the run checks, in which the capture comes after the questions.

`DecodeToolProofs` — `CleanIsCovered` (`CleanMeansCovered`, what is left of the claim that `strict_clean`
refutes: CLEAN leaves no time between two ranges that a loss separates, given a time table), for every
program, capture, table and trace, however long: `Coverage` remembers the time of the last range and whether a loss came after it
(`Remembers`), so as long as it has counted no region no loss has taken time (`NoneMissed`).

`ElementsRunInTheirThread` (`ThreadsLineUp`), for every capture, resolver and trace, brings together
three ways to say which thread runs. The capture says it with the last switch before a byte; the tool
parses the switches out of their own stream, long before, and keeps the changes as runs; the cursor
takes one run after another. First, the walk over the DWT stream finds a packet at every odd place
(`WritesBegin`, by induction from the last byte backwards: `BackwardRecursion`), so the events are the
switches of the capture in order (`EventsAre`), whatever their payloads look like. Second, a run is made
of each change among the watched ones (`SwitchesMakeRuns`), and begins at the number of ETM bytes before
its switch, though its place counts the bytes of both streams (`EffectIsBehind`). Third, the value of
the last change up to a byte is that of the last switch up to it (`LastChange`, `ThreadAtRun`).
`ScheduleInv` is the inductive invariant: the runs switched in have begun by the last element's byte, and
the last of them is `curThread`; with no further run due, and the runs in order (`RunsBeginInOrder`), they
are all that have begun. It also holds the types, so `ToolTypeCorrect` (`ToolTypeOK`) follows. `InOrder`
lists a set by rank, and `InOrderIs` says that it does. Without a byte of ETM there is no such place:
`ThreadsLineUp` leaves that capture out, where `to_etm_index` returns the place itself.
`CapturesAssumption` and `GeneratedAssumption` say what items and elements look like.

`DecodeToolProofs` also proves the answers to two kinds of question that `MCDecode` asks of the
algorithms. `NotesGetTheirTime` (`NotesPlaced`) is about the notes of the target (`NxTrace`). One note is
`NotePlaced`: one that is at most `late` behind and `ahead` before the newest, with both together less
than half a turn of the counter, gets its true time on either side of a wrap. The argument is that the
code counts from a note at most `late` behind the newest (`Follows`), and that the turn of a note less
than half a turn away is told by the code's two comparisons (`TurnFound`). A note of before the turn of
the first one is not placed, but the code takes it for a late one and counts on as before
(`EarlyNoteIsLate`), so `Follows` is kept by every note and `StreamPlaced` follows by induction over the
stream (`WalkIs`: the recursive walk is one note after another). Its two assumptions are about the
constants: `3 < Half`, that a step of the questions, of at most three, is less than half a turn of the
counter (in the code, 2^31), and `Counter + 2 * MaxNotes <= Counter * Epochs`, that the notes do not use
up the 64 bits of a time.

`WalkStaysAligned` (`StaysAligned`) is about packets of every kind, cut off anywhere: synchronisation,
overflow, time stamps that go on, sources of hardware and software. `CutsStayAligned` states it of any
well-formed packets (`Framed`: as many payload bytes as the header says, or continuation bytes up to the
last one). Each packet begins where the one before ends (`PlacementExists`), and so does the walk's
(`WalkFollows`); only the last may be cut, and the walk ends there (`CutPacket`). What the walk visits are
thus the headers of the packets that are there in whole and perhaps of the cut one, which has no payload
in full and gives neither an event nor a stimulus (`WalkFindsPackets`, `CutCarries`).

`TimeKeepsItsOrder` (`TimeKeepsOrder`) is about the time bases (`TimeBase`), for any number of slices
and any length of a cycle; its parts are stated of any slices whose bytes, cycles and time stamps are in
order as `HybridKeepsOrder`, `HybridNotLate` and `HybridIsExact`. `HybridIs` says what the hybrid time of
a slice is: the time of its anchor, the first slice with its time stamp (`AnchorIsFirst`), and the cycles
since, but no more than up to the next anchor (`NextIsLater`). The times are then in order, so taking the
greatest so far, which every base ends with, changes nothing (`TicksAreGreatest`, `TicksAre`).
`MovesAreRecorded` proves of the record of any moves of a target what these theorems ask.

`FileProofs` — `EveryFileIsBalanced` (`FileIsBalanced`), for every program, capture, table and trace,
however long, in every time base, with thread lanes and switches or without. It joins the machine to
the file, in three parts.

First, the slices that the machine pushes (`OutInv`). A lane of the machine is told by the track and
thread of its slices (`TagOf`, `TagsDiffer`). Along the slices written, each lane goes from depth 0 to
what the machine counts as open in it, and not below 0 unless the machine has noted an END without a
BEGIN (`LedgerOf`, stated with the function of depths that `Goes` asks for); every slice is of a lane
that is known (`Written`); bytes, cycles and time stamps are in order and none is ahead of the element
that comes next (`UpToNow`); and the slices of the boot end with the first switch (`BootEndsFirst`). A
step keeps this if the slices it adds take each lane from its old count to its new one (`Told`,
`OutGrows`). That is shown per call of the machine: a range ends a stale frame, begins a callee and ends
what it leaves (`RangeTold`), an exception begins and its return ends one context (`ExceptionTold`,
`LeaveTold`), and `finish` ends the frames of the running thread, the contexts and the parked threads,
lane by lane (`EndTold`, from `EndsGoDown`). The accounts of `CallStackProofs` hold along, as the tool's
steps are steps of the machine or leave it alone (`ToolIsMachine`, `MachineInv`); so do the feed
(`FeedInv`: an element waits at the last byte, behind no clock) and the names (`NamesInv`: threads and
exceptions on a stack are among those the report can describe, and boot runs only before the first
switch). At the end `BalancedAtFinish` makes every count 0.

Second, the lanes of the file. Slices of a thread go to a lane of that thread, and numbers of lanes
differ from each other and from the `Threads` track (`LaneNosDiffer`, for which `ThreadLaneIs` finds each
thread among the runs). Re-attribution moves the byte of a boot slice that lies behind the first switch;
by `BootEndsFirst` there is none, so it only renames lanes and the order of bytes is kept. A lane of the file is then the union of the
lanes with its number, and depth 0 of each makes depth 0 of all (`TagsGo`, by induction over a finite
set of lanes). The `Threads` track has a BEGIN and an END in turn (`LogAlternates`).

Third, the times. Each base ends with the greatest time so far, so the slices are in order of time
whatever the base (`LaidOutInStep`); the time of a switch is that of the first slice or of the last one
not behind its byte (`TickForByteIs`), which is monotone, so the `Threads` track is in order, and a slice
of an earlier byte is not later than the run, nor one of a later byte earlier.

Four assumptions about constants come with it: `Bases` are bases there are (`BasesAssumption`);
exceptions have tracks of their own, from 1 on (`TracksAssumption`: `track_for_exception` counts them);
the threads of the machine are those that pointers resolve to (`PointersAssumption`); and its ranges and
exceptions are those of the elements (`ElementsAssumption`).

`SessionProofs`, on the *hand-over* — `OpenTypeCorrect` and `ZeroIsFetched`, for any number of tabs and loads. The
exit code needs the chain back from it: 0 with a browser opened means that `wait` was left because of
the event, the event that a beacon was handled, and a beacon that a tab had the trace.

`CaptureProofs`, on the *pipeline* — `OneCaptureReturned` and `WidthCarriedThrough`, for any tags, widths and
number of runs. The inductive invariant says for every step what the files read by the rest of the run
hold (`Chain`: from the grab on, the raw file of the tag is this run's; then the values, then the map,
are the source's capture) and where the width is (`WidthKept`: FPGA, then raw file). Nothing is
said of other tags, or of files before the step that writes them: a failed run may leave anything there.

`SessionProofs`, on *arming* — `ArmTypeCorrect`, `ArmedExactly` (`ArmedAsAsked`) and `SetUpOff`
(`SetUpWhileOff`), for any number of comparators, any lists of watches and sessions, failures and resets
at any command. The inductive invariant `ArmInv` says that what is left to do is the end of the
sequence asked for (`Ahead`), and that every register holds what the executed part wrote to it last,
unless its block was still locked (`Holds`, `Unlocked`, `Locks`). What the whole sequence leaves and
what it writes before what (`Leaves`, `OffBefore`) is proved of its stretches (`ChipSegment` …
`UnusedSegment`), for the watches by induction over the list, and is closed under concatenation
(`LeftByFormer`, `LeftByLatter`, `GuardedJoin`).

`InductionFacts` is what the proofs that count or recurse need: induction over numbers (`Induct`,
`InductUpTo`), that a recursive function is what it says (`RecursionExists`), and sums over finite sets
(`SumWith`, `SumSame`). The induction theorems of the library have an operator as a parameter, which
the provers cannot instantiate; these are about a set of good cases, from the well-foundedness of the
part-of order.

Every safety invariant and action property of a passing run is proved, and the two refinements.
Only model-checked: liveness (`Drains`, `Terminates`, `EveryoneServed`, `BothEnd`, `ServedAsNeeded`),
which is out of the prover's reach.

## 5. Not modelled

- Of the pipeline: the checks of `runstore.py` (before any step), `tcbmap.py` (a report), the time base
  options. Of `serve.py`: the processes it wires together, each modelled by itself; a Start is a run of
  `CapturePipeline` and, for the bridge, an outcome of a capture in `RecordBridge`.
- Of arming: `armctl.py` (choice of platform and variables), the width check before the first command,
  the meaning of the configuration values, what an ETM does that is set up before it is idle.
- *FPGA control* (`fpga/*`) but for `set-width`: one register write per command, discovery and
  statistics, with a design the repository does not hold.
- *OS plugins, command line, platform files, parsing of `nm` and ELF, logging, printed reports,
  protobuf encoding*: input and output without state.
- Of the decode tool: `--dump-*` and `--itm-note-out`, which write what functions of `NxTrace` return;
  the report but for the verdict and the blind rate. Of the adapter: the set-up of the library. Of the
  writer: the variants with one track, which no tool uses. Of the bridge: the static mode. Of the
  relay: listener and handshake.

## 6. What could come next

1. *Abstract relay*: a two-way queue that `WsRelay` refines, and `WsRelay` composed with the
   connections of `RecordBridge`, so that a capture's packets are followed to the browser.
2. *`serve` as a whole*: `RecordBridge`'s capture worker running `CapturePipeline`, so that a stale
   packet list and stale files are one question.
3. *Overflow of `Coverage`'s counters* and the rounding of `double` in `timebase.cpp`, which the models
   take as unbounded and exact.
