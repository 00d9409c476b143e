-------------------------- MODULE CapturePipeline --------------------------
(* python/cortrace/capture.py: a run sets the width of the FPGA's port        *)
(* (fpga/ctrl.py, two datagrams that nobody acknowledges), grabs a raw file,  *)
(* asks the decoder which threads it saw, resolves them and decodes. Every    *)
(* step but the first is a child process or a write to disk, and any may      *)
(* fail. Files outlive a run and are named by its tag, which a user, or two   *)
(* Starts of `cortrace serve` within one second, may use again.               *)
EXTENDS Naturals

CONSTANTS
  Tags,
  PortWidths,    \* widths of the trace port
  DefaultWidth,  \* what the decoder is told when the user named none
  None,
  MaxRuns        \* bound: runs, one after the other

ASSUME WidthsAssumption == DefaultWidth \in PortWidths /\ None \notin PortWidths
ASSUME TagsAssumption == None \notin Tags
ASSUME RunsAssumption == MaxRuns \in Nat

VARIABLES
  fpga,    \* the FPGA: port width, and whether re-armed since that was set
  at,      \* the next step of the run
  opt,     \* its options
  run,     \* its number
  heard,   \* history: both of its datagrams reached the FPGA
  full,    \* history: its decoder did not notice that the disk was full
  raw, values, map, notes, perf   \* the files, by tag

outputs == <<values, map, notes, perf>>
pipeVars == <<fpga, at, opt, run, heard, full, raw, outputs>>

\* What a file holds: the capture it was made from, 0 when there is none.
Absent == 0
Captures == 0..MaxRuns
Raws == [capture: Captures, width: PortWidths, synced: BOOLEAN]
Traces == [capture: Captures, threads: Captures, width: PortWidths, whole: BOOLEAN]
Options == [tag: Tags, width: PortWidths \union {None}, rawIn: Tags \union {None}, notes: BOOLEAN]

NoRaw == [capture |-> Absent, width |-> DefaultWidth, synced |-> FALSE]
NoTrace == [capture |-> Absent, threads |-> Absent, width |-> DefaultWidth, whole |-> FALSE]

PipeInit ==
  /\ fpga \in [width: PortWidths, armed: BOOLEAN]
  /\ at = "idle" /\ run = 0 /\ heard = FALSE /\ full = FALSE
  /\ opt \in [tag: Tags, width: {None}, rawIn: {None}, notes: {FALSE}]
  /\ raw = [t \in Tags |-> NoRaw]
  /\ values = [t \in Tags |-> Absent] /\ map = [t \in Tags |-> Absent]
  /\ notes = [t \in Tags |-> Absent] /\ perf = [t \in Tags |-> NoTrace]

\* The raw file of this run, and the width that its decoder is told.
Source == IF opt.rawIn = None THEN opt.tag ELSE opt.rawIn
Told == IF opt.width = None THEN DefaultWidth ELSE opt.width
Stops == at \in {"idle", "done", "failed"}
Go(step) == at' = step
Filed(file, content) == [file EXCEPT ![opt.tag] = content]

------------------------------------------------------------------------------
\* run: the checks before anything is written.
First(o) == IF o.rawIn # None THEN "symbols" ELSE IF o.width # None THEN "width" ELSE "grab"
Start(o) ==
  /\ Stops /\ run < MaxRuns
  /\ o.rawIn # None => raw[o.rawIn].capture # Absent
  /\ opt' = o
  /\ run' = run + 1
  /\ heard' = FALSE /\ full' = FALSE
  /\ Go(First(o))
  /\ UNCHANGED <<fpga, raw, outputs>>

(* set-width: the width, which resets the FPGA's frame assembly, then re-arm. *)
(* Either datagram may be lost; write_csr gives up waiting for the echo.      *)
Narrowed(f, arrives) == IF arrives THEN [width |-> opt.width, armed |-> FALSE] ELSE f
Rearmed(f, arrives) == IF arrives THEN [f EXCEPT !.armed = TRUE] ELSE f
AfterSetWidthSwapped(first, second) == Narrowed(Rearmed(fpga, first), second)
AfterSetWidth(first, second) == Rearmed(Narrowed(fpga, first), second)
SetWidth ==
  /\ at = "width"
  /\ \E first, second \in BOOLEAN:
       /\ fpga' = AfterSetWidth(first, second)
       /\ heard' = (first /\ second)
  /\ Go("grab")
  /\ UNCHANGED <<opt, run, full, raw, outputs>>

Grabbed == [capture |-> run, width |-> fpga.width, synced |-> fpga.armed]
Grab ==
  /\ at = "grab"
  /\ raw' = Filed(raw, Grabbed)
  /\ Go("symbols")
  /\ UNCHANGED <<fpga, opt, run, heard, full, outputs>>
Symbols ==
  /\ at = "symbols"
  /\ Go("dump")
  /\ UNCHANGED <<fpga, opt, run, heard, full, raw, outputs>>

\* build_thread_map: ask the decoder, resolve, write the map, remove the values.
DumpValues ==
  /\ at = "dump"
  /\ values' = Filed(values, raw[Source].capture)
  /\ Go("resolve")
  /\ UNCHANGED <<fpga, opt, run, heard, full, raw, map, notes, perf>>
Resolve ==
  /\ at = "resolve"
  /\ map' = Filed(map, values[opt.tag])
  /\ values' = Filed(values, Absent)
  /\ Go("decode")
  /\ UNCHANGED <<fpga, opt, run, heard, full, raw, notes, perf>>

\* decode_hw: what the decoder writes when it gets to the end of the files.
Decoded(whole) ==
  [capture |-> raw[Source].capture, threads |-> map[opt.tag], width |-> Told, whole |-> whole]
NotesOf == IF opt.notes THEN Filed(notes, raw[Source].capture) ELSE notes
\* The results of the last writes to a file, its fclose and the notes' fwrite, are not looked
\* at: a disk that fills up there leaves a file that is cut short, and exit code 0.
Decode ==
  /\ at = "decode"
  /\ notes' = NotesOf
  /\ \E whole \in BOOLEAN:
       /\ perf' = Filed(perf, Decoded(whole))
       /\ full' = ~whole
  /\ Go("done")
  /\ UNCHANGED <<fpga, opt, run, heard, raw, values, map>>

(* A step fails: its child's exit code, an exception, or Ctrl-C. What it had  *)
(* begun to write stays; a decoder that ends with 1 may have written all of   *)
(* its files (unbalanced slices, a fatal element).                            *)
FailsBeforeWriting ==
  /\ ~Stops
  /\ UNCHANGED <<fpga, raw, outputs>>
FailsInGrab ==
  /\ at = "grab"
  /\ raw' = Filed(raw, Grabbed)
  /\ UNCHANGED <<fpga, outputs>>
FailsInThreads ==
  /\ \/ at = "dump" /\ values' = Filed(values, raw[Source].capture) /\ UNCHANGED map
     \/ at = "resolve" /\ map' = Filed(map, values[opt.tag]) /\ UNCHANGED values
  /\ UNCHANGED <<fpga, raw, notes, perf>>
FailsInDecoder ==
  /\ at = "decode"
  /\ notes' = NotesOf
  /\ perf' \in {perf} \union {Filed(perf, Decoded(whole)): whole \in BOOLEAN}
  /\ UNCHANGED <<fpga, raw, values, map>>
AfterFailureIgnored == IF at = "decode" THEN "done" ELSE "failed"
AfterFailure == "failed"
Fail ==
  /\ FailsBeforeWriting \/ FailsInGrab \/ FailsInThreads \/ FailsInDecoder
  /\ Go(AfterFailure)
  /\ UNCHANGED <<opt, run, heard, full>>

PipeNext ==
  \/ \E o \in Options: Start(o)
  \/ SetWidth \/ Grab \/ Symbols \/ DumpValues \/ Resolve \/ Decode \/ Fail
PipeSpec == PipeInit /\ [][PipeNext]_pipeVars

------------------------------------------------------------------------------
(* Types; no file comes from a run that is still to come, and a step finds    *)
(* the file that it reads.                                                    *)
PipeTypeOK ==
  /\ fpga \in [width: PortWidths, armed: BOOLEAN]
  /\ at \in {"idle", "width", "grab", "symbols", "dump", "resolve", "decode", "done", "failed"}
  /\ opt \in Options
  /\ run \in 0..MaxRuns
  /\ heard \in BOOLEAN /\ full \in BOOLEAN
  /\ raw \in [Tags -> Raws]
  /\ values \in [Tags -> Captures] /\ map \in [Tags -> Captures] /\ notes \in [Tags -> Captures]
  /\ perf \in [Tags -> Traces]
  /\ \A t \in Tags: raw[t].capture <= run
  /\ at \in {"symbols", "dump", "resolve", "decode"} => raw[Source].capture # Absent
  /\ at = "resolve" => values[opt.tag] # Absent

(* A run that returns a path returns the trace of its own capture, whole, with *)
(* the names of the threads of that capture, and with its notes beside it,     *)
(* whatever earlier runs of the same tag left behind when they failed. Whole:  *)
(* unless the disk was full at the end and fclose was the one to notice        *)
(* (perfetto_writer.cpp:143).                                                  *)
ResultOfOneCapture ==
  at = "done" =>
    /\ perf[opt.tag].whole \/ full
    /\ perf[opt.tag].capture = IF opt.rawIn = None THEN run ELSE raw[opt.rawIn].capture
    /\ perf[opt.tag].threads = perf[opt.tag].capture
    /\ opt.notes => notes[opt.tag] = perf[opt.tag].capture

(* A capture whose width the user named is decoded at the width it was taken   *)
(* with, and was taken by an FPGA that was re-armed after the change, if the   *)
(* two datagrams arrived; whatever width earlier runs had set.                 *)
DecodedAsCaptured ==
  at = "done" /\ opt.rawIn = None /\ heard =>
    /\ perf[opt.tag].width = raw[opt.tag].width
    /\ raw[opt.tag].synced

=============================================================================
