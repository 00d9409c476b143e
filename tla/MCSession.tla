----------------------------- MODULE MCSession -----------------------------
(* `cortrace arm` and `cortrace capture`, which share no state: a behaviour   *)
(* is any number of arming sessions or a number of runs of the pipeline. The  *)
(* DWT has two comparators, for none, one, two and too many variables to      *)
(* watch.                                                                     *)
EXTENDS CapturePipeline, TraceArm

VARIABLE command
sessionVars == <<command, pipeVars, armVars>>

MCWatchLists == {<<>>, <<1>>, <<2, 1>>, <<1, 2, 1>>}

PipeAtRest ==
  /\ PipeInit /\ fpga = [width |-> DefaultWidth, armed |-> TRUE]
  /\ opt.tag = CHOOSE t \in Tags : TRUE
ArmAtRest == ArmInit /\ ask = CHOOSE a \in Asks : TRUE
SessionInit ==
  \/ command = "arm" /\ ArmInit /\ PipeAtRest
  \/ command = "capture" /\ PipeInit /\ ArmAtRest

Arms == command = "arm" /\ ArmNext /\ UNCHANGED <<command, pipeVars>>
RunsCapture == command = "capture" /\ PipeNext /\ UNCHANGED <<command, armVars>>
LastRunOver == command = "capture" /\ Stops /\ run = MaxRuns /\ UNCHANGED sessionVars
SessionSpec == SessionInit /\ [][Arms \/ RunsCapture \/ LastRunOver]_sessionVars
=============================================================================
