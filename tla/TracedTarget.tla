---------------------------- MODULE TracedTarget ----------------------------
(* The call-stack machine fed with a trace from which nothing is lost: every  *)
(* step of the target is one call of process() or switch_thread(), as the     *)
(* sink of tools/cortrace_decode.cpp makes them (switch_thread as soon as the *)
(* RTOS announces a switch, process() for every element).                     *)
EXTENDS CallStack

CONSTANTS
  Start, Handler, CallGraph, TailGraph, GoesOn, MaxCalls, MaxNesting,
  PastAwkward   \* bound: whether a trace is followed past its first awkward moment

(* A program is laid out as Firmware says: functions of four instructions,    *)
(* that start, handle exceptions, and call where there is a function.         *)
ASSUME ProgramAssumption ==
  /\ \A a, b \in DOMAIN Symbols : a < b => a + 4 <= b
  /\ Start \in [Threads \cup {Boot} -> DOMAIN Symbols]
  /\ Handler \in [Exceptions -> DOMAIN Symbols]
  /\ CallGraph \cup TailGraph \subseteq (DOMAIN Symbols) \X (DOMAIN Symbols)

VARIABLES
  cpu, running, idle,
  awkward   \* history: a moment of Firmware's AwkwardTake or AwkwardSwitch has come

Target == INSTANCE Firmware

targetVars == <<vars, cpu, running, idle, awkward>>

TargetInit == Init /\ Target!CpuInit /\ awkward = FALSE

Followed == awkward => PastAwkward
RangeTraced ==
  /\ Followed
  /\ \E r \in Ranges : Target!Execute(r) /\ InstrRange(r)
  /\ UNCHANGED awkward
ExceptionTraced ==
  /\ Followed
  /\ \E e \in Exceptions : Target!Take(e) /\ Exception(e)
  /\ awkward' = (awkward \/ Target!AwkwardTake)
ExceptionRetTraced ==
  /\ Followed
  /\ Target!Leave /\ ExceptionRet
  /\ UNCHANGED awkward
SwitchTraced ==
  /\ Followed
  /\ \E t \in Threads : /\ Target!Switch(t) /\ SwitchThread(t)
                       /\ awkward' = (awkward \/ Target!AwkwardSwitch(t))
LeftThere == ~Followed /\ UNCHANGED targetVars

TargetNext == RangeTraced \/ ExceptionTraced \/ ExceptionRetTraced \/ SwitchTraced \/ LeftThere

TargetSpec == TargetInit /\ [][TargetNext]_targetVars

------------------------------------------------------------------------------
ContextOf(t) == IF t = running THEN cpu[1] ELSE idle[t]

(* The machine pushes a callee when its first range arrives and pops at the   *)
(* range that ends in the return, which an exception may keep from happening. *)
Shown(c) == IF c.did \in {"call", "abortedReturn"} THEN Front(c.stk) ELSE c.stk

Agrees(rebuilt, c) ==
  /\ Len(rebuilt) = Len(Shown(c))
  /\ \A i \in 2 .. Len(rebuilt) : c.stk[i].tail \/ rebuilt[i].fn = c.stk[i].fn

StacksAgree ==
  /\ \A t \in Threads \cup {running} : Agrees(StackOf(t), ContextOf(t))
  /\ Len(ctx) = Len(cpu)
  /\ \A i \in 2 .. Len(ctx) : Agrees(ctx[i].stack, cpu[i])

NothingNoted == noted = {}

(* On a lossless trace the rebuilt stacks are the target's: those of every    *)
(* thread, running or not, and those of the exceptions in progress, frame by  *)
(* frame (a frame entered by a tail call may keep the old name until the      *)
(* function's body is reached); and no call is counted as dropped, no return  *)
(* as mismatched or recovered. This holds up to the first awkward moment of   *)
(* the trace, an exception between two executions of one branch or a switch   *)
(* behind a call: from there on nothing is claimed, see CallIsTheRunningLanes.*)
RebuiltAsRun == ~awkward => StacksAgree /\ NothingNoted

(* switch_thread (callstack.cpp:98-100) says of the call that is announced:   *)
(* one "announced by the last range of the thread that was left is not the    *)
(* new thread's". The call that waits for its callee belongs to what runs.    *)
CallIsTheRunningLanes == pending # NoCall => pending.by = CurLane
=============================================================================
