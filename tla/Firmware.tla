------------------------------ MODULE Firmware ------------------------------
(* The traced target, outside this repository: what the ETM reports about.    *)
(* Threads and exception handlers run functions of four instructions:         *)
(*   [a, a+2)    the entry block, which may end in a call;                    *)
(*   [a+2, a+3)  a return, conditional if the function goes on;               *)
(*   [a+3, a+4)  a jump back to a+2, or a tail call.                          *)
(* Each block that runs is one instruction range of the trace. An exception   *)
(* comes between two blocks, or takes over on the branch that ends a block:   *)
(* that branch is reported, has no effect yet, and is run again after the     *)
(* exception returns. The RTOS switches threads inside an exception.          *)
EXTENDS Integers, Sequences, FiniteSets, SequencesExt

CONSTANTS
  Symbols,       \* entry address -> function name, entries four apart
  Threads, Exceptions, Boot,
  Start,         \* thread (or Boot) -> entry of the function it starts in
  Handler,       \* exception -> entry of its handler
  CallGraph,     \* <<caller, callee>> entries of the calls in the code
  GoesOn,        \* entries of the functions with a third block
  TailGraph,     \* <<caller, callee>> entries of its tail calls (b fn)
  MaxCalls,      \* bound: frames on a thread's stack
  MaxNesting     \* bound: the thread and its nested exceptions

VARIABLES
  cpu,       \* contexts, the running thread first, the innermost exception last
  running,   \* the thread whose context is cpu[1]
  idle       \* thread -> context, of the threads that are not running

cpuVars == <<cpu, running, idle>>

Running == cpu[Len(cpu)]
EntryOf(pc) == Max({a \in DOMAIN Symbols : a <= pc})
Offset(pc) == pc - EntryOf(pc)
EndOf(pc) == IF Offset(pc) < 2 THEN EntryOf(pc) + 2 ELSE pc + 1
CanCall(r) == Offset(r.start) < 2 /\ r.branch = "call"
CanReturn(r) == Offset(r.start) = 2 /\ r.branch = "return"

(* A frame: its function, where it returns to, and whether it was entered by  *)
(* a tail call and has not reached the function's body since.                 *)
FrameAt(a, ret) == [fn |-> Symbols[a], ret |-> ret, tail |-> FALSE]
ContextAt(a) == [pc |-> a, stk |-> << FrameAt(a, 0) >>, did |-> "other", held |-> FALSE,
                 end |-> 0]

CpuInit ==
  /\ cpu = << ContextAt(Start[Boot]) >>
  /\ running = Boot
  /\ idle = [t \in Threads |-> ContextAt(Start[t])]

\* r is the block that Running executes next; it then goes on as context c.
IsNext(r) == /\ r.start = Running.pc /\ r.end = EndOf(Running.pc)
             /\ ~Running.held /\ Running.did # "left"
Becomes(r, c) ==
  /\ cpu' = [cpu EXCEPT ![Len(cpu)] = [pc |-> c.pc, stk |-> c.stk, did |-> c.did,
                                       held |-> c.held, end |-> r.end]]
  /\ UNCHANGED <<running, idle>>

\* The frames once the block at r has run: past the entry block the trace shows the function.
Seen(r) == IF Offset(r.start) < 2 THEN Running.stk
           ELSE [Running.stk EXCEPT ![Len(Running.stk)].tail = FALSE]
ReRuns(branch) == Running.did \in {"other", "call", "return", branch}

FallThrough(r) ==
  /\ ReRuns("other")
  /\ Offset(r.start) = 2 => EntryOf(r.start) \in GoesOn
  /\ r.branch = "other"
  /\ Becomes(r,
       [pc |-> IF Offset(r.start) = 3 THEN r.start - 1 ELSE r.end,
        stk |-> Seen(r), did |-> "other", held |-> FALSE])
TailCall(r, a) ==
  /\ Offset(r.start) = 3
  /\ << EntryOf(r.start), a >> \in TailGraph
  /\ ReRuns("other")
  /\ r.branch = "other"
  /\ Becomes(r,
       [pc |-> a, did |-> "other", held |-> FALSE,
        stk |-> Append(Front(Running.stk),
                       [FrameAt(a, Last(Running.stk).ret) EXCEPT !.tail = TRUE])])
Call(r, a) ==
  /\ ReRuns("abortedCall")
  /\ << EntryOf(r.start), a >> \in CallGraph
  /\ CanCall(r)
  /\ Len(Running.stk) < MaxCalls
  /\ r.branch = "call"
  /\ Becomes(r,
       [pc |-> a, did |-> "call", held |-> FALSE,
        stk |-> Append(Seen(r), FrameAt(a, r.end))])
Return(r) ==
  /\ ReRuns("abortedReturn")
  /\ CanReturn(r)
  /\ Len(Running.stk) > 1
  /\ r.branch = "return"
  /\ Becomes(r,
       [pc |-> Last(Running.stk).ret, did |-> "return", held |-> FALSE,
        stk |-> Front(Running.stk)])
\* The branch that ends r is reported, and an exception takes over before it has any effect.
Abort(r) ==
  /\ ReRuns("other")
  /\ Len(cpu) < MaxNesting
  /\ \/ /\ CanCall(r)
        /\ \E a \in DOMAIN Symbols : << EntryOf(r.start), a >> \in CallGraph
        /\ Len(Running.stk) < MaxCalls
     \/ CanReturn(r) /\ Len(Running.stk) > 1
  /\ Becomes(r,
       [pc |-> r.end - 1, stk |-> Seen(r), held |-> TRUE,
        did |-> IF r.branch = "call" THEN "abortedCall" ELSE "abortedReturn"])
\* A handler's own exit: the exception return comes next.
HandlerExit(r) ==
  /\ CanReturn(r)
  /\ Len(cpu) > 1 /\ Len(Running.stk) = 1
  /\ Becomes(r, [Running EXCEPT !.did = "left"])

Execute(r) ==
  /\ IsNext(r)
  /\ \/ FallThrough(r)
     \/ \E a \in DOMAIN Symbols : TailCall(r, a)
     \/ \E a \in DOMAIN Symbols : Call(r, a)
     \/ Return(r)
     \/ Abort(r)
     \/ HandlerExit(r)

(* Two moments that the trace does not tell from others. An exception between *)
(* two executions of one branch instruction with nothing in between (a        *)
(* function that calls itself in its first block, the returns of nested       *)
(* calls) looks like one that took over on the branch.                        *)
AwkwardTake == ~Running.held /\ Running.end = EndOf(Running.pc)

(* And a switch, which is announced inside an exception: while a call of the  *)
(* preempted thread or of the handler has been reported and its callee has    *)
(* not run, or a branch of that thread is to be run again; or to a thread     *)
(* that goes on with the block that the other one ran last. A switch behind   *)
(* any other block, a return included, is not awkward.                        *)
AwkwardSwitch(t) ==
  \/ cpu[1].did \in {"call", "abortedCall", "abortedReturn"}
  \/ Running.did \in {"call", "abortedCall"}
  \/ cpu[1].end = EndOf(idle[t].pc)

Take(e) ==
  /\ Len(cpu) < MaxNesting
  /\ Running.did # "left"
  /\ \A i \in 2 .. Len(cpu) : cpu[i].stk[1].fn # Symbols[Handler[e]]
  /\ cpu' = Append([cpu EXCEPT ![Len(cpu)].held = FALSE], ContextAt(Handler[e]))
  /\ UNCHANGED <<running, idle>>

Leave ==
  /\ Running.did = "left"
  /\ cpu' = Front(cpu)
  /\ UNCHANGED <<running, idle>>

(* The RTOS picks another thread inside an exception. The block that last ran *)
(* outside the exceptions stays that of the thread they preempted, and is     *)
(* kept with no context that is switched out.                                 *)
Switch(t) ==
  /\ Len(cpu) > 1 /\ Running.did # "left"
  /\ t # running
  /\ cpu' = [cpu EXCEPT ![1] = [idle[t] EXCEPT !.end = cpu[1].end]]
  /\ idle' = IF running = Boot THEN idle ELSE [idle EXCEPT ![running] = [cpu[1] EXCEPT !.end = 0]]
  /\ running' = t
=============================================================================
