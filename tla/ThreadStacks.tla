---------------------------- MODULE ThreadStacks ----------------------------
(* What the call-stack machine promises, whatever trace it is fed             *)
(* (include/cortrace/callstack.hpp:64-83): every thread has a call stack of   *)
(* its own, which only the thread's own instructions change; an exception has *)
(* one too, from its entry to its return, and no thread's stack changes while *)
(* one is being handled; a switch moves no frame. One instruction range       *)
(* leaves a prefix of the stack it runs on and at most one new frame, on top, *)
(* and never an empty stack.                                                  *)
EXTENDS Naturals, Sequences, SequencesExt

CONSTANTS Threads, Boot,
          Fresh   \* the stack of a thread that has not run

VARIABLES
  running,   \* the thread that runs, or is preempted
  stacks,    \* thread -> its call stack
  isrs,      \* the call stacks of the exceptions being handled, innermost last
  closed     \* the trace has ended

stackVars == <<running, stacks, isrs, closed>>

StackInit ==
  /\ running = Boot
  /\ stacks = [t \in Threads \cup {Boot} |-> Fresh]
  /\ isrs = <<>>
  /\ closed = FALSE

\* All of s but its top frame is a prefix of old.
Rewrites(old, s) ==
  /\ Len(s) \in 1 .. Len(old) + 1
  /\ \A i \in 1 .. Len(s) - 1 : s[i] = old[i]

RunThread ==
  /\ isrs = <<>>
  /\ Rewrites(stacks[running], stacks'[running])
  /\ stacks' = [stacks EXCEPT ![running] = stacks'[running]]
  /\ UNCHANGED <<running, isrs, closed>>
RunIsr ==
  /\ isrs # <<>> /\ Len(isrs') = Len(isrs)
  /\ Rewrites(Last(isrs), Last(isrs'))
  /\ isrs' = [isrs EXCEPT ![Len(isrs)] = Last(isrs')]
  /\ UNCHANGED <<running, stacks, closed>>
Interrupt ==
  /\ Len(isrs') = Len(isrs) + 1
  /\ isrs' = Append(isrs, Last(isrs'))
  /\ Len(Last(isrs')) = 1
  /\ UNCHANGED <<running, stacks, closed>>
Resume ==
  /\ isrs # <<>>
  /\ isrs' = Front(isrs)
  /\ UNCHANGED <<running, stacks, closed>>
\* The boot context is not a thread: its stack ends with the first switch.
Switch(t) ==
  /\ running' = t
  /\ stacks' = [stacks EXCEPT ![Boot] = Fresh]
  /\ UNCHANGED <<isrs, closed>>
Close ==
  /\ closed' = TRUE
  /\ isrs' = <<>>
  /\ \A t \in Threads \cup {Boot} : Len(stacks'[t]) = 1
  /\ UNCHANGED running

StackNext ==
  /\ ~closed
  /\ \/ RunThread \/ RunIsr \/ Interrupt \/ Resume \/ Close
     \/ \E t \in Threads : Switch(t)

StackSpec == StackInit /\ [][StackNext]_stackVars
=============================================================================
