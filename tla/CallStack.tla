------------------------------ MODULE CallStack ------------------------------
(* The call-stack machine of src/callstack.cpp: it rebuilds one call stack    *)
(* per RTOS thread and one per active exception from the decoded trace        *)
(* elements, and appends a BEGIN or an END slice for every frame it pushes or *)
(* pops.                                                                      *)
(*                                                                            *)
(* The slices appended so far are summarised by what a viewer sees of them:   *)
(* for each lane (a thread, or an exception number) the number of BEGINs      *)
(* minus the number of ENDs, and whether an END ever found the lane empty.    *)
(* Counters of the metrics and of the edges are summarised by what the last   *)
(* call added to them. Ticks, byte offsets, time stamps and the expected      *)
(* return address (only ever logged) are left out.                            *)
EXTENDS Integers, Sequences, FiniteSets, SequencesExt

CONSTANTS
  Symbols,      \* the symbol table: entry address -> function name
  Ranges,       \* instruction ranges: [start, end, branch]
  Threads,      \* RTOS thread ids passed to switch_thread
  Exceptions,   \* exception numbers
  Boot,         \* kThreadBoot: what runs before the first switch
  Root,         \* "<root>"
  Unknown,      \* "?": the name of an address below every symbol
  NoCall, NoRange, NoEdge,
  MaxOpen,      \* bound: slices open at once, on all lanes
  MaxContexts,  \* bound: nested contexts (the thread and its exceptions)
  MaxGaps       \* bound: discontinuities in one trace

Functions == {Symbols[a] : a \in DOMAIN Symbols}
Names == Functions \cup Exceptions \cup {Root, Unknown}
Lanes == Threads \cup Exceptions \cup {Boot}
Branches == {"call", "return", "other"}

ASSUME SymbolsAssumption ==
  /\ DOMAIN Symbols \subseteq Nat
  /\ IsFiniteSet(DOMAIN Symbols)
ASSUME RangesAssumption == Ranges \subseteq [start : Nat, end : Nat, branch : Branches]
ASSUME LanesAssumption ==
  /\ Threads \cap Exceptions = {}
  /\ Boot \notin Threads \cup Exceptions
  /\ Root \notin Exceptions
ASSUME MarkersAssumption ==
  /\ NoCall \notin [by : Lanes, gap : Nat]
  /\ NoRange \notin [start : Nat, end : Nat]
  /\ NoEdge \notin Names \X Names
ASSUME BoundsAssumption ==
  /\ MaxOpen \in Nat
  /\ MaxContexts \in Nat
  /\ MaxGaps \in Nat

VARIABLES
  ctx,         \* ctx_: the context stack; ctx[1] is the running thread
  curThread,   \* cur_thread_: whose stack ctx[1] holds
  parked,      \* parked_: the stacks of the threads switched out
  gaps,        \* gaps_
  pending,     \* pending_call_ (with who announced it, and in which gap-free stretch)
  afterBlind,  \* after_blind_
  reexec,      \* the window of reexec_start_/reexec_end_, NoRange unless check_reexec_
  open,        \* slices_, summarised: BEGINs minus ENDs of each lane
  unbegun,     \* slices_, summarised: the lanes on which an END found nothing open
  edge,        \* edges_: the edge that the last call counted
  noted,       \* metrics_: the diagnostics that the last call counted
  finished     \* finish() was called

core == <<ctx, curThread, parked, gaps, pending, afterBlind, reexec>>
slices == <<open, unbegun>>
vars == <<core, slices, edge, noted, finished>>

------------------------------------------------------------------------------
(* The symbol table: function_at is the greatest symbol at or below the       *)
(* address, is_function_entry an exact match.                                 *)
IsFunctionEntry(a) == a \in DOMAIN Symbols
Covering(a) == {s \in DOMAIN Symbols :
                  s <= a /\ \A u \in DOMAIN Symbols : u <= a => u <= s}
FunctionAt(a) == IF Covering(a) = {} THEN Unknown
                 ELSE Symbols[CHOOSE s \in Covering(a) : TRUE]

RoomForSlice == MapThenSumSet(LAMBDA l : open[l], Lanes) < MaxOpen

Innermost == ctx[Len(ctx)]
CurLaneOfThread == curThread
CurLane == IF Len(ctx) = 1 THEN curThread ELSE Innermost.track
MainTrack == Root
FreshStack == << [fn |-> Root, gap |-> 0] >>

(* Where the frames of thread t are: in the base context, parked, or not      *)
(* there yet.                                                                 *)
StackOf(t) == IF t = curThread THEN ctx[1].stack
              ELSE IF t \in DOMAIN parked THEN parked[t]
              ELSE FreshStack

------------------------------------------------------------------------------
(* A stack being rewritten by one call of process(), with the slices of its   *)
(* lane: do_call, do_return and the reconciliation work on it in turn.        *)
Book == [stack   |-> Innermost.stack,
         open    |-> open[CurLane],
         unbegun |-> CurLane \in unbegun]

Push(b, fn) == [stack   |-> Append(b.stack, [fn |-> fn, gap |-> gaps]),
                open    |-> b.open + 1,
                unbegun |-> b.unbegun]
PopTo(b, depth) == LET n == Len(b.stack) - depth IN
  [stack   |-> SubSeq(b.stack, 1, depth),
   open    |-> b.open - n,
   unbegun |-> b.unbegun \/ b.open < n]
Pop(b) == PopTo(b, Len(b.stack) - 1)

IsStaleInAnyStretch(b, callee) == Last(b.stack).fn = callee
IsStale(b, callee) == Last(b.stack).fn = callee /\ Last(b.stack).gap # gaps
DoCall(b, callee) == Push(IF IsStale(b, callee) THEN Pop(b) ELSE b, callee)

\* do_return pops, except the last frame: that of the ISR itself, or a thread's root.
DoReturnToNothing(b) == IF Len(b.stack) >= 1 THEN Pop(b) ELSE b
DoReturn(b) == IF Len(b.stack) > 1 THEN Pop(b) ELSE b

RelabelTop(b, fn) == [stack   |-> [b.stack EXCEPT ![Len(b.stack)].fn = fn],
                      open    |-> b.open,
                      unbegun |-> b.unbegun]

(* Make the top frame agree with the range that just ran: unwind to the       *)
(* highest frame below that is resumed in its middle, or rename the top.      *)
Below(b, fn) == {i \in 1 .. Len(b.stack) - 1 :
                   /\ b.stack[i].fn = fn
                   /\ \A j \in i + 1 .. Len(b.stack) - 1 : b.stack[j].fn # fn}
UnwindTo(b, fn) == PopTo(b, CHOOSE i \in Below(b, fn) : TRUE)
Unwinds(b, start) == /\ Last(b.stack).fn # FunctionAt(start)
                     /\ Below(b, FunctionAt(start)) # {}
                     /\ ~IsFunctionEntry(start)
ReconcileAnywhere(b, start) ==
  LET fn == FunctionAt(start) IN
  IF Last(b.stack).fn = fn THEN b
  ELSE IF Below(b, fn) # {} THEN UnwindTo(b, fn)
  ELSE IF IsFunctionEntry(start) THEN b
  ELSE RelabelTop(b, fn)
Reconcile(b, start) ==
  LET fn == FunctionAt(start) IN
  IF Unwinds(b, start) THEN UnwindTo(b, fn)
  ELSE IF Last(b.stack).fn = fn \/ (IsFunctionEntry(start) /\ Below(b, fn) = {}) THEN b
  ELSE RelabelTop(b, fn)

\* The same branch a second time, run again after the exception that took over on it.
RunsAgain(r) == /\ reexec # NoRange
                /\ r.branch # "other"
                /\ r.end = reexec.end
                /\ r.start >= reexec.start
                /\ r.start < reexec.end

Confirms(r) == /\ pending # NoCall
               /\ ~RunsAgain(r)
               /\ ~afterBlind
               /\ IsFunctionEntry(r.start)

AfterCall(r) == IF Confirms(r) THEN DoCall(Book, FunctionAt(r.start)) ELSE Book
AfterReconcile(r) == IF RunsAgain(r) THEN AfterCall(r)
                     ELSE Reconcile(AfterCall(r), r.start)
AfterRange(r) == IF r.branch = "return" /\ ~RunsAgain(r) THEN DoReturn(AfterReconcile(r))
                 ELSE AfterReconcile(r)

CountedEdge(r) ==
  IF ~Confirms(r) THEN NoEdge
  ELSE LET callee == FunctionAt(r.start)
           b == IF IsStale(Book, callee) THEN Pop(Book) ELSE Book
       IN << IF b.stack = <<>> THEN Root ELSE Last(b.stack).fn, callee >>

Diagnostics(r) ==
  {d \in {"dropped", "recovered", "mismatched"} :
     \/ /\ d = "dropped"
        /\ pending # NoCall /\ ~RunsAgain(r) /\ ~Confirms(r)
     \/ /\ d = "recovered"
        /\ \/ Confirms(r) /\ IsStale(Book, FunctionAt(r.start))
           \/ ~RunsAgain(r) /\ Unwinds(AfterCall(r), r.start)
     \/ /\ d = "mismatched"
        /\ r.branch = "return" /\ ~RunsAgain(r)
        /\ Len(ctx) = 1 /\ Len(AfterReconcile(r).stack) = 1}

------------------------------------------------------------------------------
Init ==
  /\ ctx = << [track |-> MainTrack, stack |-> FreshStack,
               pending |-> NoCall, last |-> NoRange] >>
  /\ curThread = Boot
  /\ parked = [t \in {} |-> FreshStack]
  /\ gaps = 0
  /\ pending = NoCall
  /\ afterBlind = FALSE
  /\ reexec = NoRange
  /\ open = [l \in Lanes |-> 0]
  /\ unbegun = {}
  /\ edge = NoEdge
  /\ noted = {}
  /\ finished = FALSE

\* process(InstrRange): resolve the pending call, reconcile, then the branch that ends it.
InstrRange(r) ==
  LET b == AfterRange(r) IN
  /\ ~finished
  /\ Confirms(r) => RoomForSlice
  /\ ctx' = [ctx EXCEPT ![Len(ctx)] = [track |-> Innermost.track, stack |-> b.stack,
                                       pending |-> Innermost.pending,
                                       last |-> [start |-> r.start, end |-> r.end]]]
  /\ open' = [open EXCEPT ![CurLane] = b.open]
  /\ unbegun' = IF b.unbegun THEN unbegun \cup {CurLane} ELSE unbegun
  /\ pending' = IF r.branch = "call" THEN [by |-> CurLane, gap |-> gaps] ELSE NoCall
  /\ afterBlind' = FALSE
  /\ reexec' = NoRange
  /\ edge' = CountedEdge(r)
  /\ noted' = Diagnostics(r)
  /\ UNCHANGED <<curThread, parked, gaps, finished>>

\* process(Exception): park the announced call and open a context on the exception's track.
Exception(e) ==
  /\ ~finished
  /\ Len(ctx) < MaxContexts /\ RoomForSlice
  /\ ctx' = Append([ctx EXCEPT ![Len(ctx)].pending = pending],
                   [track |-> e, stack |-> << [fn |-> e, gap |-> 0] >>,
                    pending |-> NoCall, last |-> NoRange])
  /\ open' = [open EXCEPT ![e] = @ + 1]
  /\ pending' = NoCall
  /\ edge' = NoEdge /\ noted' = {}
  /\ UNCHANGED <<curThread, parked, gaps, afterBlind, reexec, unbegun, finished>>

\* process(ExceptionRet): close the exception's frames and resume the preempted context.
LeaveContext ==
  LET n == Len(Innermost.stack)
      resumed == ctx[Len(ctx) - 1]
  IN
  /\ ~finished
  /\ Len(ctx) > 1
  /\ open' = [open EXCEPT ![CurLane] = @ - n]
  /\ unbegun' = IF open[CurLane] < n THEN unbegun \cup {CurLane} ELSE unbegun
  /\ ctx' = [Front(ctx) EXCEPT ![Len(ctx) - 1].pending = NoCall]
  /\ pending' = resumed.pending
  /\ reexec' = resumed.last
  /\ afterBlind' = (pending' = NoCall)
  /\ edge' = NoEdge /\ noted' = {}
  /\ UNCHANGED <<curThread, parked, gaps, finished>>

\* An exception return with no exception open: its entry was not in the trace.
UnmatchedExceptionRet ==
  /\ ~finished
  /\ Len(ctx) = 1
  /\ pending' = NoCall
  /\ afterBlind' = TRUE
  /\ edge' = NoEdge /\ noted' = {}
  /\ UNCHANGED <<ctx, curThread, parked, gaps, reexec, slices, finished>>

ExceptionRet == LeaveContext \/ UnmatchedExceptionRet

\* process(AddrNacc), process(TraceOn): nothing that straddles the gap survives.
DiscontinuityKeepsCall ==
  /\ ~finished
  /\ gaps < MaxGaps
  /\ gaps' = gaps + 1
  /\ reexec' = NoRange
  /\ afterBlind' = TRUE
  /\ edge' = NoEdge /\ noted' = {}
  /\ UNCHANGED <<ctx, curThread, parked, pending, slices, finished>>
Discontinuity ==
  /\ ~finished
  /\ gaps < MaxGaps
  /\ gaps' = gaps + 1
  /\ reexec' = NoRange
  /\ afterBlind' = TRUE
  /\ pending' = NoCall
  /\ noted' = IF pending # NoCall THEN {"dropped"} ELSE {}
  /\ edge' = NoEdge
  /\ UNCHANGED <<ctx, curThread, parked, slices, finished>>

\* switch_thread: park the running thread's stack (the boot context's frames end instead) and
\* take up the new thread's. The contexts of active exceptions are not touched.
Without(f, x) == Restrict(f, DOMAIN f \ {x})
With(f, x, v) == [y \in DOMAIN f \cup {x} |-> IF y = x THEN v ELSE f[y]]
ParkedAfterLeaving == IF curThread = Boot THEN parked
                      ELSE With(parked, curThread, ctx[1].stack)
TakeUpInnermost(t) ==
  /\ ctx' = [ctx EXCEPT ![Len(ctx)].stack = StackOf(t)]
  /\ parked' = Without(ParkedAfterLeaving, t)
TakeUp(t) == /\ ctx' = [ctx EXCEPT ![1].stack = StackOf(t)]
             /\ parked' = Without(ParkedAfterLeaving, t)
EndBootSilently == UNCHANGED slices
EndBoot == LET n == Len(ctx[1].stack) - 1 IN
  IF curThread = Boot
  THEN /\ open' = [open EXCEPT ![Boot] = @ - n]
       /\ unbegun' = IF open[Boot] < n THEN unbegun \cup {Boot} ELSE unbegun
  ELSE UNCHANGED slices
SwitchThread(t) ==
  /\ ~finished
  /\ t # curThread
  /\ TakeUp(t)
  /\ EndBoot
  /\ curThread' = t
  /\ pending' = NoCall
  /\ edge' = NoEdge /\ noted' = {}
  /\ UNCHANGED <<gaps, afterBlind, reexec, finished>>

\* finish: end every open frame, of the innermost context first, and of the parked threads.
ContextsOn(e) == {i \in 2 .. Len(ctx) : ctx[i].track = e}
FramesOn(l) ==
  IF l \in Exceptions THEN MapThenSumSet(LAMBDA i : Len(ctx[i].stack), ContextsOn(l))
  ELSE Len(StackOf(l)) - 1
FinishRunning ==
  /\ ~finished
  /\ finished' = TRUE
  /\ LET ends == [l \in Lanes |-> IF l \in DOMAIN parked THEN 0 ELSE FramesOn(l)] IN
     /\ open' = [l \in Lanes |-> open[l] - ends[l]]
     /\ unbegun' = unbegun \cup {l \in Lanes : open[l] < ends[l]}
  /\ ctx' = << [ctx[1] EXCEPT !.stack = SubSeq(@, 1, 1)] >>
  /\ parked' = [t \in {} |-> FreshStack]
  /\ edge' = NoEdge /\ noted' = {}
  /\ UNCHANGED <<curThread, gaps, pending, afterBlind, reexec>>
Finish ==
  /\ ~finished
  /\ finished' = TRUE
  /\ open' = [l \in Lanes |-> open[l] - FramesOn(l)]
  /\ unbegun' = unbegun \cup {l \in Lanes : open[l] < FramesOn(l)}
  /\ ctx' = << [ctx[1] EXCEPT !.stack = SubSeq(@, 1, 1)] >>
  /\ parked' = [t \in {} |-> FreshStack]
  /\ edge' = NoEdge /\ noted' = {}
  /\ UNCHANGED <<curThread, gaps, pending, afterBlind, reexec>>

Next == \/ \E r \in Ranges : InstrRange(r)
        \/ \E e \in Exceptions : Exception(e)
        \/ ExceptionRet
        \/ Discontinuity
        \/ \E t \in Threads : SwitchThread(t)
        \/ Finish

Spec == Init /\ [][Next]_vars

------------------------------------------------------------------------------
Frames == [fn : Names, gap : Nat]
Stacks == Seq(Frames) \ {<<>>}
Calls == [by : Lanes, gap : Nat] \cup {NoCall}
Windows == [start : Nat, end : Nat] \cup {NoRange}
Contexts == [track : Exceptions \cup {MainTrack}, stack : Stacks,
             pending : Calls, last : Windows]

(* Types, with the fact that the code relies on wherever it writes            *)
(* stack.back(): no stack is ever empty, an exception's context included, so  *)
(* the log line of callstack.cpp:192 never reads past the end of a vector.    *)
TypeOK ==
  /\ ctx \in Seq(Contexts) \ {<<>>}
  /\ \A i \in 1 .. Len(ctx) : ctx[i].track = MainTrack <=> i = 1
  /\ curThread \in Threads \cup {Boot}
  /\ DOMAIN parked \subseteq Threads \ {curThread}
  /\ parked \in [DOMAIN parked -> Stacks]
  /\ gaps \in Nat
  /\ pending \in Calls
  /\ afterBlind \in BOOLEAN
  /\ reexec \in Windows
  /\ DOMAIN open = Lanes
  /\ ~finished => open \in [Lanes -> Int]
  /\ unbegun \subseteq Lanes
  /\ edge \in (Names \X Names) \cup {NoEdge}
  /\ noted \subseteq {"dropped", "recovered", "mismatched"}
  /\ finished \in BOOLEAN

(* The slices of a thread's lane account for its stack, wherever that stack   *)
(* is: BEGINs minus ENDs is the number of frames above the root, whether the  *)
(* thread runs, was switched out, was interrupted or never ran.               *)
ThreadLaneAccounts == \A t \in Threads \cup {Boot} : open[t] = Len(StackOf(t)) - 1

(* The same of an exception's lane: all the contexts on its track, which may  *)
(* be several when an exception return was lost, and nothing else.            *)
IsrLaneAccounts == \A e \in Exceptions : open[e] = FramesOn(e)

(* docs/00 invariant 1: after finish() every lane is balanced, depth 0.       *)
BalancedAtFinish == finished => \A l \in Lanes : open[l] = 0

(* docs/00-architecture.md:130, invariant 3: depth is never negative, which   *)
(* is to say that no END finds its lane empty.                                *)
DepthNeverNegative == unbegun = {}

(* The END that breaks it comes from one place only, the blind-spot guard of  *)
(* do_call on a stack of one frame: never from an unwinding, a return, an     *)
(* exception return, a switch or finish(). This is proved, not checked.       *)
UnbegunEndsAreReentries ==
  [][unbegun' # unbegun =>
       Len(ctx) = 1 /\ Len(ctx[1].stack) = 1 /\ edge' # NoEdge /\ edge'[1] = Root]_vars

(* After a blind spot no announced call is left to be confirmed: nothing can  *)
(* be pushed across it before a new call instruction is seen.                 *)
BlindSpotForgetsCall == afterBlind => pending = NoCall

(* Whatever it is fed, the machine keeps the threads' stacks apart: see       *)
(* ThreadStacks. A step that is none of its steps would be one that touches a *)
(* preempted or switched-out stack, or loses one in a switch.                 *)
Separate == INSTANCE ThreadStacks WITH
  Fresh <- FreshStack,
  running <- curThread,
  stacks <- [t \in Threads \cup {Boot} |-> StackOf(t)],
  isrs <- [i \in 1 .. Len(ctx) - 1 |-> ctx[i + 1].stack],
  closed <- finished
KeepsStacksApart == Separate!StackSpec

=============================================================================
