---------------------------- MODULE TargetProofs -----------------------------
(* Proofs about TracedTarget: on a lossless trace of any program laid out as  *)
(* ProgramAssumption says, the machine rebuilds what ran.                     *)
EXTENDS TracedTarget, CallStackProofs

(* What the machine knows of the target that it traces, at any moment:        *)
(* TargetInv below, an invariant of TargetSpec. Its parts are about one       *)
(* context c of the target and the rebuilt stack s, or the record k, of it.   *)
Aborted == {"abortedCall", "abortedReturn"}
Calling == {"call", "abortedCall"}

\* pc is in the function of that name, at most three instructions behind its entry.
In(pc, fn) == \E a \in DOMAIN Symbols : pc \in a .. a + 3 /\ fn = Symbols[a]
TargetFrames == [fn : Functions, ret : Nat, tail : BOOLEAN]
TargetContexts == [pc : Nat, stk : Seq(TargetFrames), end : Nat, held : BOOLEAN,
                   did : {"other", "call", "return", "left"} \cup Aborted]

(* A context of the target: it runs the function on top of its stack, every   *)
(* frame returns behind a call of the one below, and a branch has been        *)
(* reported where it says so.                                                 *)
Coherent(c) ==
  /\ c \in TargetContexts /\ Len(c.stk) >= 1
  /\ In(c.pc, c.stk[Len(c.stk)].fn)
  /\ \A i \in 2 .. Len(c.stk) :
       \E a \in DOMAIN Symbols : c.stk[i].ret = a + 2 /\ c.stk[i - 1].fn = Symbols[a]
  /\ c.did \in {"call", "abortedReturn"} => Len(c.stk) >= 2
  /\ c.did = "call" => c.pc \in DOMAIN Symbols
  /\ c.did = "abortedCall" => c.pc - 1 \in DOMAIN Symbols
  /\ c.did = "abortedReturn" => c.pc - 2 \in DOMAIN Symbols
  /\ c.held => c.did \in Aborted

(* The rebuilt stack s is that of the context, but for names: those of the    *)
(* lowest frame and of frames entered by a tail call may be old. An old name  *)
(* hides no frame: no frame below has the name it should be, once the         *)
(* function has run.                                                          *)
HasOldName(s, c, i) ==
  /\ i = 1 \/ c.stk[i].tail
  /\ \/ i = Len(c.stk) /\ c.pc \in DOMAIN Symbols /\ c.did = "other"
     \/ \A j \in 1 .. i - 1 : s[j].fn # c.stk[i].fn
Matches(s, c) ==
  /\ Len(s) = Len(Shown(c))
  /\ \A i \in 1 .. Len(s) : s[i].gap = 0
  /\ \A i \in 1 .. Len(s) : s[i].fn = c.stk[i].fn \/ HasOldName(s, c, i)

(* The window is that of the branch that c is about to run again.             *)
Again(window, c) ==
  /\ window # NoRange
  /\ window.end = Target!EndOf(c.pc) /\ window.start <= c.pc /\ c.pc < window.end
Elsewhere(window, c) == window = NoRange \/ window.end # Target!EndOf(c.pc)
LastBlock(k, c) == k.last # NoRange => k.last.end = c.end

\* A preempted context c and what the machine keeps of it, k.
Preempted(k, c) ==
  /\ ~c.held /\ c.did # "left"
  /\ k.pending # NoCall <=> c.did \in Calling
  /\ IF c.did \in Aborted THEN Again(k.last, c) ELSE Elsewhere(k.last, c)
  /\ LastBlock(k, c)

\* The context that runs.
NotRunYet(c) == Len(c.stk) = 1 /\ c.did = "other" /\ c.pc \in DOMAIN Symbols
Runs(k, c, announced, window) ==
  /\ announced # NoCall <=> c.did \in Calling
  /\ IF c.did \in Aborted
       THEN IF c.held THEN Again(k.last, c) ELSE Again(window, c) /\ c.end = Target!EndOf(c.pc)
       ELSE Elsewhere(window, c) \/ NotRunYet(c)
  /\ LastBlock(k, c)

\* A thread that is switched out.
Waits(s, c) == Coherent(c) /\ c.did \in {"other", "return"} /\ Matches(s, c)

(* No gap, nothing noted; the contexts of the two sides correspond one to one, *)
(* and so do the stacks of the threads that are switched out.                  *)
TargetInv ==
  /\ gaps = 0 /\ noted = {} /\ curThread = running /\ Len(cpu) = Len(ctx)
  /\ DOMAIN idle = Threads
  /\ cpu \in Seq(TargetContexts)
  /\ \A i \in 1 .. Len(cpu) : Coherent(cpu[i]) /\ Matches(ctx[i].stack, cpu[i])
  /\ \A i \in 1 .. Len(cpu) - 1 : Preempted(ctx[i], cpu[i])
  /\ Runs(ctx[Len(cpu)], cpu[Len(cpu)], pending, reexec)
  /\ cpu[Len(cpu)].did = "left" => Len(cpu) >= 2
  /\ \A t \in Threads \ {running} : Waits(StackOf(t), idle[t])

(* The four instructions of a function, and the symbol that covers them.      *)
LEMMA Places ==
  ASSUME NEW a \in DOMAIN Symbols, NEW pc \in a .. a + 3
  PROVE  /\ Target!EntryOf(pc) = a /\ Target!Offset(pc) = pc - a
         /\ Target!EndOf(pc) = IF pc - a < 2 THEN a + 2 ELSE pc + 1
         /\ FunctionAt(pc) = Symbols[a]
         /\ IsFunctionEntry(pc) <=> pc = a
         /\ a \in Nat /\ pc \in Nat
<1>1. a \in Nat /\ pc \in Nat /\ \A b \in DOMAIN Symbols : b \in Nat  BY SymbolsAssumption
<1>2. \A b \in DOMAIN Symbols : b <= pc => b <= a
  <2> SUFFICES ASSUME NEW b \in DOMAIN Symbols, b <= pc, a < b PROVE FALSE
    BY <1>1
  <2>1. a + 4 <= b  BY ProgramAssumption
  <2> QED BY <1>1, <2>1
<1> DEFINE B == {b \in DOMAIN Symbols : b <= pc}
<1>3. a \in B /\ \A b \in B : a >= b  BY <1>1, <1>2
<1>4. \A x \in B : (\A y \in B : x >= y) => x = a
  <2> SUFFICES ASSUME NEW x \in B, \A y \in B : x >= y PROVE x = a
    OBVIOUS
  <2>1. x >= a /\ a >= x /\ x \in Nat  BY <1>1, <1>3
  <2> QED BY <1>1, <2>1
<1>5. Max(B) = a
  <2> HIDE DEF B
  <2>1. Max(B) = CHOOSE x \in B : \A y \in B : x >= y  BY DEF Max
  <2> QED BY <1>3, <1>4, <2>1
<1>6. Target!EntryOf(pc) = a  BY <1>5 DEF Target!EntryOf, Target!Max, Max
<1>7. Covering(pc) = {a}  BY <1>1, <1>2 DEF Covering
<1>8. FunctionAt(pc) = Symbols[a]  BY <1>7 DEF FunctionAt
<1>9. IsFunctionEntry(pc) <=> pc = a
  <2>1. pc \in DOMAIN Symbols => pc = a  BY <1>1, <1>2
  <2> QED BY <2>1 DEF IsFunctionEntry
<1> QED BY <1>1, <1>6, <1>8, <1>9 DEF Target!Offset, Target!EndOf

\* Nothing below: no frame below the top has the name.
LEMMA BelowNone ==
  ASSUME NEW b, b.stack \in Seq(Frames), NEW fn
  PROVE  Below(b, fn) = {} <=> \A j \in 1 .. Len(b.stack) - 1 : b.stack[j].fn # fn
<1> DEFINE n == Len(b.stack)
           T == {k \in 0 .. n : n - k \in 1 .. n - 1 /\ b.stack[n - k].fn = fn}
<1>1. n \in Nat  OBVIOUS
<1>2. ASSUME NEW j \in 1 .. n - 1, b.stack[j].fn = fn PROVE Below(b, fn) # {}
  <2>1. n - j \in 0 .. n /\ n - (n - j) = j  BY <1>1
  <2>2. n - j \in T  BY <1>2, <2>1
  <2>3. T \in SUBSET Nat  BY <1>1
  <2> HIDE DEF T
  <2>9. T # {}  BY <2>2
  <2>4. PICK k \in T : \A m \in T : k <= m  BY <2>3, <2>9, LeastNumber
  <2>5. n - k \in 1 .. n - 1 /\ b.stack[n - k].fn = fn /\ k \in Nat  BY <2>4 DEF T
  <2>6. ASSUME NEW i \in n - k + 1 .. n - 1, b.stack[i].fn = fn PROVE FALSE
    <3>1. n - i \in 0 .. n /\ n - (n - i) = i /\ i \in 1 .. n - 1 /\ n - i < k
      BY <1>1, <2>5
    <3>2. n - i \in T  BY <2>6, <3>1 DEF T
    <3> QED BY <2>4, <2>5, <3>1, <3>2
  <2>7. n - k \in Below(b, fn)  BY <2>5, <2>6 DEF Below
  <2> QED BY <2>7
<1> QED BY <1>2 DEF Below

\* The reconciliation unwinds nothing when the frames below do not have the name.
LEMMA Reconciled ==
  ASSUME NEW b, b.stack \in Seq(Frames) \ {<<>>}, NEW start,
         \/ b.stack[Len(b.stack)].fn = FunctionAt(start)
         \/ IsFunctionEntry(start)
         \/ \A j \in 1 .. Len(b.stack) - 1 : b.stack[j].fn # FunctionAt(start)
  PROVE  LET n == Len(b.stack)
             out == Reconcile(b, start).stack IN
         /\ ~Unwinds(b, start)
         /\ out \in Seq(Frames) /\ Len(out) = n
         /\ \A j \in 1 .. n - 1 : out[j] = b.stack[j]
         /\ out[n].gap = b.stack[n].gap
         /\ \/ out[n].fn = FunctionAt(start)
            \/ /\ IsFunctionEntry(start) /\ out[n] = b.stack[n]
               /\ \A j \in 1 .. n - 1 : out[j].fn # FunctionAt(start)
<1> DEFINE n == Len(b.stack)
           fn == FunctionAt(start)
           out == Reconcile(b, start).stack
<1>1. n \in Nat \ {0} /\ b.stack \in Seq(Frames) /\ Last(b.stack) = b.stack[n]  BY DEF Last
<1>2. ~Unwinds(b, start)  BY <1>1, BelowNone DEF Unwinds
<1>3. CASE b.stack[n].fn = fn \/ (IsFunctionEntry(start) /\ Below(b, fn) = {})
  <2>1. Reconcile(b, start) = b  BY <1>1, <1>2, <1>3 DEF Reconcile
  <2> QED BY <1>1, <1>2, <1>3, <2>1, BelowNone
<1>4. CASE ~(b.stack[n].fn = fn \/ (IsFunctionEntry(start) /\ Below(b, fn) = {}))
  <2>1. Reconcile(b, start) = RelabelTop(b, fn)  BY <1>1, <1>2, <1>4 DEF Reconcile
  <2>2. out = [b.stack EXCEPT ![n].fn = fn]  BY <2>1 DEF RelabelTop
  <2>3. fn \in Names /\ b.stack[n] \in Frames  BY <1>1, FunctionAtIsName
  <2> DEFINE x == [b.stack[n] EXCEPT !.fn = fn]
  <2>4. x \in Frames /\ x.fn = fn /\ x.gap = b.stack[n].gap  BY <2>3 DEF Frames
  <2>5. out = [b.stack EXCEPT ![n] = x]  BY <2>2
  <2> HIDE DEF x, out, n, fn
  <2>6. /\ out \in Seq(Frames) /\ Len(out) = Len(b.stack) /\ out[n] = x
        /\ \A j \in 1 .. n - 1 : out[j] = b.stack[j]
    BY <1>1, <2>4, <2>5 DEF n
  <2> QED BY <1>2, <2>4, <2>6 DEF n, out, fn
<1> QED BY <1>3, <1>4

------------------------------------------------------------------------------
(* One instruction range: the rebuilt stack before the branch that ends it.   *)
Reached(c) == IF c.did = "abortedReturn" THEN Len(c.stk) - 1 ELSE Len(c.stk)
OldBelow(s, c, i) ==
  /\ i = 1 \/ c.stk[i].tail
  /\ \A j \in 1 .. i - 1 : s[j].fn # c.stk[i].fn
Ran(s, c) ==
  /\ s \in Seq(Frames) /\ Len(s) = Reached(c)
  /\ \A i \in 1 .. Len(s) : s[i].gap = 0
  /\ \A i \in 1 .. Len(s) : s[i].fn = c.stk[i].fn \/ OldBelow(s, c, i)
  /\ c.pc \notin DOMAIN Symbols /\ c.did \notin Aborted =>
       s[Len(s)].fn = c.stk[Len(s)].fn

LEMMA ShownLength ==
  ASSUME NEW c, Coherent(c)
  PROVE  /\ Len(c.stk) \in Nat /\ Len(c.stk) >= 1 /\ c.stk \in Seq(TargetFrames)
         /\ Len(Shown(c)) = IF c.did \in {"call", "abortedReturn"} THEN Len(c.stk) - 1
                            ELSE Len(c.stk)
         /\ Len(Shown(c)) >= 1
<1>1. c.stk \in Seq(TargetFrames) /\ Len(c.stk) >= 1  BY DEF Coherent, TargetContexts
<1>2. Len(Front(c.stk)) = Len(c.stk) - 1  BY <1>1 DEF Front
<1> QED BY <1>1, <1>2 DEF Shown, Coherent

\* The context that runs, and what the machine knows of it.
LEMMA RunningContext ==
  ASSUME TypeOK, ~finished, TargetInv
  PROVE  LET c == Target!Running  s == Innermost.stack IN
         /\ c = cpu[Len(cpu)] /\ Len(cpu) = Len(ctx) /\ Len(cpu) \in Nat \ {0}
         /\ Coherent(c) /\ Matches(s, c) /\ Runs(Innermost, c, pending, reexec)
         /\ s \in Seq(Frames) \ {<<>>} /\ Book.stack = s
<1>1. Len(ctx) \in Nat \ {0} /\ Book.stack = Innermost.stack /\ Innermost.stack \in Stacks
  BY BookType
<1>2. Target!Running = cpu[Len(cpu)] /\ Len(cpu) = Len(ctx)
  BY DEF TargetInv, Target!Running
<1>3. Len(cpu) \in 1 .. Len(cpu)  BY <1>1, <1>2
<1> QED BY <1>1, <1>2, <1>3 DEF TargetInv, Innermost, Stacks

LEMMA PendingConfirmed ==
  ASSUME NEW s \in Seq(Frames), NEW c, Coherent(c), Matches(s, c), c.did = "call",
         NEW x \in Frames, x.fn = c.stk[Len(c.stk)].fn, x.gap = 0
  PROVE  Ran(Append(s, x), c)
<1> DEFINE n == Len(c.stk)
           out == Append(s, x)
<1>1. n \in Nat /\ n >= 2 /\ Len(s) = n - 1
  BY ShownLength DEF Matches, Coherent
<1>2. /\ out \in Seq(Frames) /\ Len(out) = n /\ out[n] = x
      /\ \A i \in 1 .. n - 1 : out[i] = s[i]
  BY <1>1
<1> HIDE DEF out
<1>3. \A i \in 1 .. n - 1 : s[i].gap = 0 /\ (s[i].fn = c.stk[i].fn \/ OldBelow(s, c, i))
  BY <1>1 DEF Matches, HasOldName, OldBelow
<1>4. \A i \in 1 .. n - 1 : OldBelow(s, c, i) => OldBelow(out, c, i)
  BY <1>1, <1>2 DEF OldBelow
<1>5. \A i \in 1 .. n : i = n \/ i \in 1 .. n - 1  BY <1>1
<1>6. Reached(c) = n  BY DEF Reached
<1>7. /\ \A i \in 1 .. n : out[i].gap = 0
      /\ \A i \in 1 .. n : out[i].fn = c.stk[i].fn \/ OldBelow(out, c, i)
  BY <1>2, <1>3, <1>4, <1>5
<1>8. Ran(out, c)  BY <1>2, <1>6, <1>7 DEF Ran
<1> QED BY <1>8 DEF out

\* A branch run again: the stack is as the first time.
LEMMA BranchAgain ==
  ASSUME NEW s \in Seq(Frames), NEW c, Coherent(c), Matches(s, c), c.did \in Aborted
  PROVE  Ran(s, c)
<1>1. Len(s) = Reached(c)  BY ShownLength DEF Matches, Aborted, Reached
<1> QED BY <1>1 DEF Ran, Matches, HasOldName, OldBelow, Aborted

\* Nothing called: the top frame gets its name.
LEMMA TopNamed ==
  ASSUME NEW s \in Seq(Frames) \ {<<>>}, NEW c, Coherent(c), Matches(s, c),
         c.did \in {"other", "return"},
         NEW out \in Seq(Frames), Len(out) = Len(s),
         \A j \in 1 .. Len(s) - 1 : out[j] = s[j],
         out[Len(s)].gap = s[Len(s)].gap,
         \/ out[Len(s)].fn = c.stk[Len(s)].fn
         \/ /\ c.pc \in DOMAIN Symbols /\ out[Len(s)] = s[Len(s)]
            /\ \A j \in 1 .. Len(s) - 1 : out[j].fn # c.stk[Len(s)].fn
  PROVE  Ran(out, c)
<1> DEFINE n == Len(s)
<1>1. n \in Nat \ {0} /\ n = Len(c.stk) /\ Reached(c) = n
  BY ShownLength DEF Matches, Reached
<1>2. \A i \in 1 .. n : s[i].gap = 0 /\ (s[i].fn = c.stk[i].fn \/ HasOldName(s, c, i))
  BY DEF Matches
<1>3. \A i \in 1 .. n : i = n \/ i \in 1 .. n - 1  BY <1>1
<1>4. ASSUME NEW i \in 1 .. n - 1
      PROVE  out[i].gap = 0 /\ (out[i].fn = c.stk[i].fn \/ OldBelow(out, c, i))
  <2>1. i \in 1 .. n /\ i # n /\ out[i] = s[i] /\ \A j \in 1 .. i - 1 : out[j] = s[j]
    BY <1>1
  <2>2. HasOldName(s, c, i) => OldBelow(out, c, i)
    BY <1>1, <2>1 DEF HasOldName, OldBelow
  <2> QED BY <1>2, <2>1, <2>2
<1>5. out[n].gap = 0 /\ (out[n].fn = c.stk[n].fn \/ OldBelow(out, c, n))
  <2>1. n \in 1 .. n  BY <1>1
  <2>2. CASE out[n].fn = c.stk[n].fn  BY <1>2, <2>1, <2>2
  <2>3. CASE out[n] = s[n] /\ \A j \in 1 .. n - 1 : out[j].fn # c.stk[n].fn
    BY <1>2, <2>1, <2>3 DEF HasOldName, OldBelow
  <2> QED BY <2>2, <2>3
<1>6. c.pc \notin DOMAIN Symbols => out[n].fn = c.stk[n].fn  OBVIOUS
<1>7. /\ \A i \in 1 .. n : out[i].gap = 0
      /\ \A i \in 1 .. n : out[i].fn = c.stk[i].fn \/ OldBelow(out, c, i)
  BY <1>3, <1>4, <1>5
<1> QED BY <1>1, <1>6, <1>7 DEF Ran

(* What an instruction range does before the branch that ends it, for a block *)
(* that the running context may execute; it counts no diagnostic; and whether *)
(* a return is one run again is told rightly.                                 *)
LEMMA RangeRan ==
  ASSUME TypeOK, ~finished, BlindSpotForgetsCall, TargetInv, NEW r \in Ranges,
         Target!IsNext(r),
         Target!Running.did \in Aborted => r.branch # "other",
         r.branch = "return" => Target!Running.pc \notin DOMAIN Symbols
  PROVE  /\ Ran(AfterReconcile(r).stack, Target!Running)
         /\ r.branch = "return" => (RunsAgain(r) <=> Target!Running.did \in Aborted)
         /\ "dropped" \notin Diagnostics(r) /\ "recovered" \notin Diagnostics(r)
<1> DEFINE c == Target!Running
           s == Innermost.stack
           n == Len(c.stk)
<1>1. /\ Coherent(c) /\ Matches(s, c) /\ Runs(Innermost, c, pending, reexec)
      /\ s \in Seq(Frames) \ {<<>>} /\ Book.stack = s
  BY RunningContext
<1>2. /\ r.start = c.pc /\ r.end = Target!EndOf(c.pc) /\ ~c.held /\ c.did # "left"
      /\ c.did \in Aborted => r.branch # "other"
      /\ r.branch = "return" => c.pc \notin DOMAIN Symbols
  BY DEF Target!IsNext
<1>3. /\ n \in Nat /\ n >= 1 /\ Len(s) >= 1
      /\ Len(s) = IF c.did \in {"call", "abortedReturn"} THEN n - 1 ELSE n
  BY <1>1, ShownLength DEF Matches
<1>4. c.did \in {"other", "call", "return", "abortedCall", "abortedReturn"}
  BY <1>1, <1>2 DEF Coherent, TargetContexts, Aborted
<1>5. PICK a \in DOMAIN Symbols : c.pc \in a .. a + 3 /\ c.stk[n].fn = Symbols[a]
  BY <1>1 DEF Coherent, In
<1>6. /\ FunctionAt(r.start) = c.stk[n].fn
      /\ IsFunctionEntry(r.start) <=> c.pc \in DOMAIN Symbols
  BY <1>2, <1>5, Places DEF IsFunctionEntry
<1>7. gaps = 0 /\ s[Len(s)].gap = 0 /\ Last(s) = s[Len(s)]
  <2>1. Len(s) \in 1 .. Len(s)  BY <1>1, <1>3
  <2> QED BY <1>1, <2>1 DEF TargetInv, Matches, Last
<1>8. ~IsStale(Book, FunctionAt(r.start))  BY <1>1, <1>7 DEF IsStale
<1> HIDE DEF c, s, n
<1>9. CASE c.did \in Aborted
  <2>1. Again(reexec, c)  BY <1>1, <1>2, <1>9 DEF Runs
  <2>2. RunsAgain(r)  BY <1>2, <1>9, <2>1 DEF RunsAgain, Again
  <2>3. ~Confirms(r)  BY <2>2 DEF Confirms
  <2>4. AfterReconcile(r) = Book  BY <2>2, <2>3 DEF AfterReconcile, AfterCall
  <2>5. Ran(s, c)  BY <1>1, <1>9, BranchAgain
  <2>6. "dropped" \notin Diagnostics(r) /\ "recovered" \notin Diagnostics(r)
    BY <2>2, <2>3 DEF Diagnostics
  <2> QED BY <1>1, <1>9, <2>2, <2>4, <2>5, <2>6 DEF c
<1>10. CASE c.did = "call"
  <2>1. pending # NoCall /\ Elsewhere(reexec, c)
    BY <1>1, <1>10 DEF Runs, Calling, Aborted, NotRunYet
  <2>2. ~RunsAgain(r)  BY <1>2, <2>1 DEF RunsAgain, Elsewhere
  <2>3. IsFunctionEntry(r.start)  BY <1>1, <1>6, <1>10 DEF Coherent
  <2>4. Confirms(r)  BY <2>1, <2>2, <2>3 DEF Confirms, BlindSpotForgetsCall
  <2> DEFINE x == [fn |-> FunctionAt(r.start), gap |-> gaps]
             b == Push(Book, FunctionAt(r.start))
  <2>5. AfterCall(r) = b  BY <1>8, <2>4 DEF AfterCall, DoCall
  <2>6. b.stack = Append(s, x)  BY <1>1 DEF Push
  <2>7. x \in Frames /\ x.fn = c.stk[n].fn /\ x.gap = 0
    BY <1>6, <1>7, FunctionAtIsName DEF Frames
  <2> HIDE DEF x, b
  <2>8. Ran(Append(s, x), c)  BY <1>1, <1>10, <2>7, PendingConfirmed DEF n
  <2>9. Last(b.stack).fn = FunctionAt(r.start)
    <3>1. Len(Append(s, x)) = Len(s) + 1 /\ Append(s, x)[Len(s) + 1] = x  BY <1>1
    <3> QED BY <1>6, <2>6, <2>7, <3>1 DEF Last
  <2>10. ~Unwinds(AfterCall(r), r.start) /\ AfterReconcile(r) = b
    BY <2>2, <2>5, <2>9 DEF Unwinds, AfterReconcile, Reconcile
  <2>11. "dropped" \notin Diagnostics(r) /\ "recovered" \notin Diagnostics(r)
    BY <1>8, <2>4, <2>10 DEF Diagnostics
  <2> QED BY <1>10, <2>2, <2>6, <2>8, <2>10, <2>11 DEF c, Aborted
<1>11. CASE c.did \in {"other", "return"}
  <2>1. pending = NoCall /\ (Elsewhere(reexec, c) \/ NotRunYet(c))
    BY <1>1, <1>11 DEF Runs, Calling, Aborted
  <2>2. ~Confirms(r) /\ AfterCall(r) = Book  BY <2>1 DEF Confirms, AfterCall
  <2>3. r.branch = "return" => ~RunsAgain(r)
    BY <1>2, <2>1 DEF RunsAgain, Elsewhere, NotRunYet
  <2>4. Len(s) = n /\ Len(s) \in Nat \ {0}  BY <1>1, <1>3, <1>11
  <2>5. CASE RunsAgain(r)
    <3>1. NotRunYet(c)  BY <1>2, <2>1, <2>5 DEF RunsAgain, Elsewhere
    <3>2. AfterReconcile(r) = Book  BY <2>2, <2>5 DEF AfterReconcile
    <3>3. n = 1 /\ c.pc \in DOMAIN Symbols  BY <3>1 DEF NotRunYet, n
    <3>4. Ran(s, c)
      <4>1. \A i \in 1 .. Len(s) : OldBelow(s, c, i)  BY <2>4, <3>3 DEF OldBelow
      <4>2. Reached(c) = Len(s)  BY <1>11, <2>4 DEF Reached, n
      <4> QED BY <1>1, <3>3, <4>1, <4>2 DEF Ran, Matches
    <3>5. "dropped" \notin Diagnostics(r) /\ "recovered" \notin Diagnostics(r)
      BY <2>2, <2>5 DEF Diagnostics
    <3> QED BY <1>1, <1>11, <2>3, <2>5, <3>2, <3>4, <3>5 DEF c, Aborted
  <2>6. CASE ~RunsAgain(r)
    <3> DEFINE out == Reconcile(Book, r.start).stack
    <3>1. AfterReconcile(r) = Reconcile(Book, r.start)  BY <2>2, <2>6 DEF AfterReconcile
    <3>2. \/ s[Len(s)].fn = FunctionAt(r.start)
          \/ IsFunctionEntry(r.start)
          \/ \A j \in 1 .. Len(s) - 1 : s[j].fn # FunctionAt(r.start)
      <4>1. Len(s) \in 1 .. Len(s)  BY <2>4
      <4>2. s[Len(s)].fn = c.stk[n].fn \/ HasOldName(s, c, n)  BY <1>1, <2>4, <4>1 DEF Matches
      <4> QED BY <1>6, <2>4, <4>2 DEF HasOldName
    <3>3. /\ ~Unwinds(Book, r.start)
          /\ out \in Seq(Frames) /\ Len(out) = Len(s)
          /\ \A j \in 1 .. Len(s) - 1 : out[j] = s[j]
          /\ out[Len(s)].gap = s[Len(s)].gap
          /\ \/ out[Len(s)].fn = FunctionAt(r.start)
             \/ /\ IsFunctionEntry(r.start) /\ out[Len(s)] = s[Len(s)]
                /\ \A j \in 1 .. Len(s) - 1 : out[j].fn # FunctionAt(r.start)
      BY <1>1, <3>2, Reconciled
    <3> HIDE DEF out
    <3>4. Ran(out, c)
      <4>1. Len(c.stk) = Len(s)  BY <2>4 DEF n
      <4>2. \/ out[Len(s)].fn = c.stk[Len(s)].fn
            \/ /\ c.pc \in DOMAIN Symbols /\ out[Len(s)] = s[Len(s)]
               /\ \A j \in 1 .. Len(s) - 1 : out[j].fn # c.stk[Len(s)].fn
        BY <1>6, <3>3, <4>1 DEF n
      <4> QED BY <1>1, <1>11, <2>4, <3>3, <4>2, TopNamed
    <3>5. "dropped" \notin Diagnostics(r) /\ "recovered" \notin Diagnostics(r)
      BY <2>1, <2>2, <3>3 DEF Diagnostics
    <3> QED BY <1>11, <2>3, <2>6, <3>1, <3>4, <3>5 DEF c, out, Aborted
  <2> QED BY <2>5, <2>6
<1> QED BY <1>4, <1>9, <1>10, <1>11 DEF Aborted, c

------------------------------------------------------------------------------
(* What each kind of block makes of the running context c, with o the rebuilt *)
(* stack before the branch: the next context and its rebuilt stack match.     *)
Ready(c, a) == /\ Coherent(c) /\ a \in DOMAIN Symbols /\ c.pc \in a .. a + 3
               /\ c.stk[Len(c.stk)].fn = Symbols[a]
SeenBy(c, a) == IF c.pc - a < 2 THEN c.stk ELSE [c.stk EXCEPT ![Len(c.stk)].tail = FALSE]

LEMMA SeenFrames ==
  ASSUME NEW c, NEW a, Ready(c, a)
  PROVE  LET n == Len(c.stk)  stk == SeenBy(c, a) IN
         /\ n \in Nat /\ n >= 1 /\ c.stk \in Seq(TargetFrames)
         /\ stk \in Seq(TargetFrames) /\ Len(stk) = n
         /\ \A i \in 1 .. n : stk[i].fn = c.stk[i].fn /\ stk[i].ret = c.stk[i].ret
         /\ \A i \in 1 .. n - 1 : stk[i] = c.stk[i]
         /\ c.pc - a < 2 => stk = c.stk
<1> DEFINE n == Len(c.stk)
           x == [c.stk[n] EXCEPT !.tail = FALSE]
<1>1. c.stk \in Seq(TargetFrames) /\ n \in Nat /\ n >= 1
  BY ShownLength DEF Ready
<1>2. c.stk[n] \in TargetFrames  BY <1>1
<1>3. x \in TargetFrames /\ x.fn = c.stk[n].fn /\ x.ret = c.stk[n].ret
  BY <1>2 DEF TargetFrames
<1>4. CASE c.pc - a < 2  BY <1>1, <1>4 DEF SeenBy
<1>5. CASE ~(c.pc - a < 2)
  <2>1. SeenBy(c, a) = [c.stk EXCEPT ![n] = x]  BY <1>5 DEF SeenBy
  <2> HIDE DEF x
  <2>2. \A i \in 1 .. n : i = n \/ i \in 1 .. n - 1  BY <1>1
  <2>3. /\ SeenBy(c, a) \in Seq(TargetFrames) /\ Len(SeenBy(c, a)) = n
        /\ SeenBy(c, a)[n] = x
        /\ \A i \in 1 .. n - 1 : SeenBy(c, a)[i] = c.stk[i]
    BY <1>1, <1>3, <2>1
  <2> QED BY <1>1, <1>3, <1>5, <2>2, <2>3
<1> QED BY <1>4, <1>5

\* The next block of the same function, or an exit of a handler.
LEMMA StaysInFunction ==
  ASSUME NEW c, NEW a, Ready(c, a), NEW o, Ran(o, c), c.did \in {"other", "call", "return"},
         NEW d \in TargetContexts, d.pc \in a .. a + 3, d.did \in {"other", "left"}, ~d.held,
         \/ d.stk = SeenBy(c, a)
         \/ d.stk = c.stk /\ Len(c.stk) = 1
  PROVE  Coherent(d) /\ Matches(o, d)
<1> DEFINE n == Len(c.stk)
<1>0. Coherent(c) /\ a \in DOMAIN Symbols  BY DEF Ready
<1>1. /\ n \in Nat /\ n >= 1 /\ Len(d.stk) = n
      /\ \A i \in 1 .. n : d.stk[i].fn = c.stk[i].fn /\ d.stk[i].ret = c.stk[i].ret
      /\ \A i \in 1 .. n - 1 : d.stk[i] = c.stk[i]
      /\ c.pc - a < 2 => d.stk = c.stk
      /\ n > 1 => d.stk = SeenBy(c, a)
  BY SeenFrames
<1>2. n \in 1 .. n /\ \A i \in 2 .. n : i \in 1 .. n /\ i - 1 \in 1 .. n  BY <1>1
<1>3. d.stk[n].fn = Symbols[a]  BY <1>1, <1>2 DEF Ready
<1>4. Coherent(d)
  <2>1. In(d.pc, d.stk[n].fn)  BY <1>0, <1>3 DEF In
  <2>2. \A i \in 2 .. n :
          \E b \in DOMAIN Symbols : d.stk[i].ret = b + 2 /\ d.stk[i - 1].fn = Symbols[b]
    BY <1>0, <1>1, <1>2 DEF Coherent
  <2> QED BY <1>1, <2>1, <2>2 DEF Coherent, Aborted
<1>5. Len(o) = n /\ Len(Shown(d)) = n  BY <1>1 DEF Ran, Reached, Shown
<1>6. \A i \in 1 .. n : o[i].gap = 0 /\ (o[i].fn = c.stk[i].fn \/ OldBelow(o, c, i))
  BY <1>5 DEF Ran
<1>7. ASSUME NEW i \in 1 .. n PROVE o[i].fn = d.stk[i].fn \/ HasOldName(o, d, i)
  <2>1. CASE i < n
    <3>1. d.stk[i] = c.stk[i]  BY <1>1, <2>1
    <3> QED BY <1>6, <3>1 DEF HasOldName, OldBelow
  <2>2. CASE i = n /\ c.pc - a < 2  BY <1>1, <1>6, <2>2 DEF HasOldName, OldBelow
  <2>3. CASE i = n /\ ~(c.pc - a < 2)
    <3>1. c.pc # a /\ c.pc \notin DOMAIN Symbols
      BY <1>0, <2>3, Places, SymbolsAssumption DEF Ready, IsFunctionEntry
    <3>2. o[n].fn = c.stk[n].fn  BY <1>5, <3>1 DEF Ran, Aborted
    <3> QED BY <1>1, <1>2, <2>3, <3>2
  <2> QED BY <1>1, <2>1, <2>2, <2>3
<1> QED BY <1>4, <1>5, <1>6, <1>7 DEF Matches

\* A tail call: the frame is taken over, its rebuilt name left for now.
LEMMA TailCalls ==
  ASSUME NEW c, NEW a, Ready(c, a), NEW o, Ran(o, c), c.did \in {"other", "call", "return"},
         NEW b \in DOMAIN Symbols, NEW d \in TargetContexts,
         d.pc = b, d.did = "other", ~d.held,
         d.stk = Append(Front(c.stk), [fn |-> Symbols[b], ret |-> Last(c.stk).ret, tail |-> TRUE])
  PROVE  Coherent(d) /\ Matches(o, d)
<1> DEFINE n == Len(c.stk)
           x == [fn |-> Symbols[b], ret |-> Last(c.stk).ret, tail |-> TRUE]
<1>0. Coherent(c)  BY DEF Ready
<1>1. n \in Nat /\ n >= 1 /\ c.stk \in Seq(TargetFrames)  BY SeenFrames
<1>2. Last(c.stk).ret = c.stk[n].ret  BY DEF Last
<1>3. /\ Len(d.stk) = n /\ d.stk[n] = x
      /\ \A i \in 1 .. n - 1 : d.stk[i] = c.stk[i]
  <2> HIDE DEF x
  <2>1. Front(c.stk) = SubSeq(c.stk, 1, n - 1)  BY DEF Front
  <2>2. d.stk = Append(Front(c.stk), x)  BY DEF x
  <2> QED BY <1>1, <2>1, <2>2
<1>4. x.fn = Symbols[b] /\ x.ret = c.stk[n].ret /\ x.tail  BY <1>2
<1> HIDE DEF x
<1>5. Coherent(d)
  <2>1. b \in b .. b + 3  BY SymbolsAssumption
  <2>2. In(d.pc, d.stk[n].fn)  BY <1>3, <1>4, <2>1 DEF In
  <2>3. ASSUME NEW i \in 2 .. n
        PROVE \E y \in DOMAIN Symbols : d.stk[i].ret = y + 2 /\ d.stk[i - 1].fn = Symbols[y]
    <3>1. d.stk[i].ret = c.stk[i].ret
      <4>1. CASE i = n  BY <1>3, <1>4, <4>1
      <4>2. CASE i # n
        <5>1. i \in 1 .. n - 1  BY <1>1, <4>2
        <5> QED BY <1>3, <5>1
      <4> QED BY <4>1, <4>2
    <3>2. i - 1 \in 1 .. n - 1  BY <1>1
    <3>3. d.stk[i - 1] = c.stk[i - 1]  BY <1>3, <3>2
    <3> QED BY <1>0, <3>1, <3>3 DEF Coherent
  <2> QED BY <1>1, <1>3, <2>2, <2>3 DEF Coherent, Aborted
<1>6. Len(o) = n /\ Len(Shown(d)) = n  BY <1>3 DEF Ran, Reached, Shown
<1>7. \A i \in 1 .. n : o[i].gap = 0 /\ (o[i].fn = c.stk[i].fn \/ OldBelow(o, c, i))
  BY <1>6 DEF Ran
<1>8. ASSUME NEW i \in 1 .. n PROVE o[i].fn = d.stk[i].fn \/ HasOldName(o, d, i)
  <2>1. CASE i # n
    <3>1. i \in 1 .. n - 1  BY <1>1, <2>1
    <3>2. d.stk[i] = c.stk[i]  BY <1>3, <3>1
    <3> QED BY <1>7, <3>2 DEF HasOldName, OldBelow
  <2>2. CASE i = n
    <3>1. d.stk[i].tail  BY <1>3, <1>4, <2>2
    <3>2. HasOldName(o, d, i)  BY <1>3, <2>2, <3>1 DEF HasOldName
    <3> QED BY <3>2
  <2> QED BY <2>1, <2>2
<1> QED BY <1>5, <1>6, <1>7, <1>8 DEF Matches

\* A call: the callee's frame is not rebuilt before it runs.
LEMMA CallsCallee ==
  ASSUME NEW c, NEW a, Ready(c, a), NEW o, Ran(o, c), c.did # "abortedReturn",
         NEW b \in DOMAIN Symbols, NEW d \in TargetContexts,
         d.pc = b, d.did = "call", ~d.held,
         d.stk = Append(c.stk, [fn |-> Symbols[b], ret |-> a + 2, tail |-> FALSE])
  PROVE  Coherent(d) /\ Matches(o, d)
<1> DEFINE n == Len(c.stk)
           x == [fn |-> Symbols[b], ret |-> a + 2, tail |-> FALSE]
<1>0. Coherent(c)  BY DEF Ready
<1>1. n \in Nat /\ n >= 1 /\ c.stk \in Seq(TargetFrames)  BY SeenFrames
<1>2. /\ Len(d.stk) = n + 1 /\ d.stk[n + 1] = x
      /\ \A i \in 1 .. n : d.stk[i] = c.stk[i]
  <2> HIDE DEF x
  <2>1. d.stk = Append(c.stk, x)  BY DEF x
  <2> QED BY <1>1, <2>1
<1>3. x.fn = Symbols[b] /\ x.ret = a + 2  OBVIOUS
<1> HIDE DEF x
<1>4. Coherent(d)
  <2>1. b \in b .. b + 3  BY SymbolsAssumption
  <2>2. In(d.pc, d.stk[n + 1].fn)  BY <1>2, <1>3, <2>1 DEF In
  <2>3. ASSUME NEW i \in 2 .. n + 1
        PROVE \E y \in DOMAIN Symbols : d.stk[i].ret = y + 2 /\ d.stk[i - 1].fn = Symbols[y]
    <3>1. CASE i \in 2 .. n  BY <1>0, <1>1, <1>2, <3>1 DEF Coherent
    <3>2. CASE i = n + 1
      <4>1. n \in 1 .. n /\ n + 1 - 1 = n  BY <1>1
      <4> QED BY <1>2, <1>3, <3>2, <4>1 DEF Ready
    <3> QED BY <1>1, <3>1, <3>2
  <2> QED BY <1>1, <1>2, <2>2, <2>3 DEF Coherent, Aborted
<1>5. Len(o) = n /\ Len(Shown(d)) = n  BY <1>1, <1>2, <1>4, ShownLength DEF Ran, Reached
<1>6. \A i \in 1 .. n : o[i].gap = 0 /\ (o[i].fn = c.stk[i].fn \/ OldBelow(o, c, i))
  BY <1>5 DEF Ran
<1>7. \A i \in 1 .. n : o[i].fn = d.stk[i].fn \/ HasOldName(o, d, i)
  BY <1>2, <1>6 DEF HasOldName, OldBelow
<1> QED BY <1>4, <1>5, <1>6, <1>7 DEF Matches

\* A return: the frame goes from both stacks, or went when the branch first ran.
LEMMA Returns ==
  ASSUME NEW c, NEW a, Ready(c, a), NEW o, Ran(o, c),
         c.did \in {"other", "call", "return", "abortedReturn"}, Len(c.stk) > 1,
         NEW t, t = IF c.did = "abortedReturn" THEN o ELSE SubSeq(o, 1, Len(o) - 1),
         NEW d \in TargetContexts,
         d.pc = Last(c.stk).ret, d.did = "return", ~d.held, d.stk = Front(c.stk)
  PROVE  Coherent(d) /\ Matches(t, d)
<1> DEFINE n == Len(c.stk)
<1>0. Coherent(c)  BY DEF Ready
<1>1. n \in Nat /\ n > 1 /\ c.stk \in Seq(TargetFrames)  BY SeenFrames
<1>2. Last(c.stk).ret = c.stk[n].ret  BY DEF Last
<1>3. Len(d.stk) = n - 1 /\ \A i \in 1 .. n - 1 : d.stk[i] = c.stk[i]
  BY <1>1 DEF Front
<1>4. Coherent(d)
  <2>1. PICK b \in DOMAIN Symbols : c.stk[n].ret = b + 2 /\ c.stk[n - 1].fn = Symbols[b]
    BY <1>0, <1>1 DEF Coherent
  <2>2. b + 2 \in b .. b + 3 /\ n - 1 \in 1 .. n - 1  BY <1>1, SymbolsAssumption
  <2>3. In(d.pc, d.stk[n - 1].fn)  BY <1>2, <1>3, <2>1, <2>2 DEF In
  <2>4. ASSUME NEW i \in 2 .. n - 1
        PROVE \E y \in DOMAIN Symbols : d.stk[i].ret = y + 2 /\ d.stk[i - 1].fn = Symbols[y]
    <3>1. i \in 2 .. n /\ i \in 1 .. n - 1 /\ i - 1 \in 1 .. n - 1  BY <1>1
    <3>2. d.stk[i] = c.stk[i] /\ d.stk[i - 1] = c.stk[i - 1]  BY <1>3, <3>1
    <3> QED BY <1>0, <3>1, <3>2 DEF Coherent
  <2> QED BY <1>1, <1>3, <2>3, <2>4 DEF Coherent, Aborted
<1>5. o \in Seq(Frames) /\ Len(o) = IF c.did = "abortedReturn" THEN n - 1 ELSE n
  BY DEF Ran, Reached
<1>6. \A i \in 1 .. n - 1 : o[i].gap = 0 /\ (o[i].fn = c.stk[i].fn \/ OldBelow(o, c, i))
  BY <1>1, <1>5 DEF Ran
<1>7. Len(t) = n - 1 /\ \A i \in 1 .. n - 1 : t[i] = o[i]
  BY <1>1, <1>5
<1>8. Len(Shown(d)) = n - 1  BY <1>3 DEF Shown
<1>9. ASSUME NEW i \in 1 .. n - 1 PROVE t[i].fn = d.stk[i].fn \/ HasOldName(t, d, i)
  <2>1. \A j \in 1 .. i - 1 : j \in 1 .. n - 1  BY <1>1
  <2>2. OldBelow(o, c, i) => HasOldName(t, d, i)
    BY <1>3, <1>7, <2>1 DEF OldBelow, HasOldName
  <2> QED BY <1>3, <1>6, <1>7, <2>2
<1> QED BY <1>4, <1>6, <1>7, <1>8, <1>9 DEF Matches

\* A call that an exception takes over: nothing has changed but what is known.
LEMMA AbortsCall ==
  ASSUME NEW c, NEW a, Ready(c, a), NEW o, Ran(o, c), c.did \in {"other", "call", "return"},
         NEW d \in TargetContexts,
         d.pc = a + 1, d.did = "abortedCall", d.stk = c.stk
  PROVE  Coherent(d) /\ Matches(o, d)
<1> DEFINE n == Len(c.stk)
<1>0. Coherent(c) /\ a \in DOMAIN Symbols /\ a \in Nat  BY SymbolsAssumption DEF Ready
<1>1. n \in Nat /\ n >= 1  BY SeenFrames
<1>2. In(d.pc, d.stk[n].fn)
  <2>1. a + 1 \in a .. a + 3  BY <1>0
  <2> QED BY <1>0, <2>1 DEF Ready, In
<1>3. d.pc - 1 \in DOMAIN Symbols  BY <1>0
<1>4. Coherent(d)  BY <1>0, <1>1, <1>2, <1>3 DEF Coherent, Aborted
<1>5. Len(o) = n /\ Len(Shown(d)) = n  BY DEF Ran, Reached, Shown
<1> QED BY <1>4, <1>5 DEF Ran, Matches, OldBelow, HasOldName

\* A return that an exception takes over: the machine popped, the target did not.
LEMMA AbortsReturn ==
  ASSUME NEW c, NEW a, Ready(c, a), NEW o, Ran(o, c), c.did \in {"other", "call", "return"},
         Len(c.stk) > 1, c.pc = a + 2,
         NEW d \in TargetContexts,
         d.pc = a + 2, d.did = "abortedReturn", d.stk = SeenBy(c, a)
  PROVE  Coherent(d) /\ Matches(SubSeq(o, 1, Len(o) - 1), d)
<1> DEFINE n == Len(c.stk)
           t == SubSeq(o, 1, Len(o) - 1)
<1>0. Coherent(c) /\ a \in DOMAIN Symbols /\ a \in Nat  BY SymbolsAssumption DEF Ready
<1>1. /\ n \in Nat /\ n > 1 /\ Len(d.stk) = n
      /\ \A i \in 1 .. n : d.stk[i].fn = c.stk[i].fn /\ d.stk[i].ret = c.stk[i].ret
      /\ \A i \in 1 .. n - 1 : d.stk[i] = c.stk[i]
  BY SeenFrames
<1>2. n \in 1 .. n /\ \A i \in 2 .. n : i \in 1 .. n /\ i - 1 \in 1 .. n  BY <1>1
<1>3. Coherent(d)
  <2>1. a + 2 \in a .. a + 3  BY <1>0
  <2>2. In(d.pc, d.stk[n].fn)  BY <1>0, <1>1, <1>2, <2>1 DEF Ready, In
  <2>3. \A i \in 2 .. n :
          \E b \in DOMAIN Symbols : d.stk[i].ret = b + 2 /\ d.stk[i - 1].fn = Symbols[b]
    BY <1>0, <1>1, <1>2 DEF Coherent
  <2>4. d.pc - 2 \in DOMAIN Symbols  BY <1>0
  <2> QED BY <1>1, <2>2, <2>3, <2>4 DEF Coherent, Aborted
<1>4. o \in Seq(Frames) /\ Len(o) = n  BY DEF Ran, Reached
<1>5. \A i \in 1 .. n - 1 : o[i].gap = 0 /\ (o[i].fn = c.stk[i].fn \/ OldBelow(o, c, i))
  BY <1>1, <1>4 DEF Ran
<1>6. Len(t) = n - 1 /\ \A i \in 1 .. n - 1 : t[i] = o[i]  BY <1>1, <1>4
<1>7. Len(Shown(d)) = n - 1  BY <1>1, <1>3, ShownLength
<1> HIDE DEF t
<1>8. ASSUME NEW i \in 1 .. n - 1 PROVE t[i].fn = d.stk[i].fn \/ HasOldName(t, d, i)
  <2>1. \A j \in 1 .. i - 1 : j \in 1 .. n - 1  BY <1>1
  <2>2. OldBelow(o, c, i) => HasOldName(t, d, i)
    BY <1>1, <1>6, <2>1 DEF OldBelow, HasOldName
  <2> QED BY <1>1, <1>5, <1>6, <2>2
<1>9. Matches(t, d)  BY <1>5, <1>6, <1>7, <1>8 DEF Matches
<1> QED BY <1>3, <1>9 DEF t

------------------------------------------------------------------------------
\* TargetInv speaks of the contexts one by one: a step that replaces the last.
LEMMA BlockRan ==
  ASSUME TypeOK, TargetInv, NEW r \in Ranges, InstrRange(r), Diagnostics(r) = {},
         NEW n, n = Len(ctx), NEW d, Coherent(d), Matches(AfterRange(r).stack, d), d.end = r.end,
         cpu' = [cpu EXCEPT ![Len(cpu)] = d], UNCHANGED <<running, idle>>,
         r.branch = "call" <=> d.did \in Calling,
         d.did \in Aborted => d.held /\ Again([start |-> r.start, end |-> r.end], d),
         d.did = "left" => Len(cpu) >= 2
  PROVE  TargetInv'
<1> DEFINE w == [start |-> r.start, end |-> r.end]
           k == [track |-> Innermost.track, stack |-> AfterRange(r).stack,
                 pending |-> Innermost.pending, last |-> w]
<1>1. /\ n \in Nat \ {0} /\ Len(cpu) = n /\ cpu \in Seq(TargetContexts)
      /\ ctx \in Seq(Contexts)
  BY DEF TypeOK, TargetInv
<1>2. /\ ctx' = [ctx EXCEPT ![n] = k]
      /\ pending' = IF r.branch = "call" THEN [by |-> CurLane, gap |-> gaps] ELSE NoCall
      /\ reexec' = NoRange /\ noted' = {}
      /\ UNCHANGED <<curThread, gaps>> /\ ~finished
  BY DEF InstrRange
<1>3. /\ Len(ctx') = n /\ ctx'[n].stack = AfterRange(r).stack
      /\ \A i \in 1 .. n - 1 : ctx'[i] = ctx[i]
      /\ \A t \in Threads \cup {Boot} :
           StackOf(t)' = IF n = 1 /\ t = curThread THEN AfterRange(r).stack ELSE StackOf(t)
  BY InstrRangeStacks
<1>4. ctx'[n].last = w
  <2>1. n \in 1 .. n  BY <1>1
  <2> QED BY <1>1, <1>2, <2>1
<1>5. d \in TargetContexts  BY DEF Coherent
<1>6. /\ Len(cpu') = n /\ cpu' \in Seq(TargetContexts) /\ cpu'[n] = d
      /\ \A i \in 1 .. n - 1 : cpu'[i] = cpu[i]
  BY <1>1, <1>5
<1>7. pending' # NoCall <=> r.branch = "call"
  <2>1. CurLane \in Lanes /\ gaps \in Nat  BY <1>2, BookType DEF TypeOK
  <2> QED BY <1>2, <2>1, MarkersAssumption
<1>8. w # NoRange /\ w.end = r.end  BY RangesAssumption, MarkersAssumption
<1>15. d.did \in Aborted => d.held /\ Again(w, d)  OBVIOUS
<1> HIDE DEF w, k
<1>9. Runs(ctx'[n], cpu'[n], pending', reexec')
  <2>1. LastBlock(ctx'[n], d)  BY <1>4, <1>8 DEF LastBlock
  <2>2. pending' # NoCall <=> d.did \in Calling  BY <1>7
  <2>3. IF d.did \in Aborted THEN d.held /\ Again(ctx'[n].last, d) ELSE Elsewhere(reexec', d)
    BY <1>2, <1>4, <1>15 DEF Elsewhere
  <2>4. Runs(ctx'[n], d, pending', reexec')  BY <2>1, <2>2, <2>3 DEF Runs
  <2> QED BY <1>6, <2>4
<1>10. \A i \in 1 .. n : Coherent(cpu'[i]) /\ Matches(ctx'[i].stack, cpu'[i])
  <2>1. \A i \in 1 .. n : i = n \/ i \in 1 .. n - 1  BY <1>1
  <2>2. \A i \in 1 .. n - 1 : i \in 1 .. n  BY <1>1
  <2>3. \A i \in 1 .. n : Coherent(cpu[i]) /\ Matches(ctx[i].stack, cpu[i])
    BY <1>1 DEF TargetInv
  <2> QED BY <1>3, <1>6, <2>1, <2>2, <2>3
<1>11. \A i \in 1 .. n - 1 : Preempted(ctx'[i], cpu'[i])
  BY <1>1, <1>3, <1>6 DEF TargetInv
<1>12. \A t \in Threads \ {running'} : Waits(StackOf(t)', idle'[t])
  BY <1>3 DEF TargetInv
<1>13. gaps' = 0 /\ curThread' = running' /\ DOMAIN idle' = Threads
  BY <1>2 DEF TargetInv
<1>14. cpu'[n].did = "left" => n >= 2  BY <1>1, <1>6
<1> QED BY <1>2, <1>3, <1>6, <1>9, <1>10, <1>11, <1>12, <1>13, <1>14 DEF TargetInv

\* The block that runs next, and the branch that ends it.
LEMMA NextBlock ==
  ASSUME TypeOK, ~finished, TargetInv, NEW r \in Ranges, Target!Execute(r),
         NEW c, c = Target!Running
  PROVE  \E a \in DOMAIN Symbols :
           /\ Ready(c, a) /\ r.start = c.pc /\ a \in Nat /\ c.pc \in Nat
           /\ Target!EntryOf(r.start) = a /\ Target!Offset(r.start) = c.pc - a
           /\ r.end = IF c.pc - a < 2 THEN a + 2 ELSE c.pc + 1
           /\ Target!Seen(r) = SeenBy(c, a)
           /\ ~c.held /\ c.did \in {"other", "call", "return", "abortedCall", "abortedReturn"}
           /\ c.did \in Aborted => r.branch # "other"
           /\ r.branch = "return" => c.pc = a + 2 /\ c.pc \notin DOMAIN Symbols
           /\ r.branch = "return" => Len(ctx) > 1 \/ Len(c.stk) > 1
<1>1. Coherent(c) /\ Len(cpu) = Len(ctx)  BY RunningContext
<1>2. /\ r.start = c.pc /\ r.end = Target!EndOf(c.pc) /\ ~c.held /\ c.did # "left"
  BY DEF Target!Execute, Target!IsNext
<1>3. c.did \in {"other", "call", "return", "abortedCall", "abortedReturn"}
  BY <1>1, <1>2 DEF Coherent, TargetContexts, Aborted
<1>4. PICK a \in DOMAIN Symbols : c.pc \in a .. a + 3 /\ c.stk[Len(c.stk)].fn = Symbols[a]
  BY <1>1 DEF Coherent, In
<1>5. /\ Target!EntryOf(r.start) = a /\ Target!Offset(r.start) = c.pc - a
      /\ Target!EndOf(c.pc) = IF c.pc - a < 2 THEN a + 2 ELSE c.pc + 1
      /\ c.pc \in DOMAIN Symbols <=> c.pc = a
      /\ a \in Nat /\ c.pc \in Nat
  BY <1>2, <1>4, Places DEF IsFunctionEntry
<1>6. Target!Seen(r) = SeenBy(c, a)  BY <1>5 DEF Target!Seen, SeenBy
<1>7. /\ c.did \in Aborted => r.branch # "other"
      /\ r.branch = "return" => Target!Offset(r.start) = 2
      /\ r.branch = "return" => Len(cpu) > 1 \/ Len(c.stk) > 1
  <2>1. CASE Target!FallThrough(r)
    BY <2>1 DEF Target!FallThrough, Target!ReRuns, Aborted
  <2>2. CASE \E b \in DOMAIN Symbols : Target!TailCall(r, b)
    BY <2>2 DEF Target!TailCall, Target!ReRuns, Aborted
  <2>3. CASE \E b \in DOMAIN Symbols : Target!Call(r, b)
    BY <2>3 DEF Target!Call
  <2>4. CASE Target!Return(r)
    BY <2>4 DEF Target!Return, Target!CanReturn
  <2>5. CASE Target!Abort(r)
    BY <2>5 DEF Target!Abort, Target!CanReturn, Target!CanCall, Target!ReRuns, Aborted
  <2>6. CASE Target!HandlerExit(r)
    BY <2>6 DEF Target!HandlerExit, Target!CanReturn
  <2> QED BY <2>1, <2>2, <2>3, <2>4, <2>5, <2>6 DEF Target!Execute
<1>8. r.branch = "return" => c.pc = a + 2 /\ c.pc \notin DOMAIN Symbols
  BY <1>5, <1>7
<1> QED BY <1>1, <1>2, <1>3, <1>4, <1>5, <1>6, <1>7, <1>8 DEF Ready

\* The rebuilt stack behind the branch: a return pops once, however often it runs.
LEMMA BehindBranch ==
  ASSUME TypeOK, ~finished, BlindSpotForgetsCall, TargetInv, NEW r \in Ranges,
         Target!Execute(r), NEW c, c = Target!Running, NEW o, o = AfterReconcile(r).stack
  PROVE  /\ Ran(o, c) /\ Diagnostics(r) = {}
         /\ AfterRange(r).stack =
              IF r.branch = "return" /\ c.did \notin Aborted /\ Len(o) > 1
                THEN SubSeq(o, 1, Len(o) - 1) ELSE o
<1>1. PICK a \in DOMAIN Symbols :
           /\ ~c.held /\ c.did \in {"other", "call", "return", "abortedCall", "abortedReturn"}
           /\ c.did \in Aborted => r.branch # "other"
           /\ r.branch = "return" => c.pc \notin DOMAIN Symbols
           /\ r.branch = "return" => Len(ctx) > 1 \/ Len(c.stk) > 1
  BY NextBlock
<1>2. Target!IsNext(r)  BY DEF Target!Execute
<1>3. /\ Ran(o, c)
      /\ r.branch = "return" => (RunsAgain(r) <=> c.did \in Aborted)
      /\ "dropped" \notin Diagnostics(r) /\ "recovered" \notin Diagnostics(r)
  BY <1>1, <1>2, RangeRan
<1>4. o \in Seq(Frames) /\ Len(o) = Reached(c)  BY <1>3 DEF Ran
<1>5. "mismatched" \notin Diagnostics(r)
  <2>1. Coherent(c) /\ Len(ctx) \in Nat  BY RunningContext
  <2>2. Len(c.stk) \in Nat  BY <2>1, ShownLength
  <2> QED BY <1>1, <1>3, <1>4, <2>1, <2>2 DEF Diagnostics, Reached, Aborted
<1>6. Diagnostics(r) = {}  BY <1>3, <1>5 DEF Diagnostics
<1>7. AfterRange(r) = IF r.branch = "return" /\ c.did \notin Aborted
                        THEN DoReturn(AfterReconcile(r)) ELSE AfterReconcile(r)
  BY <1>3 DEF AfterRange
<1>8. DoReturn(AfterReconcile(r)).stack =
        IF Len(o) > 1 THEN SubSeq(o, 1, Len(o) - 1) ELSE o
  BY DEF DoReturn, Pop, PopTo
<1> QED BY <1>3, <1>6, <1>7, <1>8

LEMMA TailSet ==
  ASSUME NEW fn, NEW ret, NEW old, NEW tail
  PROVE  [[fn |-> fn, ret |-> ret, tail |-> old] EXCEPT !.tail = tail]
           = [fn |-> fn, ret |-> ret, tail |-> tail]
OBVIOUS

\* Every block that the target may run next.
LEMMA RangeKept ==
  ASSUME TypeOK, BlindSpotForgetsCall, TargetInv, NEW r \in Ranges,
         Target!Execute(r), InstrRange(r)
  PROVE  TargetInv'
<1>1. PICK m : m = Len(ctx)  OBVIOUS
<1>2. PICK c : c = Target!Running  OBVIOUS
<1>3. PICK o : o = AfterReconcile(r).stack  OBVIOUS
<1>0. ~finished  BY DEF InstrRange
<1>4. /\ c = cpu[Len(cpu)] /\ Len(cpu) = m /\ Coherent(c) /\ m \in Nat \ {0}
  BY <1>0, <1>1, <1>2, RunningContext
<1>5. PICK a \in DOMAIN Symbols :
           /\ Ready(c, a) /\ r.start = c.pc /\ a \in Nat /\ c.pc \in Nat
           /\ Target!EntryOf(r.start) = a /\ Target!Offset(r.start) = c.pc - a
           /\ r.end = IF c.pc - a < 2 THEN a + 2 ELSE c.pc + 1
           /\ Target!Seen(r) = SeenBy(c, a)
           /\ ~c.held /\ c.did \in {"other", "call", "return", "abortedCall", "abortedReturn"}
           /\ c.did \in Aborted => r.branch # "other"
           /\ r.branch = "return" => c.pc = a + 2 /\ c.pc \notin DOMAIN Symbols
           /\ r.branch = "return" => Len(ctx) > 1 \/ Len(c.stk) > 1
  BY <1>0, <1>2, NextBlock
<1>6. /\ Ran(o, c) /\ Diagnostics(r) = {}
      /\ AfterRange(r).stack =
           IF r.branch = "return" /\ c.did \notin Aborted /\ Len(o) > 1
             THEN SubSeq(o, 1, Len(o) - 1) ELSE o
  BY <1>0, <1>2, <1>3, BehindBranch
<1>7. /\ o \in Seq(Frames) /\ Len(o) = Reached(c)
      /\ c.pc \in a .. a + 3
  BY <1>5, <1>6 DEF Ran, Ready
<1>8. LET n == Len(c.stk) IN
      /\ n \in Nat /\ n >= 1 /\ c.stk \in Seq(TargetFrames)
      /\ SeenBy(c, a) \in Seq(TargetFrames)
      /\ c.pc - a < 2 => SeenBy(c, a) = c.stk
  BY <1>5, SeenFrames
<1>9. r.end \in Nat  BY RangesAssumption
<1>11. CASE Target!FallThrough(r)
  <2> DEFINE pc == IF Target!Offset(r.start) = 3 THEN r.start - 1 ELSE r.end
             d == [pc |-> pc, stk |-> Target!Seen(r), did |-> "other", held |-> FALSE,
                   end |-> r.end]
  <2>1. /\ cpu' = [cpu EXCEPT ![Len(cpu)] = d] /\ UNCHANGED <<running, idle>>
        /\ r.branch = "other" /\ c.did \in {"other", "call", "return"}
    BY <1>2, <1>5, <1>11
       DEF Target!FallThrough, Target!Becomes, Target!ReRuns, Aborted
  <2>2. pc \in a .. a + 3 /\ pc \in Nat  BY <1>5, <1>7
  <2>3. d \in TargetContexts  BY <1>5, <1>8, <1>9, <2>2 DEF TargetContexts
  <2>4. d.pc = pc /\ d.stk = SeenBy(c, a) /\ d.did = "other" /\ ~d.held /\ d.end = r.end
    BY <1>5
  <2> HIDE DEF d, pc
  <2>5. Coherent(d) /\ Matches(o, d)
    BY <1>5, <1>6, <2>1, <2>2, <2>3, <2>4, StaysInFunction
  <2>6. Matches(AfterRange(r).stack, d)  BY <1>6, <2>1, <2>5
  <2> QED BY <1>1, <1>6, <2>1, <2>4, <2>5, <2>6, BlockRan DEF Calling, Aborted
<1>12. ASSUME NEW b \in DOMAIN Symbols, Target!TailCall(r, b) PROVE TargetInv'
  <2> DEFINE stk == Append(Front(c.stk), [fn |-> Symbols[b], ret |-> Last(c.stk).ret,
                                          tail |-> TRUE])
             d == [pc |-> b, stk |-> stk, did |-> "other", held |-> FALSE, end |-> r.end]
  <2>1. [Target!FrameAt(b, Last(c.stk).ret) EXCEPT !.tail = TRUE]
          = [fn |-> Symbols[b], ret |-> Last(c.stk).ret, tail |-> TRUE]
    <3> DEFINE ret == Last(c.stk).ret
    <3> HIDE DEF ret
    <3>1. Target!FrameAt(b, ret) = [fn |-> Symbols[b], ret |-> ret, tail |-> FALSE]
      BY DEF Target!FrameAt
    <3>2. [Target!FrameAt(b, ret) EXCEPT !.tail = TRUE]
            = [[fn |-> Symbols[b], ret |-> ret, tail |-> FALSE] EXCEPT !.tail = TRUE]
      BY ONLY <3>1, Zenon
    <3>3. [Target!FrameAt(b, ret) EXCEPT !.tail = TRUE]
            = [fn |-> Symbols[b], ret |-> ret, tail |-> TRUE]
      BY ONLY <3>2, TailSet, Zenon
    <3> QED BY <3>3 DEF ret
  <2>2. /\ cpu' = [cpu EXCEPT ![Len(cpu)] = d] /\ UNCHANGED <<running, idle>>
        /\ r.branch = "other" /\ c.did \in {"other", "call", "return"}
    BY <1>2, <1>5, <1>12, <2>1
       DEF Target!TailCall, Target!Becomes, Target!ReRuns, Aborted, Target!Last, Target!Front,
           Last, Front
  <2>3. stk \in Seq(TargetFrames) /\ b \in Nat
    <3>1. Last(c.stk) \in TargetFrames /\ Front(c.stk) \in Seq(TargetFrames)
      BY <1>8 DEF Last, Front
    <3>2. [fn |-> Symbols[b], ret |-> Last(c.stk).ret, tail |-> TRUE] \in TargetFrames
      BY <3>1 DEF TargetFrames, Functions
    <3> QED BY <3>1, <3>2, SymbolsAssumption
  <2>4. d \in TargetContexts  BY <1>9, <2>3 DEF TargetContexts
  <2>5. d.pc = b /\ d.stk = stk /\ d.did = "other" /\ ~d.held /\ d.end = r.end  OBVIOUS
  <2> HIDE DEF d
  <2>6. Coherent(d) /\ Matches(o, d)
    BY <1>5, <1>6, <2>2, <2>4, <2>5, TailCalls
  <2>7. Matches(AfterRange(r).stack, d)  BY <1>6, <2>2, <2>6
  <2> QED BY <1>1, <1>6, <2>2, <2>5, <2>6, <2>7, BlockRan DEF Calling, Aborted
<1>13. ASSUME NEW b \in DOMAIN Symbols, Target!Call(r, b) PROVE TargetInv'
  <2> DEFINE stk == Append(c.stk, [fn |-> Symbols[b], ret |-> a + 2, tail |-> FALSE])
             d == [pc |-> b, stk |-> stk, did |-> "call", held |-> FALSE, end |-> r.end]
  <2>1. c.pc - a < 2 /\ r.end = a + 2
    BY <1>5, <1>13 DEF Target!Call, Target!CanCall
  <2>2. /\ cpu' = [cpu EXCEPT ![Len(cpu)] = d] /\ UNCHANGED <<running, idle>>
        /\ r.branch = "call" /\ c.did # "abortedReturn"
    BY <1>2, <1>5, <1>8, <1>13, <2>1
       DEF Target!Call, Target!Becomes, Target!ReRuns, Target!FrameAt
  <2>3. stk \in Seq(TargetFrames) /\ b \in Nat
    <3>1. [fn |-> Symbols[b], ret |-> a + 2, tail |-> FALSE] \in TargetFrames
      BY <1>5 DEF TargetFrames, Functions
    <3> QED BY <1>8, <3>1, SymbolsAssumption
  <2>4. d \in TargetContexts  BY <1>9, <2>3 DEF TargetContexts
  <2>5. d.pc = b /\ d.stk = stk /\ d.did = "call" /\ ~d.held /\ d.end = r.end  OBVIOUS
  <2> HIDE DEF d
  <2>6. Coherent(d) /\ Matches(o, d)
    BY <1>5, <1>6, <2>2, <2>4, <2>5, CallsCallee
  <2>7. Matches(AfterRange(r).stack, d)  BY <1>6, <2>2, <2>6
  <2> QED BY <1>1, <1>6, <2>2, <2>5, <2>6, <2>7, BlockRan DEF Calling, Aborted
<1>14. CASE Target!Return(r)
  <2> DEFINE d == [pc |-> Last(c.stk).ret, stk |-> Front(c.stk), did |-> "return",
                   held |-> FALSE, end |-> r.end]
  <2>1. /\ cpu' = [cpu EXCEPT ![Len(cpu)] = d] /\ UNCHANGED <<running, idle>>
        /\ r.branch = "return" /\ c.did \in {"other", "call", "return", "abortedReturn"}
        /\ Len(c.stk) > 1
    BY <1>2, <1>14 DEF Target!Return, Target!Becomes, Target!ReRuns, Target!Last,
                           Target!Front, Last, Front
  <2>2. Last(c.stk).ret \in Nat /\ Front(c.stk) \in Seq(TargetFrames)
    <3>1. Last(c.stk) \in TargetFrames  BY <1>8 DEF Last
    <3>2. Last(c.stk).ret \in Nat  BY <3>1 DEF TargetFrames
    <3>3. Front(c.stk) \in Seq(TargetFrames)  BY <1>8 DEF Front
    <3> QED BY <3>2, <3>3
  <2>3. d \in TargetContexts  BY <1>9, <2>2 DEF TargetContexts
  <2>4. /\ d.pc = Last(c.stk).ret /\ d.stk = Front(c.stk) /\ d.did = "return" /\ ~d.held
        /\ d.end = r.end
    OBVIOUS
  <2> HIDE DEF d
  <2>5. AfterRange(r).stack = IF c.did = "abortedReturn" THEN o ELSE SubSeq(o, 1, Len(o) - 1)
    BY <1>6, <1>7, <1>8, <2>1 DEF Aborted, Reached
  <2>6. PICK t : t = AfterRange(r).stack  OBVIOUS
  <2>7. t = IF c.did = "abortedReturn" THEN o ELSE SubSeq(o, 1, Len(o) - 1)
    BY <2>5, <2>6
  <2>8. Coherent(d) /\ Matches(t, d)
    BY <1>5, <1>6, <2>1, <2>3, <2>4, <2>7, Returns
  <2> QED BY <1>1, <1>6, <2>1, <2>4, <2>6, <2>8, BlockRan DEF Calling, Aborted
<1>15. CASE Target!Abort(r)
  <2> DEFINE did == IF r.branch = "call" THEN "abortedCall" ELSE "abortedReturn"
             d == [pc |-> r.end - 1, stk |-> Target!Seen(r), did |-> did, held |-> TRUE,
                   end |-> r.end]
             w == [start |-> r.start, end |-> r.end]
  <2>1. /\ cpu' = [cpu EXCEPT ![Len(cpu)] = d] /\ UNCHANGED <<running, idle>>
        /\ \/ c.pc - a < 2 /\ r.branch = "call"
           \/ c.pc - a = 2 /\ r.branch = "return" /\ Len(c.stk) > 1
        /\ c.did \in {"other", "call", "return"}
    BY <1>2, <1>5, <1>15
       DEF Target!Abort, Target!Becomes, Target!CanCall, Target!CanReturn, Target!ReRuns, Aborted
  <2>2. d.pc = r.end - 1 /\ r.end - 1 \in Nat /\ r.end - 1 \in a .. a + 3
    BY <1>5, <2>1
  <2>3. /\ d.stk = SeenBy(c, a) /\ d.did = did /\ d.held /\ d.end = r.end
    BY <1>5
  <2>4. d \in TargetContexts  BY <1>5, <1>8, <1>9, <2>2 DEF TargetContexts, Aborted
  <2>5. Again(w, d)
    <3>1. Target!EndOf(r.end - 1) = r.end
      BY <1>5, <2>1, <2>2, Places
    <3>2. w # NoRange  BY RangesAssumption, MarkersAssumption
    <3>3. w.start <= r.end - 1 /\ r.end - 1 < w.end  BY <1>5, <1>7, <2>1
    <3> HIDE DEF d
    <3> QED BY <2>2, <3>1, <3>2, <3>3 DEF Again
  <2> HIDE DEF d
  <2>6. CASE c.pc - a < 2 /\ r.branch = "call"
    <3>1. d.pc = a + 1 /\ d.stk = c.stk /\ d.did = "abortedCall"
      BY <1>5, <1>8, <2>2, <2>3, <2>6
    <3>2. Coherent(d) /\ Matches(o, d)
      BY <1>5, <1>6, <2>1, <2>4, <3>1, AbortsCall
    <3>3. Matches(AfterRange(r).stack, d)  BY <1>6, <2>6, <3>2
    <3> QED BY <1>1, <1>6, <2>1, <2>3, <2>5, <2>6, <3>1, <3>2, <3>3, BlockRan DEF Calling, Aborted
  <2>7. CASE c.pc - a = 2 /\ r.branch = "return" /\ Len(c.stk) > 1
    <3>1. d.pc = a + 2 /\ d.did = "abortedReturn" /\ c.pc = a + 2
      BY <1>5, <2>2, <2>3, <2>7
    <3>2. Len(o) > 1  BY <1>7, <2>1, <2>7 DEF Reached
    <3>3. AfterRange(r).stack = SubSeq(o, 1, Len(o) - 1)
      BY <1>6, <2>1, <2>7, <3>2 DEF Aborted
    <3>4. d.stk = SeenBy(c, a)  BY <2>3
    <3>5. Coherent(d) /\ Matches(SubSeq(o, 1, Len(o) - 1), d)
      BY <1>5, <1>6, <2>1, <2>4, <2>7, <3>1, <3>4, AbortsReturn
    <3>6. Matches(AfterRange(r).stack, d)  BY <3>3, <3>5, Zenon
    <3> QED BY <1>1, <1>6, <2>1, <2>3, <2>5, <2>7, <3>1, <3>5, <3>6, BlockRan DEF Calling, Aborted
  <2> QED BY <2>1, <2>6, <2>7
<1>16. CASE Target!HandlerExit(r)
  <2> DEFINE d == [pc |-> c.pc, stk |-> c.stk, did |-> "left", held |-> c.held,
                   end |-> r.end]
  <2>1. /\ cpu' = [cpu EXCEPT ![Len(cpu)] = d] /\ UNCHANGED <<running, idle>>
        /\ r.branch = "return" /\ Len(cpu) > 1 /\ Len(c.stk) = 1
    <3> DEFINE e == [c EXCEPT !.did = "left"]
    <3>1. e.pc = c.pc /\ e.stk = c.stk /\ e.did = "left" /\ e.held = c.held
      BY <1>4 DEF Coherent, TargetContexts
    <3> HIDE DEF e
    <3>2. Target!Becomes(r, e)  BY <1>2, <1>16 DEF Target!HandlerExit, e
    <3> QED BY <1>2, <1>16, <3>1, <3>2
         DEF Target!HandlerExit, Target!Becomes, Target!CanReturn
  <2>2. c.did \in {"other", "call", "return"}
    <3>1. c.did # "abortedCall"
      <4>1. c.did = "abortedCall" => c.pc - 1 \in DOMAIN Symbols  BY <1>4 DEF Coherent
      <4>2. c.pc - 1 \in a .. a + 3 /\ c.pc - 1 # a  BY <1>5, <2>1
      <4>3. c.pc - 1 \notin DOMAIN Symbols  BY <4>2, Places DEF IsFunctionEntry
      <4> QED BY <4>1, <4>3
    <3>2. c.did # "abortedReturn"  BY <1>4, <2>1 DEF Coherent
    <3> QED BY <1>5, <3>1, <3>2
  <2>3. d \in TargetContexts  BY <1>4, <1>9 DEF Coherent, TargetContexts
  <2>4. d.pc = c.pc /\ d.stk = c.stk /\ d.did = "left" /\ ~d.held /\ d.end = r.end
    BY <1>5
  <2> HIDE DEF d
  <2>5. Coherent(d) /\ Matches(o, d)
    BY <1>5, <1>6, <1>7, <2>1, <2>2, <2>3, <2>4, StaysInFunction
  <2>6. Len(o) = 1  BY <1>7, <2>1, <2>2 DEF Reached
  <2>7. Matches(AfterRange(r).stack, d)  BY <1>6, <2>5, <2>6
  <2>8. Len(cpu) >= 2  BY <1>4, <2>1
  <2> QED BY <1>1, <1>6, <2>1, <2>4, <2>5, <2>7, <2>8, BlockRan DEF Calling, Aborted
<1> QED BY <1>11, <1>12, <1>13, <1>14, <1>15, <1>16 DEF Target!Execute

\* A context before its first block: any name may be on its one frame.
LEMMA BeforeFirstBlock ==
  ASSUME NEW a \in DOMAIN Symbols
  PROVE  LET d == Target!ContextAt(a) IN
         /\ Coherent(d) /\ NotRunYet(d) /\ d.did = "other" /\ ~d.held
         /\ \A x : x.gap = 0 => Matches(<<x>>, d)
<1> DEFINE f == [fn |-> Symbols[a], ret |-> 0, tail |-> FALSE]
           d == [pc |-> a, stk |-> <<f>>, did |-> "other", held |-> FALSE, end |-> 0]
<1>1. Target!ContextAt(a) = d  BY DEF Target!ContextAt, Target!FrameAt
<1>2. a \in Nat  BY SymbolsAssumption
<1>3. f \in TargetFrames /\ f.fn = Symbols[a]  BY DEF TargetFrames, Functions
<1> HIDE DEF f
<1>4. d.pc = a /\ d.stk = <<f>> /\ d.did = "other" /\ ~d.held  OBVIOUS
<1>5. Len(<<f>>) = 1 /\ <<f>>[1] = f /\ <<f>> \in Seq(TargetFrames)  BY <1>3
<1>6. d \in TargetContexts  BY <1>2, <1>5 DEF TargetContexts
<1> HIDE DEF d
<1>7. In(d.pc, f.fn)
  <2>1. a \in a .. a + 3  BY <1>2
  <2> QED BY <1>3, <1>4, <2>1 DEF In
<1>8. Coherent(d)  BY <1>4, <1>5, <1>6, <1>7 DEF Coherent, Aborted
<1>9. ASSUME NEW x, x.gap = 0 PROVE Matches(<<x>>, d)
  <2>1. Len(<<x>>) = 1 /\ <<x>>[1] = x  OBVIOUS
  <2>2. HasOldName(<<x>>, d, 1)  BY <1>4, <1>5 DEF HasOldName
  <2>3. Shown(d) = <<f>>  BY <1>4 DEF Shown
  <2> QED BY <1>5, <1>9, <2>1, <2>2, <2>3 DEF Matches
<1> QED BY <1>1, <1>4, <1>5, <1>8, <1>9 DEF NotRunYet

\* What a context holds back, and which block it ran last, is not compared.
LEMMA SameContext ==
  ASSUME NEW c, Coherent(c), NEW d \in TargetContexts,
         d.pc = c.pc, d.stk = c.stk, d.did = c.did, ~d.held
  PROVE  /\ Coherent(d)
         /\ \A s : Matches(s, c) => Matches(s, d)
         /\ \A w : (Again(w, c) => Again(w, d)) /\ (Elsewhere(w, c) => Elsewhere(w, d))
<1>1. Coherent(d)  BY DEF Coherent
<1>2. Shown(d) = Shown(c)  BY DEF Shown
<1>3. \A s, i : HasOldName(s, c, i) <=> HasOldName(s, d, i)  BY DEF HasOldName
<1> QED BY <1>1, <1>2, <1>3 DEF Matches, Again, Elsewhere

\* An exception: the window of the last block tells the branch it took over on.
LEMMA ExceptionKept ==
  ASSUME TypeOK, TargetInv, NEW e \in Exceptions, Target!Take(e), Exception(e),
         ~Target!AwkwardTake
  PROVE  TargetInv'
<1>1. PICK m : m = Len(ctx)  OBVIOUS
<1>2. PICK c : c = Target!Running  OBVIOUS
<1>0. ~finished  BY DEF Exception
<1>3. /\ c = cpu[m] /\ Len(cpu) = m /\ m \in Nat \ {0} /\ cpu \in Seq(TargetContexts)
      /\ Coherent(c) /\ Runs(Innermost, c, pending, reexec) /\ Innermost = ctx[m]
      /\ ctx \in Seq(Contexts)
  BY <1>0, <1>1, <1>2, RunningContext DEF TargetInv, TypeOK, Innermost
<1> DEFINE k == ctx[m]
           c2 == [c EXCEPT !.held = FALSE]
           k2 == [k EXCEPT !.pending = pending]
           a == Handler[e]
           x == Target!ContextAt(a)
           y == [track |-> e, stack |-> << [fn |-> e, gap |-> 0] >>,
                 pending |-> NoCall, last |-> NoRange]
<1>4. /\ c.did # "left" /\ (c.held \/ c.end # Target!EndOf(c.pc))
      /\ UNCHANGED <<running, idle>>
      /\ cpu' = Append([cpu EXCEPT ![m] = c2], x)
  BY <1>2, <1>3 DEF Target!Take, Target!AwkwardTake
<1>5. /\ ctx' = Append([ctx EXCEPT ![m] = k2], y)
      /\ pending' = NoCall /\ noted' = {}
      /\ UNCHANGED <<curThread, parked, gaps, reexec>>
  BY <1>1 DEF Exception
<1>6. /\ c2 \in TargetContexts /\ ~c2.held
      /\ c2.pc = c.pc /\ c2.stk = c.stk /\ c2.did = c.did /\ c2.end = c.end
  BY <1>3 DEF Coherent, TargetContexts
<1>7. k2.pending = pending /\ k2.last = k.last /\ k2.stack = k.stack
  <2>1. k \in Contexts  BY <1>1, <1>3
  <2> QED BY <2>1 DEF Contexts
<1>8. /\ Coherent(x) /\ NotRunYet(x) /\ x.did = "other" /\ ~x.held
      /\ Matches(y.stack, x)
  <2>1. a \in DOMAIN Symbols  BY ProgramAssumption
  <2>2. [fn |-> e, gap |-> 0].gap = 0 /\ y.stack = << [fn |-> e, gap |-> 0] >>  OBVIOUS
  <2> QED BY <2>1, <2>2, BeforeFirstBlock
<1>9. x \in TargetContexts  BY <1>8 DEF Coherent
<1>10. y.last = NoRange /\ y.pending = NoCall  OBVIOUS
<1> HIDE DEF k, c2, k2, a, x, y
<1>11. /\ Len(cpu') = m + 1 /\ cpu' \in Seq(TargetContexts) /\ cpu'[m + 1] = x /\ cpu'[m] = c2
       /\ \A i \in 1 .. m - 1 : cpu'[i] = cpu[i]
  BY <1>3, <1>4, <1>6, <1>9
<1>12. /\ Len(ctx') = m + 1 /\ ctx'[m + 1] = y /\ ctx'[m] = k2
       /\ \A i \in 1 .. m - 1 : ctx'[i] = ctx[i]
  BY <1>1, <1>3, <1>5
<1>13. /\ Coherent(c2)
       /\ \A s : Matches(s, c) => Matches(s, c2)
       /\ \A w : (Again(w, c) => Again(w, c2)) /\ (Elsewhere(w, c) => Elsewhere(w, c2))
  BY <1>3, <1>6, SameContext
<1>14. Preempted(k2, c2)
  <2>1. Runs(k, c, pending, reexec)  BY <1>3 DEF k
  <2>2. LastBlock(k2, c2)  BY <1>6, <1>7, <2>1 DEF Runs, LastBlock
  <2>3. k2.pending # NoCall <=> c2.did \in Calling  BY <1>6, <1>7, <2>1 DEF Runs
  <2>4. CASE c.did \in Aborted
    <3>1. Again(k.last, c)  BY <1>4, <2>1, <2>4 DEF Runs
    <3> QED BY <1>4, <1>6, <1>7, <1>13, <2>2, <2>3, <2>4, <3>1 DEF Preempted
  <2>5. CASE c.did \notin Aborted
    <3>1. c.end # Target!EndOf(c.pc)  BY <1>3, <1>4, <2>5 DEF Coherent
    <3>2. Elsewhere(k.last, c)  BY <2>1, <3>1 DEF Runs, LastBlock, Elsewhere
    <3> QED BY <1>4, <1>6, <1>7, <1>13, <2>2, <2>3, <2>5, <3>2 DEF Preempted
  <2> QED BY <2>4, <2>5
<1>15. Runs(y, x, pending', reexec')
  BY <1>5, <1>8, <1>10 DEF Runs, LastBlock, Calling, Aborted
<1>16. \A i \in 1 .. m + 1 : i = m + 1 \/ i = m \/ i \in 1 .. m - 1  BY <1>3
<1>17. \A i \in 1 .. m : Coherent(cpu[i]) /\ Matches(ctx[i].stack, cpu[i])
  BY <1>3 DEF TargetInv
<1>18. \A i \in 1 .. m - 1 : i \in 1 .. m /\ i # m  BY <1>3
<1>19. m \in 1 .. m  BY <1>3
<1>20. \A i \in 1 .. m + 1 : Coherent(cpu'[i]) /\ Matches(ctx'[i].stack, cpu'[i])
  BY <1>3, <1>7, <1>8, <1>11, <1>12, <1>13, <1>16, <1>17, <1>18, <1>19 DEF k
<1>21. \A i \in 1 .. m : Preempted(ctx'[i], cpu'[i])
  <2>1. \A i \in 1 .. m : i = m \/ i \in 1 .. m - 1  BY <1>3
  <2>2. \A i \in 1 .. m - 1 : Preempted(ctx[i], cpu[i])  BY <1>3 DEF TargetInv
  <2> QED BY <1>11, <1>12, <1>14, <2>1, <2>2
<1>22. \A t \in Threads \ {running'} : Waits(StackOf(t)', idle'[t])
  BY <1>4, ExceptionStacks DEF TargetInv
<1>23. gaps' = 0 /\ curThread' = running' /\ DOMAIN idle' = Threads
  BY <1>4, <1>5 DEF TargetInv
<1>24. Len(cpu') - 1 = m  BY <1>3, <1>11
<1> QED
  BY <1>5, <1>8, <1>11, <1>12, <1>15, <1>20, <1>21, <1>22, <1>23, <1>24 DEF TargetInv

\* An exception return: the preempted context is taken up where it was.
LEMMA LeaveKept ==
  ASSUME TypeOK, TargetInv, Target!Leave, ExceptionRet
  PROVE  TargetInv'
<1>1. PICK m : m = Len(ctx)  OBVIOUS
<1>0. ~finished  BY DEF ExceptionRet, LeaveContext, UnmatchedExceptionRet
<1>2. /\ Len(cpu) = m /\ m \in Nat \ {0} /\ cpu \in Seq(TargetContexts)
      /\ ctx \in Seq(Contexts)
  BY <1>1 DEF TargetInv, TypeOK
<1>3. m >= 2
  <2>1. cpu[Len(cpu)].did = "left"  BY DEF Target!Leave, Target!Running
  <2> QED BY <1>2, <2>1 DEF TargetInv
<1>4. LeaveContext  BY <1>1, <1>3 DEF ExceptionRet, UnmatchedExceptionRet
<1> DEFINE l == m - 1
           k == ctx[l]
           c == cpu[l]
           k2 == [k EXCEPT !.pending = NoCall]
<1>5. /\ ctx' = [Front(ctx) EXCEPT ![l] = k2]
      /\ pending' = k.pending /\ reexec' = k.last /\ noted' = {}
      /\ UNCHANGED <<curThread, parked, gaps>>
  <2>1. Front(ctx) = SubSeq(ctx, 1, l)  BY <1>1 DEF Front
  <2>2. Front(ctx)[l] = k  BY <1>1, <1>2, <1>3, <2>1
  <2>3. ctx' = [Front(ctx) EXCEPT ![l].pending = NoCall]  BY <1>1, <1>4 DEF LeaveContext
  <2> HIDE DEF l, k
  <2>4. ctx' = [Front(ctx) EXCEPT ![l] = k2]  BY <2>2, <2>3
  <2> QED BY <1>1, <1>4, <2>4 DEF LeaveContext, l, k
<1>6. cpu' = SubSeq(cpu, 1, l) /\ UNCHANGED <<running, idle>>
  BY <1>2 DEF Target!Leave, Target!Front, Front
<1>7. l \in 1 .. m /\ l \in 1 .. l /\ l \in Nat \ {0} /\ m = l + 1  BY <1>2, <1>3
<1>8. k2.last = k.last /\ k2.stack = k.stack
  <2>1. k \in Contexts  BY <1>1, <1>2, <1>7
  <2> QED BY <2>1 DEF Contexts
<1>9. Preempted(k, c) /\ Coherent(c)  BY <1>2, <1>7 DEF TargetInv
<1> HIDE DEF l, k, c, k2
<1>10. /\ Len(cpu') = l /\ cpu' \in Seq(TargetContexts)
       /\ \A i \in 1 .. l : cpu'[i] = cpu[i]
  BY <1>2, <1>6, <1>7
<1>11. Len(ctx') = l /\ ctx'[l] = k2 /\ \A i \in 1 .. l - 1 : ctx'[i] = ctx[i]
  <2>1. Front(ctx) = SubSeq(ctx, 1, l)  BY <1>1, <1>7 DEF Front
  <2>2. /\ Front(ctx) \in Seq(Contexts) /\ Len(Front(ctx)) = l
        /\ \A i \in 1 .. l : Front(ctx)[i] = ctx[i]
    <3>1. l \in 1 .. Len(ctx)  BY <1>1, <1>7
    <3> QED BY <1>2, <2>1, <3>1
  <2> QED BY <1>5, <1>7, <2>2
<1>12. cpu'[l] = c  BY <1>7, <1>10 DEF c
<1>13. Runs(k2, c, pending', reexec')
  <2>1. LastBlock(k2, c)  BY <1>8, <1>9 DEF Preempted, LastBlock
  <2>2. c.did \in Aborted => c.end = Target!EndOf(c.pc)
    BY <1>9 DEF Preempted, Again, LastBlock
  <2> QED BY <1>5, <1>9, <2>1, <2>2 DEF Runs, Preempted
<1>14. \A i \in 1 .. l : i = l \/ i \in 1 .. l - 1  BY <1>7
<1>15. \A i \in 1 .. l - 1 : i \in 1 .. l /\ i \in 1 .. m - 1  BY <1>7
<1>16. \A i \in 1 .. l : i \in 1 .. m  BY <1>7
<1>17. \A i \in 1 .. m : Coherent(cpu[i]) /\ Matches(ctx[i].stack, cpu[i])
  BY <1>2 DEF TargetInv
<1>18. \A i \in 1 .. l : Coherent(cpu'[i]) /\ Matches(ctx'[i].stack, cpu'[i])
  <2>1. \A i \in 1 .. l : ctx'[i].stack = ctx[i].stack
    BY <1>8, <1>11, <1>14 DEF k
  <2> QED BY <1>10, <1>16, <1>17, <2>1
<1>19. \A i \in 1 .. l - 1 : Preempted(ctx'[i], cpu'[i])
  <2>1. \A i \in 1 .. m - 1 : Preempted(ctx[i], cpu[i])  BY <1>2 DEF TargetInv
  <2> QED BY <1>10, <1>11, <1>15, <2>1
<1>20. \A t \in Threads \ {running'} : Waits(StackOf(t)', idle'[t])
  BY <1>4, <1>6, LeaveContextStacks DEF TargetInv
<1>21. gaps' = 0 /\ curThread' = running' /\ DOMAIN idle' = Threads
  BY <1>5, <1>6 DEF TargetInv
<1>22. cpu'[l].did # "left"  BY <1>9, <1>12 DEF Preempted
<1> QED
  BY <1>5, <1>10, <1>11, <1>12, <1>13, <1>18, <1>19, <1>20, <1>21, <1>22 DEF TargetInv

\* A switch of threads, inside an exception: only the lowest context changes.
LEMMA SwitchKept ==
  ASSUME TypeOK, TargetInv, NEW t \in Threads, Target!Switch(t), SwitchThread(t),
         ~Target!AwkwardSwitch(t)
  PROVE  TargetInv'
<1>1. PICK m : m = Len(ctx)  OBVIOUS
<1>2. /\ Len(cpu) = m /\ m \in Nat \ {0} /\ cpu \in Seq(TargetContexts)
      /\ ctx \in Seq(Contexts)
  BY <1>1 DEF TargetInv, TypeOK
<1> DEFINE c == idle[t]
           c2 == [c EXCEPT !.end = cpu[1].end]
           left == cpu[1]
           left2 == [left EXCEPT !.end = 0]
<1>3. /\ m > 1 /\ cpu[m].did \notin Calling /\ cpu[m].did # "left" /\ t # running
      /\ left.did \notin {"call", "abortedCall", "abortedReturn"}
      /\ left.end # Target!EndOf(c.pc)
      /\ cpu' = [cpu EXCEPT ![1] = c2] /\ running' = t
      /\ idle' = IF running = Boot THEN idle ELSE [idle EXCEPT ![running] = left2]
  BY <1>2 DEF Target!Switch, Target!AwkwardSwitch, Target!Running, Calling
<1>4. /\ Len(ctx') = m /\ \A i \in 2 .. m : ctx'[i] = ctx[i]
      /\ \A u \in Threads \cup {Boot} :
           StackOf(u)' = IF u = Boot THEN FreshStack ELSE StackOf(u)
  BY <1>1, SwitchThreadStacks
<1>5. /\ ctx' = [ctx EXCEPT ![1].stack = StackOf(t)]
      /\ curThread' = t /\ pending' = NoCall /\ noted' = {}
      /\ UNCHANGED <<gaps, reexec>>
  BY DEF SwitchThread, TakeUp
<1>6. 1 \in 1 .. m /\ m \in 2 .. m /\ 1 \in 1 .. m - 1  BY <1>2, <1>3
<1>7. /\ Waits(StackOf(t), c) /\ Preempted(ctx[1], left) /\ Coherent(left)
      /\ Matches(ctx[1].stack, left) /\ left.did \in {"other", "return"}
  <2>1. /\ Waits(StackOf(t), c) /\ Preempted(ctx[1], left) /\ Coherent(left)
        /\ Matches(ctx[1].stack, left)
    BY <1>2, <1>3, <1>6 DEF TargetInv
  <2> QED BY <1>3, <2>1 DEF Preempted, Coherent, TargetContexts, Aborted
<1>8. /\ c2 \in TargetContexts /\ c2.pc = c.pc /\ c2.stk = c.stk /\ c2.did = c.did
      /\ ~c2.held /\ c2.end = left.end
  BY <1>7 DEF Waits, Coherent, TargetContexts, Aborted
<1>9. /\ left2 \in TargetContexts /\ left2.pc = left.pc /\ left2.stk = left.stk
      /\ left2.did = left.did /\ ~left2.held
  BY <1>3, <1>7 DEF Coherent, TargetContexts, Aborted
<1>10. /\ ctx'[1].stack = StackOf(t) /\ ctx'[1].pending = ctx[1].pending
       /\ ctx'[1].last = ctx[1].last
  <2>1. ctx[1] \in Contexts  BY <1>1, <1>2, <1>6
  <2> DEFINE s == StackOf(t)
             k2 == [ctx[1] EXCEPT !.stack = s]
  <2> HIDE DEF s
  <2>2. k2.stack = s /\ k2.pending = ctx[1].pending /\ k2.last = ctx[1].last
    BY <2>1 DEF Contexts
  <2>3. ctx' = [ctx EXCEPT ![1] = k2]  BY <1>5 DEF s
  <2> HIDE DEF k2
  <2>4. ctx'[1] = k2  BY <1>1, <1>2, <1>6, <2>3
  <2> QED BY <2>2, <2>4 DEF s
<1> HIDE DEF c, c2, left, left2
<1>11. /\ Len(cpu') = m /\ cpu' \in Seq(TargetContexts) /\ cpu'[1] = c2
       /\ \A i \in 2 .. m : cpu'[i] = cpu[i]
  BY <1>2, <1>3, <1>6, <1>8
<1>12. Coherent(c2) /\ Matches(StackOf(t), c2)
  BY <1>7, <1>8, SameContext DEF Waits
<1>13. Waits(ctx[1].stack, left2)
  BY <1>3, <1>7, <1>9, SameContext DEF Waits
<1>14. Preempted(ctx'[1], c2)
  <2>1. c2.did \in {"other", "return"}  BY <1>7, <1>8 DEF Waits
  <2>2. ctx[1].pending = NoCall /\ LastBlock(ctx[1], left)
    BY <1>3, <1>7 DEF Preempted, Calling
  <2>3. LastBlock(ctx'[1], c2)  BY <1>8, <1>10, <2>2 DEF LastBlock
  <2>4. Elsewhere(ctx'[1].last, c2)  BY <1>3, <1>8, <1>10, <2>2 DEF LastBlock, Elsewhere
  <2> QED BY <1>8, <1>10, <2>1, <2>2, <2>3, <2>4 DEF Preempted, Calling, Aborted
<1>15. Runs(ctx'[m], cpu'[m], pending', reexec')
  <2>1. Runs(ctx[m], cpu[m], pending, reexec)  BY <1>2 DEF TargetInv
  <2>2. ctx'[m] = ctx[m] /\ cpu'[m] = cpu[m]  BY <1>4, <1>6, <1>11
  <2> QED BY <1>3, <1>5, <2>1, <2>2 DEF Runs, Calling, Aborted
<1>16. \A i \in 1 .. m : i = 1 \/ i \in 2 .. m  BY <1>2
<1>17. \A i \in 2 .. m : i \in 1 .. m  BY <1>2
<1>18. \A i \in 1 .. m - 1 : i = 1 \/ (i \in 2 .. m /\ i \in 1 .. m - 1)  BY <1>2
<1>19. \A i \in 1 .. m : Coherent(cpu[i]) /\ Matches(ctx[i].stack, cpu[i])
  BY <1>2 DEF TargetInv
<1>20. \A i \in 1 .. m : Coherent(cpu'[i]) /\ Matches(ctx'[i].stack, cpu'[i])
  BY <1>4, <1>10, <1>11, <1>12, <1>16, <1>17, <1>19
<1>21. \A i \in 1 .. m - 1 : Preempted(ctx'[i], cpu'[i])
  <2>1. \A i \in 1 .. m - 1 : Preempted(ctx[i], cpu[i])  BY <1>2 DEF TargetInv
  <2> QED BY <1>4, <1>11, <1>14, <1>18, <2>1
<1>22. DOMAIN idle = Threads /\ running = curThread /\ curThread \in Threads \cup {Boot}
  BY DEF TargetInv, TypeOK
<1>23. ASSUME NEW u \in Threads \ {t} PROVE Waits(StackOf(u)', idle'[u])
  <2>1. u # Boot /\ StackOf(u)' = StackOf(u)  BY <1>4, LanesAssumption
  <2>2. CASE u = running
    <3>1. idle'[u] = left2  BY <1>3, <1>22, <2>1, <2>2
    <3>2. StackOf(u) = ctx[1].stack  BY <1>22, <2>2 DEF StackOf
    <3> QED BY <1>13, <2>1, <3>1, <3>2
  <2>3. CASE u # running
    <3>1. idle'[u] = idle[u]  BY <1>3, <1>22, <2>3
    <3>2. Waits(StackOf(u), idle[u])  BY <2>3 DEF TargetInv
    <3> QED BY <2>1, <3>1, <3>2
  <2> QED BY <2>2, <2>3
<1>24. gaps' = 0 /\ DOMAIN idle' = Threads  BY <1>3, <1>5, <1>22 DEF TargetInv
<1>25. cpu'[m].did # "left"  BY <1>3, <1>6, <1>11
<1> QED
  BY <1>3, <1>4, <1>5, <1>11, <1>15, <1>20, <1>21, <1>23, <1>24, <1>25 DEF TargetInv

LEMMA TargetInvAtStart == TargetInit => TargetInv
<1> SUFFICES ASSUME TargetInit PROVE TargetInv
  OBVIOUS
<1> DEFINE x == Target!ContextAt(Start[Boot])
           r == [fn |-> Root, gap |-> 0]
<1>1. /\ ctx = << [track |-> MainTrack, stack |-> <<r>>, pending |-> NoCall, last |-> NoRange] >>
      /\ curThread = Boot /\ parked = [t \in {} |-> FreshStack]
      /\ gaps = 0 /\ pending = NoCall /\ reexec = NoRange /\ noted = {}
  BY DEF TargetInit, Init, FreshStack
<1>2. cpu = <<x>> /\ running = Boot /\ idle = [t \in Threads |-> Target!ContextAt(Start[t])]
  BY DEF TargetInit, Target!CpuInit
<1>3. r.gap = 0  OBVIOUS
<1>4. \A t \in Threads \cup {Boot} : Start[t] \in DOMAIN Symbols  BY ProgramAssumption
<1>5. Coherent(x) /\ NotRunYet(x) /\ x.did = "other" /\ ~x.held /\ Matches(<<r>>, x)
  BY <1>3, <1>4, BeforeFirstBlock
<1>6. Len(ctx) = 1 /\ ctx[1].stack = <<r>> /\ ctx[1].last = NoRange  BY <1>1
<1>7. x \in TargetContexts  BY <1>5 DEF Coherent
<1>8. ASSUME NEW t \in Threads PROVE Waits(StackOf(t), idle[t])
  <2>1. t # curThread /\ t \notin DOMAIN parked  BY <1>1, LanesAssumption
  <2>2. StackOf(t) = <<r>>  BY <2>1 DEF StackOf, FreshStack
  <2>3. idle[t] = Target!ContextAt(Start[t])  BY <1>2
  <2> QED BY <1>3, <1>4, <2>2, <2>3, BeforeFirstBlock DEF Waits
<1> HIDE DEF x, r
<1>9. Len(cpu) = 1 /\ cpu[1] = x /\ cpu \in Seq(TargetContexts)  BY <1>2, <1>7
<1>10. Runs(ctx[1], x, pending, reexec)
  BY <1>1, <1>5, <1>6 DEF Runs, LastBlock, Elsewhere, Calling, Aborted
<1>11. \A i \in 1 .. 1 : i = 1  OBVIOUS
<1>12. DOMAIN idle = Threads  BY <1>2
<1> QED BY <1>1, <1>2, <1>5, <1>6, <1>8, <1>9, <1>10, <1>11, <1>12 DEF TargetInv


LEMMA TargetInvAgrees ==
  ASSUME TypeOK, TargetInv
  PROVE  StacksAgree /\ NothingNoted
<1>1. ASSUME NEW s, NEW c, Matches(s, c) PROVE Agrees(s, c)
  <2>1. \A i \in 2 .. Len(s) : i \in 1 .. Len(s) /\ i # 1
    <3> DEFINE n == Len(s)
    <3> HIDE DEF n
    <3>1. \A i \in 2 .. n : i \in 1 .. n /\ i # 1  OBVIOUS
    <3> QED BY <3>1 DEF n
  <2> QED BY <1>1, <2>1 DEF Matches, Agrees, HasOldName
<1>2. /\ Len(cpu) = Len(ctx) /\ Len(ctx) \in Nat \ {0} /\ running = curThread
      /\ \A i \in 1 .. Len(cpu) : Matches(ctx[i].stack, cpu[i])
      /\ \A t \in Threads \ {running} : Waits(StackOf(t), idle[t])
      /\ noted = {}
  BY DEF TargetInv, TypeOK
<1>3. 1 \in 1 .. Len(cpu) /\ \A i \in 2 .. Len(ctx) : i \in 1 .. Len(cpu)  BY <1>2
<1>4. ASSUME NEW t \in Threads \cup {running} PROVE Agrees(StackOf(t), ContextOf(t))
  <2>1. CASE t = running
    <3>1. StackOf(t) = ctx[1].stack /\ ContextOf(t) = cpu[1]
      BY <1>2, <2>1 DEF StackOf, ContextOf
    <3> QED BY <1>1, <1>2, <1>3, <3>1
  <2>2. CASE t # running
    <3>1. ContextOf(t) = idle[t] /\ t \in Threads \ {running}  BY <2>2 DEF ContextOf
    <3> QED BY <1>1, <1>2, <3>1 DEF Waits
  <2> QED BY <2>1, <2>2
<1>5. \A i \in 2 .. Len(ctx) : Agrees(ctx[i].stack, cpu[i])  BY <1>1, <1>2, <1>3
<1> QED BY <1>2, <1>4, <1>5 DEF StacksAgree, NothingNoted

LEMMA TargetIsMachine == TargetSpec => Spec
<1>1. TargetInit => Init  BY DEF TargetInit
<1>2. [TargetNext]_targetVars => [Next]_vars
  BY DEF TargetNext, RangeTraced, ExceptionTraced, ExceptionRetTraced, SwitchTraced,
         LeftThere, targetVars, Next
<1> QED BY <1>1, <1>2, PTL DEF TargetSpec, Spec

(* The machine of callstack.cpp is exact on a lossless trace, for every        *)
(* program, set of threads and depth of calls and exceptions: the rebuilt      *)
(* stacks are those that ran and no diagnostic is counted, up to the first     *)
(* exception between two executions of one branch or switch behind a call, or  *)
(* to the same block: RebuiltAsRun claims nothing from there on.               *)
THEOREM RebuiltExactly == TargetSpec => []RebuiltAsRun
<1> DEFINE Kept == awkward \in BOOLEAN /\ (~awkward => TargetInv)
<1>1. TargetInit => Kept  BY TargetInvAtStart DEF TargetInit
<1>2. TypeOK /\ BlindSpotForgetsCall /\ Kept /\ [TargetNext]_targetVars => Kept'
  <2> SUFFICES ASSUME TypeOK, BlindSpotForgetsCall, Kept, [TargetNext]_targetVars
               PROVE  Kept'
    OBVIOUS
  <2>0. awkward' \in BOOLEAN /\ (~awkward' => ~awkward)
    BY DEF TargetNext, RangeTraced, ExceptionTraced, ExceptionRetTraced, SwitchTraced,
           LeftThere, targetVars
  <2> SUFFICES ASSUME ~awkward', TargetInv PROVE TargetInv'
    BY <2>0
  <2>1. CASE RangeTraced  BY <2>1, RangeKept DEF RangeTraced
  <2>2. CASE ExceptionTraced  BY <2>2, ExceptionKept DEF ExceptionTraced
  <2>3. CASE ExceptionRetTraced  BY <2>3, LeaveKept DEF ExceptionRetTraced
  <2>4. CASE SwitchTraced  BY <2>4, SwitchKept DEF SwitchTraced
  <2>5. CASE UNCHANGED targetVars
    <3>1. /\ UNCHANGED <<ctx, curThread, parked, gaps, pending, reexec, noted>>
          /\ UNCHANGED <<cpu, running, idle>>
      BY <2>5 DEF targetVars, vars, core
    <3>2. \A t : StackOf(t)' = StackOf(t)  BY <3>1 DEF StackOf
    <3> QED BY <3>1, <3>2 DEF TargetInv
  <2> QED BY <2>1, <2>2, <2>3, <2>4, <2>5 DEF TargetNext, LeftThere
<1>3. TargetSpec => []TypeOK /\ []BlindSpotForgetsCall
  BY TargetIsMachine, TypeCorrect, NoCallAcrossBlindSpots, PTL
<1>4. TypeOK /\ Kept => RebuiltAsRun  BY TargetInvAgrees DEF RebuiltAsRun
<1> QED BY <1>1, <1>2, <1>3, <1>4, PTL DEF TargetSpec
=============================================================================
