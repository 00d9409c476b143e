--------------------------- MODULE CallStackProofs ---------------------------
(* Proofs about CallStack, for every program, set of threads and exceptions   *)
(* and every trace: types, the accounts of all lanes, and that the machine    *)
(* keeps the stacks apart (ThreadStacks).                                     *)
EXTENDS CallStack, InductionFacts, TLAPS

(* What do_call, do_return and the reconciliation work on: a stack and the    *)
(* slices of its lane. Each of them adds one slice per frame.                 *)
Books == [stack : Seq(Frames), open : Int, unbegun : BOOLEAN]
SameBalance(b, c) == c.open - Len(c.stack) = b.open - Len(b.stack)
Leaves(old, s) == Separate!Rewrites(old, s)

LEMMA FunctionAtIsName == \A a : FunctionAt(a) \in Names
<1> TAKE a
<1>1. CASE Covering(a) = {}
  BY <1>1 DEF FunctionAt, Names
<1>2. CASE Covering(a) # {}
  <2>1. (CHOOSE s \in Covering(a) : TRUE) \in DOMAIN Symbols
    BY <1>2 DEF Covering
  <2> QED BY <1>2, <2>1 DEF FunctionAt, Names, Functions
<1> QED BY <1>1, <1>2

\* do_call pushes one frame and appends one BEGIN.
LEMMA PushKeepsBalance ==
  ASSUME NEW b \in Books, NEW fn \in Names, gaps \in Nat
  PROVE  /\ Push(b, fn) \in Books
         /\ SameBalance(b, Push(b, fn))
         /\ Push(b, fn).stack = Append(b.stack, [fn |-> fn, gap |-> gaps])
<1> DEFINE x == [fn |-> fn, gap |-> gaps]
<1>1. x \in Frames
  BY DEF Frames
<1> QED BY <1>1 DEF Push, Books, SameBalance

\* Popping down to a depth appends one END per frame.
LEMMA PopToKeepsBalance ==
  ASSUME NEW b \in Books, NEW k \in 0 .. Len(b.stack)
  PROVE  /\ PopTo(b, k) \in Books
         /\ SameBalance(b, PopTo(b, k))
         /\ PopTo(b, k).stack = SubSeq(b.stack, 1, k)
         /\ Len(PopTo(b, k).stack) = k
<1>2. SubSeq(b.stack, 1, k) \in Seq(Frames) /\ Len(SubSeq(b.stack, 1, k)) = k
  BY DEF Books
<1>3. b.open \in Int /\ Len(b.stack) - k \in Int /\ b.unbegun \in BOOLEAN
  BY DEF Books
<1> QED BY <1>2, <1>3 DEF PopTo, Books, SameBalance

\* Renaming the top appends nothing and moves nothing.
LEMMA RelabelKeepsBalance ==
  ASSUME NEW b \in Books, b.stack # <<>>, NEW fn \in Names
  PROVE  /\ RelabelTop(b, fn) \in Books
         /\ SameBalance(b, RelabelTop(b, fn))
         /\ Len(RelabelTop(b, fn).stack) = Len(b.stack)
         /\ \A i \in 1 .. Len(b.stack) - 1 : RelabelTop(b, fn).stack[i] = b.stack[i]
<1> DEFINE n == Len(b.stack)
<1> DEFINE s == [b.stack EXCEPT ![n].fn = fn]
<1>2. b.stack \in Seq(Frames) /\ n \in Nat \ {0}
  BY DEF Books
<1>3. b.stack[n] \in Frames
  BY <1>2
<1>4. [b.stack[n] EXCEPT !.fn = fn] \in Frames
  BY <1>3 DEF Frames
<1>5. s \in Seq(Frames) /\ Len(s) = n
  BY <1>2, <1>4
<1>6. \A i \in 1 .. n - 1 : s[i] = b.stack[i]
  BY <1>2
<1> QED BY <1>2, <1>5, <1>6 DEF RelabelTop, Books, SameBalance

\* do_call leaves the frames below the one it may pop, and its callee on top.
LEMMA DoCallSound ==
  ASSUME NEW b \in Books, b.stack # <<>>, NEW fn \in Names, gaps \in Nat
  PROVE  /\ DoCall(b, fn) \in Books
         /\ SameBalance(b, DoCall(b, fn))
         /\ Leaves(b.stack, DoCall(b, fn).stack)
         /\ Last(DoCall(b, fn).stack).fn = fn
<1> DEFINE c == IF IsStale(b, fn) THEN Pop(b) ELSE b
<1> DEFINE x == [fn |-> fn, gap |-> gaps]
<1>0. b.stack \in Seq(Frames) /\ Len(b.stack) \in Nat \ {0}
  BY DEF Books
<1>1. /\ c \in Books
      /\ SameBalance(b, c)
      /\ Len(c.stack) \in Nat /\ Len(c.stack) <= Len(b.stack)
      /\ \A i \in 1 .. Len(c.stack) : c.stack[i] = b.stack[i]
  <2>1. CASE IsStale(b, fn)
    <3>1. Len(b.stack) - 1 \in 0 .. Len(b.stack)
      BY <1>0
    <3>2. /\ Pop(b) \in Books /\ SameBalance(b, Pop(b))
          /\ Pop(b).stack = SubSeq(b.stack, 1, Len(b.stack) - 1)
          /\ Len(Pop(b).stack) = Len(b.stack) - 1
      BY <3>1, PopToKeepsBalance DEF Pop
    <3>3. \A i \in 1 .. Len(b.stack) - 1 :
             SubSeq(b.stack, 1, Len(b.stack) - 1)[i] = b.stack[i]
      BY <1>0
    <3> QED BY <1>0, <2>1, <3>2, <3>3
  <2>2. CASE ~IsStale(b, fn)
    BY <1>0, <2>2 DEF SameBalance, Books
  <2> QED BY <2>1, <2>2
<1>2. DoCall(b, fn) = Push(c, fn)
  BY DEF DoCall
<1>3. /\ Push(c, fn) \in Books /\ SameBalance(c, Push(c, fn))
      /\ Push(c, fn).stack = Append(c.stack, x)
  BY <1>1, PushKeepsBalance
<1>4. c.stack \in Seq(Frames) /\ x \in Frames
  BY <1>1 DEF Books, Frames
<1>5. /\ Len(Append(c.stack, x)) = Len(c.stack) + 1
      /\ \A i \in 1 .. Len(c.stack) : Append(c.stack, x)[i] = c.stack[i]
      /\ Append(c.stack, x)[Len(c.stack) + 1] = x
  BY <1>4
<1>6. Leaves(b.stack, Append(c.stack, x))
  BY <1>0, <1>1, <1>5 DEF Leaves, Separate!Rewrites
<1>7. Last(Append(c.stack, x)).fn = fn
  BY <1>5 DEF Last
<1>8. SameBalance(b, Push(c, fn))
  BY <1>1, <1>3, <1>4, <1>0 DEF SameBalance, Books
<1> QED BY <1>2, <1>3, <1>6, <1>7, <1>8

\* do_return pops at most the top frame, and never the last one.
LEMMA DoReturnSound ==
  ASSUME NEW b \in Books, b.stack # <<>>
  PROVE  /\ DoReturn(b) \in Books
         /\ SameBalance(b, DoReturn(b))
         /\ \A old : Leaves(old, b.stack) /\ Len(old) \in Nat => Leaves(old, DoReturn(b).stack)
<1>0. b.stack \in Seq(Frames) /\ Len(b.stack) \in Nat \ {0}
  BY DEF Books
<1>1. CASE Len(b.stack) > 1
  <2>1. Len(b.stack) - 1 \in 0 .. Len(b.stack)
    BY <1>0
  <2>2. /\ Pop(b) \in Books /\ SameBalance(b, Pop(b))
        /\ Pop(b).stack = SubSeq(b.stack, 1, Len(b.stack) - 1)
        /\ Len(Pop(b).stack) = Len(b.stack) - 1
    BY <2>1, PopToKeepsBalance DEF Pop
  <2>3. \A i \in 1 .. Len(b.stack) - 1 :
           SubSeq(b.stack, 1, Len(b.stack) - 1)[i] = b.stack[i]
    BY <1>0
  <2>4. \A old : Leaves(old, b.stack) /\ Len(old) \in Nat => Leaves(old, Pop(b).stack)
    BY <1>0, <1>1, <2>2, <2>3 DEF Leaves, Separate!Rewrites
  <2> QED BY <1>1, <2>2, <2>4 DEF DoReturn
<1>2. CASE ~(Len(b.stack) > 1)
  BY <1>2 DEF DoReturn, SameBalance
<1> QED BY <1>1, <1>2

\* The reconciliation unwinds to a frame that stays, renames the top or does nothing.
LEMMA ReconcileSound ==
  ASSUME NEW b \in Books, b.stack # <<>>, NEW start
  PROVE  /\ Reconcile(b, start) \in Books
         /\ SameBalance(b, Reconcile(b, start))
         /\ Leaves(b.stack, Reconcile(b, start).stack)
         /\ Last(b.stack).fn = FunctionAt(start) => Reconcile(b, start) = b
<1> DEFINE fn == FunctionAt(start)
<1>0. b.stack \in Seq(Frames) /\ Len(b.stack) \in Nat \ {0}
  BY DEF Books
<1>1. fn \in Names
  BY FunctionAtIsName
<1>2. CASE Unwinds(b, start)
  <2> DEFINE k == CHOOSE i \in Below(b, fn) : TRUE
  <2>1. k \in 1 .. Len(b.stack) - 1
    BY <1>2 DEF Unwinds, Below
  <2>2. k \in 0 .. Len(b.stack)
    BY <1>0, <2>1
  <2>3. Reconcile(b, start) = PopTo(b, k)
    BY <1>2 DEF Reconcile, UnwindTo
  <2> HIDE DEF k
  <2>4. /\ PopTo(b, k) \in Books /\ SameBalance(b, PopTo(b, k))
        /\ PopTo(b, k).stack = SubSeq(b.stack, 1, k) /\ Len(PopTo(b, k).stack) = k
    BY <2>2, PopToKeepsBalance
  <2>5. \A i \in 1 .. k : SubSeq(b.stack, 1, k)[i] = b.stack[i]
    BY <1>0, <2>1
  <2>6. Leaves(b.stack, PopTo(b, k).stack)
    <3>1. Len(SubSeq(b.stack, 1, k)) = k /\ k \in 1 .. Len(b.stack) + 1
      BY <1>0, <2>1, <2>4
    <3>2. \A i \in 1 .. k - 1 : SubSeq(b.stack, 1, k)[i] = b.stack[i]
      BY <1>0, <2>1, <2>5
    <3> QED BY <2>4, <3>1, <3>2 DEF Leaves, Separate!Rewrites
  <2> QED BY <1>2, <2>3, <2>4, <2>6 DEF Unwinds
<1>3. CASE ~Unwinds(b, start) /\ Reconcile(b, start) = b
  BY <1>0, <1>3 DEF SameBalance, Leaves, Separate!Rewrites
<1>4. CASE /\ ~Unwinds(b, start)
           /\ Last(b.stack).fn # fn
           /\ Reconcile(b, start) = RelabelTop(b, fn)
  <2>1. /\ RelabelTop(b, fn) \in Books /\ SameBalance(b, RelabelTop(b, fn))
        /\ Len(RelabelTop(b, fn).stack) = Len(b.stack)
        /\ \A i \in 1 .. Len(b.stack) - 1 : RelabelTop(b, fn).stack[i] = b.stack[i]
    BY <1>1, RelabelKeepsBalance
  <2>2. Leaves(b.stack, RelabelTop(b, fn).stack)
    BY <1>0, <2>1 DEF Leaves, Separate!Rewrites
  <2> QED BY <1>4, <2>1, <2>2
<1> QED BY <1>2, <1>3, <1>4 DEF Reconcile

LEMMA BookType ==
  ASSUME TypeOK, ~finished
  PROVE  /\ Len(ctx) \in Nat \ {0} /\ Innermost \in Contexts
         /\ CurLane \in Lanes
         /\ Book \in Books
         /\ Book.stack = Innermost.stack /\ Innermost.stack \in Stacks
<1>1. Len(ctx) \in Nat \ {0} /\ ctx \in Seq(Contexts)
  BY DEF TypeOK
<1>2. Innermost \in Contexts
  BY <1>1 DEF Innermost
<1>3. Innermost.stack \in Stacks
  BY <1>2 DEF Contexts
<1>4. CurLane \in Lanes
  <2>1. CASE Len(ctx) = 1
    BY <2>1 DEF TypeOK, CurLane, Lanes
  <2>2. CASE Len(ctx) # 1
    <3>1. \A i \in 1 .. Len(ctx) : ctx[i].track = MainTrack <=> i = 1
      BY DEF TypeOK
    <3>2. Len(ctx) \in 1 .. Len(ctx)
      BY <1>1
    <3>3. Innermost.track # MainTrack
      BY <2>2, <3>1, <3>2 DEF Innermost
    <3> QED BY <1>2, <2>2, <3>3 DEF Contexts, CurLane, Lanes
  <2> QED BY <2>1, <2>2
<1>5. open[CurLane] \in Int /\ (CurLane \in unbegun) \in BOOLEAN
  BY <1>4 DEF TypeOK
<1>6. Innermost.stack \in Seq(Frames)
  BY <1>3 DEF Stacks
<1>7. Book \in Books /\ Book.stack = Innermost.stack
  BY <1>5, <1>6 DEF Book, Books
<1> QED BY <1>1, <1>2, <1>3, <1>4, <1>7

(* An instruction range as a whole: one slice per frame that comes or goes,   *)
(* and all but the top frame is left from the stack before.                   *)
LEMMA AfterRangeSound ==
  ASSUME TypeOK, ~finished, NEW r \in Ranges
  PROVE  /\ AfterRange(r) \in Books
         /\ SameBalance(Book, AfterRange(r))
         /\ Leaves(Innermost.stack, AfterRange(r).stack)
<1> DEFINE fn == FunctionAt(r.start)
           old == Innermost.stack
<1>0. /\ Book \in Books /\ Book.stack = old /\ old # <<>>
      /\ Len(old) \in Nat \ {0} /\ gaps \in Nat /\ fn \in Names
  BY BookType, FunctionAtIsName DEF Stacks, TypeOK
<1>1. /\ AfterCall(r) \in Books /\ SameBalance(Book, AfterCall(r))
      /\ Leaves(old, AfterCall(r).stack)
      /\ AfterCall(r) = Book \/ Last(AfterCall(r).stack).fn = fn
  <2>1. CASE Confirms(r)
    BY <1>0, <2>1, DoCallSound DEF AfterCall
  <2>2. CASE ~Confirms(r)
    <3>1. AfterCall(r) = Book
      BY <2>2 DEF AfterCall
    <3>2. Leaves(old, old)
      BY <1>0 DEF Leaves, Separate!Rewrites
    <3> QED BY <1>0, <3>1, <3>2 DEF SameBalance
  <2> QED BY <2>1, <2>2
<1>2. AfterCall(r).stack # <<>>
  BY <1>1 DEF Leaves, Separate!Rewrites
<1>3. /\ AfterReconcile(r) \in Books /\ SameBalance(Book, AfterReconcile(r))
      /\ Leaves(old, AfterReconcile(r).stack)
  <2>1. CASE AfterReconcile(r) = AfterCall(r)
    BY <1>1, <2>1
  <2>2. CASE AfterReconcile(r) # AfterCall(r)
    <3>1. AfterReconcile(r) = Reconcile(AfterCall(r), r.start)
      BY <2>2 DEF AfterReconcile
    <3>2. AfterCall(r) = Book
      BY <1>1, <1>2, <2>2, <3>1, ReconcileSound
    <3> QED BY <1>0, <3>1, <3>2, ReconcileSound
  <2> QED BY <2>1, <2>2
<1>4. AfterReconcile(r).stack # <<>>
  BY <1>3 DEF Leaves, Separate!Rewrites
<1>5. CASE AfterRange(r) = AfterReconcile(r)
  BY <1>3, <1>5
<1>6. CASE AfterRange(r) = DoReturn(AfterReconcile(r))
  <2> DEFINE b == AfterReconcile(r)
  <2>1. /\ DoReturn(b) \in Books /\ SameBalance(b, DoReturn(b))
        /\ Leaves(old, DoReturn(b).stack)
    BY <1>0, <1>3, <1>4, DoReturnSound
  <2>2. /\ Book.open \in Int /\ b.open \in Int /\ DoReturn(b).open \in Int
        /\ Len(Book.stack) \in Int /\ Len(b.stack) \in Int /\ Len(DoReturn(b).stack) \in Int
    BY <1>0, <1>3, <2>1 DEF Books
  <2>3. SameBalance(Book, DoReturn(b))
    BY <1>3, <2>1, <2>2 DEF SameBalance
  <2> QED BY <1>6, <2>1, <2>3
<1> QED BY <1>5, <1>6 DEF AfterRange

------------------------------------------------------------------------------
(* The parts of TypeOK that most calls disturb.                               *)
ContextsOK(c) == /\ c \in Seq(Contexts) \ {<<>>}
                 /\ \A i \in 1 .. Len(c) : c[i].track = MainTrack <=> i = 1

\* A context rewritten where it is.
LEMMA ContextRewritten ==
  ASSUME ContextsOK(ctx), NEW i \in 1 .. Len(ctx), NEW c \in Contexts,
         c.track = ctx[i].track
  PROVE  ContextsOK([ctx EXCEPT ![i] = c]) /\ Len([ctx EXCEPT ![i] = c]) = Len(ctx)
<1>1. ctx \in Seq(Contexts) /\ Len(ctx) \in Nat
  BY DEF ContextsOK
<1> DEFINE d == [ctx EXCEPT ![i] = c]
<1>2. d \in Seq(Contexts) /\ Len(d) = Len(ctx)
  BY <1>1
<1>3. \A j \in 1 .. Len(ctx) : d[j].track = ctx[j].track
  BY <1>1
<1> HIDE DEF d
<1>4. d # <<>>
  BY <1>1, <1>2
<1>5. ContextsOK(d)
  BY <1>2, <1>3, <1>4 DEF ContextsOK
<1> QED BY <1>2, <1>5 DEF d

\* The edge that a call counts joins two names.
LEMMA CountedEdgeType ==
  ASSUME TypeOK, ~finished, NEW r
  PROVE  CountedEdge(r) \in (Names \X Names) \cup {NoEdge}
<1> DEFINE callee == FunctionAt(r.start)
           b == IF IsStale(Book, callee) THEN Pop(Book) ELSE Book
<1>1. Book \in Books /\ Len(Book.stack) \in Nat \ {0} /\ Book.stack \in Seq(Frames)
  BY BookType DEF Stacks, Books
<1>2. Len(Book.stack) - 1 \in 0 .. Len(Book.stack)
  BY <1>1
<1>3. b \in Books
  BY <1>1, <1>2, PopToKeepsBalance DEF Pop
<1> HIDE DEF b
<1>4. callee \in Names /\ Root \in Names
  BY FunctionAtIsName DEF Names
<1>5. CASE b.stack = <<>>
  BY <1>4, <1>5 DEF CountedEdge, b
<1>6. CASE b.stack # <<>>
  <2>1. Last(b.stack) \in Frames
    BY <1>3, <1>6 DEF Books, Last
  <2>2. Last(b.stack).fn \in Names
    BY <2>1 DEF Frames
  <2> QED BY <1>4, <1>6, <2>2 DEF CountedEdge, b
<1> QED BY <1>5, <1>6

(* Type correctness, one lemma for each call of the machine.                  *)
LEMMA InstrRangeTypes ==
  ASSUME TypeOK, NEW r \in Ranges, InstrRange(r)
  PROVE  TypeOK'
<1> DEFINE n == Len(ctx)
           b == AfterRange(r)
           w == [start |-> r.start, end |-> r.end]
           c == [track |-> Innermost.track, stack |-> b.stack,
                 pending |-> Innermost.pending, last |-> w]
<1>1. ~finished /\ ContextsOK(ctx)
  BY DEF InstrRange, TypeOK, ContextsOK
<1>2. /\ n \in Nat \ {0} /\ Innermost \in Contexts /\ CurLane \in Lanes
      /\ Len(Innermost.stack) \in Nat
  BY <1>1, BookType DEF Stacks
<1>3. b \in Books /\ b.stack # <<>>
  BY <1>1, AfterRangeSound DEF Leaves, Separate!Rewrites
<1>4. w \in Windows
  BY RangesAssumption DEF Windows
<1>5. c \in Contexts
  BY <1>2, <1>3, <1>4 DEF Contexts, Books, Stacks
<1>6. ctx' = [ctx EXCEPT ![n] = c]
  BY DEF InstrRange
<1>7. ContextsOK(ctx') /\ Len(ctx') = n
  <2>1. n \in 1 .. Len(ctx) /\ c.track = ctx[n].track
    BY <1>2 DEF Innermost
  <2> HIDE DEF c, n
  <2> QED BY <1>1, <1>5, <1>6, <2>1, ContextRewritten DEF n
<1>8. open' \in [Lanes -> Int]
  <2>1. open \in [Lanes -> Int] /\ b.open \in Int
    BY <1>1, <1>3 DEF TypeOK, Books
  <2>2. open' = [open EXCEPT ![CurLane] = b.open]
    BY DEF InstrRange
  <2> QED BY <1>2, <2>1, <2>2
<1>9. unbegun' \subseteq Lanes
  BY <1>2 DEF InstrRange, TypeOK
<1>10. pending' \in Calls /\ reexec' \in Windows
  BY <1>2 DEF InstrRange, TypeOK, Calls, Windows
<1>11. edge' \in (Names \X Names) \cup {NoEdge}
  BY <1>1, CountedEdgeType DEF InstrRange
<1>12. noted' \subseteq {"dropped", "recovered", "mismatched"}
  BY DEF InstrRange, Diagnostics
<1>13. /\ curThread' = curThread /\ parked' = parked /\ gaps' = gaps
       /\ afterBlind' = FALSE /\ finished' = finished
  BY DEF InstrRange
<1>14. DOMAIN open' = Lanes
  BY <1>8
<1> QED BY <1>1, <1>7, <1>8, <1>9, <1>10, <1>11, <1>12, <1>13, <1>14
           DEF TypeOK, ContextsOK

\* A context whose announced call is parked or taken back.
LEMMA PendingRewritten ==
  ASSUME NEW c \in Contexts, NEW v \in Calls
  PROVE  [c EXCEPT !.pending = v] \in Contexts /\ [c EXCEPT !.pending = v].track = c.track
  BY DEF Contexts

LEMMA ExceptionTypes ==
  ASSUME TypeOK, NEW e \in Exceptions, Exception(e)
  PROVE  TypeOK'
<1> DEFINE n == Len(ctx)
           c == [ctx[n] EXCEPT !.pending = pending]
           d == [ctx EXCEPT ![n] = c]
           x == [track |-> e, stack |-> << [fn |-> e, gap |-> 0] >>,
                 pending |-> NoCall, last |-> NoRange]
<1>1. ~finished /\ ContextsOK(ctx) /\ n \in 1 .. n /\ ctx[n] \in Contexts
  <2>1. ~finished /\ ContextsOK(ctx)
    BY DEF Exception, TypeOK, ContextsOK
  <2>2. n \in Nat \ {0} /\ ctx \in Seq(Contexts)
    BY <2>1 DEF ContextsOK
  <2> QED BY <2>1, <2>2
<1>2. c \in Contexts /\ c.track = ctx[n].track
  BY <1>1 DEF TypeOK, Contexts
<1>3. ContextsOK(d) /\ Len(d) = n
  <2> HIDE DEF c
  <2> QED BY <1>1, <1>2, ContextRewritten
<1>4. x \in Contexts
  <2>1. [fn |-> e, gap |-> 0] \in Frames
    BY DEF Frames, Names
  <2>2. x.stack \in Stacks
    BY <2>1 DEF Stacks
  <2> QED BY <2>2 DEF Contexts, Calls, Windows
<1>5. ctx' = Append(d, x)
  BY DEF Exception
<1>6. ContextsOK(ctx')
  <2>1. x.track # MainTrack
    BY LanesAssumption DEF MainTrack
  <2> HIDE DEF d, x
  <2>2. d \in Seq(Contexts) /\ Append(d, x) \in Seq(Contexts) /\ Len(Append(d, x)) = Len(d) + 1
    BY <1>3, <1>4 DEF ContextsOK
  <2>3. \A i \in 1 .. Len(d) : Append(d, x)[i] = d[i]
    BY <2>2
  <2>4. Append(d, x)[Len(d) + 1] = x /\ Append(d, x) # <<>> /\ Len(d) \in Nat \ {0}
    BY <2>2, <1>1, <1>3
  <2>5. \A i \in 1 .. Len(d) + 1 : Append(d, x)[i].track = MainTrack <=> i = 1
    BY <1>3, <2>1, <2>3, <2>4 DEF ContextsOK
  <2> QED BY <1>5, <2>2, <2>4, <2>5 DEF ContextsOK
<1>7. open' \in [Lanes -> Int]
  <2>1. open \in [Lanes -> Int] /\ e \in Lanes
    BY <1>1 DEF TypeOK, Lanes
  <2>2. open' = [open EXCEPT ![e] = open[e] + 1]
    BY DEF Exception
  <2> QED BY <2>1, <2>2
<1>8. DOMAIN open' = Lanes
  BY <1>7
<1>9. /\ pending' = NoCall /\ edge' = NoEdge /\ noted' = {}
      /\ UNCHANGED <<curThread, parked, gaps, afterBlind, reexec, unbegun, finished>>
  BY DEF Exception
<1> QED BY <1>6, <1>7, <1>8, <1>9 DEF TypeOK, ContextsOK, Calls

LEMMA ExceptionRetTypes ==
  ASSUME TypeOK, ExceptionRet
  PROVE  TypeOK'
<1>1. CASE LeaveContext
  <2> DEFINE n == Len(ctx)
             d == Front(ctx)
             c == [ctx[n - 1] EXCEPT !.pending = NoCall]
             e == [d EXCEPT ![n - 1] = c]
  <2>1. /\ ~finished /\ ContextsOK(ctx) /\ n \in Nat /\ n > 1 /\ ctx \in Seq(Contexts)
        /\ ctx[n - 1] \in Contexts
    <3>1. ~finished /\ ContextsOK(ctx)
      BY <1>1 DEF LeaveContext, TypeOK, ContextsOK
    <3>2. n \in Nat /\ n > 1 /\ ctx \in Seq(Contexts)
      BY <1>1, <3>1 DEF LeaveContext, ContextsOK
    <3>3. n - 1 \in 1 .. Len(ctx)
      BY <3>2
    <3>4. ctx[n - 1] \in Contexts
      BY <3>2, <3>3
    <3> QED BY <3>1, <3>2, <3>3, <3>4
  <2>2. /\ d \in Seq(Contexts) /\ Len(d) = n - 1
        /\ \A i \in 1 .. n - 1 : d[i] = ctx[i]
    <3>1. d = SubSeq(ctx, 1, n - 1)
      BY DEF Front
    <3>2. n - 1 \in 0 .. Len(ctx)
      BY <2>1
    <3> DEFINE m == n - 1
    <3> HIDE DEF d, m
    <3>3. SubSeq(ctx, 1, m) \in Seq(Contexts) /\ Len(SubSeq(ctx, 1, m)) = m
      BY <2>1, <3>2 DEF m
    <3>4. \A i \in 1 .. m : SubSeq(ctx, 1, m)[i] = ctx[i]
      BY <2>1, <3>2 DEF m
    <3> QED BY <3>1, <3>3, <3>4 DEF m
  <2>3. c \in Contexts /\ c.track = ctx[n - 1].track
    <3>1. NoCall \in Calls
      BY DEF Calls
    <3> QED BY <2>1, <3>1, PendingRewritten
  <2>4. ctx' = e
    <3>1. d[n - 1] = ctx[n - 1]
      BY <2>1, <2>2
    <3>2. ctx' = [d EXCEPT ![n - 1] = [d[n - 1] EXCEPT !.pending = NoCall]]
      BY <1>1 DEF LeaveContext
    <3> QED BY <3>1, <3>2
  <2>5. ContextsOK(ctx')
    <3> HIDE DEF c, d
    <3>1. e \in Seq(Contexts) /\ Len(e) = n - 1 /\ e # <<>>
      BY <2>1, <2>2, <2>3
    <3>2. \A i \in 1 .. n - 1 : e[i].track = ctx[i].track
      BY <2>1, <2>2, <2>3
    <3>3. \A i \in 1 .. n - 1 : ctx[i].track = MainTrack <=> i = 1
      BY <2>1 DEF ContextsOK
    <3> HIDE DEF e
    <3> QED BY <2>4, <3>1, <3>2, <3>3 DEF ContextsOK
  <2>6. pending' \in Calls /\ reexec' \in Windows
    BY <1>1, <2>1 DEF LeaveContext, Contexts
  <2>7. CurLane \in Lanes /\ Len(Innermost.stack) \in Int
    BY <2>1, BookType DEF Stacks
  <2>8. open' \in [Lanes -> Int]
    <3>1. open \in [Lanes -> Int]
      BY <2>1 DEF TypeOK
    <3>2. open' = [open EXCEPT ![CurLane] = open[CurLane] - Len(Innermost.stack)]
      BY <1>1 DEF LeaveContext
    <3> QED BY <2>7, <3>1, <3>2
  <2>9. unbegun' \subseteq Lanes
    BY <1>1, <2>7 DEF LeaveContext, TypeOK
  <2>10. DOMAIN open' = Lanes
    BY <2>8
  <2>11. /\ edge' = NoEdge /\ noted' = {} /\ afterBlind' \in BOOLEAN
         /\ UNCHANGED <<curThread, parked, gaps, finished>>
    BY <1>1 DEF LeaveContext
  <2> QED BY <2>5, <2>6, <2>8, <2>9, <2>10, <2>11 DEF TypeOK, ContextsOK
<1>2. CASE UnmatchedExceptionRet
  BY <1>2 DEF UnmatchedExceptionRet, TypeOK, Calls, slices
<1> QED BY <1>1, <1>2 DEF ExceptionRet

LEMMA DiscontinuityTypes ==
  ASSUME TypeOK, Discontinuity
  PROVE  TypeOK'
<1>1. /\ gaps' \in Nat /\ pending' = NoCall /\ reexec' = NoRange /\ afterBlind' = TRUE
      /\ edge' = NoEdge /\ noted' \subseteq {"dropped", "recovered", "mismatched"}
      /\ UNCHANGED <<ctx, curThread, parked, open, unbegun, finished>>
  BY DEF Discontinuity, TypeOK, slices
<1> QED BY <1>1 DEF TypeOK, Calls, Windows

LEMMA StackOfType ==
  ASSUME TypeOK, NEW t \in Threads \cup {Boot}
  PROVE  StackOf(t) \in Stacks
<1>1. ctx[1] \in Contexts
  <2>1. ctx \in Seq(Contexts) /\ ctx # <<>>
    BY DEF TypeOK
  <2> QED BY <2>1
<1>2. CASE t = curThread
  BY <1>1, <1>2 DEF StackOf, Contexts
<1>3. CASE t # curThread /\ t \in DOMAIN parked
  BY <1>3 DEF StackOf, TypeOK
<1>4. CASE t # curThread /\ t \notin DOMAIN parked
  <2>1. [fn |-> Root, gap |-> 0] \in Frames
    BY DEF Frames, Names
  <2>2. FreshStack \in Stacks
    BY <2>1 DEF FreshStack, Stacks
  <2> QED BY <1>4, <2>2 DEF StackOf
<1> QED BY <1>2, <1>3, <1>4

LEMMA SwitchThreadTypes ==
  ASSUME TypeOK, NEW t \in Threads, SwitchThread(t)
  PROVE  TypeOK'
<1> DEFINE s == StackOf(t)
           c == [ctx[1] EXCEPT !.stack = s]
           d == [ctx EXCEPT ![1] = c]
<1>1. ~finished /\ ContextsOK(ctx) /\ 1 \in 1 .. Len(ctx) /\ ctx[1] \in Contexts
  <2>1. ~finished /\ ContextsOK(ctx)
    BY DEF SwitchThread, TypeOK, ContextsOK
  <2>2. ctx \in Seq(Contexts) /\ ctx # <<>>
    BY <2>1 DEF ContextsOK
  <2> QED BY <2>1, <2>2
<1>2. s \in Stacks /\ ctx[1].stack \in Stacks
  BY <1>1, StackOfType DEF Contexts
<1>3. c \in Contexts /\ c.track = ctx[1].track
  BY <1>1, <1>2 DEF Contexts
<1>4. ctx' = d
  BY DEF SwitchThread, TakeUp
<1>5. ContextsOK(ctx')
  <2> HIDE DEF c, s
  <2> QED BY <1>1, <1>3, <1>4, ContextRewritten
<1>6. /\ DOMAIN parked' \subseteq Threads \ {t}
      /\ parked' \in [DOMAIN parked' -> Stacks]
  <2> DEFINE p == ParkedAfterLeaving
  <2>1. DOMAIN p \subseteq Threads /\ p \in [DOMAIN p -> Stacks]
    <3>1. CASE curThread = Boot
      BY <3>1 DEF ParkedAfterLeaving, TypeOK
    <3>2. CASE curThread # Boot
      <4>1. DOMAIN parked \cup {curThread} \subseteq Threads
        BY <3>2 DEF TypeOK
      <4>2. p = [y \in DOMAIN parked \cup {curThread} |->
                   IF y = curThread THEN ctx[1].stack ELSE parked[y]]
        BY <3>2 DEF ParkedAfterLeaving, With
      <4>3. \A y \in DOMAIN parked : parked[y] \in Stacks
        BY DEF TypeOK
      <4> QED BY <1>2, <4>1, <4>2, <4>3
    <3> QED BY <3>1, <3>2
  <2> HIDE DEF p
  <2>2. parked' = [y \in DOMAIN p \ {t} |-> p[y]]
    BY DEF SwitchThread, TakeUp, Without, Restrict, p
  <2> QED BY <2>1, <2>2
<1>7. open' \in [Lanes -> Int]
  <2>1. open \in [Lanes -> Int] /\ Boot \in Lanes /\ Len(ctx[1].stack) - 1 \in Int
    BY <1>1, <1>2 DEF TypeOK, Lanes, Stacks
  <2>2. CASE curThread = Boot
    <3>1. open' = [open EXCEPT ![Boot] = open[Boot] - (Len(ctx[1].stack) - 1)]
      BY <2>2 DEF SwitchThread, EndBoot
    <3> QED BY <2>1, <3>1
  <2>3. CASE curThread # Boot
    BY <2>1, <2>3 DEF SwitchThread, EndBoot, slices
  <2> QED BY <2>2, <2>3
<1>8. DOMAIN open' = Lanes
  BY <1>7
<1>9. unbegun' \subseteq Lanes
  BY DEF SwitchThread, EndBoot, TypeOK, Lanes, slices
<1>10. /\ curThread' = t /\ pending' = NoCall /\ edge' = NoEdge /\ noted' = {}
       /\ UNCHANGED <<gaps, afterBlind, reexec, finished>>
  BY DEF SwitchThread
<1> QED BY <1>5, <1>6, <1>7, <1>8, <1>9, <1>10 DEF TypeOK, ContextsOK, Calls

LEMMA FinishTypes ==
  ASSUME TypeOK, Finish
  PROVE  TypeOK'
<1> DEFINE s == SubSeq(ctx[1].stack, 1, 1)
           c == [ctx[1] EXCEPT !.stack = s]
<1>1. ctx[1] \in Contexts /\ ctx[1].track = MainTrack
  <2>1. ctx \in Seq(Contexts) /\ ctx # <<>>
    BY DEF TypeOK
  <2>2. 1 \in 1 .. Len(ctx)
    BY <2>1
  <2> QED BY <2>1, <2>2 DEF TypeOK
<1>2. s \in Stacks
  <2>1. ctx[1].stack \in Stacks
    BY <1>1 DEF Contexts
  <2>2. ctx[1].stack \in Seq(Frames) /\ 1 \in 0 .. Len(ctx[1].stack)
    BY <2>1 DEF Stacks
  <2> DEFINE q == ctx[1].stack
  <2> HIDE DEF q
  <2>3. SubSeq(q, 1, 1) \in Seq(Frames) /\ Len(SubSeq(q, 1, 1)) = 1
    BY <2>2 DEF q
  <2> DEFINE z == SubSeq(q, 1, 1)
  <2> HIDE DEF z
  <2>4. z \in Seq(Frames) /\ Len(z) = 1
    BY <2>3 DEF z
  <2>5. z \in Stacks
    BY <2>4 DEF Stacks
  <2> QED BY <2>5 DEF q, z
<1>3. c \in Contexts /\ c.track = MainTrack
  BY <1>1, <1>2 DEF Contexts
<1>4. ctx' = <<c>>
  BY DEF Finish
<1>5. ContextsOK(ctx')
  <2> HIDE DEF c
  <2>1. <<c>> \in Seq(Contexts) /\ Len(<<c>>) = 1 /\ <<c>>[1] = c
    BY <1>3
  <2> QED BY <1>3, <1>4, <2>1 DEF ContextsOK
<1>6. /\ DOMAIN parked' \subseteq Threads \ {curThread}
      /\ parked' \in [DOMAIN parked' -> Stacks]
  BY DEF Finish
<1>7. DOMAIN open' = Lanes /\ unbegun' \subseteq Lanes
  BY DEF Finish, TypeOK
<1>8. /\ finished' = TRUE /\ edge' = NoEdge /\ noted' = {}
      /\ UNCHANGED <<curThread, gaps, pending, afterBlind, reexec>>
  BY DEF Finish
<1> QED BY <1>5, <1>6, <1>7, <1>8 DEF TypeOK, ContextsOK

\* The types hold in the beginning.
LEMMA InitTypes == Init => TypeOK
<1> SUFFICES ASSUME Init PROVE TypeOK
  OBVIOUS
<1> DEFINE c == [track |-> MainTrack, stack |-> FreshStack,
                 pending |-> NoCall, last |-> NoRange]
<1>1. [fn |-> Root, gap |-> 0] \in Frames
  BY DEF Frames, Names
<1>2. FreshStack \in Stacks
  BY <1>1 DEF FreshStack, Stacks
<1>3. c \in Contexts /\ c.track = MainTrack
  BY <1>2 DEF Contexts, Calls, Windows
<1>4. ctx = <<c>>
  BY DEF Init
<1>5. ContextsOK(ctx)
  <2> HIDE DEF c
  <2>1. <<c>> \in Seq(Contexts) /\ Len(<<c>>) = 1 /\ <<c>>[1] = c
    BY <1>3
  <2> QED BY <1>3, <1>4, <2>1 DEF ContextsOK
<1>6. open \in [Lanes -> Int] /\ DOMAIN open = Lanes
  BY DEF Init
<1>7. parked \in [DOMAIN parked -> Stacks] /\ DOMAIN parked = {}
  BY DEF Init
<1> QED BY <1>5, <1>6, <1>7 DEF Init, TypeOK, ContextsOK, Calls, Windows

(* The types hold in every state of every trace, whatever the bounds.         *)
THEOREM TypeCorrect == Spec => []TypeOK
<1>1. Init => TypeOK
  BY InitTypes
<1>2. TypeOK /\ [Next]_vars => TypeOK'
  <2> SUFFICES ASSUME TypeOK, [Next]_vars PROVE TypeOK'
    OBVIOUS
  <2>1. ASSUME NEW r \in Ranges, InstrRange(r) PROVE TypeOK'
    BY <2>1, InstrRangeTypes
  <2>2. ASSUME NEW e \in Exceptions, Exception(e) PROVE TypeOK'
    BY <2>2, ExceptionTypes
  <2>3. CASE ExceptionRet
    BY <2>3, ExceptionRetTypes
  <2>4. CASE Discontinuity
    BY <2>4, DiscontinuityTypes
  <2>5. ASSUME NEW t \in Threads, SwitchThread(t) PROVE TypeOK'
    BY <2>5, SwitchThreadTypes
  <2>6. CASE Finish
    BY <2>6, FinishTypes
  <2>7. CASE UNCHANGED vars
    BY <2>7 DEF TypeOK, vars, core, slices
  <2> QED BY <2>1, <2>2, <2>3, <2>4, <2>5, <2>6, <2>7 DEF Next
<1> QED BY <1>1, <1>2, PTL DEF Spec

(* No call crosses a blind spot: see BlindSpotForgetsCall.                    *)
THEOREM NoCallAcrossBlindSpots == Spec => []BlindSpotForgetsCall
<1>1. Init => BlindSpotForgetsCall
  BY DEF Init, BlindSpotForgetsCall
<1>2. BlindSpotForgetsCall /\ [Next]_vars => BlindSpotForgetsCall'
  <2> SUFFICES ASSUME BlindSpotForgetsCall, [Next]_vars PROVE BlindSpotForgetsCall'
    OBVIOUS
  <2>1. ASSUME NEW r \in Ranges, InstrRange(r) PROVE BlindSpotForgetsCall'
    BY <2>1 DEF InstrRange, BlindSpotForgetsCall
  <2>2. ASSUME NEW e \in Exceptions, Exception(e) PROVE BlindSpotForgetsCall'
    BY <2>2 DEF Exception, BlindSpotForgetsCall
  <2>3. CASE ExceptionRet
    BY <2>3 DEF ExceptionRet, LeaveContext, UnmatchedExceptionRet, BlindSpotForgetsCall
  <2>4. CASE Discontinuity
    BY <2>4 DEF Discontinuity, BlindSpotForgetsCall
  <2>5. ASSUME NEW t \in Threads, SwitchThread(t) PROVE BlindSpotForgetsCall'
    BY <2>5 DEF SwitchThread, BlindSpotForgetsCall
  <2>6. CASE Finish
    BY <2>6 DEF Finish, BlindSpotForgetsCall
  <2>7. CASE UNCHANGED vars
    BY <2>7 DEF BlindSpotForgetsCall, vars, core
  <2> QED BY <2>1, <2>2, <2>3, <2>4, <2>5, <2>6, <2>7 DEF Next
<1> QED BY <1>1, <1>2, PTL DEF Spec

------------------------------------------------------------------------------
(* What each call does to the threads' stacks.                                *)
LEMMA StacksKept ==
  ASSUME ctx'[1].stack = ctx[1].stack, UNCHANGED <<curThread, parked>>
  PROVE  \A t : StackOf(t)' = StackOf(t)
BY DEF StackOf

LEMMA InstrRangeStacks ==
  ASSUME TypeOK, NEW r \in Ranges, InstrRange(r)
  PROVE  /\ Len(ctx) \in Nat /\ Len(ctx) >= 1 /\ Len(ctx') = Len(ctx)
         /\ \A i \in 1 .. Len(ctx) - 1 : ctx'[i] = ctx[i]
         /\ ctx'[Len(ctx)].stack = AfterRange(r).stack
         /\ \A t \in Threads \cup {Boot} :
              StackOf(t)' = IF Len(ctx) = 1 /\ t = curThread THEN AfterRange(r).stack
                            ELSE StackOf(t)
<1> DEFINE n == Len(ctx)
           c == [track |-> Innermost.track, stack |-> AfterRange(r).stack,
                 pending |-> Innermost.pending,
                 last |-> [start |-> r.start, end |-> r.end]]
<1>1. n \in Nat /\ n >= 1 /\ ctx \in Seq(Contexts)
  BY DEF TypeOK
<1>2. ctx' = [ctx EXCEPT ![n] = c]
  BY DEF InstrRange
<1>3. c.stack = AfterRange(r).stack
  OBVIOUS
<1> HIDE DEF c
<1>4. /\ Len(ctx') = n /\ ctx'[n] = c
      /\ \A i \in 1 .. n - 1 : ctx'[i] = ctx[i]
  BY <1>1, <1>2
<1>5. UNCHANGED <<curThread, parked>>
  BY DEF InstrRange
<1> HIDE DEF n
<1>6. \A t : StackOf(t)' = IF n = 1 /\ t = curThread THEN c.stack ELSE StackOf(t)
  <2>1. CASE n = 1
    BY <1>4, <1>5, <2>1 DEF StackOf
  <2>2. CASE n > 1
    <3>1. 1 \in 1 .. n - 1
      BY <1>1, <2>2
    <3>2. \A t : StackOf(t)' = StackOf(t)
      BY <1>4, <1>5, <3>1, StacksKept
    <3> QED BY <1>1, <2>2, <3>2
  <2> QED BY <1>1, <2>1, <2>2
<1> QED BY <1>1, <1>3, <1>4, <1>6 DEF n

LEMMA ExceptionStacks ==
  ASSUME TypeOK, NEW e \in Exceptions, Exception(e)
  PROVE  /\ Len(ctx) \in Nat /\ Len(ctx) >= 1 /\ Len(ctx') = Len(ctx) + 1
         /\ \A i \in 1 .. Len(ctx) : ctx'[i].stack = ctx[i].stack
         /\ Len(ctx'[Len(ctx) + 1].stack) = 1
         /\ \A t : StackOf(t)' = StackOf(t)
<1> DEFINE n == Len(ctx)
           d == [ctx EXCEPT ![n].pending = pending]
           x == [track |-> e, stack |-> << [fn |-> e, gap |-> 0] >>,
                 pending |-> NoCall, last |-> NoRange]
<1>1. n \in Nat /\ n >= 1 /\ ctx \in Seq(Contexts)
  BY DEF TypeOK
<1>2. ctx' = Append(d, x) /\ Len(x.stack) = 1
  BY DEF Exception
<1>3. Len(d) = n /\ \A i \in 1 .. n : d[i].stack = ctx[i].stack
  BY <1>1
<1>4. d \in Seq(Contexts) /\ x \in Contexts
  <2>1. [ctx[n] EXCEPT !.pending = pending] \in Contexts
    <3>1. ctx[n] \in Contexts
      BY <1>1
    <3> QED BY <3>1, PendingRewritten DEF TypeOK
  <2>2. d = [ctx EXCEPT ![n] = [ctx[n] EXCEPT !.pending = pending]]
    OBVIOUS
  <2>3. x \in Contexts
    <3>1. [fn |-> e, gap |-> 0] \in Frames
      BY DEF Frames, Names
    <3>2. x.stack \in Stacks
      BY <3>1 DEF Stacks
    <3> QED BY <3>2 DEF Contexts, Calls, Windows
  <2> HIDE DEF d, x
  <2>4. d \in Seq(Contexts)
    BY <1>1, <2>1, <2>2
  <2> QED BY <2>3, <2>4
<1> HIDE DEF d, x
<1>5. /\ Len(ctx') = n + 1
      /\ \A i \in 1 .. n : ctx'[i] = d[i]
      /\ ctx'[n + 1] = x
  BY <1>1, <1>2, <1>3, <1>4
<1>6. \A i \in 1 .. n : ctx'[i].stack = ctx[i].stack
  BY <1>3, <1>5
<1>7. ctx'[1].stack = ctx[1].stack /\ UNCHANGED <<curThread, parked>>
  BY <1>1, <1>6 DEF Exception
<1> QED BY <1>1, <1>2, <1>5, <1>6, <1>7, StacksKept


LEMMA LeaveContextStacks ==
  ASSUME TypeOK, LeaveContext
  PROVE  /\ Len(ctx) \in Nat /\ Len(ctx) > 1 /\ Len(ctx') = Len(ctx) - 1
         /\ \A i \in 1 .. Len(ctx) - 1 : ctx'[i].stack = ctx[i].stack
         /\ \A t : StackOf(t)' = StackOf(t)
<1> DEFINE n == Len(ctx)
           m == n - 1
           d == Front(ctx)
<1>1. ctx \in Seq(Contexts) /\ n \in Nat /\ n > 1
  <2>1. ctx \in Seq(Contexts) /\ n \in Nat
    BY DEF TypeOK
  <2> QED BY <2>1 DEF LeaveContext
<1>2. d = SubSeq(ctx, 1, m) /\ ctx' = [d EXCEPT ![m].pending = NoCall]
  BY DEF LeaveContext, Front
<1>3. UNCHANGED <<curThread, parked>>
  BY DEF LeaveContext
<1>4. m \in 0 .. Len(ctx) /\ 1 \in 1 .. m
  <2> HIDE DEF n
  <2>1. n - 1 \in 0 .. n /\ 1 \in 1 .. n - 1
    BY <1>1
  <2> QED BY <2>1 DEF n
<1> HIDE DEF d, m
<1>5. /\ d \in Seq(Contexts) /\ Len(d) = m
      /\ \A i \in 1 .. m : d[i] = ctx[i]
  BY <1>1, <1>2, <1>4
<1>6. Len(ctx') = m /\ \A i \in 1 .. m : ctx'[i].stack = ctx[i].stack
  <2>1. Len([d EXCEPT ![m].pending = NoCall]) = Len(d) /\ DOMAIN d = 1 .. m /\ m \in 1 .. m
    BY <1>4, <1>5
  <2>2. \A i \in 1 .. m : d[i] \in Contexts
    BY <1>5
  <2>3. \A i \in 1 .. m : [d EXCEPT ![m].pending = NoCall][i].stack = d[i].stack
    BY <2>1, <2>2 DEF Contexts
  <2> QED BY <1>2, <1>5, <2>1, <2>3
<1>7. \A t : StackOf(t)' = StackOf(t)
  BY <1>3, <1>4, <1>6, StacksKept
<1> QED BY <1>1, <1>6, <1>7 DEF m

\* A switch ends the boot context's frames; no other frame moves.
LEMMA SwitchThreadStacks ==
  ASSUME TypeOK, NEW t \in Threads, SwitchThread(t)
  PROVE  /\ Len(ctx') = Len(ctx) /\ Len(ctx) \in Nat /\ Len(ctx) >= 1
         /\ \A i \in 2 .. Len(ctx) : ctx'[i] = ctx[i]
         /\ \A u \in Threads \cup {Boot} :
              StackOf(u)' = IF u = Boot THEN FreshStack ELSE StackOf(u)
<1> DEFINE n == Len(ctx)
           s == StackOf(t)
<1>1. ctx \in Seq(Contexts) /\ n \in Nat /\ n >= 1
  BY DEF TypeOK
<1>2. ctx' = [ctx EXCEPT ![1].stack = s]
  BY DEF SwitchThread, TakeUp
<1> HIDE DEF n, s
<1>3. 1 \in 1 .. Len(ctx) /\ Len(ctx) = n
  BY <1>1 DEF n
<1>4. /\ Len(ctx') = n
      /\ ctx'[1].stack = s
      /\ \A i \in 2 .. n : ctx'[i] = ctx[i]
  <2>1. DOMAIN ctx = 1 .. n
    BY <1>1, <1>3
  <2>2. ctx'[1] = [ctx[1] EXCEPT !.stack = s] /\ ctx[1] \in Contexts
    BY <1>1, <1>2, <1>3
  <2>3. [ctx[1] EXCEPT !.stack = s].stack = s
    BY <2>2 DEF Contexts
  <2> QED BY <1>1, <1>2, <1>3, <2>1, <2>2, <2>3
<1>5. /\ curThread' = t /\ t # curThread /\ t # Boot
      /\ curThread \in Threads \cup {Boot}
      /\ Boot \notin Threads
      /\ DOMAIN parked \subseteq Threads \ {curThread}
  BY LanesAssumption DEF SwitchThread, TypeOK
<1>6. parked' = [y \in DOMAIN ParkedAfterLeaving \ {t} |-> ParkedAfterLeaving[y]]
  BY DEF SwitchThread, TakeUp, Without, Restrict
<1>7. /\ DOMAIN ParkedAfterLeaving = IF curThread = Boot THEN DOMAIN parked
                                     ELSE DOMAIN parked \cup {curThread}
      /\ \A y \in DOMAIN ParkedAfterLeaving :
           ParkedAfterLeaving[y] = IF y = curThread THEN ctx[1].stack ELSE parked[y]
  BY <1>5 DEF ParkedAfterLeaving, With
<1>8. ASSUME NEW u \in Threads \cup {Boot}
      PROVE  StackOf(u)' = IF u = Boot THEN FreshStack ELSE StackOf(u)
  <2>1. CASE u = t
    BY <1>4, <1>5, <2>1 DEF StackOf, s
  <2>2. CASE u = Boot
    <3>1. u # curThread' /\ u \notin DOMAIN parked'
      BY <1>5, <1>6, <1>7, <2>2
    <3> QED BY <2>2, <3>1 DEF StackOf
  <2>3. CASE u # t /\ u # Boot /\ u = curThread
    <3>1. u # curThread' /\ u \in DOMAIN parked' /\ parked'[u] = ctx[1].stack
      BY <1>5, <1>6, <1>7, <2>3
    <3> QED BY <2>3, <3>1 DEF StackOf
  <2>4. CASE u # t /\ u # Boot /\ u # curThread
    <3>1. u # curThread' /\ (u \in DOMAIN parked' <=> u \in DOMAIN parked)
      BY <1>5, <1>6, <1>7, <2>4
    <3>2. u \in DOMAIN parked => parked'[u] = parked[u]
      BY <1>5, <1>6, <1>7, <2>4
    <3> QED BY <2>4, <3>1, <3>2 DEF StackOf
  <2> QED BY <2>1, <2>2, <2>3, <2>4
<1> QED BY <1>1, <1>4, <1>8 DEF n

\* finish() leaves every thread with its root.
LEMMA FinishStacks ==
  ASSUME TypeOK, Finish
  PROVE  /\ Len(ctx') = 1
         /\ \A t \in Threads \cup {Boot} : Len(StackOf(t)') = 1
<1> DEFINE q == ctx[1].stack
           z == SubSeq(q, 1, 1)
           c == [ctx[1] EXCEPT !.stack = z]
<1>1. ctx[1] \in Contexts
  <2>1. ctx \in Seq(Contexts) /\ ctx # <<>>
    BY DEF TypeOK
  <2> QED BY <2>1
<1>2. ctx' = <<c>> /\ DOMAIN parked' = {} /\ curThread' = curThread
  BY DEF Finish
<1>3. c.stack = z /\ q \in Stacks
  BY <1>1 DEF Contexts
<1> HIDE DEF c, q
<1>4. Len(z) = 1
  <2>1. q \in Seq(Frames) /\ 1 \in 0 .. Len(q)
    BY <1>3 DEF Stacks
  <2> QED BY <2>1
<1> HIDE DEF z
<1>5. Len(ctx') = 1 /\ ctx'[1].stack = z
  BY <1>2, <1>3
<1>6. ASSUME NEW t \in Threads \cup {Boot}
      PROVE  StackOf(t)' = IF t = curThread THEN z ELSE FreshStack
  BY <1>2, <1>5 DEF StackOf
<1>7. Len(FreshStack) = 1
  BY DEF FreshStack
<1> QED BY <1>4, <1>5, <1>6, <1>7


(* Every thread's lane accounts for its stack wherever that stack is: see     *)
(* ThreadLaneAccounts. The inductive invariant is this and the types.         *)
LEMMA InstrRangeAccounts ==
  ASSUME TypeOK, ThreadLaneAccounts, NEW r \in Ranges, InstrRange(r)
  PROVE  ThreadLaneAccounts'
<1> DEFINE T == Threads \cup {Boot}
           b == AfterRange(r)
<1>1. /\ ~finished /\ open \in [Lanes -> Int] /\ CurLane \in Lanes
      /\ b \in Books /\ SameBalance(Book, b)
  <2>1. ~finished
    BY DEF InstrRange
  <2> QED BY <2>1, BookType, AfterRangeSound DEF TypeOK
<1>2. open' = [open EXCEPT ![CurLane] = b.open]
  BY DEF InstrRange
<1>3. \A t \in T : StackOf(t)' = IF Len(ctx) = 1 /\ t = curThread THEN b.stack
                                 ELSE StackOf(t)
  BY InstrRangeStacks
<1>4. CASE Len(ctx) = 1
  <2>1. CurLane = curThread /\ Innermost.stack = StackOf(curThread) /\ curThread \in T
    BY <1>4 DEF CurLane, Innermost, StackOf, TypeOK
  <2>2. Book.open = open[curThread] /\ Book.stack = StackOf(curThread)
    BY <2>1 DEF Book
  <2>3. b.open = Len(b.stack) - 1
    <3>1. Book.open = Len(Book.stack) - 1
      BY <2>1, <2>2 DEF ThreadLaneAccounts
    <3>2. /\ b.open \in Int /\ Book.open \in Int
          /\ Len(b.stack) \in Int /\ Len(Book.stack) \in Int
      <4>1. Book \in Books
        BY <1>1, BookType
      <4> QED BY <1>1, <4>1 DEF Books
    <3> QED BY <1>1, <3>1, <3>2 DEF SameBalance
  <2> HIDE DEF b
  <2>4. ASSUME NEW t \in T PROVE (open[t] = Len(StackOf(t)) - 1)'
    <3>1. CASE t = curThread
      <4>1. StackOf(t)' = b.stack
        BY <1>3, <1>4, <3>1
      <4>2. open'[t] = b.open
        BY <1>1, <1>2, <2>1, <3>1
      <4> QED BY <2>3, <4>1, <4>2
    <3>2. CASE t # curThread
      <4>1. open[t] = Len(StackOf(t)) - 1
        BY DEF ThreadLaneAccounts
      <4>2. open'[t] = open[t] /\ StackOf(t)' = StackOf(t)
        BY <1>1, <1>2, <1>3, <2>1, <3>2 DEF Lanes
      <4> QED BY <4>1, <4>2
    <3> QED BY <3>1, <3>2
  <2> QED BY <2>4 DEF ThreadLaneAccounts
<1>5. CASE Len(ctx) # 1
  <2>1. CurLane \notin T
    <3>1. CurLane = Innermost.track /\ Innermost \in Contexts
      BY <1>1, <1>5, BookType DEF CurLane
    <3>2. Innermost.track # MainTrack
      <4> DEFINE n == Len(ctx)
      <4>1. n \in Nat /\ n >= 1 /\ \A i \in 1 .. n : ctx[i].track = MainTrack <=> i = 1
        BY DEF TypeOK
      <4> HIDE DEF n
      <4>2. n \in 1 .. n
        BY <4>1
      <4> QED BY <1>5, <4>1, <4>2 DEF Innermost, n
    <3> QED BY <3>1, <3>2, LanesAssumption DEF Contexts
  <2>2. \A t \in T : open'[t] = open[t] /\ StackOf(t)' = StackOf(t)
    BY <1>1, <1>2, <1>3, <1>5, <2>1
  <2> QED BY <2>2 DEF ThreadLaneAccounts
<1> QED BY <1>4, <1>5

LEMMA OtherCallsAccount ==
  ASSUME TypeOK, ThreadLaneAccounts,
         \/ \E e \in Exceptions : Exception(e)
         \/ ExceptionRet
         \/ Discontinuity
  PROVE  ThreadLaneAccounts'
<1>1. ASSUME NEW e \in Exceptions, Exception(e) PROVE ThreadLaneAccounts'
  <2>1. \A t \in Threads \cup {Boot} : open'[t] = open[t]
    <3>1. open' = [open EXCEPT ![e] = open[e] + 1] /\ open \in [Lanes -> Int]
      BY <1>1 DEF Exception, TypeOK
    <3>2. e \notin Threads \cup {Boot}
      BY LanesAssumption
    <3> QED BY <3>1, <3>2 DEF Lanes
  <2>2. \A t : StackOf(t)' = StackOf(t)
    BY <1>1, ExceptionStacks
  <2> QED BY <2>1, <2>2 DEF ThreadLaneAccounts
<1>2. CASE LeaveContext
  <2> DEFINE n == Len(ctx)
  <2>1. CurLane \notin Threads \cup {Boot}
    <3>1. n \in Nat /\ n > 1 /\ ctx \in Seq(Contexts)
          /\ \A i \in 1 .. n : ctx[i].track = MainTrack <=> i = 1
      BY <1>2 DEF TypeOK, LeaveContext
    <3>2. ctx[n] \in Contexts
      BY <3>1
    <3> HIDE DEF n
    <3>3. n \in 1 .. n /\ n # 1
      BY <3>1
    <3>4. CurLane = ctx[n].track
      BY <3>3 DEF CurLane, Innermost, n
    <3> QED BY <3>1, <3>2, <3>3, <3>4, LanesAssumption DEF Contexts
  <2>2. \A t \in Threads \cup {Boot} : open'[t] = open[t]
    <3>1. /\ open' = [open EXCEPT ![CurLane] = open[CurLane] - Len(Innermost.stack)]
          /\ open \in [Lanes -> Int]
      BY <1>2 DEF LeaveContext, TypeOK
    <3> QED BY <2>1, <3>1 DEF Lanes
  <2>3. \A t : StackOf(t)' = StackOf(t)
    BY <1>2, LeaveContextStacks
  <2> QED BY <2>2, <2>3 DEF ThreadLaneAccounts
<1>3. CASE UnmatchedExceptionRet
  BY <1>3 DEF UnmatchedExceptionRet, ThreadLaneAccounts, StackOf, slices
<1>4. CASE Discontinuity
  BY <1>4 DEF Discontinuity, ThreadLaneAccounts, StackOf, slices
<1> QED BY <1>1, <1>2, <1>3, <1>4 DEF ExceptionRet

LEMMA SwitchThreadAccounts ==
  ASSUME TypeOK, ThreadLaneAccounts, NEW t \in Threads, SwitchThread(t)
  PROVE  ThreadLaneAccounts'
<1>1. open \in [Lanes -> Int] /\ Boot \in Lanes /\ Boot \notin Threads
  BY LanesAssumption DEF SwitchThread, TypeOK, Lanes
<1>2. \A u \in Threads \cup {Boot} :
        StackOf(u)' = IF u = Boot THEN FreshStack ELSE StackOf(u)
  BY SwitchThreadStacks
<1>3. open'[Boot] = 0
  <2>1. CASE curThread = Boot
    <3>1. open[Boot] = Len(ctx[1].stack) - 1
      BY <2>1 DEF ThreadLaneAccounts, StackOf
    <3>2. open' = [open EXCEPT ![Boot] = open[Boot] - (Len(ctx[1].stack) - 1)]
      BY <2>1 DEF SwitchThread, EndBoot
    <3> QED BY <1>1, <3>1, <3>2
  <2>2. CASE curThread # Boot
    <3>1. StackOf(Boot) = FreshStack
      BY <1>1, <2>2 DEF StackOf, TypeOK
    <3>2. open' = open
      BY <2>2 DEF SwitchThread, EndBoot, slices
    <3>3. Len(FreshStack) - 1 = 0
      BY DEF FreshStack
    <3>4. open[Boot] = Len(StackOf(Boot)) - 1
      BY DEF ThreadLaneAccounts
    <3> QED BY <3>1, <3>2, <3>3, <3>4
  <2> QED BY <2>1, <2>2
<1>4. \A u \in Threads : open'[u] = open[u]
  BY <1>1 DEF SwitchThread, EndBoot, slices, Lanes
<1>5. Len(FreshStack) - 1 = 0
  BY DEF FreshStack
<1>6. ASSUME NEW u \in Threads \cup {Boot} PROVE (open[u] = Len(StackOf(u)) - 1)'
  <2>1. CASE u = Boot
    BY <1>2, <1>3, <1>5, <2>1
  <2>2. CASE u # Boot
    <3>1. open[u] = Len(StackOf(u)) - 1
      BY DEF ThreadLaneAccounts
    <3> QED BY <1>2, <1>4, <2>2, <3>1
  <2> QED BY <2>1, <2>2
<1> QED BY <1>6 DEF ThreadLaneAccounts

LEMMA FinishAccounts ==
  ASSUME TypeOK, ThreadLaneAccounts, Finish
  PROVE  ThreadLaneAccounts' /\ \A t \in Threads \cup {Boot} : open'[t] = 0
<1>1. ASSUME NEW t \in Threads \cup {Boot} PROVE open'[t] = 0
  <2>1. t \in Lanes /\ t \notin Exceptions
    BY LanesAssumption DEF Lanes
  <2>2. open'[t] = open[t] - (Len(StackOf(t)) - 1)
    BY <2>1 DEF Finish, FramesOn
  <2>3. open[t] = Len(StackOf(t)) - 1 /\ open[t] \in Int
    BY <2>1 DEF ThreadLaneAccounts, TypeOK, Finish
  <2> QED BY <2>2, <2>3
<1>2. ASSUME NEW t \in Threads \cup {Boot} PROVE (open[t] = Len(StackOf(t)) - 1)'
  <2>1. Len(StackOf(t)') = 1
    BY FinishStacks
  <2>2. Len(StackOf(t)') - 1 = 0
    BY <2>1
  <2> QED BY <1>1, <2>2
<1> QED BY <1>1, <1>2 DEF ThreadLaneAccounts

(* What a thread lane has open is what is on its stack, in every state.       *)
THEOREM ThreadLanesAccounted == Spec => []ThreadLaneAccounts
<1>1. Init => ThreadLaneAccounts
  <2> SUFFICES ASSUME Init, NEW t \in Threads \cup {Boot}
               PROVE  open[t] = Len(StackOf(t)) - 1
    BY DEF ThreadLaneAccounts
  <2>1. StackOf(t) = FreshStack
    BY DEF Init, StackOf
  <2>2. open[t] = 0
    BY DEF Init, Lanes
  <2>3. Len(FreshStack) - 1 = 0
    BY DEF FreshStack
  <2> QED BY <2>1, <2>2, <2>3
<1>2. TypeOK /\ ThreadLaneAccounts /\ [Next]_vars => ThreadLaneAccounts'
  <2> SUFFICES ASSUME TypeOK, ThreadLaneAccounts, [Next]_vars PROVE ThreadLaneAccounts'
    OBVIOUS
  <2>1. ASSUME NEW r \in Ranges, InstrRange(r) PROVE ThreadLaneAccounts'
    BY <2>1, InstrRangeAccounts
  <2>2. CASE (\E e \in Exceptions : Exception(e)) \/ ExceptionRet \/ Discontinuity
    BY <2>2, OtherCallsAccount
  <2>3. ASSUME NEW t \in Threads, SwitchThread(t) PROVE ThreadLaneAccounts'
    BY <2>3, SwitchThreadAccounts
  <2>4. CASE Finish
    BY <2>4, FinishAccounts
  <2>5. CASE UNCHANGED vars
    BY <2>5 DEF ThreadLaneAccounts, StackOf, vars, core, slices
  <2> QED BY <2>1, <2>2, <2>3, <2>4, <2>5 DEF Next
<1> QED BY <1>1, <1>2, TypeCorrect, PTL DEF Spec


------------------------------------------------------------------------------
(* The exceptions' lanes. The contexts of an exception are summed up by       *)
(* MapThenSumSet; what a call does to the last of them, or to the first one,  *)
(* does that much to the sum.                                                 *)
OnTrack(c, e) == {i \in 2 .. Len(c) : c[i].track = e}
FramesIn(c, e) == MapThenSumSet(LAMBDA i : Len(c[i].stack), OnTrack(c, e))
Depths(c, e) == [i \in OnTrack(c, e) |-> Len(c[i].stack)]
Stacked(c) == Len(c) \in Nat \ {0} /\ \A i \in 1 .. Len(c) : Len(c[i].stack) \in Nat

\* The sum is one of InductionFacts, over the contexts on the track.
LEMMA FramesInIsSum ==
  ASSUME NEW c, NEW e, Stacked(c)
  PROVE  /\ IsFiniteSet(OnTrack(c, e)) /\ Depths(c, e) \in [OnTrack(c, e) -> Int]
         /\ \E f : IsSum(f, Depths(c, e), OnTrack(c, e)) /\ FramesIn(c, e) = f[OnTrack(c, e)]
<1> DEFINE S == OnTrack(c, e)
           h == Depths(c, e)
<1>1. IsFiniteSet(S)
  <2>1. IsFiniteSet(2 .. Len(c)) /\ S \subseteq 2 .. Len(c)
    BY FS_Interval DEF Stacked, OnTrack
  <2> QED BY <2>1, FS_Subset
<1>2. h \in [S -> Int]
  BY DEF Stacked, OnTrack, Depths
<1>3. PICK f : IsSum(f, h, S)
  <2> HIDE DEF S, h
  <2> QED BY <1>1, <1>2, SumExists
<1> DEFINE P(g) == g = [s \in SUBSET S |->
                         IF s = {} THEN 0
                         ELSE LET x == (CHOOSE x \in s : TRUE) IN Len(c[x].stack) + g[s \ {x}]]
<1>4. ASSUME NEW g PROVE P(g) <=> IsSum(g, h, S)
  <2>1. ASSUME NEW s \in SUBSET S, s # {} PROVE Len(c[Found(s)].stack) = h[Found(s)]
    BY <2>1, FoundIn DEF Depths
  <2>2. [s \in SUBSET S |-> IF s = {} THEN 0
                            ELSE Len(c[Found(s)].stack) + g[s \ {Found(s)}]]
      = [s \in SUBSET S |-> IF s = {} THEN 0 ELSE h[Found(s)] + g[s \ {Found(s)}]]
    BY <2>1
  <2>3. P(g) <=> g = [s \in SUBSET S |-> IF s = {} THEN 0
                            ELSE Len(c[Found(s)].stack) + g[s \ {Found(s)}]]
    BY Zenon DEF Found
  <2> QED BY <2>2, <2>3 DEF IsSum
<1>5. P(CHOOSE g : P(g))
  <2>1. P(f)
    BY <1>3, <1>4
  <2> HIDE DEF P
  <2> QED BY <2>1, Zenon
<1> DEFINE k == CHOOSE g : P(g)
<1>6. FramesIn(c, e) = k[S]
  BY Zenon DEF FramesIn, MapThenSumSet, MapThenFoldSet
<1>7. IsSum(k, h, S)
  <2> HIDE DEF P
  <2> QED BY <1>4, <1>5
<1> HIDE DEF k
<1> QED BY <1>1, <1>2, <1>6, <1>7

\* The frames of an exception in contexts that are the same but for the last of one of them.
LEMMA FramesSplit ==
  ASSUME NEW c, NEW d, NEW e, Stacked(c), Stacked(d), Len(c) = Len(d) + 1,
         \A i \in 2 .. Len(d) : c[i].track = d[i].track /\ Len(c[i].stack) = Len(d[i].stack)
  PROVE  /\ FramesIn(d, e) \in Int
         /\ FramesIn(c, e) = IF c[Len(c)].track = e THEN FramesIn(d, e) + Len(c[Len(c)].stack)
                             ELSE FramesIn(d, e)
<1> DEFINE S == OnTrack(c, e)
           T == OnTrack(d, e)
           h == Depths(c, e)
           k == Depths(d, e)
           n == Len(c)
<1>1. IsFiniteSet(S) /\ h \in [S -> Int] /\ IsFiniteSet(T) /\ k \in [T -> Int]
  BY FramesInIsSum
<1>2. PICK f : IsSum(f, h, S) /\ FramesIn(c, e) = f[S]
  BY FramesInIsSum
<1>3. PICK g : IsSum(g, k, T) /\ FramesIn(d, e) = g[T]
  BY FramesInIsSum
<1>4. T \subseteq S /\ n \notin T /\ \A i \in T : h[i] = k[i]
  BY DEF OnTrack, Depths, Stacked
<1>5. f[T] = g[T]
  <2> HIDE DEF S, T, h, k
  <2>1. T \in SUBSET S /\ T \in SUBSET T
    BY <1>4
  <2> QED BY <1>1, <1>2, <1>3, <1>4, <2>1, SumSame
<1>6. g[T] \in Int
  <2> HIDE DEF T, k
  <2>1. g \in [SUBSET T -> Int]
    BY <1>1, <1>3, SumType
  <2> QED BY <2>1
<1>7. CASE c[n].track = e
  <2>1. S = T \cup {n} /\ n \in S \ T /\ h[n] = Len(c[n].stack)
    BY <1>7, <1>4 DEF OnTrack, Stacked, Depths
  <2>2. f[T \cup {n}] = f[T] + h[n]
    <3> HIDE DEF S, T, h, n
    <3>1. T \in SUBSET S /\ n \in S \ T /\ IsSum(f, h, S)
      BY <1>2, <1>4, <2>1
    <3>2. Adds(f, h, T, n)
      BY <1>1, <3>1, SumWith
    <3> QED BY <3>2 DEF Adds
  <2> QED BY <1>2, <1>3, <1>5, <1>6, <1>7, <2>1, <2>2
<1>8. CASE c[n].track # e
  <2>1. S = T
    BY <1>8, <1>4 DEF OnTrack, Stacked
  <2> QED BY <1>2, <1>3, <1>5, <1>6, <1>8, <2>1
<1> QED BY <1>7, <1>8

\* Contexts that hold as many frames on the same tracks.
LEMMA FramesSame ==
  ASSUME NEW c, NEW d, NEW e, Stacked(c), Stacked(d), Len(c) = Len(d),
         \A i \in 2 .. Len(d) : c[i].track = d[i].track /\ Len(c[i].stack) = Len(d[i].stack)
  PROVE  FramesIn(c, e) = FramesIn(d, e)
<1> DEFINE S == OnTrack(c, e)
           h == Depths(c, e)
           k == Depths(d, e)
<1>1. OnTrack(d, e) = S /\ \A i \in S : h[i] = k[i]
  BY DEF OnTrack, Depths, Stacked
<1>2. IsFiniteSet(S) /\ h \in [S -> Int] /\ k \in [S -> Int]
  BY <1>1, FramesInIsSum
<1>3. PICK f : IsSum(f, h, S) /\ FramesIn(c, e) = f[S]
  BY FramesInIsSum
<1>4. PICK g : IsSum(g, k, S) /\ FramesIn(d, e) = g[S]
  BY <1>1, FramesInIsSum
<1>5. f[S] = g[S]
  <2> HIDE DEF S, h, k
  <2>1. S \in SUBSET S
    OBVIOUS
  <2> QED BY <1>1, <1>2, <1>3, <1>4, <2>1, SumSame
<1> QED BY <1>3, <1>4, <1>5

\* With no exception open there are no frames of one.
LEMMA FramesNone ==
  ASSUME NEW c, NEW e, Stacked(c), Len(c) = 1
  PROVE  FramesIn(c, e) = 0
<1>1. OnTrack(c, e) = {}
  BY DEF OnTrack
<1>2. PICK f : IsSum(f, Depths(c, e), OnTrack(c, e)) /\ FramesIn(c, e) = f[OnTrack(c, e)]
  BY FramesInIsSum
<1> QED BY <1>1, <1>2 DEF IsSum

\* What the type of the context stack says of its depths.
LEMMA StackedContexts ==
  ASSUME NEW c \in Seq(Contexts) \ {<<>>}
  PROVE  Stacked(c)
<1>1. Len(c) \in Nat \ {0} /\ \A i \in 1 .. Len(c) : c[i] \in Contexts
  OBVIOUS
<1>2. \A x \in Contexts : Len(x.stack) \in Nat
  BY DEF Contexts, Stacks
<1> QED BY <1>1, <1>2 DEF Stacked

LEMMA FramesOnIsIn == \A e \in Exceptions : FramesOn(e) = FramesIn(ctx, e)
BY DEF FramesOn, FramesIn, ContextsOn, OnTrack

LEMMA FramesOnIsInNext == \A e \in Exceptions : FramesOn(e)' = FramesIn(ctx', e)
<1>1. \A e \in Exceptions : FramesOn(e) = FramesIn(ctx, e)
  BY FramesOnIsIn
<1>2. (\A e \in Exceptions : FramesOn(e) = FramesIn(ctx, e))'
  BY <1>1, PTL
<1> QED BY <1>2

LEMMA LaneIsTrack ==
  ASSUME TypeOK, NEW e \in Exceptions
  PROVE  CurLane = e <=> (Len(ctx) > 1 /\ ctx[Len(ctx)].track = e)
<1>1. Len(ctx) \in Nat \ {0} /\ curThread # e
  BY LanesAssumption DEF TypeOK
<1> QED BY <1>1 DEF CurLane, Innermost

LEMMA InstrRangeAccountsIsrs ==
  ASSUME TypeOK, TypeOK', IsrLaneAccounts, NEW r \in Ranges, InstrRange(r), NEW e \in Exceptions
  PROVE  (open[e] = FramesOn(e))'
<1> DEFINE n == Len(ctx)
           b == AfterRange(r)
           new == [track |-> Innermost.track, stack |-> b.stack,
                   pending |-> Innermost.pending, last |-> [start |-> r.start, end |-> r.end]]
<1>1. /\ ~finished /\ open \in [Lanes -> Int] /\ CurLane \in Lanes /\ e \in Lanes
      /\ b \in Books /\ Book \in Books /\ SameBalance(Book, b) /\ Book.stack = Innermost.stack
  <2>1. ~finished
    BY DEF InstrRange
  <2> QED BY <2>1, BookType, AfterRangeSound DEF TypeOK, Lanes
<1>2. open' = [open EXCEPT ![CurLane] = b.open] /\ ctx' = [ctx EXCEPT ![n] = new]
  BY DEF InstrRange
<1>3. Stacked(ctx) /\ Stacked(ctx') /\ ctx \in Seq(Contexts) /\ n \in Nat \ {0}
  BY StackedContexts DEF TypeOK
<1> HIDE DEF b
<1>4. /\ Len(ctx') = n /\ ctx'[n].track = ctx[n].track /\ ctx'[n].stack = b.stack
      /\ \A i \in 1 .. n - 1 : ctx'[i] = ctx[i]
  BY <1>2, <1>3 DEF Innermost
<1>5. open[e] = FramesIn(ctx, e)
  BY FramesOnIsIn DEF IsrLaneAccounts
<1>6. CASE n = 1
  <2>1. FramesIn(ctx, e) = 0 /\ FramesIn(ctx', e) = 0
    BY <1>3, <1>4, <1>6, FramesNone
  <2>2. CurLane # e
    BY <1>6, LaneIsTrack
  <2> QED BY <1>1, <1>2, <1>5, <2>1, <2>2, FramesOnIsInNext
<1>7. CASE n > 1
  <2> DEFINE d == SubSeq(ctx, 1, n - 1)
  <2>1. Len(d) = n - 1 /\ \A i \in 1 .. n - 1 : d[i] = ctx[i]
    BY <1>3, <1>7
  <2>2. Stacked(d)
    BY <1>3, <1>7, <2>1 DEF Stacked
  <2> HIDE DEF d
  <2>3. /\ FramesIn(d, e) \in Int
        /\ FramesIn(ctx, e) = IF ctx[n].track = e THEN FramesIn(d, e) + Len(ctx[n].stack)
                              ELSE FramesIn(d, e)
    <3>1. /\ n = Len(d) + 1
          /\ \A i \in 2 .. Len(d) : ctx[i].track = d[i].track /\ Len(ctx[i].stack) = Len(d[i].stack)
      BY <1>3, <2>1
    <3> QED BY <1>3, <2>2, <3>1, FramesSplit
  <2>4. FramesIn(ctx', e) = IF ctx[n].track = e THEN FramesIn(d, e) + Len(b.stack)
                            ELSE FramesIn(d, e)
    <3>1. /\ Len(ctx') = Len(d) + 1
          /\ \A i \in 2 .. Len(d) : ctx'[i].track = d[i].track /\ Len(ctx'[i].stack) = Len(d[i].stack)
      BY <1>3, <1>4, <2>1
    <3>2. FramesIn(ctx', e) = IF ctx'[Len(ctx')].track = e
                              THEN FramesIn(d, e) + Len(ctx'[Len(ctx')].stack)
                              ELSE FramesIn(d, e)
      BY <1>3, <2>2, <3>1, FramesSplit
    <3> QED BY <1>4, <3>2
  <2>5. CASE ctx[n].track = e
    <3>1. CurLane = e
      BY <1>7, <2>5, LaneIsTrack
    <3>2. b.open - Len(b.stack) = open[e] - Len(ctx[n].stack)
      BY <1>1, <3>1 DEF SameBalance, Book, Innermost
    <3>3. Len(b.stack) \in Int /\ b.open \in Int /\ Len(ctx[n].stack) \in Int
      BY <1>1, <1>3, <1>4 DEF Books, Stacked
    <3>4. open'[e] = b.open
      BY <1>1, <1>2, <3>1
    <3> QED BY <1>5, <2>3, <2>4, <2>5, <3>2, <3>3, <3>4, FramesOnIsInNext
  <2>6. CASE ctx[n].track # e
    <3>1. CurLane # e
      BY <2>6, LaneIsTrack
    <3> QED BY <1>1, <1>2, <1>5, <2>3, <2>4, <2>6, <3>1, FramesOnIsInNext
  <2> QED BY <2>5, <2>6
<1>8. n = 1 \/ n > 1
  BY <1>3
<1> QED BY <1>6, <1>7, <1>8

LEMMA ExceptionAccountsIsrs ==
  ASSUME TypeOK, TypeOK', IsrLaneAccounts, NEW x \in Exceptions, Exception(x), NEW e \in Exceptions
  PROVE  (open[e] = FramesOn(e))'
<1> DEFINE n == Len(ctx)
           kept == [ctx EXCEPT ![n].pending = pending]
           new == [track |-> x, stack |-> << [fn |-> x, gap |-> 0] >>,
                   pending |-> NoCall, last |-> NoRange]
<1>1. ctx' = Append(kept, new) /\ open' = [open EXCEPT ![x] = open[x] + 1]
  BY DEF Exception
<1>2. open \in [Lanes -> Int] /\ e \in Lanes /\ x \in Lanes
  BY DEF Exception, TypeOK, Lanes
<1>3. Stacked(ctx) /\ Stacked(ctx') /\ ctx \in Seq(Contexts) /\ n \in Nat \ {0}
  BY StackedContexts DEF TypeOK
<1>4. kept \in Seq(Contexts) /\ Len(kept) = n
      /\ \A i \in 1 .. n : kept[i].track = ctx[i].track /\ kept[i].stack = ctx[i].stack
  <2> DEFINE c == [ctx[n] EXCEPT !.pending = pending]
  <2>1. ctx[n] \in Contexts
    BY <1>3
  <2>2. c \in Contexts /\ c.track = ctx[n].track /\ c.stack = ctx[n].stack
    BY <2>1, PendingRewritten DEF TypeOK, Contexts
  <2>3. kept = [ctx EXCEPT ![n] = c]
    OBVIOUS
  <2> HIDE DEF kept, c
  <2> QED BY <1>3, <2>2, <2>3
<1> HIDE DEF kept
<1>5. /\ Len(ctx') = n + 1 /\ ctx'[n + 1] = new
      /\ \A i \in 1 .. n : ctx'[i].track = ctx[i].track /\ ctx'[i].stack = ctx[i].stack
  BY <1>1, <1>3, <1>4
<1>6. ctx'[n + 1].track = x /\ Len(ctx'[n + 1].stack) = 1
  BY <1>5
<1>7. /\ FramesIn(ctx, e) \in Int
      /\ FramesIn(ctx', e) = IF ctx'[Len(ctx')].track = e
                             THEN FramesIn(ctx, e) + Len(ctx'[Len(ctx')].stack)
                             ELSE FramesIn(ctx, e)
  <2>1. /\ Len(ctx') = Len(ctx) + 1
        /\ \A i \in 2 .. Len(ctx) : ctx'[i].track = ctx[i].track
                                    /\ Len(ctx'[i].stack) = Len(ctx[i].stack)
    BY <1>3, <1>5
  <2> QED BY <1>3, <2>1, FramesSplit
<1>8. FramesIn(ctx', e) = IF x = e THEN FramesIn(ctx, e) + 1 ELSE FramesIn(ctx, e)
  BY <1>5, <1>6, <1>7
<1>9. open[e] = FramesIn(ctx, e)
  BY FramesOnIsIn DEF IsrLaneAccounts
<1> QED BY <1>1, <1>2, <1>8, <1>9, FramesOnIsInNext

LEMMA LeaveContextAccountsIsrs ==
  ASSUME TypeOK, TypeOK', IsrLaneAccounts, LeaveContext, NEW e \in Exceptions
  PROVE  (open[e] = FramesOn(e))'
<1> DEFINE n == Len(ctx)
<1>1. /\ ctx' = [Front(ctx) EXCEPT ![n - 1].pending = NoCall] /\ n > 1
      /\ open' = [open EXCEPT ![CurLane] = open[CurLane] - Len(Innermost.stack)]
  BY DEF LeaveContext
<1>2. open \in [Lanes -> Int] /\ e \in Lanes /\ CurLane \in Lanes
  BY BookType DEF LeaveContext, TypeOK, Lanes
<1>3. Stacked(ctx) /\ Stacked(ctx') /\ ctx \in Seq(Contexts) /\ n \in Nat \ {0}
  BY StackedContexts DEF TypeOK
<1>4. Front(ctx) \in Seq(Contexts) /\ Len(Front(ctx)) = n - 1
      /\ \A i \in 1 .. n - 1 : Front(ctx)[i] = ctx[i]
  BY <1>1, <1>3 DEF Front
<1>5. /\ Len(ctx') = n - 1
      /\ \A i \in 1 .. n - 1 : ctx'[i].track = ctx[i].track /\ ctx'[i].stack = ctx[i].stack
  BY <1>1, <1>3, <1>4 DEF Contexts
<1>6. /\ FramesIn(ctx', e) \in Int
      /\ FramesIn(ctx, e) = IF ctx[n].track = e
                            THEN FramesIn(ctx', e) + Len(ctx[n].stack)
                            ELSE FramesIn(ctx', e)
  BY <1>3, <1>5, FramesSplit
<1>7. open[e] = FramesIn(ctx, e)
  BY FramesOnIsIn DEF IsrLaneAccounts
<1>8. CurLane = e <=> ctx[n].track = e
  BY <1>1, LaneIsTrack
<1>9. Len(ctx[n].stack) \in Int /\ Innermost = ctx[n]
  BY <1>3 DEF Stacked, Innermost
<1>10. CASE CurLane = e
  <2>1. open'[e] = open[e] - Len(ctx[n].stack)
    BY <1>1, <1>2, <1>9, <1>10
  <2> QED BY <1>6, <1>7, <1>8, <1>9, <1>10, <2>1, FramesOnIsInNext
<1>11. CASE CurLane # e
  <2>1. open'[e] = open[e]
    BY <1>1, <1>2, <1>11
  <2> QED BY <1>6, <1>7, <1>8, <1>11, <2>1, FramesOnIsInNext
<1> QED BY <1>10, <1>11

LEMMA SwitchThreadAccountsIsrs ==
  ASSUME TypeOK, TypeOK', IsrLaneAccounts, NEW t \in Threads, SwitchThread(t), NEW e \in Exceptions
  PROVE  (open[e] = FramesOn(e))'
<1>1. ctx' = [ctx EXCEPT ![1].stack = StackOf(t)]
  BY DEF SwitchThread, TakeUp
<1>2. Stacked(ctx) /\ Stacked(ctx') /\ ctx \in Seq(Contexts)
  BY StackedContexts DEF TypeOK
<1>3. Len(ctx') = Len(ctx) /\ \A i \in 2 .. Len(ctx) : ctx'[i] = ctx[i]
  BY <1>1, <1>2
<1>4. FramesIn(ctx', e) = FramesIn(ctx, e)
  BY <1>2, <1>3, FramesSame
<1>5. open'[e] = open[e]
  <2>1. e # Boot
    BY LanesAssumption
  <2> QED BY <2>1 DEF SwitchThread, EndBoot, slices, TypeOK, Lanes
<1> QED BY <1>4, <1>5, FramesOnIsIn, FramesOnIsInNext DEF IsrLaneAccounts

LEMMA FinishAccountsIsrs ==
  ASSUME TypeOK, TypeOK', IsrLaneAccounts, Finish, NEW e \in Exceptions
  PROVE  open'[e] = 0 /\ (open[e] = FramesOn(e))'
<1>1. open'[e] = open[e] - FramesOn(e) /\ open[e] \in Int
  BY DEF Finish, TypeOK, Lanes
<1>2. open'[e] = 0
  BY <1>1 DEF IsrLaneAccounts
<1>3. Len(ctx') = 1
  BY DEF Finish
<1>4. FramesIn(ctx', e) = 0
  BY <1>3, StackedContexts, FramesNone DEF TypeOK
<1> QED BY <1>2, <1>4, FramesOnIsInNext

(* IsrLaneAccounts: the slices of an exception's lane account for the frames  *)
(* of all the contexts on its track, also when an exception return was lost   *)
(* and there are several (callstack.cpp:287-330).                             *)
THEOREM IsrLanesAccounted == Spec => []IsrLaneAccounts
<1>1. Init => IsrLaneAccounts
  <2> SUFFICES ASSUME Init, NEW e \in Exceptions PROVE open[e] = FramesOn(e)
    BY DEF IsrLaneAccounts
  <2>1. Stacked(ctx) /\ Len(ctx) = 1 /\ open[e] = 0
    BY DEF Init, Stacked, FreshStack, Lanes
  <2> QED BY <2>1, FramesNone, FramesOnIsIn
<1>2. TypeOK /\ TypeOK' /\ IsrLaneAccounts /\ [Next]_vars => IsrLaneAccounts'
  <2> SUFFICES ASSUME TypeOK, TypeOK', IsrLaneAccounts, [Next]_vars, NEW e \in Exceptions
               PROVE  (open[e] = FramesOn(e))'
    BY DEF IsrLaneAccounts
  <2>1. ASSUME NEW r \in Ranges, InstrRange(r) PROVE (open[e] = FramesOn(e))'
    BY <2>1, InstrRangeAccountsIsrs
  <2>2. ASSUME NEW x \in Exceptions, Exception(x) PROVE (open[e] = FramesOn(e))'
    BY <2>2, ExceptionAccountsIsrs
  <2>3. CASE LeaveContext
    BY <2>3, LeaveContextAccountsIsrs
  <2>4. ASSUME NEW t \in Threads, SwitchThread(t) PROVE (open[e] = FramesOn(e))'
    BY <2>4, SwitchThreadAccountsIsrs
  <2>5. CASE Finish
    BY <2>5, FinishAccountsIsrs
  <2>6. CASE UnmatchedExceptionRet \/ Discontinuity \/ UNCHANGED vars
    <3>1. ctx' = ctx /\ open' = open
      BY <2>6 DEF UnmatchedExceptionRet, Discontinuity, vars, core, slices
    <3>2. open[e] = FramesIn(ctx, e)
      BY FramesOnIsIn DEF IsrLaneAccounts
    <3> QED BY <3>1, <3>2, FramesOnIsInNext
  <2> QED BY <2>1, <2>2, <2>3, <2>4, <2>5, <2>6 DEF Next, ExceptionRet
<1> QED BY <1>1, <1>2, TypeCorrect, PTL DEF Spec

(* BalancedAtFinish: finish() leaves every lane with as many ENDs as BEGINs,  *)
(* a thread's or an exception's (callstack.cpp:363).                            *)
THEOREM LanesBalancedAtFinish == Spec => []BalancedAtFinish
<1>1. Init => BalancedAtFinish
  BY DEF Init, BalancedAtFinish
<1>2. (/\ TypeOK /\ TypeOK' /\ ThreadLaneAccounts /\ IsrLaneAccounts /\ BalancedAtFinish
       /\ [Next]_vars) => BalancedAtFinish'
  <2> SUFFICES ASSUME TypeOK, TypeOK', ThreadLaneAccounts, IsrLaneAccounts, BalancedAtFinish,
                      [Next]_vars
               PROVE  BalancedAtFinish'
    OBVIOUS
  <2>1. CASE Finish
    BY <2>1, FinishAccounts, FinishAccountsIsrs DEF BalancedAtFinish, Lanes
  <2>2. CASE Next /\ ~Finish
    <3>1. finished' = finished /\ ~finished
      BY <2>2 DEF Next, InstrRange, Exception, ExceptionRet, LeaveContext,
                  UnmatchedExceptionRet, Discontinuity, SwitchThread
    <3> QED BY <3>1 DEF BalancedAtFinish
  <2>3. CASE UNCHANGED vars
    BY <2>3 DEF vars, slices, BalancedAtFinish
  <2> QED BY <2>1, <2>2, <2>3
<1> QED BY <1>1, <1>2, TypeCorrect, ThreadLanesAccounted, IsrLanesAccounted, PTL DEF Spec

------------------------------------------------------------------------------
(* ENDs that close nothing. A book whose lane accounts for its stack has one  *)
(* only when its last frame is popped, which is the lowest of a thread's.     *)
Covered(b) == b.open >= Len(b.stack) - 1

LEMMA PopToCloses ==
  ASSUME NEW b \in Books, Covered(b), NEW k \in 1 .. Len(b.stack)
  PROVE  PopTo(b, k) \in Books /\ Covered(PopTo(b, k)) /\ PopTo(b, k).unbegun = b.unbegun
<1>1. Len(b.stack) \in Nat /\ b.open \in Int /\ b.unbegun \in BOOLEAN
  BY DEF Books
<1>2. PopTo(b, k) \in Books /\ SameBalance(b, PopTo(b, k)) /\ Len(PopTo(b, k).stack) = k
  BY PopToKeepsBalance
<1>3. Covered(PopTo(b, k))
  <2>1. PopTo(b, k).open \in Int
    BY <1>2 DEF Books
  <2> QED BY <1>1, <1>2, <2>1 DEF SameBalance, Covered
<1>4. ~(b.open < Len(b.stack) - k)
  BY <1>1 DEF Covered
<1>5. PopTo(b, k).unbegun = (b.unbegun \/ b.open < Len(b.stack) - k)
  BY DEF PopTo
<1> QED BY <1>1, <1>2, <1>3, <1>4, <1>5

LEMMA RangeCloses ==
  ASSUME TypeOK, ~finished, Covered(Book), NEW r \in Ranges
  PROVE  \/ AfterRange(r).unbegun = Book.unbegun
         \/ /\ Confirms(r) /\ IsStale(Book, FunctionAt(r.start)) /\ Len(Book.stack) = 1
            /\ Book.open < 1
<1> DEFINE fn == FunctionAt(r.start)
           b == AfterCall(r)
           c == AfterReconcile(r)
<1>0. /\ Book \in Books /\ Len(Book.stack) \in Nat \ {0} /\ fn \in Names /\ gaps \in Nat
      /\ Book.open \in Int /\ Book.unbegun \in BOOLEAN
  BY BookType, FunctionAtIsName DEF Stacks, TypeOK, Books
<1>1. SUFFICES ASSUME ~(Confirms(r) /\ IsStale(Book, fn) /\ Len(Book.stack) = 1 /\ Book.open < 1)
               PROVE  AfterRange(r).unbegun = Book.unbegun
  OBVIOUS
<1>2. b \in Books /\ b.stack # <<>> /\ Covered(b) /\ b.unbegun = Book.unbegun
  <2>1. CASE ~Confirms(r)
    BY <1>0, <2>1 DEF AfterCall
  <2>2. CASE Confirms(r)
    <3> DEFINE p == IF IsStale(Book, fn) THEN Pop(Book) ELSE Book
    <3>1. b = DoCall(Book, fn) /\ DoCall(Book, fn) = Push(p, fn)
      BY <2>2 DEF AfterCall, DoCall
    <3>2. /\ DoCall(Book, fn) \in Books /\ SameBalance(Book, DoCall(Book, fn))
          /\ Leaves(Book.stack, DoCall(Book, fn).stack)
      BY <1>0, DoCallSound
    <3>3. p.unbegun = Book.unbegun
      <4>1. CASE IsStale(Book, fn) /\ Len(Book.stack) > 1
        <5>1. Len(Book.stack) - 1 \in 1 .. Len(Book.stack)
          BY <1>0, <4>1
        <5> QED BY <1>0, <4>1, <5>1, PopToCloses DEF Pop
      <4>2. CASE IsStale(Book, fn) /\ Len(Book.stack) = 1
        <5>1. ~(Book.open < 1)
          BY <1>1, <2>2, <4>2
        <5>2. p.unbegun = (Book.unbegun \/ Book.open < Len(Book.stack) - (Len(Book.stack) - 1))
          BY <4>2 DEF Pop, PopTo
        <5>3. Len(Book.stack) - (Len(Book.stack) - 1) = 1
          BY <4>2
        <5> QED BY <1>0, <5>1, <5>2, <5>3
      <4>3. CASE ~IsStale(Book, fn)
        BY <4>3
      <4>4. Len(Book.stack) > 1 \/ Len(Book.stack) = 1
        <5>1. \A m \in Nat \ {0} : m > 1 \/ m = 1
          OBVIOUS
        <5> QED BY <1>0, <5>1, Zenon
      <4> HIDE DEF p
      <4> QED BY <4>1, <4>2, <4>3, <4>4, Zenon
    <3>4. Push(p, fn).unbegun = p.unbegun
      BY DEF Push
    <3>5. Covered(b)
      <4>1. b.open \in Int /\ Len(b.stack) \in Nat
        BY <3>1, <3>2 DEF Books
      <4> QED BY <1>0, <3>1, <3>2, <4>1 DEF SameBalance, Covered
    <3>6. b.stack # <<>>
      BY <3>1, <3>2 DEF Leaves, Separate!Rewrites
    <3> QED BY <3>1, <3>2, <3>3, <3>4, <3>5, <3>6
  <2> QED BY <2>1, <2>2
<1>3. c \in Books /\ c.stack # <<>> /\ Covered(c) /\ c.unbegun = Book.unbegun
  <2>1. CASE c = b
    BY <1>2, <2>1
  <2>2. CASE c = Reconcile(b, r.start)
    <3>1. c \in Books /\ c.stack # <<>>
      BY <1>2, <2>2, ReconcileSound DEF Leaves, Separate!Rewrites
    <3>2. CASE Unwinds(b, r.start)
      <4> DEFINE k == CHOOSE i \in Below(b, fn) : TRUE
      <4>1. k \in 1 .. Len(b.stack) - 1
        BY <3>2 DEF Unwinds, Below
      <4>2. c = PopTo(b, k)
        BY <2>2, <3>2 DEF Reconcile, UnwindTo
      <4> HIDE DEF k, b, c
      <4>3. k \in 1 .. Len(b.stack)
        <5>1. Len(b.stack) \in Nat
          BY <1>2 DEF Books
        <5> QED BY <4>1, <5>1
      <4> QED BY <1>2, <3>1, <4>2, <4>3, PopToCloses
    <3>3. CASE c = b
      BY <1>2, <3>3
    <3>4. CASE c = RelabelTop(b, fn)
      <4>1. c.unbegun = b.unbegun /\ c.open = b.open
        BY <3>4 DEF RelabelTop
      <4>2. Len(c.stack) = Len(b.stack)
        BY <1>0, <1>2, <3>4, RelabelKeepsBalance
      <4> QED BY <1>2, <3>1, <4>1, <4>2 DEF Covered
    <3> QED BY <2>2, <3>2, <3>3, <3>4 DEF Reconcile
  <2> QED BY <2>1, <2>2 DEF AfterReconcile
<1>4. CASE AfterRange(r) = c
  BY <1>3, <1>4
<1>5. CASE AfterRange(r) = DoReturn(c)
  <2> HIDE DEF c
  <2>1. Len(c.stack) \in Nat
    BY <1>3 DEF Books
  <2>2. CASE Len(c.stack) > 1
    <3>1. Len(c.stack) - 1 \in 1 .. Len(c.stack)
      BY <2>1, <2>2
    <3>2. PopTo(c, Len(c.stack) - 1).unbegun = c.unbegun
      BY <1>3, <3>1, PopToCloses
    <3> QED BY <1>3, <1>5, <2>2, <3>2 DEF DoReturn, Pop
  <2>3. CASE ~(Len(c.stack) > 1)
    BY <1>3, <1>5, <2>3 DEF DoReturn
  <2> QED BY <2>2, <2>3
<1> QED BY <1>4, <1>5 DEF AfterRange

\* There are no fewer frames of an exception than in its last context.
LEMMA FramesNatural ==
  ASSUME NEW c, NEW e, Stacked(c)
  PROVE  FramesIn(c, e) \in Nat
<1> DEFINE S == OnTrack(c, e)
           h == Depths(c, e)
<1>1. IsFiniteSet(S) /\ h \in [S -> Nat]
  <2>1. IsFiniteSet(S)
    BY FramesInIsSum
  <2>2. h \in [S -> Nat]
    BY DEF Stacked, OnTrack, Depths
  <2> QED BY <2>1, <2>2
<1>2. PICK f : IsSum(f, h, S) /\ FramesIn(c, e) = f[S]
  BY FramesInIsSum
<1>3. \A T \in SUBSET S : f[T] \in Nat
  <2> HIDE DEF S, h
  <2> QED BY <1>1, <1>2, SumNatural
<1> QED BY <1>2, <1>3

LEMMA LastContextCounted ==
  ASSUME TypeOK, IsrLaneAccounts, ~finished, Len(ctx) > 1
  PROVE  open[CurLane] >= Len(Innermost.stack)
<1> DEFINE n == Len(ctx)
           d == SubSeq(ctx, 1, n - 1)
           e == ctx[n].track
<1>1. ctx \in Seq(Contexts) /\ n \in Nat /\ n > 1 /\ Stacked(ctx)
  BY StackedContexts DEF TypeOK
<1>2. Len(d) = n - 1 /\ (\A i \in 1 .. n - 1 : d[i] = ctx[i]) /\ d # <<>> /\ d \in Seq(Contexts)
  <2>1. d \in Seq(Contexts) /\ Len(d) = n - 1
    BY <1>1
  <2>2. \A i \in 1 .. n - 1 : d[i] = ctx[i]
    BY <1>1
  <2> HIDE DEF d
  <2>3. Len(d) # 0
    BY <1>1, <2>1
  <2> QED BY <2>1, <2>2, <2>3
<1>3. Stacked(d)
  <2> HIDE DEF d, n
  <2> QED BY <1>2, StackedContexts
<1> HIDE DEF d
<1>4. e \in Exceptions /\ CurLane = e
  <2>1. ctx[n] \in Contexts /\ n \in 1 .. n /\ \A i \in 1 .. n : ctx[i].track = MainTrack <=> i = 1
    BY <1>1 DEF TypeOK
  <2>2. e # MainTrack
    BY <1>1, <2>1
  <2>3. e \in Exceptions
    BY <2>1, <2>2 DEF Contexts
  <2> QED BY <1>1, <2>3 DEF CurLane, Innermost
<1>5. FramesIn(ctx, e) = FramesIn(d, e) + Len(ctx[n].stack)
  <2>1. /\ Len(ctx) = Len(d) + 1
        /\ \A i \in 2 .. Len(d) : ctx[i].track = d[i].track /\ Len(ctx[i].stack) = Len(d[i].stack)
    BY <1>1, <1>2
  <2> QED BY <1>1, <1>3, <2>1, FramesSplit
<1>6. open[e] = FramesIn(ctx, e) /\ FramesIn(d, e) \in Nat /\ Len(ctx[n].stack) \in Nat
  BY <1>1, <1>3, <1>4, FramesNatural, FramesOnIsIn DEF IsrLaneAccounts, Stacked
<1> QED BY <1>4, <1>5, <1>6 DEF Innermost

LEMMA RangeEnds ==
  ASSUME TypeOK, ThreadLaneAccounts, IsrLaneAccounts, NEW r \in Ranges, InstrRange(r),
         unbegun' # unbegun
  PROVE  Len(ctx) = 1 /\ Len(ctx[1].stack) = 1 /\ edge' # NoEdge /\ edge'[1] = Root
<1> DEFINE fn == FunctionAt(r.start)
<1>1. /\ ~finished /\ Book \in Books /\ Book.stack = Innermost.stack /\ Len(ctx) \in Nat \ {0}
      /\ Len(Innermost.stack) \in Nat \ {0} /\ Book.open = open[CurLane]
  <2>1. ~finished
    BY DEF InstrRange
  <2> QED BY <2>1, BookType DEF Stacks, Book
<1>0. Len(ctx) > 1 \/ Len(ctx) = 1
  <2>1. \A m \in Nat \ {0} : m > 1 \/ m = 1
    OBVIOUS
  <2> QED BY <1>1, <2>1, Zenon
<1>2. Len(ctx) > 1 => open[CurLane] >= Len(Innermost.stack)
  BY <1>1, LastContextCounted
<1>3. Len(ctx) = 1 => open[CurLane] = Len(Innermost.stack) - 1
  BY DEF CurLane, Innermost, StackOf, ThreadLaneAccounts, TypeOK
<1>4. Covered(Book)
  <2> DEFINE m == Len(Innermost.stack)
             o == open[CurLane]
  <2>1. m \in Nat /\ o \in Int /\ Book.open = o /\ Len(Book.stack) = m
    BY <1>1 DEF Books
  <2>2. o >= m - 1
    <3>1. Len(ctx) > 1 => o >= m
      BY <1>2
    <3>2. Len(ctx) = 1 => o = m - 1
      BY <1>3
    <3> HIDE DEF m, o
    <3> QED BY <1>0, <2>1, <3>1, <3>2
  <2> HIDE DEF m, o
  <2> QED BY <2>1, <2>2 DEF Covered
<1>5. AfterRange(r).unbegun # Book.unbegun
  BY DEF InstrRange, Book
<1>6. Confirms(r) /\ IsStale(Book, fn) /\ Len(Book.stack) = 1 /\ Book.open < 1
  BY <1>1, <1>4, <1>5, RangeCloses
<1>7. Len(ctx) = 1
  <2> DEFINE o == open[CurLane]
  <2>1. o < 1 /\ Len(Innermost.stack) = 1
    BY <1>1, <1>6
  <2>2. Len(ctx) > 1 => o >= 1
    BY <1>2, <2>1
  <2>3. o \in Int
    BY <1>1 DEF Books
  <2> HIDE DEF o
  <2> QED BY <1>0, <2>1, <2>2, <2>3
<1>8. edge' = <<Root, fn>>
  <2>1. Pop(Book).stack = <<>>
    <3>1. Pop(Book).stack = SubSeq(Book.stack, 1, 0)
      BY <1>6 DEF Pop, PopTo
    <3>2. Book.stack \in Seq(Frames)
      BY <1>1 DEF Books
    <3> QED BY <3>1, <3>2
  <2>2. edge' = CountedEdge(r)
    BY DEF InstrRange
  <2> QED BY <1>6, <2>1, <2>2 DEF CountedEdge
<1>9. edge' # NoEdge
  <2>1. fn \in Names /\ Root \in Names
    BY FunctionAtIsName DEF Names
  <2> QED BY <1>8, <2>1, MarkersAssumption
<1> QED BY <1>1, <1>6, <1>7, <1>8, <1>9 DEF Innermost

LEMMA NoOtherEnds ==
  ASSUME TypeOK, ThreadLaneAccounts, IsrLaneAccounts,
         LeaveContext \/ (\E t \in Threads : SwitchThread(t)) \/ Finish
  PROVE  unbegun' = unbegun
<1>1. CASE LeaveContext
  <2>1. /\ ~finished /\ Len(ctx) > 1
        /\ unbegun' = IF open[CurLane] < Len(Innermost.stack) THEN unbegun \cup {CurLane} ELSE unbegun
    BY <1>1 DEF LeaveContext
  <2>2. open[CurLane] >= Len(Innermost.stack)
    BY <2>1, LastContextCounted
  <2>3. open[CurLane] \in Int /\ Len(Innermost.stack) \in Nat
    BY <2>1, BookType DEF TypeOK, Stacks
  <2>4. ~(open[CurLane] < Len(Innermost.stack))
    BY <2>2, <2>3
  <2> QED BY <2>1, <2>4
<1>2. ASSUME NEW t \in Threads, SwitchThread(t) PROVE unbegun' = unbegun
  <2>1. CASE curThread = Boot
    <3>1. open[Boot] = Len(ctx[1].stack) - 1 /\ open[Boot] \in Int
      BY <1>2, <2>1 DEF ThreadLaneAccounts, StackOf, TypeOK, SwitchThread, Lanes
    <3>2. ~(open[Boot] < Len(ctx[1].stack) - 1)
      BY <3>1
    <3> QED BY <1>2, <2>1, <3>2 DEF SwitchThread, EndBoot
  <2>2. CASE curThread # Boot
    BY <1>2, <2>2 DEF SwitchThread, EndBoot, slices
  <2> QED BY <2>1, <2>2
<1>3. CASE Finish
  <2>1. \A l \in Lanes : open[l] = FramesOn(l) /\ open[l] \in Int
    <3> SUFFICES ASSUME NEW l \in Lanes PROVE open[l] = FramesOn(l)
      BY <1>3 DEF Finish, TypeOK
    <3>1. CASE l \in Exceptions
      BY <3>1 DEF IsrLaneAccounts
    <3>2. CASE l \notin Exceptions
      BY <3>2 DEF ThreadLaneAccounts, FramesOn, Lanes
    <3> QED BY <3>1, <3>2
  <2>2. {l \in Lanes : open[l] < FramesOn(l)} = {}
    BY <2>1
  <2> QED BY <1>3, <2>2 DEF Finish
<1> QED BY <1>1, <1>2, <1>3

(* UnbegunEndsAreReentries: an END that closes nothing comes only from the    *)
(* blind-spot guard of do_call (callstack.cpp:125) on a thread's lowest       *)
(* frame, and never from an unwinding, a return, a switch or finish().        *)
THEOREM OnlyReentriesUnbegun == Spec => UnbegunEndsAreReentries
<1> DEFINE Ends == Len(ctx) = 1 /\ Len(ctx[1].stack) = 1 /\ edge' # NoEdge /\ edge'[1] = Root
<1>1. (/\ TypeOK /\ ThreadLaneAccounts /\ IsrLaneAccounts /\ [Next]_vars)
      => [unbegun' # unbegun => Ends]_vars
  <2> SUFFICES ASSUME TypeOK, ThreadLaneAccounts, IsrLaneAccounts, Next, unbegun' # unbegun
               PROVE  Ends
    OBVIOUS
  <2>1. ASSUME NEW r \in Ranges, InstrRange(r) PROVE Ends
    BY <2>1, RangeEnds
  <2>2. ~LeaveContext /\ ~(\E t \in Threads : SwitchThread(t)) /\ ~Finish
    BY NoOtherEnds
  <2>3. ~(\E e \in Exceptions : Exception(e)) /\ ~UnmatchedExceptionRet /\ ~Discontinuity
    BY DEF Exception, UnmatchedExceptionRet, Discontinuity, slices
  <2> QED BY <2>1, <2>2, <2>3 DEF Next, ExceptionRet
<1> QED BY <1>1, TypeCorrect, ThreadLanesAccounted, IsrLanesAccounted, PTL
        DEF Spec, UnbegunEndsAreReentries

------------------------------------------------------------------------------
(* The machine keeps the stacks apart: each of its calls is one step of       *)
(* ThreadStacks, or none.                                                     *)
All == Threads \cup {Boot}
StacksNow == [t \in All |-> StackOf(t)]
IsrsNow == [i \in 1 .. Len(ctx) - 1 |-> ctx[i + 1].stack]

LEMMA IsrsType ==
  ASSUME NEW c, ContextsOK(c)
  PROVE  /\ [i \in 1 .. Len(c) - 1 |-> c[i + 1].stack] \in Seq(Stacks)
         /\ Len([i \in 1 .. Len(c) - 1 |-> c[i + 1].stack]) = Len(c) - 1
<1> DEFINE n == Len(c)
           m == n - 1
<1>1. c \in Seq(Contexts) /\ n \in Nat /\ n >= 1
  BY DEF ContextsOK
<1>2. m \in Nat /\ m = n - 1
  <2> HIDE DEF n
  <2> QED BY <1>1
<1>3. \A i \in 1 .. n : c[i] \in Contexts
  BY <1>1
<1> HIDE DEF n, m
<1>4. \A i \in 1 .. m : c[i + 1].stack \in Stacks
  <2>1. \A i \in 1 .. m : i + 1 \in 1 .. n
    BY <1>1, <1>2
  <2> QED BY <1>3, <2>1 DEF Contexts
<1> DEFINE f == [i \in 1 .. m |-> c[i + 1].stack]
<1>5. f \in Seq(Stacks) /\ Len(f) = m
  BY <1>2, <1>4
<1> QED BY <1>2, <1>5 DEF n

LEMMA IsrsNowType ==
  ASSUME TypeOK, TypeOK'
  PROVE  /\ IsrsNow \in Seq(Stacks) /\ Len(IsrsNow) = Len(ctx) - 1
         /\ IsrsNow' \in Seq(Stacks) /\ Len(IsrsNow') = Len(ctx') - 1
<1>1. ContextsOK(ctx) /\ ContextsOK(ctx')
  BY DEF TypeOK, ContextsOK
<1> QED BY <1>1, IsrsType DEF IsrsNow

LEMMA InstrRangeSimulates ==
  ASSUME TypeOK, TypeOK', NEW r \in Ranges, InstrRange(r)
  PROVE  Separate!StackNext
<1> DEFINE b == AfterRange(r)
           n == Len(ctx)
<1>1. ~finished /\ finished' = finished /\ curThread' = curThread /\ curThread \in All
  BY DEF InstrRange, TypeOK, All
<1>2. /\ n \in Nat /\ n >= 1 /\ Len(ctx') = n
      /\ \A i \in 1 .. n - 1 : ctx'[i] = ctx[i]
      /\ ctx'[n].stack = b.stack
      /\ \A t \in All : StackOf(t)' = IF n = 1 /\ t = curThread THEN b.stack ELSE StackOf(t)
  BY InstrRangeStacks DEF All
<1>3. Leaves(ctx[n].stack, b.stack)
  BY <1>1, AfterRangeSound DEF Innermost
<1> HIDE DEF b, n
<1>4. CASE n = 1
  <2>1. IsrsNow = <<>> /\ IsrsNow' = <<>>
    BY <1>2, <1>4 DEF IsrsNow, n
  <2>2. StackOf(curThread) = ctx[n].stack
    BY <1>4 DEF StackOf
  <2>3. StacksNow'[curThread] = b.stack /\ StacksNow[curThread] = ctx[n].stack
    BY <1>1, <1>2, <1>4, <2>2 DEF StacksNow
  <2>4. StacksNow' = [StacksNow EXCEPT ![curThread] = StacksNow'[curThread]]
    BY <1>1, <1>2, <1>4, <2>3 DEF StacksNow
  <2>5. Separate!RunThread
    BY <1>1, <1>3, <2>1, <2>3, <2>4 DEF Separate!RunThread, StacksNow, IsrsNow, Leaves, All
  <2> QED BY <1>1, <2>5 DEF Separate!StackNext
<1>5. CASE n > 1
  <2> DEFINE m == n - 1
  <2>1. m \in Nat /\ m >= 1 /\ n = m + 1 /\ n # 1
    BY <1>2, <1>5
  <2> HIDE DEF m
  <2>2. /\ IsrsNow \in Seq(Stacks) /\ Len(IsrsNow) = m
        /\ IsrsNow' \in Seq(Stacks) /\ Len(IsrsNow') = m
    <3>1. Len(ctx) - 1 = m /\ Len(ctx') - 1 = m
      BY <1>2, <2>1 DEF n
    <3> QED BY <3>1, IsrsNowType
  <2>3. StacksNow' = StacksNow
    BY <1>2, <2>1 DEF StacksNow
  <2>4. /\ IsrsNow[m] = ctx[n].stack /\ IsrsNow'[m] = b.stack
        /\ \A i \in 1 .. m - 1 : IsrsNow'[i] = IsrsNow[i]
    <3>1. /\ IsrsNow = [i \in 1 .. m |-> ctx[i + 1].stack]
          /\ IsrsNow' = [i \in 1 .. m |-> ctx'[i + 1].stack]
      BY <1>2, <2>1 DEF IsrsNow, n
    <3>2. \A i \in 1 .. m - 1 : i + 1 \in 1 .. n - 1
      BY <2>1
    <3> QED BY <1>2, <2>1, <3>1, <3>2
  <2>5. IsrsNow' = [IsrsNow EXCEPT ![m] = b.stack]
    BY <2>1, <2>2, <2>4
  <2>6. Separate!RunIsr
    <3>1. Separate!Last(IsrsNow) = ctx[n].stack /\ Separate!Last(IsrsNow') = b.stack
      BY <2>2, <2>4 DEF Separate!Last
    <3>2. SUFFICES /\ IsrsNow # <<>> /\ Len(IsrsNow') = Len(IsrsNow)
                   /\ Leaves(Separate!Last(IsrsNow), Separate!Last(IsrsNow'))
                   /\ IsrsNow' = [IsrsNow EXCEPT ![Len(IsrsNow)] = Separate!Last(IsrsNow')]
                   /\ UNCHANGED <<curThread, StacksNow, finished>>
      BY DEF Separate!RunIsr, StacksNow, IsrsNow, Leaves, All
    <3>3. IsrsNow # <<>>
      BY <2>1, <2>2
    <3> QED BY <1>1, <1>3, <2>2, <2>3, <2>5, <3>1, <3>3
  <2> QED BY <1>1, <2>6 DEF Separate!StackNext
<1> QED BY <1>2, <1>4, <1>5


LEMMA ExceptionSimulates ==
  ASSUME TypeOK, TypeOK', NEW e \in Exceptions, Exception(e)
  PROVE  Separate!StackNext
<1> DEFINE n == Len(ctx)
           m == n - 1
<1>1. ~finished /\ finished' = finished /\ curThread' = curThread
  BY DEF Exception
<1>2. /\ n \in Nat /\ n >= 1 /\ Len(ctx') = n + 1
      /\ \A i \in 1 .. n : ctx'[i].stack = ctx[i].stack
      /\ Len(ctx'[n + 1].stack) = 1
      /\ \A t : StackOf(t)' = StackOf(t)
  BY ExceptionStacks
<1> HIDE DEF n
<1>3. m \in Nat /\ n = m + 1
  BY <1>2
<1> HIDE DEF m
<1>4. /\ IsrsNow \in Seq(Stacks) /\ Len(IsrsNow) = m
      /\ IsrsNow' \in Seq(Stacks) /\ Len(IsrsNow') = m + 1
  <2>1. Len(ctx) - 1 = m /\ Len(ctx') - 1 = m + 1
    BY <1>2, <1>3 DEF n
  <2> QED BY <2>1, IsrsNowType
<1>5. StacksNow' = StacksNow
  BY <1>2 DEF StacksNow
<1>6. /\ \A i \in 1 .. m : IsrsNow'[i] = IsrsNow[i]
      /\ Len(IsrsNow'[m + 1]) = 1
  <2>1. /\ IsrsNow = [i \in 1 .. m |-> ctx[i + 1].stack]
        /\ IsrsNow' = [i \in 1 .. m + 1 |-> ctx'[i + 1].stack]
    BY <1>2, <1>3 DEF IsrsNow, n
  <2>2. \A i \in 1 .. m : i + 1 \in 1 .. n /\ i \in 1 .. m + 1
    BY <1>3
  <2>3. m + 1 \in 1 .. m + 1
    BY <1>3
  <2> QED BY <1>2, <1>3, <2>1, <2>2, <2>3
<1>7. Separate!Last(IsrsNow') = IsrsNow'[m + 1]
  BY <1>4 DEF Separate!Last
<1>8. IsrsNow' = Append(IsrsNow, IsrsNow'[m + 1])
  <2> DEFINE x == IsrsNow'[m + 1]
             s == Append(IsrsNow, x)
  <2>1. x \in Stacks
    BY <1>3, <1>4
  <2> HIDE DEF x
  <2>2. s \in Seq(Stacks) /\ Len(s) = m + 1 /\ s[m + 1] = x
    BY <1>3, <1>4, <2>1
  <2>3. \A i \in 1 .. m : s[i] = IsrsNow[i]
    BY <1>3, <1>4, <2>1
  <2> HIDE DEF s
  <2>4. \A i \in 1 .. m + 1 : IsrsNow'[i] = s[i]
    BY <1>3, <1>6, <2>2, <2>3 DEF x
  <2>5. IsrsNow' = s
    BY <1>4, <2>2, <2>4
  <2> QED BY <2>5 DEF s, x
<1>9. Separate!Interrupt
  <2> SUFFICES /\ Len(IsrsNow') = Len(IsrsNow) + 1
               /\ IsrsNow' = Append(IsrsNow, Separate!Last(IsrsNow'))
               /\ Len(Separate!Last(IsrsNow')) = 1
               /\ UNCHANGED <<curThread, StacksNow, finished>>
    BY DEF Separate!Interrupt, StacksNow, IsrsNow, All
  <2> QED BY <1>1, <1>4, <1>5, <1>6, <1>7, <1>8
<1> QED BY <1>1, <1>9 DEF Separate!StackNext

LEMMA LeaveContextSimulates ==
  ASSUME TypeOK, TypeOK', LeaveContext
  PROVE  Separate!StackNext
<1> DEFINE n == Len(ctx)
           m == n - 1
<1>1. ~finished /\ finished' = finished /\ curThread' = curThread
  BY DEF LeaveContext
<1>2. /\ n \in Nat /\ n > 1 /\ Len(ctx') = n - 1
      /\ \A i \in 1 .. n - 1 : ctx'[i].stack = ctx[i].stack
      /\ \A t : StackOf(t)' = StackOf(t)
  BY LeaveContextStacks
<1> HIDE DEF n
<1>3. m \in Nat /\ m >= 1 /\ n = m + 1
  BY <1>2
<1> HIDE DEF m
<1>4. /\ IsrsNow \in Seq(Stacks) /\ Len(IsrsNow) = m
      /\ IsrsNow' \in Seq(Stacks) /\ Len(IsrsNow') = m - 1
  <2>1. Len(ctx) - 1 = m /\ Len(ctx') - 1 = m - 1
    BY <1>2, <1>3 DEF n
  <2> QED BY <2>1, IsrsNowType
<1>5. StacksNow' = StacksNow
  BY <1>2 DEF StacksNow
<1>6. \A i \in 1 .. m - 1 : IsrsNow'[i] = IsrsNow[i]
  <2>1. /\ IsrsNow = [i \in 1 .. m |-> ctx[i + 1].stack]
        /\ IsrsNow' = [i \in 1 .. m - 1 |-> ctx'[i + 1].stack]
    BY <1>2, <1>3 DEF IsrsNow, n
  <2>2. \A i \in 1 .. m - 1 : i + 1 \in 1 .. n - 1 /\ i \in 1 .. m
    BY <1>3
  <2> QED BY <1>2, <2>1, <2>2
<1>7. IsrsNow' = Separate!Front(IsrsNow)
  <2> DEFINE k == m - 1
             s == SubSeq(IsrsNow, 1, k)
  <2>1. k \in 0 .. Len(IsrsNow) /\ k \in Nat
    BY <1>3, <1>4
  <2>2. Separate!Front(IsrsNow) = s
    BY <1>4 DEF Separate!Front
  <2>3. Len(IsrsNow') = k /\ \A i \in 1 .. k : IsrsNow'[i] = IsrsNow[i]
    BY <1>4, <1>6
  <2> HIDE DEF k
  <2>4. s \in Seq(Stacks) /\ Len(s) = k
    BY <1>4, <2>1
  <2>5. \A i \in 1 .. k : s[i] = IsrsNow[i]
    BY <1>4, <2>1
  <2> HIDE DEF s
  <2>6. IsrsNow' = s
    BY <1>4, <2>1, <2>3, <2>4, <2>5
  <2> QED BY <2>2, <2>6
<1>8. Separate!Resume
  <2> SUFFICES /\ IsrsNow # <<>>
               /\ IsrsNow' = Separate!Front(IsrsNow)
               /\ UNCHANGED <<curThread, StacksNow, finished>>
    BY DEF Separate!Resume, StacksNow, IsrsNow, All
  <2>1. IsrsNow # <<>>
    BY <1>3, <1>4
  <2> QED BY <1>1, <1>5, <1>7, <2>1
<1> QED BY <1>1, <1>8 DEF Separate!StackNext

LEMMA SwitchThreadSimulates ==
  ASSUME TypeOK, TypeOK', NEW t \in Threads, SwitchThread(t)
  PROVE  Separate!StackNext
<1> DEFINE n == Len(ctx)
           m == n - 1
<1>1. ~finished /\ finished' = finished /\ curThread' = t
  BY DEF SwitchThread
<1>2. /\ n \in Nat /\ n >= 1 /\ Len(ctx') = n
      /\ \A i \in 2 .. n : ctx'[i] = ctx[i]
      /\ \A u \in All : StackOf(u)' = IF u = Boot THEN FreshStack ELSE StackOf(u)
  BY SwitchThreadStacks DEF All
<1> HIDE DEF n
<1>3. m \in Nat /\ n = m + 1
  BY <1>2
<1> HIDE DEF m
<1>4. IsrsNow' = IsrsNow
  <2>1. /\ IsrsNow = [i \in 1 .. m |-> ctx[i + 1].stack]
        /\ IsrsNow' = [i \in 1 .. m |-> ctx'[i + 1].stack]
    BY <1>2, <1>3 DEF IsrsNow, n
  <2>2. \A i \in 1 .. m : i + 1 \in 2 .. n
    BY <1>3
  <2> QED BY <1>2, <2>1, <2>2
<1>5. StacksNow' = [StacksNow EXCEPT ![Boot] = FreshStack]
  BY <1>2 DEF StacksNow, All
<1>6. Separate!Switch(t)
  <2> SUFFICES /\ curThread' = t
               /\ StacksNow' = [StacksNow EXCEPT ![Boot] = FreshStack]
               /\ UNCHANGED <<IsrsNow, finished>>
    BY DEF Separate!Switch, StacksNow, IsrsNow, All
  <2> QED BY <1>1, <1>4, <1>5
<1> QED BY <1>1, <1>6 DEF Separate!StackNext

LEMMA FinishSimulates ==
  ASSUME TypeOK, Finish
  PROVE  Separate!StackNext
<1>1. ~finished /\ finished' = TRUE /\ curThread' = curThread
  BY DEF Finish
<1>2. Len(ctx') = 1 /\ \A t \in All : Len(StackOf(t)') = 1
  BY FinishStacks DEF All
<1>3. IsrsNow' = <<>>
  <2>1. Len(ctx') - 1 = 0
    BY <1>2
  <2>2. IsrsNow' = [i \in 1 .. 0 |-> ctx'[i + 1].stack]
    BY <2>1 DEF IsrsNow
  <2> QED BY <2>2
<1>4. \A t \in All : Len(StacksNow'[t]) = 1
  BY <1>2 DEF StacksNow
<1>5. Separate!Close
  <2> SUFFICES /\ finished' = TRUE
               /\ IsrsNow' = <<>>
               /\ \A t \in All : Len(StacksNow'[t]) = 1
               /\ UNCHANGED curThread
    BY DEF Separate!Close, StacksNow, IsrsNow, All
  <2> QED BY <1>1, <1>3, <1>4
<1> QED BY <1>1, <1>5 DEF Separate!StackNext

(* The machine implements ThreadStacks: whatever the trace, an instruction    *)
(* range rewrites the top of the stack that runs and of no other, an          *)
(* exception's stack lives from its entry to its return, and no switch loses  *)
(* or mixes frames.                                                           *)
THEOREM ImplementsThreadStacks == Spec => KeepsStacksApart
<1>1. Init => Separate!StackInit
  <2> SUFFICES ASSUME Init
               PROVE  /\ curThread = Boot
                      /\ StacksNow = [t \in All |-> FreshStack]
                      /\ IsrsNow = <<>>
                      /\ finished = FALSE
    BY DEF Separate!StackInit, StacksNow, IsrsNow, All
  <2>1. \A t : StackOf(t) = FreshStack
    BY DEF Init, StackOf
  <2>2. Len(ctx) - 1 = 0
    BY DEF Init
  <2>3. IsrsNow = [i \in 1 .. 0 |-> ctx[i + 1].stack]
    BY <2>2 DEF IsrsNow
  <2> QED BY <2>1, <2>3 DEF Init, StacksNow
<1>2. TypeOK /\ TypeOK' /\ [Next]_vars => [Separate!StackNext]_(Separate!stackVars)
  <2> SUFFICES ASSUME TypeOK, TypeOK', [Next]_vars
               PROVE  Separate!StackNext \/ UNCHANGED Separate!stackVars
    OBVIOUS
  <2>1. ASSUME NEW r \in Ranges, InstrRange(r) PROVE Separate!StackNext
    BY <2>1, InstrRangeSimulates
  <2>2. ASSUME NEW e \in Exceptions, Exception(e) PROVE Separate!StackNext
    BY <2>2, ExceptionSimulates
  <2>3. CASE LeaveContext
    BY <2>3, LeaveContextSimulates
  <2>4. ASSUME NEW t \in Threads, SwitchThread(t) PROVE Separate!StackNext
    BY <2>4, SwitchThreadSimulates
  <2>5. CASE Finish
    BY <2>5, FinishSimulates
  <2>6. CASE UnmatchedExceptionRet \/ Discontinuity \/ UNCHANGED vars
    <3>1. UNCHANGED <<ctx, curThread, parked, finished>>
      BY <2>6 DEF UnmatchedExceptionRet, Discontinuity, vars, core
    <3>2. UNCHANGED <<curThread, StacksNow, IsrsNow, finished>>
      BY <3>1 DEF StacksNow, IsrsNow, StackOf
    <3> QED BY <3>2 DEF Separate!stackVars, StacksNow, IsrsNow, All
  <2> QED BY <2>1, <2>2, <2>3, <2>4, <2>5, <2>6 DEF Next, ExceptionRet
<1> QED BY <1>1, <1>2, TypeCorrect, PTL DEF Spec, KeepsStacksApart, Separate!StackSpec
=============================================================================
