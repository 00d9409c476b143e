--------------------------- MODULE InductionFacts ---------------------------
(* Induction for the proofs: over the numbers and over finite sets, stated of *)
(* a set of the good cases and not of a predicate, so that first-order        *)
(* provers can use it; and what it gives for recursive functions and sums.    *)
EXTENDS Integers, Sequences, FiniteSets, FiniteSetTheorems, WellFoundedInduction, TLAPS

\* A family of finite sets has a smallest one: none of the family is a proper part of it.
LEMMA SmallestSet ==
  ASSUME NEW S, NEW D, D \subseteq FiniteSubsetsOf(S), D # {}
  PROVE  \E T \in D : \A U \in D : U \subseteq T => U = T
<1>1. IsWellFoundedOn(StrictSubsetOrdering(S), FiniteSubsetsOf(S))
  BY FS_StrictSubsetOrderingWellFounded
<1>2. PICK T \in D : \A U \in D : <<U, T>> \notin StrictSubsetOrdering(S)
  BY <1>1, WFMin, Zenon
<1>3. ASSUME NEW U \in D, U \subseteq T, U # T PROVE FALSE
  <2>1. U \in SUBSET S /\ T \in SUBSET S
    BY DEF FiniteSubsetsOf
  <2>2. <<U, T>> \in StrictSubsetOrdering(S)
    BY <2>1, <1>3 DEF StrictSubsetOrdering
  <2> QED BY <2>2, <1>2
<1> QED BY <1>3

\* A set of numbers has a least one.
LEMMA LeastNumber ==
  ASSUME NEW T \in SUBSET Nat, T # {}
  PROVE  \E m \in T : \A k \in T : m <= k
<1> DEFINE D == {0 .. k : k \in T}
<1>1. ASSUME NEW k \in T PROVE 0 .. k \in FiniteSubsetsOf(Nat)
  <2>1. IsFiniteSet(0 .. k)
    BY FS_Interval
  <2> QED BY <2>1 DEF FiniteSubsetsOf
<1>2. D \subseteq FiniteSubsetsOf(Nat) /\ D # {}
  BY <1>1
<1>3. PICK X \in D : \A U \in D : U \subseteq X => U = X
  <2> HIDE DEF D
  <2>1. D # {} /\ D \subseteq FiniteSubsetsOf(Nat)
    BY <1>2
  <2> QED BY <2>1, SmallestSet
<1>4. PICK m \in T : X = 0 .. m
  OBVIOUS
<1>5. ASSUME NEW k \in T, ~(m <= k) PROVE FALSE
  <2>1. 0 .. k \subseteq 0 .. m /\ m \notin 0 .. k /\ m \in 0 .. m
    BY <1>5
  <2>2. 0 .. k \in D
    OBVIOUS
  <2>3. 0 .. k = 0 .. m
    BY <2>1, <2>2, <1>3, <1>4
  <2> QED BY <2>1, <2>3
<1> QED BY <1>5

\* Induction over the numbers.
LEMMA Induct ==
  ASSUME NEW G, 0 \in G, \A n \in Nat : n \in G => n + 1 \in G
  PROVE  Nat \subseteq G
<1> DEFINE T == Nat \ G
<1>1. ASSUME T # {} PROVE FALSE
  <2>1. PICK m \in T : \A k \in T : m <= k
    BY <1>1, LeastNumber
  <2>2. m # 0 /\ m - 1 \in Nat /\ m - 1 \in G
    BY <2>1
  <2> QED BY <2>2, <2>1
<1> QED BY <1>1

\* Induction over the indices up to a bound.
LEMMA InductUpTo ==
  ASSUME NEW n \in Nat, NEW G, 0 \in G, \A i \in 1 .. n : i - 1 \in G => i \in G
  PROVE  0 .. n \subseteq G
<1> DEFINE H == {k \in Nat : k <= n => k \in G}
<1>1. 0 \in H
  OBVIOUS
<1>2. ASSUME NEW k \in Nat, k \in H PROVE k + 1 \in H
  <2>1. CASE k + 1 <= n
    <3>1. k + 1 \in 1 .. n /\ (k + 1) - 1 = k /\ k \in G
      BY <2>1, <1>2
    <3> QED BY <3>1
  <2> QED BY <2>1
<1> HIDE DEF H
<1>3. Nat \subseteq H
  BY <1>1, <1>2, Induct
<1> QED BY <1>3 DEF H

(* A recursion over the indices 1 .. n has a solution, whatever is done at     *)
(* each of them.                                                              *)
Steps(step, S) == step \in [S \X Nat -> S]
Unfolds(f, S, base, step, n) ==
  /\ f \in [0 .. n -> S]
  /\ f[0] = base
  /\ \A i \in 1 .. n : f[i] = step[<<f[i - 1], i>>]

LEMMA RecursionExists ==
  ASSUME NEW S, NEW base \in S, NEW step, Steps(step, S), NEW n \in Nat
  PROVE  \E f : Unfolds(f, S, base, step, n)
<1> USE DEF Steps
<1> DEFINE Good(f, k) == f \in [0 .. k -> S] /\ f[0] = base
                         /\ \A i \in 1 .. k : f[i] = step[<<f[i - 1], i>>]
           G == {k \in Nat : \E f : Good(f, k)}
<1>1. 0 \in G
  <2>1. Good([i \in 0 .. 0 |-> base], 0)
    OBVIOUS
  <2> QED BY <2>1
<1>2. ASSUME NEW k \in Nat, k \in G PROVE k + 1 \in G
  <2>1. PICK f : Good(f, k)
    BY <1>2
  <2> DEFINE next == step[<<f[k], k + 1>>]
             g == [i \in 0 .. k + 1 |-> IF i = k + 1 THEN next ELSE f[i]]
  <2>2. f[k] \in S /\ next \in S
    BY <2>1
  <2>3. \A i \in 0 .. k : g[i] = f[i] /\ i \in 0 .. k + 1
    OBVIOUS
  <2>4. g[k + 1] = next
    OBVIOUS
  <2>5. g \in [0 .. k + 1 -> S]
    BY <2>1, <2>2
  <2>6. g[0] = base
    BY <2>1, <2>3
  <2> HIDE DEF g
  <2>7. ASSUME NEW i \in 1 .. k + 1 PROVE g[i] = step[<<g[i - 1], i>>]
    <3>1. CASE i = k + 1
      <4>1. g[i - 1] = f[k]
        BY <2>3, <3>1
      <4> QED BY <4>1, <3>1, <2>4
    <3>2. CASE i \in 1 .. k
      <4>1. g[i - 1] = f[i - 1] /\ g[i] = f[i]
        BY <2>3, <3>2
      <4> QED BY <4>1, <3>2, <2>1
    <3> QED BY <3>1, <3>2
  <2>8. Good(g, k + 1)
    BY <2>5, <2>6, <2>7
  <2> QED BY <2>8
<1> HIDE DEF G
<1>3. n \in G
  BY <1>1, <1>2, Induct
<1>4. \A f : Good(f, n) => Unfolds(f, S, base, step, n)
  BY DEF Unfolds
<1>5. \E f : Good(f, n)
  <2> HIDE DEF Good
  <2> QED BY <1>3 DEF G
<1> HIDE DEF Good
<1> QED BY <1>4, <1>5

------------------------------------------------------------------------------
(* The sums of MapThenSumSet: f[T] is the sum of h over T, for every part T   *)
(* of a finite set, taken in the order in which CHOOSE finds the elements.    *)
Found(T) == CHOOSE x \in T : TRUE
IsSum(f, h, S) ==
  f = [T \in SUBSET S |-> IF T = {} THEN 0 ELSE h[Found(T)] + f[T \ {Found(T)}]]

LEMMA FoundIn == \A T : T # {} => Found(T) \in T
BY Zenon DEF Found

LEMMA PartsFinite ==
  ASSUME NEW S, IsFiniteSet(S)
  PROVE  \A T \in SUBSET S : IsFiniteSet(T) /\ Cardinality(T) \in Nat
<1> SUFFICES ASSUME NEW T \in SUBSET S PROVE IsFiniteSet(T) /\ Cardinality(T) \in Nat
  OBVIOUS
<1>1. IsFiniteSet(T)
  BY FS_Subset
<1> QED BY <1>1, FS_CardinalityType

LEMMA SmallerWithout ==
  ASSUME NEW T, IsFiniteSet(T), NEW x \in T
  PROVE  Cardinality(T \ {x}) = Cardinality(T) - 1 /\ Cardinality(T) > 0
<1>1. Cardinality(T \ {x}) = Cardinality(T) - 1 /\ IsFiniteSet(T \ {x})
  BY FS_RemoveElement
<1>2. Cardinality(T \ {x}) \in Nat /\ Cardinality(T) \in Nat
  BY <1>1, FS_CardinalityType
<1> QED BY <1>1, <1>2

LEMMA SumExists ==
  ASSUME NEW S, IsFiniteSet(S), NEW h \in [S -> Int]
  PROVE  \E f : IsSum(f, h, S)
<1> DEFINE F == [SUBSET S -> Int]
           Step(f) == [T \in SUBSET S |-> IF T = {} THEN 0 ELSE h[Found(T)] + f[T \ {Found(T)}]]
           step == [p \in F \X Nat |-> Step(p[1])]
           base == [T \in SUBSET S |-> 0]
           n == Cardinality(S) + 1
<1>1. \A f \in F : Step(f) \in F
  <2> SUFFICES ASSUME NEW f \in F, NEW T \in SUBSET S, T # {}
               PROVE  h[Found(T)] + f[T \ {Found(T)}] \in Int
    OBVIOUS
  <2>1. Found(T) \in S /\ T \ {Found(T)} \in SUBSET S
    BY FoundIn
  <2> QED BY <2>1
<1>2. base \in F /\ Steps(step, F)
  <2>1. base \in F
    OBVIOUS
  <2>2. \A p \in F \X Nat : p[1] \in F
    <3> HIDE DEF F
    <3> QED OBVIOUS
  <2>3. step \in [F \X Nat -> F]
    <3> HIDE DEF F, Step
    <3> QED BY <1>1, <2>2
  <2> HIDE DEF step
  <2> QED BY <2>1, <2>3 DEF Steps
<1>3. n \in Nat
  BY FS_CardinalityType
<1>4. PICK g : Unfolds(g, F, base, step, n)
  <2> HIDE DEF F, Step, base, step, n
  <2> QED BY <1>2, <1>3, RecursionExists
<1>5. \A i \in 1 .. n : g[i] = Step(g[i - 1])
  <2> SUFFICES ASSUME NEW i \in 1 .. n PROVE g[i] = Step(g[i - 1])
    OBVIOUS
  <2> HIDE DEF F, Step, n
  <2>1. <<g[i - 1], i>> \in F \X Nat
    BY <1>3, <1>4 DEF Unfolds
  <2>2. step[<<g[i - 1], i>>] = Step(g[i - 1])
    BY <2>1
  <2> QED BY <2>2, <1>4 DEF Unfolds
\* The k-th function has the sums of all sets of fewer than k elements.
<1> DEFINE Stable == {k \in 0 .. n : k < n =>
                        \A T \in SUBSET S : Cardinality(T) < k => g[k + 1][T] = g[k][T]}
<1>6. 0 .. n \subseteq Stable
  <2>1. 0 \in Stable
    <3>1. \A T \in SUBSET S : ~(Cardinality(T) < 0)
      BY PartsFinite
    <3> QED BY <3>1, <1>3
  <2>2. ASSUME NEW i \in 1 .. n, i - 1 \in Stable PROVE i \in Stable
    <3> SUFFICES ASSUME i < n, NEW T \in SUBSET S, Cardinality(T) < i
                 PROVE  g[i + 1][T] = g[i][T]
      BY <1>3
    <3>1. g[i + 1] = Step(g[i]) /\ g[i] = Step(g[i - 1])
      <4>1. i + 1 \in 1 .. n /\ (i + 1) - 1 = i
        BY <1>3
      <4> HIDE DEF Step
      <4> QED BY <4>1, <1>5
    <3>2. CASE T = {}
      BY <3>1, <3>2
    <3>3. CASE T # {}
      <4> DEFINE U == T \ {Found(T)}
      <4>1. Cardinality(U) < i - 1 /\ U \in SUBSET S
        <5>1. IsFiniteSet(T) /\ Cardinality(T) \in Nat
          BY PartsFinite
        <5>2. Cardinality(U) = Cardinality(T) - 1
          BY <5>1, <3>3, FoundIn, SmallerWithout
        <5> QED BY <5>1, <5>2
      <4>2. g[i][U] = g[i - 1][U]
        <5>1. (i - 1) + 1 = i /\ i - 1 < n
          BY <1>3
        <5> QED BY <2>2, <5>1, <4>1
      <4>3. g[i + 1][T] = h[Found(T)] + g[i][U] /\ g[i][T] = h[Found(T)] + g[i - 1][U]
        BY <3>1, <3>3
      <4> QED BY <4>2, <4>3
    <3> QED BY <3>2, <3>3
  <2> HIDE DEF Stable
  <2> QED BY <2>1, <2>2, <1>3, InductUpTo
<1> DEFINE f == g[n]
<1>7. \A T \in SUBSET S : T # {} => f[T \ {Found(T)}] = g[n - 1][T \ {Found(T)}]
  <2> SUFFICES ASSUME NEW T \in SUBSET S, T # {}
               PROVE  f[T \ {Found(T)}] = g[n - 1][T \ {Found(T)}]
    OBVIOUS
  <2> DEFINE U == T \ {Found(T)}
  <2>1. Cardinality(T) <= Cardinality(S) /\ IsFiniteSet(T) /\ Cardinality(T) \in Nat
    BY FS_Subset, PartsFinite
  <2>2. Cardinality(U) = Cardinality(T) - 1
    BY <2>1, FoundIn, SmallerWithout
  <2>3. Cardinality(U) < n - 1 /\ n - 1 \in 0 .. n /\ n - 1 < n /\ U \in SUBSET S /\ (n - 1) + 1 = n
    BY <2>1, <2>2, FS_CardinalityType
  <2>4. n - 1 \in Stable
    BY <1>6, <2>3
  <2> QED BY <2>3, <2>4
<1>8. f = Step(f)
  <2>1. f = Step(g[n - 1])
    <3>1. n \in 1 .. n
      BY FS_CardinalityType
    <3> HIDE DEF Step
    <3> QED BY <3>1, <1>5
  <2>2. Step(g[n - 1]) = Step(f)
    BY <1>7
  <2> QED BY <2>1, <2>2
<1>9. IsSum(f, h, S)
  BY <1>8 DEF IsSum
<1> QED BY <1>9

\* The sum of the parts is a whole number.
LEMMA SumType ==
  ASSUME NEW S, IsFiniteSet(S), NEW h \in [S -> Int], NEW f, IsSum(f, h, S)
  PROVE  f \in [SUBSET S -> Int]
<1> DEFINE D == {T \in SUBSET S : f[T] \notin Int}
<1>1. SUFFICES ASSUME D # {} PROVE FALSE
  BY DEF IsSum
<1>2. D \subseteq FiniteSubsetsOf(S)
  BY PartsFinite DEF FiniteSubsetsOf
<1>3. PICK T \in D : \A U \in D : U \subseteq T => U = T
  <2> HIDE DEF D
  <2> QED BY <1>1, <1>2, SmallestSet
<1>4. T # {}
  BY <1>3 DEF IsSum
<1>5. f[T] = h[Found(T)] + f[T \ {Found(T)}]
  BY <1>4 DEF IsSum
<1>6. T \ {Found(T)} \notin D /\ T \ {Found(T)} \in SUBSET S /\ Found(T) \in S
  BY <1>3, <1>4, FoundIn
<1> QED BY <1>5, <1>6

\* The sum of natural numbers is one.
LEMMA SumNatural ==
  ASSUME NEW S, IsFiniteSet(S), NEW h \in [S -> Nat], NEW f, IsSum(f, h, S)
  PROVE  \A T \in SUBSET S : f[T] \in Nat
<1> DEFINE D == {T \in SUBSET S : f[T] \notin Nat}
<1>1. SUFFICES ASSUME D # {} PROVE FALSE
  OBVIOUS
<1>2. D \subseteq FiniteSubsetsOf(S)
  BY PartsFinite DEF FiniteSubsetsOf
<1>3. PICK T \in D : \A U \in D : U \subseteq T => U = T
  <2> HIDE DEF D
  <2> QED BY <1>1, <1>2, SmallestSet
<1>4. T # {}
  BY <1>3 DEF IsSum
<1>5. f[T] = h[Found(T)] + f[T \ {Found(T)}]
  BY <1>4 DEF IsSum
<1>6. T \ {Found(T)} \notin D /\ T \ {Found(T)} \in SUBSET S /\ Found(T) \in S
  BY <1>3, <1>4, FoundIn
<1> QED BY <1>5, <1>6

\* The order of the terms does not matter.
Adds(f, h, T, x) == f[T \cup {x}] = f[T] + h[x]
LEMMA SumWith ==
  ASSUME NEW S, IsFiniteSet(S), NEW h \in [S -> Int], NEW f, IsSum(f, h, S)
  PROVE  \A T \in SUBSET S : \A x \in S \ T : Adds(f, h, T, x)
<1> DEFINE D == {U \in SUBSET S : \E y \in S \ U : f[U \cup {y}] # f[U] + h[y]}
<1>1. SUFFICES ASSUME D # {} PROVE FALSE
  BY DEF Adds
<1>2. D \subseteq FiniteSubsetsOf(S)
  BY PartsFinite DEF FiniteSubsetsOf
<1>3. PICK U \in D : \A V \in D : V \subseteq U => V = U
  <2> HIDE DEF D
  <2> QED BY <1>1, <1>2, SmallestSet
<1>4. PICK y \in S \ U : f[U \cup {y}] # f[U] + h[y]
  BY <1>3
<1> DEFINE W == U \cup {y}
           c == Found(W)
<1>9. f[W] # f[U] + h[y]
  BY <1>4
<1>5. f[W] = h[c] + f[W \ {c}] /\ c \in W
  BY FoundIn DEF IsSum
<1>6. f \in [SUBSET S -> Int]
  BY SumType
<1> HIDE DEF c
<1>7. CASE c = y
  <2>1. W \ {c} = U
    BY <1>7
  <2>2. f[U] \in Int /\ h[y] \in Int
    BY <1>6
  <2>3. f[W] = h[y] + f[U]
    BY <1>5, <1>7, <2>1
  <2> HIDE DEF W
  <2> QED BY <1>9, <2>2, <2>3
<1>8. CASE c # y
  <2> DEFINE V == U \ {c}
  <2>1. V \in SUBSET S /\ V \subseteq U /\ V # U /\ c \in S \ V /\ y \in S \ V
    BY <1>5, <1>8
  <2>2. V \notin D
    BY <2>1, <1>3
  <2>3. f[V \cup {y}] = f[V] + h[y] /\ f[V \cup {c}] = f[V] + h[c]
    BY <2>1, <2>2
  <2>4. V \cup {y} = W \ {c} /\ V \cup {c} = U
    BY <1>5, <1>8
  <2>5. f[V] \in Int /\ h[y] \in Int /\ h[c] \in Int
    BY <1>6, <2>1
  <2>6. f[W] = h[c] + (f[V] + h[y]) /\ f[U] = f[V] + h[c]
    BY <1>5, <2>3, <2>4
  <2> HIDE DEF W, V
  <2> QED BY <1>9, <2>5, <2>6
<1> QED BY <1>7, <1>8

\* Equal terms have equal sums.
LEMMA SumSame ==
  ASSUME NEW S, IsFiniteSet(S), NEW h \in [S -> Int], NEW f, IsSum(f, h, S),
         NEW R, NEW k \in [R -> Int], NEW g, IsSum(g, k, R),
         NEW T \in SUBSET S, T \in SUBSET R, \A x \in T : h[x] = k[x]
  PROVE  f[T] = g[T]
<1> DEFINE D == {U \in SUBSET S : U \subseteq T /\ f[U] # g[U]}
<1>1. SUFFICES ASSUME D # {} PROVE FALSE
  BY DEF Adds
<1>2. D \subseteq FiniteSubsetsOf(S)
  BY PartsFinite DEF FiniteSubsetsOf
<1>3. PICK U \in D : \A V \in D : V \subseteq U => V = U
  <2> HIDE DEF D
  <2> QED BY <1>1, <1>2, SmallestSet
<1>4. U # {}
  BY <1>3 DEF IsSum
<1> DEFINE c == Found(U)
           V == U \ {c}
<1>5. f[U] = h[c] + f[V] /\ g[U] = k[c] + g[V] /\ c \in U
  BY <1>4, FoundIn DEF IsSum
<1>6. V \notin D /\ V \subseteq T
  BY <1>5, <1>3
<1> QED BY <1>5, <1>6, <1>3
=============================================================================
