------------------------------ MODULE FileProofs -----------------------------
(* Proofs about the file the decoder writes: every lane of it is balanced,    *)
(* whatever the program and its capture. The slices are followed from the     *)
(* stacks that emit them, through the parting into threads, the renumbering   *)
(* and the time base, to the lanes of the file.                               *)
EXTENDS DecodeToolProofs

------------------------------------------------------------------------------
(* The depth of lanes along a list of slices.                                 *)

\* What a slice does to the depth of the lanes T, each a track and a thread.
Step(s, T) == IF <<s.track, s.thread>> \in T THEN IF s.begin THEN 1 ELSE -1 ELSE 0
(* The depth of the lanes T along the slices s is d: from a to b, and never   *)
(* negative if that is asked for.                                             *)
DepthOn(d, s, T, a, b, sound) ==
  /\ d \in [0 .. Len(s) -> Int] /\ d[0] = a /\ d[Len(s)] = b
  /\ \A k \in 1 .. Len(s) : d[k] = d[k - 1] + Step(s[k], T)
  /\ sound => \A k \in 0 .. Len(s) : d[k] >= 0
Goes(s, T, a, b, sound) == \E d : DepthOn(d, s, T, a, b, sound)

\* Without a slice nothing changes.
LEMMA GoesNowhere ==
  ASSUME NEW T, NEW a \in Int, NEW sound, sound => a >= 0
  PROVE  Goes(<<>>, T, a, a, sound)
<1>1. PICK d : d = [k \in 0 .. 0 |-> a]
  OBVIOUS
<1>2. Len(<<>>) = 0
  OBVIOUS
<1>3. DepthOn(d, <<>>, T, a, a, sound)
  BY <1>1, <1>2 DEF DepthOn
<1> QED BY <1>3 DEF Goes

\* One list of slices after another.
LEMMA GoesFurther ==
  ASSUME NEW S, NEW s \in Seq(S), NEW t \in Seq(S), NEW T, NEW a, NEW b, NEW c, NEW sound,
         Goes(s, T, a, b, sound), Goes(t, T, b, c, sound)
  PROVE  Goes(s \o t, T, a, c, sound)
<1>1. PICK d1 : DepthOn(d1, s, T, a, b, sound)
  BY DEF Goes
<1>2. PICK d2 : DepthOn(d2, t, T, b, c, sound)
  BY DEF Goes
<1>3. PICK m \in Nat, n \in Nat : m = Len(s) /\ n = Len(t)
  OBVIOUS
<1>4. PICK u : u = s \o t
  OBVIOUS
<1>5. /\ Len(u) = m + n
      /\ \A k \in 1 .. m : u[k] = s[k]
      /\ \A k \in m + 1 .. m + n : u[k] = t[k - m]
  BY <1>3, <1>4
<1>6. PICK d : d = [k \in 0 .. m + n |-> IF k <= m THEN d1[k] ELSE d2[k - m]]
  OBVIOUS
<1>7. /\ d1 \in [0 .. m -> Int] /\ d1[0] = a /\ d1[m] = b
      /\ \A k \in 1 .. m : d1[k] = d1[k - 1] + Step(s[k], T)
      /\ sound => \A k \in 0 .. m : d1[k] >= 0
  BY <1>1, <1>3 DEF DepthOn
<1>8. /\ d2 \in [0 .. n -> Int] /\ d2[0] = b /\ d2[n] = c
      /\ \A k \in 1 .. n : d2[k] = d2[k - 1] + Step(t[k], T)
      /\ sound => \A k \in 0 .. n : d2[k] >= 0
  BY <1>2, <1>3 DEF DepthOn
<1>9. d \in [0 .. m + n -> Int] /\ d[0] = a
  BY ONLY <1>3, <1>6, <1>7, <1>8
<1>10. d[m + n] = c
  BY ONLY <1>3, <1>6, <1>7, <1>8
<1>11. ASSUME NEW k \in 1 .. m + n PROVE d[k] = d[k - 1] + Step(u[k], T)
  <2>1. CASE k <= m
    <3>1. k \in 1 .. m
      BY <2>1, <1>3
    <3>2. d[k] = d1[k] /\ d[k - 1] = d1[k - 1] /\ u[k] = s[k]
      BY ONLY <1>3, <1>5, <1>6, <3>1
    <3> QED BY <1>7, <3>1, <3>2
  <2>2. CASE k > m
    <3>0. k - m \in 1 .. n
      BY ONLY <2>2, <1>3, k \in 1 .. m + n
    <3>1. PICK j \in 1 .. n : j = k - m
      BY <3>0
    <3>2. k \in m + 1 .. m + n /\ ~(k <= m) /\ k \in 0 .. m + n
      BY <2>2, <1>3
    <3>3. d[k] = d2[j]
      <4>1. d[k] = d2[k - m]
        BY <1>6, <3>2, Zenon
      <4> QED BY <3>1, <4>1
    <3>4. u[k] = t[j]
      <4>1. u[k] = t[k - m]
        BY <1>5, <3>2
      <4> QED BY <3>1, <4>1
    <3>5. d[k - 1] = d2[j - 1]
      <4>1. CASE k - 1 = m
        BY ONLY <1>3, <1>6, <1>7, <1>8, <3>1, <2>2, <4>1
      <4>2. CASE k - 1 > m
        BY ONLY <1>3, <1>6, <2>2, <3>1, <4>2
      <4> QED BY <1>3, <2>2, <4>1, <4>2
    <3>6. d2[j] = d2[j - 1] + Step(t[j], T)
      BY <1>8
    <3> QED BY ONLY <3>3, <3>4, <3>5, <3>6
  <2> QED BY <1>3, <2>1, <2>2
<1>12. sound => \A k \in 0 .. m + n : d[k] >= 0
  <2> SUFFICES ASSUME sound, NEW k \in 0 .. m + n PROVE d[k] >= 0
    OBVIOUS
  <2>1. CASE k <= m
    <3>1. k \in 0 .. m
      BY <2>1, <1>3
    <3> QED BY <1>6, <1>7, <2>1, <3>1
  <2>2. CASE k > m
    <3>1. k - m \in 0 .. n /\ ~(k <= m)
      BY <2>2, <1>3
    <3> QED BY <1>6, <1>8, <3>1
  <2> QED BY <1>3, <2>1, <2>2
<1>13. DepthOn(d, u, T, a, c, sound)
  BY <1>5, <1>9, <1>10, <1>11, <1>12 DEF DepthOn
<1> QED BY <1>4, <1>13 DEF Goes

\* Slices that do the same to the lanes, whatever those are called, go the same way.
LEMMA GoesSame ==
  ASSUME NEW s, NEW t, NEW n \in Nat, Len(s) = n, Len(t) = n, NEW T, NEW U, NEW a, NEW b,
         NEW sound, NEW weaker, weaker => sound,
         \A k \in 1 .. n : Step(t[k], U) = Step(s[k], T),
         Goes(s, T, a, b, sound)
  PROVE  Goes(t, U, a, b, weaker)
<1>1. PICK d : DepthOn(d, s, T, a, b, sound)
  BY DEF Goes
<1>2. DepthOn(d, t, U, a, b, weaker)
  BY <1>1 DEF DepthOn
<1> QED BY <1>2 DEF Goes

\* Slices of other lanes.
LEMMA GoesElsewhere ==
  ASSUME NEW s, NEW n \in Nat, Len(s) = n, NEW T, NEW a \in Int, NEW sound, sound => a >= 0,
         \A k \in 1 .. n : Step(s[k], T) = 0
  PROVE  Goes(s, T, a, a, sound)
<1>1. PICK d : d = [k \in 0 .. n |-> a]
  OBVIOUS
<1>2. DepthOn(d, s, T, a, a, sound)
  BY <1>1 DEF DepthOn
<1> QED BY <1>2 DEF Goes

\* The slices of one frame after the other, of one lane.
Batch(s, n, begin, tag) ==
  /\ Len(s) = n
  /\ \A k \in 1 .. n : s[k].begin = begin /\ <<s[k].track, s[k].thread>> = tag
(* n ends of a lane take it down by n.                                        *)
LEMMA GoesDown ==
  ASSUME NEW s, NEW n \in Nat, NEW tag, Batch(s, n, FALSE, tag), NEW T, NEW a \in Int, NEW b \in Int,
         b = IF tag \in T THEN a - n ELSE a,
         NEW sound, sound => a >= 0 /\ b >= 0
  PROVE  Goes(s, T, a, b, sound)
<1>1. CASE tag \in T
  <2>1. PICK d : d = [k \in 0 .. n |-> a - k]
    OBVIOUS
  <2>2. \A k \in 1 .. n : Step(s[k], T) = -1
    BY <1>1 DEF Step, Batch
  <2>3. b = a - n /\ Len(s) = n
    BY <1>1 DEF Batch
  <2>4. DepthOn(d, s, T, a, b, sound)
    BY <2>1, <2>2, <2>3 DEF DepthOn
  <2> QED BY <2>4 DEF Goes
<1>2. CASE tag \notin T
  <2>1. \A k \in 1 .. n : Step(s[k], T) = 0
    BY <1>2 DEF Step, Batch
  <2>2. Len(s) = n /\ b = a
    BY <1>2 DEF Batch
  <2> QED BY <2>1, <2>2, GoesElsewhere
<1> QED BY <1>1, <1>2
(* n begins of a lane take it up by n.                                        *)
LEMMA GoesUp ==
  ASSUME NEW s, NEW n \in Nat, NEW tag, Batch(s, n, TRUE, tag), NEW T, NEW a \in Int, NEW b \in Int,
         b = IF tag \in T THEN a + n ELSE a,
         NEW sound, sound => a >= 0
  PROVE  Goes(s, T, a, b, sound)
<1>1. CASE tag \in T
  <2>1. PICK d : d = [k \in 0 .. n |-> a + k]
    OBVIOUS
  <2>2. \A k \in 1 .. n : Step(s[k], T) = 1
    BY <1>1 DEF Step, Batch
  <2>3. b = a + n /\ Len(s) = n
    BY <1>1 DEF Batch
  <2>4. DepthOn(d, s, T, a, b, sound)
    BY <2>1, <2>2, <2>3 DEF DepthOn
  <2> QED BY <2>4 DEF Goes
<1>2. CASE tag \notin T
  <2>1. \A k \in 1 .. n : Step(s[k], T) = 0
    BY <1>2 DEF Step, Batch
  <2>2. Len(s) = n /\ b = a
    BY <1>2 DEF Batch
  <2> QED BY <2>1, <2>2, GoesElsewhere
<1> QED BY <1>1, <1>2

\* The slices of several lists.
LEMMA GoesThrough ==
  ASSUME NEW S, NEW n \in Nat, NEW lists \in [1 .. n -> Seq(S)], NEW T, NEW v \in [0 .. n -> Int],
         NEW sound, sound => v[0] >= 0,
         \A i \in 1 .. n : Goes(lists[i], T, v[i - 1], v[i], sound)
  PROVE  Goes(FlattenSeq(lists), T, v[0], v[n], sound)
<1>1. PICK h : Beginnings(h, S, lists, n)
  BY BeginningsExist
<1>2. FlattenSeq(lists) = h[n]
  BY <1>1, FlattenSeqIs
<1>3. /\ h \in [0 .. n -> Seq(S)] /\ h[0] = <<>>
      /\ \A i \in 1 .. n : h[i] = h[i - 1] \o lists[i]
  BY <1>1 DEF Beginnings
<1> DEFINE G == {i \in 0 .. n : Goes(h[i], T, v[0], v[i], sound)}
<1>4. 0 \in G
  <2>1. Goes(<<>>, T, v[0], v[0], sound)
    <3>1. 0 \in 0 .. n
      OBVIOUS
    <3>2. v[0] \in Int
      BY <3>1
    <3> QED BY <3>2, GoesNowhere
  <2> QED BY <1>3, <2>1
<1>5. ASSUME NEW i \in 1 .. n, i - 1 \in G PROVE i \in G
  <2>1. PICK p, q : p = h[i - 1] /\ q = lists[i]
    OBVIOUS
  <2>2. i - 1 \in 0 .. n /\ i \in 0 .. n
    OBVIOUS
  <2>3. p \in Seq(S) /\ q \in Seq(S) /\ h[i] = p \o q
    BY <1>3, <2>1, <2>2
  <2>4. Goes(p, T, v[0], v[i - 1], sound) /\ Goes(q, T, v[i - 1], v[i], sound)
    BY <1>5, <2>1
  <2>5. Goes(p \o q, T, v[0], v[i], sound)
    BY ONLY <2>3, <2>4, GoesFurther
  <2> QED BY <2>2, <2>3, <2>5
<1>6. n \in G
  <2> HIDE DEF G
  <2>1. 0 .. n \subseteq G
    BY <1>4, <1>5, InductUpTo
  <2> QED BY <2>1
<1> QED BY <1>2, <1>6

\* The lanes of two sets that have none in common.
LEMMA GoesTogether ==
  ASSUME NEW s, NEW n \in Nat, Len(s) = n, NEW A, NEW B, A \cap B = {},
         NEW a \in Int, NEW b \in Int, NEW c \in Int, NEW e \in Int, NEW sound,
         Goes(s, A, a, b, sound), Goes(s, B, c, e, sound)
  PROVE  Goes(s, A \cup B, a + c, b + e, sound)
<1>1. PICK d1 : DepthOn(d1, s, A, a, b, sound)
  BY DEF Goes
<1>2. PICK d2 : DepthOn(d2, s, B, c, e, sound)
  BY DEF Goes
<1>3. PICK d : d = [k \in 0 .. n |-> d1[k] + d2[k]]
  OBVIOUS
<1>4. /\ d1 \in [0 .. n -> Int] /\ d1[0] = a /\ d1[n] = b
      /\ d2 \in [0 .. n -> Int] /\ d2[0] = c /\ d2[n] = e
  BY <1>1, <1>2 DEF DepthOn
<1>5. d \in [0 .. n -> Int] /\ d[0] = a + c /\ d[n] = b + e
  BY ONLY <1>3, <1>4
<1>6. ASSUME NEW k \in 1 .. n PROVE d[k] = d[k - 1] + Step(s[k], A \cup B)
  <2>1. k \in 0 .. n /\ k - 1 \in 0 .. n
    OBVIOUS
  <2>2. Step(s[k], A \cup B) = Step(s[k], A) + Step(s[k], B)
    BY DEF Step
  <2>3. d1[k] = d1[k - 1] + Step(s[k], A) /\ d2[k] = d2[k - 1] + Step(s[k], B)
    BY <1>1, <1>2 DEF DepthOn
  <2>4. Step(s[k], A) \in Int /\ Step(s[k], B) \in Int
    BY DEF Step
  <2>5. d1[k - 1] \in Int /\ d2[k - 1] \in Int /\ d[k] = d1[k] + d2[k]
        /\ d[k - 1] = d1[k - 1] + d2[k - 1]
    BY ONLY <1>3, <1>4, <2>1
  <2> QED BY ONLY <2>2, <2>3, <2>4, <2>5
<1>7. sound => \A k \in 0 .. n : d[k] >= 0
  <2> SUFFICES ASSUME sound, NEW k \in 0 .. n PROVE d[k] >= 0
    OBVIOUS
  <2>1. d1[k] >= 0 /\ d2[k] >= 0
    BY <1>1, <1>2 DEF DepthOn
  <2> QED BY <1>3, <1>4, <2>1
<1>8. DepthOn(d, s, A \cup B, a + c, b + e, sound)
  BY <1>5, <1>6, <1>7 DEF DepthOn
<1> QED BY <1>8 DEF Goes

\* What a depth counts: twice the slices that begin, less all of them.
DepthCounted(s, T, k) ==
  2 * Cardinality({i \in 1 .. k : <<s[i].track, s[i].thread>> \in T /\ s[i].begin})
    - Cardinality({i \in 1 .. k : <<s[i].track, s[i].thread>> \in T})

\* One more of a counted range.
LEMMA OneMore ==
  ASSUME NEW k \in Nat, NEW P \in SUBSET Nat
  PROVE  LET before == {i \in 1 .. k : i \in P}
             now == {i \in 1 .. k + 1 : i \in P}
         IN /\ Cardinality(before) \in Nat /\ Cardinality(now) \in Nat
            /\ Cardinality(now) = Cardinality(before) + (IF k + 1 \in P THEN 1 ELSE 0)
<1> DEFINE before == {i \in 1 .. k : i \in P}
           now == {i \in 1 .. k + 1 : i \in P}
<1>1. IsFiniteSet(1 .. k) /\ before \subseteq 1 .. k
  BY FS_Interval
<1>2. IsFiniteSet(before)
  BY <1>1, FS_Subset
<1>3. now = IF k + 1 \in P THEN before \cup {k + 1} ELSE before
  OBVIOUS
<1>4. k + 1 \notin before
  OBVIOUS
<1> HIDE DEF before, now
<1>5. Cardinality(before) \in Nat
  BY <1>2, FS_CardinalityType
<1>6. Cardinality(before \cup {k + 1}) = Cardinality(before) + 1
  BY <1>2, <1>4, FS_AddElement
<1> QED BY <1>3, <1>5, <1>6 DEF before, now

(* The depth, taken slice by slice, is the count of begins less that of       *)
(* ends.                                                                      *)
LEMMA DepthCounts ==
  ASSUME NEW s, NEW n \in Nat, Len(s) = n, NEW T, NEW b, NEW sound,
         NEW d, DepthOn(d, s, T, 0, b, sound)
  PROVE  \A k \in 0 .. n : d[k] = DepthCounted(s, T, k)
<1> DEFINE P == {i \in 1 .. n : <<s[i].track, s[i].thread>> \in T}
           Q == {i \in 1 .. n : <<s[i].track, s[i].thread>> \in T /\ s[i].begin}
           all(k) == Cardinality({i \in 1 .. k : i \in P})
           begun(k) == Cardinality({i \in 1 .. k : i \in Q})
           G == {k \in 0 .. n : d[k] = 2 * begun(k) - all(k)}
<1>1. /\ d \in [0 .. n -> Int] /\ d[0] = 0
      /\ \A k \in 1 .. n : d[k] = d[k - 1] + Step(s[k], T)
  BY DEF DepthOn
<1>2. all(0) = 0 /\ begun(0) = 0
  <2>1. {i \in 1 .. 0 : i \in P} = {} /\ {i \in 1 .. 0 : i \in Q} = {}
    OBVIOUS
  <2> QED BY <2>1, FS_EmptySet
<1>3. P \in SUBSET Nat /\ Q \in SUBSET Nat
  OBVIOUS
<1>4. ASSUME NEW k \in 1 .. n
      PROVE  /\ all(k - 1) \in Nat /\ begun(k - 1) \in Nat
             /\ all(k) = all(k - 1) + (IF k \in P THEN 1 ELSE 0)
             /\ begun(k) = begun(k - 1) + (IF k \in Q THEN 1 ELSE 0)
  <2>1. PICK j \in Nat : j = k - 1 /\ k = j + 1
    OBVIOUS
  <2> HIDE DEF P, Q
  <2>2. /\ all(j) \in Nat /\ all(j + 1) = all(j) + (IF j + 1 \in P THEN 1 ELSE 0)
        /\ begun(j) \in Nat /\ begun(j + 1) = begun(j) + (IF j + 1 \in Q THEN 1 ELSE 0)
    <3>1. PICK p, r : p = P /\ r = Q
      OBVIOUS
    <3>2. p \in SUBSET Nat /\ r \in SUBSET Nat
      BY <1>3, <3>1
    <3>3. /\ Cardinality({i \in 1 .. j : i \in p}) \in Nat
          /\ Cardinality({i \in 1 .. j + 1 : i \in p})
               = Cardinality({i \in 1 .. j : i \in p}) + (IF j + 1 \in p THEN 1 ELSE 0)
      BY ONLY <2>1, <3>2, OneMore
    <3>4. /\ Cardinality({i \in 1 .. j : i \in r}) \in Nat
          /\ Cardinality({i \in 1 .. j + 1 : i \in r})
               = Cardinality({i \in 1 .. j : i \in r}) + (IF j + 1 \in r THEN 1 ELSE 0)
      BY ONLY <2>1, <3>2, OneMore
    <3> QED BY <3>1, <3>3, <3>4, Zenon
  <2> HIDE DEF all, begun
  <2> QED BY <2>1, <2>2
<1>5. \A k \in 1 .. n : Step(s[k], T) = IF k \in Q THEN 1 ELSE IF k \in P THEN -1 ELSE 0
  BY DEF Step
<1>6. Q \subseteq P
  OBVIOUS
<1>7. 0 \in G
  BY <1>1, <1>2
<1>8. ASSUME NEW k \in 1 .. n, k - 1 \in G PROVE k \in G
  <2> HIDE DEF P, Q, all, begun
  <2>1. d[k] = d[k - 1] + (IF k \in Q THEN 1 ELSE IF k \in P THEN -1 ELSE 0)
    <3>1. d[k] = d[k - 1] + Step(s[k], T)
      BY <1>1
    <3>2. Step(s[k], T) = IF k \in Q THEN 1 ELSE IF k \in P THEN -1 ELSE 0
      BY <1>5
    <3> QED BY <3>1, <3>2, Zenon
  <2>2. d[k - 1] = 2 * begun(k - 1) - all(k - 1)
    BY <1>8
  <2>3. d[k] = 2 * begun(k) - all(k)
    <3>1. CASE k \in Q
      <4>1. k \in P
        BY <1>6, <3>1
      <4> QED BY <1>4, <2>1, <2>2, <3>1, <4>1
    <3>2. CASE k \notin Q /\ k \in P
      BY <1>4, <2>1, <2>2, <3>2
    <3>3. CASE k \notin Q /\ k \notin P
      BY <1>4, <2>1, <2>2, <3>3
    <3> QED BY <3>1, <3>2, <3>3
  <2>4. k \in 0 .. n
    OBVIOUS
  <2> QED BY <2>3, <2>4
<1>9. 0 .. n \subseteq G
  <2> HIDE DEF G
  <2> QED BY <1>7, <1>8, InductUpTo
<1>10. ASSUME NEW k \in 0 .. n PROVE d[k] = DepthCounted(s, T, k)
  <2>1. d[k] = 2 * begun(k) - all(k)
    BY <1>9
  <2>2. /\ {i \in 1 .. k : i \in P} = {i \in 1 .. k : <<s[i].track, s[i].thread>> \in T}
        /\ {i \in 1 .. k : i \in Q} = {i \in 1 .. k : <<s[i].track, s[i].thread>> \in T /\ s[i].begin}
    OBVIOUS
  <2> QED BY <2>1, <2>2 DEF DepthCounted
<1> QED BY <1>10

------------------------------------------------------------------------------
(* The call-stack machine within the tool: its steps are those of CallStack,  *)
(* but for the elements that it only takes note of.                           *)
MachineInv == TypeOK /\ ThreadLaneAccounts /\ IsrLaneAccounts /\ BalancedAtFinish
Quiet == noted' = {} /\ UNCHANGED <<core, slices, edge, finished>>

(* A step of the machine keeps its invariant, and so does a step that         *)
(* leaves it alone.                                                           *)
LEMMA MachineKept == MachineInv /\ ([Next]_vars \/ Quiet) => MachineInv'
<1> SUFFICES ASSUME MachineInv, [Next]_vars \/ Quiet PROVE MachineInv'
  OBVIOUS
<1>1. TypeOK /\ ThreadLaneAccounts /\ IsrLaneAccounts /\ BalancedAtFinish
  BY DEF MachineInv
<1>2. CASE Quiet \/ UNCHANGED vars
  <2>1. /\ UNCHANGED <<core, slices, edge, finished>> /\ noted' \subseteq {"dropped", "recovered", "mismatched"}
    BY <1>1, <1>2 DEF Quiet, vars, TypeOK
  <2>2. /\ ctx' = ctx /\ curThread' = curThread /\ parked' = parked /\ gaps' = gaps
        /\ pending' = pending /\ afterBlind' = afterBlind /\ reexec' = reexec
        /\ open' = open /\ unbegun' = unbegun /\ edge' = edge /\ finished' = finished
    BY <2>1 DEF core, slices
  <2>3. TypeOK'
    BY <1>1, <2>1, <2>2 DEF TypeOK
  <2>4. ThreadLaneAccounts' /\ BalancedAtFinish'
    BY <1>1, <2>2 DEF ThreadLaneAccounts, StackOf, BalancedAtFinish
  <2>5. IsrLaneAccounts'
    <3> SUFFICES ASSUME NEW e \in Exceptions PROVE (open[e] = FramesOn(e))'
      BY DEF IsrLaneAccounts
    <3>1. open[e] = FramesIn(ctx, e)
      BY <1>1, FramesOnIsIn DEF IsrLaneAccounts
    <3> QED BY <2>2, <3>1, FramesOnIsInNext
  <2> QED BY <2>3, <2>4, <2>5 DEF MachineInv
<1>3. CASE Next
  <2>1. TypeOK'
    BY <1>1, <1>3, InstrRangeTypes, ExceptionTypes, ExceptionRetTypes, DiscontinuityTypes,
       SwitchThreadTypes, FinishTypes DEF Next
  <2>2. ThreadLaneAccounts'
    BY <1>1, <1>3, InstrRangeAccounts, OtherCallsAccount, SwitchThreadAccounts, FinishAccounts
       DEF Next
  <2>3. IsrLaneAccounts'
    <3> SUFFICES ASSUME NEW e \in Exceptions PROVE (open[e] = FramesOn(e))'
      BY DEF IsrLaneAccounts
    <3>1. CASE UnmatchedExceptionRet \/ Discontinuity
      <4>1. ctx' = ctx /\ open' = open
        BY <3>1 DEF UnmatchedExceptionRet, Discontinuity, slices
      <4>2. open[e] = FramesIn(ctx, e)
        BY <1>1, FramesOnIsIn DEF IsrLaneAccounts
      <4> QED BY <4>1, <4>2, FramesOnIsInNext
    <3> QED BY <1>1, <1>3, <2>1, <3>1, InstrRangeAccountsIsrs, ExceptionAccountsIsrs,
               LeaveContextAccountsIsrs, SwitchThreadAccountsIsrs, FinishAccountsIsrs
            DEF Next, ExceptionRet
  <2>4. BalancedAtFinish'
    <3>1. CASE Finish
      BY <1>1, <2>1, <3>1, FinishAccounts, FinishAccountsIsrs DEF BalancedAtFinish, Lanes
    <3>2. CASE ~Finish
      <4>1. finished' = finished /\ ~finished
        BY <1>3, <3>2 DEF Next, InstrRange, Exception, ExceptionRet, LeaveContext,
                    UnmatchedExceptionRet, Discontinuity, SwitchThread
      <4> QED BY <4>1 DEF BalancedAtFinish
    <3> QED BY <3>1, <3>2
  <2> QED BY <2>1, <2>2, <2>3, <2>4 DEF MachineInv
<1> QED BY <1>2, <1>3

(* It holds at the start.                                                     *)
LEMMA MachineBegins == Init => MachineInv
<1> SUFFICES ASSUME Init PROVE MachineInv
  OBVIOUS
<1>1. TypeOK
  BY InitTypes
<1>2. ASSUME NEW t \in Threads \cup {Boot} PROVE open[t] = Len(StackOf(t)) - 1
  <2>1. StackOf(t) = FreshStack
    BY DEF Init, StackOf
  <2>2. open[t] = 0
    BY DEF Init, Lanes
  <2>3. Len(FreshStack) - 1 = 0
    BY DEF FreshStack
  <2> QED BY <2>1, <2>2, <2>3
<1>3. ASSUME NEW e \in Exceptions PROVE open[e] = FramesOn(e)
  <2>1. Stacked(ctx) /\ Len(ctx) = 1 /\ open[e] = 0
    BY DEF Init, Stacked, FreshStack, Lanes
  <2> QED BY <2>1, FramesNone, FramesOnIsIn
<1>4. BalancedAtFinish
  BY DEF Init, BalancedAtFinish
<1> QED BY <1>1, <1>2, <1>3, <1>4 DEF MachineInv, ThreadLaneAccounts, IsrLaneAccounts

------------------------------------------------------------------------------
(* What the sink is given.                                                    *)

\* The element in the sink is the last one seen, and one that the machine knows.
Fed ==
  element # None =>
    /\ seen # <<>> /\ element = seen[Len(seen)]
    /\ element.kind = "InstrRange" => element.range \in Ranges
    /\ element.kind = "Exception" => element.number \in Exceptions
    /\ element.kind = "Timestamp" => element.number = Len(seen)
\* The clocks of the slices are behind those of the elements.
ClocksBehind ==
  /\ stamp <= Len(seen)
  /\ seen = <<>> => lastByte = 0
  /\ seen # <<>> => lastByte <= LastSeen
FeedInv == Fed /\ ClocksBehind

\* The threads that are switched in are the machine's.
LEMMA RunsAreOfThreads ==
  ASSUME Inputs, capture \in Captures, NEW k \in 1 .. Len(runs)
  PROVE  runs[k].tid \in Threads
<1>1. PICK at, q, news, r : MadeOf(runs, at, q, news, r)
  BY SwitchesMakeRuns DEF Inputs
<1>2. k \in 1 .. r
  BY <1>1 DEF MadeOf
<1>3. news[k] \in 1 .. q
  BY <1>1, <1>2 DEF MadeOf, Enumerates, Changes
<1> DEFINE i == at[news[k]]
<1>4. i \in SwitchItems /\ capture[i].comparator = WatchComp
  BY <1>1, <1>3 DEF MadeOf, Enumerates, Watched
<1>5. runs[k].tid = TidOf[ValueOf(i)]
  BY <1>1, <1>2 DEF MadeOf
<1> HIDE DEF i
<1>6. i \in DOMAIN capture /\ capture[i] # Etm
  BY <1>4 DEF SwitchItems, EtmItems
<1>7. TidOf[Word(<<capture[i].tcb>>)] \in Threads
  BY <1>4, <1>6, PointersAssumption
<1> QED BY <1>5, <1>7 DEF ValueOf

\* What the adapter makes of an element of the library is known to the machine.
LEMMA AdaptedKnown ==
  ASSUME NEW g \in Generated, NEW n \in Nat, NEW b, NEW e,
         e = Adapted(IF g.type = "TIMESTAMP" THEN [g EXCEPT !.number = n] ELSE g, b)
  PROVE  /\ e.kind = "InstrRange" => e.range \in Ranges
         /\ e.kind = "Exception" => e.number \in Exceptions
         /\ e.kind = "Timestamp" => e.number = n
<1>1. "type" \in DOMAIN g /\ "number" \in DOMAIN g
  BY GeneratedAssumption
<1>2. CASE g.type = "TIMESTAMP"
  <2>1. PICK h : h = [g EXCEPT !.number = n]
    OBVIOUS
  <2>2. h.type = "TIMESTAMP" /\ h.number = n
    BY <1>1, <1>2, <2>1
  <2>3. e = Adapted(h, b)
    BY <1>2, <2>1
  <2>4. e.kind = KindOf(h.type) /\ e.number = n
    BY <2>2, <2>3 DEF Adapted
  <2>5. e.kind = "Timestamp"
    BY <2>2, <2>4 DEF KindOf
  <2> QED BY <2>4, <2>5
<1>3. CASE g.type # "TIMESTAMP"
  <2>1. e = Adapted(g, b)
    BY <1>3
  <2>2. e.kind = KindOf(g.type) /\ e.number = g.number
    BY <2>1 DEF Adapted
  <2>3. e.range = Adapted(g, 0).range
    BY <2>1 DEF Adapted
  <2>4. /\ KindOf(g.type) = "InstrRange" => g.type = "INSTR_RANGE"
        /\ KindOf(g.type) = "Exception" => g.type = "EXCEPTION"
        /\ KindOf(g.type) = "Timestamp" => g.type = "TIMESTAMP"
    BY DEF KindOf
  <2> QED BY <1>3, <2>2, <2>3, <2>4, ElementsAssumption
<1> QED BY <1>2, <1>3

(* What was fed to the machine stays in the order of the bytes.               *)
LEMMA FeedKept == CoverageInv /\ ScheduleInv /\ FeedInv /\ [ToolNext]_<<vars, toolVars>> => FeedInv'
<1> SUFFICES ASSUME CoverageInv, ScheduleInv, FeedInv, [ToolNext]_<<vars, toolVars>> PROVE FeedInv'
  OBVIOUS
<1>1. PICK m \in Nat : m = Len(seen) /\ DOMAIN seen = 1 .. m
  BY DEF CoverageInv, ReportTypes
<1>2. lastByte \in Nat /\ stamp \in Nat
  BY SizesAre DEF ScheduleInv, ClockTypes
<1>3. ASSUME NEW g \in Generated, NEW byte \in 0 .. EtmSize, Generate(g, byte) PROVE FeedInv'
  <2>1. /\ seen' = Append(seen, element') /\ seen \in Seq(Elements) /\ byte \in Nat
        /\ (seen # <<>> => byte >= LastSeen) /\ UNCHANGED clocks
    BY <1>3, SizesAre DEF Generate, CoverageInv, ReportTypes, LastSeen, ScheduleInv
  <2>2. /\ Len(seen') = m + 1 /\ seen' # <<>> /\ seen'[m + 1] = element'
    BY <1>1, <2>1
  <2>3. PICK n \in Nat : n = m + 1
    OBVIOUS
  <2>4. element' = Adapted(IF g.type = "TIMESTAMP" THEN [g EXCEPT !.number = n] ELSE g, byte)
    BY <1>1, <1>3, <2>3 DEF Generate
  <2>5. /\ element'.kind = "InstrRange" => element'.range \in Ranges
        /\ element'.kind = "Exception" => element'.number \in Exceptions
        /\ element'.kind = "Timestamp" => element'.number = n
    BY <2>4, AdaptedKnown
  <2>6. element'.byte = byte
    BY <2>4, AdaptedIs
  <2>7. Fed'
    BY <2>2, <2>3, <2>5 DEF Fed
  <2>8. LastSeen' = byte
    BY <2>2, <2>6 DEF LastSeen
  <2>9. lastByte' = lastByte /\ stamp' = stamp
    BY <2>1 DEF clocks
  <2>10. stamp' <= Len(seen')
    BY <1>1, <1>2, <2>2, <2>9 DEF FeedInv, ClocksBehind
  <2>11. lastByte' <= LastSeen'
    <3>1. CASE seen = <<>>
      BY <2>1, <2>8, <2>9, <3>1 DEF FeedInv, ClocksBehind
    <3>2. CASE seen # <<>>
      <4>1. LastSeen \in Nat
        <5>1. m \in DOMAIN seen
          BY <1>1, <2>1, <3>2
        <5> QED BY <1>1, <5>1, SizesAre DEF ScheduleInv, BytesSeen, LastSeen
      <4> QED BY <1>2, <2>1, <2>8, <2>9, <3>2, <4>1 DEF FeedInv, ClocksBehind
    <3> QED BY <3>1, <3>2
  <2> QED BY <2>2, <2>7, <2>10, <2>11 DEF FeedInv, ClocksBehind
<1>4. CASE Process
  <2>1. /\ seen' = seen /\ element' = None /\ element # None /\ lastByte' = element.byte
        /\ stamp' = IF element.kind = "Timestamp" THEN element.number ELSE stamp
    BY <1>4 DEF Process
  <2>2. seen # <<>> /\ lastByte' = LastSeen /\ LastSeen \in Nat
    BY <2>1, SizesAre DEF ScheduleInv, ElementKnown
  <2>3. stamp' <= Len(seen)
    BY <1>1, <2>1 DEF FeedInv, Fed, ClocksBehind
  <2>4. LastSeen' = LastSeen
    BY <2>1 DEF LastSeen
  <2> QED BY <2>1, <2>2, <2>3, <2>4 DEF FeedInv, Fed, ClocksBehind
<1>5. CASE SwitchIn \/ EndAll \/ UNCHANGED <<vars, toolVars>>
  <2>1. seen' = seen /\ element' = element /\ lastByte' = lastByte /\ stamp' = stamp
    BY <1>5 DEF SwitchIn, EndAll, toolVars, report, clocks
  <2>2. LastSeen' = LastSeen
    BY <2>1 DEF LastSeen
  <2> QED BY <2>1, <2>2 DEF FeedInv, Fed, ClocksBehind
<1> QED BY <1>3, <1>4, <1>5 DEF ToolNext

\* A step of the tool is one of the machine, or none, or one that counts nothing.
LEMMA ToolIsMachine ==
  ASSUME ScheduleInv, Fed, capture \in Captures, [ToolNext]_<<vars, toolVars>>
  PROVE  [Next]_vars \/ Quiet
<1>1. CASE \E g \in Generated, byte \in 0 .. EtmSize : Generate(g, byte)
  BY <1>1 DEF Generate
<1>2. CASE SwitchIn
  <2>1. runs[nextSwitch].tid \in Threads
    <3>1. nextSwitch \in 1 .. Len(runs)
      BY <1>2, SizesAre DEF SwitchIn, Due, ScheduleInv, SwitchedInTime
    <3> QED BY <3>1, RunsAreOfThreads DEF ScheduleInv
  <2> QED BY <1>2, <2>1 DEF SwitchIn, Next
<1>3. CASE Process
  BY <1>3 DEF Process, Processed, Fed, Next, Quiet
<1>4. CASE EndAll
  BY <1>4 DEF EndAll, Next
<1> QED BY <1>1, <1>2, <1>3, <1>4 DEF ToolNext, toolVars

------------------------------------------------------------------------------
(* The slices that the tool writes, with the lanes they are of.               *)

Slices == [byte : Nat, begin : BOOLEAN, track : Nat, thread : Lanes \cup {Untagged},
           cycle : Nat, ts : Nat, tick : Nat]
\* The track and the thread of a slice of a lane of the call-stack machine.
TagOf(l) == IF l \in Exceptions THEN <<IsrTrack[l], Untagged>> ELSE <<0, l>>
\* The lanes that have a slice, or may have one: what ran before the first
\* switch, the threads that are switched in, the exceptions of the trace.
Entered == {seen[k].number : k \in {j \in DOMAIN seen : seen[j].kind = "Exception"}}
Known == {Boot} \cup TidsOf(runs) \cup (Entered \cap Exceptions)
\* The slices of those lanes that have this byte, these cycles and this time stamp.
Fresh(byte, cycle, ts, L) ==
  {x \in Slices : /\ x.byte = byte /\ x.cycle = cycle /\ x.ts = ts
                  /\ \E l \in L : <<x.track, x.thread>> = TagOf(l)}

\* A slice of one lane is of no other.
LEMMA TagsDiffer ==
  ASSUME NEW k \in Lanes, NEW l \in Lanes, TagOf(k) = TagOf(l)
  PROVE  k = l
<1>1. /\ k \in Exceptions => IsrTrack[k] \in 1 .. 999
      /\ l \in Exceptions => IsrTrack[l] \in 1 .. 999
  BY TracksAssumption DEF ThreadsTrack
<1>2. CASE k \in Exceptions /\ l \in Exceptions
  <2>1. <<IsrTrack[k], Untagged>> = <<IsrTrack[l], Untagged>>
    BY <1>2 DEF TagOf
  <2>2. IsrTrack[k] = IsrTrack[l]
    BY ONLY <2>1
  <2> QED BY <1>2, <2>2, TracksAssumption
<1>3. CASE k \notin Exceptions /\ l \notin Exceptions
  <2>1. <<0, k>> = <<0, l>>
    BY <1>3 DEF TagOf
  <2> QED BY ONLY <2>1
<1>4. CASE k \in Exceptions /\ l \notin Exceptions
  <2>1. <<IsrTrack[k], Untagged>> = <<0, l>>
    BY <1>4 DEF TagOf
  <2>2. IsrTrack[k] = 0
    BY ONLY <2>1
  <2> QED BY <1>1, <1>4, <2>2
<1>5. CASE k \notin Exceptions /\ l \in Exceptions
  <2>1. <<0, k>> = <<IsrTrack[l], Untagged>>
    BY <1>5 DEF TagOf
  <2>2. IsrTrack[l] = 0
    BY ONLY <2>1
  <2> QED BY <1>1, <1>5, <2>2
<1> QED BY <1>2, <1>3, <1>4, <1>5

\* What emit_to writes.
LEMMA EmittedIs ==
  ASSUME NEW n \in Nat, NEW begin \in BOOLEAN, NEW L \in SUBSET Lanes, NEW l \in L,
         NEW track, NEW thread, <<track, thread>> = TagOf(l),
         lastByte' \in Nat, cycles' \in Nat, stamp' \in Nat
  PROVE  /\ Emitted(n, begin, track, thread) \in Seq(Fresh(lastByte', cycles', stamp', L))
         /\ Batch(Emitted(n, begin, track, thread), n, begin, TagOf(l))
<1> DEFINE x == [byte |-> lastByte', begin |-> begin, track |-> track, thread |-> thread,
                 cycle |-> cycles', ts |-> stamp', tick |-> 0]
<1>1. track \in Nat /\ thread \in Lanes \cup {Untagged}
  <2>1. CASE l \in Exceptions
    <3>1. track = IsrTrack[l] /\ thread = Untagged
      BY <2>1 DEF TagOf
    <3> QED BY <2>1, <3>1, TracksAssumption DEF ThreadsTrack
  <2>2. CASE l \notin Exceptions
    <3>1. track = 0 /\ thread = l
      BY <2>2 DEF TagOf
    <3> QED BY <3>1
  <2> QED BY <2>1, <2>2
<1>2. x \in Slices
  BY <1>1 DEF Slices
<1>3. /\ x.byte = lastByte' /\ x.cycle = cycles' /\ x.ts = stamp' /\ x.begin = begin
      /\ <<x.track, x.thread>> = TagOf(l)
  OBVIOUS
<1>4. Emitted(n, begin, track, thread) = [k \in 1 .. n |-> x]
  BY DEF Emitted
<1> HIDE DEF x
<1>5. x \in Fresh(lastByte', cycles', stamp', L)
  BY <1>2, <1>3 DEF Fresh
<1>6. [k \in 1 .. n |-> x] \in Seq(Fresh(lastByte', cycles', stamp', L)) /\ Len([k \in 1 .. n |-> x]) = n
  BY <1>5
<1>7. Batch([k \in 1 .. n |-> x], n, begin, TagOf(l))
  BY <1>3, <1>6 DEF Batch
<1> QED BY <1>4, <1>6, <1>7

\* The slices so far are of the known lanes and in order.
Written(s) ==
  /\ s \in Seq(Slices)
  /\ \A k \in 1 .. Len(s) : s[k].tick = k - 1 /\ \E l \in Known : <<s[k].track, s[k].thread>> = TagOf(l)
  /\ \A i, j \in 1 .. Len(s) :
       i <= j => s[i].byte <= s[j].byte /\ s[i].cycle <= s[j].cycle /\ s[i].ts <= s[j].ts
\* They are not later than the clocks say.
UpToNow(s) ==
  \A k \in 1 .. Len(s) : s[k].byte <= lastByte /\ s[k].cycle <= cycles /\ s[k].ts <= stamp
\* Before the first switch only the boot context runs, and it does not run again.
BeforeFirst(byte) == runs # <<>> => byte <= runs[1].begin
BootEndsFirst(s) ==
  \A k \in 1 .. Len(s) : <<s[k].track, s[k].thread>> = TagOf(Boot) => BeforeFirst(s[k].byte)
\* Every lane is at the depth that the call-stack machine has counted.
LedgerOf(s) == \A l \in Lanes : Goes(s, {TagOf(l)}, 0, open[l], unbegun = {})
OutInv == Written(out) /\ UpToNow(out) /\ BootEndsFirst(out) /\ LedgerOf(out)

\* The clocks go on, the inputs stay, more lanes may be known.
GoOn ==
  /\ runs' = runs /\ Known \subseteq Known' /\ Known' \subseteq Lanes
  /\ lastByte \in Nat /\ cycles \in Nat /\ stamp \in Nat
  /\ lastByte' \in Nat /\ cycles' \in Nat /\ stamp' \in Nat
  /\ lastByte <= lastByte' /\ cycles <= cycles' /\ stamp <= stamp'

(* A step that writes nothing keeps what is known of the slices written.      *)
LEMMA OutStays ==
  ASSUME OutInv, GoOn, out' = out, open' = open, unbegun' = unbegun
  PROVE  OutInv'
<1>1. PICK n \in Nat : n = Len(out)
  BY DEF OutInv, Written
<1>2. \A k \in 1 .. n : out[k] \in Slices
  BY <1>1 DEF OutInv, Written
<1>3. \A k \in 1 .. n : out[k].byte \in Nat /\ out[k].cycle \in Nat /\ out[k].ts \in Nat
  BY <1>2 DEF Slices
<1>4. UpToNow(out)'
  BY <1>1, <1>3 DEF OutInv, UpToNow, GoOn
<1>5. Written(out)'
  BY DEF OutInv, Written, GoOn
<1>6. BootEndsFirst(out)'
  BY DEF OutInv, BootEndsFirst, BeforeFirst, GoOn
<1>7. LedgerOf(out)'
  BY DEF OutInv, LedgerOf
<1> QED BY <1>4, <1>5, <1>6, <1>7 DEF OutInv

\* The slices of one call, behind those so far.
Renumbered(s, n) == [k \in DOMAIN s |-> [s[k] EXCEPT !.tick = n + k - 1]]
(* Slices that are numbered on keep their lanes, and their ticks go up by     *)
(* one.                                                                       *)
LEMMA RenumberedIs ==
  ASSUME NEW byte, NEW cycle, NEW ts, NEW L, NEW s \in Seq(Fresh(byte, cycle, ts, L)), NEW n \in Nat,
         NEW u, u = Renumbered(s, n)
  PROVE  /\ u \in Seq(Slices) /\ Len(u) = Len(s)
         /\ \A k \in 1 .. Len(s) :
              /\ u[k].byte = byte /\ u[k].cycle = cycle /\ u[k].ts = ts /\ u[k].tick = n + k - 1
              /\ u[k].begin = s[k].begin
              /\ <<u[k].track, u[k].thread>> = <<s[k].track, s[k].thread>>
              /\ \E l \in L : <<u[k].track, u[k].thread>> = TagOf(l)
<1>1. PICK m \in Nat : m = Len(s) /\ DOMAIN s = 1 .. m
  OBVIOUS
<1>2. u = [k \in 1 .. m |-> [s[k] EXCEPT !.tick = n + k - 1]]
  BY <1>1 DEF Renumbered
<1>3. ASSUME NEW k \in 1 .. m
      PROVE  /\ u[k] \in Slices
             /\ u[k].byte = byte /\ u[k].cycle = cycle /\ u[k].ts = ts /\ u[k].tick = n + k - 1
             /\ u[k].begin = s[k].begin
             /\ <<u[k].track, u[k].thread>> = <<s[k].track, s[k].thread>>
             /\ \E l \in L : <<u[k].track, u[k].thread>> = TagOf(l)
  <2>1. PICK x : x = s[k]
    OBVIOUS
  <2>2. x \in Fresh(byte, cycle, ts, L)
    BY <1>1, <2>1
  <2>3. /\ x \in Slices /\ x.byte = byte /\ x.cycle = cycle /\ x.ts = ts
        /\ \E l \in L : <<x.track, x.thread>> = TagOf(l)
    BY <2>2 DEF Fresh
  <2>4. u[k] = [x EXCEPT !.tick = n + k - 1] /\ n + k - 1 \in Nat
    BY <1>2, <2>1
  <2>5. /\ u[k] \in Slices /\ u[k].byte = x.byte /\ u[k].cycle = x.cycle /\ u[k].ts = x.ts
        /\ u[k].tick = n + k - 1 /\ u[k].begin = x.begin /\ u[k].track = x.track
        /\ u[k].thread = x.thread
    BY <2>3, <2>4 DEF Slices
  <2> QED BY <2>1, <2>3, <2>5
<1>4. u \in Seq(Slices) /\ Len(u) = m
  <2>1. PICK S : S = Slices
    OBVIOUS
  <2>2. DOMAIN u = 1 .. m
    BY <1>2
  <2>3. \A k \in 1 .. m : u[k] \in S
    BY <1>3, <2>1
  <2>4. u = [k \in 1 .. m |-> u[k]]
    BY <1>2
  <2>5. u \in [1 .. m -> S]
    BY ONLY <2>3, <2>4
  <2>6. u \in Seq(S) /\ Len(u) = m
    BY ONLY <2>5, m \in Nat
  <2> QED BY <2>1, <2>6
<1> QED BY <1>1, <1>3, <1>4

\* What a call writes is of now and of lanes that are known, and takes each lane
\* from the depth before the call to the one behind it.
BootFirst(s) ==
  \A k \in 1 .. Len(s) : <<s[k].track, s[k].thread>> = TagOf(Boot) => BeforeFirst(lastByte')
LanesMove(s) == \A l \in Lanes : Goes(s, {TagOf(l)}, open[l], open'[l], unbegun' = {})
Told(s) == s \in Seq(Fresh(lastByte', cycles', stamp', Known')) /\ BootFirst(s) /\ LanesMove(s)
(* A step keeps what is known of the slices if those it adds tell how the     *)
(* depths change.                                                             *)
LEMMA OutGrows ==
  ASSUME OutInv, GoOn, NEW s, Told(s), Emit(s), unbegun \subseteq unbegun'
  PROVE  OutInv'
<1>0. /\ s \in Seq(Fresh(lastByte', cycles', stamp', Known'))
      /\ \A k \in 1 .. Len(s) : <<s[k].track, s[k].thread>> = TagOf(Boot) => BeforeFirst(lastByte')
      /\ \A l \in Lanes : Goes(s, {TagOf(l)}, open[l], open'[l], unbegun' = {})
  BY DEF Told, BootFirst, LanesMove
<1>1. PICK n \in Nat : n = Len(out)
  BY DEF OutInv, Written
<1>2. PICK u : u = Renumbered(s, n)
  OBVIOUS
<1>3. PICK m \in Nat : m = Len(s)
  BY <1>0
<1>4. /\ u \in Seq(Slices) /\ Len(u) = m
      /\ \A k \in 1 .. m :
              /\ u[k].byte = lastByte' /\ u[k].cycle = cycles' /\ u[k].ts = stamp' /\ u[k].tick = n + k - 1
              /\ u[k].begin = s[k].begin
              /\ <<u[k].track, u[k].thread>> = <<s[k].track, s[k].thread>>
              /\ \E l \in Known' : <<u[k].track, u[k].thread>> = TagOf(l)
  BY <1>0, <1>2, <1>3, RenumberedIs
<1>5. out' = out \o u
  BY <1>1, <1>2 DEF Emit, Renumbered
<1>6. out \in Seq(Slices)
  BY DEF OutInv, Written
<1>7. /\ out' \in Seq(Slices) /\ Len(out') = n + m
      /\ \A k \in 1 .. n : out'[k] = out[k]
      /\ \A k \in n + 1 .. n + m : k - n \in 1 .. m /\ out'[k] = u[k - n]
  <2>1. PICK S, w, o : S = Slices /\ w = out' /\ o = out
    OBVIOUS
  <2>2. w = o \o u /\ o \in Seq(S) /\ u \in Seq(S) /\ Len(o) = n /\ Len(u) = m
    BY <1>1, <1>4, <1>5, <1>6, <2>1
  <2>3. /\ w \in Seq(S) /\ Len(w) = n + m
        /\ \A k \in 1 .. n : w[k] = o[k]
    <3>1. w \in Seq(S) /\ Len(w) = Len(o) + Len(u)
      <4>1. o \in Seq(S) /\ u \in Seq(S)
        BY <2>2
      <4>2. o \o u \in Seq(S)
        BY ONLY <4>1
      <4>3. Len(o \o u) = Len(o) + Len(u)
        BY ONLY <4>1
      <4> QED BY <2>2, <4>2, <4>3, Zenon
    <3>2. \A k \in 1 .. n : w[k] = o[k]
      BY ONLY <2>2, n \in Nat, m \in Nat
    <3> QED BY ONLY <2>2, <3>1, <3>2
  <2>4. \A k \in n + 1 .. n + m : k - n \in 1 .. m /\ w[k] = u[k - n]
    BY ONLY <2>2, n \in Nat, m \in Nat
  <2> QED BY <2>1, <2>3, <2>4
<1>8. \A k \in 1 .. n + m : k \in 1 .. n \/ k \in n + 1 .. n + m
  OBVIOUS
<1>9. ASSUME NEW k \in n + 1 .. n + m
      PROVE  /\ out'[k].byte = lastByte' /\ out'[k].cycle = cycles' /\ out'[k].ts = stamp'
             /\ out'[k].tick = k - 1
             /\ \E l \in Known' : <<out'[k].track, out'[k].thread>> = TagOf(l)
             /\ <<out'[k].track, out'[k].thread>> = TagOf(Boot) => BeforeFirst(lastByte')
  <2>1. PICK j \in 1 .. m : j = k - n /\ out'[k] = u[j] /\ n + j - 1 = k - 1
    BY <1>7
  <2>2. <<u[j].track, u[j].thread>> = TagOf(Boot) => BeforeFirst(lastByte')
    BY <1>0, <1>3, <1>4
  <2> QED BY <1>4, <2>1, <2>2
<1>10. ASSUME NEW k \in 1 .. n
       PROVE  /\ out'[k].byte \in Nat /\ out'[k].cycle \in Nat /\ out'[k].ts \in Nat
              /\ out'[k].byte <= lastByte /\ out'[k].cycle <= cycles /\ out'[k].ts <= stamp
              /\ out'[k].tick = k - 1
              /\ \E l \in Known' : <<out'[k].track, out'[k].thread>> = TagOf(l)
              /\ <<out'[k].track, out'[k].thread>> = TagOf(Boot) => BeforeFirst(out'[k].byte)
  <2>1. PICK x : x = out[k] /\ x = out'[k]
    BY <1>7
  <2>2. x \in Slices
    <3>1. PICK o : o = out
      OBVIOUS
    <3>2. o \in Seq(Slices) /\ n = Len(o) /\ x = o[k]
      BY <1>1, <1>6, <2>1, <3>1
    <3> QED BY ONLY <3>2, k \in 1 .. n
  <2>3. x.byte \in Nat /\ x.cycle \in Nat /\ x.ts \in Nat
    BY <2>2 DEF Slices
  <2>4. x.byte <= lastByte /\ x.cycle <= cycles /\ x.ts <= stamp
    BY <1>1, <2>1 DEF OutInv, UpToNow
  <2>5. /\ x.tick = k - 1 /\ \E l \in Known : <<x.track, x.thread>> = TagOf(l)
        /\ <<x.track, x.thread>> = TagOf(Boot) => BeforeFirst(x.byte)
    BY <1>1, <2>1 DEF OutInv, Written, BootEndsFirst
  <2>6. \E l \in Known' : <<x.track, x.thread>> = TagOf(l)
    BY <2>5 DEF GoOn
  <2> QED BY <2>1, <2>3, <2>4, <2>5, <2>6
<1>11. UpToNow(out)'
  <2> SUFFICES ASSUME NEW k \in 1 .. n + m
               PROVE  out'[k].byte <= lastByte' /\ out'[k].cycle <= cycles' /\ out'[k].ts <= stamp'
    BY <1>7 DEF UpToNow
  <2>1. CASE k \in 1 .. n
    BY <1>10, <2>1 DEF GoOn
  <2>2. CASE k \in n + 1 .. n + m
    BY <1>9, <2>2 DEF GoOn
  <2> QED BY <1>8, <2>1, <2>2
<1>12. Written(out)'
  <2>1. ASSUME NEW k \in 1 .. n + m
        PROVE  out'[k].tick = k - 1 /\ \E l \in Known' : <<out'[k].track, out'[k].thread>> = TagOf(l)
    BY <1>8, <1>9, <1>10
  <2>2. ASSUME NEW i \in 1 .. n + m, NEW j \in 1 .. n + m, i <= j
        PROVE  out'[i].byte <= out'[j].byte /\ out'[i].cycle <= out'[j].cycle /\ out'[i].ts <= out'[j].ts
    <3>1. CASE i \in 1 .. n /\ j \in 1 .. n
      <4>1. out[i].byte <= out[j].byte /\ out[i].cycle <= out[j].cycle /\ out[i].ts <= out[j].ts
        BY <1>1, <2>2, <3>1 DEF OutInv, Written
      <4> QED BY <1>7, <3>1, <4>1
    <3>2. CASE i \in 1 .. n /\ j \in n + 1 .. n + m
      <4>1. out'[j].byte = lastByte' /\ out'[j].cycle = cycles' /\ out'[j].ts = stamp'
        BY <1>9, <3>2
      <4>2. PICK x : x = out'[i]
        OBVIOUS
      <4>3. /\ x.byte \in Nat /\ x.cycle \in Nat /\ x.ts \in Nat
            /\ x.byte <= lastByte /\ x.cycle <= cycles /\ x.ts <= stamp
        BY <1>10, <3>2, <4>2
      <4>4. x.byte <= lastByte' /\ x.cycle <= cycles' /\ x.ts <= stamp'
        BY <4>3 DEF GoOn
      <4> QED BY <4>1, <4>2, <4>4
    <3>3. CASE i \in n + 1 .. n + m /\ j \in n + 1 .. n + m
      <4>1. out'[j].byte = lastByte' /\ out'[j].cycle = cycles' /\ out'[j].ts = stamp'
        BY <1>9, <3>3
      <4>2. out'[i].byte = lastByte' /\ out'[i].cycle = cycles' /\ out'[i].ts = stamp'
        BY <1>9, <3>3
      <4> QED BY <4>1, <4>2 DEF GoOn
    <3>4. ~(i \in n + 1 .. n + m /\ j \in 1 .. n)
      BY <2>2
    <3> QED BY <1>8, <3>1, <3>2, <3>3, <3>4
  <2> QED BY <1>7, <2>1, <2>2 DEF Written
<1>13. BootEndsFirst(out)'
  <2> SUFFICES ASSUME NEW k \in 1 .. n + m, <<out'[k].track, out'[k].thread>> = TagOf(Boot)
               PROVE  BeforeFirst(out'[k].byte)
    BY <1>7 DEF BootEndsFirst, BeforeFirst, GoOn
  <2>1. CASE k \in 1 .. n
    BY <1>10, <2>1
  <2>2. CASE k \in n + 1 .. n + m
    BY <1>9, <2>2
  <2> QED BY <1>8, <2>1, <2>2
<1>14. LedgerOf(out)'
  <2> SUFFICES ASSUME NEW l \in Lanes PROVE Goes(out', {TagOf(l)}, 0, open'[l], unbegun' = {})
    BY DEF LedgerOf
  <2>1. PICK T : T = {TagOf(l)}
    OBVIOUS
  <2>2. Goes(out, T, 0, open[l], unbegun = {}) /\ Goes(s, T, open[l], open'[l], unbegun' = {})
    BY <1>0, <2>1 DEF OutInv, LedgerOf
  <2>3. unbegun' = {} => unbegun = {}
    OBVIOUS
  <2>4. \A k \in 1 .. n : Step(out[k], T) = Step(out[k], T)
    OBVIOUS
  <2>5. Goes(out, T, 0, open[l], unbegun' = {})
    BY <1>1, <2>2, <2>3, <2>4, GoesSame
  <2>6. \A k \in 1 .. m : Step(u[k], T) = Step(s[k], T)
    BY <1>4 DEF Step
  <2>7. Goes(u, T, open[l], open'[l], unbegun' = {})
    BY <1>3, <1>4, <2>2, <2>6, GoesSame
  <2>8. Goes(out \o u, T, 0, open'[l], unbegun' = {})
    BY <1>4, <1>6, <2>5, <2>7, GoesFurther
  <2> QED BY <1>5, <2>1, <2>8
<1> QED BY <1>11, <1>12, <1>13, <1>14 DEF OutInv

------------------------------------------------------------------------------
(* What a range does to the stack it runs on, frame by frame.                 *)

\* No lane is closed more often than it was opened, counted at the end of a call.
LEMMA OpenIsNatural == MachineInv => \A l \in Lanes : open[l] \in Nat
<1> SUFFICES ASSUME MachineInv, NEW l \in Lanes PROVE open[l] \in Nat
  OBVIOUS
<1>1. TypeOK /\ ThreadLaneAccounts /\ IsrLaneAccounts
  BY DEF MachineInv
<1>2. CASE l \in Exceptions
  <2>1. open[l] = FramesIn(ctx, l)
    BY <1>1, <1>2, FramesOnIsIn DEF IsrLaneAccounts
  <2>2. Stacked(ctx)
    BY <1>1, StackedContexts DEF TypeOK
  <2> QED BY <2>1, <2>2, FramesNatural
<1>3. CASE l \notin Exceptions
  <2>1. l \in Threads \cup {Boot}
    BY <1>3 DEF Lanes
  <2>2. StackOf(l) \in Stacks
    BY <1>1, <2>1, StackOfType
  <2>3. Len(StackOf(l)) \in Nat \ {0}
    BY <2>2 DEF Stacks
  <2>4. open[l] = Len(StackOf(l)) - 1
    BY <1>1, <2>1 DEF ThreadLaneAccounts
  <2> QED BY <2>3, <2>4
<1> QED BY <1>2, <1>3

(* The same of the state after a step.                                        *)
LEMMA OpenIsNaturalNext == MachineInv' => \A l \in Lanes : open'[l] \in Nat
<1>1. MachineInv => \A l \in Lanes : open[l] \in Nat
  BY OpenIsNatural
<1>2. (MachineInv => \A l \in Lanes : open[l] \in Nat)'
  BY <1>1, PTL
<1> QED BY <1>2

\* A book with fewer frames, and no END forgotten.
ShrinksTo(b, c) == Len(c.stack) <= Len(b.stack) /\ (b.unbegun => c.unbegun)

(* Reconciling a stack with where execution is only drops frames from its     *)
(* top.                                                                       *)
LEMMA ReconcileShrinks ==
  ASSUME NEW b \in Books, b.stack # <<>>, NEW start
  PROVE  ShrinksTo(b, Reconcile(b, start))
<1> DEFINE fn == FunctionAt(start)
<1>0. Len(b.stack) \in Nat
  BY DEF Books
<1>1. CASE Unwinds(b, start)
  <2> DEFINE k == CHOOSE i \in Below(b, fn) : TRUE
  <2>1. k \in 1 .. Len(b.stack) - 1
    BY <1>1 DEF Unwinds, Below
  <2>2. Reconcile(b, start) = PopTo(b, k)
    BY <1>1 DEF Reconcile, UnwindTo
  <2> HIDE DEF k
  <2>3. k \in 0 .. Len(b.stack)
    BY <1>0, <2>1
  <2>4. Len(PopTo(b, k).stack) = k
    BY <2>3, PopToKeepsBalance
  <2>5. PopTo(b, k).unbegun = (b.unbegun \/ b.open < Len(b.stack) - k)
    BY DEF PopTo
  <2>6. k <= Len(b.stack)
    BY ONLY <1>0, <2>1
  <2>7. PICK c : c = PopTo(b, k)
    OBVIOUS
  <2>8. Len(c.stack) <= Len(b.stack) /\ (b.unbegun => c.unbegun)
    BY ONLY <2>4, <2>5, <2>6, <2>7
  <2> QED BY <2>2, <2>7, <2>8 DEF ShrinksTo
<1>2. CASE Reconcile(b, start) = b
  BY <1>0, <1>2 DEF ShrinksTo
<1>3. CASE Reconcile(b, start) = RelabelTop(b, fn)
  <2>1. Len(RelabelTop(b, fn).stack) = Len(b.stack)
    BY FunctionAtIsName, RelabelKeepsBalance
  <2>2. RelabelTop(b, fn).unbegun = b.unbegun
    BY DEF RelabelTop
  <2> QED BY <1>0, <1>3, <2>1, <2>2 DEF ShrinksTo
<1> QED BY <1>1, <1>2, <1>3 DEF Reconcile

(* A return only drops frames from the top of the stack.                      *)
LEMMA ReturnShrinks ==
  ASSUME NEW b \in Books, b.stack # <<>>
  PROVE  ShrinksTo(b, DoReturn(b))
<1>0. Len(b.stack) \in Nat
  BY DEF Books
<1>1. CASE Len(b.stack) > 1
  <2>1. Len(b.stack) - 1 \in 0 .. Len(b.stack)
    BY <1>0, <1>1
  <2>2. Len(Pop(b).stack) = Len(b.stack) - 1
    BY <2>1, PopToKeepsBalance DEF Pop
  <2>3. b.unbegun => Pop(b).unbegun
    BY DEF Pop, PopTo
  <2> QED BY <1>0, <1>1, <2>2, <2>3 DEF DoReturn, ShrinksTo
<1>2. CASE ~(Len(b.stack) > 1)
  BY <1>0, <1>2 DEF DoReturn, ShrinksTo
<1> QED BY <1>1, <1>2

\* The slices of a range: of a stale frame, of the callee, of the frames that are left.
Staled(r) == Confirms(r) /\ IsStale(Book, FunctionAt(r.start))
EndsStale(r) == IF Staled(r) THEN 1 ELSE 0
BeginsCallee(r) == IF Confirms(r) THEN 1 ELSE 0
EndsLeft(r) == Len(AfterCall(r).stack) - Len(AfterRange(r).stack)

(* A range changes the depth of its lane by the callee it begins less the     *)
(* frames it drops.                                                           *)
LEMMA RangeMoves ==
  ASSUME TypeOK, ~finished, NEW r \in Ranges
  PROVE  /\ EndsLeft(r) \in Nat
         /\ AfterRange(r).open = open[CurLane] - EndsStale(r) + BeginsCallee(r) - EndsLeft(r)
         /\ Staled(r) /\ open[CurLane] < 1 => AfterRange(r).unbegun
<1> DEFINE fn == FunctionAt(r.start)
           b == AfterCall(r)
           c == AfterReconcile(r)
           d == AfterRange(r)
           p == IF IsStale(Book, fn) THEN Pop(Book) ELSE Book
<1>0. /\ Book \in Books /\ Len(Book.stack) \in Nat \ {0} /\ fn \in Names /\ gaps \in Nat
      /\ Book.open = open[CurLane] /\ Book.open \in Int
  <2>1. Book.open = open[CurLane]
    BY DEF Book
  <2> QED BY <2>1, BookType, FunctionAtIsName DEF Stacks, TypeOK, Books
<1>1. Book.stack # <<>>
  BY <1>0
<1>2. b \in Books /\ b.stack # <<>> /\ b.open = Book.open - EndsStale(r) + BeginsCallee(r)
      /\ (Staled(r) /\ Book.open < 1 => b.unbegun)
  <2>1. CASE ~Confirms(r)
    BY <1>0, <1>1, <2>1 DEF AfterCall, Staled, EndsStale, BeginsCallee
  <2>2. CASE Confirms(r)
    <3>1. b = DoCall(Book, fn) /\ DoCall(Book, fn) = Push(p, fn)
      BY <2>2 DEF AfterCall, DoCall
    <3>2. b \in Books /\ Leaves(Book.stack, b.stack)
      BY <1>0, <1>1, <3>1, DoCallSound
    <3>3. b.stack # <<>>
      BY <3>2 DEF Leaves, Separate!Rewrites
    <3>4. b.open = p.open + 1 /\ b.unbegun = p.unbegun
      BY <3>1 DEF Push
    <3>5. BeginsCallee(r) = 1
      BY <2>2 DEF BeginsCallee
    <3>6. CASE IsStale(Book, fn)
      <4>1. Staled(r) /\ EndsStale(r) = 1
        BY <2>2, <3>6 DEF Staled, EndsStale
      <4>2. Len(Book.stack) - (Len(Book.stack) - 1) = 1
        BY <1>0
      <4>3. p.open = Book.open - 1 /\ p.unbegun = (Book.unbegun \/ Book.open < 1)
        BY <3>6, <4>2 DEF Pop, PopTo
      <4> HIDE DEF p, b
      <4> QED BY <1>0, <3>2, <3>3, <3>4, <3>5, <4>1, <4>3
    <3>7. CASE ~IsStale(Book, fn)
      <4>1. ~Staled(r) /\ EndsStale(r) = 0
        BY <3>7 DEF Staled, EndsStale
      <4>2. p.open = Book.open
        BY <3>7
      <4> HIDE DEF p, b
      <4> QED BY <1>0, <3>2, <3>3, <3>4, <3>5, <4>1, <4>2
    <3> QED BY <3>6, <3>7
  <2> QED BY <2>1, <2>2
<1>3. c \in Books /\ c.stack # <<>> /\ SameBalance(b, c) /\ ShrinksTo(b, c)
  <2>1. CASE c = b
    <3>1. Len(b.stack) \in Nat /\ b.open \in Int
      BY <1>2 DEF Books
    <3> QED BY <1>2, <2>1, <3>1 DEF SameBalance, ShrinksTo
  <2>2. CASE c = Reconcile(b, r.start)
    <3> HIDE DEF b, c
    <3>1. c \in Books /\ SameBalance(b, c) /\ Leaves(b.stack, c.stack)
      BY <1>2, <2>2, ReconcileSound
    <3>2. c.stack # <<>>
      BY <3>1 DEF Leaves, Separate!Rewrites
    <3> QED BY <1>2, <2>2, <3>1, <3>2, ReconcileShrinks
  <2> QED BY <2>1, <2>2 DEF AfterReconcile
<1>4. d \in Books /\ SameBalance(c, d) /\ ShrinksTo(c, d)
  <2>1. CASE d = c
    <3>1. Len(c.stack) \in Nat /\ c.open \in Int
      BY <1>3 DEF Books
    <3> QED BY <1>3, <2>1, <3>1 DEF SameBalance, ShrinksTo
  <2>2. CASE d = DoReturn(c)
    <3> HIDE DEF c, d
    <3> QED BY <1>3, <2>2, DoReturnSound, ReturnShrinks
  <2> QED BY <2>1, <2>2 DEF AfterRange
<1>5. EndsLeft(r) = Len(b.stack) - Len(d.stack)
  BY DEF EndsLeft
<1>6. EndsStale(r) \in {0, 1} /\ BeginsCallee(r) \in {0, 1}
  BY DEF EndsStale, BeginsCallee
<1> HIDE DEF b, c, d
<1>7. /\ Len(b.stack) \in Nat /\ Len(c.stack) \in Nat /\ Len(d.stack) \in Nat
      /\ b.open \in Int /\ c.open \in Int /\ d.open \in Int
  BY <1>2, <1>3, <1>4 DEF Books
<1>8. /\ Len(c.stack) <= Len(b.stack) /\ Len(d.stack) <= Len(c.stack)
      /\ b.unbegun => d.unbegun
  BY <1>3, <1>4 DEF ShrinksTo
<1>9. c.open - Len(c.stack) = b.open - Len(b.stack) /\ d.open - Len(d.stack) = c.open - Len(c.stack)
  BY <1>3, <1>4 DEF SameBalance
<1>10. EndsLeft(r) \in Nat
  BY ONLY <1>5, <1>7, <1>8
<1>11. d.open = open[CurLane] - EndsStale(r) + BeginsCallee(r) - EndsLeft(r)
  <2>1. b.open = open[CurLane] - EndsStale(r) + BeginsCallee(r) /\ open[CurLane] \in Int
    BY <1>0, <1>2
  <2>2. PICK es, bc, el, o : es = EndsStale(r) /\ bc = BeginsCallee(r) /\ el = EndsLeft(r) /\ o = open[CurLane]
    OBVIOUS
  <2>3. PICK bo, bl, cl, co, dl, do : /\ bo = b.open /\ bl = Len(b.stack) /\ co = c.open /\ cl = Len(c.stack)
                                      /\ do = d.open /\ dl = Len(d.stack)
    OBVIOUS
  <2>4. /\ es \in Int /\ bc \in Int /\ o \in Int /\ bo = o - es + bc /\ el = bl - dl
        /\ bl \in Int /\ cl \in Int /\ dl \in Int /\ bo \in Int /\ co \in Int /\ do \in Int
        /\ co - cl = bo - bl /\ do - dl = co - cl
    BY <1>5, <1>6, <1>7, <1>9, <2>1, <2>2, <2>3
  <2>5. do = o - es + bc - el
    BY ONLY <2>4
  <2> QED BY <2>2, <2>3, <2>5
<1> QED BY <1>0, <1>2, <1>8, <1>10, <1>11 DEF d

------------------------------------------------------------------------------
(* The slices of the calls.                                                   *)

\* The clocks and the depths, in numbers.
Now == lastByte' \in Nat /\ cycles' \in Nat /\ stamp' \in Nat /\ Known' \subseteq Lanes
Deep == \A l \in Lanes : open[l] \in Nat /\ open'[l] \in Nat

\* The tag of the running lane.
LEMMA CurrentTag ==
  ASSUME TypeOK
  PROVE  <<CurTrack, CurThread>> = TagOf(CurLane)
<1>1. CASE Len(ctx) = 1
  <2>1. curThread \notin Exceptions
    BY LanesAssumption DEF TypeOK
  <2> QED BY <1>1, <2>1 DEF CurTrack, CurThread, CurLane, TagOf
<1>2. CASE Len(ctx) # 1
  <2>1. Innermost.track \in Exceptions
    <3>1. ctx \in Seq(Contexts) /\ Len(ctx) \in Nat \ {0} /\ Len(ctx) \in 1 .. Len(ctx)
      BY DEF TypeOK
    <3>2. ctx[Len(ctx)] \in Contexts
      BY <3>1
    <3>3. ctx[Len(ctx)].track # MainTrack
      BY <1>2, <3>1 DEF TypeOK
    <3> QED BY <3>2, <3>3 DEF Contexts, Innermost
  <2> QED BY <1>2, <2>1 DEF CurTrack, CurThread, CurLane, TagOf
<1> QED BY <1>1, <1>2

\* The slices of the boot context, if there is one among those of a lane.
LEMMA BootAmong ==
  ASSUME NEW n, NEW begin, NEW l \in Lanes, NEW s, Batch(s, n, begin, TagOf(l)), l = Boot => BeforeFirst(lastByte')
  PROVE  BootFirst(s)
<1> SUFFICES ASSUME NEW k \in 1 .. Len(s), <<s[k].track, s[k].thread>> = TagOf(Boot)
             PROVE  BeforeFirst(lastByte')
  BY DEF BootFirst
<1>1. <<s[k].track, s[k].thread>> = TagOf(l)
  BY DEF Batch
<1>2. Boot \in Lanes
  BY DEF Lanes
<1> QED BY <1>1, <1>2, TagsDiffer

\* Of two lists of slices.
LEMMA BootOfBoth ==
  ASSUME NEW S, NEW s \in Seq(S), NEW t \in Seq(S), BootFirst(s), BootFirst(t)
  PROVE  BootFirst(s \o t)
<1>1. PICK m \in Nat, n \in Nat : m = Len(s) /\ n = Len(t)
  OBVIOUS
<1>2. PICK u : u = s \o t
  OBVIOUS
<1>3. /\ Len(u) = m + n
      /\ \A k \in 1 .. m : u[k] = s[k]
      /\ \A k \in m + 1 .. m + n : u[k] = t[k - m]
  BY <1>1, <1>2
<1>4. ASSUME NEW k \in 1 .. m + n, <<u[k].track, u[k].thread>> = TagOf(Boot)
      PROVE  BeforeFirst(lastByte')
  <2>1. CASE k \in 1 .. m
    BY <1>1, <1>3, <1>4, <2>1 DEF BootFirst
  <2>2. CASE k \in m + 1 .. m + n
    <3>1. k - m \in 1 .. n /\ u[k] = t[k - m]
      BY <1>3, <2>2
    <3> QED BY <1>1, <1>4, <3>1 DEF BootFirst
  <2> QED BY <2>1, <2>2
<1> QED BY <1>2, <1>3, <1>4 DEF BootFirst

\* The slices of one lane, written at once.
LEMMA OneLane ==
  ASSUME Now, NEW l \in Known', NEW n \in Nat, NEW begin \in BOOLEAN, NEW track, NEW thread,
         <<track, thread>> = TagOf(l), l = Boot => BeforeFirst(lastByte'),
         NEW s, s = Emitted(n, begin, track, thread)
  PROVE  /\ s \in Seq(Fresh(lastByte', cycles', stamp', Known')) /\ BootFirst(s)
         /\ Batch(s, n, begin, TagOf(l))
<1>1. l \in Lanes /\ Known' \in SUBSET Lanes
  BY DEF Now
<1>2. PICK L : L = Known'
  OBVIOUS
<1>3. L \in SUBSET Lanes /\ l \in L /\ lastByte' \in Nat /\ cycles' \in Nat /\ stamp' \in Nat
  BY <1>1, <1>2 DEF Now
<1>4. /\ Emitted(n, begin, track, thread) \in Seq(Fresh(lastByte', cycles', stamp', L))
      /\ Batch(Emitted(n, begin, track, thread), n, begin, TagOf(l))
  BY <1>3, EmittedIs
<1>5. BootFirst(s)
  BY <1>1, <1>4, BootAmong
<1> QED BY <1>2, <1>4, <1>5

\* It goes down, or up, by as many; the other lanes stay where they are.
LEMMA LaneGoesDown ==
  ASSUME NEW l \in Lanes, NEW n \in Nat, NEW s, Batch(s, n, FALSE, TagOf(l)), NEW k \in Lanes,
         NEW a \in Int, NEW b \in Int, b = IF k = l THEN a - n ELSE a,
         NEW sound, sound => a >= 0 /\ b >= 0
  PROVE  Goes(s, {TagOf(k)}, a, b, sound)
<1>1. PICK T, tag : T = {TagOf(k)} /\ tag = TagOf(l)
  OBVIOUS
<1>2. tag \in T <=> k = l
  BY <1>1, TagsDiffer
<1>3. b = IF tag \in T THEN a - n ELSE a
  BY <1>2
<1>4. Batch(s, n, FALSE, tag)
  BY <1>1
<1>5. Goes(s, T, a, b, sound)
  BY ONLY <1>3, <1>4, GoesDown, n \in Nat, a \in Int, b \in Int, sound => a >= 0 /\ b >= 0
<1> QED BY <1>1, <1>5
(* Begins of a lane take it up and leave the others alone.                    *)
LEMMA LaneGoesUp ==
  ASSUME NEW l \in Lanes, NEW n \in Nat, NEW s, Batch(s, n, TRUE, TagOf(l)), NEW k \in Lanes,
         NEW a \in Int, NEW b \in Int, b = IF k = l THEN a + n ELSE a,
         NEW sound, sound => a >= 0
  PROVE  Goes(s, {TagOf(k)}, a, b, sound)
<1>1. PICK T, tag : T = {TagOf(k)} /\ tag = TagOf(l)
  OBVIOUS
<1>2. tag \in T <=> k = l
  BY <1>1, TagsDiffer
<1>3. b = IF tag \in T THEN a + n ELSE a
  BY <1>2
<1>4. Batch(s, n, TRUE, tag)
  BY <1>1
<1>5. Goes(s, T, a, b, sound)
  BY ONLY <1>3, <1>4, GoesUp, n \in Nat, a \in Int, b \in Int, sound => a >= 0
<1> QED BY <1>1, <1>5

\* The running lane is known, and what runs before the first switch is of before it.
Running == CurLane \in Known' /\ (CurLane = Boot => BeforeFirst(lastByte'))

(* The slices a range writes tell how the depths change                       *)
(* (callstack.cpp:232-333).                                                   *)
LEMMA RangeTold ==
  ASSUME TypeOK, Now, Deep, Running, NEW r \in Ranges, InstrRange(r)
  PROVE  Told(RangeSlices(r)) /\ unbegun \subseteq unbegun'
<1> DEFINE l == CurLane
           s1 == Emitted(EndsStale(r), FALSE, CurTrack, CurThread)
           s2 == Emitted(BeginsCallee(r), TRUE, CurTrack, CurThread)
           s3 == Emitted(EndsLeft(r), FALSE, CurTrack, CurThread)
           F == Fresh(lastByte', cycles', stamp', Known')
<1>1. ~finished /\ open' = [open EXCEPT ![l] = AfterRange(r).open]
      /\ unbegun' = IF AfterRange(r).unbegun THEN unbegun \cup {l} ELSE unbegun
  BY DEF InstrRange
<1>2. /\ EndsLeft(r) \in Nat
      /\ AfterRange(r).open = open[l] - EndsStale(r) + BeginsCallee(r) - EndsLeft(r)
      /\ Staled(r) /\ open[l] < 1 => AfterRange(r).unbegun
  BY <1>1, RangeMoves
<1>3. EndsStale(r) \in {0, 1} /\ BeginsCallee(r) \in {0, 1}
  BY DEF EndsStale, BeginsCallee
<1>4. l \in Known' /\ l \in Lanes /\ <<CurTrack, CurThread>> = TagOf(l) /\ (l = Boot => BeforeFirst(lastByte'))
  BY CurrentTag DEF Running, Now
<1>5. s1 \in Seq(F) /\ BootFirst(s1) /\ Batch(s1, EndsStale(r), FALSE, TagOf(l))
  <2>1. EndsStale(r) \in Nat
    BY <1>3
  <2> QED BY <1>4, <2>1, OneLane
<1>6. s2 \in Seq(F) /\ BootFirst(s2) /\ Batch(s2, BeginsCallee(r), TRUE, TagOf(l))
  <2>1. BeginsCallee(r) \in Nat
    BY <1>3
  <2> QED BY <1>4, <2>1, OneLane
<1>7. s3 \in Seq(F) /\ BootFirst(s3) /\ Batch(s3, EndsLeft(r), FALSE, TagOf(l))
  BY <1>2, <1>4, OneLane
<1>8. RangeSlices(r) = s1 \o s2 \o s3
  BY DEF RangeSlices, EndsStale, BeginsCallee, EndsLeft, Staled
<1>9. DOMAIN open = Lanes
  BY DEF TypeOK
<1> HIDE DEF s1, s2, s3, F, l
<1>10. s1 \o s2 \in Seq(F)
  BY ONLY <1>5, <1>6
<1>11. s1 \o s2 \o s3 \in Seq(F)
  BY ONLY <1>7, <1>10
<1>12. BootFirst(s1 \o s2 \o s3)
  <2>1. BootFirst(s1 \o s2)
    BY <1>5, <1>6, BootOfBoth
  <2> QED BY <1>7, <1>10, <2>1, BootOfBoth
<1>13. ASSUME NEW k \in Lanes
       PROVE  Goes(s1 \o s2 \o s3, {TagOf(k)}, open[k], open'[k], unbegun' = {})
  <2>1. PICK es, bc, el : es = EndsStale(r) /\ bc = BeginsCallee(r) /\ el = EndsLeft(r)
    OBVIOUS
  <2>2. es \in {0, 1} /\ bc \in {0, 1} /\ el \in Nat
    BY <1>2, <1>3, <2>1
  <2>3. PICK a0, a3 : a0 = open[k] /\ a3 = open'[k]
    OBVIOUS
  <2>4. a0 \in Nat /\ a3 \in Nat
    BY <2>3 DEF Deep
  <2>5. PICK a1 : a1 = IF k = l THEN a0 - es ELSE a0
    OBVIOUS
  <2>6. PICK a2 : a2 = IF k = l THEN a1 + bc ELSE a1
    OBVIOUS
  <2>7. a3 = IF k = l THEN a2 - el ELSE a2
    <3>1. CASE k = l
      <4>1. a3 = AfterRange(r).open
        BY <1>1, <1>4, <1>9, <2>3, <3>1
      <4>2. a3 = a0 - es + bc - el
        BY <1>2, <2>1, <2>3, <3>1, <4>1
      <4> QED BY ONLY <2>2, <2>4, <2>5, <2>6, <3>1, <4>2
    <3>2. CASE k # l
      <4>1. a3 = a0
        BY <1>1, <1>4, <1>9, <2>3, <3>2
      <4> QED BY ONLY <2>5, <2>6, <3>2, <4>1
    <3> QED BY <3>1, <3>2
  <2>8. a1 \in Int /\ a2 \in Int
    BY ONLY <2>2, <2>4, <2>5, <2>6
  <2>9. PICK sound : sound = (unbegun' = {})
    OBVIOUS
  <2>10. ASSUME sound PROVE a1 >= 0
    <3>1. CASE k = l /\ es = 1
      <4>1. Staled(r)
        BY <2>1, <3>1 DEF EndsStale
      <4>2. ~AfterRange(r).unbegun
        BY <1>1, <2>9, <2>10
      <4>3. ~(a0 < 1)
        BY <1>2, <2>3, <3>1, <4>1, <4>2
      <4> QED BY ONLY <2>4, <2>5, <3>1, <4>3
    <3>2. CASE ~(k = l /\ es = 1)
      BY ONLY <2>2, <2>4, <2>5, <3>2
    <3> QED BY <3>1, <3>2
  <2>11. sound => a1 >= 0 /\ a2 >= 0
    <3>1. sound => a1 >= 0
      BY <2>10
    <3> QED BY ONLY <2>2, <2>6, <2>8, <3>1
  <2>12. a0 >= 0 /\ a3 >= 0 /\ a0 \in Int /\ a3 \in Int /\ es \in Nat /\ bc \in Nat
    BY ONLY <2>2, <2>4
  <2>13. Goes(s1, {TagOf(k)}, a0, a1, sound)
    <3>1. Batch(s1, es, FALSE, TagOf(l))
      BY <1>5, <2>1
    <3> QED BY <1>4, <2>5, <2>8, <2>11, <2>12, <3>1, LaneGoesDown
  <2>14. Goes(s2, {TagOf(k)}, a1, a2, sound)
    <3>1. Batch(s2, bc, TRUE, TagOf(l))
      BY <1>6, <2>1
    <3> QED BY <1>4, <2>6, <2>8, <2>11, <2>12, <3>1, LaneGoesUp
  <2>15. Goes(s3, {TagOf(k)}, a2, a3, sound)
    <3>1. Batch(s3, el, FALSE, TagOf(l))
      BY <1>7, <2>1
    <3> QED BY <1>4, <2>2, <2>7, <2>8, <2>11, <2>12, <3>1, LaneGoesDown
  <2>16. PICK T : T = {TagOf(k)}
    OBVIOUS
  <2>17. Goes(s1 \o s2, T, a0, a2, sound)
    BY <1>5, <1>6, <2>13, <2>14, <2>16, GoesFurther
  <2>18. Goes(s1 \o s2 \o s3, T, a0, a3, sound)
    BY <1>7, <1>10, <2>15, <2>16, <2>17, GoesFurther
  <2> QED BY <2>3, <2>9, <2>16, <2>18
<1>14. unbegun \subseteq unbegun'
  BY <1>1
<1> QED BY <1>8, <1>11, <1>12, <1>13, <1>14 DEF Told, LanesMove, F

\* An exception begins with the slice of its own function.
LEMMA ExceptionTold ==
  ASSUME TypeOK, Now, Deep, NEW e \in Exceptions, e \in Known', Exception(e)
  PROVE  Told(Emitted(1, TRUE, IsrTrack[e], Untagged)) /\ unbegun \subseteq unbegun'
<1> DEFINE s == Emitted(1, TRUE, IsrTrack[e], Untagged)
<1>1. open' = [open EXCEPT ![e] = open[e] + 1] /\ unbegun' = unbegun
  BY DEF Exception
<1>2. DOMAIN open = Lanes /\ e \in Lanes /\ e # Boot
  BY LanesAssumption DEF TypeOK, Lanes
<1>3. <<IsrTrack[e], Untagged>> = TagOf(e)
  BY DEF TagOf
<1>4. s \in Seq(Fresh(lastByte', cycles', stamp', Known')) /\ BootFirst(s) /\ Batch(s, 1, TRUE, TagOf(e))
  <2>1. 1 \in Nat /\ TRUE \in BOOLEAN
    OBVIOUS
  <2> QED BY <1>2, <1>3, <2>1, OneLane
<1> HIDE DEF s
<1>5. ASSUME NEW k \in Lanes PROVE Goes(s, {TagOf(k)}, open[k], open'[k], unbegun' = {})
  <2>1. open[k] \in Nat /\ open'[k] \in Nat
    BY DEF Deep
  <2>2. open'[k] = IF k = e THEN open[k] + 1 ELSE open[k]
    BY <1>1, <1>2
  <2>3. PICK a, b, sound : a = open[k] /\ b = open'[k] /\ sound = (unbegun' = {})
    OBVIOUS
  <2>4. a \in Int /\ b \in Int /\ a >= 0 /\ b = (IF k = e THEN a + 1 ELSE a) /\ 1 \in Nat
    BY <2>1, <2>2, <2>3
  <2>5. Goes(s, {TagOf(k)}, a, b, sound)
    BY <1>2, <1>4, <2>4, LaneGoesUp
  <2> QED BY <2>3, <2>5
<1> QED BY <1>1, <1>4, <1>5 DEF Told, LanesMove, s

\* The slices of one lane end.
LEMMA LaneEnds ==
  ASSUME Now, Deep, NEW l \in Known', NEW n \in Nat, NEW track, NEW thread, <<track, thread>> = TagOf(l),
         l = Boot => BeforeFirst(lastByte'),
         \A k \in Lanes : open'[k] = IF k = l THEN open[k] - n ELSE open[k]
  PROVE  Told(Emitted(n, FALSE, track, thread))
<1>1. PICK s : s = Emitted(n, FALSE, track, thread)
  OBVIOUS
<1>2. s \in Seq(Fresh(lastByte', cycles', stamp', Known')) /\ BootFirst(s) /\ Batch(s, n, FALSE, TagOf(l))
  <2>1. FALSE \in BOOLEAN
    OBVIOUS
  <2> QED BY <1>1, <2>1, OneLane
<1>3. l \in Lanes
  BY DEF Now
<1>4. ASSUME NEW k \in Lanes PROVE Goes(s, {TagOf(k)}, open[k], open'[k], unbegun' = {})
  <2>1. open[k] \in Nat /\ open'[k] \in Nat
    BY DEF Deep
  <2>2. PICK a, b, sound : a = open[k] /\ b = open'[k] /\ sound = (unbegun' = {})
    OBVIOUS
  <2>3. a \in Int /\ b \in Int /\ a >= 0 /\ b >= 0 /\ b = (IF k = l THEN a - n ELSE a)
    BY <2>1, <2>2
  <2>4. Goes(s, {TagOf(k)}, a, b, sound)
    BY <1>2, <1>3, <2>3, LaneGoesDown
  <2> QED BY <2>2, <2>4
<1> QED BY <1>1, <1>2, <1>4 DEF Told, LanesMove

(* So do those of an exception return, which end what the context has left    *)
(* open.                                                                      *)
LEMMA LeaveTold ==
  ASSUME TypeOK, Now, Deep, Running, LeaveContext
  PROVE  Told(Emitted(Len(Innermost.stack), FALSE, CurTrack, Untagged)) /\ unbegun \subseteq unbegun'
<1>1. ~finished /\ Len(ctx) > 1 /\ open' = [open EXCEPT ![CurLane] = open[CurLane] - Len(Innermost.stack)]
      /\ unbegun \subseteq unbegun'
  BY DEF LeaveContext
<1>2. CurLane \in Lanes /\ Len(Innermost.stack) \in Nat /\ DOMAIN open = Lanes
  BY <1>1, BookType DEF TypeOK, Stacks
<1>3. CurThread = Untagged
  <2>1. Len(ctx) \in Nat
    BY DEF TypeOK
  <2>2. Len(ctx) # 1
    BY <1>1, <2>1
  <2> QED BY <2>2 DEF CurThread
<1>4. <<CurTrack, Untagged>> = TagOf(CurLane)
  BY <1>3, CurrentTag
<1>0. PICK n \in Nat : n = Len(Innermost.stack)
  BY <1>2
<1>5. PICK l : n = Len(Innermost.stack) /\ l = CurLane
  BY <1>0
<1>6. \A k \in Lanes : open'[k] = IF k = l THEN open[k] - n ELSE open[k]
  BY <1>1, <1>2, <1>5
<1>7. l \in Known' /\ (l = Boot => BeforeFirst(lastByte')) /\ <<CurTrack, Untagged>> = TagOf(l)
  BY <1>4, <1>5 DEF Running
<1>8. Told(Emitted(n, FALSE, CurTrack, Untagged))
  BY <1>6, <1>7, LaneEnds
<1> QED BY <1>1, <1>5, <1>8

\* The frames of the boot context end with the first switch.
LEMMA BootTold ==
  ASSUME TypeOK, Now, Deep, Boot \in Known', BeforeFirst(lastByte'), NEW t, SwitchThread(t), curThread = Boot
  PROVE  Told(Emitted(Len(ctx[1].stack) - 1, FALSE, 0, Boot)) /\ unbegun \subseteq unbegun'
<1>1. /\ open' = [open EXCEPT ![Boot] = open[Boot] - (Len(ctx[1].stack) - 1)]
      /\ unbegun \subseteq unbegun'
  BY DEF SwitchThread, EndBoot
<1>2. DOMAIN open = Lanes /\ Boot \in Lanes /\ Boot \notin Exceptions
  BY LanesAssumption DEF TypeOK, Lanes
<1>3. Len(ctx[1].stack) - 1 \in Nat
  <2>1. ctx \in Seq(Contexts) /\ 1 \in 1 .. Len(ctx)
    BY DEF TypeOK
  <2>2. ctx[1] \in Contexts
    BY <2>1
  <2>3. ctx[1].stack \in Stacks
    BY <2>2 DEF Contexts
  <2>4. Len(ctx[1].stack) \in Nat \ {0}
    BY <2>3 DEF Stacks
  <2> QED BY <2>4
<1>4. <<0, Boot>> = TagOf(Boot)
  BY <1>2 DEF TagOf
<1>5. PICK n \in Nat : n = Len(ctx[1].stack) - 1
  BY <1>3
<1>6. \A k \in Lanes : open'[k] = IF k = Boot THEN open[k] - n ELSE open[k]
  BY <1>1, <1>2, <1>5
<1>7. Told(Emitted(n, FALSE, 0, Boot))
  BY <1>4, <1>6, LaneEnds
<1> QED BY <1>1, <1>5, <1>7

\* Without a slice the depths stay.
LEMMA NothingTold ==
  ASSUME Deep, open' = open
  PROVE  Told(<<>>)
<1>1. <<>> \in Seq(Fresh(lastByte', cycles', stamp', Known')) /\ Len(<<>>) = 0
  OBVIOUS
<1>2. BootFirst(<<>>)
  BY <1>1 DEF BootFirst
<1>3. ASSUME NEW k \in Lanes PROVE Goes(<<>>, {TagOf(k)}, open[k], open'[k], unbegun' = {})
  <2>1. PICK a, T, sound : a = open[k] /\ T = {TagOf(k)} /\ sound = (unbegun' = {})
    OBVIOUS
  <2>2. a \in Int /\ a >= 0
    BY <2>1 DEF Deep
  <2>3. Goes(<<>>, T, a, a, sound)
    BY <2>2, GoesNowhere
  <2> QED BY <2>1, <2>3
<1> QED BY <1>1, <1>2, <1>3 DEF Told, LanesMove

\* The members of a finite set, each once.
LEMMA SetToSeqIs ==
  ASSUME NEW S, IsFiniteSet(S), NEW q, q = SetToSeq(S)
  PROVE  \E n \in Nat : /\ q \in [1 .. n -> S]
                        /\ \A i, j \in 1 .. n : q[i] = q[j] => i = j
                        /\ \A x \in S : \E i \in 1 .. n : q[i] = x
<1>1. PICK n \in Nat : n = Cardinality(S) /\ ExistsBijection(1 .. n, S)
  BY FS_CountingElements, FS_CardinalityType
<1>2. \E h \in [1 .. n -> S] : IsInjective(h)
  BY <1>1 DEF ExistsBijection, Bijection, Injection
<1>3. q \in [1 .. n -> S] /\ IsInjective(q)
  <2>1. q = CHOOSE h \in [1 .. n -> S] : IsInjective(h)
    BY <1>1, Zenon DEF SetToSeq
  <2> QED BY <1>2, <2>1
<1>4. \A i, j \in 1 .. n : q[i] = q[j] => i = j
  BY <1>3 DEF IsInjective
<1>5. \A x \in S : \E i \in 1 .. n : q[i] = x
  <2>1. IsFiniteSet(1 .. n) /\ Cardinality(1 .. n) = n
    BY FS_Interval
  <2>2. q \in Injection(1 .. n, S)
    BY <1>3 DEF Injection
  <2>3. q \in Surjection(1 .. n, S)
    BY <1>1, <2>1, <2>2, FS_Injection
  <2> QED BY <2>3 DEF Surjection
<1> QED BY <1>1, <1>3, <1>4, <1>5

\* The slices of several lists are as those of each.
LEMMA ListsTold ==
  ASSUME NEW S, NEW n \in Nat, NEW lists \in [1 .. n -> Seq(S)], \A i \in 1 .. n : BootFirst(lists[i])
  PROVE  FlattenSeq(lists) \in Seq(S) /\ BootFirst(FlattenSeq(lists))
<1>1. PICK h : Beginnings(h, S, lists, n)
  BY BeginningsExist
<1>2. FlattenSeq(lists) = h[n]
  BY <1>1, FlattenSeqIs
<1>3. /\ h \in [0 .. n -> Seq(S)] /\ h[0] = <<>>
      /\ \A i \in 1 .. n : h[i] = h[i - 1] \o lists[i]
  BY <1>1 DEF Beginnings
<1> DEFINE G == {i \in 0 .. n : BootFirst(h[i])}
<1>4. 0 \in G
  BY <1>3 DEF BootFirst
<1>5. ASSUME NEW i \in 1 .. n, i - 1 \in G PROVE i \in G
  <2>1. i - 1 \in 0 .. n /\ i \in 0 .. n
    OBVIOUS
  <2>2. PICK s, t : s = h[i - 1] /\ t = lists[i]
    OBVIOUS
  <2>3. s \in Seq(S) /\ t \in Seq(S) /\ BootFirst(s) /\ BootFirst(t) /\ h[i] = s \o t
    BY <1>3, <1>5, <2>1, <2>2
  <2>4. BootFirst(s \o t)
    BY <2>3, BootOfBoth
  <2> QED BY <2>1, <2>3, <2>4
<1>6. 0 .. n \subseteq G
  <2> HIDE DEF G
  <2> QED BY <1>4, <1>5, InductUpTo
<1>7. n \in 0 .. n
  OBVIOUS
<1> QED BY <1>2, <1>3, <1>6, <1>7

(* Lists of ENDs, the i-th of count[i] slices of the lane lane[i], take a     *)
(* lane from the depth v[0] to v[n].                                          *)
EndLists(lists, n, S, count, lane) ==
  /\ lists \in [1 .. n -> Seq(S)] /\ count \in [1 .. n -> Nat] /\ lane \in [1 .. n -> Lanes]
  /\ \A i \in 1 .. n : BootFirst(lists[i]) /\ Batch(lists[i], count[i], FALSE, TagOf(lane[i]))
FallsBy(v, n, count, lane, k) ==
  /\ v \in [0 .. n -> Nat]
  /\ \A i \in 1 .. n : v[i] = IF k = lane[i] THEN v[i - 1] - count[i] ELSE v[i - 1]
(* A list of ends, lane by lane, takes each lane down by the sum of its       *)
(* ends.                                                                      *)
LEMMA EndsGoDown ==
  ASSUME NEW S, NEW n \in Nat, NEW lists, NEW count, NEW lane, EndLists(lists, n, S, count, lane),
         NEW k \in Lanes, NEW v, FallsBy(v, n, count, lane, k), NEW sound
  PROVE  Goes(FlattenSeq(lists), {TagOf(k)}, v[0], v[n], sound)
<1>1. ASSUME NEW i \in 1 .. n PROVE Goes(lists[i], {TagOf(k)}, v[i - 1], v[i], sound)
  <2>1. i - 1 \in 0 .. n /\ i \in 0 .. n
    OBVIOUS
  <2>2. PICK a, b, c, l, s : a = v[i - 1] /\ b = v[i] /\ c = count[i] /\ l = lane[i] /\ s = lists[i]
    OBVIOUS
  <2>3. a \in Nat /\ b \in Nat /\ (b = IF k = l THEN a - c ELSE a)
    BY <2>1, <2>2 DEF FallsBy
  <2>4. c \in Nat /\ l \in Lanes
    BY <2>2 DEF EndLists
  <2>5. Batch(s, c, FALSE, TagOf(l))
    BY <2>2 DEF EndLists
  <2>6. a \in Int /\ a >= 0 /\ b \in Int /\ b >= 0
    BY <2>3
  <2>7. Goes(s, {TagOf(k)}, a, b, sound)
    BY ONLY <2>3, <2>4, <2>5, <2>6, k \in Lanes, LaneGoesDown
  <2> QED BY <2>2, <2>7
<1>2. PICK T : T = {TagOf(k)}
  OBVIOUS
<1>3. v \in [0 .. n -> Int] /\ lists \in [1 .. n -> Seq(S)] /\ v[0] >= 0
  BY DEF EndLists, FallsBy
<1>4. \A i \in 1 .. n : Goes(lists[i], T, v[i - 1], v[i], sound)
  BY <1>1, <1>2
<1>5. Goes(FlattenSeq(lists), T, v[0], v[n], sound)
  BY <1>3, <1>4, GoesThrough
<1> QED BY <1>2, <1>5

\* The lists of finish(): of the contexts, innermost first, and of the parked threads.
ContextEnds ==
  LET isrs == Reverse(Tail(ctx)) IN
  [i \in DOMAIN isrs |-> Emitted(Len(isrs[i].stack), FALSE, IsrTrack[isrs[i].track], Untagged)]
ParkedEnds ==
  LET left == SetToSeq(DOMAIN parked) IN
  [i \in DOMAIN left |-> Emitted(Len(parked[left[i]]) - 1, FALSE, 0, left[i])]

\* Every context but the first is of an exception whose lane is known.
ContextsKnown == \A i \in 2 .. Len(ctx) : ctx[i].track \in Known'
\* So is every parked thread, and none of them is the boot context.
ParkedKnown == DOMAIN parked \subseteq Known' /\ IsFiniteSet(DOMAIN parked)

(* The track of an exception context above the base is a lane of its own.     *)
LEMMA ContextAt ==
  ASSUME TypeOK, NEW j \in 2 .. Len(ctx)
  PROVE  /\ ctx[j].track \in Exceptions /\ ctx[j].track \in Lanes /\ ctx[j].track # Boot
         /\ Len(ctx[j].stack) \in Nat
         /\ <<IsrTrack[ctx[j].track], Untagged>> = TagOf(ctx[j].track)
<1>1. ctx \in Seq(Contexts) /\ j \in 1 .. Len(ctx) /\ j # 1
  BY DEF TypeOK
<1>2. ctx[j] \in Contexts /\ ctx[j].track # MainTrack
  BY <1>1 DEF TypeOK
<1>3. ctx[j].track \in Exceptions
  BY <1>2 DEF Contexts
<1>4. ctx[j].stack \in Stacks
  BY <1>2 DEF Contexts
<1>5. Len(ctx[j].stack) \in Nat
  BY <1>4 DEF Stacks
<1>6. ctx[j].track \in Lanes /\ ctx[j].track # Boot
  BY <1>3, LanesAssumption DEF Lanes
<1> QED BY <1>3, <1>5, <1>6 DEF TagOf

(* The ends of the exception contexts are such a list.                        *)
LEMMA ContextsEnd ==
  ASSUME TypeOK, Now, ContextsKnown, NEW n, n = Len(ctx) - 1
  PROVE  /\ n \in Nat
         /\ EndLists(ContextEnds, n, Fresh(lastByte', cycles', stamp', Known'),
                     [i \in 1 .. n |-> Len(ctx[n - i + 2].stack)],
                     [i \in 1 .. n |-> ctx[n - i + 2].track])
<1> DEFINE F == Fresh(lastByte', cycles', stamp', Known')
           count == [i \in 1 .. n |-> Len(ctx[n - i + 2].stack)]
           lane == [i \in 1 .. n |-> ctx[n - i + 2].track]
           isrs == Reverse(Tail(ctx))
<1>1. n \in Nat /\ Len(ctx) = n + 1 /\ ctx \in Seq(Contexts)
  BY DEF TypeOK
<1>2. DOMAIN isrs = 1 .. n /\ \A i \in 1 .. n : isrs[i] = ctx[n - i + 2]
  <2>1. Len(Tail(ctx)) = n /\ \A i \in 1 .. n : Tail(ctx)[i] = ctx[i + 1]
    BY <1>1
  <2>2. isrs = [i \in 1 .. n |-> Tail(ctx)[(n - i) + 1]]
    BY <2>1 DEF Reverse
  <2>3. DOMAIN isrs = 1 .. n
    BY <2>2
  <2>4. ASSUME NEW i \in 1 .. n PROVE isrs[i] = ctx[n - i + 2]
    <3>1. (n - i) + 1 \in 1 .. n /\ ((n - i) + 1) + 1 = n - i + 2
      BY <1>1
    <3>2. isrs[i] = Tail(ctx)[(n - i) + 1]
      BY <2>2
    <3>3. Tail(ctx)[(n - i) + 1] = ctx[((n - i) + 1) + 1]
      BY <2>1, <3>1
    <3> QED BY <3>1, <3>2, <3>3
  <2> QED BY <2>3, <2>4
<1>3. /\ DOMAIN ContextEnds = 1 .. n
      /\ \A i \in 1 .. n : ContextEnds[i] = Emitted(Len(isrs[i].stack), FALSE, IsrTrack[isrs[i].track], Untagged)
  BY <1>2 DEF ContextEnds
<1> HIDE DEF isrs
<1>4. ASSUME NEW i \in 1 .. n
      PROVE  /\ ContextEnds[i] \in Seq(F) /\ BootFirst(ContextEnds[i])
             /\ count[i] \in Nat /\ lane[i] \in Lanes
             /\ Batch(ContextEnds[i], count[i], FALSE, TagOf(lane[i]))
  <2>1. n - i + 2 \in 2 .. Len(ctx)
    BY <1>1
  <2>2. PICK l, c, s : l = ctx[n - i + 2].track /\ c = Len(ctx[n - i + 2].stack) /\ s = ContextEnds[i]
    OBVIOUS
  <2>3. c \in Nat /\ l \in Lanes /\ l # Boot /\ <<IsrTrack[l], Untagged>> = TagOf(l)
    BY <2>1, <2>2, ContextAt
  <2>4. l \in Known'
    BY <2>1, <2>2 DEF ContextsKnown
  <2>5. s = Emitted(c, FALSE, IsrTrack[l], Untagged)
    BY <1>2, <1>3, <2>2
  <2>6. s \in Seq(F) /\ BootFirst(s) /\ Batch(s, c, FALSE, TagOf(l))
    <3>1. FALSE \in BOOLEAN /\ (l = Boot => BeforeFirst(lastByte'))
      BY <2>3
    <3> QED BY <2>3, <2>4, <2>5, <3>1, OneLane
  <2>7. count[i] = c /\ lane[i] = l
    BY <2>2
  <2> HIDE DEF F, count, lane
  <2> QED BY <2>2, <2>3, <2>6, <2>7
<1>5. ContextEnds \in [1 .. n -> Seq(F)]
  <2>1. ContextEnds = [i \in 1 .. n |-> ContextEnds[i]]
    BY <1>3 DEF ContextEnds
  <2> HIDE DEF F
  <2> QED BY <1>4, <2>1
<1>6. count \in [1 .. n -> Nat] /\ lane \in [1 .. n -> Lanes]
  BY <1>4
<1> HIDE DEF F, count, lane
<1>7. EndLists(ContextEnds, n, F, count, lane)
  BY <1>4, <1>5, <1>6 DEF EndLists
<1> QED BY <1>1, <1>7 DEF F, count, lane

(* The ends of the parked threads are such a list, each thread once.          *)
LEMMA ParkedEnd ==
  ASSUME TypeOK, Now, ParkedKnown, NEW q, q = SetToSeq(DOMAIN parked)
  PROVE  \E n \in Nat :
           /\ q \in [1 .. n -> DOMAIN parked]
           /\ \A i, j \in 1 .. n : q[i] = q[j] => i = j
           /\ \A x \in DOMAIN parked : \E i \in 1 .. n : q[i] = x
           /\ EndLists(ParkedEnds, n, Fresh(lastByte', cycles', stamp', Known'),
                       [i \in 1 .. n |-> Len(parked[q[i]]) - 1], q)
<1> DEFINE F == Fresh(lastByte', cycles', stamp', Known')
<1>1. PICK n \in Nat : /\ q \in [1 .. n -> DOMAIN parked]
                       /\ \A i, j \in 1 .. n : q[i] = q[j] => i = j
                       /\ \A x \in DOMAIN parked : \E i \in 1 .. n : q[i] = x
  BY SetToSeqIs DEF ParkedKnown
<1> DEFINE count == [i \in 1 .. n |-> Len(parked[q[i]]) - 1]
<1>2. /\ DOMAIN ParkedEnds = 1 .. n
      /\ \A i \in 1 .. n : ParkedEnds[i] = Emitted(Len(parked[q[i]]) - 1, FALSE, 0, q[i])
  BY <1>1 DEF ParkedEnds
<1>3. ASSUME NEW i \in 1 .. n
      PROVE  /\ ParkedEnds[i] \in Seq(F) /\ BootFirst(ParkedEnds[i])
             /\ count[i] \in Nat /\ q[i] \in Lanes
             /\ Batch(ParkedEnds[i], count[i], FALSE, TagOf(q[i]))
  <2>1. PICK l, c, s : l = q[i] /\ c = Len(parked[q[i]]) - 1 /\ s = ParkedEnds[i]
    OBVIOUS
  <2>2. l \in DOMAIN parked /\ l \in Threads /\ l \in Known'
    BY <1>1, <2>1 DEF TypeOK, ParkedKnown
  <2>3. parked[l] \in Stacks
    BY <2>2 DEF TypeOK
  <2>4. c \in Nat
    <3>1. c = Len(parked[l]) - 1
      BY <2>1
    <3>2. Len(parked[l]) \in Nat \ {0}
      BY <2>3 DEF Stacks
    <3> QED BY <3>1, <3>2
  <2>5. l \in Lanes /\ l # Boot /\ l \notin Exceptions
    BY <2>2, LanesAssumption DEF Lanes
  <2>6. <<0, l>> = TagOf(l)
    BY <2>5 DEF TagOf
  <2>7. s = Emitted(c, FALSE, 0, l)
    BY <1>2, <2>1
  <2>8. s \in Seq(F) /\ BootFirst(s) /\ Batch(s, c, FALSE, TagOf(l))
    <3>1. FALSE \in BOOLEAN /\ (l = Boot => BeforeFirst(lastByte'))
      BY <2>5
    <3> QED BY <2>2, <2>4, <2>6, <2>7, <3>1, OneLane
  <2>9. count[i] = c
    BY <2>1
  <2> HIDE DEF F, count
  <2> QED BY <2>1, <2>4, <2>5, <2>8, <2>9
<1>4. ParkedEnds \in [1 .. n -> Seq(F)]
  <2>1. ParkedEnds = [i \in 1 .. n |-> ParkedEnds[i]]
    BY <1>2 DEF ParkedEnds
  <2> HIDE DEF F
  <2> QED BY <1>3, <2>1
<1>5. count \in [1 .. n -> Nat] /\ q \in [1 .. n -> Lanes]
  BY <1>1, <1>3
<1> HIDE DEF F, count
<1>6. EndLists(ParkedEnds, n, F, count, q)
  BY <1>3, <1>4, <1>5 DEF EndLists
<1> QED BY <1>1, <1>6 DEF F, count

(* The number of frames that contexts hold for a lane.                        *)
LEMMA FramesInNatural ==
  ASSUME NEW c, NEW e, Stacked(c)
  PROVE  FramesIn(c, e) \in Nat
<1> DEFINE S == OnTrack(c, e)
<1>1. IsFiniteSet(S)
  BY FramesInIsSum
<1>2. PICK sum : IsSum(sum, Depths(c, e), S) /\ FramesIn(c, e) = sum[S]
  BY FramesInIsSum
<1>3. Depths(c, e) \in [S -> Nat]
  BY DEF Depths, OnTrack, Stacked
<1>4. S \in SUBSET S
  OBVIOUS
<1>5. \A T \in SUBSET S : sum[T] \in Nat
  <2> HIDE DEF S
  <2> QED BY <1>1, <1>2, <1>3, SumNatural
<1> QED BY <1>2, <1>4, <1>5

\* The contexts take every exception's lane down to nothing.
LEMMA ContextsGoDown ==
  ASSUME TypeOK, Now, ContextsKnown, IsrLaneAccounts, NEW k \in Lanes, open[k] \in Nat, NEW sound
  PROVE  Goes(FlattenSeq(ContextEnds), {TagOf(k)}, open[k], IF k \in Exceptions THEN 0 ELSE open[k], sound)
<1> DEFINE F == Fresh(lastByte', cycles', stamp', Known')
           n == Len(ctx) - 1
           count == [i \in 1 .. n |-> Len(ctx[n - i + 2].stack)]
           lane == [i \in 1 .. n |-> ctx[n - i + 2].track]
<1>1. n \in Nat /\ Len(ctx) = n + 1 /\ ctx \in Seq(Contexts)
  BY DEF TypeOK
<1>2. EndLists(ContextEnds, n, F, count, lane)
  BY ContextsEnd
<1>3. CASE k \notin Exceptions
  <2> DEFINE v == [i \in 0 .. n |-> open[k]]
  <2>1. v \in [0 .. n -> Nat]
    OBVIOUS
  <2>2. ASSUME NEW i \in 1 .. n PROVE v[i] = IF k = lane[i] THEN v[i - 1] - count[i] ELSE v[i - 1]
    <3>1. n - i + 2 \in 2 .. Len(ctx) /\ i - 1 \in 0 .. n /\ i \in 0 .. n
      BY <1>1
    <3>2. ctx[n - i + 2].track \in Exceptions
      BY <3>1, ContextAt
    <3>3. lane[i] # k
      BY <3>2, <1>3
    <3> QED BY <3>1, <3>3
  <2>3. v[0] = open[k] /\ v[n] = open[k]
    BY <1>1
  <2> HIDE DEF F, count, lane, v
  <2>4. PICK m \in Nat : m = n
    BY <1>1
  <2>5. Goes(FlattenSeq(ContextEnds), {TagOf(k)}, v[0], v[m], sound)
    <3>1. v \in [0 .. m -> Nat] /\ EndLists(ContextEnds, m, F, count, lane)
      BY <2>1, <2>4, <1>2
    <3>2. FallsBy(v, m, count, lane, k)
      BY <2>1, <2>2, <2>4 DEF FallsBy
    <3> QED BY ONLY <3>1, <3>2, m \in Nat, k \in Lanes, EndsGoDown
  <2> QED BY <2>3, <2>4, <2>5, <1>3
<1>4. CASE k \in Exceptions
  <2> DEFINE cut(i) == SubSeq(ctx, 1, n + 1 - i)
             v == [i \in 0 .. n |-> FramesIn(cut(i), k)]
  <2>1. ASSUME NEW i \in 0 .. n
        PROVE  /\ cut(i) \in Seq(Contexts) \ {<<>>} /\ Stacked(cut(i)) /\ Len(cut(i)) = n + 1 - i
               /\ \A j \in 1 .. n + 1 - i : cut(i)[j] = ctx[j]
    <3>0. PICK m \in Nat : m = n + 1 - i /\ m \in 1 .. Len(ctx)
      <4>1. n + 1 - i \in Nat /\ n + 1 - i \in 1 .. Len(ctx)
        BY <1>1
      <4> QED BY <4>1
    <3>1. cut(i) \in Seq(Contexts) /\ Len(cut(i)) = n + 1 - i /\ \A j \in 1 .. n + 1 - i : cut(i)[j] = ctx[j]
      <4>1. PICK c : c = SubSeq(ctx, 1, m)
        OBVIOUS
      <4>2. c \in Seq(Contexts) /\ Len(c) = m /\ \A j \in 1 .. m : c[j] = ctx[j]
        BY ONLY <4>1, <3>0, <1>1
      <4> QED BY <3>0, <4>1, <4>2
    <3>2. cut(i) # <<>>
      <4>1. Len(cut(i)) # 0
        BY <3>0, <3>1
      <4> HIDE DEF cut
      <4> QED BY <4>1
    <3> HIDE DEF cut
    <3>3. cut(i) \in Seq(Contexts) \ {<<>>}
      BY <3>1, <3>2
    <3>4. Stacked(cut(i))
      BY <3>3, StackedContexts
    <3> QED BY <3>1, <3>3, <3>4
  <2>2. v \in [0 .. n -> Nat]
    <3> HIDE DEF cut
    <3> QED BY <2>1, FramesInNatural
  <2>3. v[0] = open[k]
    <3>1. cut(0) = ctx
      BY <1>1
    <3>2. open[k] = FramesIn(ctx, k)
      BY <1>4, FramesOnIsIn DEF IsrLaneAccounts
    <3>3. 0 \in 0 .. n
      BY <1>1
    <3> HIDE DEF cut
    <3> QED BY <3>1, <3>2, <3>3
  <2>4. v[n] = 0
    <3>1. n \in 0 .. n /\ n + 1 - n = 1
      BY <1>1
    <3>2. Stacked(cut(n)) /\ Len(cut(n)) = 1
      BY <2>1, <3>1
    <3> HIDE DEF cut
    <3> QED BY <3>1, <3>2, FramesNone
  <2>5. ASSUME NEW i \in 1 .. n PROVE v[i] = IF k = lane[i] THEN v[i - 1] - count[i] ELSE v[i - 1]
    <3>1. i - 1 \in 0 .. n /\ i \in 0 .. n /\ n + 1 - (i - 1) = n - i + 2 /\ n - i + 2 = (n + 1 - i) + 1
          /\ n - i + 2 \in 1 .. n + 1 - (i - 1)
      BY <1>1
    <3>2. PICK c, d : c = cut(i - 1) /\ d = cut(i)
      OBVIOUS
    <3>3. Stacked(c) /\ Stacked(d) /\ Len(c) = n - i + 2 /\ Len(c) = Len(d) + 1
      BY <2>1, <3>1, <3>2
    <3>4. \A j \in 2 .. Len(d) : c[j].track = d[j].track /\ Len(c[j].stack) = Len(d[j].stack)
      <4>1. SUFFICES ASSUME NEW j \in 2 .. Len(d) PROVE c[j] = d[j]
        OBVIOUS
      <4>2. Len(d) = n + 1 - i
        BY <2>1, <3>1, <3>2
      <4>3. j \in 1 .. n + 1 - i /\ j \in 1 .. n + 1 - (i - 1)
        BY <4>2, <1>1
      <4>4. cut(i)[j] = ctx[j]
        BY <2>1, <3>1, <4>3
      <4>5. cut(i - 1)[j] = ctx[j]
        BY <2>1, <3>1, <4>3
      <4> HIDE DEF cut
      <4> QED BY <4>4, <4>5, <3>2
    <3>5. c[Len(c)] = ctx[n - i + 2]
      BY <2>1, <3>1, <3>2, <3>3
    <3>6. /\ FramesIn(d, k) \in Int
          /\ FramesIn(c, k) = IF c[Len(c)].track = k THEN FramesIn(d, k) + Len(c[Len(c)].stack)
                              ELSE FramesIn(d, k)
      BY ONLY <3>3, <3>4, FramesSplit
    <3>7. v[i] = FramesIn(d, k) /\ v[i - 1] = FramesIn(c, k)
      BY <3>1, <3>2
    <3>8. lane[i] = c[Len(c)].track /\ count[i] = Len(c[Len(c)].stack)
      BY <3>5
    <3>9. Len(c[Len(c)].stack) \in Nat
      <4>1. Len(c) \in 1 .. Len(c)
        BY <3>3 DEF Stacked
      <4> QED BY <3>3, <4>1 DEF Stacked
    <3> HIDE DEF v, lane, count, cut
    <3> QED BY <3>6, <3>7, <3>8, <3>9
  <2> HIDE DEF F, count, lane, v
  <2>6. PICK m \in Nat : m = n
    BY <1>1
  <2>7. Goes(FlattenSeq(ContextEnds), {TagOf(k)}, v[0], v[m], sound)
    <3>1. v \in [0 .. m -> Nat] /\ EndLists(ContextEnds, m, F, count, lane)
      BY <2>2, <2>6, <1>2
    <3>2. FallsBy(v, m, count, lane, k)
      BY <2>2, <2>5, <2>6 DEF FallsBy
    <3> QED BY ONLY <3>1, <3>2, m \in Nat, k \in Lanes, EndsGoDown
  <2> QED BY <2>3, <2>4, <2>6, <2>7, <1>4
<1> QED BY <1>3, <1>4

\* The parked threads' lanes go down to nothing, each at its turn.
LEMMA ParkedGoDown ==
  ASSUME TypeOK, Now, ParkedKnown, NEW k \in Lanes, NEW a \in Nat,
         k \in DOMAIN parked => a = Len(parked[k]) - 1, NEW sound
  PROVE  Goes(FlattenSeq(ParkedEnds), {TagOf(k)}, a, IF k \in DOMAIN parked THEN 0 ELSE a, sound)
<1> DEFINE F == Fresh(lastByte', cycles', stamp', Known')
           q == SetToSeq(DOMAIN parked)
<1>1. PICK n \in Nat :
           /\ q \in [1 .. n -> DOMAIN parked]
           /\ \A i, j \in 1 .. n : q[i] = q[j] => i = j
           /\ \A x \in DOMAIN parked : \E i \in 1 .. n : q[i] = x
           /\ EndLists(ParkedEnds, n, F, [i \in 1 .. n |-> Len(parked[q[i]]) - 1], q)
  BY ParkedEnd
<1> DEFINE count == [i \in 1 .. n |-> Len(parked[q[i]]) - 1]
           v == [i \in 0 .. n |-> IF \E j \in 1 .. i : q[j] = k THEN 0 ELSE a]
<1>2. v \in [0 .. n -> Nat] /\ v[0] = a
  OBVIOUS
<1>3. v[n] = IF k \in DOMAIN parked THEN 0 ELSE a
  BY <1>1
<1>4. ASSUME NEW i \in 1 .. n PROVE v[i] = IF k = q[i] THEN v[i - 1] - count[i] ELSE v[i - 1]
  <2>1. i - 1 \in 0 .. n /\ i \in 0 .. n /\ i - 1 \in Int
    OBVIOUS
  <2>2. CASE q[i] = k
    <3>1. v[i] = 0
      BY <2>1, <2>2
    <3>2. ~\E j \in 1 .. i - 1 : q[j] = k
      <4>1. SUFFICES ASSUME NEW j \in 1 .. i - 1, q[j] = k PROVE FALSE
        OBVIOUS
      <4>2. j \in 1 .. n /\ j # i
        BY <2>1
      <4> QED BY <1>1, <2>2, <4>1, <4>2
    <3>3. v[i - 1] = a
      BY <2>1, <3>2
    <3>4. a = count[i]
      BY <1>1, <2>2
    <3> HIDE DEF v, count
    <3> QED BY <2>2, <3>1, <3>3, <3>4
  <2>3. CASE q[i] # k
    <3>1. (\E j \in 1 .. i : q[j] = k) <=> \E j \in 1 .. i - 1 : q[j] = k
      <4>1. ASSUME NEW j \in 1 .. i, q[j] = k PROVE j \in 1 .. i - 1
        BY <2>1, <2>3, <4>1
      <4>2. \A j \in 1 .. i - 1 : j \in 1 .. i
        BY <2>1
      <4> QED BY <4>1, <4>2
    <3>2. v[i] = v[i - 1]
      BY <2>1, <3>1
    <3> HIDE DEF v, count
    <3> QED BY <2>3, <3>2
  <2> QED BY <2>2, <2>3
<1>5. EndLists(ParkedEnds, n, F, count, q)
  BY <1>1
<1> HIDE DEF F, count, q, v
<1>6. FallsBy(v, n, count, q, k)
  BY <1>2, <1>4 DEF FallsBy
<1>7. Goes(FlattenSeq(ParkedEnds), {TagOf(k)}, v[0], v[n], sound)
  BY ONLY <1>5, <1>6, n \in Nat, k \in Lanes, EndsGoDown
<1> QED BY <1>2, <1>3, <1>7

(* The stack of the base context holds at least the root.                     *)
LEMMA BaseStack ==
  ASSUME TypeOK
  PROVE  Len(ctx[1].stack) - 1 \in Nat
<1>1. ctx \in Seq(Contexts) /\ 1 \in 1 .. Len(ctx)
  BY DEF TypeOK
<1>2. ctx[1] \in Contexts
  BY <1>1
<1>3. ctx[1].stack \in Stacks
  BY <1>2 DEF Contexts
<1>4. Len(ctx[1].stack) \in Nat \ {0}
  BY <1>3 DEF Stacks
<1> QED BY <1>4

\* finish() takes every lane down to nothing.
LEMMA EndTold ==
  ASSUME TypeOK, ThreadLaneAccounts, IsrLaneAccounts, Now, Deep, ContextsKnown, ParkedKnown,
         curThread \in Known', curThread = Boot => BeforeFirst(lastByte'), Finish
  PROVE  Told(Ends) /\ unbegun \subseteq unbegun'
<1> DEFINE F == Fresh(lastByte', cycles', stamp', Known')
           A == FlattenSeq(ContextEnds)
           n == Len(ctx[1].stack) - 1
           B == Emitted(n, FALSE, 0, curThread)
           C == FlattenSeq(ParkedEnds)
<1>1. Ends = A \o B \o C
  BY Zenon DEF Ends, ContextEnds, ParkedEnds
<1>2. A \in Seq(F) /\ BootFirst(A)
  <2>1. PICK m, count, lane : m \in Nat /\ EndLists(ContextEnds, m, F, count, lane)
    BY ContextsEnd
  <2>2. ContextEnds \in [1 .. m -> Seq(F)] /\ \A i \in 1 .. m : BootFirst(ContextEnds[i])
    BY <2>1 DEF EndLists
  <2> HIDE DEF F
  <2> QED BY <2>1, <2>2, ListsTold
<1>3. n \in Nat /\ curThread \in Lanes /\ curThread \notin Exceptions /\ <<0, curThread>> = TagOf(curThread)
  <2>1. curThread \in Lanes /\ curThread \notin Exceptions
    BY LanesAssumption DEF TypeOK, Lanes
  <2> QED BY <2>1, BaseStack DEF TagOf
<1>4. B \in Seq(F) /\ BootFirst(B) /\ Batch(B, n, FALSE, TagOf(curThread))
  <2>1. FALSE \in BOOLEAN
    OBVIOUS
  <2> QED BY <1>3, <2>1, OneLane
<1>5. C \in Seq(F) /\ BootFirst(C)
  <2>0. PICK q : q = SetToSeq(DOMAIN parked)
    OBVIOUS
  <2>1. \E m \in Nat : EndLists(ParkedEnds, m, F, [i \in 1 .. m |-> Len(parked[q[i]]) - 1], q)
    BY <2>0, ParkedEnd
  <2>2. PICK m, count, lane : m \in Nat /\ EndLists(ParkedEnds, m, F, count, lane)
    BY <2>1
  <2>3. ParkedEnds \in [1 .. m -> Seq(F)] /\ \A i \in 1 .. m : BootFirst(ParkedEnds[i])
    BY <2>2 DEF EndLists
  <2> HIDE DEF F
  <2> QED BY <2>2, <2>3, ListsTold
<1>6. /\ DOMAIN parked \subseteq Threads \ {curThread}
      /\ unbegun \subseteq unbegun'
      /\ \A l \in Lanes : open'[l] = open[l] - FramesOn(l)
  BY DEF TypeOK, Finish
<1>7. ASSUME NEW k \in Lanes
      PROVE  /\ open[k] \in Nat /\ open'[k] = 0
             /\ k = curThread => open[k] = n
             /\ k \in DOMAIN parked => open[k] = Len(parked[k]) - 1
             /\ k \notin DOMAIN parked /\ k # curThread /\ k \notin Exceptions => open[k] = 0
  <2>1. open[k] \in Nat
    BY DEF Deep
  <2>2. CASE k \in Exceptions
    <3>1. open[k] = FramesOn(k)
      BY <2>2 DEF IsrLaneAccounts
    <3>2. k \notin Threads
      BY <2>2, LanesAssumption
    <3> QED BY <2>1, <2>2, <3>1, <3>2, <1>3, <1>6
  <2>3. CASE k \notin Exceptions
    <3>1. k \in Threads \cup {Boot}
      BY <2>3 DEF Lanes
    <3>2. open[k] = Len(StackOf(k)) - 1 /\ FramesOn(k) = Len(StackOf(k)) - 1
      BY <2>3, <3>1 DEF ThreadLaneAccounts, FramesOn
    <3>3. open'[k] = 0
      BY <2>1, <3>2, <1>6
    <3>4. k = curThread => open[k] = n
      BY <3>2 DEF StackOf
    <3>5. k \in DOMAIN parked => open[k] = Len(parked[k]) - 1
      BY <3>2, <1>6 DEF StackOf
    <3>6. k \notin DOMAIN parked /\ k # curThread => open[k] = 0
      <4>1. Len(FreshStack) = 1
        BY DEF FreshStack
      <4> QED BY <3>2, <4>1 DEF StackOf
    <3> QED BY <2>1, <3>3, <3>4, <3>5, <3>6
  <2> QED BY <2>2, <2>3
<1> HIDE DEF A, B, C, F, n
<1>8. ASSUME NEW k \in Lanes
      PROVE  Goes(A \o B \o C, {TagOf(k)}, open[k], open'[k], unbegun' = {})
  <2>1. PICK T, sound, a, b, c : /\ T = {TagOf(k)} /\ sound = (unbegun' = {}) /\ a = open[k]
                                 /\ b = (IF k \in Exceptions THEN 0 ELSE a)
                                 /\ c = (IF k = curThread THEN 0 ELSE b)
    OBVIOUS
  <2>2. a \in Nat /\ b \in Nat /\ c \in Nat
    BY <1>7, <2>1
  <2>3. Goes(A, T, a, b, sound)
    <3>1. Goes(FlattenSeq(ContextEnds), {TagOf(k)}, open[k], IF k \in Exceptions THEN 0 ELSE open[k], sound)
      BY <1>7, ContextsGoDown
    <3> QED BY <2>1, <3>1 DEF A
  <2>4. Goes(B, T, b, c, sound)
    <3>1. c = IF k = curThread THEN b - n ELSE b
      BY <1>3, <1>7, <2>1, <2>2
    <3>2. PICK l : l = curThread
      OBVIOUS
    <3>3. /\ l \in Lanes /\ Batch(B, n, FALSE, TagOf(l)) /\ (c = IF k = l THEN b - n ELSE b)
          /\ b \in Int /\ c \in Int /\ b >= 0 /\ c >= 0
      <4>1. l \in Lanes
        BY <1>3, <3>2
      <4>2. Batch(B, n, FALSE, TagOf(l))
        BY <1>4, <3>2
      <4>3. c = IF k = l THEN b - n ELSE b
        BY <3>1, <3>2
      <4>4. b \in Int /\ c \in Int /\ b >= 0 /\ c >= 0
        BY <2>2
      <4> QED BY ONLY <4>1, <4>2, <4>3, <4>4
    <3>4. Goes(B, {TagOf(k)}, b, c, sound)
      BY ONLY <3>3, <1>3, k \in Lanes, LaneGoesDown
    <3> QED BY <2>1, <3>4
  <2>5. Goes(C, T, c, open'[k], sound)
    <3>1. k \in DOMAIN parked => c = Len(parked[k]) - 1
      <4>1. k \in DOMAIN parked => k # curThread /\ k \notin Exceptions
        BY <1>6, LanesAssumption
      <4> QED BY <4>1, <1>7, <2>1
    <3>2. open'[k] = IF k \in DOMAIN parked THEN 0 ELSE c
      BY <1>7, <2>1
    <3>3. Goes(FlattenSeq(ParkedEnds), {TagOf(k)}, c, IF k \in DOMAIN parked THEN 0 ELSE c, sound)
      BY <2>2, <3>1, ParkedGoDown
    <3> QED BY <2>1, <3>2, <3>3 DEF C
  <2>6. A \o B \in Seq(F)
    BY <1>2, <1>4
  <2>7. Goes(A \o B, T, a, c, sound)
    <3>1. A \in Seq(F) /\ B \in Seq(F)
      BY <1>2, <1>4
    <3> QED BY ONLY <2>3, <2>4, <3>1, GoesFurther
  <2>8. PICK D, o : D = A \o B /\ o = open'[k]
    OBVIOUS
  <2>9. Goes(D \o C, T, a, o, sound)
    <3>1. D \in Seq(F) /\ C \in Seq(F) /\ Goes(D, T, a, c, sound) /\ Goes(C, T, c, o, sound)
      BY <1>5, <2>5, <2>6, <2>7, <2>8
    <3> QED BY ONLY <3>1, GoesFurther
  <2> QED BY <2>1, <2>8, <2>9
<1>9. A \o B \o C \in Seq(F)
  <2>1. A \o B \in Seq(F)
    BY <1>2, <1>4
  <2> QED BY <1>5, <2>1
<1>10. BootFirst(A \o B \o C)
  <2>1. A \in Seq(F) /\ B \in Seq(F) /\ C \in Seq(F) /\ BootFirst(A) /\ BootFirst(B) /\ BootFirst(C)
    BY <1>2, <1>4, <1>5
  <2>2. PICK D : D = A \o B
    OBVIOUS
  <2>3. D \in Seq(F) /\ BootFirst(D)
    BY <2>1, <2>2, BootOfBoth
  <2>4. BootFirst(D \o C)
    BY <2>1, <2>3, BootOfBoth
  <2> QED BY <2>2, <2>4
<1> QED BY <1>1, <1>6, <1>8, <1>9, <1>10 DEF Told, LanesMove, F

------------------------------------------------------------------------------
(* The names in the machine's state are known to the tool.                    *)

ContextsNamed == \A i \in 2 .. Len(ctx) : ctx[i].track \in Known
ParkedNamed == DOMAIN parked \subseteq TidsOf(runs)
NamesInv ==
  /\ capture \in Captures /\ ContextsNamed /\ ParkedNamed
  /\ curThread = Boot => BeforeFirst(lastByte)

(* The threads of the log are finitely many, and the boot is none of them.    *)
LEMMA TidsAreThreads ==
  ASSUME Inputs, capture \in Captures
  PROVE  TidsOf(runs) \subseteq Threads /\ IsFiniteSet(TidsOf(runs)) /\ Boot \notin TidsOf(runs)
<1>1. PICK n \in Nat : n = Len(runs) /\ DOMAIN runs = 1 .. n
  <2>1. PICK at, q, news, r : MadeOf(runs, at, q, news, r)
    BY SwitchesMakeRuns DEF Inputs
  <2> QED BY <2>1 DEF MadeOf, Enumerates
<1>2. \A k \in 1 .. n : runs[k].tid \in Threads
  BY <1>1, RunsAreOfThreads
<1>3. TidsOf(runs) \subseteq Threads
  BY <1>1, <1>2 DEF TidsOf
<1>4. IsFiniteSet(TidsOf(runs))
  <2>1. IsFiniteSet(1 .. n)
    BY FS_Interval
  <2> DEFINE tid == [k \in 1 .. n |-> runs[k].tid]
  <2>2. tid \in Surjection(1 .. n, TidsOf(runs))
    <3>1. tid \in [1 .. n -> TidsOf(runs)]
      BY <1>1 DEF TidsOf
    <3>2. \A t \in TidsOf(runs) : \E k \in 1 .. n : tid[k] = t
      BY <1>1 DEF TidsOf
    <3> HIDE DEF tid
    <3> QED BY <3>1, <3>2 DEF Surjection
  <2> HIDE DEF tid
  <2> QED BY <2>1, <2>2, FS_Surjection
<1> QED BY <1>3, <1>4, LanesAssumption

\* The names that are known are the machine's.
LEMMA KnownAreLanes ==
  ASSUME Inputs, capture \in Captures
  PROVE  Known \subseteq Lanes
BY TidsAreThreads DEF Known, Lanes

(* The sizes after a step are numbers.                                        *)
LEMMA SizesAreNext == Inputs' => EtmSize' \in Nat /\ Len(runs') \in Nat
<1>1. Inputs => EtmSize \in Nat /\ Len(runs) \in Nat
  BY SizesAre
<1>2. (Inputs => EtmSize \in Nat /\ Len(runs) \in Nat)'
  BY <1>1, PTL
<1> QED BY <1>2

(* The lanes known after a step are lanes of the machine.                     *)
LEMMA KnownAreLanesNext == Inputs' /\ capture' \in Captures => Known' \subseteq Lanes
<1>1. Inputs /\ capture \in Captures => Known \subseteq Lanes
  BY KnownAreLanes
<1>2. (Inputs /\ capture \in Captures => Known \subseteq Lanes)'
  BY <1>1, PTL
<1>3. Lanes' = Lanes
  BY DEF Lanes
<1> QED BY <1>2, <1>3

(* The tool goes on in the order of the bytes, cycles and time stamps.        *)
LEMMA ItGoesOn ==
  ASSUME CoverageInv, ScheduleInv, FeedInv, NamesInv, [ToolNext]_<<vars, toolVars>>
  PROVE  GoOn /\ capture' = capture
<1>1. ScheduleInv' /\ FeedInv'
  BY ScheduleKept, FeedKept
<1>2. capture' = capture /\ runs' = runs
  BY DEF ToolNext, Generate, SwitchIn, Process, EndAll, toolVars, inputs
<1>3. /\ lastByte \in Nat /\ cycles \in Nat /\ stamp \in Nat
  BY SizesAre DEF ScheduleInv, ClockTypes
<1>5. /\ lastByte' \in Nat /\ cycles' \in Nat /\ stamp' \in Nat
  BY <1>1, SizesAreNext DEF ScheduleInv, ClockTypes
<1>6. Known \subseteq Known'
  <2>1. ASSUME NEW g \in Generated, NEW byte \in 0 .. EtmSize, Generate(g, byte)
        PROVE  \A k \in DOMAIN seen : k \in DOMAIN seen' /\ seen'[k] = seen[k]
    <3>1. seen' = Append(seen, element') /\ seen \in Seq(Elements)
      BY <2>1 DEF Generate, CoverageInv, ReportTypes
    <3> QED BY <3>1
  <2>2. CASE ~\E g \in Generated, byte \in 0 .. EtmSize : Generate(g, byte)
    <3>1. seen' = seen
      BY <2>2 DEF ToolNext, SwitchIn, Process, EndAll, toolVars, report
    <3> QED BY <1>2, <3>1 DEF Known, Entered
  <2>3. ASSUME NEW g \in Generated, NEW byte \in 0 .. EtmSize, Generate(g, byte)
        PROVE  Entered \subseteq Entered'
    BY <2>1, <2>3 DEF Entered
  <2> QED BY <1>2, <2>2, <2>3 DEF Known
<1>7. Known' \subseteq Lanes
  BY <1>1, <1>2, KnownAreLanesNext DEF ScheduleInv, NamesInv
<1>8. lastByte <= lastByte' /\ cycles <= cycles' /\ stamp <= stamp'
  <2>1. CASE Process
    <3>1. /\ element # None /\ lastByte' = element.byte /\ cycles' = cycles + element.cycles
          /\ stamp' = IF element.kind = "Timestamp" THEN element.number ELSE stamp
      BY <2>1 DEF Process
    <3>2. seen # <<>> /\ element.byte = LastSeen /\ element.cycles \in Nat
          /\ (element.kind = "Timestamp" => element.number = Len(seen))
      BY <3>1 DEF ScheduleInv, ElementKnown, FeedInv, Fed
    <3>3. lastByte <= LastSeen /\ stamp <= Len(seen)
      BY <3>2 DEF FeedInv, ClocksBehind
    <3> QED BY <1>3, <3>1, <3>2, <3>3
  <2>2. CASE ~Process
    <3>1. lastByte' = lastByte /\ cycles' = cycles /\ stamp' = stamp
      BY <2>2 DEF ToolNext, Generate, SwitchIn, EndAll, toolVars, clocks
    <3> QED BY <1>3, <3>1
  <2> QED BY <2>1, <2>2
<1> QED BY <1>2, <1>3, <1>5, <1>6, <1>7, <1>8 DEF GoOn

\* As long as no thread is switched in, no switch has come.
LEMMA BootRunsFirst ==
  ASSUME ScheduleInv, capture \in Captures, curThread = Boot
  PROVE  nextSwitch = 1
<1>1. nextSwitch \in 1 .. Len(runs) + 1 /\ Len(runs) \in Nat
  BY SizesAre DEF ScheduleInv, SwitchedInTime
<1>2. ASSUME nextSwitch # 1 PROVE FALSE
  <2>1. nextSwitch - 1 \in 1 .. Len(runs)
    BY <1>1, <1>2
  <2>2. runs[nextSwitch - 1].tid \in Threads
    BY <2>1, RunsAreOfThreads DEF ScheduleInv
  <2>3. curThread = runs[nextSwitch - 1].tid
    BY <1>2 DEF ScheduleInv, SwitchedInTime
  <2> QED BY <2>2, <2>3, LanesAssumption
<1> QED BY <1>2

\* The element that is processed is not of behind the next switch.
LEMMA ProcessedBefore ==
  ASSUME ScheduleInv, capture \in Captures, Process, curThread = Boot
  PROVE  BeforeFirst(lastByte')
<1>1. nextSwitch = 1
  BY BootRunsFirst
<1>2. element # None /\ ~Due /\ lastByte' = element.byte
  BY DEF Process
<1>3. Len(runs) \in Nat /\ EtmSize \in Nat
  BY SizesAre DEF ScheduleInv
<1>4. lastByte' \in Int
  BY <1>2, <1>3 DEF ScheduleInv, ElementKnown
<1> SUFFICES ASSUME runs # <<>> PROVE lastByte' <= runs[1].begin
  BY DEF BeforeFirst
<1>5. 1 \in 1 .. Len(runs)
  <2>1. PICK at, q, news, r : MadeOf(runs, at, q, news, r)
    BY SwitchesMakeRuns DEF Inputs, ScheduleInv
  <2>2. Len(runs) # 0
    BY <2>1 DEF MadeOf, Enumerates
  <2> QED BY <1>3, <2>2
<1>6. runs[1].begin \in Int
  BY <1>5, RunBegins DEF ScheduleInv
<1>7. ~(runs[1].begin <= element.byte)
  BY <1>1, <1>2, <1>3, <1>5 DEF Due
<1> QED BY <1>2, <1>4, <1>6, <1>7

\* A call leaves the tracks of the contexts alone, and opens one at most.
TracksStay == \A i \in 2 .. Len(ctx') : i \in 2 .. Len(ctx) /\ ctx'[i].track = ctx[i].track
(* Only an exception adds a track to the contexts.                            *)
LEMMA CallsKeepTracks ==
  ASSUME TypeOK, (\E r \in Ranges : InstrRange(r)) \/ ExceptionRet \/ Discontinuity
                 \/ (\E t : SwitchThread(t)) \/ Finish \/ ctx' = ctx
  PROVE  TracksStay
<1>1. PICK n \in Nat : n = Len(ctx) /\ n # 0 /\ ctx \in Seq(Contexts)
  BY DEF TypeOK
<1>2. ASSUME NEW r \in Ranges, InstrRange(r) PROVE TracksStay
  <2>1. PICK x : /\ x.track = ctx[n].track /\ ctx' = [ctx EXCEPT ![n] = x]
    BY <1>1, <1>2 DEF InstrRange, Innermost
  <2>2. Len(ctx') = n /\ \A i \in 1 .. n : ctx'[i] = IF i = n THEN x ELSE ctx[i]
    BY <1>1, <2>1
  <2> QED BY <1>1, <2>1, <2>2 DEF TracksStay
<1>3. CASE LeaveContext
  <2>1. n > 1 /\ ctx' = [Front(ctx) EXCEPT ![n - 1].pending = NoCall]
    BY <1>1, <1>3 DEF LeaveContext
  <2>2. PICK c : c = Front(ctx)
    OBVIOUS
  <2>3. Len(c) = n - 1 /\ (\A i \in 1 .. n - 1 : c[i] = ctx[i]) /\ c \in Seq(Contexts)
    <3>1. c = SubSeq(ctx, 1, n - 1) /\ n - 1 \in 1 .. n
      BY <1>1, <2>1, <2>2 DEF Front
    <3> QED BY ONLY <3>1, <1>1
  <2>4. Len(ctx') = n - 1
    BY <2>1, <2>2, <2>3
  <2>5. ASSUME NEW i \in 1 .. n - 1 PROVE ctx'[i].track = ctx[i].track
    <3>1. i \in DOMAIN c /\ c[i] \in Contexts
      BY <2>3
    <3>2. ctx'[i] = IF i = n - 1 THEN [c[i] EXCEPT !.pending = NoCall] ELSE c[i]
      BY <2>1, <2>2, <3>1
    <3>3. ctx'[i].track = c[i].track
      BY <3>1, <3>2 DEF Contexts
    <3> QED BY <2>3, <3>3
  <2> QED BY <1>1, <2>1, <2>4, <2>5 DEF TracksStay
<1>4. ASSUME NEW t, SwitchThread(t) PROVE TracksStay
  <2>1. PICK x : ctx' = [ctx EXCEPT ![1].stack = x]
    BY <1>4 DEF SwitchThread, TakeUp
  <2>2. Len(ctx') = n /\ \A i \in 1 .. n : i # 1 => ctx'[i] = ctx[i]
    BY <1>1, <2>1
  <2> QED BY <1>1, <2>2 DEF TracksStay
<1>5. CASE Finish
  <2>1. Len(ctx') = 1
    BY <1>5 DEF Finish
  <2> QED BY <2>1 DEF TracksStay
<1>6. CASE UnmatchedExceptionRet \/ Discontinuity \/ ctx' = ctx
  BY <1>6, <1>1 DEF UnmatchedExceptionRet, Discontinuity, TracksStay
<1> QED BY <1>2, <1>3, <1>4, <1>5, <1>6 DEF ExceptionRet

\* The threads that are parked are those that ran.
LEMMA CallsKeepParked ==
  ASSUME TypeOK, ParkedNamed, curThread = Boot \/ curThread \in TidsOf(runs), runs' = runs,
         [Next]_vars \/ Quiet
  PROVE  ParkedNamed'
<1>1. DOMAIN parked \subseteq TidsOf(runs)
  BY DEF ParkedNamed
<1>2. TidsOf(runs)' = TidsOf(runs)
  BY DEF TidsOf
<1>3. DOMAIN parked' \subseteq TidsOf(runs)
  <2>1. ASSUME NEW t, SwitchThread(t) PROVE DOMAIN parked' \subseteq TidsOf(runs)
    <3>1. parked' = Without(ParkedAfterLeaving, t)
      BY <2>1 DEF SwitchThread, TakeUp
    <3>2. DOMAIN ParkedAfterLeaving \subseteq TidsOf(runs)
      BY <1>1 DEF ParkedAfterLeaving, With
    <3> QED BY <3>1, <3>2 DEF Without, Restrict
  <2>2. CASE Finish
    BY <2>2 DEF Finish
  <2>3. CASE Quiet \/ UNCHANGED vars
    BY <1>1, <2>3 DEF Quiet, vars, core
  <2>4. ASSUME NEW r, InstrRange(r) PROVE parked' = parked
    BY <2>4 DEF InstrRange
  <2>5. ASSUME NEW e, Exception(e) PROVE parked' = parked
    BY <2>5 DEF Exception
  <2>6. CASE ExceptionRet \/ Discontinuity
    BY <2>6, <1>1 DEF ExceptionRet, LeaveContext, UnmatchedExceptionRet, Discontinuity
  <2> QED BY <1>1, <2>1, <2>2, <2>3, <2>4, <2>5, <2>6 DEF Next
<1> QED BY <1>2, <1>3 DEF ParkedNamed

\* The exception in the sink is known.
LEMMA ExceptionKnown ==
  ASSUME CoverageInv, FeedInv, element # None, element.kind = "Exception"
  PROVE  element.number \in Exceptions /\ element.number \in Known
<1>1. seen # <<>> /\ element = seen[Len(seen)] /\ element.number \in Exceptions
  BY DEF FeedInv, Fed
<1>2. Len(seen) \in DOMAIN seen
  BY <1>1 DEF CoverageInv, ReportTypes
<1> QED BY <1>1, <1>2 DEF Known, Entered

(* The running thread is the boot or one of the log.                          *)
LEMMA RunningThreadKnown ==
  ASSUME ScheduleInv
  PROVE  curThread = Boot \/ curThread \in TidsOf(runs)
<1>1. nextSwitch \in 1 .. Len(runs) + 1 /\ Len(runs) \in Nat
  BY SizesAre DEF ScheduleInv, SwitchedInTime
<1>2. CASE nextSwitch # 1
  <2>1. nextSwitch - 1 \in DOMAIN runs
    <3>1. PICK at, q, news, r : MadeOf(runs, at, q, news, r)
      BY SwitchesMakeRuns DEF Inputs, ScheduleInv
    <3>2. DOMAIN runs = 1 .. Len(runs)
      <4>1. PICK n \in Nat : n = Len(runs)
        BY <1>1
      <4> QED BY <4>1
    <3> QED BY <1>1, <1>2, <3>2
  <2> QED BY <1>2, <2>1 DEF ScheduleInv, SwitchedInTime, TidsOf
<1>3. CASE nextSwitch = 1
  BY <1>3 DEF ScheduleInv, SwitchedInTime
<1> QED BY <1>2, <1>3

(* A step of the tool uses no lane but those of the threads and exceptions    *)
(* it knows.                                                                  *)
LEMMA NamesKept ==
  ASSUME CoverageInv, ScheduleInv, FeedInv, MachineInv, NamesInv, [ToolNext]_<<vars, toolVars>>
  PROVE  NamesInv'
<1>1. GoOn /\ capture' = capture
  BY ItGoesOn
<1>2. [Next]_vars \/ Quiet
  BY ToolIsMachine DEF FeedInv, NamesInv
<1>3. TypeOK /\ runs' = runs /\ Known \subseteq Known'
  BY <1>1 DEF MachineInv, GoOn
<1>4. curThread = Boot \/ curThread \in TidsOf(runs)
  BY RunningThreadKnown
<1>5. ParkedNamed'
  BY <1>2, <1>3, <1>4, CallsKeepParked DEF NamesInv
<1>6. ContextsNamed'
  <2>1. CASE TracksStay
    BY <1>3, <2>1 DEF TracksStay, ContextsNamed, NamesInv
  <2>2. CASE ~TracksStay
    <3>1. PICK e \in Exceptions : Exception(e) /\ Process /\ element.kind = "Exception" /\ e = element.number
      <4>1. ctx' # ctx /\ ~ \E t : SwitchThread(t)
        BY <1>3, <2>2, CallsKeepTracks
      <4>2. ~Finish /\ ~ExceptionRet /\ ~Discontinuity
        BY <1>3, <2>2, CallsKeepTracks
      <4>3. ~ \E r \in Ranges : InstrRange(r)
        BY <1>3, <2>2, CallsKeepTracks
      <4>4. ~(\E g \in Generated, byte \in 0 .. EtmSize : Generate(g, byte)) /\ ~UNCHANGED vars
        BY <4>1 DEF Generate, vars, core
      <4>5. ~SwitchIn /\ ~EndAll
        BY <4>1, <4>2, <4>4 DEF SwitchIn, EndAll
      <4>6. Process
        BY <4>4, <4>5 DEF ToolNext
      <4>7. ~(UNCHANGED <<core, slices, edge, finished, out>>)
        BY <4>1 DEF core
      <4>8. element # None /\ (element.kind = "InstrRange" => element.range \in Ranges)
        BY <4>6 DEF Process, FeedInv, Fed
      <4>9. element.kind = "Exception" /\ Exception(element.number)
        BY <4>2, <4>3, <4>6, <4>7, <4>8 DEF Process, Processed
      <4>10. element.number \in Exceptions
        BY <4>8, <4>9, ExceptionKnown
      <4> QED BY <4>6, <4>9, <4>10
    <3>2. e \in Known
      BY <3>1, ExceptionKnown DEF Process
    <3>3. PICK x, y : ctx' = Append([ctx EXCEPT ![Len(ctx)].pending = y], x) /\ x.track = e /\ y \in Calls
                      /\ x \in Contexts
      <4>1. PICK x : x = [track |-> e, stack |-> << [fn |-> e, gap |-> 0] >>,
                          pending |-> NoCall, last |-> NoRange]
        OBVIOUS
      <4>2. ctx' = Append([ctx EXCEPT ![Len(ctx)].pending = pending], x)
        BY <3>1, <4>1 DEF Exception
      <4>3. x \in Contexts
        <5>1. <<[fn |-> e, gap |-> 0]>> \in Stacks
          BY DEF Stacks, Frames, Names
        <5> QED BY <4>1, <5>1 DEF Contexts, Calls, Windows
      <4>4. x.track = e
        BY <4>1
      <4> QED BY <1>3, <4>2, <4>3, <4>4 DEF TypeOK
    <3>4. PICK n \in Nat : n = Len(ctx) /\ n # 0 /\ ctx \in Seq(Contexts)
      BY <1>3 DEF TypeOK
    <3>5. Len(ctx') = n + 1 /\ ctx'[n + 1] = x /\ \A i \in 1 .. n : ctx'[i].track = ctx[i].track
      <4>1. PICK c : c = [ctx EXCEPT ![n].pending = y]
        OBVIOUS
      <4>2. ctx' = Append(c, x)
        BY <3>3, <3>4, <4>1
      <4>3. Len(c) = n /\ DOMAIN c = 1 .. n
        BY <3>4, <4>1
      <4>4. \A i \in 1 .. n : ctx[i] \in Contexts
        BY <3>4
      <4>5. \A i \in 1 .. n : c[i] = IF i = n THEN [ctx[i] EXCEPT !.pending = y] ELSE ctx[i]
        BY <3>4, <4>1
      <4>6. \A i \in 1 .. n : c[i].track = ctx[i].track
        BY <4>4, <4>5 DEF Contexts
      <4>7. c \in Seq(Contexts)
        <5>1. [ctx[n] EXCEPT !.pending = y] \in Contexts
          BY <3>3, <3>4, <4>4 DEF Contexts
        <5>2. c = [ctx EXCEPT ![n] = [ctx[n] EXCEPT !.pending = y]]
          BY <4>1
        <5> QED BY ONLY <3>4, <5>1, <5>2
      <4>8. Len(Append(c, x)) = n + 1 /\ Append(c, x)[n + 1] = x /\ \A i \in 1 .. n : Append(c, x)[i] = c[i]
        BY <3>3, <4>3, <4>7
      <4> QED BY <4>2, <4>6, <4>8
    <3>6. ASSUME NEW i \in 2 .. n + 1 PROVE ctx'[i].track \in Known
      <4>1. CASE i = n + 1
        BY <3>2, <3>3, <3>5, <4>1
      <4>2. CASE i # n + 1
        <5>1. i \in 1 .. n /\ i \in 2 .. Len(ctx)
          BY <3>4, <4>2
        <5> QED BY <3>5, <5>1 DEF NamesInv, ContextsNamed
      <4> QED BY <4>1, <4>2
    <3> QED BY <1>3, <3>5, <3>6 DEF ContextsNamed
  <2> QED BY <2>1, <2>2
<1>7. ASSUME curThread' = Boot PROVE (BeforeFirst(lastByte))'
  <2>1. CASE Process
    <3>1. curThread' = curThread
      BY <2>1, ThreadStays DEF Process
    <3>2. BeforeFirst(lastByte')
      BY <1>7, <2>1, <3>1, ProcessedBefore DEF NamesInv
    <3> QED BY <1>3, <3>2 DEF BeforeFirst
  <2>2. CASE SwitchIn /\ runs[nextSwitch].tid # curThread
    <3>1. curThread' = runs[nextSwitch].tid /\ nextSwitch \in 1 .. Len(runs)
      BY <2>2, SizesAre DEF SwitchIn, Due, SwitchThread, ScheduleInv, SwitchedInTime
    <3>2. runs[nextSwitch].tid \in Threads
      BY <3>1, RunsAreOfThreads DEF ScheduleInv, NamesInv
    <3> QED BY <1>7, <3>1, <3>2, LanesAssumption
  <2>3. CASE ~Process /\ ~(SwitchIn /\ runs[nextSwitch].tid # curThread)
    <3>1. curThread' = curThread /\ lastByte' = lastByte
      BY <2>3 DEF ToolNext, Generate, SwitchIn, EndAll, Finish, toolVars, vars, core, clocks
    <3> QED BY <1>3, <1>7, <3>1 DEF BeforeFirst, NamesInv
  <2> QED BY <2>1, <2>2, <2>3
<1> QED BY <1>1, <1>5, <1>6, <1>7 DEF NamesInv

\* The runs of a schedule, one behind the other.
InSequence(B, r) ==
  /\ r \in Nat /\ DOMAIN B = 1 .. r /\ Len(B) = r
  /\ \A k \in 1 .. r : B[k].begin \in Nat /\ B[k].end \in Nat /\ B[k].begin <= B[k].end
  /\ \A k \in 1 .. r : k < r => B[k].end = B[k + 1].begin
  /\ \A i, j \in 1 .. r : i <= j => B[i].begin <= B[j].begin

(* The runs of the threads follow one another.                                *)
LEMMA RunsInSequence ==
  ASSUME Inputs
  PROVE  \E r : InSequence(runs, r)
<1>1. PICK at, q, news, r : MadeOf(runs, at, q, news, r)
  BY SwitchesMakeRuns DEF Inputs
<1>2. r \in Nat /\ DOMAIN runs = 1 .. r /\ Len(runs) = r /\ Meeting(runs, r, EtmSize) /\ Fits
  BY <1>1 DEF MadeOf, Enumerates, Inputs
<1>3. ASSUME NEW i \in 1 .. r, NEW k \in 1 .. r, i <= k
      PROVE  runs[i].begin \in Nat /\ runs[k].begin \in Nat /\ runs[i].begin <= runs[k].begin
  <2>1. CASE EtmItems # {}
    BY <1>1, <1>2, <1>3, <2>1, RunsBeginInOrder
  <2>2. CASE EtmItems = {}
    <3>1. at \in [1 .. q -> Watched] /\ Watched \subseteq SwitchItems
      BY <1>1 DEF MadeOf, Enumerates, Watched
    <3>2. news[i] \in 1 .. q /\ news[k] \in 1 .. q
      BY <1>1 DEF MadeOf, Enumerates, Changes
    <3>3. i = k \/ news[i] < news[k]
      <4>1. i = k \/ i < k
        BY <1>2, <1>3
      <4> QED BY <1>1, <4>1 DEF MadeOf, Enumerates
    <3>4. i = k \/ at[news[i]] < at[news[k]]
      BY <1>1, <3>2, <3>3 DEF MadeOf, Enumerates
    <3>5. PICK a, b : a = at[news[i]] /\ b = at[news[k]]
      OBVIOUS
    <3>6. a \in SwitchItems /\ b \in SwitchItems
      BY <3>1, <3>2, <3>5
    <3>7. a \in Nat /\ b \in Nat /\ a # 0 /\ b # 0
      <4>1. DOMAIN capture \subseteq Nat \ {0}
        BY <1>2 DEF Fits
      <4> QED BY <3>6, <4>1 DEF SwitchItems
    <3>8. runs[i].begin = Place(a) - 1 /\ runs[k].begin = Place(b) - 1
      <4>1. runs[i].begin = ToEtmIndex(Place(a)) /\ runs[k].begin = ToEtmIndex(Place(b))
        BY <1>1, <3>5 DEF MadeOf
      <4> QED BY <2>2, <4>1 DEF ToEtmIndex
    <3>9. Place(a) \in Nat /\ Place(b) \in Nat /\ Place(0) \in Nat /\ (Place(a) < Place(b) <=> a < b)
          /\ (Place(0) < Place(a)) /\ (Place(0) < Place(b))
      BY <1>2, <3>7, PlacesInOrder
    <3>10. Place(a) <= Place(b)
      BY <3>4, <3>5, <3>7, <3>9
    <3> QED BY <3>8, <3>9, <3>10
  <2> QED BY <2>1, <2>2
<1>4. ASSUME NEW k \in 1 .. r
      PROVE  /\ runs[k].begin \in Nat /\ runs[k].end \in Nat /\ runs[k].begin <= runs[k].end
             /\ k < r => runs[k].end = runs[k + 1].begin
  <2>1. runs[k].end = IF k < r THEN runs[k + 1].begin
                      ELSE IF EtmSize > runs[k].begin THEN EtmSize ELSE runs[k].begin
    BY <1>2 DEF Meeting
  <2>2. runs[k].begin \in Nat /\ EtmSize \in Nat /\ k <= k
    BY <1>2, <1>3, SizesAre
  <2>3. CASE k < r
    <3>1. k + 1 \in 1 .. r /\ k <= k + 1
      BY <1>2, <2>3
    <3>2. runs[k + 1].begin \in Nat /\ runs[k].begin <= runs[k + 1].begin
      BY <1>3, <3>1
    <3> QED BY <2>1, <2>2, <2>3, <3>2
  <2>4. CASE ~(k < r)
    BY <2>1, <2>2, <2>4
  <2> QED BY <2>3, <2>4
<1>5. InSequence(runs, r)
  BY <1>2, <1>3, <1>4 DEF InSequence
<1> QED BY <1>5

(* A run begins at a byte.                                                    *)
LEMMA RunBeginsAt ==
  ASSUME Inputs, NEW k \in 1 .. Len(runs)
  PROVE  runs[k].begin \in Nat
BY RunsInSequence DEF InSequence

\* The lane of the running context is known, and before the first switch what
\* is processed is of before it.
LEMMA RunningIs ==
  ASSUME ScheduleInv, MachineInv, NamesInv, Process, GoOn
  PROVE  Running
<1>1. TypeOK /\ Known \subseteq Known'
  BY DEF MachineInv, GoOn
<1>2. CASE Len(ctx) = 1
  <2>1. CurLane = curThread
    BY <1>2 DEF CurLane
  <2>2. curThread \in Known
    BY RunningThreadKnown DEF Known
  <2>3. curThread = Boot => BeforeFirst(lastByte')
    BY ProcessedBefore DEF NamesInv
  <2> QED BY <1>1, <2>1, <2>2, <2>3 DEF Running
<1>3. CASE Len(ctx) # 1
  <2>1. Len(ctx) \in 2 .. Len(ctx)
    <3>1. PICK n \in Nat : n = Len(ctx) /\ n # 0
      BY <1>1 DEF TypeOK
    <3> QED BY <1>3, <3>1
  <2>2. CurLane = ctx[Len(ctx)].track
    BY <1>3 DEF CurLane, Innermost
  <2>3. CurLane \in Known /\ CurLane # Boot
    BY <1>1, <2>1, <2>2, ContextAt DEF NamesInv, ContextsNamed
  <2> QED BY <1>1, <2>3 DEF Running
<1> QED BY <1>2, <1>3

\* What a processed element writes.
LEMMA ProcessTold ==
  ASSUME CoverageInv, ScheduleInv, FeedInv, MachineInv, NamesInv, GoOn, Now, Deep, Process, OutInv
  PROVE  OutInv'
<1>1. TypeOK /\ Running /\ element # None /\ Processed /\ Known \subseteq Known'
  BY RunningIs DEF MachineInv, Process, GoOn
<1>2. CASE element.kind = "InstrRange"
  <2>1. InstrRange(element.range) /\ Emit(RangeSlices(element.range)) /\ element.range \in Ranges
    BY <1>1, <1>2 DEF Processed, FeedInv, Fed
  <2>2. PICK r, s : r = element.range /\ s = RangeSlices(r)
    OBVIOUS
  <2>3. Told(s) /\ unbegun \subseteq unbegun'
    BY <1>1, <2>1, <2>2, RangeTold
  <2>4. Emit(s)
    BY <2>1, <2>2
  <2> QED BY <2>3, <2>4, OutGrows
<1>3. CASE element.kind = "Exception"
  <2>1. Exception(element.number) /\ Emit(Emitted(1, TRUE, IsrTrack[element.number], Untagged))
    BY <1>1, <1>3 DEF Processed
  <2>2. PICK e, s : e = element.number /\ s = Emitted(1, TRUE, IsrTrack[e], Untagged)
    OBVIOUS
  <2>3. e \in Exceptions /\ e \in Known'
    BY <1>1, <1>3, <2>2, ExceptionKnown
  <2>4. Told(s) /\ unbegun \subseteq unbegun'
    BY <1>1, <2>1, <2>2, <2>3, ExceptionTold
  <2>5. Emit(s)
    BY <2>1, <2>2
  <2> QED BY <2>4, <2>5, OutGrows
<1>4. CASE element.kind = "ExceptionRet"
  <2>1. ExceptionRet /\ Emit(IF Len(ctx) = 1 THEN <<>> ELSE Emitted(Len(Innermost.stack), FALSE, CurTrack, Untagged))
    BY <1>1, <1>4 DEF Processed
  <2>2. CASE Len(ctx) = 1
    <3>1. UnmatchedExceptionRet
      BY <2>1, <2>2 DEF ExceptionRet, LeaveContext
    <3>2. open' = open /\ unbegun' = unbegun
      BY <3>1 DEF UnmatchedExceptionRet, slices
    <3>3. PICK s : s = <<>>
      OBVIOUS
    <3>4. Emit(s)
      BY <2>1, <2>2, <3>3
    <3>5. Told(s)
      BY <3>2, <3>3, NothingTold
    <3> QED BY <3>2, <3>4, <3>5, OutGrows
  <2>3. CASE Len(ctx) # 1
    <3>1. LeaveContext
      BY <2>1, <2>3 DEF ExceptionRet, UnmatchedExceptionRet
    <3>2. PICK s : s = Emitted(Len(Innermost.stack), FALSE, CurTrack, Untagged)
      OBVIOUS
    <3>3. Told(s) /\ unbegun \subseteq unbegun'
      BY <1>1, <3>1, <3>2, LeaveTold
    <3>4. Emit(s)
      BY <2>1, <2>3, <3>2
    <3> QED BY <3>3, <3>4, OutGrows
  <2> QED BY <2>2, <2>3
<1>5. CASE element.kind \notin {"InstrRange", "Exception", "ExceptionRet"}
  <2>1. out' = out /\ open' = open /\ unbegun' = unbegun
    <3>1. \/ Discontinuity /\ UNCHANGED out
          \/ noted' = {} /\ UNCHANGED <<core, slices, edge, finished, out>>
      BY <1>1, <1>5 DEF Processed
    <3> QED BY <3>1 DEF Discontinuity, slices
  <2> QED BY <2>1, OutStays
<1> QED BY <1>2, <1>3, <1>4, <1>5

(* Every step of the tool keeps what is known of the slices written.          *)
LEMMA OutKept ==
  ASSUME CoverageInv, ScheduleInv, FeedInv, MachineInv, NamesInv, OutInv, [ToolNext]_<<vars, toolVars>>
  PROVE  OutInv'
<1>1. GoOn
  BY ItGoesOn
<1>2. MachineInv'
  <2>1. [Next]_vars \/ Quiet
    BY ToolIsMachine DEF FeedInv, NamesInv
  <2> QED BY <2>1, MachineKept
<1>3. Now /\ Deep
  <2>1. \A l \in Lanes : open[l] \in Nat
    BY OpenIsNatural
  <2>2. \A l \in Lanes : open'[l] \in Nat
    BY <1>2, OpenIsNaturalNext
  <2> QED BY <1>1, <2>1, <2>2 DEF Now, Deep, GoOn
<1>4. CASE (\E g \in Generated, byte \in 0 .. EtmSize : Generate(g, byte)) \/ UNCHANGED <<vars, toolVars>>
  <2>1. out' = out /\ open' = open /\ unbegun' = unbegun
    BY <1>4 DEF Generate, toolVars, vars, slices
  <2> QED BY <1>1, <2>1, OutStays
<1>5. CASE Process
  BY <1>1, <1>3, <1>5, ProcessTold
<1>6. CASE SwitchIn
  <2>1. lastByte' = lastByte
    BY <1>6 DEF SwitchIn, clocks
  <2>2. CASE runs[nextSwitch].tid = curThread
    <3>1. out' = out /\ open' = open /\ unbegun' = unbegun
      BY <1>6, <2>2 DEF SwitchIn, vars, slices
    <3> QED BY <1>1, <3>1, OutStays
  <2>3. CASE runs[nextSwitch].tid # curThread /\ curThread = Boot
    <3>1. PICK t : t = runs[nextSwitch].tid
      OBVIOUS
    <3>2. SwitchThread(t)
      BY <1>6, <2>3, <3>1 DEF SwitchIn
    <3>3. PICK s : s = Emitted(Len(ctx[1].stack) - 1, FALSE, 0, Boot)
      OBVIOUS
    <3>4. Emit(s)
      BY <1>6, <2>3, <3>3 DEF SwitchIn
    <3>5. Boot \in Known' /\ BeforeFirst(lastByte')
      BY <2>1, <2>3 DEF Known, NamesInv
    <3>6. Told(s) /\ unbegun \subseteq unbegun'
      BY <1>3, <2>3, <3>2, <3>3, <3>5, BootTold DEF MachineInv
    <3> QED BY <1>1, <3>4, <3>6, OutGrows
  <2>4. CASE runs[nextSwitch].tid # curThread /\ curThread # Boot
    <3>1. open' = open /\ unbegun' = unbegun
      BY <1>6, <2>4 DEF SwitchIn, SwitchThread, EndBoot, slices
    <3>2. PICK s : s = <<>>
      OBVIOUS
    <3>3. Emit(s)
      BY <1>6, <2>4, <3>2 DEF SwitchIn
    <3>4. Told(s)
      BY <1>3, <3>1, <3>2, NothingTold
    <3> QED BY <1>1, <3>1, <3>3, <3>4, OutGrows
  <2> QED BY <2>2, <2>3, <2>4
<1>7. CASE EndAll
  <2>1. Finish /\ Emit(Ends) /\ lastByte' = lastByte
    BY <1>7 DEF EndAll, clocks
  <2>2. Known \subseteq Known'
    BY <1>1 DEF GoOn
  <2>3. ContextsKnown
    BY <2>2 DEF ContextsKnown, ContextsNamed, NamesInv
  <2>4. ParkedKnown
    <3>1. DOMAIN parked \subseteq TidsOf(runs) /\ IsFiniteSet(TidsOf(runs))
      BY TidsAreThreads DEF NamesInv, ParkedNamed, ScheduleInv
    <3>2. IsFiniteSet(DOMAIN parked)
      BY <3>1, FS_Subset
    <3> QED BY <2>2, <3>1, <3>2 DEF ParkedKnown, Known
  <2>5. curThread \in Known' /\ (curThread = Boot => BeforeFirst(lastByte'))
    BY <2>1, <2>2, RunningThreadKnown DEF NamesInv, Known
  <2>6. PICK s : s = Ends
    OBVIOUS
  <2>7. Told(s) /\ unbegun \subseteq unbegun'
    BY <1>3, <2>1, <2>3, <2>4, <2>5, <2>6, EndTold DEF MachineInv
  <2>8. Emit(s)
    BY <2>1, <2>6
  <2> QED BY <1>1, <2>7, <2>8, OutGrows
<1> QED BY <1>4, <1>5, <1>6, <1>7 DEF ToolNext

(* At the start nothing is written.                                           *)
LEMMA NothingWritten == ToolInit => FeedInv /\ MachineInv /\ NamesInv /\ OutInv
<1> SUFFICES ASSUME ToolInit PROVE FeedInv /\ MachineInv /\ NamesInv /\ OutInv
  OBVIOUS
<1>1. /\ element = None /\ seen = <<>> /\ lastByte = 0 /\ stamp = 0 /\ out = <<>> /\ Init
      /\ capture \in Captures
  BY DEF ToolInit
<1>2. FeedInv
  BY <1>1 DEF FeedInv, Fed, ClocksBehind
<1>3. MachineInv
  BY <1>1, MachineBegins
<1>4. /\ Len(ctx) = 1 /\ DOMAIN parked = {} /\ curThread = Boot
      /\ open = [l \in Lanes |-> 0] /\ unbegun = {}
  BY <1>1 DEF Init
<1>5. NamesInv
  <2>1. Inputs
    BY ScheduleBegins DEF ScheduleInv
  <2>2. BeforeFirst(0)
    <3> SUFFICES ASSUME runs # <<>> PROVE 0 <= runs[1].begin
      BY DEF BeforeFirst
    <3>1. PICK at, q, news, r : MadeOf(runs, at, q, news, r)
      BY <2>1, SwitchesMakeRuns DEF Inputs
    <3>2. Len(runs) # 0 /\ Len(runs) \in Nat
      BY <2>1, <3>1, SizesAre DEF MadeOf, Enumerates
    <3>3. 1 \in 1 .. Len(runs)
      BY <3>2
    <3> QED BY <2>1, <3>3, RunBeginsAt
  <2> QED BY <1>1, <1>4, <2>2 DEF NamesInv, ContextsNamed, ParkedNamed
<1>6. OutInv
  <2>1. Written(out) /\ UpToNow(out) /\ BootEndsFirst(out)
    BY <1>1 DEF Written, UpToNow, BootEndsFirst
  <2>2. ASSUME NEW l \in Lanes PROVE Goes(<<>>, {TagOf(l)}, 0, open[l], unbegun = {})
    <3>1. PICK T, sound : T = {TagOf(l)} /\ sound = (unbegun = {})
      OBVIOUS
    <3>2. 0 \in Int /\ 0 >= 0 /\ open[l] = 0
      BY <1>4
    <3>3. Goes(<<>>, T, 0, 0, sound)
      BY <3>2, GoesNowhere
    <3> QED BY <3>1, <3>2, <3>3
  <2> QED BY <1>1, <2>1, <2>2 DEF OutInv, LedgerOf
<1> QED BY <1>2, <1>3, <1>5, <1>6

\* What is known of the feed, the machine, the lanes and the slices together.
FileInv == CoverageInv /\ ScheduleInv /\ FeedInv /\ MachineInv /\ NamesInv /\ OutInv
(* All of it holds in every state of the tool.                                *)
LEMMA AllIsTold == ToolSpec => []FileInv
<1>1. ToolInit => FileInv
  <2>1. ToolInit => CoverageInv
    BY InitEstablishes
  <2> QED BY <2>1, ScheduleBegins, NothingWritten DEF FileInv
<1>2. FileInv /\ [ToolNext]_<<vars, toolVars>> => FileInv'
  <2> SUFFICES ASSUME FileInv, [ToolNext]_<<vars, toolVars>> PROVE FileInv'
    OBVIOUS
  <2>1. CoverageInv /\ ScheduleInv /\ FeedInv /\ MachineInv /\ NamesInv /\ OutInv
    BY DEF FileInv
  <2>2. CoverageInv' /\ ScheduleInv' /\ FeedInv'
    BY <2>1, StepsKeep, ScheduleKept, FeedKept
  <2>3. MachineInv'
    <3>1. [Next]_vars \/ Quiet
      BY <2>1, ToolIsMachine DEF FeedInv, NamesInv
    <3> QED BY <2>1, <3>1, MachineKept
  <2>4. NamesInv'
    BY <2>1, NamesKept
  <2>5. OutInv'
    BY <2>1, OutKept
  <2> QED BY <2>2, <2>3, <2>4, <2>5 DEF FileInv
<1> QED BY <1>1, <1>2, PTL DEF ToolSpec

------------------------------------------------------------------------------
(* The slices of the Threads track.                                           *)

LogSlices == [byte : Nat, begin : BOOLEAN, track : {ThreadsTrack}]
\* A BEGIN and an END in turn, each at or behind the last.
Alternates(s) ==
  /\ s \in Seq(LogSlices) /\ Len(s) % 2 = 0
  /\ \A k \in 1 .. Len(s) : s[k].begin <=> k % 2 = 1
  /\ \A i, j \in 1 .. Len(s) : i <= j => s[i].byte <= s[j].byte
NotBehind(s, b) == \A k \in 1 .. Len(s) : s[k].byte <= b
\* One run more.
LEMMA LogGrows ==
  ASSUME NEW s, Alternates(s), NEW from \in Nat, NotBehind(s, from), NEW to \in Nat, from <= to,
         NEW t, t = s \o <<[byte |-> from, begin |-> TRUE, track |-> ThreadsTrack],
                           [byte |-> to, begin |-> FALSE, track |-> ThreadsTrack]>>
  PROVE  Alternates(t) /\ NotBehind(t, to)
<1> DEFINE x == [byte |-> from, begin |-> TRUE, track |-> ThreadsTrack]
           y == [byte |-> to, begin |-> FALSE, track |-> ThreadsTrack]
<1>1. x \in LogSlices /\ y \in LogSlices
  BY DEF LogSlices
<1>2. PICK n \in Nat : n = Len(s)
  BY DEF Alternates
<1>3. s \in Seq(LogSlices) /\ n % 2 = 0
  BY <1>2 DEF Alternates
<1>4. t = s \o <<x, y>>
  OBVIOUS
<1>5. x.byte = from /\ y.byte = to /\ x.begin /\ ~y.begin
  OBVIOUS
<1> HIDE DEF x, y
<1>6. <<x, y>> \in Seq(LogSlices) /\ Len(<<x, y>>) = 2
  BY <1>1
<1>7. t \in Seq(LogSlices)
  BY ONLY <1>3, <1>4, <1>6
<1>8. /\ Len(t) = n + 2
      /\ \A k \in 1 .. n : t[k] = s[k]
      /\ t[n + 1] = x /\ t[n + 2] = y
  BY <1>2, <1>3, <1>4, <1>6
<1>9. (n + 2) % 2 = 0 /\ (n + 1) % 2 = 1
  <2>1. n \in Nat /\ n % 2 = 0
    BY <1>3
  <2> QED BY ONLY <2>1
<1>10. \A k \in 1 .. n + 2 : k \in 1 .. n \/ k = n + 1 \/ k = n + 2
  OBVIOUS
<1>11. \A k \in 1 .. n : s[k].byte \in Nat /\ s[k].byte <= from
  <2>1. \A k \in 1 .. n : s[k] \in LogSlices
    BY <1>2, <1>3
  <2>2. \A k \in 1 .. n : s[k].byte \in Nat
    BY <2>1 DEF LogSlices
  <2> QED BY <1>2, <2>2 DEF NotBehind
<1>12. ASSUME NEW k \in 1 .. n + 2 PROVE t[k].begin <=> k % 2 = 1
  <2>1. CASE k \in 1 .. n
    BY <1>2, <1>8, <2>1 DEF Alternates
  <2>2. CASE k = n + 1
    BY <1>5, <1>8, <1>9, <2>2
  <2>3. CASE k = n + 2
    BY <1>5, <1>8, <1>9, <2>3
  <2> QED BY <1>10, <2>1, <2>2, <2>3
<1>13. ASSUME NEW i \in 1 .. n + 2, NEW j \in 1 .. n + 2, i <= j PROVE t[i].byte <= t[j].byte
  <2>1. CASE j \in 1 .. n
    <3>1. i \in 1 .. n
      BY <1>13, <2>1
    <3>2. t[i] = s[i] /\ t[j] = s[j]
      BY <1>8, <2>1, <3>1
    <3>3. s[i].byte <= s[j].byte
      BY <1>2, <1>13, <2>1, <3>1 DEF Alternates
    <3> QED BY <3>2, <3>3
  <2>2. CASE j = n + 1
    <3>1. i \in 1 .. n \/ i = n + 1
      BY <1>13, <2>2
    <3>2. t[j].byte = from
      BY <1>5, <1>8, <2>2
    <3>3. CASE i \in 1 .. n
      <4>1. t[i].byte = s[i].byte
        BY <1>8, <3>3
      <4>2. s[i].byte <= from
        BY <1>11, <3>3
      <4> QED BY <3>2, <4>1, <4>2
    <3>4. CASE i = n + 1
      <4>1. t[i].byte = from
        BY <2>2, <3>2, <3>4
      <4>2. from <= from
        OBVIOUS
      <4> QED BY <3>2, <4>1, <4>2
    <3> QED BY <3>1, <3>3, <3>4
  <2>3. CASE j = n + 2
    <3>1. t[i].byte <= to
      <4>1. CASE i \in 1 .. n
        BY <1>8, <1>11, <4>1
      <4>2. CASE i = n + 1 \/ i = n + 2
        BY <1>5, <1>8, <4>2
      <4> QED BY <1>10, <4>1, <4>2
    <3> QED BY <1>5, <1>8, <2>3, <3>1
  <2> QED BY <1>10, <2>1, <2>2, <2>3
<1>14. ASSUME NEW k \in 1 .. n + 2 PROVE t[k].byte <= to
  <2>1. CASE k \in 1 .. n
    BY <1>8, <1>11, <2>1
  <2>2. CASE k = n + 1 \/ k = n + 2
    BY <1>5, <1>8, <2>2
  <2> QED BY <1>10, <2>1, <2>2
<1>15. Alternates(t)
  BY <1>7, <1>8, <1>9, <1>12, <1>13 DEF Alternates
<1>16. NotBehind(t, to)
  BY <1>8, <1>14 DEF NotBehind
<1> QED BY <1>15, <1>16

(* On the track of the thread switches begins and ends alternate, each end    *)
(* before the next begin.                                                     *)
LEMMA LogAlternates ==
  ASSUME NEW r, InSequence(runs, r)
  PROVE  Alternates(ThreadRunsToSlices(runs, ThreadsTrack))
<1> DEFINE two(k) == << [byte |-> runs[k].begin, begin |-> TRUE, track |-> ThreadsTrack],
                        [byte |-> runs[k].end, begin |-> FALSE, track |-> ThreadsTrack] >>
           lists == [k \in DOMAIN runs |-> IF runs[k].end <= runs[k].begin THEN <<>> ELSE two(k)]
<1>1. r \in Nat /\ DOMAIN runs = 1 .. r
      /\ \A k \in 1 .. r : runs[k].begin \in Nat /\ runs[k].end \in Nat /\ runs[k].begin <= runs[k].end
  BY DEF InSequence
<1>2. ThreadRunsToSlices(runs, ThreadsTrack) = FlattenSeq(lists)
  BY DEF ThreadRunsToSlices
<1>3. ASSUME NEW k \in 1 .. r PROVE two(k) \in Seq(LogSlices)
  <2>1. PICK a \in Nat, b \in Nat : a = runs[k].begin /\ b = runs[k].end
    BY <1>1
  <2>2. PICK x, y : /\ x = [byte |-> a, begin |-> TRUE, track |-> ThreadsTrack]
                    /\ y = [byte |-> b, begin |-> FALSE, track |-> ThreadsTrack]
    OBVIOUS
  <2>3. x \in LogSlices /\ y \in LogSlices
    BY <2>2 DEF LogSlices
  <2>4. two(k) = <<x, y>>
    BY <2>1, <2>2
  <2> HIDE DEF two
  <2> QED BY <2>3, <2>4
<1>4. lists \in [1 .. r -> Seq(LogSlices)]
  <2> HIDE DEF two
  <2>1. <<>> \in Seq(LogSlices)
    OBVIOUS
  <2> QED BY <1>1, <1>3, <2>1
<1>5. PICK h : Beginnings(h, LogSlices, lists, r)
  <2> HIDE DEF lists
  <2> QED BY <1>1, <1>4, BeginningsExist
<1>6. FlattenSeq(lists) = h[r]
  <2> HIDE DEF lists
  <2> QED BY <1>1, <1>4, <1>5, FlattenSeqIs
<1>7. /\ h \in [0 .. r -> Seq(LogSlices)] /\ h[0] = <<>>
      /\ \A i \in 1 .. r : h[i] = h[i - 1] \o lists[i]
  BY <1>5 DEF Beginnings
<1> DEFINE G == {i \in 0 .. r : /\ Alternates(h[i])
                                /\ i < r => NotBehind(h[i], runs[i + 1].begin)}
<1>8. 0 \in G
  <2>1. 0 \in 0 .. r
    BY <1>1
  <2>2. Alternates(<<>>)
    BY DEF Alternates
  <2>3. NotBehind(<<>>, runs[0 + 1].begin)
    BY DEF NotBehind
  <2> QED BY <1>7, <2>1, <2>2, <2>3
<1>9. ASSUME NEW i \in 1 .. r, i - 1 \in G PROVE i \in G
  <2>1. i - 1 \in 0 .. r /\ i - 1 < r /\ (i - 1) + 1 = i /\ i \in 0 .. r
    BY <1>1
  <2>2. PICK s, a, b : s = h[i - 1] /\ a = runs[i].begin /\ b = runs[i].end
    OBVIOUS
  <2>3. Alternates(s) /\ NotBehind(s, a) /\ s \in Seq(LogSlices)
    BY <1>7, <1>9, <2>1, <2>2
  <2>4. a \in Nat /\ b \in Nat /\ a <= b
    BY <1>1, <2>2
  <2>5. i < r => runs[i + 1].begin = b
    BY <2>2 DEF InSequence
  <2>6. CASE b <= a
    <3>1. lists[i] = <<>>
      BY <1>1, <2>2, <2>6
    <3>2. h[i] = s
      <4>1. h[i] = s \o <<>>
        BY <1>7, <2>2, <3>1
      <4> QED BY <2>3, <4>1
    <3>3. a = b
      BY <2>4, <2>6
    <3> QED BY <2>1, <2>3, <2>5, <3>2, <3>3
  <2>7. CASE ~(b <= a)
    <3>1. lists[i] = <<[byte |-> a, begin |-> TRUE, track |-> ThreadsTrack],
                       [byte |-> b, begin |-> FALSE, track |-> ThreadsTrack]>>
      BY <1>1, <2>2, <2>7
    <3>2. PICK t : t = h[i]
      OBVIOUS
    <3>3. t = s \o <<[byte |-> a, begin |-> TRUE, track |-> ThreadsTrack],
                     [byte |-> b, begin |-> FALSE, track |-> ThreadsTrack]>>
      BY <1>7, <2>2, <3>1, <3>2
    <3>4. Alternates(t) /\ NotBehind(t, b)
      BY <2>3, <2>4, <3>3, LogGrows
    <3> QED BY <2>1, <2>5, <3>2, <3>4
  <2> QED BY <2>6, <2>7
<1>10. 0 .. r \subseteq G
  <2> HIDE DEF G
  <2> QED BY <1>1, <1>8, <1>9, InductUpTo
<1>11. r \in 0 .. r
  BY <1>1
<1> QED BY <1>2, <1>6, <1>10, <1>11

\* Such a list goes up and down by one.
LEMMA AlternatingGoes ==
  ASSUME NEW s, NEW n \in Nat, Len(s) = n, n % 2 = 0, NEW T,
         \A k \in 1 .. n : <<s[k].track, s[k].thread>> \in T /\ (s[k].begin <=> k % 2 = 1)
  PROVE  Goes(s, T, 0, 0, TRUE)
<1>1. PICK d : d = [k \in 0 .. n |-> k % 2]
  OBVIOUS
<1>2. d \in [0 .. n -> Int] /\ d[0] = 0 /\ d[n] = 0 /\ \A k \in 0 .. n : d[k] >= 0
  BY <1>1
<1>3. ASSUME NEW k \in 1 .. n PROVE d[k] = d[k - 1] + Step(s[k], T)
  <2>1. Step(s[k], T) = IF k % 2 = 1 THEN 1 ELSE -1
    BY DEF Step
  <2>2. d[k] = k % 2 /\ d[k - 1] = (k - 1) % 2
    BY <1>1
  <2> QED BY <2>1, <2>2
<1>4. DepthOn(d, s, T, 0, 0, TRUE)
  BY <1>2, <1>3 DEF DepthOn
<1> QED BY <1>4 DEF Goes

------------------------------------------------------------------------------
(* The time of the slices.                                                    *)

\* The slices q are the slices s, whose times are in order.
InTime(q, s, n) ==
  /\ q \in Seq(Slices) /\ Len(q) = n
  /\ \A k \in 1 .. n : /\ q[k].byte = s[k].byte /\ q[k].begin = s[k].begin
                       /\ q[k].track = s[k].track /\ q[k].thread = s[k].thread
  /\ \A i, j \in 1 .. n : i <= j => q[i].tick <= q[j].tick

\* With the running greatest of any times they are in order.
LEMMA TicksPut ==
  ASSUME NEW n \in Nat, NEW s \in Seq(Slices), Len(s) = n, NEW raw \in [1 .. n -> Nat],
         NEW q, q = WithTicks(s, NonDecreasing(raw))
  PROVE  InTime(q, s, n)
<1>1. PICK ticks : ticks = NonDecreasing(raw)
  OBVIOUS
<1>2. GreatestSoFar(ticks, raw, n)
  BY <1>1, TicksAreGreatest
<1>3. \A k \in 1 .. n : ticks[k] \in Nat
  BY <1>2 DEF GreatestSoFar
<1>4. q = [i \in 1 .. n |-> [s[i] EXCEPT !.tick = ticks[i]]]
  BY <1>1 DEF WithTicks
<1>5. ASSUME NEW k \in 1 .. n
      PROVE  /\ q[k] \in Slices /\ q[k].tick = ticks[k]
             /\ q[k].byte = s[k].byte /\ q[k].begin = s[k].begin
             /\ q[k].track = s[k].track /\ q[k].thread = s[k].thread
  <2>1. PICK x \in Slices : x = s[k]
    OBVIOUS
  <2>2. PICK t \in Nat : t = ticks[k]
    BY <1>3
  <2>3. q[k] = [x EXCEPT !.tick = t]
    BY <1>4, <2>1, <2>2
  <2> QED BY ONLY <2>1, <2>2, <2>3, x \in Slices, t \in Nat DEF Slices
<1>6. q \in Seq(Slices) /\ Len(q) = n
  <2>1. q \in [1 .. n -> Slices]
    BY <1>4, <1>5
  <2> QED BY ONLY <2>1, n \in Nat
<1>7. ASSUME NEW i \in 1 .. n, NEW j \in 1 .. n, i <= j PROVE q[i].tick <= q[j].tick
  <2>1. PICK h : h = [k \in 1 .. n |-> ticks[k]]
    OBVIOUS
  <2>2. h \in [1 .. n -> Int]
    BY <1>3, <2>1
  <2>3. \A k \in 2 .. n : h[k - 1] <= h[k]
    <3>1. ASSUME NEW k \in 2 .. n PROVE h[k - 1] <= h[k]
      <4>1. k \in 1 .. n /\ k - 1 \in 1 .. n /\ k # 1
        OBVIOUS
      <4>2. ticks[k - 1] <= ticks[k]
        BY <1>2, <4>1 DEF GreatestSoFar
      <4> QED BY <2>1, <4>1, <4>2
    <3> QED BY <3>1
  <2>4. Ascending(h, n)
    BY <2>2, <2>3, StepByStep
  <2>5. h[i] <= h[j]
    BY <1>7, <2>4 DEF Ascending
  <2> QED BY <1>5, <2>1, <2>5
<1> QED BY <1>5, <1>6, <1>7 DEF InTime

\* The time of a byte in the table.
LEMMA NsForIs ==
  ASSUME NEW t \in Seq(Nat), NEW b \in Nat
  PROVE  NsFor(t, b) \in Nat
<1>1. CASE t = <<>>
  BY <1>1 DEF NsFor
<1>2. CASE t # <<>>
  <2>1. PICK n \in Nat : n = Len(t)
    OBVIOUS
  <2>2. n # 0
    BY <1>2, <2>1
  <2>3. \A k \in 1 .. n : t[k] \in Nat
    BY <2>1
  <2>4. NsFor(t, b) = IF b < n THEN t[b + 1] ELSE t[n]
    BY <1>2, <2>1 DEF NsFor
  <2>5. n \in 1 .. n /\ (b < n => b + 1 \in 1 .. n)
    BY <2>2
  <2> QED BY <2>3, <2>4, <2>5
<1> QED BY <1>1, <1>2

\* Whatever base is asked for, the slices are those of the sink, in order of time.
LEMMA TimedIs ==
  ASSUME Written(out), table \in Seq(Nat), NEW base \in Bases, NEW n, n = Len(out)
  PROVE  InTime(Timed(base), out, n)
<1>1. out \in Seq(Slices) /\ n \in Nat /\ DOMAIN out = 1 .. n
  BY DEF Written
<1>2. \A k \in 1 .. n : out[k] \in Slices
  BY <1>1
<1>3. \A k \in 1 .. n : /\ out[k].ts \in Nat /\ out[k].cycle \in Nat
                        /\ out[k].byte \in Nat /\ out[k].tick \in Nat
  BY <1>2 DEF Slices
<1>4. Recorded(out, n)
  BY <1>1, <1>3 DEF Written, Recorded
<1>5. base \in {"hybrid", "cycle", "etm", "time"}
  BY BasesAssumption
<1>6. CASE base = "hybrid"
  <2>1. PICK raw : raw = [i \in DOMAIN out |-> Hybrid(out, i)]
    OBVIOUS
  <2>2. Timed(base) = WithTicks(out, NonDecreasing(raw))
    BY <1>6, <2>1 DEF Timed, ApplyHybridTime
  <2>3. raw \in [1 .. n -> Nat]
    BY <1>1, <1>4, <2>1, HybridIs
  <2> QED BY <1>1, <2>2, <2>3, TicksPut
<1>7. CASE base = "cycle"
  <2>1. PICK raw : raw = [i \in DOMAIN out |-> out[i].cycle * PerCycle]
    OBVIOUS
  <2>2. Timed(base) = WithTicks(out, NonDecreasing(raw))
    BY <1>7, <2>1 DEF Timed, ApplyCycleTime
  <2>3. raw \in [1 .. n -> Nat]
    <3>1. \A x, y \in Nat : x * y \in Nat
      OBVIOUS
    <3>2. PerCycle \in Nat
      BY PerCycleAssumption
    <3> QED BY <1>1, <1>3, <2>1, <3>1, <3>2
  <2> QED BY <1>1, <2>2, <2>3, TicksPut
<1>8. CASE base = "etm"
  <2>1. PICK raw : raw = [i \in DOMAIN out |-> out[i].ts]
    OBVIOUS
  <2>2. Timed(base) = WithTicks(out, NonDecreasing(raw))
    BY <1>8, <2>1 DEF Timed, ApplyEtmTimestamp
  <2>3. raw \in [1 .. n -> Nat]
    BY <1>1, <1>3, <2>1
  <2> QED BY <1>1, <2>2, <2>3, TicksPut
<1>9. CASE base = "time" /\ table # <<>>
  <2>1. PICK raw : raw = [i \in DOMAIN out |-> NsFor(table, out[i].byte)]
    OBVIOUS
  <2>2. Timed(base) = WithTicks(out, NonDecreasing(raw))
    BY <1>9, <2>1 DEF Timed, ApplyTimebase
  <2>3. raw \in [1 .. n -> Nat]
    BY <1>1, <1>3, <2>1, NsForIs
  <2> QED BY <1>1, <2>2, <2>3, TicksPut
<1>10. CASE base = "time" /\ table = <<>>
  <2>1. Timed(base) = out
    BY <1>10 DEF Timed, ApplyTimebase
  <2>2. \A i, j \in 1 .. n : i <= j => out[i].tick <= out[j].tick
    <3>1. \A k \in 1 .. n : out[k].tick = k - 1
      BY DEF Written
    <3> QED BY ONLY <3>1, <1>1
  <2> QED BY <1>1, <2>1, <2>2 DEF InTime
<1> QED BY <1>5, <1>6, <1>7, <1>8, <1>9, <1>10

------------------------------------------------------------------------------
(* The time of a byte on the Threads track.                                   *)

\* A set of numbers that are not above n has a greatest one.
LEMMA GreatestNumber ==
  ASSUME NEW n \in Nat, NEW T \in SUBSET (1 .. n), T # {}
  PROVE  \E m \in T : \A k \in T : k <= m
<1> DEFINE D == {n - k : k \in T}
<1>1. D \in SUBSET Nat /\ D # {}
  <2>1. \A k \in T : n - k \in Nat
    <3>1. \A k \in 1 .. n : n - k \in Nat
      OBVIOUS
    <3> QED BY <3>1
  <2>2. PICK k : k \in T
    OBVIOUS
  <2>3. n - k \in D
    BY <2>2
  <2> QED BY <2>1, <2>3
<1>2. PICK d \in D : \A e \in D : d <= e
  <2> HIDE DEF D
  <2> QED BY <1>1, LeastNumber
<1>3. PICK m \in T : d = n - m
  OBVIOUS
<1>4. ASSUME NEW k \in T PROVE k <= m
  <2>1. n - k \in D
    OBVIOUS
  <2>2. n - m <= n - k
    BY <1>2, <1>3, <2>1
  <2>3. k \in Nat /\ m \in Nat
    OBVIOUS
  <2> QED BY ONLY <2>2, <2>3, n \in Nat
<1> QED BY <1>4

\* Slices in order, of their bytes and of their times.
InStep(p, n) ==
  /\ DOMAIN p = 1 .. n
  /\ \A k \in 1 .. n : p[k].byte \in Nat /\ p[k].tick \in Nat
  /\ \A i, j \in 1 .. n : i <= j => p[i].byte <= p[j].byte /\ p[i].tick <= p[j].tick
(* The time t of a byte b is that of a slice: not before those whose byte is  *)
(* not behind b, nor after those whose byte is; before any of them, that of   *)
(* the first.                                                                 *)
TickOf(p, n, b, t) ==
  /\ t \in Nat
  /\ n = 0 => t = b
  /\ \A k \in 1 .. n : /\ p[k].byte <= b => p[k].tick <= t
                       /\ ~(p[k].byte <= b) => t <= p[k].tick
  /\ n # 0 => \E q \in 1 .. n : t = p[q].tick /\ (p[q].byte <= b \/ \A k \in 1 .. n : t <= p[k].tick)

(* The tick of a byte is one of those around it in the file, and none for a   *)
(* byte before them all.                                                      *)
LEMMA TickForByteIs ==
  ASSUME NEW n \in Nat, NEW p, InStep(p, n), p = <<>> <=> n = 0, NEW b \in Nat
  PROVE  TickOf(p, n, b, TickForByte(p, b))
<1> DEFINE upTo == {i \in DOMAIN p : p[i].byte <= b}
           first == CHOOSE i \in DOMAIN p : \A j \in DOMAIN p : NotAfter(p[i], p[j])
           last == CHOOSE i \in upTo : \A j \in upTo : NotAfter(p[j], p[i])
<1>1. DOMAIN p = 1 .. n
  BY DEF InStep
<1>2. TickForByte(p, b) = IF p = <<>> THEN b ELSE p[IF upTo = {} THEN first ELSE last].tick
  BY DEF TickForByte
<1>3. \A k \in 1 .. n : p[k].byte \in Nat /\ p[k].tick \in Nat
  BY DEF InStep
<1>4. \A i, j \in 1 .. n : i <= j => p[i].byte <= p[j].byte /\ p[i].tick <= p[j].tick
  BY DEF InStep
<1>5. \A i, j \in 1 .. n : i <= j => NotAfter(p[i], p[j])
  BY <1>3, <1>4 DEF NotAfter
<1>6. CASE n = 0
  <2>1. TickForByte(p, b) = b
    BY <1>2, <1>6
  <2> QED BY <1>6, <2>1 DEF TickOf
<1>7. CASE n # 0 /\ upTo = {}
  <2>1. \E i \in DOMAIN p : \A j \in DOMAIN p : NotAfter(p[i], p[j])
    <3>1. 1 \in 1 .. n /\ \A j \in 1 .. n : 1 <= j
      BY <1>7
    <3> QED BY <1>1, <1>5, <3>1
  <2>2. first \in 1 .. n /\ \A j \in 1 .. n : NotAfter(p[first], p[j])
    BY <1>1, <2>1
  <2> HIDE DEF first
  <2>3. PICK q \in 1 .. n : q = first
    BY <2>2
  <2>4. PICK t \in Nat : t = p[q].tick
    BY <1>3
  <2>5. TickForByte(p, b) = t
    BY <1>2, <1>7, <2>3, <2>4
  <2>6. ASSUME NEW k \in 1 .. n PROVE t <= p[k].tick
    <3>1. NotAfter(p[q], p[k])
      BY <2>2, <2>3
    <3>2. q <= k \/ k <= q
      OBVIOUS
    <3>3. CASE q <= k
      BY <1>4, <2>4, <3>3
    <3>4. CASE k <= q
      <4>1. p[k].byte <= p[q].byte
        BY <1>4, <3>4
      <4>2. p[k].byte \in Nat /\ p[q].byte \in Nat
        BY <1>3
      <4> QED BY <2>4, <3>1, <4>1, <4>2 DEF NotAfter
    <3> QED BY <3>2, <3>3, <3>4
  <2>7. \A k \in 1 .. n : ~(p[k].byte <= b)
    BY <1>1, <1>7
  <2>8. TickOf(p, n, b, t)
    BY <1>7, <2>4, <2>6, <2>7 DEF TickOf
  <2> QED BY <2>5, <2>8
<1>8. CASE n # 0 /\ upTo # {}
  <2>1. \E i \in upTo : \A j \in upTo : NotAfter(p[j], p[i])
    <3>1. upTo \in SUBSET (1 .. n)
      BY <1>1
    <3>2. PICK m \in upTo : \A k \in upTo : k <= m
      <4> HIDE DEF upTo
      <4> QED BY <1>8, <3>1, GreatestNumber
    <3> QED BY <1>5, <3>1, <3>2
  <2>2. last \in upTo /\ \A j \in upTo : NotAfter(p[j], p[last])
    <3> HIDE DEF upTo
    <3> QED BY <2>1
  <2> HIDE DEF last
  <2>3. PICK q \in 1 .. n : q = last
    BY <1>1, <2>2
  <2>4. PICK t \in Nat : t = p[q].tick
    BY <1>3
  <2>5. TickForByte(p, b) = t
    <3> HIDE DEF upTo
    <3>1. p # <<>>
      BY <1>8
    <3> QED BY <1>2, <1>8, <2>3, <2>4, <3>1
  <2>6. p[q].byte <= b
    BY <2>2, <2>3
  <2>7. ASSUME NEW k \in 1 .. n, p[k].byte <= b PROVE p[k].tick <= t
    <3>1. k \in upTo
      BY <1>1, <2>7
    <3>2. NotAfter(p[k], p[q])
      <4> HIDE DEF upTo
      <4> QED BY <2>2, <2>3, <3>1
    <3>3. q <= k \/ k <= q
      OBVIOUS
    <3>4. CASE k <= q
      BY <1>4, <2>4, <3>4
    <3>5. CASE q <= k
      <4>1. p[q].byte <= p[k].byte
        BY <1>4, <3>5
      <4>2. p[k].byte \in Nat /\ p[q].byte \in Nat
        BY <1>3
      <4> QED BY <2>4, <3>2, <4>1, <4>2 DEF NotAfter
    <3> QED BY <3>3, <3>4, <3>5
  <2>8. ASSUME NEW k \in 1 .. n, ~(p[k].byte <= b) PROVE t <= p[k].tick
    <3>1. q <= k \/ k <= q
      OBVIOUS
    <3>2. ~(k <= q)
      <4>1. ASSUME k <= q PROVE FALSE
        <5>1. p[k].byte <= p[q].byte
          BY <1>4, <4>1
        <5>2. p[k].byte \in Nat /\ p[q].byte \in Nat
          BY <1>3
        <5> QED BY ONLY <2>6, <2>8, <5>1, <5>2, b \in Nat
      <4> QED BY <4>1
    <3> QED BY <1>4, <2>4, <3>1, <3>2
  <2>9. TickOf(p, n, b, t)
    BY <1>8, <2>4, <2>6, <2>7, <2>8 DEF TickOf
  <2> QED BY <2>5, <2>9
<1> QED BY <1>6, <1>7, <1>8

\* A byte that is not behind another has no later time.
LEMMA TicksFollowBytes ==
  ASSUME NEW n \in Nat, NEW p, InStep(p, n), NEW b \in Nat, NEW c \in Nat, b <= c,
         NEW t, TickOf(p, n, b, t), NEW u, TickOf(p, n, c, u)
  PROVE  t <= u
<1>1. CASE n = 0
  BY <1>1 DEF TickOf
<1>2. CASE n # 0
  <2>1. PICK q \in 1 .. n : t = p[q].tick /\ (p[q].byte <= b \/ \A k \in 1 .. n : t <= p[k].tick)
    BY <1>2 DEF TickOf
  <2>2. CASE p[q].byte <= b
    <3>1. p[q].byte \in Nat
      BY DEF InStep
    <3>2. p[q].byte <= c
      BY ONLY <2>2, <3>1, b \in Nat, c \in Nat, b <= c
    <3> QED BY <2>1, <3>2 DEF TickOf
  <2>3. CASE \A k \in 1 .. n : t <= p[k].tick
    <3>1. PICK r \in 1 .. n : u = p[r].tick
      BY <1>2 DEF TickOf
    <3> QED BY <2>3, <3>1
  <2> QED BY <2>1, <2>2, <2>3
<1> QED BY <1>1, <1>2

------------------------------------------------------------------------------
(* The lanes of the threads.                                                  *)

TidsBefore(k) == {runs[j].tid : j \in 1 .. k - 1}
FirstRun(k, t) == /\ k \in DOMAIN runs /\ runs[k].tid = t
                  /\ t \notin TidsBefore(k)
\* A thread has the lane of its first run.
LEMMA LaneOfIs ==
  ASSUME NEW r, InSequence(runs, r), NEW t \in TidsOf(runs)
  PROVE  \E k : FirstRun(k, t) /\ LaneOf(runs, ThreadBase, t) = ThreadBase + Cardinality(TidsBefore(k))
<1> DEFINE T == {k \in 1 .. r : runs[k].tid = t}
           IsIt(k) == runs[k].tid = t /\ \A j \in 1 .. k - 1 : runs[j].tid # t
           first == CHOOSE k \in DOMAIN runs : IsIt(k)
<1>1. r \in Nat /\ DOMAIN runs = 1 .. r
  BY DEF InSequence
<1>2. T \in SUBSET Nat /\ T # {}
  BY <1>1 DEF TidsOf
<1>3. PICK m \in T : \A k \in T : m <= k
  <2> HIDE DEF T
  <2> QED BY <1>2, LeastNumber
<1>4. ASSUME NEW j \in 1 .. m - 1 PROVE runs[j].tid # t
  <2>1. j \in 1 .. r /\ ~(m <= j)
    BY <1>1, <1>3
  <2> QED BY <1>3, <2>1
<1>5. \E k \in DOMAIN runs : IsIt(k)
  BY <1>1, <1>3, <1>4
<1>6. first \in DOMAIN runs /\ IsIt(first)
  <2> HIDE DEF IsIt
  <2> QED BY <1>5
<1>7. LaneOf(runs, ThreadBase, t) = ThreadBase + Cardinality({runs[j].tid : j \in 1 .. first - 1})
  BY DEF LaneOf
<1> HIDE DEF first
<1>8. FirstRun(first, t)
  BY <1>6 DEF FirstRun, TidsBefore
<1> QED BY <1>7, <1>8 DEF TidsBefore

\* What comes before a later run includes the thread of an earlier one.
LEMMA EarlierLane ==
  ASSUME NEW r, InSequence(runs, r), IsFiniteSet(TidsOf(runs)), NEW i, NEW t, FirstRun(i, t),
         NEW k, NEW u, FirstRun(k, u), i < k
  PROVE  Cardinality(TidsBefore(i)) < Cardinality(TidsBefore(k))
<1>1. r \in Nat /\ i \in 1 .. r /\ k \in 1 .. r /\ DOMAIN runs = 1 .. r
  BY DEF InSequence, FirstRun
<1>2. TidsBefore(k) \subseteq TidsOf(runs)
  <2>1. \A j \in 1 .. k - 1 : j \in 1 .. r
    BY <1>1
  <2> QED BY <1>1, <2>1 DEF TidsBefore, TidsOf
<1>3. IsFiniteSet(TidsBefore(k)) /\ Cardinality(TidsBefore(k)) \in Nat
  BY <1>2, FS_Subset, FS_CardinalityType
<1>4. TidsBefore(i) \cup {t} \subseteq TidsBefore(k)
  <2>1. \A j \in 1 .. i - 1 : j \in 1 .. k - 1
    BY <1>1
  <2>2. i \in 1 .. k - 1
    BY <1>1
  <2> QED BY <2>1, <2>2 DEF TidsBefore, FirstRun
<1>5. PICK A, B : A = TidsBefore(i) /\ B = A \cup {t}
  OBVIOUS
<1>6. IsFiniteSet(B) /\ Cardinality(B) <= Cardinality(TidsBefore(k)) /\ B \subseteq TidsBefore(k)
  BY <1>3, <1>4, <1>5, FS_Subset
<1>7. IsFiniteSet(A) /\ t \notin A
  <2>1. A \subseteq B /\ t \notin A
    BY <1>5 DEF FirstRun
  <2> QED BY <1>6, <2>1, FS_Subset
<1>8. Cardinality(B) = Cardinality(A) + 1 /\ Cardinality(A) \in Nat
  BY <1>5, <1>7, FS_AddElement, FS_CardinalityType
<1> QED BY ONLY <1>3, <1>5, <1>6, <1>8

\* The Perfetto lane of a lane of the call-stack machine.
LaneNo(l) == IF l \in Exceptions THEN IsrTrack[l]
             ELSE IF l = Boot THEN 0 ELSE LaneOf(runs, ThreadBase, l)

(* The lane of a thread is a number from the first thread lane on.            *)
LEMMA ThreadLaneIs ==
  ASSUME NEW r, InSequence(runs, r), IsFiniteSet(TidsOf(runs)), NEW t \in TidsOf(runs)
  PROVE  LaneOf(runs, ThreadBase, t) \in Nat /\ LaneOf(runs, ThreadBase, t) >= ThreadBase
<1>1. PICK k : FirstRun(k, t) /\ LaneOf(runs, ThreadBase, t) = ThreadBase + Cardinality(TidsBefore(k))
  BY LaneOfIs
<1>2. TidsBefore(k) \subseteq TidsOf(runs)
  <2>1. r \in Nat /\ k \in 1 .. r /\ DOMAIN runs = 1 .. r
    BY <1>1 DEF InSequence, FirstRun
  <2>2. \A j \in 1 .. k - 1 : j \in 1 .. r
    BY <2>1
  <2> QED BY <2>1, <2>2 DEF TidsBefore, TidsOf
<1>3. Cardinality(TidsBefore(k)) \in Nat
  BY <1>2, FS_Subset, FS_CardinalityType
<1> QED BY <1>1, <1>3 DEF ThreadBase

\* Two threads have lanes of their own.
LEMMA ThreadLanesDiffer ==
  ASSUME NEW r, InSequence(runs, r), IsFiniteSet(TidsOf(runs)), NEW t \in TidsOf(runs),
         NEW u \in TidsOf(runs), LaneOf(runs, ThreadBase, t) = LaneOf(runs, ThreadBase, u)
  PROVE  t = u
<1>1. PICK i : FirstRun(i, t) /\ LaneOf(runs, ThreadBase, t) = ThreadBase + Cardinality(TidsBefore(i))
  BY LaneOfIs
<1>2. PICK k : FirstRun(k, u) /\ LaneOf(runs, ThreadBase, u) = ThreadBase + Cardinality(TidsBefore(k))
  BY LaneOfIs
<1>3. PICK a, b : a = Cardinality(TidsBefore(i)) /\ b = Cardinality(TidsBefore(k))
  OBVIOUS
<1>4. a \in Nat /\ b \in Nat
  <2>1. r \in Nat /\ i \in 1 .. r /\ k \in 1 .. r /\ DOMAIN runs = 1 .. r
    BY <1>1, <1>2 DEF InSequence, FirstRun
  <2>2. \A j \in 1 .. i - 1 : j \in 1 .. r
    BY <2>1
  <2>3. \A j \in 1 .. k - 1 : j \in 1 .. r
    BY <2>1
  <2>4. TidsBefore(i) \subseteq TidsOf(runs) /\ TidsBefore(k) \subseteq TidsOf(runs)
    BY <2>1, <2>2, <2>3 DEF TidsBefore, TidsOf
  <2> QED BY <1>3, <2>4, FS_Subset, FS_CardinalityType
<1>5. a = b
  <2>1. ThreadBase + a = ThreadBase + b
    BY <1>1, <1>2, <1>3
  <2> QED BY ONLY <1>4, <2>1 DEF ThreadBase
<1>6. ~(i < k)
  <2>1. ASSUME i < k PROVE FALSE
    <3>1. Cardinality(TidsBefore(i)) < Cardinality(TidsBefore(k))
      BY <1>1, <1>2, <2>1, EarlierLane
    <3> QED BY <1>3, <1>4, <1>5, <3>1
  <2> QED BY <2>1
<1>7. ~(k < i)
  <2>1. ASSUME k < i PROVE FALSE
    <3>1. Cardinality(TidsBefore(k)) < Cardinality(TidsBefore(i))
      BY <1>1, <1>2, <2>1, EarlierLane
    <3> QED BY <1>3, <1>4, <1>5, <3>1
  <2> QED BY <2>1
<1>8. i \in Nat /\ k \in Nat
  BY <1>1, <1>2 DEF InSequence, FirstRun
<1>9. i = k
  BY ONLY <1>6, <1>7, <1>8
<1> QED BY <1>1, <1>2, <1>9 DEF FirstRun

\* The lanes that are known have Perfetto lanes of their own, none of which is the Threads track.
LEMMA LaneNoIs ==
  ASSUME Inputs, capture \in Captures, NEW r, InSequence(runs, r), NEW l \in Known
  PROVE  /\ LaneNo(l) \in Nat /\ LaneNo(l) # ThreadsTrack
         /\ l \in Exceptions => LaneNo(l) = IsrTrack[l] /\ LaneNo(l) \in 1 .. ThreadsTrack - 1
         /\ l = Boot => LaneNo(l) = 0
         /\ l \in TidsOf(runs) => /\ LaneNo(l) = LaneOf(runs, ThreadBase, l)
                                  /\ LaneNo(l) >= ThreadBase
<1>1. TidsOf(runs) \subseteq Threads /\ IsFiniteSet(TidsOf(runs)) /\ Boot \notin TidsOf(runs)
  BY TidsAreThreads
<1>2. CASE l \in Exceptions
  <2>1. IsrTrack[l] \in 1 .. ThreadsTrack - 1
    BY <1>2, TracksAssumption
  <2>2. l \notin TidsOf(runs) /\ l # Boot
    BY <1>1, <1>2, LanesAssumption
  <2> QED BY <1>2, <2>1, <2>2 DEF LaneNo, ThreadsTrack
<1>3. CASE l = Boot
  <2>1. l \notin Exceptions
    BY <1>3, LanesAssumption
  <2> QED BY <1>1, <1>3, <2>1 DEF LaneNo, ThreadsTrack
<1>4. CASE l \in TidsOf(runs)
  <2>1. l \notin Exceptions /\ l # Boot
    BY <1>1, <1>4, LanesAssumption
  <2>2. LaneNo(l) = LaneOf(runs, ThreadBase, l)
    BY <2>1 DEF LaneNo
  <2>3. LaneOf(runs, ThreadBase, l) \in Nat /\ LaneOf(runs, ThreadBase, l) >= ThreadBase
    BY <1>1, <1>4, ThreadLaneIs
  <2> QED BY <2>1, <2>2, <2>3 DEF ThreadBase, ThreadsTrack
<1> QED BY <1>2, <1>3, <1>4 DEF Known

(* No two lanes of the machine share a lane of the file.                      *)
LEMMA LaneNosDiffer ==
  ASSUME Inputs, capture \in Captures, NEW r, InSequence(runs, r), NEW k \in Known, NEW l \in Known,
         LaneNo(k) = LaneNo(l)
  PROVE  k = l
<1>1. IsFiniteSet(TidsOf(runs))
  BY TidsAreThreads
<1>2. PICK a \in Nat : a = LaneNo(k)
  BY LaneNoIs
<1>3. a = LaneNo(l)
  BY <1>2
<1>4. /\ k \in Exceptions => a = IsrTrack[k] /\ a \in 1 .. 999
      /\ k = Boot => a = 0
      /\ k \in TidsOf(runs) => a = LaneOf(runs, ThreadBase, k) /\ a >= 2000
  BY <1>2, LaneNoIs DEF ThreadBase, ThreadsTrack
<1>5. /\ l \in Exceptions => a = IsrTrack[l] /\ a \in 1 .. 999
      /\ l = Boot => a = 0
      /\ l \in TidsOf(runs) => a = LaneOf(runs, ThreadBase, l) /\ a >= 2000
  BY <1>3, LaneNoIs DEF ThreadBase, ThreadsTrack
<1>6. ~(a >= 2000 /\ a \in 1 .. 999) /\ ~(a >= 2000 /\ a = 0) /\ ~(a = 0 /\ a \in 1 .. 999)
  OBVIOUS
<1>7. CASE k \in Exceptions
  <2>1. l \in Exceptions
    BY <1>4, <1>5, <1>6, <1>7 DEF Known
  <2>2. IsrTrack[k] = IsrTrack[l]
    BY <1>4, <1>5, <1>7, <2>1
  <2> QED BY <1>7, <2>1, <2>2, TracksAssumption
<1>8. CASE k = Boot
  <2>1. l \notin Exceptions /\ l \notin TidsOf(runs)
    BY <1>4, <1>5, <1>6, <1>8
  <2> QED BY <1>8, <2>1 DEF Known
<1>9. CASE k \in TidsOf(runs)
  <2>1. l \in TidsOf(runs)
    BY <1>4, <1>5, <1>6, <1>9 DEF Known
  <2>2. LaneOf(runs, ThreadBase, k) = LaneOf(runs, ThreadBase, l)
    BY <1>4, <1>5, <1>9, <2>1
  <2> QED BY <1>1, <1>9, <2>1, <2>2, ThreadLanesDiffer
<1> QED BY <1>7, <1>8, <1>9 DEF Known

\* A slice of a lane goes to the Perfetto lane of it, and only that changes.
LEMMA ReattributedIs ==
  ASSUME Inputs, capture \in Captures, NEW r, InSequence(runs, r), NEW l \in Known,
         NEW s \in Slices, <<s.track, s.thread>> = TagOf(l), l = Boot => BeforeFirst(s.byte),
         NEW x, x = Reattributed(s, runs, ThreadBase, Boot)
  PROVE  /\ x \in Slices /\ x.track = LaneNo(l)
         /\ x.byte = s.byte /\ x.begin = s.begin /\ x.thread = s.thread /\ x.tick = s.tick
<1>1. TidsOf(runs) \subseteq Threads /\ Boot \notin TidsOf(runs)
  BY TidsAreThreads
<1>2. PICK n \in Nat : n = LaneNo(l)
  BY LaneNoIs
<1>3. CASE l \in Exceptions
  <2>1. <<s.track, s.thread>> = <<IsrTrack[l], Untagged>>
    BY <1>3 DEF TagOf
  <2>2. s.track = IsrTrack[l]
    BY ONLY <2>1
  <2>3. IsrTrack[l] \in 1 .. 999
    BY <1>3, TracksAssumption DEF ThreadsTrack
  <2>4. x = s
    BY <2>2, <2>3 DEF Reattributed
  <2> QED BY <1>3, <2>2, <2>4 DEF LaneNo
<1>4. CASE l \notin Exceptions
  <2>1. <<s.track, s.thread>> = <<0, l>>
    BY <1>4 DEF TagOf
  <2>2. s.track = 0 /\ s.thread = l
    BY ONLY <2>1
  <2>3. x = [s EXCEPT !.track = n, !.byte = s.byte]
    <3>1. CASE l \in TidsOf(runs)
      <4>1. n = LaneOf(runs, ThreadBase, s.thread) /\ n # 0
        BY <1>2, <2>2, <3>1, LaneNoIs DEF ThreadBase
      <4> QED BY <2>2, <3>1, <4>1 DEF Reattributed
    <3>2. CASE l = Boot
      <4>1. n = 0 /\ s.thread \notin TidsOf(runs) /\ s.thread = Boot
        BY <1>1, <1>2, <2>2, <3>2, LaneNoIs
      <4>2. ~(runs # <<>> /\ s.byte > runs[1].begin)
        <5>1. ASSUME runs # <<>> PROVE s.byte <= runs[1].begin
          BY <3>2, <5>1 DEF BeforeFirst
        <5>2. ASSUME runs # <<>> PROVE runs[1].begin \in Nat
          <6>1. 1 \in 1 .. r
            BY <5>2 DEF InSequence
          <6> QED BY <6>1 DEF InSequence
        <5>3. s.byte \in Nat
          BY DEF Slices
        <5>4. ASSUME runs # <<>>, s.byte > runs[1].begin PROVE FALSE
          BY <5>1, <5>2, <5>3, <5>4
        <5> QED BY <5>4
      <4> QED BY <2>2, <4>1, <4>2 DEF Reattributed
    <3> QED BY <1>4, <3>1, <3>2 DEF Known
  <2>4. /\ x \in Slices /\ x.track = n
        /\ x.byte = s.byte /\ x.begin = s.begin /\ x.thread = s.thread /\ x.tick = s.tick
    BY ONLY <2>3, s \in Slices, n \in Nat DEF Slices
  <2> QED BY <1>2, <2>4
<1> QED BY <1>3, <1>4

------------------------------------------------------------------------------
(* When the machine is done, every lane and every set of lanes is balanced.   *)

AllDown == \A l \in Lanes : open[l] = 0
TagsOf(L) == {TagOf(l) : l \in L}

(* The lanes known are finitely many.                                         *)
LEMMA KnownFinite ==
  ASSUME Inputs, capture \in Captures, NEW S, seen \in Seq(S)
  PROVE  IsFiniteSet(Known)
<1>1. PICK n \in Nat : n = Len(seen) /\ DOMAIN seen = 1 .. n
  OBVIOUS
<1>2. PICK J : J = {j \in DOMAIN seen : seen[j].kind = "Exception"}
  OBVIOUS
<1>3. IsFiniteSet(J)
  <2>1. IsFiniteSet(1 .. n)
    BY FS_Interval
  <2> QED BY <1>1, <1>2, <2>1, FS_Subset
<1>4. IsFiniteSet(Entered)
  <2> DEFINE number == [k \in J |-> seen[k].number]
  <2>1. number \in Surjection(J, Entered)
    <3>1. number \in [J -> Entered]
      BY <1>2 DEF Entered
    <3>2. \A t \in Entered : \E k \in J : number[k] = t
      BY <1>2 DEF Entered
    <3> HIDE DEF number
    <3> QED BY <3>1, <3>2 DEF Surjection
  <2> HIDE DEF number
  <2> QED BY <1>3, <2>1, FS_Surjection
<1>5. IsFiniteSet(Entered \cap Exceptions)
  BY <1>4, FS_Subset
<1>6. IsFiniteSet(TidsOf(runs)) /\ IsFiniteSet({Boot})
  BY TidsAreThreads, FS_Singleton
<1>7. IsFiniteSet({Boot} \cup TidsOf(runs))
  BY <1>6, FS_Union
<1> QED BY <1>5, <1>7, FS_Union DEF Known

(* All the lanes that share a tag are at no depth at the end, and none was    *)
(* below.                                                                     *)
LEMMA TagsGo ==
  ASSUME LedgerOf(out), AllDown, NEW n \in Nat, Len(out) = n, NEW L, L \subseteq Lanes, IsFiniteSet(L)
  PROVE  Goes(out, TagsOf(L), 0, 0, unbegun = {})
<1> DEFINE D == {U \in SUBSET L : ~Goes(out, TagsOf(U), 0, 0, unbegun = {})}
<1>1. SUFFICES ASSUME D # {} PROVE FALSE
  OBVIOUS
<1>2. D \subseteq FiniteSubsetsOf(L)
  BY FS_Subset DEF FiniteSubsetsOf
<1>3. PICK U \in D : \A V \in D : V \subseteq U => V = U
  <2> HIDE DEF D
  <2> QED BY <1>1, <1>2, SmallestSet
<1>4. CASE U = {}
  <2>1. \A k \in 1 .. n : Step(out[k], TagsOf(U)) = 0
    BY <1>4 DEF Step, TagsOf
  <2>2. Goes(out, TagsOf(U), 0, 0, unbegun = {})
    BY <2>1, GoesElsewhere
  <2> QED BY <1>3, <2>2
<1>5. CASE U # {}
  <2>1. PICK l : l \in U
    BY <1>5
  <2>2. PICK V : V = U \ {l}
    OBVIOUS
  <2>3. V \in SUBSET L /\ V \subseteq U /\ V # U /\ l \in Lanes /\ V \subseteq Lanes
    BY <1>3, <2>1, <2>2
  <2>4. Goes(out, TagsOf(V), 0, 0, unbegun = {})
    BY <1>3, <2>3
  <2>5. Goes(out, {TagOf(l)}, 0, 0, unbegun = {})
    <3>1. open[l] = 0
      BY <2>3 DEF AllDown
    <3>2. Goes(out, {TagOf(l)}, 0, open[l], unbegun = {})
      BY <2>3 DEF LedgerOf
    <3> QED BY <3>1, <3>2
  <2>6. TagsOf(V) \cap {TagOf(l)} = {}
    <3>1. \A k \in V : TagOf(k) # TagOf(l)
      BY <2>2, <2>3, TagsDiffer
    <3> QED BY <3>1 DEF TagsOf
  <2>7. TagsOf(U) = TagsOf(V) \cup {TagOf(l)}
    BY <2>1, <2>2 DEF TagsOf
  <2>8. Goes(out, TagsOf(V) \cup {TagOf(l)}, 0 + 0, 0 + 0, unbegun = {})
    <3>1. PICK A, B, sound, z : A = TagsOf(V) /\ B = {TagOf(l)} /\ sound = (unbegun = {}) /\ z = 0
      OBVIOUS
    <3>2. Goes(out, A, z, z, sound) /\ Goes(out, B, z, z, sound) /\ A \cap B = {}
      BY <2>4, <2>5, <2>6, <3>1
    <3>3. z \in Int
      BY <3>1
    <3>4. Goes(out, A \cup B, z + z, z + z, sound)
      BY ONLY <3>2, <3>3, n \in Nat, Len(out) = n, GoesTogether
    <3> QED BY <3>1, <3>4
  <2>9. Goes(out, TagsOf(U), 0, 0, unbegun = {})
    <3>1. 0 + 0 = 0
      OBVIOUS
    <3> QED BY <2>7, <2>8, <3>1
  <2> QED BY <1>3, <2>9
<1> QED BY <1>4, <1>5

------------------------------------------------------------------------------
(* The lanes of the file.                                                     *)

\* The slices p are those of the sink, in the Perfetto lanes no and in order of time.
LaidOut(p, n, no) ==
  /\ p \in Seq(Slices) /\ Len(p) = n
  /\ \A k \in 1 .. n : /\ p[k].byte = out[k].byte /\ p[k].begin = out[k].begin
                       /\ \E l \in Known : /\ <<out[k].track, out[k].thread>> = TagOf(l)
                                           /\ p[k].track = no[l]
  /\ \A i, j \in 1 .. n : i <= j => p[i].tick <= p[j].tick
\* A Perfetto lane, whatever the thread.
Track(x) == {x} \X (Lanes \cup {Untagged})

(* A slice is of a track if its tag is among the tags of the track.           *)
LEMMA SliceOfTrack ==
  ASSUME NEW s \in Slices, NEW x
  PROVE  <<s.track, s.thread>> \in Track(x) <=> s.track = x
<1>1. s.thread \in Lanes \cup {Untagged}
  BY DEF Slices
<1>2. PICK a, b : a = s.track /\ b = s.thread
  OBVIOUS
<1>3. <<a, b>> \in {x} \X (Lanes \cup {Untagged}) <=> a = x
  BY ONLY <1>1, <1>2
<1> QED BY <1>2, <1>3 DEF Track

\* The lanes of the file go as those of the machine.
LEMMA LaidOutGoes ==
  ASSUME Known \subseteq Lanes, IsFiniteSet(Known), LedgerOf(out), AllDown,
         NEW n \in Nat, Len(out) = n, NEW no, NEW p, LaidOut(p, n, no), NEW x
  PROVE  Goes(p, Track(x), 0, 0, unbegun = {})
<1> DEFINE L == {l \in Known : no[l] = x}
<1>1. L \subseteq Lanes /\ IsFiniteSet(L)
  BY FS_Subset
<1>2. Goes(out, TagsOf(L), 0, 0, unbegun = {})
  <2> HIDE DEF L
  <2> QED BY <1>1, TagsGo
<1>3. Len(p) = n /\ \A k \in 1 .. n : p[k] \in Slices
  BY DEF LaidOut
<1>4. ASSUME NEW k \in 1 .. n PROVE Step(p[k], Track(x)) = Step(out[k], TagsOf(L))
  <2>1. p[k].begin = out[k].begin
    BY DEF LaidOut
  <2>2. PICK l \in Known : <<out[k].track, out[k].thread>> = TagOf(l) /\ p[k].track = no[l]
    BY DEF LaidOut
  <2>3. <<p[k].track, p[k].thread>> \in Track(x) <=> no[l] = x
    BY <1>3, <2>2, SliceOfTrack
  <2>4. TagOf(l) \in TagsOf(L) <=> l \in L
    <3>1. ASSUME NEW m \in L, TagOf(m) = TagOf(l) PROVE m = l
      BY <3>1, <1>1, TagsDiffer
    <3> HIDE DEF L
    <3> QED BY <3>1 DEF TagsOf
  <2>5. <<p[k].track, p[k].thread>> \in Track(x) <=> <<out[k].track, out[k].thread>> \in TagsOf(L)
    <3>1. l \in L <=> no[l] = x
      OBVIOUS
    <3> HIDE DEF L
    <3> QED BY <2>2, <2>3, <2>4, <3>1
  <2> HIDE DEF L
  <2> QED BY <2>1, <2>5 DEF Step
<1> HIDE DEF L
<1> QED BY <1>2, <1>3, <1>4, GoesSame

\* What the depth of a lane of the packets is.
LEMMA LaneBalances ==
  ASSUME NEW n \in Nat, NEW s \in Seq(Slices), Len(s) = n, NEW x \in Nat, NEW sound \in BOOLEAN,
         Goes(s, Track(x), 0, 0, sound),
         NEW lane, lane = {i \in DOMAIN Packets(s) : Packets(s)[i].uuid = Uuid(x)}
  PROVE  /\ Depth(Packets(s), lane, n) = 0
         /\ sound => \A k \in lane : Depth(Packets(s), lane, k) >= 0
<1>1. DOMAIN s = 1 .. n /\ \A k \in 1 .. n : s[k] \in Slices
  OBVIOUS
<1>2. PICK P : P = Packets(s)
  OBVIOUS
<1>3. /\ DOMAIN P = 1 .. n
      /\ \A k \in 1 .. n : /\ P[k].uuid = Uuid(s[k].track)
                           /\ P[k].type = "SLICE_BEGIN" <=> s[k].begin
  <2>1. P = [k \in 1 .. n |->
               [type |-> IF s[k].begin THEN "SLICE_BEGIN" ELSE "SLICE_END",
                uuid |-> Uuid(s[k].track), timestamp |-> s[k].tick, clears |-> k = 1]]
    BY <1>1, <1>2 DEF Packets
  <2> QED BY <2>1
<1>4. \A k \in 1 .. n : P[k].uuid = Uuid(x) <=> <<s[k].track, s[k].thread>> \in Track(x)
  <2>1. ASSUME NEW k \in 1 .. n PROVE P[k].uuid = Uuid(x) <=> <<s[k].track, s[k].thread>> \in Track(x)
    <3>1. PICK y \in Nat : y = s[k].track
      BY <1>1 DEF Slices
    <3>2. P[k].uuid = 4096 + y
      BY <1>3, <3>1 DEF Uuid
    <3>3. <<s[k].track, s[k].thread>> \in Track(x) <=> y = x
      BY <1>1, <3>1, SliceOfTrack
    <3> QED BY <3>2, <3>3 DEF Uuid
  <2> QED BY <2>1
<1>5. lane = {i \in 1 .. n : <<s[i].track, s[i].thread>> \in Track(x)}
  BY <1>2, <1>3, <1>4
<1>6. ASSUME NEW k \in 0 .. n PROVE Depth(P, lane, k) = DepthCounted(s, Track(x), k)
  <2>1. {i \in lane : i <= k} = {i \in 1 .. k : <<s[i].track, s[i].thread>> \in Track(x)}
    BY <1>5
  <2>2. {i \in lane : i <= k /\ P[i].type = "SLICE_BEGIN"}
          = {i \in 1 .. k : <<s[i].track, s[i].thread>> \in Track(x) /\ s[i].begin}
    <3>1. \A i \in 1 .. n : P[i].type = "SLICE_BEGIN" <=> s[i].begin
      BY <1>3
    <3>2. \A i \in 1 .. k : i \in 1 .. n
      OBVIOUS
    <3> QED BY <1>5, <3>1, <3>2
  <2> QED BY <2>1, <2>2 DEF Depth, DepthCounted
<1>7. PICK d : DepthOn(d, s, Track(x), 0, 0, sound)
  BY DEF Goes
<1>8. \A k \in 0 .. n : d[k] = DepthCounted(s, Track(x), k)
  BY <1>7, DepthCounts
<1>9. d[n] = 0 /\ (sound => \A k \in 0 .. n : d[k] >= 0)
  BY <1>7 DEF DepthOn
<1>10. Depth(P, lane, n) = 0
  <2>1. n \in 0 .. n
    OBVIOUS
  <2> QED BY <1>6, <1>8, <1>9, <2>1
<1>11. ASSUME sound, NEW k \in lane PROVE Depth(P, lane, k) >= 0
  <2>1. k \in 1 .. n
    BY <1>5, <1>11
  <2>2. k \in 0 .. n
    BY <2>1
  <2> QED BY <1>6, <1>8, <1>9, <1>11, <2>2
<1> QED BY <1>2, <1>10, <1>11

------------------------------------------------------------------------------
(* The file: the slices of the Threads track, then those of the lanes.        *)

\* The slices g of the Threads track, with the times that those of p give to their bytes.
LogPart(g, m, p, n) ==
  /\ g \in Seq(Slices) /\ Len(g) = m /\ m % 2 = 0
  /\ \A k \in 1 .. m : /\ g[k].track = ThreadsTrack /\ (g[k].begin <=> k % 2 = 1)
                       /\ TickOf(p, n, g[k].byte, g[k].tick)
  /\ \A i, j \in 1 .. m : i <= j => g[i].byte <= g[j].byte
\* The tracks are described, and that of the threads is of nothing else.
Described(no, m) ==
  /\ \A l \in Known : no[l] \in Nat /\ no[l] # ThreadsTrack /\ Uuid(no[l]) \in Descriptors
  /\ m # 0 => Uuid(ThreadsTrack) \in Descriptors
FileParts(file, g, m, p, n, no) ==
  /\ m \in Nat /\ n \in Nat /\ Len(out) = n
  /\ LaidOut(p, n, no) /\ LogPart(g, m, p, n) /\ Described(no, m) /\ file = g \o p

(* The ticks of the slices in the file go up with their bytes.                *)
LEMMA LaidOutInStep ==
  ASSUME Written(out), NEW n \in Nat, Len(out) = n, NEW no, NEW p, LaidOut(p, n, no)
  PROVE  InStep(p, n)
<1>1. p \in Seq(Slices) /\ Len(p) = n
  BY DEF LaidOut
<1>2. \A k \in 1 .. n : p[k] \in Slices
  BY <1>1
<1>3. DOMAIN p = 1 .. n
  BY <1>1
<1>4. \A k \in 1 .. n : p[k].byte \in Nat /\ p[k].tick \in Nat
  BY <1>2 DEF Slices
<1>5. \A k \in 1 .. n : p[k].byte = out[k].byte
  BY DEF LaidOut
<1>6. \A i, j \in 1 .. n : i <= j => out[i].byte <= out[j].byte
  BY DEF Written
<1>7. \A i, j \in 1 .. n : i <= j => p[i].byte <= p[j].byte
  BY <1>5, <1>6
<1>8. \A i, j \in 1 .. n : i <= j => p[i].tick <= p[j].tick
  BY DEF LaidOut
<1> QED BY <1>3, <1>4, <1>7, <1>8 DEF InStep

\* Which slice of which part a slice of the file is.
Parted(file, g, m, p, n) ==
  /\ file \in Seq(Slices) /\ Len(file) = m + n /\ DOMAIN file = 1 .. m + n
  /\ \A k \in 1 .. m : k \in 1 .. m + n /\ file[k] = g[k]
  /\ \A k \in 1 .. n : m + k \in 1 .. m + n /\ file[m + k] = p[k]
  /\ \A k \in 1 .. m + n : k \in 1 .. m \/ \E i \in 1 .. n : k = m + i
(* The file is the slices of the lanes and the switches, told apart by        *)
(* their tracks.                                                              *)
LEMMA FileParted ==
  ASSUME NEW file, NEW g, NEW m, NEW p, NEW n, NEW no, FileParts(file, g, m, p, n, no)
  PROVE  Parted(file, g, m, p, n)
<1>1. m \in Nat /\ n \in Nat
  BY DEF FileParts
<1>2. g \in Seq(Slices) /\ Len(g) = m /\ p \in Seq(Slices) /\ Len(p) = n /\ file = g \o p
  BY DEF FileParts, LogPart, LaidOut
<1>3. file \in Seq(Slices) /\ Len(file) = m + n
  BY ONLY <1>1, <1>2
<1>4. DOMAIN file = 1 .. m + n
  BY ONLY <1>1, <1>3
<1>5. \A k \in 1 .. m : k \in 1 .. m + n /\ file[k] = g[k]
  BY ONLY <1>1, <1>2
<1>6. \A k \in 1 .. n : m + k \in 1 .. m + n /\ file[m + k] = p[k]
  BY ONLY <1>1, <1>2
<1>7. \A k \in 1 .. m + n : k \in 1 .. m \/ \E i \in 1 .. n : k = m + i
  <2>1. ASSUME NEW k \in 1 .. m + n, k \notin 1 .. m PROVE \E i \in 1 .. n : k = m + i
    <3>1. k - m \in 1 .. n /\ k = m + (k - m)
      BY <1>1, <2>1
    <3> QED BY <3>1
  <2> QED BY <2>1
<1> QED BY <1>3, <1>4, <1>5, <1>6, <1>7 DEF Parted

\* Every track of the file is balanced.
LEMMA FileGoes ==
  ASSUME Known \subseteq Lanes, IsFiniteSet(Known), LedgerOf(out), AllDown,
         NEW file, NEW g, NEW m, NEW p, NEW n, NEW no, FileParts(file, g, m, p, n, no), NEW x
  PROVE  Goes(file, Track(x), 0, 0, unbegun = {})
<1>1. m \in Nat /\ n \in Nat /\ Len(out) = n /\ LaidOut(p, n, no)
  BY DEF FileParts
<1>2. g \in Seq(Slices) /\ Len(g) = m /\ p \in Seq(Slices) /\ Len(p) = n /\ file = g \o p
  BY DEF FileParts, LogPart, LaidOut
<1>3. \A k \in 1 .. m : g[k] \in Slices /\ g[k].track = ThreadsTrack
  <2>1. \A k \in 1 .. m : g[k] \in Slices
    BY <1>1, <1>2
  <2> QED BY <2>1 DEF FileParts, LogPart
<1>4. \A k \in 1 .. n : p[k] \in Slices /\ p[k].track # ThreadsTrack
  <2>1. \A k \in 1 .. n : p[k] \in Slices
    BY <1>1, <1>2
  <2>2. \A k \in 1 .. n : \E l \in Known : p[k].track = no[l]
    BY <1>1 DEF LaidOut
  <2>3. \A l \in Known : no[l] # ThreadsTrack
    BY DEF FileParts, Described
  <2> QED BY <2>1, <2>2, <2>3
<1>5. PICK sound, z : sound = (unbegun = {}) /\ z = 0
  OBVIOUS
<1>6. z \in Int /\ z >= 0
  BY <1>5
<1>7. Goes(g, Track(x), z, z, sound)
  <2>1. CASE x = ThreadsTrack
    <3>1. \A k \in 1 .. m : <<g[k].track, g[k].thread>> \in Track(x) /\ (g[k].begin <=> k % 2 = 1)
      <4>1. \A k \in 1 .. m : <<g[k].track, g[k].thread>> \in Track(x)
        BY <1>3, <2>1, SliceOfTrack
      <4> QED BY <4>1 DEF FileParts, LogPart
    <3>2. m % 2 = 0
      BY DEF FileParts, LogPart
    <3>3. Goes(g, Track(x), 0, 0, TRUE)
      BY <1>1, <1>2, <3>1, <3>2, AlternatingGoes
    <3>4. Goes(g, Track(x), z, z, TRUE)
      BY <1>5, <3>3
    <3> QED BY ONLY <1>1, <1>2, <3>4, GoesSame
  <2>2. CASE x # ThreadsTrack
    <3>1. \A k \in 1 .. m : Step(g[k], Track(x)) = 0
      <4>1. \A k \in 1 .. m : <<g[k].track, g[k].thread>> \notin Track(x)
        BY <1>3, <2>2, SliceOfTrack
      <4> QED BY <4>1 DEF Step
    <3> QED BY ONLY <1>1, <1>2, <1>6, <3>1, GoesElsewhere
  <2> QED BY <2>1, <2>2
<1>8. Goes(p, Track(x), z, z, sound)
  <2>1. CASE x = ThreadsTrack
    <3>1. \A k \in 1 .. n : Step(p[k], Track(x)) = 0
      <4>1. \A k \in 1 .. n : <<p[k].track, p[k].thread>> \notin Track(x)
        BY <1>4, <2>1, SliceOfTrack
      <4> QED BY <4>1 DEF Step
    <3> QED BY ONLY <1>1, <1>2, <1>6, <3>1, GoesElsewhere
  <2>2. CASE x # ThreadsTrack
    <3>1. Goes(p, Track(x), 0, 0, unbegun = {})
      BY <1>1, LaidOutGoes
    <3> QED BY <1>5, <3>1
  <2> QED BY <2>1, <2>2
<1>9. Goes(g \o p, Track(x), z, z, sound)
  BY ONLY <1>2, <1>7, <1>8, GoesFurther
<1> QED BY <1>2, <1>5, <1>9

\* In every track the times are in order.
LEMMA FileInTime ==
  ASSUME Written(out),
         NEW file, NEW g, NEW m, NEW p, NEW n, NEW no, FileParts(file, g, m, p, n, no)
  PROVE  \A i, j \in DOMAIN file : i <= j /\ file[i].track = file[j].track => file[i].tick <= file[j].tick
<1>1. m \in Nat /\ n \in Nat /\ Len(out) = n /\ LaidOut(p, n, no)
  BY DEF FileParts
<1>2. Parted(file, g, m, p, n)
  BY FileParted
<1>3. InStep(p, n)
  BY <1>1, LaidOutInStep
<1>4. \A k \in 1 .. m : g[k].track = ThreadsTrack
  BY DEF FileParts, LogPart
<1>5. \A k \in 1 .. n : p[k].track # ThreadsTrack
  <2>1. \A k \in 1 .. n : \E l \in Known : p[k].track = no[l]
    BY <1>1 DEF LaidOut
  <2>2. \A l \in Known : no[l] # ThreadsTrack
    BY DEF FileParts, Described
  <2> QED BY <2>1, <2>2
<1> SUFFICES ASSUME NEW i \in DOMAIN file, NEW j \in DOMAIN file, i <= j, file[i].track = file[j].track
             PROVE  file[i].tick <= file[j].tick
  OBVIOUS
<1>6. i \in 1 .. m + n /\ j \in 1 .. m + n
  BY <1>2 DEF Parted
<1>7. CASE i \in 1 .. m
  <2>1. file[i] = g[i]
    BY <1>2, <1>7 DEF Parted
  <2>2. j \in 1 .. m /\ file[j] = g[j]
    <3>1. ASSUME NEW k \in 1 .. n, j = m + k PROVE FALSE
      <4>1. file[j] = p[k]
        BY <1>2, <3>1 DEF Parted
      <4> QED BY <1>4, <1>5, <1>7, <2>1, <4>1
    <3> QED BY <1>2, <1>6, <3>1 DEF Parted
  <2>3. PICK b, c : b = g[i].byte /\ c = g[j].byte
    OBVIOUS
  <2>4. b \in Nat /\ c \in Nat
    <3>1. g \in Seq(Slices) /\ Len(g) = m
      BY DEF FileParts, LogPart
    <3>2. g[i] \in Slices /\ g[j] \in Slices
      BY <1>1, <1>7, <2>2, <3>1
    <3> QED BY <2>3, <3>2 DEF Slices
  <2>5. b <= c
    BY <1>7, <2>2, <2>3 DEF FileParts, LogPart
  <2>6. TickOf(p, n, b, g[i].tick) /\ TickOf(p, n, c, g[j].tick)
    BY <1>7, <2>2, <2>3 DEF FileParts, LogPart
  <2>7. g[i].tick <= g[j].tick
    BY <1>1, <1>3, <2>4, <2>5, <2>6, TicksFollowBytes
  <2> QED BY <2>1, <2>2, <2>7
<1>8. CASE i \notin 1 .. m
  <2>1. PICK a \in 1 .. n : i = m + a
    BY <1>2, <1>6, <1>8 DEF Parted
  <2>2. file[i] = p[a]
    BY <1>2, <2>1 DEF Parted
  <2>3. j \notin 1 .. m
    BY <1>1, <1>6, <1>8
  <2>4. PICK b \in 1 .. n : j = m + b
    BY <1>2, <1>6, <2>3 DEF Parted
  <2>5. file[j] = p[b]
    BY <1>2, <2>4 DEF Parted
  <2>6. a <= b
    BY <1>1, <2>1, <2>4
  <2>7. p[a].tick <= p[b].tick
    BY <1>1, <2>6 DEF LaidOut
  <2> QED BY <2>2, <2>5, <2>7
<1> QED BY <1>7, <1>8

\* No slice is on the wrong side of a switch.
LEMMA FileSides ==
  ASSUME Written(out),
         NEW file, NEW g, NEW m, NEW p, NEW n, NEW no, FileParts(file, g, m, p, n, no)
  PROVE  \A i, j \in DOMAIN file : file[i].track = ThreadsTrack => SidesOf(file[i], file[j])
<1>1. m \in Nat /\ n \in Nat /\ Len(out) = n /\ LaidOut(p, n, no)
  BY DEF FileParts
<1>2. Parted(file, g, m, p, n)
  BY FileParted
<1>3. InStep(p, n)
  BY <1>1, LaidOutInStep
<1>5. \A k \in 1 .. n : p[k].track # ThreadsTrack
  <2>1. \A k \in 1 .. n : \E l \in Known : p[k].track = no[l]
    BY <1>1 DEF LaidOut
  <2>2. \A l \in Known : no[l] # ThreadsTrack
    BY DEF FileParts, Described
  <2> QED BY <2>1, <2>2
<1> SUFFICES ASSUME NEW i \in DOMAIN file, NEW j \in DOMAIN file, file[i].track = ThreadsTrack
             PROVE  SidesOf(file[i], file[j])
  OBVIOUS
<1>6. i \in 1 .. m + n /\ j \in 1 .. m + n
  BY <1>2 DEF Parted
<1>7. i \in 1 .. m /\ file[i] = g[i]
  <2>1. ASSUME NEW k \in 1 .. n, i = m + k PROVE FALSE
    <3>1. file[i] = p[k]
      BY <1>2, <2>1 DEF Parted
    <3> QED BY <1>5, <3>1
  <2> QED BY <1>2, <1>6, <2>1 DEF Parted
<1>8. PICK b, t : b = g[i].byte /\ t = g[i].tick
  OBVIOUS
<1>9. g \in Seq(Slices) /\ Len(g) = m
  BY DEF FileParts, LogPart
<1>10. b \in Nat /\ t \in Nat
  <2>1. g[i] \in Slices
    BY <1>1, <1>7, <1>9
  <2> QED BY <1>8, <2>1 DEF Slices
<1>11. TickOf(p, n, b, t)
  BY <1>7, <1>8 DEF FileParts, LogPart
<1>12. CASE j \in 1 .. m
  <2>1. file[j] = g[j]
    BY <1>2, <1>12 DEF Parted
  <2>2. PICK c, u : c = g[j].byte /\ u = g[j].tick
    OBVIOUS
  <2>3. c \in Nat /\ u \in Nat
    <3>1. g[j] \in Slices
      BY <1>1, <1>9, <1>12
    <3> QED BY <2>2, <3>1 DEF Slices
  <2>4. TickOf(p, n, c, u)
    BY <1>12, <2>2 DEF FileParts, LogPart
  <2>5. c < b => u <= t
    BY <1>1, <1>3, <1>10, <1>11, <2>3, <2>4, TicksFollowBytes
  <2>6. c > b => u >= t
    <3>1. ASSUME c > b PROVE t <= u
      <4>1. b <= c
        BY <1>10, <2>3, <3>1
      <4> QED BY <1>1, <1>3, <1>10, <1>11, <2>3, <2>4, <4>1, TicksFollowBytes
    <3> QED BY <1>10, <2>3, <3>1
  <2> QED BY <1>7, <1>8, <2>1, <2>2, <2>5, <2>6 DEF SidesOf
<1>13. CASE j \notin 1 .. m
  <2>1. PICK a \in 1 .. n : j = m + a
    BY <1>2, <1>6, <1>13 DEF Parted
  <2>2. file[j] = p[a]
    BY <1>2, <2>1 DEF Parted
  <2>3. PICK c, u : c = p[a].byte /\ u = p[a].tick
    OBVIOUS
  <2>4. c \in Nat /\ u \in Nat
    BY <1>3, <2>3 DEF InStep
  <2>5. /\ c <= b => u <= t
        /\ ~(c <= b) => t <= u
    BY <1>11, <2>3 DEF TickOf
  <2>6. (c < b => u <= t) /\ (c > b => u >= t)
    BY ONLY <1>10, <2>4, <2>5
  <2> QED BY <1>7, <1>8, <2>2, <2>3, <2>6 DEF SidesOf
<1> QED BY <1>12, <1>13

\* The lanes of the file are described, balanced and in order of time.
LEMMA FileLanes ==
  ASSUME Written(out), Known \subseteq Lanes, IsFiniteSet(Known), LedgerOf(out), AllDown,
         NEW file, NEW g, NEW m, NEW p, NEW n, NEW no, FileParts(file, g, m, p, n, no)
  PROVE  LanesBalance(Packets(file))
<1>1. m \in Nat /\ n \in Nat /\ Parted(file, g, m, p, n)
  BY FileParted DEF FileParts
<1>2. PICK N \in Nat : N = m + n
  BY <1>1
<1>3. file \in Seq(Slices) /\ Len(file) = N /\ DOMAIN file = 1 .. N
  BY <1>1, <1>2 DEF Parted
<1>4. PICK P : P = Packets(file)
  OBVIOUS
<1>5. /\ DOMAIN P = 1 .. N /\ Len(P) = N
      /\ \A k \in 1 .. N : P[k].uuid = Uuid(file[k].track) /\ P[k].timestamp = file[k].tick
  <2>1. P = [k \in 1 .. N |->
               [type |-> IF file[k].begin THEN "SLICE_BEGIN" ELSE "SLICE_END",
                uuid |-> Uuid(file[k].track), timestamp |-> file[k].tick, clears |-> k = 1]]
    BY <1>3, <1>4 DEF Packets
  <2> QED BY <2>1
<1>6. ASSUME NEW i \in 1 .. N PROVE file[i].track \in Nat /\ Uuid(file[i].track) \in Descriptors
  <2>1. file[i] \in Slices
    BY <1>3
  <2>2. CASE i \in 1 .. m
    <3>1. file[i].track = ThreadsTrack
      <4>1. file[i] = g[i]
        BY <1>1, <2>2 DEF Parted
      <4> QED BY <2>2, <4>1 DEF FileParts, LogPart
    <3>2. m # 0
      BY <2>2
    <3> QED BY <2>1, <3>1, <3>2 DEF Slices, FileParts, Described
  <2>3. CASE i \notin 1 .. m
    <3>1. PICK a \in 1 .. n : i = m + a
      BY <1>1, <1>2, <2>3 DEF Parted
    <3>2. file[i] = p[a]
      BY <1>1, <3>1 DEF Parted
    <3>3. PICK l \in Known : p[a].track = no[l]
      BY DEF FileParts, LaidOut
    <3> QED BY <2>1, <3>2, <3>3 DEF Slices, FileParts, Described
  <2> QED BY <2>2, <2>3
<1> SUFFICES LanesBalance(P)
  BY <1>4
<1> SUFFICES ASSUME NEW uuid \in {P[i].uuid : i \in DOMAIN P}
             PROVE  LET lane == {i \in DOMAIN P : P[i].uuid = uuid} IN
                    /\ uuid \in Descriptors
                    /\ Depth(P, lane, Len(P)) = 0
                    /\ unbegun = {} => \A k \in lane : Depth(P, lane, k) >= 0
                    /\ \A i, j \in lane : i <= j => P[i].timestamp <= P[j].timestamp
  BY Zenon DEF LanesBalance
<1>14. PICK lane : lane = {i \in DOMAIN P : P[i].uuid = uuid}
  OBVIOUS
<1>7. PICK a \in 1 .. N : uuid = Uuid(file[a].track)
  BY <1>5
<1>8. PICK x \in Nat : x = file[a].track
  BY <1>6
<1>9. uuid = Uuid(x) /\ uuid \in Descriptors
  BY <1>6, <1>7, <1>8
<1>10. PICK sound \in BOOLEAN : sound = (unbegun = {})
  OBVIOUS
<1>11. Goes(file, Track(x), 0, 0, sound)
  BY <1>10, FileGoes
<1>12. /\ Depth(P, lane, N) = 0
       /\ sound => \A k \in lane : Depth(P, lane, k) >= 0
  <2>1. lane = {i \in DOMAIN Packets(file) : Packets(file)[i].uuid = Uuid(x)}
    BY <1>4, <1>9, <1>14
  <2> QED BY <1>3, <1>4, <1>11, <2>1, LaneBalances
<1>13. ASSUME NEW i \in lane, NEW j \in lane, i <= j PROVE P[i].timestamp <= P[j].timestamp
  <2>1. i \in 1 .. N /\ j \in 1 .. N /\ P[i].uuid = Uuid(x) /\ P[j].uuid = Uuid(x)
    BY <1>5, <1>9, <1>14
  <2>2. PICK y \in Nat, z \in Nat : y = file[i].track /\ z = file[j].track
    BY <1>6, <2>1
  <2>3. 4096 + y = 4096 + x /\ 4096 + z = 4096 + x
    BY <1>5, <2>1, <2>2 DEF Uuid
  <2>4. y = z
    BY ONLY <2>3, x \in Nat, y \in Nat, z \in Nat
  <2>5. file[i].tick <= file[j].tick
    BY <1>3, <1>13, <2>1, <2>2, <2>4, FileInTime
  <2> QED BY <1>5, <2>1, <2>5
<1> QED BY <1>5, <1>9, <1>10, <1>12, <1>13, <1>14

------------------------------------------------------------------------------
(* The file of a base is made of such parts.                                  *)

\* The slices of a lane that has an exception are described.
LEMMA EnteredDescribed ==
  ASSUME NEW l \in Entered
  PROVE  Uuid(IsrTrack[l]) \in Descriptors
<1>1. PICK k \in {j \in DOMAIN seen : seen[j].kind = "Exception"} : l = seen[k].number
  BY DEF Entered
<1>2. Uuid(IsrTrack[l]) \in {Uuid(IsrTrack[seen[j].number]) : j \in {i \in DOMAIN seen : seen[i].kind = "Exception"}}
  BY <1>1
<1> QED BY <1>2, Zenon DEF Descriptors

\* Without a Threads track the slices stay where the sink put them.
LEMMA TimedIsLaidOut ==
  ASSUME Written(out), NEW n \in Nat, Len(out) = n, NEW q, InTime(q, out, n), NEW no,
         no = [l \in Known |-> TagOf(l)[1]]
  PROVE  LaidOut(q, n, no)
<1>1. ASSUME NEW k \in 1 .. n
      PROVE  \E l \in Known : <<out[k].track, out[k].thread>> = TagOf(l) /\ q[k].track = no[l]
  <2>1. PICK l \in Known : <<out[k].track, out[k].thread>> = TagOf(l)
    BY DEF Written
  <2>2. PICK a, b, tag : a = out[k].track /\ b = out[k].thread /\ tag = TagOf(l)
    OBVIOUS
  <2>3. tag[1] = a
    <3>1. <<a, b>> = tag
      BY <2>1, <2>2
    <3> QED BY ONLY <3>1
  <2>4. q[k].track = a
    BY <2>2 DEF InTime
  <2>5. no[l] = tag[1]
    BY <2>2
  <2> QED BY <2>1, <2>3, <2>4, <2>5
<1> QED BY <1>1 DEF InTime, LaidOut
(* What the file without thread lanes is made of.                             *)
LEMMA TimedDescribed ==
  ASSUME Inputs, capture \in Captures, NEW no, no = [l \in Known |-> TagOf(l)[1]]
  PROVE  Described(no, 0)
<1>1. ASSUME NEW l \in Known PROVE no[l] \in Nat /\ no[l] # ThreadsTrack /\ Uuid(no[l]) \in Descriptors
  <2>1. CASE l \in Exceptions
    <3>1. TagOf(l)[1] = IsrTrack[l]
      BY <2>1 DEF TagOf
    <3>2. IsrTrack[l] \in 1 .. ThreadsTrack - 1
      BY <2>1, TracksAssumption
    <3>3. l \in Entered
      <4>1. l # Boot /\ l \notin TidsOf(runs)
        BY <2>1, TidsAreThreads, LanesAssumption
      <4> QED BY <2>1, <4>1 DEF Known
    <3>4. no[l] = IsrTrack[l]
      BY <3>1
    <3>5. IsrTrack[l] \in Nat /\ IsrTrack[l] # ThreadsTrack
      BY <3>2 DEF ThreadsTrack
    <3>6. Uuid(IsrTrack[l]) \in Descriptors
      BY <3>3, EnteredDescribed
    <3> QED BY <3>4, <3>5, <3>6
  <2>2. CASE l \notin Exceptions
    <3>1. TagOf(l)[1] = 0
      BY <2>2 DEF TagOf
    <3>2. Uuid(0) \in Descriptors
      BY Zenon DEF Descriptors
    <3>3. no[l] = 0 /\ 0 # ThreadsTrack
      BY <3>1 DEF ThreadsTrack
    <3> QED BY <3>2, <3>3
  <2> QED BY <2>1, <2>2
<1> QED BY <1>1 DEF Described

\* With one they are in the lanes of their threads.
LEMMA PlacedIsLaidOut ==
  ASSUME Inputs, capture \in Captures, NEW r, InSequence(runs, r),
         Written(out), BootEndsFirst(out), NEW n \in Nat, Len(out) = n, NEW q, InTime(q, out, n),
         NEW p, p = ReattributeSlicesToThreads(q, runs, ThreadBase, Boot),
         NEW no, no = [l \in Known |-> LaneNo(l)]
  PROVE  LaidOut(p, n, no)
<1>1. q \in Seq(Slices) /\ Len(q) = n
  BY DEF InTime
<1>2. DOMAIN q = 1 .. n /\ \A k \in 1 .. n : q[k] \in Slices
  BY <1>1
<1>3. p = [k \in 1 .. n |-> Reattributed(q[k], runs, ThreadBase, Boot)]
  BY <1>2 DEF ReattributeSlicesToThreads
<1>4. ASSUME NEW k \in 1 .. n
      PROVE  /\ p[k] \in Slices /\ p[k].byte = out[k].byte /\ p[k].begin = out[k].begin
             /\ p[k].tick = q[k].tick
             /\ \E l \in Known : <<out[k].track, out[k].thread>> = TagOf(l) /\ p[k].track = no[l]
  <2>1. PICK l \in Known : <<out[k].track, out[k].thread>> = TagOf(l)
    BY DEF Written
  <2>2. PICK s \in Slices : s = q[k]
    BY <1>2
  <2>3. PICK x : x = Reattributed(s, runs, ThreadBase, Boot) /\ x = p[k]
    BY <1>3, <2>2
  <2>4. s.byte = out[k].byte /\ s.begin = out[k].begin /\ s.track = out[k].track /\ s.thread = out[k].thread
    BY <2>2 DEF InTime
  <2>5. <<s.track, s.thread>> = TagOf(l)
    BY <2>1, <2>4
  <2>6. l = Boot => BeforeFirst(s.byte)
    BY <2>1, <2>4 DEF BootEndsFirst
  <2>7. /\ x \in Slices /\ x.track = LaneNo(l)
        /\ x.byte = s.byte /\ x.begin = s.begin /\ x.tick = s.tick
    BY <2>3, <2>5, <2>6, ReattributedIs
  <2> QED BY <2>1, <2>2, <2>3, <2>4, <2>7
<1>5. p \in Seq(Slices) /\ Len(p) = n
  <2>1. p \in [1 .. n -> Slices]
    BY <1>3, <1>4
  <2> QED BY ONLY <2>1, n \in Nat
<1>6. \A i, j \in 1 .. n : i <= j => p[i].tick <= p[j].tick
  <2>1. \A i, j \in 1 .. n : i <= j => q[i].tick <= q[j].tick
    BY DEF InTime
  <2> QED BY <1>4, <2>1
<1> QED BY <1>4, <1>5, <1>6 DEF LaidOut
(* What the file with thread lanes and switches is made of.                   *)
LEMMA PlacedDescribed ==
  ASSUME Inputs, capture \in Captures, NEW r, InSequence(runs, r),
         ThreadRunsToSlices(runs, ThreadsTrack) # <<>>,
         NEW no, no = [l \in Known |-> LaneNo(l)], NEW m
  PROVE  Described(no, m)
<1>1. /\ Uuid(0) \in Descriptors /\ Uuid(ThreadsTrack) \in Descriptors
      /\ \A t \in TidsOf(runs) : Uuid(LaneOf(runs, ThreadBase, t)) \in Descriptors
  BY Zenon DEF Descriptors
<1>2. ASSUME NEW l \in Known PROVE LaneNo(l) \in Nat /\ LaneNo(l) # ThreadsTrack /\ Uuid(LaneNo(l)) \in Descriptors
  <2>1. LaneNo(l) \in Nat /\ LaneNo(l) # ThreadsTrack
    BY LaneNoIs
  <2>2. CASE l = Boot
    BY <1>1, <2>1, <2>2, LaneNoIs
  <2>3. CASE l \in TidsOf(runs)
    <3>1. LaneNo(l) = LaneOf(runs, ThreadBase, l)
      BY <2>3, LaneNoIs
    <3> QED BY <1>1, <2>1, <2>3, <3>1
  <2>4. CASE l \in Entered \cap Exceptions
    <3>1. LaneNo(l) = IsrTrack[l]
      BY <2>4, LaneNoIs
    <3> QED BY <2>1, <2>4, <3>1, EnteredDescribed
  <2> QED BY <2>2, <2>3, <2>4 DEF Known
<1> QED BY <1>1, <1>2 DEF Described

\* The part of the Threads track.
LEMMA LogIs ==
  ASSUME NEW log, Alternates(log), NEW n \in Nat, NEW p, InStep(p, n), p = <<>> <=> n = 0,
         NEW g, g = [k \in DOMAIN log |->
                       [byte |-> log[k].byte, begin |-> log[k].begin,
                        track |-> log[k].track, thread |-> Untagged, cycle |-> 0, ts |-> 0,
                        tick |-> TickForByte(p, log[k].byte)]],
         NEW m, m = Len(log)
  PROVE  m \in Nat /\ LogPart(g, m, p, n)
<1>1. log \in Seq(LogSlices) /\ m % 2 = 0
  BY DEF Alternates
<1>2. m \in Nat /\ DOMAIN log = 1 .. m /\ \A k \in 1 .. m : log[k] \in LogSlices
  BY <1>1
<1>3. ASSUME NEW k \in 1 .. m
      PROVE  /\ g[k] \in Slices /\ g[k].track = ThreadsTrack /\ g[k].byte = log[k].byte
             /\ g[k].begin = log[k].begin /\ TickOf(p, n, g[k].byte, g[k].tick)
  <2>1. PICK s \in LogSlices : s = log[k]
    BY <1>2
  <2>2. PICK b \in Nat : b = s.byte
    BY DEF LogSlices
  <2>3. PICK t : t = TickForByte(p, b)
    OBVIOUS
  <2>4. TickOf(p, n, b, t)
    BY <2>3, TickForByteIs
  <2>5. t \in Nat
    BY <2>4 DEF TickOf
  <2>6. s.begin \in BOOLEAN /\ s.track = ThreadsTrack
    BY DEF LogSlices
  <2>7. g[k] = [byte |-> b, begin |-> s.begin, track |-> ThreadsTrack, thread |-> Untagged,
                cycle |-> 0, ts |-> 0, tick |-> t]
    BY <1>2, <2>1, <2>2, <2>3, <2>6
  <2>8. g[k] \in Slices /\ g[k].track = ThreadsTrack /\ g[k].byte = b /\ g[k].begin = s.begin /\ g[k].tick = t
    BY ONLY <2>5, <2>6, <2>7, b \in Nat DEF Slices, ThreadsTrack
  <2> QED BY <2>1, <2>2, <2>4, <2>8
<1>4. g \in Seq(Slices) /\ Len(g) = m
  <2>1. g \in [1 .. m -> Slices]
    BY <1>2, <1>3
  <2> QED BY ONLY <1>2, <2>1
<1>5. \A k \in 1 .. m : g[k].begin <=> k % 2 = 1
  BY <1>3 DEF Alternates
<1>6. \A i, j \in 1 .. m : i <= j => g[i].byte <= g[j].byte
  <2>1. \A i, j \in 1 .. m : i <= j => log[i].byte <= log[j].byte
    BY DEF Alternates
  <2> QED BY <1>3, <2>1
<1> QED BY <1>1, <1>2, <1>3, <1>4, <1>5, <1>6 DEF LogPart

\* The file of every base.
LEMMA FileIs ==
  ASSUME Inputs, capture \in Captures, Written(out), BootEndsFirst(out), table \in Seq(Nat),
         NEW base \in Bases
  PROVE  \E g, m, p, n, no : FileParts(File(base), g, m, p, n, no)
<1>1. PICK n \in Nat : n = Len(out)
  BY DEF Written
<1>2. PICK r : InSequence(runs, r)
  BY RunsInSequence
<1>3. PICK log, q, p : /\ log = ThreadRunsToSlices(runs, ThreadsTrack) /\ q = Timed(base)
                       /\ p = ReattributeSlicesToThreads(q, runs, ThreadBase, Boot)
  OBVIOUS
<1>4. InTime(q, out, n)
  BY <1>1, <1>3, TimedIs
<1>5. CASE log = <<>>
  <2>1. File(base) = q
    BY <1>3, <1>5 DEF File
  <2>2. PICK no : no = [l \in Known |-> TagOf(l)[1]]
    OBVIOUS
  <2>3. LaidOut(q, n, no) /\ Described(no, 0)
    BY <1>1, <1>4, <2>2, TimedIsLaidOut, TimedDescribed
  <2>4. LogPart(<<>>, 0, q, n)
    BY DEF LogPart
  <2>5. File(base) = <<>> \o q
    <3>1. q \in Seq(Slices)
      BY <1>4 DEF InTime
    <3> QED BY <2>1, <3>1
  <2>6. FileParts(File(base), <<>>, 0, q, n, no)
    BY <1>1, <2>3, <2>4, <2>5 DEF FileParts
  <2> QED BY <2>6
<1>6. CASE log # <<>>
  <2>1. PICK no : no = [l \in Known |-> LaneNo(l)]
    OBVIOUS
  <2>2. LaidOut(p, n, no)
    BY <1>1, <1>2, <1>3, <1>4, <2>1, PlacedIsLaidOut
  <2>3. InStep(p, n)
    BY <1>1, <2>2, LaidOutInStep
  <2>4. PICK g : g = [k \in DOMAIN log |->
                        [byte |-> log[k].byte, begin |-> log[k].begin,
                         track |-> log[k].track, thread |-> Untagged, cycle |-> 0, ts |-> 0,
                         tick |-> TickForByte(p, log[k].byte)]]
    OBVIOUS
  <2>5. PICK m : m = Len(log)
    OBVIOUS
  <2>6. Alternates(log)
    BY <1>2, <1>3, LogAlternates
  <2>7. p = <<>> <=> n = 0
    <3>1. p \in Seq(Slices) /\ Len(p) = n
      BY <2>2 DEF LaidOut
    <3> QED BY ONLY <3>1
  <2>8. m \in Nat /\ LogPart(g, m, p, n)
    BY <2>3, <2>4, <2>5, <2>6, <2>7, LogIs
  <2>9. Described(no, m)
    BY <1>2, <1>3, <1>6, <2>1, PlacedDescribed
  <2>10. File(base) = g \o p
    BY <1>3, <1>6, <2>4 DEF File
  <2>11. FileParts(File(base), g, m, p, n, no)
    BY <1>1, <2>2, <2>8, <2>9, <2>10 DEF FileParts
  <2> QED BY <2>11
<1> QED BY <1>5, <1>6

(* In the file every lane is described, balanced and in the order of time,    *)
(* and no slice is on the wrong side of a switch, whatever was traced and     *)
(* whatever base is asked for (cortrace_decode.cpp:900-954).                  *)
THEOREM EveryFileIsBalanced == ToolSpec => []FileIsBalanced
<1>1. ASSUME FileInv, finished, NEW base \in Bases
      PROVE  /\ LanesBalance(Packets(File(base)))
             /\ \A i, j \in DOMAIN File(base) :
                  File(base)[i].track = ThreadsTrack /\ File(base)[i].begin
                    => SidesOf(File(base)[i], File(base)[j])
  <2>1. /\ Inputs /\ capture \in Captures /\ table \in Seq(Nat) /\ seen \in Seq(Elements)
        /\ Written(out) /\ BootEndsFirst(out) /\ LedgerOf(out) /\ AllDown
    BY <1>1 DEF FileInv, CoverageInv, ReportTypes, ScheduleInv, NamesInv, OutInv, MachineInv,
                BalancedAtFinish, AllDown
  <2>2. Known \subseteq Lanes /\ IsFiniteSet(Known)
    BY <2>1, KnownAreLanes, KnownFinite
  <2>3. PICK g, m, p, n, no : FileParts(File(base), g, m, p, n, no)
    BY <2>1, FileIs
  <2>4. LanesBalance(Packets(File(base)))
    BY <2>1, <2>2, <2>3, FileLanes
  <2>5. \A i, j \in DOMAIN File(base) :
          File(base)[i].track = ThreadsTrack => SidesOf(File(base)[i], File(base)[j])
    BY <2>1, <2>3, FileSides
  <2> QED BY <2>4, <2>5
<1>2. FileInv => FileIsBalanced
  BY <1>1, Zenon DEF FileIsBalanced
<1> QED BY <1>2, AllIsTold, PTL
=============================================================================
