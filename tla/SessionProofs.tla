---------------------------- MODULE SessionProofs ----------------------------
(* Proofs about the programs around a capture. trace_arm.py: what a success   *)
(* of arming means, for any number of comparators and variables, whatever     *)
(* earlier sessions left in the target. wsrelay.py: whatever the two threads  *)
(* and the two peers do, the browser gets whole frames in order, and the      *)
(* bridge's last answers. perfetto_open.py: exit code 0 means that the trace  *)
(* is in the browser, for any number of tabs and loads.                       *)
EXTENDS TraceArm, WsRelay, PerfettoOpen, InductionFacts, TLAPS

\* trace_arm.py.

Commands ==
  [do : {"write"}, reg : Registers, value : Nat] \cup [do : {"read", "halt", "resume", "raise"}]
    \cup [do : {"poll"}, required : BOOLEAN]

(* What a sequence of commands says of a register: WritesAt, that its i-th    *)
(* command writes it; Leaves, that the sequence leaves v in it, in a block     *)
(* that it has unlocked, or v is the reset value; OffBefore, that it was set   *)
(* to 0 last when the j-th command comes.                                     *)
WritesAt(s, i, r) == s[i].do = "write" /\ s[i].reg = r
Spares(s, r, i, j) == \A k \in i .. j : ~WritesAt(s, k, r)
Opened(s, j) ==
  \/ s[j].reg[2] = "lar" \/ s[j].reg[1] \notin Locked
  \/ \E k \in 1 .. j - 1 : s[k] = Unlock(s[j].reg[1])
Leaves(s, r, v) ==
  \E j \in 1 .. Len(s) :
    /\ WritesAt(s, j, r) /\ s[j].value = v /\ Spares(s, r, j + 1, Len(s))
    /\ v = 0 \/ Opened(s, j)
OffBefore(s, j, r) ==
  \E k \in 1 .. j - 1 : WritesAt(s, k, r) /\ s[k].value = 0 /\ Spares(s, r, k + 1, j - 1)
Guarded(s) ==
  \A j \in 1 .. Len(s) :
    /\ \A i \in Comparators : WritesAt(s, j, Comp("comp", i)) => OffBefore(s, j, Comp("function", i))
    /\ \A b \in {"etf", "etm"} : WritesAt(s, j, R(b, "config")) => OffBefore(s, j, R(b, "ctl"))

\* A stretch of the sequence: unlocking is all it does to a lock, and the core stays as it is.
Plain(s) ==
  /\ s \in Seq(Commands)
  /\ \A i \in 1 .. Len(s) :
       /\ s[i].do \in {"write", "read", "poll", "raise"}
       /\ s[i].do = "write" /\ s[i].reg[2] = "lar" =>
            s[i].reg[1] \in Locked /\ s[i] = Unlock(s[i].reg[1])
Within(s, b) == \A i \in 1 .. Len(s) : s[i].do = "write" => s[i].reg[1] = b

\* A suffix, index by index.
LEMMA SuffixIs ==
  ASSUME NEW T, NEW s \in Seq(T), NEW t \in Seq(T)
  PROVE  IsSuffix(s, t) <=> /\ Len(s) <= Len(t)
                            /\ \A i \in 1 .. Len(s) : s[i] = t[Len(t) - Len(s) + i]
<1>1. /\ Reverse(s) \in Seq(T) /\ Len(Reverse(s)) = Len(s)
      /\ \A i \in 1 .. Len(s) : Reverse(s)[i] = s[Len(s) - i + 1]
  BY DEF Reverse
<1>2. /\ Reverse(t) \in Seq(T) /\ Len(Reverse(t)) = Len(t)
      /\ \A i \in 1 .. Len(t) : Reverse(t)[i] = t[Len(t) - i + 1]
  BY DEF Reverse
<1> DEFINE n == Len(s)
           m == Len(t)
<1>3. n \in Nat /\ m \in Nat
  OBVIOUS
<1>4. IsSuffix(s, t) <=> n <= m /\ SubSeq(Reverse(s), 1, n) = SubSeq(Reverse(t), 1, n)
  BY <1>1, <1>2 DEF IsSuffix, IsPrefix
<1>5. n <= m => (SubSeq(Reverse(s), 1, n) = SubSeq(Reverse(t), 1, n)
                   <=> \A i \in 1 .. n : Reverse(s)[i] = Reverse(t)[i])
  BY <1>1, <1>2, <1>3
<1>6. n <= m => ((\A i \in 1 .. n : Reverse(s)[i] = Reverse(t)[i])
                   <=> \A i \in 1 .. n : s[i] = t[m - n + i])
  <2> SUFFICES ASSUME n <= m
               PROVE  (\A i \in 1 .. n : Reverse(s)[i] = Reverse(t)[i])
                        <=> \A i \in 1 .. n : s[i] = t[m - n + i]
    OBVIOUS
  <2>1. ASSUME \A i \in 1 .. n : Reverse(s)[i] = Reverse(t)[i], NEW i \in 1 .. n
        PROVE  s[i] = t[m - n + i]
    <3>1. n - i + 1 \in 1 .. n /\ n - (n - i + 1) + 1 = i /\ m - (n - i + 1) + 1 = m - n + i
      BY <1>3
    <3> QED BY <3>1, <2>1, <1>1, <1>2, <1>3
  <2>2. ASSUME \A i \in 1 .. n : s[i] = t[m - n + i], NEW i \in 1 .. n
        PROVE  Reverse(s)[i] = Reverse(t)[i]
    <3>1. n - i + 1 \in 1 .. n /\ m - n + (n - i + 1) = m - i + 1 /\ i \in 1 .. m
      BY <1>3
    <3> QED BY <3>1, <2>2, <1>1, <1>2, <1>3
  <2> QED BY <2>1, <2>2
<1> QED BY <1>4, <1>5, <1>6

\* u is s followed by t.
IsJoin(u, s, t) ==
  /\ Len(u) = Len(s) + Len(t) /\ Len(s) \in Nat /\ Len(t) \in Nat
  /\ \A i \in 1 .. Len(s) : u[i] = s[i]
  /\ \A i \in 1 .. Len(t) : u[Len(s) + i] = t[i]

LEMMA JoinIs ==
  ASSUME NEW T, NEW s \in Seq(T), NEW t \in Seq(T)
  PROVE  s \o t \in Seq(T) /\ IsJoin(s \o t, s, t)
BY DEF IsJoin

\* An element of a join is one of the former or of the latter.
LEMMA JoinCases ==
  ASSUME NEW u, NEW s, NEW t, IsJoin(u, s, t)
  PROVE  \A i \in 1 .. Len(u) : \/ i \in 1 .. Len(s) /\ u[i] = s[i]
                                \/ i - Len(s) \in 1 .. Len(t) /\ u[i] = t[i - Len(s)]
<1> SUFFICES ASSUME NEW i \in 1 .. Len(u), ~(i <= Len(s))
             PROVE  i - Len(s) \in 1 .. Len(t) /\ u[i] = t[i - Len(s)]
  BY DEF IsJoin
<1> DEFINE k == i - Len(s)
<1>1. k \in 1 .. Len(t) /\ Len(s) + k = i
  BY DEF IsJoin
<1> QED BY <1>1 DEF IsJoin

(* What the latter part leaves stays; what the former leaves, unless the     *)
(* latter writes there.                                                      *)
LEMMA LeftByLatter ==
  ASSUME NEW u, NEW s, NEW t, IsJoin(u, s, t), NEW r, NEW v, Leaves(t, r, v)
  PROVE  Leaves(u, r, v)
<1>1. PICK j \in 1 .. Len(t) :
        /\ WritesAt(t, j, r) /\ t[j].value = v /\ Spares(t, r, j + 1, Len(t))
        /\ v = 0 \/ Opened(t, j)
  BY DEF Leaves
<1> DEFINE m == Len(s) + j
<1>2. m \in 1 .. Len(u) /\ u[m] = t[j]
  BY DEF IsJoin
<1>3. Spares(u, r, m + 1, Len(u))
  <2> SUFFICES ASSUME NEW k \in m + 1 .. Len(u) PROVE ~WritesAt(u, k, r)
    BY DEF Spares
  <2> DEFINE n == k - Len(s)
  <2>1. n \in j + 1 .. Len(t) /\ n \in 1 .. Len(t) /\ Len(s) + n = k
    BY DEF IsJoin
  <2>2. u[k] = t[n]
    BY <2>1 DEF IsJoin
  <2> QED BY <2>1, <2>2, <1>1 DEF Spares, WritesAt
<1>4. Opened(t, j) => Opened(u, m)
  <2> SUFFICES ASSUME NEW k \in 1 .. j - 1, t[k] = Unlock(t[j].reg[1])
               PROVE  \E l \in 1 .. m - 1 : u[l] = Unlock(u[m].reg[1])
    BY <1>2 DEF Opened
  <2>1. Len(s) + k \in 1 .. m - 1 /\ u[Len(s) + k] = t[k]
    BY DEF IsJoin
  <2> QED BY <2>1, <1>2
<1> QED BY <1>1, <1>2, <1>3, <1>4 DEF Leaves, WritesAt

LEMMA LeftByFormer ==
  ASSUME NEW u, NEW s, NEW t, IsJoin(u, s, t), NEW r, NEW v, Leaves(s, r, v),
         Spares(t, r, 1, Len(t))
  PROVE  Leaves(u, r, v)
<1>1. PICK j \in 1 .. Len(s) :
        /\ WritesAt(s, j, r) /\ s[j].value = v /\ Spares(s, r, j + 1, Len(s))
        /\ v = 0 \/ Opened(s, j)
  BY DEF Leaves
<1>2. j \in 1 .. Len(u) /\ u[j] = s[j]
  BY DEF IsJoin
<1>3. Spares(u, r, j + 1, Len(u))
  <2> SUFFICES ASSUME NEW k \in j + 1 .. Len(u) PROVE ~WritesAt(u, k, r)
    BY DEF Spares
  <2>0. k \in 1 .. Len(u) /\ k >= j + 1
    BY DEF IsJoin
  <2>1. \/ k \in j + 1 .. Len(s) /\ u[k] = s[k]
        \/ k - Len(s) \in 1 .. Len(t) /\ u[k] = t[k - Len(s)]
    BY <2>0, JoinCases
  <2> QED BY <2>1, <1>1 DEF Spares, WritesAt
<1>4. Opened(s, j) => Opened(u, j)
  <2> SUFFICES ASSUME NEW k \in 1 .. j - 1, s[k] = Unlock(s[j].reg[1])
               PROVE  \E l \in 1 .. j - 1 : u[l] = Unlock(u[j].reg[1])
    BY <1>2 DEF Opened
  <2>1. u[k] = s[k]
    BY DEF IsJoin
  <2> QED BY <2>1, <1>2
<1> QED BY <1>1, <1>2, <1>3, <1>4 DEF Leaves, WritesAt

\* What was off before a command is so in a longer sequence.
LEMMA OffBeforeJoin ==
  ASSUME NEW u, NEW s, NEW t, IsJoin(u, s, t), NEW r
  PROVE  /\ \A j \in 1 .. Len(s) : OffBefore(s, j, r) => OffBefore(u, j, r)
         /\ \A j \in 1 .. Len(t) : OffBefore(t, j, r) => OffBefore(u, Len(s) + j, r)
<1>1. ASSUME NEW j \in 1 .. Len(s), OffBefore(s, j, r) PROVE OffBefore(u, j, r)
  <2>1. \A k \in 1 .. j : u[k] = s[k]
    BY DEF IsJoin
  <2> QED BY <1>1, <2>1 DEF OffBefore, WritesAt, Spares
<1>2. ASSUME NEW j \in 1 .. Len(t), OffBefore(t, j, r) PROVE OffBefore(u, Len(s) + j, r)
  <2>1. PICK k \in 1 .. j - 1 : WritesAt(t, k, r) /\ t[k].value = 0 /\ Spares(t, r, k + 1, j - 1)
    BY <1>2 DEF OffBefore
  <2> DEFINE m == Len(s) + k
  <2>2. m \in 1 .. (Len(s) + j) - 1 /\ u[m] = t[k]
    BY DEF IsJoin
  <2>3. Spares(u, r, m + 1, (Len(s) + j) - 1)
    <3> SUFFICES ASSUME NEW l \in m + 1 .. (Len(s) + j) - 1 PROVE ~WritesAt(u, l, r)
      BY DEF Spares
    <3> DEFINE n == l - Len(s)
    <3>1. n \in k + 1 .. j - 1 /\ n \in 1 .. Len(t) /\ Len(s) + n = l
      BY DEF IsJoin
    <3>2. u[l] = t[n]
      BY <3>1 DEF IsJoin
    <3> QED BY <3>1, <3>2, <2>1 DEF Spares, WritesAt
  <2> QED BY <2>1, <2>2, <2>3 DEF OffBefore, WritesAt
<1> QED BY <1>1, <1>2

LEMMA GuardedJoin ==
  ASSUME NEW u, NEW s, NEW t, IsJoin(u, s, t), Guarded(s), Guarded(t)
  PROVE  Guarded(u)
<1> SUFFICES ASSUME NEW j \in 1 .. Len(u), NEW r, NEW o, WritesAt(u, j, r),
                    \/ \E i \in Comparators : r = Comp("comp", i) /\ o = Comp("function", i)
                    \/ \E b \in {"etf", "etm"} : r = R(b, "config") /\ o = R(b, "ctl")
             PROVE  OffBefore(u, j, o)
  BY DEF Guarded
<1>1. CASE j \in 1 .. Len(s) /\ u[j] = s[j]
  <2>1. WritesAt(s, j, r)
    BY <1>1 DEF WritesAt
  <2>2. OffBefore(s, j, o)
    BY <1>1, <2>1 DEF Guarded
  <2> QED BY <1>1, <2>2, OffBeforeJoin
<1>2. CASE j - Len(s) \in 1 .. Len(t) /\ u[j] = t[j - Len(s)]
  <2> DEFINE k == j - Len(s)
  <2>1. WritesAt(t, k, r) /\ k \in 1 .. Len(t) /\ Len(s) + k = j
    BY <1>2 DEF WritesAt, IsJoin
  <2>2. OffBefore(t, k, o)
    BY <2>1 DEF Guarded
  <2> QED BY <2>1, <2>2, OffBeforeJoin
<1> QED BY <1>1, <1>2, JoinCases

Segment(s, b) == Plain(s) /\ Within(s, b) /\ Guarded(s)

(* The stretches of the sequence, block by block: what each leaves, and that *)
(* it sets up nothing that may be on.                                        *)
LEMMA ChipSegment ==
  ASSUME NEW a \in Asks
  PROVE  /\ Segment(ChipSteps(a), "chip")
         /\ Leaves(ChipSteps(a), R("chip", "config"), 1) /\ Leaves(ChipSteps(a), R("chip", "ctl"), 1)
<1> DEFINE s == ChipSteps(a)
<1>1. Len(s) = 5 /\ s[1] = Read /\ s[2] = SetUp("chip") /\ s[3] = Poll(a.required)
      /\ s[4] = Read /\ s[5] = Ctl("chip", 1) /\ s \in Seq(Commands)
  BY DEF ChipSteps, Commands, Read, SetUp, Poll, Ctl, Write, R, Registers, Locked, Asks
<1> HIDE DEF s
<1>2. Plain(s)
  BY <1>1 DEF Plain, Commands, Read, SetUp, Poll, Ctl, Write, R
<1>3. Within(s, "chip")
  BY <1>1 DEF Within, Read, SetUp, Poll, Ctl, Write, R
<1>4. Guarded(s)
  BY <1>1 DEF Guarded, WritesAt, Read, SetUp, Poll, Ctl, Write, R, Comp
<1>5. Leaves(s, R("chip", "config"), 1)
  BY <1>1 DEF Leaves, WritesAt, Spares, Opened, Read, SetUp, Poll, Ctl, Write, R, Locked
<1>6. Leaves(s, R("chip", "ctl"), 1)
  BY <1>1 DEF Leaves, WritesAt, Spares, Opened, Read, SetUp, Poll, Ctl, Write, R, Locked
<1> QED BY <1>2, <1>3, <1>4, <1>5, <1>6 DEF Segment, s

LEMMA EtfSegment ==
  /\ Segment(ArmEtf, "etf")
  /\ Leaves(ArmEtf, R("etf", "config"), 1) /\ Leaves(ArmEtf, R("etf", "ctl"), 1)
<1> DEFINE s == ArmEtf
<1>1. Len(s) = 4 /\ s[1] = Ctl("etf", 0) /\ s[2] = Unlock("etf") /\ s[3] = SetUp("etf")
      /\ s[4] = Ctl("etf", 1) /\ s \in Seq(Commands)
  BY DEF ArmEtf, Commands, Unlock, SetUp, Ctl, Write, R, Registers, Locked
<1> HIDE DEF s
<1>2. Plain(s)
  BY <1>1 DEF Plain, Commands, Unlock, SetUp, Ctl, Write, R, Locked
<1>3. Within(s, "etf")
  BY <1>1 DEF Within, Unlock, SetUp, Ctl, Write, R
<1>4. Guarded(s)
  <2>1. OffBefore(s, 3, R("etf", "ctl"))
    BY <1>1 DEF OffBefore, Spares, WritesAt, Unlock, Ctl, Write, R
  <2>2. \A j \in 1 .. 4 : \A r : WritesAt(s, j, r) =>
          r \in {R("etf", "ctl"), R("etf", "lar"), R("etf", "config")}
            /\ (r = R("etf", "config") => j = 3)
    BY <1>1 DEF WritesAt, Unlock, SetUp, Ctl, Write, R
  <2> QED BY <1>1, <2>1, <2>2 DEF Guarded, R, Comp
<1>5. Leaves(s, R("etf", "config"), 1)
  BY <1>1 DEF Leaves, WritesAt, Spares, Opened, Unlock, SetUp, Ctl, Write, R
<1>6. Leaves(s, R("etf", "ctl"), 1)
  BY <1>1 DEF Leaves, WritesAt, Spares, Opened, Unlock, SetUp, Ctl, Write, R
<1> QED BY <1>2, <1>3, <1>4, <1>5, <1>6 DEF Segment, s

LEMMA EtmSegment ==
  ASSUME NEW a \in Asks
  PROVE  /\ Segment(ArmEtm(a), "etm")
         /\ Leaves(ArmEtm(a), R("etm", "ctl"), IF a.etm THEN 1 ELSE 0)
         /\ a.etm => /\ Leaves(ArmEtm(a), R("etm", "power"), 1)
                     /\ Leaves(ArmEtm(a), R("etm", "config"), 1)
<1> DEFINE s == ArmEtm(a)
<1>2. CASE a.etm
  <2>1. /\ Len(s) = 6 /\ s[1] = Unlock("etm") /\ s[2] = PowerUp("etm") /\ s[3] = Ctl("etm", 0)
        /\ s[4] = Poll(FALSE) /\ s[5] = SetUp("etm") /\ s[6] = Ctl("etm", 1)
        /\ s \in Seq(Commands)
    BY <1>2 DEF ArmEtm, Commands, Unlock, PowerUp, SetUp, Ctl, Poll, Write, R, Registers, Locked
  <2> HIDE DEF s
  <2>2. Plain(s)
    BY <2>1 DEF Plain, Commands, Unlock, PowerUp, SetUp, Ctl, Poll, Write, R, Locked
  <2>3. Within(s, "etm")
    BY <2>1 DEF Within, Unlock, PowerUp, SetUp, Ctl, Poll, Write, R
  <2>4. Guarded(s)
    <3>1. OffBefore(s, 5, R("etm", "ctl"))
      BY <2>1 DEF OffBefore, Spares, WritesAt, Unlock, Ctl, Poll, Write, R
    <3>2. \A j \in 1 .. 6 : \A r : WritesAt(s, j, r) =>
            r \in {R("etm", "ctl"), R("etm", "lar"), R("etm", "power"), R("etm", "config")}
              /\ (r = R("etm", "config") => j = 5)
      BY <2>1 DEF WritesAt, Unlock, PowerUp, SetUp, Ctl, Poll, Write, R
    <3>3. Len(s) = 6
      BY <2>1
    <3>4. \A j \in 1 .. 6 : /\ \A i \in Comparators : ~WritesAt(s, j, Comp("comp", i))
                           /\ ~WritesAt(s, j, R("etf", "config"))
      BY <3>2 DEF R, Comp
    <3>5. \A j \in 1 .. 6 : WritesAt(s, j, R("etm", "config")) => OffBefore(s, j, R("etm", "ctl"))
      BY <3>1, <3>2
    <3> QED BY ONLY <3>3, <3>4, <3>5 DEF Guarded
  <2>5. Opened(s, 2) /\ Opened(s, 5) /\ Opened(s, 6)
    BY <2>1 DEF Opened, PowerUp, SetUp, Ctl, Write, R
  <2>6. Leaves(s, R("etm", "ctl"), 1)
    BY <2>1, <2>5 DEF Leaves, WritesAt, Spares, Ctl, Write
  <2>7. Leaves(s, R("etm", "power"), 1)
    <3>1. Spares(s, R("etm", "power"), 3, 6)
      BY <2>1 DEF WritesAt, Spares, Unlock, PowerUp, SetUp, Ctl, Poll, Write, R
    <3> QED BY <2>1, <2>5, <3>1 DEF Leaves, WritesAt, PowerUp, Write
  <2>8. Leaves(s, R("etm", "config"), 1)
    <3>1. Spares(s, R("etm", "config"), 6, 6)
      BY <2>1 DEF WritesAt, Spares, Ctl, Write, R
    <3> QED BY <2>1, <2>5, <3>1 DEF Leaves, WritesAt, SetUp, Write
  <2> QED BY <1>2, <2>2, <2>3, <2>4, <2>6, <2>7, <2>8 DEF Segment, s
<1>3. CASE ~a.etm
  <2>1. /\ Len(s) = 3 /\ s[1] = Unlock("etm") /\ s[2] = Ctl("etm", 0) /\ s[3] = Poll(FALSE)
        /\ s \in Seq(Commands)
    BY <1>3 DEF ArmEtm, Commands, Unlock, Ctl, Poll, Write, R, Registers, Locked
  <2> HIDE DEF s
  <2>2. Plain(s)
    BY <2>1 DEF Plain, Commands, Unlock, Ctl, Poll, Write, R, Locked
  <2>3. Within(s, "etm")
    BY <2>1 DEF Within, Unlock, Ctl, Poll, Write, R
  <2>4. Guarded(s)
    BY <2>1 DEF Guarded, WritesAt, Unlock, Ctl, Poll, Write, R, Comp
  <2>5. Leaves(s, R("etm", "ctl"), 0)
    BY <2>1 DEF Leaves, WritesAt, Spares, Opened, Unlock, Ctl, Poll, Write, R
  <2> QED BY <1>3, <2>2, <2>3, <2>4, <2>5 DEF Segment, s
<1> QED BY <1>2, <1>3

LEMMA OtherSegments ==
  /\ Segment(ArmTpiu, "tpiu") /\ Leaves(ArmTpiu, R("tpiu", "config"), 1)
  /\ Segment(ArmFunnel, "funnel") /\ Leaves(ArmFunnel, R("funnel", "config"), 1)
  /\ Leaves(ArmFunnel, R("funnel", "ctl"), 1)
  /\ Segment(ArmItm, "itm") /\ Leaves(ArmItm, R("itm", "config"), 1)
  /\ Leaves(ArmItm, R("itm", "ctl"), 1)
<1>1. Segment(ArmTpiu, "tpiu") /\ Leaves(ArmTpiu, R("tpiu", "config"), 1)
  <2> DEFINE s == ArmTpiu
  <2>1. Len(s) = 2 /\ s[1] = Unlock("tpiu") /\ s[2] = SetUp("tpiu") /\ s \in Seq(Commands)
    BY DEF ArmTpiu, Commands, Unlock, SetUp, Write, R, Registers, Locked
  <2> HIDE DEF s
  <2>2. Plain(s) /\ Within(s, "tpiu")
    BY <2>1 DEF Plain, Within, Commands, Unlock, SetUp, Write, R, Locked
  <2>3. Guarded(s)
    BY <2>1 DEF Guarded, WritesAt, Unlock, SetUp, Write, R, Comp
  <2>4. Leaves(s, R("tpiu", "config"), 1)
    BY <2>1 DEF Leaves, WritesAt, Spares, Opened, Unlock, SetUp, Write, R
  <2> QED BY <2>2, <2>3, <2>4 DEF Segment, s
<1>2. /\ Segment(ArmFunnel, "funnel") /\ Leaves(ArmFunnel, R("funnel", "config"), 1)
      /\ Leaves(ArmFunnel, R("funnel", "ctl"), 1)
  <2> DEFINE s == ArmFunnel
  <2>1. Len(s) = 4 /\ s[1] = Unlock("funnel") /\ s[2] = Ctl("funnel", 1) /\ s[3] = Read
        /\ s[4] = SetUp("funnel") /\ s \in Seq(Commands)
    BY DEF ArmFunnel, Commands, Unlock, SetUp, Ctl, Read, Write, R, Registers, Locked
  <2> HIDE DEF s
  <2>2. Plain(s) /\ Within(s, "funnel")
    BY <2>1 DEF Plain, Within, Commands, Unlock, SetUp, Ctl, Read, Write, R, Locked
  <2>3. Guarded(s)
    BY <2>1 DEF Guarded, WritesAt, Unlock, SetUp, Ctl, Read, Write, R, Comp
  <2>4. Leaves(s, R("funnel", "config"), 1)
    BY <2>1 DEF Leaves, WritesAt, Spares, Opened, Unlock, SetUp, Ctl, Read, Write, R
  <2>5. Leaves(s, R("funnel", "ctl"), 1)
    BY <2>1 DEF Leaves, WritesAt, Spares, Opened, Unlock, SetUp, Ctl, Read, Write, R
  <2> QED BY <2>2, <2>3, <2>4, <2>5 DEF Segment, s
<1>3. /\ Segment(ArmItm, "itm") /\ Leaves(ArmItm, R("itm", "config"), 1)
      /\ Leaves(ArmItm, R("itm", "ctl"), 1)
  <2> DEFINE s == ArmItm
  <2>1. Len(s) = 3 /\ s[1] = Unlock("itm") /\ s[2] = SetUp("itm") /\ s[3] = Ctl("itm", 1)
        /\ s \in Seq(Commands)
    BY DEF ArmItm, Commands, Unlock, SetUp, Ctl, Write, R, Registers, Locked
  <2> HIDE DEF s
  <2>2. Plain(s) /\ Within(s, "itm")
    BY <2>1 DEF Plain, Within, Commands, Unlock, SetUp, Ctl, Write, R, Locked
  <2>3. Guarded(s)
    BY <2>1 DEF Guarded, WritesAt, Unlock, SetUp, Ctl, Write, R, Comp
  <2>4. Leaves(s, R("itm", "config"), 1)
    BY <2>1 DEF Leaves, WritesAt, Spares, Opened, Unlock, SetUp, Ctl, Write, R
  <2>5. Leaves(s, R("itm", "ctl"), 1)
    BY <2>1 DEF Leaves, WritesAt, Spares, Opened, Unlock, SetUp, Ctl, Write, R
  <2> QED BY <2>2, <2>3, <2>4, <2>5 DEF Segment, s
<1> QED BY <1>1, <1>2, <1>3

(* The comparators. Slots(n): the writes are to the first n of them, and what  *)
(* they leave there is what was asked for.                                     *)
Slot(s, i, addr) == Leaves(s, Comp("function", i), 1) /\ Leaves(s, Comp("comp", i), addr)
Upto(s, n) ==
  \A j \in 1 .. Len(s) : s[j].do = "write" =>
    \E i \in 1 .. n : s[j].reg = Comp("function", i) \/ s[j].reg = Comp("comp", i)
Slots(s, w, n) ==
  /\ Segment(s, "dwt") /\ Upto(s, n)
  /\ \A i \in 1 .. n : Slot(s, i, w[i])

LEMMA WatchSegment ==
  ASSUME NEW i \in Comparators, NEW addr \in Nat
  PROVE  Segment(Watch(i, addr), "dwt") /\ Slot(Watch(i, addr), i, addr)
<1> DEFINE s == Watch(i, addr)
           f == Comp("function", i)
           c == Comp("comp", i)
<1>1. /\ Len(s) = 3 /\ s[1] = Write(f, 0) /\ s[2] = Write(c, addr) /\ s[3] = Write(f, 1)
      /\ s \in Seq(Commands)
  BY DEF Watch, Commands, Write, Registers, Comp
<1> HIDE DEF s
<1>2. Plain(s) /\ Within(s, "dwt")
  BY <1>1 DEF Plain, Within, Write, Comp
<1>3. Guarded(s)
  <2>1. OffBefore(s, 2, f)
    BY <1>1 DEF OffBefore, Spares, WritesAt, Write
  <2>2. \A j \in 1 .. 3 : \A r : WritesAt(s, j, r) => r = f \/ (r = c /\ j = 2)
    BY <1>1 DEF WritesAt, Write
  <2>3. \A k \in Comparators : (c = Comp("comp", k) => k = i) /\ f # Comp("comp", k)
    BY DEF Comp
  <2>4. \A b : f # R(b, "config") /\ c # R(b, "config")
    BY DEF Comp, R
  <2> QED BY <1>1, <2>1, <2>2, <2>3, <2>4 DEF Guarded
<1>4. Slot(s, i, addr)
  BY <1>1 DEF Slot, Leaves, WritesAt, Spares, Opened, Write, Comp, Locked
<1> QED BY <1>2, <1>3, <1>4 DEF Segment, s

LEMMA SegmentJoin ==
  ASSUME NEW s, NEW t, NEW b, Segment(s, b), Segment(t, b)
  PROVE  Segment(s \o t, b)
<1> DEFINE u == s \o t
<1>1. u \in Seq(Commands) /\ IsJoin(u, s, t)
  BY JoinIs DEF Segment, Plain
<1> HIDE DEF u
<1>2. Guarded(u)
  BY <1>1, GuardedJoin DEF Segment
<1>3. Plain(u)
  <2>1. ASSUME NEW i \in 1 .. Len(u)
        PROVE  /\ u[i].do \in {"write", "read", "poll", "raise"}
               /\ u[i].do = "write" /\ u[i].reg[2] = "lar" =>
                    u[i].reg[1] \in Locked /\ u[i] = Unlock(u[i].reg[1])
    <3>1. CASE i \in 1 .. Len(s) /\ u[i] = s[i]
      BY <3>1 DEF Segment, Plain
    <3>2. CASE i - Len(s) \in 1 .. Len(t) /\ u[i] = t[i - Len(s)]
      BY <3>2 DEF Segment, Plain
    <3> QED BY <1>1, <3>1, <3>2, JoinCases
  <2> QED BY <1>1, <2>1 DEF Plain
<1>4. Within(u, b)
  BY <1>1, JoinCases DEF Segment, Within
<1> QED BY <1>2, <1>3, <1>4 DEF Segment, u

LEMMA NextSlot ==
  ASSUME NEW w, NEW n \in Nat, NEW s, Slots(s, w, n), n + 1 \in Comparators, w[n + 1] \in Nat
  PROVE  Slots(s \o Watch(n + 1, w[n + 1]), w, n + 1)
<1> DEFINE i == n + 1
           t == Watch(i, w[i])
           u == s \o t
<1>1. Segment(t, "dwt") /\ Slot(t, i, w[i]) /\ Segment(s, "dwt")
  BY WatchSegment DEF Slots
<1>2. Len(t) = 3 /\ t[1].reg = Comp("function", i) /\ t[2].reg = Comp("comp", i)
      /\ t[3].reg = Comp("function", i)
  BY DEF Watch, Write
<1> HIDE DEF t
<1>3. IsJoin(u, s, t) /\ Segment(u, "dwt")
  BY <1>1, JoinIs, SegmentJoin DEF Segment, Plain
<1> HIDE DEF u
<1>4. Upto(u, n + 1)
  <2> SUFFICES ASSUME NEW j \in 1 .. Len(u), u[j].do = "write"
               PROVE  \E k \in 1 .. n + 1 : u[j].reg = Comp("function", k) \/ u[j].reg = Comp("comp", k)
    BY DEF Upto
  <2>1. CASE j \in 1 .. Len(s) /\ u[j] = s[j]
    <3>1. \E k \in 1 .. n : s[j].reg = Comp("function", k) \/ s[j].reg = Comp("comp", k)
      BY <2>1 DEF Slots, Upto
    <3> QED BY <3>1, <2>1
  <2>2. CASE j - Len(s) \in 1 .. Len(t) /\ u[j] = t[j - Len(s)]
    <3>1. u[j].reg = Comp("function", i) \/ u[j].reg = Comp("comp", i)
      BY <2>2, <1>2
    <3> QED BY <3>1
  <2>3. \A m \in 1 .. Len(u) : \/ m \in 1 .. Len(s) /\ u[m] = s[m]
                               \/ m - Len(s) \in 1 .. Len(t) /\ u[m] = t[m - Len(s)]
    BY <1>3, JoinCases
  <2> QED BY <2>1, <2>2, <2>3
<1>5. Slot(u, i, w[i])
  BY <1>1, <1>3, LeftByLatter DEF Slot
<1>6. ASSUME NEW k \in 1 .. n PROVE Slot(u, k, w[k])
  <2>1. Slot(s, k, w[k])
    BY DEF Slots
  <2>2. k # i /\ Comp("function", k) # Comp("function", i) /\ Comp("comp", k) # Comp("comp", i)
        /\ Comp("function", k) # Comp("comp", i) /\ Comp("comp", k) # Comp("function", i)
    BY DEF Comp
  <2>3. Spares(t, Comp("function", k), 1, Len(t)) /\ Spares(t, Comp("comp", k), 1, Len(t))
    BY <1>2, <2>2 DEF Spares, WritesAt
  <2> QED BY <1>3, <2>1, <2>3, LeftByFormer DEF Slot
<1>7. \A k \in 1 .. n + 1 : k \in 1 .. n \/ k = i
  OBVIOUS
<1>8. \A k \in 1 .. n + 1 : Slot(u, k, w[k])
  BY <1>5, <1>6, <1>7
<1> QED BY <1>3, <1>4, <1>8 DEF Slots, u, t

\* FlattenSeq joins one sequence after the other.
Flattens(g, seqs) ==
  /\ g[1] = seqs[1]
  /\ \A i \in 2 .. Len(seqs) : g[i] = g[i - 1] \o seqs[i]

LEMMA FlattenIs ==
  ASSUME NEW T, NEW seqs \in Seq(Seq(T)), seqs # <<>>
  PROVE  \E g : Flattens(g, seqs) /\ FlattenSeq(seqs) = g[Len(seqs)]
<1> DEFINE n == Len(seqs)
           P(g) == g = [i \in 1 .. n |-> IF i = 1 THEN seqs[i] ELSE g[i - 1] \o seqs[i]]
           k == CHOOSE g : P(g)
<1>1. n \in Nat \ {0}
  OBVIOUS
<1>2. FlattenSeq(seqs) = k[n]
  <2>1. Len(seqs) # 0
    BY <1>1
  <2> QED BY <2>1, Zenon DEF FlattenSeq
<1>3. \E g : P(g)
  <2> DEFINE S == Seq(T)
             step == [p \in S \X Nat |-> IF p[2] \in 1 .. n THEN p[1] \o seqs[p[2]] ELSE <<>>]
  <2>1. <<>> \in S
    OBVIOUS
  <2>2. ASSUME NEW p \in S \X Nat PROVE (IF p[2] \in 1 .. n THEN p[1] \o seqs[p[2]] ELSE <<>>) \in S
    <3>1. p[1] \in Seq(T) /\ (p[2] \in 1 .. n => seqs[p[2]] \in Seq(T))
      OBVIOUS
    <3> QED BY <3>1
  <2>3. Steps(step, S)
    BY <2>2 DEF Steps
  <2>4. PICK f : Unfolds(f, S, <<>>, step, n)
    <3> HIDE DEF S, step, n
    <3> QED BY <1>1, <2>1, <2>3, RecursionExists
  <2>5. ASSUME NEW i \in 1 .. n PROVE f[i] = f[i - 1] \o seqs[i] /\ f[i - 1] \in S
    <3>1. f[i - 1] \in S /\ i \in Nat /\ f[i] = step[<<f[i - 1], i>>]
      <4> HIDE DEF step, S, n
      <4>1. i \in 0 .. n /\ i - 1 \in 0 .. n /\ i \in Nat
        BY <1>1
      <4> QED BY <4>1, <2>4 DEF Unfolds
    <3>2. <<f[i - 1], i>> \in S \X Nat
      BY <3>1
    <3> QED BY <3>1, <3>2
  <2>6. f[0] = <<>>
    <3> HIDE DEF step, S
    <3> QED BY <2>4 DEF Unfolds
  <2>7. f[1] = seqs[1]
    <3>1. 1 \in 1 .. n /\ 1 - 1 = 0
      BY <1>1
    <3>2. f[1] = <<>> \o seqs[1]
      BY <3>1, <2>5, <2>6
    <3>3. seqs[1] \in Seq(T)
      BY <3>1
    <3> QED BY <3>2, <3>3
  <2> DEFINE g == [i \in 1 .. n |-> f[i]]
  <2>8. P(g)
    <3>1. ASSUME NEW i \in 1 .. n
          PROVE  f[i] = IF i = 1 THEN seqs[i] ELSE g[i - 1] \o seqs[i]
      <4>1. CASE i = 1
        BY <4>1, <2>7
      <4>2. CASE i # 1
        <5>1. i - 1 \in 1 .. n
          BY <1>1, <4>2
        <5>2. g[i - 1] = f[i - 1]
          BY <5>1
        <5> HIDE DEF g
        <5> QED BY <4>2, <5>2, <2>5
      <4> QED BY <4>1, <4>2
    <3> QED BY <3>1
  <2> HIDE DEF P
  <2> QED BY <2>8
<1>4. P(k)
  <2> HIDE DEF P
  <2> QED BY <1>3, Zenon
<1>5. Flattens(k, seqs)
  <2> HIDE DEF k
  <2>1. 1 \in 1 .. n /\ \A i \in 2 .. n : i \in 1 .. n /\ i # 1
    BY <1>1
  <2> DEFINE h == [i \in 1 .. n |-> IF i = 1 THEN seqs[i] ELSE k[i - 1] \o seqs[i]]
  <2>2. h[1] = seqs[1] /\ \A i \in 2 .. n : h[i] = k[i - 1] \o seqs[i]
    BY <2>1
  <2>3. k = h
    BY <1>4
  <2> HIDE DEF h
  <2> QED BY <2>2, <2>3 DEF Flattens
<1> QED BY <1>2, <1>5

LEMMA WatchedSlots ==
  ASSUME NEW w \in Seq(Nat), Len(w) <= MaxComparators
  PROVE  Slots(Watched(w), w, Len(w))
<1> DEFINE n == Len(w)
           seqs == [i \in 1 .. n |-> Watch(i, w[i])]
<1>1. \A i \in 1 .. n : i \in Comparators /\ w[i] \in Nat /\ Segment(Watch(i, w[i]), "dwt")
  BY WatchSegment, ArmAssumption DEF Comparators
<1>2. seqs \in Seq(Seq(Commands)) /\ Len(seqs) = n /\ \A i \in 1 .. n : seqs[i] = Watch(i, w[i])
  BY <1>1 DEF Segment, Plain
<1>3. Slots(<<>>, w, 0)
  <2>1. Len(<<>>) = 0 /\ <<>> \in Seq(Commands)
    OBVIOUS
  <2> QED BY <2>1 DEF Slots, Segment, Upto, Plain, Within, Guarded
<1>4. CASE n = 0
  <2>1. Watched(w) = <<>>
    <3>1. Len(seqs) = 0 /\ seqs = <<>>
      BY <1>2, <1>4
    <3>2. Watched(w) = FlattenSeq(seqs)
      BY DEF Watched
    <3> HIDE DEF seqs
    <3> QED BY <3>1, <3>2 DEF FlattenSeq
  <2> QED BY <2>1, <1>3, <1>4
<1>5. CASE n # 0
  <2>1. PICK g : Flattens(g, seqs) /\ FlattenSeq(seqs) = g[n]
    <3>1. seqs # <<>>
      BY <1>2, <1>5
    <3> HIDE DEF seqs
    <3> QED BY <1>2, <3>1, FlattenIs
  <2> DEFINE G == {0} \cup {i \in 1 .. n : Slots(g[i], w, i)}
  <2>2. ASSUME NEW i \in 1 .. n, i - 1 \in G PROVE i \in G
    <3>1. CASE i = 1
      <4>1. g[1] = Watch(1, w[1])
        BY <2>1, <1>2, <3>1 DEF Flattens
      <4>2. Watch(1, w[1]) \in Seq(Commands)
        BY <1>1, <3>1 DEF Segment, Plain
      <4>3. <<>> \o Watch(1, w[1]) = Watch(1, w[1])
        BY <4>2
      <4>4. Slots(<<>> \o Watch(0 + 1, w[0 + 1]), w, 0 + 1)
        <5>1. 0 \in Nat /\ 0 + 1 \in Comparators /\ w[0 + 1] \in Nat
          BY <1>1, <3>1
        <5> QED BY <5>1, <1>3, NextSlot
      <4> QED BY <3>1, <4>1, <4>3, <4>4
    <3>2. CASE i # 1
      <4>1. i \in 2 .. n /\ i - 1 \in Nat /\ (i - 1) + 1 = i
        BY <3>2
      <4>2. g[i] = g[i - 1] \o Watch(i, w[i])
        BY <4>1, <2>1, <1>2 DEF Flattens
      <4>3. Slots(g[i - 1], w, i - 1)
        BY <2>2, <3>2
      <4>4. Slots(g[i - 1] \o Watch((i - 1) + 1, w[(i - 1) + 1]), w, (i - 1) + 1)
        <5>1. w[(i - 1) + 1] \in Nat /\ (i - 1) + 1 \in Comparators
          BY <4>1, <1>1
        <5> QED BY <4>1, <4>3, <5>1, NextSlot
      <4> QED BY <4>1, <4>2, <4>4
    <3> QED BY <3>1, <3>2
  <2>3. n \in Nat /\ 0 \in G
    OBVIOUS
  <2> HIDE DEF G
  <2>4. n \in G
    <3>1. 0 .. n \subseteq G
      BY <2>2, <2>3, InductUpTo
    <3> QED BY <3>1, <2>3
  <2>5. Slots(g[n], w, n)
    BY <2>4, <1>5 DEF G
  <2> QED BY <2>5, <2>1 DEF Watched
<1> QED BY <1>4, <1>5

LEMMA UnusedSegment ==
  ASSUME NEW w \in Seq(Nat), Len(w) <= MaxComparators
  PROVE  /\ Segment(Unused(w), "dwt")
         /\ \A j \in 1 .. Len(Unused(w)) :
              Unused(w)[j].do = "write" /\ Unused(w)[j].reg = Comp("function", Len(w) + j)
         /\ \A i \in Comparators : i > Len(w) => Leaves(Unused(w), Comp("function", i), 0)
<1> DEFINE s == Unused(w)
           n == Len(w)
<1>1. n \in Nat /\ MaxComparators \in Nat /\ MaxComparators - n \in Nat
  BY ArmAssumption
<1>2. ASSUME NEW k \in 1 .. (MaxComparators - n)
      PROVE  Write(Comp("function", n + k), 0) \in Commands
  <2>1. n + k \in Comparators
    BY <1>1 DEF Comparators
  <2> QED BY <2>1 DEF Commands, Write, Registers
<1>3. /\ s \in Seq(Commands) /\ Len(s) = MaxComparators - n
      /\ \A k \in 1 .. Len(s) : s[k] = Write(Comp("function", n + k), 0)
  BY <1>1, <1>2 DEF Unused
<1> HIDE DEF s
<1>4. Plain(s) /\ Within(s, "dwt")
  BY <1>3 DEF Plain, Within, Write, Comp
<1>5. Guarded(s)
  BY <1>3 DEF Guarded, WritesAt, Write, Comp, R
<1>6. ASSUME NEW i \in Comparators, i > n PROVE Leaves(s, Comp("function", i), 0)
  <2>1. i - n \in 1 .. Len(s) /\ n + (i - n) = i
    BY <1>1, <1>3, <1>6 DEF Comparators
  <2>2. s[i - n] = Write(Comp("function", i), 0)
    BY <2>1, <1>3
  <2>3. Spares(s, Comp("function", i), (i - n) + 1, Len(s))
    <3> SUFFICES ASSUME NEW k \in (i - n) + 1 .. Len(s), s[k].reg = Comp("function", i) PROVE FALSE
      BY DEF Spares, WritesAt
    <3>1. k \in 1 .. Len(s) /\ n + k # i
      BY <1>1, <1>3, <2>1
    <3>2. s[k].reg = Comp("function", n + k)
      BY <3>1, <1>3 DEF Write
    <3> QED BY <3>1, <3>2 DEF Comp
  <2>4. WritesAt(s, i - n, Comp("function", i)) /\ s[i - n].value = 0
    BY <2>2 DEF WritesAt, Write
  <2> QED BY <2>1, <2>3, <2>4 DEF Leaves
<1> QED BY <1>3, <1>4, <1>5, <1>6 DEF Segment, s, Write

LEMMA DwtSegment ==
  ASSUME NEW w \in Seq(Nat), Len(w) <= MaxComparators
  PROVE  /\ Segment(ArmDwt(w), "dwt")
         /\ Leaves(ArmDwt(w), R("dwt", "config"), 1)
         /\ \A i \in 1 .. Len(w) : Slot(ArmDwt(w), i, w[i])
         /\ \A i \in Comparators : i > Len(w) => Leaves(ArmDwt(w), Comp("function", i), 0)
<1> DEFINE one == <<SetUp("dwt")>>
           two == Watched(w)
           three == Unused(w)
           s == one \o two
           t == s \o three
<1>1. Len(one) = 1 /\ one[1] = SetUp("dwt") /\ one \in Seq(Commands)
  BY DEF Commands, SetUp, Write, R, Registers
<1>2. ArmDwt(w) = t
  <2>1. ~(Len(w) > MaxComparators)
    BY ArmAssumption
  <2> QED BY <2>1 DEF ArmDwt
<1> HIDE DEF one
<1>3. Segment(one, "dwt") /\ Leaves(one, R("dwt", "config"), 1)
  <2>1. Plain(one) /\ Within(one, "dwt")
    BY <1>1 DEF Plain, Within, SetUp, Write, R
  <2>2. Guarded(one)
    BY <1>1 DEF Guarded, WritesAt, SetUp, Write, R, Comp
  <2>3. Leaves(one, R("dwt", "config"), 1)
    BY <1>1 DEF Leaves, WritesAt, Spares, Opened, SetUp, Write, R, Locked
  <2> QED BY <2>1, <2>2, <2>3 DEF Segment
<1>4. Slots(two, w, Len(w))
  BY WatchedSlots
<1>5. /\ Segment(three, "dwt")
      /\ \A j \in 1 .. Len(three) : three[j].do = "write" /\ three[j].reg = Comp("function", Len(w) + j)
      /\ \A i \in Comparators : i > Len(w) => Leaves(three, Comp("function", i), 0)
  BY UnusedSegment
<1> HIDE DEF two, three
<1>6. IsJoin(s, one, two) /\ Segment(s, "dwt")
  BY <1>3, <1>4, JoinIs, SegmentJoin DEF Slots, Segment, Plain
<1> HIDE DEF s
<1>7. IsJoin(t, s, three) /\ Segment(t, "dwt")
  BY <1>5, <1>6, JoinIs, SegmentJoin DEF Segment, Plain
<1> HIDE DEF t
<1>8. Leaves(t, R("dwt", "config"), 1)
  <2>1. \A n, i : Comp(n, i) # R("dwt", "config") \/ n = "config"
    BY DEF Comp, R
  <2>2. Spares(two, R("dwt", "config"), 1, Len(two))
    BY <1>4, <2>1 DEF Slots, Upto, Spares, WritesAt
  <2>3. Spares(three, R("dwt", "config"), 1, Len(three))
    BY <1>5, <2>1 DEF Spares, WritesAt
  <2>4. Leaves(s, R("dwt", "config"), 1)
    BY <1>3, <1>6, <2>2, LeftByFormer
  <2> QED BY <1>7, <2>3, <2>4, LeftByFormer
<1>9. ASSUME NEW i \in 1 .. Len(w) PROVE Slot(t, i, w[i])
  <2>1. Slot(two, i, w[i])
    BY <1>4 DEF Slots
  <2>2. Slot(s, i, w[i])
    BY <1>6, <2>1, LeftByLatter DEF Slot
  <2>3. \A j \in 1 .. Len(three) : three[j].reg # Comp("function", i) /\ three[j].reg # Comp("comp", i)
    <3> SUFFICES ASSUME NEW j \in 1 .. Len(three)
                 PROVE  three[j].reg # Comp("function", i) /\ three[j].reg # Comp("comp", i)
      OBVIOUS
    <3>1. three[j].reg = Comp("function", Len(w) + j) /\ Len(w) + j # i
      BY <1>5
    <3> QED BY <3>1 DEF Comp
  <2>4. Spares(three, Comp("function", i), 1, Len(three)) /\ Spares(three, Comp("comp", i), 1, Len(three))
    BY <2>3 DEF Spares, WritesAt
  <2> QED BY <1>7, <2>2, <2>4, LeftByFormer DEF Slot
<1>10. ASSUME NEW i \in Comparators, i > Len(w) PROVE Leaves(t, Comp("function", i), 0)
  BY <1>5, <1>7, <1>10, LeftByLatter
<1> QED BY <1>2, <1>7, <1>8, <1>9, <1>10

------------------------------------------------------------------------------
(* The whole sequence: halt, then blocks in B, one after the other.            *)
Runs(s, B) ==
  /\ s \in Seq(Commands) /\ Len(s) >= 1 /\ s[1].do = "halt"
  /\ \A i \in 2 .. Len(s) : s[i].do \in {"write", "read", "poll", "raise"}
  /\ \A i \in 1 .. Len(s) : s[i].do = "write" =>
       /\ s[i].reg[2] = "lar" => s[i].reg[1] \in Locked /\ s[i] = Unlock(s[i].reg[1])
       /\ s[i].reg[1] \in B
  /\ Guarded(s)

\* The next block, of which nothing was written before, comes after.
LEMMA RunsJoin ==
  ASSUME NEW s, NEW B, Runs(s, B), NEW t, NEW b, Segment(t, b), b \notin B
  PROVE  /\ Runs(s \o t, B \cup {b}) /\ IsJoin(s \o t, s, t)
         /\ \A r, v : r[1] \in B /\ Leaves(s, r, v) => Leaves(s \o t, r, v)
         /\ \A r, v : Leaves(t, r, v) => Leaves(s \o t, r, v)
<1> DEFINE u == s \o t
<1>1. u \in Seq(Commands) /\ IsJoin(u, s, t)
  BY JoinIs DEF Runs, Segment, Plain
<1> HIDE DEF u
<1>2. Len(u) >= 1 /\ u[1] = s[1] /\ Len(s) \in Nat /\ Len(s) >= 1
  BY <1>1 DEF IsJoin, Runs
<1>3. ASSUME NEW i \in 1 .. Len(u)
      PROVE  /\ i # 1 => u[i].do \in {"write", "read", "poll", "raise"}
             /\ u[i].do = "write" =>
                  /\ u[i].reg[2] = "lar" => u[i].reg[1] \in Locked /\ u[i] = Unlock(u[i].reg[1])
                  /\ u[i].reg[1] \in B \cup {b}
  <2>1. CASE i \in 1 .. Len(s) /\ u[i] = s[i]
    BY <1>2, <2>1 DEF Runs
  <2>2. CASE i - Len(s) \in 1 .. Len(t) /\ u[i] = t[i - Len(s)]
    BY <2>2 DEF Segment, Plain, Within
  <2>3. \A m \in 1 .. Len(u) : \/ m \in 1 .. Len(s) /\ u[m] = s[m]
                               \/ m - Len(s) \in 1 .. Len(t) /\ u[m] = t[m - Len(s)]
    BY <1>1, JoinCases
  <2> QED BY <2>1, <2>2, <2>3
<1>4. Guarded(u)
  BY <1>1, GuardedJoin DEF Segment, Runs
<1>5. Runs(u, B \cup {b})
  BY <1>1, <1>2, <1>3, <1>4 DEF Runs
<1>6. ASSUME NEW r, NEW v, r[1] \in B, Leaves(s, r, v) PROVE Leaves(u, r, v)
  <2>1. Spares(t, r, 1, Len(t))
    BY <1>6 DEF Spares, WritesAt, Segment, Within
  <2> QED BY <1>1, <1>6, <2>1, LeftByFormer
<1>7. ASSUME NEW r, NEW v, Leaves(t, r, v) PROVE Leaves(u, r, v)
  BY <1>1, <1>7, LeftByLatter
<1> QED BY <1>1, <1>5, <1>6, <1>7 DEF u

\* What the sequence for `a` leaves in the registers.
Armed(s, a) ==
  /\ \A i \in Comparators :
       IF i <= Len(a.watches)
       THEN Slot(s, i, a.watches[i]) ELSE Leaves(s, Comp("function", i), 0)
  /\ Leaves(s, R("etm", "ctl"), IF a.etm THEN 1 ELSE 0)
  /\ a.etm => Leaves(s, R("etm", "power"), 1) /\ Leaves(s, R("etm", "config"), 1)
  /\ \A b \in {"chip", "tpiu", "funnel", "etf", "itm", "dwt"} : Leaves(s, R(b, "config"), 1)
  /\ \A b \in {"chip", "funnel", "etf", "itm"} : Leaves(s, R(b, "ctl"), 1)

Shaped(s) ==
  /\ s \in Seq(Commands) /\ Len(s) >= 3
  /\ s[1].do = "halt" /\ s[Len(s) - 1].do = "read" /\ s[Len(s)].do = "resume"
  /\ \A i \in 2 .. Len(s) - 1 : s[i].do \in {"write", "read", "poll", "raise"}
  /\ \A i \in 1 .. Len(s) : s[i].do = "write" /\ s[i].reg[2] = "lar" =>
       s[i].reg[1] \in Locked /\ s[i] = Unlock(s[i].reg[1])
  /\ Guarded(s)

(* Read-back before the end, the ETM and the comparators set up while off, and *)
(* all of what was asked for at the end, unless too much was.                  *)
LEMMA SequenceShape ==
  ASSUME NEW a \in Asks
  PROVE  /\ Shaped(Sequence(a))
         /\ (\E i \in 1 .. Len(Sequence(a)) : Sequence(a)[i].do = "raise") \/ Armed(Sequence(a), a)
<1> DEFINE w == a.watches
           s0 == <<[do |-> "halt"]>>
           s1 == s0 \o ChipSteps(a)
           s2 == s1 \o ArmTpiu
           s3 == s2 \o ArmFunnel
           s4 == s3 \o ArmEtf
           s5 == s4 \o ArmEtm(a)
           s6 == s5 \o ArmItm
           s7 == s6 \o ArmDwt(w)
           s8 == s7 \o ReadBack
           last == <<[do |-> "resume"]>>
           S == s8 \o last
           B1 == {} \cup {"chip"}
           B2 == B1 \cup {"tpiu"}
           B3 == B2 \cup {"funnel"}
           B4 == B3 \cup {"etf"}
           B5 == B4 \cup {"etm"}
           B6 == B5 \cup {"itm"}
           B7 == B6 \cup {"dwt"}
           B8 == B7 \cup {"none"}
<1>1. Sequence(a) = S
  BY DEF Sequence
<1>20. /\ "chip" \notin {} /\ "tpiu" \notin B1 /\ "funnel" \notin B2 /\ "etf" \notin B3
       /\ "etm" \notin B4 /\ "itm" \notin B5 /\ "dwt" \notin B6 /\ "none" \notin B7
  OBVIOUS
<1>21. /\ B1 \subseteq B2 /\ B2 \subseteq B3 /\ B3 \subseteq B4 /\ B4 \subseteq B5
       /\ B5 \subseteq B6 /\ B6 \subseteq B7
       /\ "chip" \in B1 /\ "tpiu" \in B2 /\ "funnel" \in B3 /\ "etf" \in B4
       /\ "etm" \in B5 /\ "itm" \in B6 /\ "dwt" \in B7
  OBVIOUS
<1>2. w \in Seq(Nat)
  BY ArmAssumption DEF Asks
<1>3. Runs(s0, {})
  <2>1. Len(s0) = 1 /\ s0[1] = [do |-> "halt"] /\ s0 \in Seq(Commands)
    BY DEF Commands
  <2> HIDE DEF s0
  <2>2. Guarded(s0)
    BY <2>1 DEF Guarded, WritesAt
  <2> QED BY <2>1, <2>2 DEF Runs
<1> HIDE DEF s0, B1, B2, B3, B4, B5, B6, B7, B8
<1>4. Runs(s1, B1) /\ \A r, v : Leaves(ChipSteps(a), r, v) => Leaves(s1, r, v)
  BY <1>20, <1>3, ChipSegment, RunsJoin DEF B1
<1> HIDE DEF s1
<1>5. /\ Runs(s2, B2)
      /\ \A r, v : Leaves(ArmTpiu, r, v) \/ (r[1] \in B1 /\ Leaves(s1, r, v)) => Leaves(s2, r, v)
  BY <1>20, <1>4, OtherSegments, RunsJoin DEF B2
<1> HIDE DEF s2
<1>6. /\ Runs(s3, B3)
      /\ \A r, v : Leaves(ArmFunnel, r, v) \/ (r[1] \in B2 /\ Leaves(s2, r, v)) => Leaves(s3, r, v)
  BY <1>20, <1>5, OtherSegments, RunsJoin DEF B3
<1> HIDE DEF s3
<1>7. /\ Runs(s4, B4)
      /\ \A r, v : Leaves(ArmEtf, r, v) \/ (r[1] \in B3 /\ Leaves(s3, r, v)) => Leaves(s4, r, v)
  BY <1>20, <1>6, EtfSegment, RunsJoin DEF B4
<1> HIDE DEF s4
<1>8. /\ Runs(s5, B5)
      /\ \A r, v : Leaves(ArmEtm(a), r, v) \/ (r[1] \in B4 /\ Leaves(s4, r, v)) => Leaves(s5, r, v)
  BY <1>20, <1>7, EtmSegment, RunsJoin DEF B5
<1> HIDE DEF s5
<1>9. /\ Runs(s6, B6)
      /\ \A r, v : Leaves(ArmItm, r, v) \/ (r[1] \in B5 /\ Leaves(s5, r, v)) => Leaves(s6, r, v)
  BY <1>20, <1>8, OtherSegments, RunsJoin DEF B6
<1> HIDE DEF s6
<1>10. /\ Segment(ArmDwt(w), "dwt")
       /\ \/ Len(ArmDwt(w)) = 1 /\ ArmDwt(w)[1].do = "raise"
          \/ Len(w) <= MaxComparators
  <2>1. CASE Len(w) <= MaxComparators
    BY <1>2, <2>1, DwtSegment
  <2>2. CASE Len(w) > MaxComparators
    <3> DEFINE d == <<[do |-> "raise"]>>
    <3>1. Len(d) = 1 /\ d[1] = [do |-> "raise"] /\ d \in Seq(Commands)
      BY DEF Commands
    <3>2. ArmDwt(w) = d
      BY <2>2 DEF ArmDwt
    <3> HIDE DEF d
    <3>3. \A i \in 1 .. Len(d) : d[i].do = "raise"
      BY <3>1
    <3>4. Plain(d) /\ Within(d, "dwt")
      BY <3>1, <3>3 DEF Plain, Within
    <3>5. Guarded(d)
      BY <3>3 DEF Guarded, WritesAt
    <3> QED BY <3>1, <3>2, <3>4, <3>5 DEF Segment
  <2>3. Len(w) <= MaxComparators \/ Len(w) > MaxComparators
    BY <1>2, ArmAssumption
  <2> QED BY <2>1, <2>2, <2>3
<1>11. /\ Runs(s7, B7) /\ IsJoin(s7, s6, ArmDwt(w))
       /\ \A r, v : Leaves(ArmDwt(w), r, v) \/ (r[1] \in B6 /\ Leaves(s6, r, v)) => Leaves(s7, r, v)
  BY <1>20, <1>9, <1>10, RunsJoin DEF B7
<1> HIDE DEF s7
<1>12. Len(ReadBack) = 3 /\ ReadBack[3] = Read /\ Segment(ReadBack, "none")
  <2>1. Len(ReadBack) = 3 /\ \A i \in 1 .. 3 : ReadBack[i] = Read
    BY DEF ReadBack
  <2>2. ReadBack \in Seq(Commands)
    BY DEF ReadBack, Commands, Read
  <2> QED BY <2>1, <2>2 DEF Segment, Plain, Within, Guarded, WritesAt, Read
<1>13. /\ Runs(s8, B8) /\ IsJoin(s8, s7, ReadBack)
       /\ \A r, v : r[1] \in B7 /\ Leaves(s7, r, v) => Leaves(s8, r, v)
  BY <1>20, <1>11, <1>12, RunsJoin DEF B8
<1> HIDE DEF s8
<1>14. Len(last) = 1 /\ last[1] = [do |-> "resume"] /\ last \in Seq(Commands)
  BY DEF Commands
<1> HIDE DEF last
<1>15. S \in Seq(Commands) /\ IsJoin(S, s8, last)
  BY <1>13, <1>14, JoinIs DEF Runs
<1> HIDE DEF S
<1>16. /\ Len(S) = Len(s8) + 1 /\ Len(s8) \in Nat /\ Len(s8) >= 4 /\ s8[Len(s8)] = Read
       /\ \A i \in 1 .. Len(s8) : S[i] = s8[i]
       /\ S[Len(s8) + 1] = [do |-> "resume"]
  <2>1. Len(s8) = Len(s7) + 3 /\ Len(s7) \in Nat /\ Len(s7) >= 1
    BY <1>11, <1>12, <1>13 DEF IsJoin, Runs
  <2>2. s8[Len(s7) + 3] = Read
    BY <1>12, <1>13 DEF IsJoin
  <2>3. S[Len(s8) + 1] = last[1]
    BY <1>14, <1>15 DEF IsJoin
  <2> QED BY <2>1, <2>2, <2>3, <1>14, <1>15 DEF IsJoin
<1>17. Shaped(S)
  <2>1. Guarded(last)
    BY <1>14 DEF Guarded, WritesAt
  <2>2. Guarded(S)
    BY <2>1, <1>13, <1>15, GuardedJoin DEF Runs
  <2>3. S[1].do = "halt" /\ S[Len(S) - 1].do = "read" /\ S[Len(S)].do = "resume" /\ Len(S) >= 3
    BY <1>16, <1>13 DEF Runs, Read
  <2>4. \A i \in 2 .. Len(S) - 1 : S[i].do \in {"write", "read", "poll", "raise"}
    BY <1>16, <1>13 DEF Runs
  <2>5. ASSUME NEW i \in 1 .. Len(S), S[i].do = "write", S[i].reg[2] = "lar"
        PROVE  S[i].reg[1] \in Locked /\ S[i] = Unlock(S[i].reg[1])
    <3>1. i # Len(s8) + 1
      BY <1>16, <2>5
    <3>2. i \in 1 .. Len(s8) /\ S[i] = s8[i]
      BY <3>1, <1>16
    <3> QED BY <3>2, <2>5, <1>13 DEF Runs
  <2> QED BY <1>15, <2>2, <2>3, <2>4, <2>5 DEF Shaped
<1>18. CASE Len(ArmDwt(w)) = 1 /\ ArmDwt(w)[1].do = "raise"
  <2> DEFINE i == Len(s6) + 1
  <2>1. s7[i] = ArmDwt(w)[1] /\ i \in 1 .. Len(s7)
    BY <1>11, <1>18 DEF IsJoin
  <2>2. s8[i] = s7[i] /\ i \in 1 .. Len(s8)
    BY <1>13, <2>1 DEF IsJoin
  <2>3. S[i].do = "raise" /\ i \in 1 .. Len(S)
    BY <1>16, <1>18, <2>1, <2>2
  <2> QED BY <1>1, <1>17, <2>3
<1>19. CASE Len(w) <= MaxComparators
  <2>1. \A r, v : r[1] \in B7 /\ Leaves(s7, r, v) => Leaves(S, r, v)
    <3> SUFFICES ASSUME NEW r, NEW v, r[1] \in B7, Leaves(s7, r, v) PROVE Leaves(S, r, v)
      OBVIOUS
    <3>1. Spares(last, r, 1, Len(last))
      BY <1>14 DEF Spares, WritesAt
    <3>2. Leaves(s8, r, v)
      BY <1>13
    <3> QED BY <1>15, <3>1, <3>2, LeftByFormer
  <2>2. \A b : R(b, "config")[1] = b /\ R(b, "ctl")[1] = b /\ R(b, "power")[1] = b
    BY DEF R
  <2>3. \A n, i : Comp(n, i)[1] = "dwt"
    BY DEF Comp
  <2>4. \A r, v : Leaves(ArmDwt(w), r, v) /\ r[1] \in B7 => Leaves(S, r, v)
    BY <1>21, <1>11, <2>1
  <2>5. \A r, v : Leaves(s6, r, v) /\ r[1] \in B6 => Leaves(S, r, v)
    BY <1>21, <1>11, <2>1
  <2>6. \A r, v : Leaves(s5, r, v) /\ r[1] \in B5 => Leaves(S, r, v)
    BY <1>21, <1>9, <2>5
  <2>7. \A r, v : Leaves(s4, r, v) /\ r[1] \in B4 => Leaves(S, r, v)
    BY <1>21, <1>8, <2>6
  <2>8. \A r, v : Leaves(s3, r, v) /\ r[1] \in B3 => Leaves(S, r, v)
    BY <1>21, <1>7, <2>7
  <2>9. \A r, v : Leaves(s2, r, v) /\ r[1] \in B2 => Leaves(S, r, v)
    BY <1>21, <1>6, <2>8
  <2>10. \A r, v : Leaves(s1, r, v) /\ r[1] \in B1 => Leaves(S, r, v)
    BY <1>21, <1>5, <2>9
  <2>11. Leaves(S, R("chip", "config"), 1) /\ Leaves(S, R("chip", "ctl"), 1)
    BY <1>21, <1>4, <2>2, <2>10, ChipSegment
  <2>12. Leaves(S, R("tpiu", "config"), 1)
    BY <1>21, <1>5, <2>2, <2>9, OtherSegments
  <2>13. Leaves(S, R("funnel", "config"), 1) /\ Leaves(S, R("funnel", "ctl"), 1)
    BY <1>21, <1>6, <2>2, <2>8, OtherSegments
  <2>14. Leaves(S, R("etf", "config"), 1) /\ Leaves(S, R("etf", "ctl"), 1)
    BY <1>21, <1>7, <2>2, <2>7, EtfSegment
  <2>15. /\ Leaves(S, R("etm", "ctl"), IF a.etm THEN 1 ELSE 0)
         /\ a.etm => Leaves(S, R("etm", "power"), 1) /\ Leaves(S, R("etm", "config"), 1)
    BY <1>21, <1>8, <2>2, <2>6, EtmSegment
  <2>16. Leaves(S, R("itm", "config"), 1) /\ Leaves(S, R("itm", "ctl"), 1)
    BY <1>21, <1>9, <2>2, <2>5, OtherSegments
  <2>17. Leaves(S, R("dwt", "config"), 1)
    BY <1>21, <1>2, <1>19, <2>2, <2>4, DwtSegment
  <2>18. ASSUME NEW i \in Comparators
         PROVE  IF i <= Len(w) THEN Slot(S, i, w[i]) ELSE Leaves(S, Comp("function", i), 0)
    <3>1. /\ \A k \in 1 .. Len(w) : Slot(ArmDwt(w), k, w[k])
          /\ \A k \in Comparators : k > Len(w) => Leaves(ArmDwt(w), Comp("function", k), 0)
      BY <1>2, <1>19, DwtSegment
    <3>2. CASE i <= Len(w)
      <4>1. i \in 1 .. Len(w)
        BY <3>2 DEF Comparators
      <4> QED BY <1>21, <4>1, <3>1, <3>2, <2>3, <2>4 DEF Slot
    <3>3. CASE ~(i <= Len(w))
      <4>1. i > Len(w)
        BY <1>2, <3>3 DEF Comparators
      <4> QED BY <1>21, <4>1, <3>1, <3>3, <2>3, <2>4
    <3> QED BY <3>2, <3>3
  <2>19. Armed(S, a)
    BY <2>11, <2>12, <2>13, <2>14, <2>15, <2>16, <2>17, <2>18 DEF Armed
  <2> QED BY <1>1, <1>17, <2>19
<1> QED BY <1>10, <1>18, <1>19

------------------------------------------------------------------------------
(* The state. Its place in the sequence is Executed; as long as OpenOCD is     *)
(* there, or once the read-back is behind it, the registers hold what the      *)
(* commands executed so far have left in them.                                 *)
Commanded == Sequence(ask)
Executed == Len(Commanded) - Len(todo)
Ahead ==
  /\ todo \in Seq(Commands) /\ Len(todo) <= Len(Commanded)
  /\ \A i \in 1 .. Len(todo) : todo[i] = Commanded[Executed + i]
  /\ \A i \in 1 .. Executed : Commanded[i].do # "raise"
Answering == link = "up" \/ Len(todo) <= 1
Lasts(s, p, j) == s[j].do = "write" /\ Spares(s, s[j].reg, j + 1, p)
Holds(s, p) ==
  \A j \in 1 .. p : Lasts(s, p, j) /\ ((s[j].value = 0 /\ s[j].reg[2] # "lar") \/ Opened(s, j)) =>
    reg[s[j].reg] = s[j].value
Unlocked(s, p) == \A j \in 1 .. p : \A b \in Locked : s[j] = Unlock(b) => reg[R(b, "lar")] = 1

\* A lock is open or shut; what is behind a shut one has its reset value.
Locks ==
  /\ \A r \in Registers : r[2] = "lar" => reg[r] \in {0, 1}
  /\ \A r \in Registers : reg[R(r[1], "lar")] = 0 => r[1] \in Locked /\ reg[r] = 0

ArmTypes ==
  /\ reg \in [Registers -> Nat]
  /\ core \in {"running", "halted"} /\ link \in {"up", "closed"}
  /\ ask \in Asks
  /\ outcome \in {"none", "arming", "armed", "error"}
  /\ tries \in 0 .. (PollTries - 1)
ArmInv ==
  /\ ArmTypes /\ Locks
  /\ Arming =>
       /\ Ahead
       /\ Answering => Holds(Commanded, Executed) /\ Unlocked(Commanded, Executed)
       /\ Executed >= 1 /\ todo # <<>> /\ link = "up" => core = "halted"
  /\ ArmedAsAsked

\* Every register has a lock, and only locks are called "lar".
LEMMA RegistersHaveLocks ==
  /\ \A r \in Registers : R(r[1], "lar") \in Registers /\ R(r[1], "lar")[2] = "lar"
  /\ \A r \in Registers : r[2] = "lar" => r = R(r[1], "lar")
  /\ \A b \in Locked : R(b, "lar") \in Registers
  /\ \A b : R(b, "lar")[1] = b /\ R(b, "lar")[2] = "lar"
BY DEF Registers, R, Comp

\* The command at the head is the next one of the sequence.
LEMMA CommandIsNext ==
  ASSUME ArmTypes, Ahead, todo # <<>>
  PROVE  /\ Executed \in Nat /\ Executed + 1 \in 1 .. Len(Commanded)
         /\ Command = Commanded[Executed + 1] /\ Command \in Commands
         /\ Commanded \in Seq(Commands) /\ Shaped(Commanded)
         /\ Len(todo) \in Nat \ {0} /\ Executed + Len(todo) = Len(Commanded)
<1>1. Shaped(Commanded) /\ Commanded \in Seq(Commands)
  BY SequenceShape DEF ArmTypes, Commanded, Shaped
<1>2. Len(todo) \in Nat \ {0} /\ Len(Commanded) \in Nat /\ Len(todo) <= Len(Commanded)
  BY <1>1 DEF Ahead
<1>3. Command = todo[1] /\ todo[1] \in Commands /\ 1 \in 1 .. Len(todo)
  BY <1>2 DEF Command, Ahead
<1>4. todo[1] = Commanded[Executed + 1]
  BY <1>3 DEF Ahead
<1> QED BY <1>1, <1>2, <1>3, <1>4 DEF Executed

\* What a write to a register of a command does is in its type.
LEMMA WriteTyped ==
  ASSUME NEW c \in Commands, c.do = "write"
  PROVE  c.reg \in Registers /\ c.value \in Nat
BY DEF Commands

\* A command opens a lock or writes behind an open one.
LEMMA EffectKeepsLocks ==
  ASSUME ArmTypes, Ahead, Locks, todo # <<>>, Effect
  PROVE  reg' \in [Registers -> Nat] /\ core' \in {"running", "halted"} /\ Locks'
<1> DEFINE c == Command
<1>1. c \in Commands /\ \E i \in 1 .. Len(Commanded) : c = Commanded[i] /\ Shaped(Commanded)
  BY CommandIsNext
<1>2. c.do = "write" /\ c.reg[2] = "lar" => c.reg[1] \in Locked /\ c = Unlock(c.reg[1])
  BY <1>1 DEF Shaped
<1>3. core' \in {"running", "halted"}
  BY DEF Effect, ArmTypes
<1> HIDE DEF c
<1>4. CASE c.do = "write" /\ Takes(c.reg)
  <2>1. c.reg \in Registers /\ c.value \in Nat
    BY <1>1, <1>4, WriteTyped
  <2>2. reg' = [reg EXCEPT ![c.reg] = c.value]
    BY <1>4 DEF Effect, c
  <2>3. reg' \in [Registers -> Nat]
    BY <2>1, <2>2 DEF ArmTypes
  <2>4. CASE c.reg[2] = "lar"
    <3>1. c.value = 1 /\ c.reg = R(c.reg[1], "lar")
      BY <1>2, <1>4, <2>4 DEF Unlock, Write
    <3>2. \A r \in Registers : IF r = c.reg THEN reg'[r] = 1 ELSE reg'[r] = reg[r]
      BY <2>1, <2>2, <3>1 DEF ArmTypes
    <3>3. ASSUME NEW r \in Registers PROVE r[2] = "lar" => reg'[r] \in {0, 1}
      BY <3>2 DEF Locks
    <3>4. ASSUME NEW r \in Registers, reg'[R(r[1], "lar")] = 0 PROVE r[1] \in Locked /\ reg'[r] = 0
      <4>1. R(r[1], "lar") # c.reg /\ reg[R(r[1], "lar")] = 0
        BY <3>2, <3>4, RegistersHaveLocks
      <4>2. r # c.reg
        BY <2>4, <4>1, RegistersHaveLocks
      <4> QED BY <3>2, <4>1, <4>2 DEF Locks
    <3> QED BY <1>3, <2>3, <3>3, <3>4 DEF Locks
  <2>5. CASE c.reg[2] # "lar"
    <3>1. \A r \in Registers : IF r = c.reg THEN reg'[r] = c.value ELSE reg'[r] = reg[r]
      BY <2>1, <2>2 DEF ArmTypes
    <3>2. reg[R(c.reg[1], "lar")] = 1
      BY <1>4, <2>5 DEF Takes
    <3>3. ASSUME NEW r \in Registers PROVE r[2] = "lar" => reg'[r] \in {0, 1}
      BY <2>5, <3>1 DEF Locks
    <3>4. ASSUME NEW r \in Registers, reg'[R(r[1], "lar")] = 0 PROVE r[1] \in Locked /\ reg'[r] = 0
      <4>1. R(r[1], "lar") # c.reg /\ reg[R(r[1], "lar")] = 0
        BY <2>5, <3>1, <3>4, RegistersHaveLocks
      <4>2. r # c.reg
        BY <3>2, <4>1
      <4> QED BY <3>1, <4>1, <4>2 DEF Locks
    <3> QED BY <1>3, <2>3, <3>3, <3>4 DEF Locks
  <2> QED BY <2>4, <2>5
<1>5. CASE ~(c.do = "write" /\ Takes(c.reg))
  <2>1. reg' = reg
    BY <1>5 DEF Effect, c
  <2> QED BY <1>3, <2>1 DEF Locks, ArmTypes
<1> QED BY <1>4, <1>5

\* After a command the registers hold what it and those before it leave.
LEMMA EffectHolds ==
  ASSUME ArmTypes, Ahead, Locks, todo # <<>>, Effect,
         NEW s, s = Commanded, NEW p, p = Executed, Holds(s, p), Unlocked(s, p)
  PROVE  Holds(s, p + 1)' /\ Unlocked(s, p + 1)'
<1> DEFINE c == Command
           n == p + 1
<1>1. /\ p \in Nat /\ n \in 1 .. Len(s) /\ c = s[n] /\ c \in Commands /\ Shaped(s)
      /\ s \in Seq(Commands)
  BY CommandIsNext
<1>2. c.do = "write" => c.reg \in Registers /\ c.value \in Nat
  BY <1>1, WriteTyped
<1>3. \A i \in 1 .. Len(s) : s[i].do = "write" /\ s[i].reg[2] = "lar" =>
        s[i].reg[1] \in Locked /\ s[i] = Unlock(s[i].reg[1])
  BY <1>1 DEF Shaped
<1>4. \A i \in 1 .. p : i \in 1 .. Len(s) /\ s[i] \in Commands
  BY <1>1
<1>5. reg' = IF c.do = "write" /\ Takes(c.reg) THEN [reg EXCEPT ![c.reg] = c.value] ELSE reg
  BY DEF Effect
<1> HIDE DEF c
<1>6. CASE c.do = "write" /\ Takes(c.reg)
  <2>1. \A r \in Registers : IF r = c.reg THEN reg'[r] = c.value ELSE reg'[r] = reg[r]
    BY <1>2, <1>5, <1>6 DEF ArmTypes
  <2>2. ASSUME NEW j \in 1 .. n, Lasts(s, n, j),
               (s[j].value = 0 /\ s[j].reg[2] # "lar") \/ Opened(s, j)
        PROVE  reg'[s[j].reg] = s[j].value
    <3>1. CASE j = n
      BY <1>1, <1>2, <1>6, <2>1, <3>1
    <3>2. CASE j # n
      <4>1. j \in 1 .. p /\ n \in j + 1 .. n
        BY <1>1, <3>2
      <4>2. Lasts(s, p, j)
        BY <1>1, <4>1, <2>2 DEF Lasts, Spares
      <4>3. reg[s[j].reg] = s[j].value
        BY <4>1, <4>2, <2>2 DEF Holds
      <4>4. s[j].reg # c.reg
        BY <4>1, <2>2, <1>1, <1>6 DEF Lasts, Spares, WritesAt
      <4>5. s[j].reg \in Registers
        BY <4>1, <1>4, <2>2, WriteTyped DEF Lasts
      <4> QED BY <2>1, <4>3, <4>4, <4>5
    <3> QED BY <3>1, <3>2
  <2>3. ASSUME NEW j \in 1 .. n, NEW b \in Locked, s[j] = Unlock(b)
        PROVE  reg'[R(b, "lar")] = 1
    <3>1. R(b, "lar") \in Registers /\ R(b, "lar")[2] = "lar" /\ R(b, "lar")[1] = b
      BY RegistersHaveLocks
    <3>2. CASE c.reg = R(b, "lar")
      <4>1. c = Unlock(b)
        BY <1>1, <1>3, <1>6, <3>1, <3>2
      <4>2. c.value = 1
        BY <4>1 DEF Unlock, Write
      <4> QED BY <2>1, <3>1, <3>2, <4>2
    <3>3. CASE c.reg # R(b, "lar")
      <4>1. j # n
        BY <1>1, <2>3, <3>3 DEF Unlock, Write
      <4>2. reg[R(b, "lar")] = 1
        BY <1>1, <2>3, <4>1 DEF Unlocked
      <4> QED BY <2>1, <3>1, <3>3, <4>2
    <3> QED BY <3>2, <3>3
  <2> QED BY <2>2, <2>3 DEF Holds, Unlocked
<1>7. CASE ~(c.do = "write" /\ Takes(c.reg))
  <2>1. reg' = reg
    BY <1>5, <1>7
  <2>2. ASSUME NEW j \in 1 .. n, Lasts(s, n, j),
               (s[j].value = 0 /\ s[j].reg[2] # "lar") \/ Opened(s, j)
        PROVE  reg[s[j].reg] = s[j].value
    <3>1. CASE j # n
      <4>1. j \in 1 .. p
        BY <1>1, <3>1
      <4>2. Lasts(s, p, j)
        BY <1>1, <4>1, <2>2 DEF Lasts, Spares
      <4> QED BY <4>1, <4>2, <2>2 DEF Holds
    <3>2. CASE j = n
      <4>1. c.do = "write" /\ ~Takes(c.reg) /\ c.reg \in Registers
        BY <1>1, <1>2, <1>7, <2>2, <3>2 DEF Lasts
      <4>2. c.reg[2] # "lar" /\ reg[R(c.reg[1], "lar")] = 0
        BY <4>1, RegistersHaveLocks DEF Takes, Locks
      <4>3. c.reg[1] \in Locked /\ reg[c.reg] = 0
        BY <4>1, <4>2 DEF Locks
      <4>4. ~Opened(s, j)
        <5> SUFFICES ASSUME NEW k \in 1 .. j - 1, s[k] = Unlock(c.reg[1]) PROVE FALSE
          BY <1>1, <3>2, <4>2, <4>3 DEF Opened
        <5>1. k \in 1 .. p
          BY <1>1, <3>2
        <5> QED BY <4>2, <4>3, <5>1 DEF Unlocked
      <4> QED BY <1>1, <2>2, <3>2, <4>3, <4>4
    <3> QED BY <3>1, <3>2
  <2>3. ASSUME NEW j \in 1 .. n, NEW b \in Locked, s[j] = Unlock(b)
        PROVE  reg[R(b, "lar")] = 1
    <3>1. R(b, "lar") \in Registers /\ R(b, "lar")[2] = "lar"
      BY RegistersHaveLocks
    <3>2. j # n
      BY <1>1, <1>7, <2>3, <3>1 DEF Unlock, Write, Takes
    <3> QED BY <1>1, <2>3, <3>2 DEF Unlocked
  <2> QED BY <2>1, <2>2, <2>3 DEF Holds, Unlocked
<1> QED BY <1>6, <1>7

\* A command taken off the list brings arming one further.
LEMMA Advances ==
  ASSUME ArmTypes, Ahead, todo # <<>>, Command.do # "raise", todo' = Tail(todo), UNCHANGED ask
  PROVE  Ahead' /\ Commanded' = Commanded /\ Executed' = Executed + 1 /\ Len(todo') = Len(todo) - 1
<1>1. /\ Executed \in Nat /\ Executed + 1 \in 1 .. Len(Commanded)
      /\ Command = Commanded[Executed + 1] /\ Commanded \in Seq(Commands)
      /\ Len(todo) \in Nat \ {0} /\ Executed + Len(todo) = Len(Commanded)
  BY CommandIsNext
<1>2. /\ todo' \in Seq(Commands) /\ Len(todo') = Len(todo) - 1
      /\ \A i \in 1 .. Len(todo) - 1 : todo'[i] = todo[i + 1]
  BY <1>1 DEF Ahead
<1>3. Commanded' = Commanded /\ Executed' = Executed + 1
  BY <1>1, <1>2 DEF Commanded, Executed
<1>4. \A i \in 1 .. Len(todo') : todo'[i] = Commanded[Executed + 1 + i]
  <2> SUFFICES ASSUME NEW i \in 1 .. Len(todo') PROVE todo'[i] = Commanded[Executed + 1 + i]
    OBVIOUS
  <2>1. i + 1 \in 1 .. Len(todo) /\ todo'[i] = todo[i + 1]
    BY <1>1, <1>2
  <2>2. todo[i + 1] = Commanded[Executed + (i + 1)] /\ Executed + (i + 1) = Executed + 1 + i
    BY <1>1, <2>1 DEF Ahead
  <2> QED BY <2>1, <2>2
<1>5. \A i \in 1 .. Executed + 1 : Commanded[i].do # "raise"
  BY <1>1 DEF Ahead
<1>6. Len(todo') <= Len(Commanded')
  BY <1>1, <1>2, <1>3
<1>7. /\ \A i \in 1 .. Len(todo') : todo'[i] = Commanded'[Executed' + i]
      /\ \A i \in 1 .. Executed' : Commanded'[i].do # "raise"
  BY <1>3, <1>4, <1>5
<1> QED BY <1>2, <1>3, <1>6, <1>7 DEF Ahead

LEMMA ArmInitInv == ArmInit => ArmInv
<1> SUFFICES ASSUME ArmInit PROVE ArmInv
  OBVIOUS
<1>1. reg = AtPowerUp /\ ArmTypes /\ ~Arming
  BY ArmAssumption DEF ArmInit, ArmTypes, AtPowerUp, Arming
<1>2. Locks
  BY <1>1, RegistersHaveLocks DEF Locks, AtPowerUp, Registers, R, Comp, Locked
<1> QED BY <1>1, <1>2 DEF ArmInv, ArmedAsAsked, ArmInit

LEMMA ArmStarts ==
  ASSUME ArmInv, NEW a \in Asks, Arm(a)
  PROVE  ArmInv'
<1>1. ArmTypes' /\ Arming' /\ Locks'
  BY ArmAssumption DEF ArmInv, ArmTypes, Arm, Arming, Locks
<1>2. todo' = Sequence(a) /\ Commanded' = Sequence(a) /\ Shaped(Sequence(a))
  BY SequenceShape DEF Arm, Commanded
<1>3. Executed' = 0
  BY <1>2 DEF Executed, Shaped
<1>4. Ahead'
  BY <1>2, <1>3 DEF Ahead, Shaped
<1>5. Holds(Commanded, Executed)' /\ Unlocked(Commanded, Executed)'
  BY <1>3 DEF Holds, Unlocked
<1>6. ArmedAsAsked'
  BY DEF ArmedAsAsked, Arm
<1> QED BY <1>1, <1>3, <1>4, <1>5, <1>6 DEF ArmInv

LEMMA AnsweredKeeps ==
  ASSUME ArmInv, Answered
  PROVE  ArmInv'
<1> DEFINE s == Commanded
           p == Executed
<1>1. /\ ArmTypes /\ Locks /\ Ahead /\ todo # <<>> /\ link = "up" /\ Effect
      /\ outcome = "arming" /\ outcome' = "arming" /\ tries' = 0 /\ UNCHANGED <<link, ask>>
      /\ Holds(s, p) /\ Unlocked(s, p) /\ Command.do # "raise" /\ todo' = Tail(todo)
  BY DEF ArmInv, Answered, Is, Arming, Answering, Advance
<1>2. ArmTypes' /\ Locks'
  BY <1>1, EffectKeepsLocks, ArmAssumption DEF ArmTypes
<1>3. Ahead' /\ s' = s /\ p' = p + 1 /\ Len(todo') = Len(todo) - 1
  BY <1>1, Advances
<1>4. Holds(s, p)' /\ Unlocked(s, p)'
  <2> SUFFICES ASSUME NEW t, t = Commanded, NEW q, q = Executed
               PROVE  Holds(t, q + 1)' /\ Unlocked(t, q + 1)'
    BY <1>3 DEF Holds, Unlocked
  <2> QED BY <1>1, EffectHolds
<1>5. ASSUME todo' # <<>> PROVE core' = "halted"
  <2>1. /\ p \in Nat /\ Command = s[p + 1] /\ p + 1 \in 1 .. Len(s) /\ Shaped(s)
        /\ Len(todo) \in Nat \ {0} /\ p + Len(todo) = Len(s)
    BY <1>1, CommandIsNext
  <2>2. Len(todo') \in Nat /\ Len(todo') # 0
    <3>1. todo' \in Seq(Commands)
      BY <1>3 DEF Ahead
    <3> QED BY <3>1, <1>5
  <2>3. p + 1 < Len(s)
    BY <2>1, <2>2, <1>3
  <2>4. CASE p = 0
    BY <1>1, <2>1, <2>4 DEF Effect, Shaped
  <2>5. CASE p # 0
    <3>1. core = "halted"
      BY <1>1, <2>1, <2>5 DEF ArmInv, Arming
    <3>2. Command.do \in {"write", "read", "poll", "raise"}
      <4>1. p + 1 \in 2 .. Len(s) - 1
        BY <2>1, <2>3, <2>5
      <4> QED BY <2>1, <4>1 DEF Shaped
    <3> QED BY <1>1, <3>1, <3>2 DEF Effect
  <2> QED BY <2>4, <2>5
<1>6. ArmedAsAsked'
  BY <1>1 DEF ArmedAsAsked
<1> QED BY <1>2, <1>3, <1>4, <1>5, <1>6 DEF ArmInv

\* A command nobody executed: the read-back is still to come, or it was the resume.
LEMMA TakenForAnsweredKeeps ==
  ASSUME ArmInv, TakenForAnswered
  PROVE  ArmInv'
<1> DEFINE s == Commanded
           p == Executed
<1>1. /\ ArmTypes /\ Locks /\ Ahead /\ todo # <<>> /\ link = "closed"
      /\ UNCHANGED <<reg, core, link, ask>> /\ outcome = "arming" /\ outcome' = "arming" /\ tries' = 0
      /\ Command.do \in {"write", "halt", "resume"} /\ todo' = Tail(todo)
  BY DEF ArmInv, TakenForAnswered, Is, Arming, Advance
<1>2. ArmTypes' /\ Locks'
  BY <1>1, ArmAssumption DEF ArmTypes, Locks
<1>3. Ahead' /\ s' = s /\ p' = p + 1 /\ Len(todo') = Len(todo) - 1
  BY <1>1, Advances
<1>4. /\ p \in Nat /\ Command = s[p + 1] /\ p + 1 \in 1 .. Len(s) /\ Shaped(s)
      /\ Len(todo) \in Nat \ {0} /\ p + Len(todo) = Len(s)
  BY <1>1, CommandIsNext
\* The command before the last is a read, so this was the last, or there are more.
<1>5. ASSUME Answering' PROVE Holds(s, p)' /\ Unlocked(s, p)'
  <2>1. Len(todo') <= 1
    BY <1>1, <1>5 DEF Answering
  <2>2. Len(todo) # 2
    <3> SUFFICES ASSUME Len(todo) = 2 PROVE FALSE
      OBVIOUS
    <3>1. p + 1 = Len(s) - 1
      BY <1>4
    <3> QED BY <1>1, <1>4, <3>1 DEF Shaped
  <2>3. Len(todo) = 1
    BY <1>3, <1>4, <2>1, <2>2
  <2>4. Holds(s, p) /\ Unlocked(s, p) /\ p + 1 = Len(s)
    BY <1>1, <1>4, <2>3 DEF ArmInv, Arming, Answering
  <2>5. s[p + 1].do = "resume"
    BY <1>4, <2>4 DEF Shaped
  <2> SUFFICES ASSUME NEW t, t = s, NEW q, q = p PROVE Holds(t, q + 1)' /\ Unlocked(t, q + 1)'
    BY <1>3 DEF Holds, Unlocked
  <2>6. ASSUME NEW j \in 1 .. q + 1, Lasts(t, q + 1, j),
               (t[j].value = 0 /\ t[j].reg[2] # "lar") \/ Opened(t, j)
        PROVE  reg[t[j].reg] = t[j].value
    <3>1. j \in 1 .. q
      BY <1>4, <2>5, <2>6 DEF Lasts
    <3>2. Lasts(t, q, j)
      BY <1>4, <3>1, <2>6 DEF Lasts, Spares
    <3> QED BY <2>4, <2>6, <3>1, <3>2 DEF Holds
  <2>7. ASSUME NEW j \in 1 .. q + 1, NEW b \in Locked, t[j] = Unlock(b) PROVE reg[R(b, "lar")] = 1
    <3>1. j \in 1 .. q
      BY <1>4, <2>5, <2>7 DEF Unlock, Write
    <3> QED BY <2>4, <2>7, <3>1 DEF Unlocked
  <2> QED BY <1>1, <2>6, <2>7 DEF Holds, Unlocked
<1>6. ArmedAsAsked'
  BY <1>1 DEF ArmedAsAsked
<1> QED BY <1>1, <1>2, <1>3, <1>5, <1>6 DEF ArmInv

LEMMA PollOnceKeeps ==
  ASSUME ArmInv, PollOnce
  PROVE  ArmInv'
<1> DEFINE s == Commanded
           p == Executed
<1>1. /\ ArmTypes /\ Locks /\ Ahead /\ todo # <<>> /\ link = "up" /\ outcome = "arming"
      /\ Command.do = "poll" /\ UNCHANGED <<reg, core, link, ask>>
      /\ Holds(s, p) /\ Unlocked(s, p)
  BY DEF ArmInv, PollOnce, Is, Arming, Answering
<1>2. Locks' /\ (Answering' <=> TRUE)
  BY <1>1 DEF Locks, Answering
<1>3. CASE todo' = Tail(todo) /\ tries' = 0 /\ outcome' = outcome
  <2>1. ArmTypes'
    BY <1>1, <1>3, ArmAssumption DEF ArmTypes
  <2>2. Ahead' /\ s' = s /\ p' = p + 1 /\ Len(todo') = Len(todo) - 1
    BY <1>1, <1>3, Advances
  <2>3. /\ p \in Nat /\ Command = s[p + 1] /\ p + 1 \in 1 .. Len(s) /\ Shaped(s)
    BY <1>1, CommandIsNext
  <2>4. p # 0 /\ core = "halted"
    BY <1>1, <2>3 DEF Shaped, ArmInv, Arming
  <2>5. Holds(s, p)' /\ Unlocked(s, p)'
    <3> SUFFICES ASSUME NEW t, t = s, NEW q, q = p PROVE Holds(t, q + 1)' /\ Unlocked(t, q + 1)'
      BY <2>2 DEF Holds, Unlocked
    <3>1. ASSUME NEW j \in 1 .. q + 1, Lasts(t, q + 1, j),
                 (t[j].value = 0 /\ t[j].reg[2] # "lar") \/ Opened(t, j)
          PROVE  reg[t[j].reg] = t[j].value
      <4>1. j \in 1 .. q
        BY <1>1, <2>3, <3>1 DEF Lasts
      <4>2. Lasts(t, q, j)
        BY <2>3, <4>1, <3>1 DEF Lasts, Spares
      <4> QED BY <1>1, <3>1, <4>1, <4>2 DEF Holds
    <3>2. ASSUME NEW j \in 1 .. q + 1, NEW b \in Locked, t[j] = Unlock(b) PROVE reg[R(b, "lar")] = 1
      <4>1. j \in 1 .. q
        BY <1>1, <2>3, <3>2 DEF Unlock, Write
      <4> QED BY <1>1, <3>2, <4>1 DEF Unlocked
    <3> QED BY <1>1, <3>1, <3>2 DEF Holds, Unlocked
  <2> QED BY <1>1, <1>2, <1>3, <2>1, <2>2, <2>4, <2>5 DEF ArmInv, ArmedAsAsked
<1>4. CASE UNCHANGED todo /\ tries' \in 0 .. (PollTries - 1) /\ outcome' \in {"arming", "error"}
  <2>1. ArmTypes'
    BY <1>1, <1>4 DEF ArmTypes
  <2>2. Ahead' /\ s' = s /\ p' = p
    BY <1>1, <1>4 DEF Ahead, Commanded, Executed
  <2>3. Holds(s, p)' /\ Unlocked(s, p)'
    BY <1>1, <2>2 DEF Holds, Unlocked
  <2> QED BY <1>1, <1>2, <1>4, <2>1, <2>2, <2>3 DEF ArmInv, ArmedAsAsked, Arming
<1>5. \/ todo' = Tail(todo) /\ tries' = 0 /\ outcome' = outcome
      \/ UNCHANGED todo /\ tries' \in 0 .. (PollTries - 1) /\ outcome' \in {"arming", "error"}
  <2>1. PICK set \in BOOLEAN :
          \/ Advance /\ UNCHANGED outcome
          \/ PollEnds(set) = "again" /\ tries' = tries + 1 /\ UNCHANGED <<todo, outcome>>
          \/ outcome' = "error" /\ UNCHANGED <<todo, tries>>
    BY DEF PollOnce
  <2>2. CASE Advance /\ UNCHANGED outcome
    BY <2>2 DEF Advance
  <2>3. CASE PollEnds(set) = "again" /\ tries' = tries + 1 /\ UNCHANGED <<todo, outcome>>
    <3>1. tries + 1 < PollTries
      BY <2>3 DEF PollEnds
    <3> QED BY <1>1, <2>3, <3>1, ArmAssumption DEF ArmTypes
  <2>4. CASE outcome' = "error" /\ UNCHANGED <<todo, tries>>
    BY <1>1, <2>4 DEF ArmTypes
  <2> QED BY <2>1, <2>2, <2>3, <2>4
<1> QED BY <1>3, <1>4, <1>5

LEMMA FailsKeeps ==
  ASSUME ArmInv, Fails
  PROVE  ArmInv'
<1>1. /\ ArmTypes /\ Locks /\ Ahead /\ todo # <<>> /\ outcome' = "error"
      /\ UNCHANGED <<link, ask, todo, tries>>
  BY DEF ArmInv, Fails
<1>2. Locks' /\ reg' \in [Registers -> Nat] /\ core' \in {"running", "halted"}
  <2>1. CASE Effect
    BY <1>1, <2>1, EffectKeepsLocks
  <2>2. CASE UNCHANGED <<reg, core>>
    BY <1>1, <2>2 DEF Locks, ArmTypes
  <2> QED BY <2>1, <2>2 DEF Fails
<1> QED BY <1>1, <1>2 DEF ArmInv, ArmTypes, Arming, ArmedAsAsked

LEMMA LeftIsHeld ==
  ASSUME NEW s, Holds(s, Len(s)), NEW r, NEW v, Leaves(s, r, v), r[2] # "lar"
  PROVE  reg[r] = v
<1>1. PICK j \in 1 .. Len(s) :
        /\ WritesAt(s, j, r) /\ s[j].value = v /\ Spares(s, r, j + 1, Len(s))
        /\ v = 0 \/ Opened(s, j)
  BY DEF Leaves
<1>2. Lasts(s, Len(s), j) /\ s[j].reg = r
  BY <1>1 DEF Lasts, WritesAt
<1> QED BY <1>1, <1>2 DEF Holds

LEMMA DoneKeeps ==
  ASSUME ArmInv, Done
  PROVE  ArmInv'
<1> DEFINE s == Commanded
<1>1. /\ ArmTypes /\ Locks /\ Ahead /\ todo = <<>> /\ outcome' = "armed"
      /\ UNCHANGED <<reg, core, link, ask, todo, tries>>
  BY DEF ArmInv, Done
<1>2. ArmTypes' /\ Locks' /\ ~Arming'
  BY <1>1 DEF ArmTypes, Locks, Arming
<1>3. Len(todo) = 0 /\ Executed = Len(s) /\ Holds(s, Len(s)) /\ \A i \in 1 .. Len(s) : s[i].do # "raise"
  <2>1. Len(todo) = 0 /\ Len(s) \in Nat
    BY <1>1, SequenceShape DEF Shaped, Commanded, ArmTypes
  <2>2. Executed = Len(s) /\ Answering /\ Arming
    BY <2>1 DEF Executed, Answering, Done
  <2> QED BY <1>1, <2>1, <2>2 DEF ArmInv, Ahead
<1>4. Armed(s, ask)
  BY <1>1, <1>3, SequenceShape DEF ArmTypes, Commanded
<1>5. \A r, v : Leaves(s, r, v) /\ r[2] # "lar" => reg[r] = v
  BY <1>3, LeftIsHeld
<1>6. /\ \A b, n : R(b, n)[2] = n
      /\ \A n, i : Comp(n, i)[2] = n
  BY DEF R, Comp
<1>7. ArmedAsAsked'
  <2>1. ASSUME NEW i \in Comparators
        PROVE  IF i <= Len(ask.watches)
               THEN reg[Comp("function", i)] = 1 /\ reg[Comp("comp", i)] = ask.watches[i]
               ELSE reg[Comp("function", i)] = 0
    BY <1>4, <1>5, <1>6 DEF Armed, Slot
  <2>2. reg[R("etm", "ctl")] = IF ask.etm THEN 1 ELSE 0
    BY <1>4, <1>5, <1>6 DEF Armed
  <2>3. \A b \in {"chip", "tpiu", "funnel", "etf", "itm", "dwt"} : reg[R(b, "config")] = 1
    BY <1>4, <1>5, <1>6 DEF Armed
  <2>4. \A b \in {"chip", "funnel", "etf", "itm"} : reg[R(b, "ctl")] = 1
    BY <1>4, <1>5, <1>6 DEF Armed
  <2>5. ask.etm => reg[R("etm", "power")] = 1 /\ reg[R("etm", "config")] = 1
    BY <1>4, <1>5, <1>6 DEF Armed
  <2> QED BY <1>1, <2>1, <2>2, <2>3, <2>4, <2>5 DEF ArmedAsAsked
<1> QED BY <1>2, <1>7 DEF ArmInv

LEMMA HangupKeeps ==
  ASSUME ArmInv, Hangup
  PROVE  ArmInv'
<1>1. /\ ArmTypes /\ Locks /\ Ahead /\ link = "up" /\ link' = "closed" /\ outcome = "arming"
      /\ UNCHANGED <<reg, core, ask, todo, tries, outcome>>
      /\ Holds(Commanded, Executed) /\ Unlocked(Commanded, Executed)
  BY DEF ArmInv, Hangup, Arming, Answering
<1>2. ArmTypes' /\ Locks' /\ Ahead' /\ Commanded' = Commanded /\ Executed' = Executed
  BY <1>1 DEF ArmTypes, Locks, Ahead, Commanded, Executed
<1>3. Holds(Commanded, Executed)' /\ Unlocked(Commanded, Executed)'
  BY <1>1, <1>2 DEF Holds, Unlocked
<1> QED BY <1>1, <1>2, <1>3 DEF ArmInv, ArmedAsAsked

LEMMA ResetKeeps ==
  ASSUME ArmInv, SystemReset \/ PowerCycle
  PROVE  ArmInv'
<1>1. ArmTypes /\ Locks /\ outcome' = "none" /\ core' = "running" /\ UNCHANGED <<link, ask, todo, tries>>
  BY DEF ArmInv, SystemReset, PowerCycle
<1>2. reg' \in [Registers -> Nat] /\ Locks'
  <2>1. CASE PowerCycle
    <3>1. reg' = AtPowerUp
      BY <2>1 DEF PowerCycle
    <3>2. AtPowerUp \in [Registers -> Nat]
      BY DEF AtPowerUp
    <3> QED BY <3>1, <3>2, RegistersHaveLocks DEF Locks, AtPowerUp, Registers, R, Comp, Locked
  <2>2. CASE SystemReset
    <3> DEFINE c == R("chip", "config")
    <3>1. c \in Registers /\ c[2] # "lar"
      BY DEF Registers, R
    <3>2. reg' = [reg EXCEPT ![c] = 0]
      BY <2>2 DEF SystemReset
    <3>3. reg' \in [Registers -> Nat] /\ \A r \in Registers : reg'[r] = IF r = c THEN 0 ELSE reg[r]
      BY <1>1, <3>1, <3>2 DEF ArmTypes
    <3> HIDE DEF c
    <3>4. ASSUME NEW r \in Registers PROVE r[2] = "lar" => reg'[r] \in {0, 1}
      BY <1>1, <3>1, <3>3 DEF Locks
    <3>5. ASSUME NEW r \in Registers, reg'[R(r[1], "lar")] = 0 PROVE r[1] \in Locked /\ reg'[r] = 0
      <4>1. reg[R(r[1], "lar")] = 0
        BY <3>1, <3>3, <3>5, RegistersHaveLocks
      <4> QED BY <1>1, <3>3, <4>1 DEF Locks
    <3> QED BY <3>3, <3>4, <3>5 DEF Locks
  <2> QED BY <2>1, <2>2
<1> QED BY <1>1, <1>2 DEF ArmInv, ArmTypes, Arming, ArmedAsAsked

LEMMA ArmStepKeeps == ArmInv /\ [ArmNext]_armVars => ArmInv'
<1> SUFFICES ASSUME ArmInv, [ArmNext]_armVars PROVE ArmInv'
  OBVIOUS
<1>1. CASE \E a \in Asks : Arm(a)
  BY <1>1, ArmStarts
<1>2. CASE Work
  BY <1>2, AnsweredKeeps, TakenForAnsweredKeeps, PollOnceKeeps, FailsKeeps, DoneKeeps DEF Work
<1>3. CASE Hangup
  BY <1>3, HangupKeeps
<1>4. CASE SystemReset \/ PowerCycle
  BY <1>4, ResetKeeps
<1>5. CASE UNCHANGED armVars
  <2>1. UNCHANGED <<reg, core, link, ask, todo, tries, outcome>>
    BY <1>5 DEF armVars
  <2>2. ArmTypes' = ArmTypes /\ Locks' = Locks /\ Ahead' = Ahead /\ ArmedAsAsked' = ArmedAsAsked
    BY <2>1 DEF ArmTypes, Locks, Ahead, ArmedAsAsked, Commanded, Executed
  <2>3. Holds(Commanded, Executed)' = Holds(Commanded, Executed)
    BY <2>1 DEF Holds, Commanded, Executed
  <2>4. Unlocked(Commanded, Executed)' = Unlocked(Commanded, Executed)
    BY <2>1 DEF Unlocked, Commanded, Executed
  <2> QED BY <2>1, <2>2, <2>3, <2>4 DEF ArmInv, Arming, Answering, Executed, Commanded
<1> QED BY <1>1, <1>2, <1>3, <1>4, <1>5 DEF ArmNext

LEMMA ArmInvariant == ArmSpec => []ArmInv
<1>1. ArmInit => ArmInv
  BY ArmInitInv
<1>2. ArmInv /\ [ArmNext]_armVars => ArmInv'
  BY ArmStepKeeps
<1> QED BY <1>1, <1>2, PTL DEF ArmSpec

(* Types, and what is still to do is the end of the sequence asked for         *)
(* (trace_arm.py runs it from the top and never goes back).                    *)
THEOREM ArmTypeCorrect == ArmSpec => []ArmTypeOK
<1>1. ArmInv => ArmTypeOK
  <2> SUFFICES ASSUME ArmInv, Arming PROVE IsSuffix(todo, Sequence(ask))
    BY DEF ArmInv, ArmTypes, ArmTypeOK
  <2>1. Ahead /\ Sequence(ask) \in Seq(Commands)
    BY SequenceShape DEF ArmInv, ArmTypes, Shaped
  <2> QED BY <2>1, SuffixIs DEF Ahead, Commanded, Executed
<1> QED BY <1>1, ArmInvariant, PTL

(* A success of `cortrace arm` means a target armed exactly as asked, for any  *)
(* number of comparators and variables and whatever earlier sessions left.     *)
THEOREM ArmedExactly == ArmSpec => []ArmedAsAsked
<1>1. ArmInv => ArmedAsAsked
  BY DEF ArmInv
<1> QED BY <1>1, ArmInvariant, PTL

LEMMA OffIsHeld ==
  ASSUME NEW s, NEW p \in Nat, Holds(s, p), NEW r, OffBefore(s, p + 1, r), r[2] # "lar"
  PROVE  reg[r] = 0
<1>1. PICK k \in 1 .. (p + 1) - 1 : WritesAt(s, k, r) /\ s[k].value = 0 /\ Spares(s, r, k + 1, (p + 1) - 1)
  BY DEF OffBefore
<1>2. (p + 1) - 1 = p
  OBVIOUS
<1>3. Lasts(s, p, k) /\ s[k].reg = r /\ k \in 1 .. p
  BY <1>1, <1>2 DEF Lasts, WritesAt
<1> QED BY <1>1, <1>3 DEF Holds

(* A comparator, the FIFO and the ETM are set up only while they are off, with *)
(* the core halted, also when earlier sessions left them on.                   *)
THEOREM SetUpOff == ArmSpec => []SetUpWhileOff
<1>1. ArmInv => SetUpWhileOff
  <2> SUFFICES ASSUME ArmInv, Is("write"), link = "up"
               PROVE  /\ core = "halted"
                      /\ \A i \in Comparators : Command.reg = Comp("comp", i) => reg[Comp("function", i)] = 0
                      /\ \A b \in {"etf", "etm"} : Command.reg = R(b, "config") => reg[R(b, "ctl")] = 0
    BY DEF SetUpWhileOff
  <2> DEFINE s == Commanded
             p == Executed
  <2>1. /\ ArmTypes /\ Ahead /\ todo # <<>> /\ Arming /\ Command.do = "write" /\ Holds(s, p)
    BY DEF ArmInv, Is, Answering
  <2>2. /\ p \in Nat /\ p + 1 \in 1 .. Len(s) /\ Command = s[p + 1] /\ Shaped(s)
    BY <2>1, CommandIsNext
  <2>3. p # 0
    BY <2>1, <2>2 DEF Shaped
  <2>4. core = "halted"
    BY <2>1, <2>2, <2>3 DEF ArmInv
  <2>5. \A r : Command.reg = r => WritesAt(s, p + 1, r)
    BY <2>1, <2>2 DEF WritesAt
  <2>6. /\ \A b, n : R(b, n)[2] = n
        /\ \A n, i : Comp(n, i)[2] = n
    BY DEF R, Comp
  <2>7. ASSUME NEW i \in Comparators, Command.reg = Comp("comp", i) PROVE reg[Comp("function", i)] = 0
    <3>1. OffBefore(s, p + 1, Comp("function", i))
      BY <2>2, <2>5, <2>7 DEF Shaped, Guarded
    <3> QED BY <2>1, <2>2, <2>6, <3>1, OffIsHeld
  <2>8. ASSUME NEW b \in {"etf", "etm"}, Command.reg = R(b, "config") PROVE reg[R(b, "ctl")] = 0
    <3>1. OffBefore(s, p + 1, R(b, "ctl"))
      BY <2>2, <2>5, <2>8 DEF Shaped, Guarded
    <3> QED BY <2>1, <2>2, <2>6, <3>1, OffIsHeld
  <2> QED BY <2>4, <2>7, <2>8
<1> QED BY <1>1, ArmInvariant, PTL

------------------------------------------------------------------------------
\* wsrelay.py.

Places == {"receive", "lock", "send", "forward", "end", "closed"}
Frames == [kind : {"answer", "ping", "close"}, number : Nat]
RelayTypes ==
  /\ ui \in {"open", "closing", "left"} /\ bridge \in {"open", "closed"}
  /\ asked \in Seq({"data", "ping", "close"}) /\ answers \in Seq(Nat)
  /\ shown \in Seq([frame : Frames, part : 1 .. 2])
  /\ bridgeSent \in Nat
  /\ at \in [Senders -> Places] /\ sending \in [Senders -> Frames \cup {None}]
  /\ part \in [Senders -> 1 .. 2]
  /\ sendLock \in Senders \cup {None} /\ reading \in BOOLEAN /\ refused \in BOOLEAN

\* The lock is held by the thread that sends; what it sends was put there before.
Busy(t) == at[t] \in {"lock", "send"}
OneSender == \A t \in Senders :
  /\ at[t] = "send" <=> sendLock = t
  /\ at[t] # "send" => part[t] = 1
  /\ Busy(t) => sending[t] \in Frames

\* The last piece shown is half a frame only while its sender sends, or nobody can any more.
Newest == shown[Len(shown)]
Halved(t) == at[t] = "send" /\ part[t] = 2
Halves ==
  /\ \A t \in Senders : Halved(t) => shown # <<>> /\ Newest = PieceOf(sending[t], 1)
  /\ shown # <<>> /\ Newest.part = 1 => (\E t \in Senders : Halved(t)) \/ ui = "left" \/ Closed
Unbroken ==
  \A i \in DOMAIN shown :
    IF shown[i].part = 1 THEN i > 1 => shown[i - 1].part = Parts
    ELSE i > 1 /\ shown[i - 1] = PieceOf(shown[i].frame, shown[i].part - 1)

\* The chunks received are 1 .. Received; those in the buffer are the next ones.
Received == bridgeSent - Len(answers)
Numbered ==
  /\ Received \in Nat
  /\ \A i \in DOMAIN answers : answers[i] = Received + i
  /\ Busy("pump") => Received >= 1 /\ sending["pump"] = Frame("answer", Received)
  /\ Busy("serve") => sending["serve"].kind \in {"ping", "close"}

\* What has been shown: all that was received before the answer that pump is about to send.
Pumping == at["pump"] \in {"receive", "lock", "send"}
Taken == IF Busy("pump") THEN Received - 1 ELSE Received
Complete == Pumping => \A n \in 1 .. Taken : ShownBefore(n, Len(shown) + 1)
NoneAhead ==
  Pumping => \A j \in DOMAIN shown : IsAnswer(j) =>
    shown[j].frame.number <= Taken \/ (Halved("pump") /\ j = Len(shown))
Ordered ==
  \A i \in DOMAIN shown : IsAnswer(i) =>
    /\ \A j \in 1 .. i - 1 : IsAnswer(j) => Precedes(j, i)
    /\ \A n \in 1 .. shown[i].frame.number - 1 : ShownBefore(n, i)

\* Why the threads end, as long as the browser has neither closed nor left.
Willing == ui = "open" /\ ~refused
Teardown ==
  /\ ui = "open" => \A i \in DOMAIN asked : asked[i] # "close"
  /\ ui = "open" /\ Busy("serve") => sending["serve"].kind # "close"
  /\ reading \/ at["pump"] = "closed"
  /\ Willing /\ at["serve"] \in {"end", "closed"} => ~reading
  /\ Willing /\ at["pump"] \in {"end", "closed"} =>
       /\ answers = <<>> /\ bridge = "closed"
       /\ \A n \in 1 .. bridgeSent : ShownBefore(n, Len(shown) + 1)

RelayInv ==
  /\ RelayTypes /\ OneSender /\ Halves /\ Unbroken /\ Numbered
  /\ Complete /\ NoneAhead /\ Ordered /\ Teardown

(* What a sequence holds is in the set it is over.                            *)
LEMMA ElementOfSeq ==
  ASSUME NEW S, NEW s \in Seq(S), NEW i \in 1 .. Len(s)
  PROVE  s[i] \in S
OBVIOUS

(* A step that shows nothing leaves what was shown as it is.                  *)
LEMMA ShownStays ==
  ASSUME UNCHANGED shown
  PROVE  /\ \A n, i : ShownBefore(n, i)' <=> ShownBefore(n, i)
         /\ Unbroken => Unbroken'
         /\ Ordered => Ordered'
<1>1. \A n, i : ShownBefore(n, i)' <=> ShownBefore(n, i)
  BY DEF ShownBefore
<1>2. Unbroken => Unbroken'
  BY DEF Unbroken
<1>3. \A i, j : Precedes(i, j)' <=> Precedes(i, j)
  BY DEF Precedes
<1>4. \A i : IsAnswer(i)' <=> IsAnswer(i)
  BY DEF IsAnswer
<1>5. Ordered => Ordered'
  BY <1>1, <1>3, <1>4 DEF Ordered
<1> QED BY <1>1, <1>2, <1>5

LEMMA UiSendsKeeps ==
  ASSUME RelayInv, NEW kind \in {"data", "ping", "close"}, UiSends(kind)
  PROVE  RelayInv'
<1>0. UNCHANGED shown
  BY DEF UiSends, ends, buffers
<1>1. RelayTypes'
  BY NoneAssumption DEF RelayInv, UiSends, ends, buffers, threads, Goto, RelayTypes,
     OneSender, Busy, Places, Frames, Frame, Senders
<1>2. OneSender'
  BY NoneAssumption DEF RelayInv, UiSends, ends, buffers, threads, Goto, RelayTypes,
     OneSender, Busy, Places, Frames, Frame, Senders
<1>3. Halves'
  BY NoneAssumption DEF RelayInv, UiSends, ends, buffers, threads, Goto, RelayTypes,
     OneSender, Busy, Halves, Newest, Halved, Places, Senders, Closed
<1>4. Unbroken'
  BY <1>0, ShownStays DEF RelayInv
<1>5. Numbered'
  BY NoneAssumption DEF RelayInv, UiSends, ends, buffers, threads, Goto, RelayTypes,
     OneSender, Numbered, Received, Busy, Places, Frame, Senders
<1>6. Complete'
  BY <1>0, ShownStays, NoneAssumption DEF RelayInv, UiSends, ends, buffers, threads, Goto,
     RelayTypes, Numbered, Received, Complete, Taken, Pumping, Busy, Senders
<1>7. NoneAhead'
  BY NoneAssumption DEF RelayInv, UiSends, ends, buffers, threads, Goto, RelayTypes,
     OneSender, Numbered, Received, NoneAhead, Taken, Pumping, Halved, Busy, IsAnswer,
     Senders
<1>8. Ordered'
  BY <1>0, ShownStays DEF RelayInv
<1>9. Teardown'
  BY <1>0, ShownStays, NoneAssumption DEF RelayInv, UiSends, ends, buffers, threads, Goto,
     RelayTypes, OneSender, Numbered, Received, Complete, Taken, Pumping, Teardown, Willing,
     Busy, Frame, Places, Senders, Closed
<1> QED BY <1>1, <1>2, <1>3, <1>4, <1>5, <1>6, <1>7, <1>8, <1>9 DEF RelayInv

LEMMA UiReadsKeeps ==
  ASSUME RelayInv, UiReads
  PROVE  RelayInv'
<1>0. UNCHANGED shown
  BY DEF UiReads, ends, buffers
<1>1. RelayTypes'
  BY NoneAssumption DEF RelayInv, UiReads, ends, buffers, threads, Goto, RelayTypes,
     OneSender, Busy, Places, Frames, Frame, Senders
<1>2. OneSender'
  BY NoneAssumption DEF RelayInv, UiReads, ends, buffers, threads, Goto, RelayTypes,
     OneSender, Busy, Places, Frames, Frame, Senders
<1>3. Halves'
  BY NoneAssumption DEF RelayInv, UiReads, ends, buffers, threads, Goto, RelayTypes,
     OneSender, Busy, Halves, Newest, Halved, Places, Senders, Closed
<1>4. Unbroken'
  BY <1>0, ShownStays DEF RelayInv
<1>5. Numbered'
  BY NoneAssumption DEF RelayInv, UiReads, ends, buffers, threads, Goto, RelayTypes,
     OneSender, Numbered, Received, Busy, Places, Frame, Senders
<1>6. Complete'
  BY <1>0, ShownStays, NoneAssumption DEF RelayInv, UiReads, ends, buffers, threads, Goto,
     RelayTypes, Numbered, Received, Complete, Taken, Pumping, Busy, Senders
<1>7. NoneAhead'
  BY NoneAssumption DEF RelayInv, UiReads, ends, buffers, threads, Goto, RelayTypes,
     OneSender, Numbered, Received, NoneAhead, Taken, Pumping, Halved, Busy, IsAnswer,
     Senders
<1>8. Ordered'
  BY <1>0, ShownStays DEF RelayInv
<1>9. Teardown'
  BY <1>0, ShownStays, NoneAssumption DEF RelayInv, UiReads, ends, buffers, threads, Goto,
     RelayTypes, OneSender, Numbered, Received, Complete, Taken, Pumping, Teardown, Willing,
     Busy, Frame, Places, Senders, Closed
<1> QED BY <1>1, <1>2, <1>3, <1>4, <1>5, <1>6, <1>7, <1>8, <1>9 DEF RelayInv

LEMMA UiLeavesKeeps ==
  ASSUME RelayInv, UiLeaves
  PROVE  RelayInv'
<1>0. UNCHANGED shown
  BY DEF UiLeaves, ends, buffers
<1>1. RelayTypes'
  BY NoneAssumption DEF RelayInv, UiLeaves, ends, buffers, threads, Goto, RelayTypes,
     OneSender, Busy, Places, Frames, Frame, Senders
<1>2. OneSender'
  BY NoneAssumption DEF RelayInv, UiLeaves, ends, buffers, threads, Goto, RelayTypes,
     OneSender, Busy, Places, Frames, Frame, Senders
<1>3. Halves'
  BY NoneAssumption DEF RelayInv, UiLeaves, ends, buffers, threads, Goto, RelayTypes,
     OneSender, Busy, Halves, Newest, Halved, Places, Senders, Closed
<1>4. Unbroken'
  BY <1>0, ShownStays DEF RelayInv
<1>5. Numbered'
  BY NoneAssumption DEF RelayInv, UiLeaves, ends, buffers, threads, Goto, RelayTypes,
     OneSender, Numbered, Received, Busy, Places, Frame, Senders
<1>6. Complete'
  BY <1>0, ShownStays, NoneAssumption DEF RelayInv, UiLeaves, ends, buffers, threads,
     Goto, RelayTypes, Numbered, Received, Complete, Taken, Pumping, Busy, Senders
<1>7. NoneAhead'
  BY NoneAssumption DEF RelayInv, UiLeaves, ends, buffers, threads, Goto, RelayTypes,
     OneSender, Numbered, Received, NoneAhead, Taken, Pumping, Halved, Busy, IsAnswer,
     Senders
<1>8. Ordered'
  BY <1>0, ShownStays DEF RelayInv
<1>9. Teardown'
  BY <1>0, ShownStays, NoneAssumption DEF RelayInv, UiLeaves, ends, buffers, threads,
     Goto, RelayTypes, OneSender, Numbered, Received, Complete, Taken, Pumping, Teardown,
     Willing, Busy, Frame, Places, Senders, Closed
<1> QED BY <1>1, <1>2, <1>3, <1>4, <1>5, <1>6, <1>7, <1>8, <1>9 DEF RelayInv

LEMMA BridgeSendsKeeps ==
  ASSUME RelayInv, BridgeSends
  PROVE  RelayInv'
<1>0. UNCHANGED shown
  BY DEF BridgeSends, ends, buffers
<1>1. RelayTypes'
  BY NoneAssumption DEF RelayInv, BridgeSends, ends, buffers, threads, Goto, RelayTypes,
     OneSender, Busy, Places, Frames, Frame, Senders
<1>2. OneSender'
  BY NoneAssumption DEF RelayInv, BridgeSends, ends, buffers, threads, Goto, RelayTypes,
     OneSender, Busy, Places, Frames, Frame, Senders
<1>3. Halves'
  BY NoneAssumption DEF RelayInv, BridgeSends, ends, buffers, threads, Goto, RelayTypes,
     OneSender, Busy, Halves, Newest, Halved, Places, Senders, Closed
<1>4. Unbroken'
  BY <1>0, ShownStays DEF RelayInv
<1>5. Numbered'
  <2>1. /\ Len(answers') = Len(answers) + 1
        /\ \A i \in 1 .. Len(answers) : answers'[i] = answers[i]
        /\ answers'[Len(answers) + 1] = bridgeSent + 1
        /\ DOMAIN answers' = 1 .. Len(answers) + 1
    BY DEF RelayInv, RelayTypes, BridgeSends
  <2>2. Received' = Received /\ bridgeSent = Received + Len(answers) /\ Len(answers) \in Nat
    BY <2>1 DEF RelayInv, RelayTypes, Received, BridgeSends
  <2>3. \A i \in DOMAIN answers' : answers'[i] = Received + i
    <3>1. DOMAIN answers = 1 .. Len(answers) /\ Received \in Nat
      BY DEF RelayInv, RelayTypes, Numbered
    <3>2. \A i \in 1 .. Len(answers) : answers'[i] = Received + i
      BY <2>1, <3>1 DEF RelayInv, Numbered
    <3>3. answers'[Len(answers) + 1] = Received + (Len(answers) + 1)
      BY <2>1, <2>2, <3>1
    <3> QED BY <2>1, <2>2, <3>2, <3>3
  <2> QED
    BY <2>2, <2>3 DEF RelayInv, Numbered, Busy, BridgeSends, threads
<1>6. Complete'
  BY <1>0, ShownStays, NoneAssumption DEF RelayInv, BridgeSends, ends, buffers, threads,
     Goto, RelayTypes, Numbered, Received, Complete, Taken, Pumping, Busy, Senders
<1>7. NoneAhead'
  BY NoneAssumption DEF RelayInv, BridgeSends, ends, buffers, threads, Goto, RelayTypes,
     OneSender, Numbered, Received, NoneAhead, Taken, Pumping, Halved, Busy, IsAnswer,
     Senders
<1>8. Ordered'
  BY <1>0, ShownStays DEF RelayInv
<1>9. Teardown'
  BY <1>0, ShownStays, NoneAssumption DEF RelayInv, BridgeSends, ends, buffers, threads,
     Goto, RelayTypes, OneSender, Numbered, Received, Complete, Taken, Pumping, Teardown,
     Willing, Busy, Frame, Places, Senders, Closed
<1> QED BY <1>1, <1>2, <1>3, <1>4, <1>5, <1>6, <1>7, <1>8, <1>9 DEF RelayInv

LEMMA BridgeReadsKeeps ==
  ASSUME RelayInv, BridgeReads
  PROVE  RelayInv'
<1>0. UNCHANGED shown
  BY DEF BridgeReads, ends, buffers
<1>1. RelayTypes'
  BY NoneAssumption DEF RelayInv, BridgeReads, ends, buffers, threads, Goto, RelayTypes,
     OneSender, Busy, Places, Frames, Frame, Senders
<1>2. OneSender'
  BY NoneAssumption DEF RelayInv, BridgeReads, ends, buffers, threads, Goto, RelayTypes,
     OneSender, Busy, Places, Frames, Frame, Senders
<1>3. Halves'
  BY NoneAssumption DEF RelayInv, BridgeReads, ends, buffers, threads, Goto, RelayTypes,
     OneSender, Busy, Halves, Newest, Halved, Places, Senders, Closed
<1>4. Unbroken'
  BY <1>0, ShownStays DEF RelayInv
<1>5. Numbered'
  BY NoneAssumption DEF RelayInv, BridgeReads, ends, buffers, threads, Goto, RelayTypes,
     OneSender, Numbered, Received, Busy, Places, Frame, Senders
<1>6. Complete'
  BY <1>0, ShownStays, NoneAssumption DEF RelayInv, BridgeReads, ends, buffers, threads,
     Goto, RelayTypes, Numbered, Received, Complete, Taken, Pumping, Busy, Senders
<1>7. NoneAhead'
  BY NoneAssumption DEF RelayInv, BridgeReads, ends, buffers, threads, Goto, RelayTypes,
     OneSender, Numbered, Received, NoneAhead, Taken, Pumping, Halved, Busy, IsAnswer,
     Senders
<1>8. Ordered'
  BY <1>0, ShownStays DEF RelayInv
<1>9. Teardown'
  BY <1>0, ShownStays, NoneAssumption DEF RelayInv, BridgeReads, ends, buffers, threads,
     Goto, RelayTypes, OneSender, Numbered, Received, Complete, Taken, Pumping, Teardown,
     Willing, Busy, Frame, Places, Senders, Closed
<1> QED BY <1>1, <1>2, <1>3, <1>4, <1>5, <1>6, <1>7, <1>8, <1>9 DEF RelayInv

LEMMA BridgeClosesKeeps ==
  ASSUME RelayInv, BridgeCloses
  PROVE  RelayInv'
<1>0. UNCHANGED shown
  BY DEF BridgeCloses, ends, buffers
<1>1. RelayTypes'
  BY NoneAssumption DEF RelayInv, BridgeCloses, ends, buffers, threads, Goto, RelayTypes,
     OneSender, Busy, Places, Frames, Frame, Senders
<1>2. OneSender'
  BY NoneAssumption DEF RelayInv, BridgeCloses, ends, buffers, threads, Goto, RelayTypes,
     OneSender, Busy, Places, Frames, Frame, Senders
<1>3. Halves'
  BY NoneAssumption DEF RelayInv, BridgeCloses, ends, buffers, threads, Goto, RelayTypes,
     OneSender, Busy, Halves, Newest, Halved, Places, Senders, Closed
<1>4. Unbroken'
  BY <1>0, ShownStays DEF RelayInv
<1>5. Numbered'
  BY NoneAssumption DEF RelayInv, BridgeCloses, ends, buffers, threads, Goto, RelayTypes,
     OneSender, Numbered, Received, Busy, Places, Frame, Senders
<1>6. Complete'
  BY <1>0, ShownStays, NoneAssumption DEF RelayInv, BridgeCloses, ends, buffers, threads,
     Goto, RelayTypes, Numbered, Received, Complete, Taken, Pumping, Busy, Senders
<1>7. NoneAhead'
  BY NoneAssumption DEF RelayInv, BridgeCloses, ends, buffers, threads, Goto, RelayTypes,
     OneSender, Numbered, Received, NoneAhead, Taken, Pumping, Halved, Busy, IsAnswer,
     Senders
<1>8. Ordered'
  BY <1>0, ShownStays DEF RelayInv
<1>9. Teardown'
  BY <1>0, ShownStays, NoneAssumption DEF RelayInv, BridgeCloses, ends, buffers, threads,
     Goto, RelayTypes, OneSender, Numbered, Received, Complete, Taken, Pumping, Teardown,
     Willing, Busy, Frame, Places, Senders, Closed
<1> QED BY <1>1, <1>2, <1>3, <1>4, <1>5, <1>6, <1>7, <1>8, <1>9 DEF RelayInv

LEMMA TakeLockKeeps ==
  ASSUME RelayInv, NEW t \in Senders, TakeLock(t)
  PROVE  RelayInv'
<1>0. UNCHANGED shown
  BY DEF TakeLock, ends, buffers
<1>1. RelayTypes'
  BY NoneAssumption DEF RelayInv, TakeLock, ends, buffers, threads, Goto, RelayTypes,
     OneSender, Busy, Places, Frames, Frame, Senders
<1>2. OneSender'
  BY NoneAssumption DEF RelayInv, TakeLock, ends, buffers, threads, Goto, RelayTypes,
     OneSender, Busy, Places, Frames, Frame, Senders
<1>3. Halves'
  BY NoneAssumption DEF RelayInv, TakeLock, ends, buffers, threads, Goto, RelayTypes,
     OneSender, Busy, Halves, Newest, Halved, Places, Senders, Closed
<1>4. Unbroken'
  BY <1>0, ShownStays DEF RelayInv
<1>5. Numbered'
  BY NoneAssumption DEF RelayInv, TakeLock, ends, buffers, threads, Goto, RelayTypes,
     OneSender, Numbered, Received, Busy, Places, Frame, Senders
<1>6. Complete'
  BY <1>0, ShownStays, NoneAssumption DEF RelayInv, TakeLock, ends, buffers, threads,
     Goto, RelayTypes, Numbered, Received, Complete, Taken, Pumping, Busy, Senders
<1>7. NoneAhead'
  BY NoneAssumption DEF RelayInv, TakeLock, ends, buffers, threads, Goto, RelayTypes,
     OneSender, Numbered, Received, NoneAhead, Taken, Pumping, Halved, Busy, IsAnswer,
     Senders
<1>8. Ordered'
  BY <1>0, ShownStays DEF RelayInv
<1>9. Teardown'
  BY <1>0, ShownStays, NoneAssumption DEF RelayInv, TakeLock, ends, buffers, threads,
     Goto, RelayTypes, OneSender, Numbered, Received, Complete, Taken, Pumping, Teardown,
     Willing, Busy, Frame, Places, Senders, Closed
<1> QED BY <1>1, <1>2, <1>3, <1>4, <1>5, <1>6, <1>7, <1>8, <1>9 DEF RelayInv

LEMMA SendFailsKeeps ==
  ASSUME RelayInv, NEW t \in Senders, SendFails(t)
  PROVE  RelayInv'
<1>0. UNCHANGED shown
  BY DEF SendFails, ends, buffers
<1>1. RelayTypes'
  BY NoneAssumption DEF RelayInv, SendFails, ends, buffers, threads, Goto, RelayTypes,
     OneSender, Busy, Places, Frames, Frame, Senders
<1>2. OneSender'
  BY NoneAssumption DEF RelayInv, SendFails, ends, buffers, threads, Goto, RelayTypes,
     OneSender, Busy, Places, Frames, Frame, Senders
<1>3. Halves'
  BY NoneAssumption DEF RelayInv, SendFails, ends, buffers, threads, Goto, RelayTypes,
     OneSender, Busy, Halves, Newest, Halved, Places, Senders, Closed
<1>4. Unbroken'
  BY <1>0, ShownStays DEF RelayInv
<1>5. Numbered'
  BY NoneAssumption DEF RelayInv, SendFails, ends, buffers, threads, Goto, RelayTypes,
     OneSender, Numbered, Received, Busy, Places, Frame, Senders
<1>6. Complete'
  BY <1>0, ShownStays, NoneAssumption DEF RelayInv, SendFails, ends, buffers, threads,
     Goto, RelayTypes, Numbered, Received, Complete, Taken, Pumping, Busy, Senders
<1>7. NoneAhead'
  BY NoneAssumption DEF RelayInv, SendFails, ends, buffers, threads, Goto, RelayTypes,
     OneSender, Numbered, Received, NoneAhead, Taken, Pumping, Halved, Busy, IsAnswer,
     Senders
<1>8. Ordered'
  BY <1>0, ShownStays DEF RelayInv
<1>9. Teardown'
  BY <1>0, ShownStays, NoneAssumption DEF RelayInv, SendFails, ends, buffers, threads,
     Goto, RelayTypes, OneSender, Numbered, Received, Complete, Taken, Pumping, Teardown,
     Willing, Busy, Frame, Places, Senders, Closed
<1> QED BY <1>1, <1>2, <1>3, <1>4, <1>5, <1>6, <1>7, <1>8, <1>9 DEF RelayInv

LEMMA ServeReadsKeeps ==
  ASSUME RelayInv, ServeReads
  PROVE  RelayInv'
<1>0. UNCHANGED shown
  BY DEF ServeReads, ends, buffers
<1>1. RelayTypes'
  BY NoneAssumption DEF RelayInv, ServeReads, ends, buffers, threads, Goto, RelayTypes,
     OneSender, Busy, Places, Frames, Frame, Senders
<1>2. OneSender'
  BY NoneAssumption DEF RelayInv, ServeReads, ends, buffers, threads, Goto, RelayTypes,
     OneSender, Busy, Places, Frames, Frame, Senders
<1>3. Halves'
  BY NoneAssumption DEF RelayInv, ServeReads, ends, buffers, threads, Goto, RelayTypes,
     OneSender, Busy, Halves, Newest, Halved, Places, Senders, Closed
<1>4. Unbroken'
  BY <1>0, ShownStays DEF RelayInv
<1>5. Numbered'
  BY NoneAssumption DEF RelayInv, ServeReads, ends, buffers, threads, Goto, RelayTypes,
     OneSender, Numbered, Received, Busy, Places, Frame, Senders
<1>6. Complete'
  BY <1>0, ShownStays, NoneAssumption DEF RelayInv, ServeReads, ends, buffers, threads,
     Goto, RelayTypes, Numbered, Received, Complete, Taken, Pumping, Busy, Senders
<1>7. NoneAhead'
  BY NoneAssumption DEF RelayInv, ServeReads, ends, buffers, threads, Goto, RelayTypes,
     OneSender, Numbered, Received, NoneAhead, Taken, Pumping, Halved, Busy, IsAnswer,
     Senders
<1>8. Ordered'
  BY <1>0, ShownStays DEF RelayInv
<1>9. Teardown'
  BY <1>0, ShownStays, NoneAssumption DEF RelayInv, ServeReads, ends, buffers, threads,
     Goto, RelayTypes, OneSender, Numbered, Received, Complete, Taken, Pumping, Teardown,
     Willing, Busy, Frame, Places, Senders, Closed
<1> QED BY <1>1, <1>2, <1>3, <1>4, <1>5, <1>6, <1>7, <1>8, <1>9 DEF RelayInv

LEMMA ServeReadsEndKeeps ==
  ASSUME RelayInv, ServeReadsEnd
  PROVE  RelayInv'
<1>0. UNCHANGED shown
  BY DEF ServeReadsEnd, ends, buffers
<1>1. RelayTypes'
  BY NoneAssumption DEF RelayInv, ServeReadsEnd, ends, buffers, threads, Goto, RelayTypes,
     OneSender, Busy, Places, Frames, Frame, Senders
<1>2. OneSender'
  BY NoneAssumption DEF RelayInv, ServeReadsEnd, ends, buffers, threads, Goto, RelayTypes,
     OneSender, Busy, Places, Frames, Frame, Senders
<1>3. Halves'
  BY NoneAssumption DEF RelayInv, ServeReadsEnd, ends, buffers, threads, Goto, RelayTypes,
     OneSender, Busy, Halves, Newest, Halved, Places, Senders, Closed
<1>4. Unbroken'
  BY <1>0, ShownStays DEF RelayInv
<1>5. Numbered'
  BY NoneAssumption DEF RelayInv, ServeReadsEnd, ends, buffers, threads, Goto, RelayTypes,
     OneSender, Numbered, Received, Busy, Places, Frame, Senders
<1>6. Complete'
  BY <1>0, ShownStays, NoneAssumption DEF RelayInv, ServeReadsEnd, ends, buffers, threads,
     Goto, RelayTypes, Numbered, Received, Complete, Taken, Pumping, Busy, Senders
<1>7. NoneAhead'
  BY NoneAssumption DEF RelayInv, ServeReadsEnd, ends, buffers, threads, Goto, RelayTypes,
     OneSender, Numbered, Received, NoneAhead, Taken, Pumping, Halved, Busy, IsAnswer,
     Senders
<1>8. Ordered'
  BY <1>0, ShownStays DEF RelayInv
<1>9. Teardown'
  BY <1>0, ShownStays, NoneAssumption DEF RelayInv, ServeReadsEnd, ends, buffers, threads,
     Goto, RelayTypes, OneSender, Numbered, Received, Complete, Taken, Pumping, Teardown,
     Willing, Busy, Frame, Places, Senders, Closed
<1> QED BY <1>1, <1>2, <1>3, <1>4, <1>5, <1>6, <1>7, <1>8, <1>9 DEF RelayInv

LEMMA ForwardKeeps ==
  ASSUME RelayInv, Forward
  PROVE  RelayInv'
<1>0. UNCHANGED shown
  BY DEF Forward, ends, buffers
<1>1. RelayTypes'
  <2>1. UNCHANGED <<ui, bridge, asked, answers, shown, bridgeSent, sending, part, sendLock, reading>>
    BY DEF Forward, ends
  <2>2. at' \in [Senders -> Places]
    <3>1. at' = [at EXCEPT !["serve"] = "receive"] \/ at' = [at EXCEPT !["serve"] = "end"]
      BY DEF Forward, Goto
    <3>2. at \in [Senders -> Places]
      BY DEF RelayInv, RelayTypes
    <3> QED BY <3>1, <3>2 DEF Places
  <2>3. refused' \in BOOLEAN
    BY DEF RelayInv, RelayTypes, Forward
  <2> QED BY <2>1, <2>2, <2>3 DEF RelayInv, RelayTypes
<1>2. OneSender'
  BY NoneAssumption DEF RelayInv, Forward, ends, buffers, threads, Goto, RelayTypes,
     OneSender, Busy, Places, Frames, Frame, Senders
<1>3. Halves'
  BY NoneAssumption DEF RelayInv, Forward, ends, buffers, threads, Goto, RelayTypes,
     OneSender, Busy, Halves, Newest, Halved, Places, Senders, Closed
<1>4. Unbroken'
  BY <1>0, ShownStays DEF RelayInv
<1>5. Numbered'
  BY NoneAssumption DEF RelayInv, Forward, ends, buffers, threads, Goto, RelayTypes,
     OneSender, Numbered, Received, Busy, Places, Frame, Senders
<1>6. Complete'
  BY <1>0, ShownStays, NoneAssumption DEF RelayInv, Forward, ends, buffers, threads, Goto,
     RelayTypes, Numbered, Received, Complete, Taken, Pumping, Busy, Senders
<1>7. NoneAhead'
  BY NoneAssumption DEF RelayInv, Forward, ends, buffers, threads, Goto, RelayTypes,
     OneSender, Numbered, Received, NoneAhead, Taken, Pumping, Halved, Busy, IsAnswer,
     Senders
<1>8. Ordered'
  BY <1>0, ShownStays DEF RelayInv
<1>9. Teardown'
  BY <1>0, ShownStays, NoneAssumption DEF RelayInv, Forward, ends, buffers, threads, Goto,
     RelayTypes, OneSender, Numbered, Received, Complete, Taken, Pumping, Teardown, Willing,
     Busy, Frame, Places, Senders, Closed
<1> QED BY <1>1, <1>2, <1>3, <1>4, <1>5, <1>6, <1>7, <1>8, <1>9 DEF RelayInv

LEMMA ServeClosesKeeps ==
  ASSUME RelayInv, ServeCloses
  PROVE  RelayInv'
<1>0. UNCHANGED shown
  BY DEF ServeCloses, ends, buffers
<1>1. RelayTypes'
  BY NoneAssumption DEF RelayInv, ServeCloses, ends, buffers, threads, Goto, RelayTypes,
     OneSender, Busy, Places, Frames, Frame, Senders
<1>2. OneSender'
  BY NoneAssumption DEF RelayInv, ServeCloses, ends, buffers, threads, Goto, RelayTypes,
     OneSender, Busy, Places, Frames, Frame, Senders
<1>3. Halves'
  BY NoneAssumption DEF RelayInv, ServeCloses, ends, buffers, threads, Goto, RelayTypes,
     OneSender, Busy, Halves, Newest, Halved, Places, Senders, Closed
<1>4. Unbroken'
  BY <1>0, ShownStays DEF RelayInv
<1>5. Numbered'
  BY NoneAssumption DEF RelayInv, ServeCloses, ends, buffers, threads, Goto, RelayTypes,
     OneSender, Numbered, Received, Busy, Places, Frame, Senders
<1>6. Complete'
  BY <1>0, ShownStays, NoneAssumption DEF RelayInv, ServeCloses, ends, buffers, threads,
     Goto, RelayTypes, Numbered, Received, Complete, Taken, Pumping, Busy, Senders
<1>7. NoneAhead'
  BY NoneAssumption DEF RelayInv, ServeCloses, ends, buffers, threads, Goto, RelayTypes,
     OneSender, Numbered, Received, NoneAhead, Taken, Pumping, Halved, Busy, IsAnswer,
     Senders
<1>8. Ordered'
  BY <1>0, ShownStays DEF RelayInv
<1>9. Teardown'
  BY <1>0, ShownStays, NoneAssumption DEF RelayInv, ServeCloses, ends, buffers, threads,
     Goto, RelayTypes, OneSender, Numbered, Received, Complete, Taken, Pumping, Teardown,
     Willing, Busy, Frame, Places, Senders, Closed
<1> QED BY <1>1, <1>2, <1>3, <1>4, <1>5, <1>6, <1>7, <1>8, <1>9 DEF RelayInv

LEMMA PumpReceivesKeeps ==
  ASSUME RelayInv, PumpReceives
  PROVE  RelayInv'
<1>0. UNCHANGED shown
  BY DEF PumpReceives, ends, buffers
<1>1. RelayTypes'
  BY NoneAssumption DEF RelayInv, PumpReceives, ends, buffers, threads, Goto, RelayTypes,
     OneSender, Busy, Places, Frames, Frame, Senders
<1>2. OneSender'
  BY NoneAssumption DEF RelayInv, PumpReceives, ends, buffers, threads, Goto, RelayTypes,
     OneSender, Busy, Places, Frames, Frame, Senders
<1>3. Halves'
  BY NoneAssumption DEF RelayInv, PumpReceives, ends, buffers, threads, Goto, RelayTypes,
     OneSender, Busy, Halves, Newest, Halved, Places, Senders, Closed
<1>4. Unbroken'
  BY <1>0, ShownStays DEF RelayInv
<1>10. /\ answers' = Tail(answers) /\ Len(answers) \in Nat \ {0}
       /\ Len(answers') = Len(answers) - 1 /\ DOMAIN answers' = 1 .. Len(answers) - 1
       /\ \A i \in 1 .. Len(answers) - 1 : answers'[i] = answers[i + 1]
       /\ Head(answers) = answers[1]
  BY DEF RelayInv, RelayTypes, PumpReceives
<1>11. Received' = Received + 1 /\ Received \in Nat
  BY <1>10 DEF RelayInv, RelayTypes, Numbered, Received, PumpReceives, ends
<1>12. at'["pump"] = "lock" /\ at["pump"] = "receive" /\ Taken = Received /\ Taken' = Received
  BY <1>11 DEF RelayInv, RelayTypes, PumpReceives, Goto, Taken, Busy, Senders
<1>5. Numbered'
  <2>1. \A i \in DOMAIN answers' : answers'[i] = Received' + i
    BY <1>10, <1>11 DEF RelayInv, Numbered
  <2>2. sending'["pump"] = Frame("answer", Received')
    <3>1. 1 \in DOMAIN answers
      BY <1>10 DEF RelayInv, RelayTypes
    <3>2. answers[1] = Received + 1
      BY <3>1 DEF RelayInv, Numbered
    <3>3. sending'["pump"] = Frame("answer", Head(answers))
      BY DEF RelayInv, RelayTypes, PumpReceives, Senders
    <3> QED BY <1>10, <1>11, <3>2, <3>3
  <2>3. Busy("serve")' => sending'["serve"].kind \in {"ping", "close"}
    BY DEF RelayInv, RelayTypes, Numbered, PumpReceives, Goto, Busy, Senders
  <2> QED BY <1>11, <2>1, <2>2, <2>3 DEF Numbered
<1>6. Complete'
  BY <1>0, ShownStays, NoneAssumption DEF RelayInv, PumpReceives, ends, buffers, threads,
     Goto, RelayTypes, Numbered, Received, Complete, Taken, Pumping, Busy, Senders
<1>7. NoneAhead'
  BY <1>0, <1>12 DEF RelayInv, OneSender, NoneAhead, Pumping, Halved, IsAnswer
<1>8. Ordered'
  BY <1>0, ShownStays DEF RelayInv
<1>9. Teardown'
  BY <1>0, ShownStays, NoneAssumption DEF RelayInv, PumpReceives, ends, buffers, threads,
     Goto, RelayTypes, OneSender, Numbered, Received, Complete, Taken, Pumping, Teardown,
     Willing, Busy, Frame, Places, Senders, Closed
<1> QED BY <1>1, <1>2, <1>3, <1>4, <1>5, <1>6, <1>7, <1>8, <1>9 DEF RelayInv

LEMMA PumpReceivesEndKeeps ==
  ASSUME RelayInv, PumpReceivesEnd
  PROVE  RelayInv'
<1>0. UNCHANGED shown
  BY DEF PumpReceivesEnd, ends, buffers
<1>1. RelayTypes'
  BY NoneAssumption DEF RelayInv, PumpReceivesEnd, ends, buffers, threads, Goto,
     RelayTypes, OneSender, Busy, Places, Frames, Frame, Senders, Drained
<1>2. OneSender'
  BY NoneAssumption DEF RelayInv, PumpReceivesEnd, ends, buffers, threads, Goto,
     RelayTypes, OneSender, Busy, Places, Frames, Frame, Senders, Drained
<1>3. Halves'
  BY NoneAssumption DEF RelayInv, PumpReceivesEnd, ends, buffers, threads, Goto,
     RelayTypes, OneSender, Busy, Halves, Newest, Halved, Places, Senders, Closed, Drained
<1>4. Unbroken'
  BY <1>0, ShownStays DEF RelayInv
<1>5. Numbered'
  BY NoneAssumption DEF RelayInv, PumpReceivesEnd, ends, buffers, threads, Goto,
     RelayTypes, OneSender, Numbered, Received, Busy, Places, Frame, Senders, Drained
<1>6. Complete'
  BY <1>0, ShownStays, NoneAssumption DEF RelayInv, PumpReceivesEnd, ends, buffers,
     threads, Goto, RelayTypes, Numbered, Received, Complete, Taken, Pumping, Busy,
     Senders, Drained
<1>7. NoneAhead'
  BY NoneAssumption DEF RelayInv, PumpReceivesEnd, ends, buffers, threads, Goto,
     RelayTypes, OneSender, Numbered, Received, NoneAhead, Taken, Pumping, Halved, Busy,
     IsAnswer, Senders, Drained
<1>8. Ordered'
  BY <1>0, ShownStays DEF RelayInv
<1>9. Teardown'
  BY <1>0, ShownStays, NoneAssumption DEF RelayInv, PumpReceivesEnd, ends, buffers,
     threads, Goto, RelayTypes, OneSender, Numbered, Received, Complete, Taken, Pumping,
     Teardown, Willing, Busy, Frame, Places, Senders, Closed, Drained
<1> QED BY <1>1, <1>2, <1>3, <1>4, <1>5, <1>6, <1>7, <1>8, <1>9 DEF RelayInv

LEMMA PumpEndsKeeps ==
  ASSUME RelayInv, PumpEnds
  PROVE  RelayInv'
<1>0. UNCHANGED shown
  BY DEF PumpEnds, ends, buffers
<1>1. RelayTypes'
  BY NoneAssumption DEF RelayInv, PumpEnds, ends, buffers, threads, Goto, RelayTypes,
     OneSender, Busy, Places, Frames, Frame, Senders
<1>2. OneSender'
  BY NoneAssumption DEF RelayInv, PumpEnds, ends, buffers, threads, Goto, RelayTypes,
     OneSender, Busy, Places, Frames, Frame, Senders
<1>3. Halves'
  BY NoneAssumption DEF RelayInv, PumpEnds, ends, buffers, threads, Goto, RelayTypes,
     OneSender, Busy, Halves, Newest, Halved, Places, Senders, Closed
<1>4. Unbroken'
  BY <1>0, ShownStays DEF RelayInv
<1>5. Numbered'
  BY NoneAssumption DEF RelayInv, PumpEnds, ends, buffers, threads, Goto, RelayTypes,
     OneSender, Numbered, Received, Busy, Places, Frame, Senders
<1>6. Complete'
  BY <1>0, ShownStays, NoneAssumption DEF RelayInv, PumpEnds, ends, buffers, threads,
     Goto, RelayTypes, Numbered, Received, Complete, Taken, Pumping, Busy, Senders
<1>7. NoneAhead'
  BY NoneAssumption DEF RelayInv, PumpEnds, ends, buffers, threads, Goto, RelayTypes,
     OneSender, Numbered, Received, NoneAhead, Taken, Pumping, Halved, Busy, IsAnswer,
     Senders
<1>8. Ordered'
  BY <1>0, ShownStays DEF RelayInv
<1>9. Teardown'
  BY <1>0, ShownStays, NoneAssumption DEF RelayInv, PumpEnds, ends, buffers, threads,
     Goto, RelayTypes, OneSender, Numbered, Received, Complete, Taken, Pumping, Teardown,
     Willing, Busy, Frame, Places, Senders, Closed
<1> QED BY <1>1, <1>2, <1>3, <1>4, <1>5, <1>6, <1>7, <1>8, <1>9 DEF RelayInv


LEMMA SendPieceKeeps ==
  ASSUME RelayInv, NEW t \in Senders, SendPiece(t)
  PROVE  RelayInv'
<1> DEFINE p == PieceOf(sending[t], part[t])
<1>0. PICK m \in Nat : m = Len(shown)
  BY DEF RelayInv, RelayTypes
<1>1. /\ at[t] = "send" /\ sendLock = t /\ ui # "left" /\ ~Closed /\ sending[t] \in Frames
      /\ part[t] \in 1 .. 2
      /\ \A u \in Senders : at[u] = "send" => u = t
  BY DEF RelayInv, RelayTypes, OneSender, Busy, SendPiece
<1>2. /\ Len(shown) = m /\ DOMAIN shown = 1 .. m /\ (m > 0 <=> shown # <<>>)
      /\ shown \in Seq([frame : Frames, part : 1 .. 2])
      /\ shown' \in Seq([frame : Frames, part : 1 .. 2])
      /\ Len(shown') = m + 1 /\ DOMAIN shown' = 1 .. m + 1
      /\ \A i \in 1 .. m : shown'[i] = shown[i]
      /\ shown'[m + 1] = p
  <2>1. p \in [frame : Frames, part : 1 .. 2]
    BY <1>1 DEF PieceOf
  <2> HIDE DEF p
  <2>2. shown' = Append(shown, p)
    BY DEF SendPiece, p
  <2> QED BY <1>0, <2>1, <2>2 DEF RelayInv, RelayTypes
<1>2a. \A i \in 1 .. m : shown[i].part \in {1, 2} /\ shown[i].frame.number \in Nat
  <2>1. shown \in Seq([frame : Frames, part : 1 .. 2]) /\ \A i \in 1 .. m : i \in 1 .. Len(shown)
    BY <1>0 DEF RelayInv, RelayTypes
  <2>2. \A i \in 1 .. m : shown[i] \in [frame : Frames, part : 1 .. 2]
    BY ONLY <2>1, ElementOfSeq
  <2>3. \A i \in 1 .. m : shown[i].part \in 1 .. 2 /\ shown[i].frame \in Frames
    BY <2>2
  <2> QED BY <2>3 DEF Frames
<1>3. p.frame = sending[t] /\ p.part = part[t]
  BY DEF PieceOf
<1> HIDE DEF p

\* The new piece goes on from the one before it.
<1>4. \A u \in Senders : Halved(u) => u = t
  BY <1>1 DEF Halved
<1>5. part[t] = 1 /\ m > 0 => shown[m].part = 2
  <2>1. m > 0 => shown[m].part \in {1, 2}
    BY <1>2a
  <2>2. part[t] = 1 => \A u \in Senders : ~Halved(u)
    BY <1>4 DEF Halved
  <2> QED BY <1>1, <1>2, <2>1, <2>2 DEF RelayInv, Halves, Newest
<1>6. part[t] = 2 => m > 0 /\ shown[m] = PieceOf(sending[t], 1)
  BY <1>1, <1>2 DEF RelayInv, Halves, Halved, Newest
<1>7. Unbroken'
  <2>1. \A i \in 1 .. m : shown'[i] = shown[i] /\ (i > 1 => shown'[i - 1] = shown[i - 1])
    BY <1>2
  <2>2. part[t] = 1 => (m + 1 > 1 => shown'[m].part = 2)
    BY <1>2, <1>5
  <2>3. part[t] = 2 => m + 1 > 1 /\ shown'[m] = PieceOf(p.frame, p.part - 1)
    BY <1>2, <1>3, <1>6
  <2>4. ASSUME NEW i \in 1 .. m
        PROVE  IF shown'[i].part = 1 THEN i > 1 => shown'[i - 1].part = Parts
               ELSE i > 1 /\ shown'[i - 1] = PieceOf(shown'[i].frame, shown'[i].part - 1)
    BY <2>1, <1>2 DEF RelayInv, Unbroken
  <2>5. IF p.part = 1 THEN m + 1 > 1 => shown'[m].part = Parts
        ELSE m + 1 > 1 /\ shown'[m] = PieceOf(p.frame, p.part - 1)
    BY <2>2, <2>3, <1>1, <1>3 DEF Parts
  <2> QED BY <2>4, <2>5, <1>2 DEF Unbroken

\* An answer is the one after all those shown before, or the other half of the last.
<1>8. \A n : \A i \in 1 .. m + 1 : ShownBefore(n, i) => \A k \in i .. m + 2 : ShownBefore(n, k)'
  BY <1>2 DEF ShownBefore
<1>9. p.frame.kind = "answer" =>
        t = "pump" /\ p.frame = Frame("answer", Received) /\ Taken = Received - 1
  BY <1>1, <1>3 DEF RelayInv, Numbered, Busy, Senders, Taken
<1>10. p.frame.kind # "answer" => t = "serve" /\ p.frame.kind \in {"ping", "close"}
  BY <1>1, <1>3 DEF RelayInv, Numbered, Busy, Senders, Frame
<1>11. p.frame.kind = "answer" =>
         \A j \in 1 .. m : IsAnswer(j) =>
           \/ shown[j].frame.number < Received
           \/ j = m /\ part[t] = 2 /\ shown[j].frame = p.frame /\ shown[j].part = 1
  <2>1. p.frame.kind = "answer" => Pumping /\ (Halved("pump") <=> part[t] = 2)
    BY <1>1, <1>9 DEF Pumping, Halved
  <2>2. \A j \in 1 .. m : shown[j].frame.number \in Nat
    BY <1>2a
  <2>3. Received \in Nat
    BY DEF RelayInv, Numbered
  <2>4. part[t] = 2 => shown[m].frame = p.frame /\ shown[m].part = 1
    BY <1>3, <1>6 DEF PieceOf
  <2> QED BY SMTT(30), <1>2, <1>9, <2>1, <2>2, <2>3, <2>4 DEF RelayInv, NoneAhead
<1>12. Ordered'
  <2>1. \A i \in 1 .. m : (IsAnswer(i)' <=> IsAnswer(i))
                          /\ \A j \in 1 .. m : Precedes(j, i)' <=> Precedes(j, i)
    BY <1>2 DEF IsAnswer, Precedes
  <2>2. IsAnswer(m + 1)' <=> p.frame.kind = "answer"
    BY <1>2 DEF IsAnswer
  <2>3. ASSUME p.frame.kind = "answer", NEW j \in 1 .. m, IsAnswer(j)
        PROVE  Precedes(j, m + 1)'
    <3>1. shown'[j] = shown[j] /\ shown'[m + 1] = p /\ p.part = part[t]
      BY <1>2, <1>3
    <3>2. p.frame.number = Received
      BY <1>9, <2>3 DEF Frame
    <3> QED BY <3>1, <3>2, <1>11, <2>3 DEF Precedes
  <2>4. ASSUME p.frame.kind = "answer", NEW n \in 1 .. p.frame.number - 1
        PROVE  ShownBefore(n, m + 1)'
    <3>1. p.frame.number - 1 = Taken /\ Pumping
      BY <1>1, <1>9, <2>4 DEF Frame, Pumping
    <3>2. ShownBefore(n, m + 1)
      BY <1>2, <2>4, <3>1 DEF RelayInv, Complete
    <3> QED BY <3>2, <1>2, <1>8
  <2>5. ASSUME NEW i \in 1 .. m, IsAnswer(i)'
        PROVE  /\ \A j \in 1 .. i - 1 : IsAnswer(j)' => Precedes(j, i)'
               /\ \A n \in 1 .. shown'[i].frame.number - 1 : ShownBefore(n, i)'
    <3>1. IsAnswer(i) /\ shown'[i] = shown[i]
      BY <1>2, <2>1, <2>5
    <3>2. \A j \in 1 .. i - 1 : j \in 1 .. m
      BY <1>2
    <3>3. \A n \in 1 .. shown[i].frame.number - 1 : ShownBefore(n, i)
      BY <3>1, <1>2 DEF RelayInv, Ordered
    <3>4. \A n \in 1 .. shown'[i].frame.number - 1 : ShownBefore(n, i)'
      BY <3>1, <3>3, <1>2, <1>8
    <3>5. \A j \in 1 .. i - 1 : IsAnswer(j)' => Precedes(j, i)'
      BY <3>1, <3>2, <1>2, <2>1 DEF RelayInv, Ordered
    <3> QED BY <3>4, <3>5
  <2>6. ASSUME IsAnswer(m + 1)'
        PROVE  /\ \A j \in 1 .. (m + 1) - 1 : IsAnswer(j)' => Precedes(j, m + 1)'
               /\ \A n \in 1 .. shown'[m + 1].frame.number - 1 : ShownBefore(n, m + 1)'
    BY <1>2, <2>1, <2>2, <2>3, <2>4, <2>6
  <2>7. \A i \in DOMAIN shown' : i \in 1 .. m \/ i = m + 1
    BY <1>2
  <2> QED BY <2>5, <2>6, <2>7 DEF Ordered

\* What has become of the sender.
<1>13. UNCHANGED <<ends, asked, requests, answers, reading, refused>>
  BY DEF SendPiece
<1>14. CASE part[t] = 1
  <2>1. UNCHANGED <<at, sending, sendLock>> /\ part' = [part EXCEPT ![t] = 2]
    BY <1>14 DEF SendPiece, Parts
  <2>2. RelayTypes'
    BY <1>2, <1>13, <2>1 DEF RelayInv, RelayTypes, ends
  <2>3. OneSender'
    BY <1>1, <2>1 DEF RelayInv, OneSender, Busy
  <2>4. Halves'
    <3>1. part'[t] = 2 /\ \A u \in Senders : u # t => part'[u] = part[u]
      BY <2>1 DEF RelayInv, RelayTypes
    <3>2. \A u \in Senders : Halved(u)' <=> u = t
      BY <1>1, <2>1, <3>1 DEF Halved
    <3>3. Newest' = PieceOf(sending'[t], 1) /\ shown' # <<>>
      BY <1>2, <1>14, <2>1 DEF Newest, p
    <3> QED BY <3>2, <3>3 DEF Halves
  <2>5. Numbered' /\ Taken' = Taken /\ (Pumping' <=> Pumping)
    BY <1>13, <2>1 DEF RelayInv, Numbered, Received, Busy, Taken, Pumping, ends
  <2>6. Complete'
    BY <1>2, <1>8, <2>5 DEF RelayInv, Numbered, Complete
  <2>7. NoneAhead'
    <3>1. p.frame.kind = "answer" => Halved("pump")'
      BY <1>1, <1>9, <2>1 DEF Halved, RelayInv, RelayTypes
    <3>2. ~Halved("pump")
      BY <1>4, <1>14 DEF Halved, Senders
    <3>3. \A j \in 1 .. m : IsAnswer(j)' => IsAnswer(j) /\ shown'[j].frame = shown[j].frame
      BY <1>2 DEF IsAnswer
    <3>4. IsAnswer(m + 1)' => p.frame.kind = "answer"
      BY <1>2 DEF IsAnswer
    <3> QED BY <1>2, <2>5, <3>1, <3>2, <3>3, <3>4 DEF RelayInv, NoneAhead
  <2>8. Teardown'
    BY <1>2, <1>8, <1>13, <2>1 DEF RelayInv, RelayTypes, Teardown, Willing, Busy, ends
  <2> QED BY <1>7, <1>12, <2>2, <2>3, <2>4, <2>5, <2>6, <2>7, <2>8 DEF RelayInv
<1>15. CASE part[t] = 2
  <2>1. /\ part' = [part EXCEPT ![t] = 1] /\ sending' = [sending EXCEPT ![t] = None]
        /\ sendLock' = None /\ at' = [at EXCEPT ![t] = AfterFrame(p.frame.kind)]
    BY <1>3, <1>15 DEF SendPiece, Parts, Goto
  <2>2. AfterFrame(p.frame.kind) \in {"end", "receive"}
    BY DEF AfterFrame
  <2>3. RelayTypes'
    BY <1>2, <1>13, <2>1, <2>2 DEF RelayInv, RelayTypes, Places, ends
  <2>4. \A u \in Senders : at'[u] # "send" /\ part'[u] = 1
                           /\ (Busy(u)' => u # t /\ Busy(u) /\ sending'[u] = sending[u])
    BY <1>1, <2>1, <2>2 DEF RelayInv, RelayTypes, OneSender, Busy
  <2>5. OneSender'
    BY <2>1, <2>4, NoneAssumption DEF RelayInv, OneSender, Senders
  <2>6. Halves'
    <3>1. \A u \in Senders : ~Halved(u)'
      BY <2>4 DEF Halved
    <3>2. Newest'.part = 2
      BY <1>2, <1>3, <1>15 DEF Newest
    <3> QED BY <3>1, <3>2 DEF Halves
  <2>7. Numbered' /\ Received' = Received
    BY <1>13, <2>4 DEF RelayInv, Numbered, Received, ends, Senders
  <2>8. Received \in Nat
    BY DEF RelayInv, Numbered
  <2>9. /\ t = "pump" => Taken' = Received /\ Taken = Received - 1 /\ Pumping /\ p.frame.kind = "answer"
        /\ t = "serve" => Taken' = Taken /\ (Pumping' <=> Pumping)
    BY <1>1, <1>9, <1>10, <2>1, <2>2, <2>7 DEF RelayInv, RelayTypes, Taken, Busy, Pumping,
       Senders
  <2>10. t = "pump" => shown'[m + 1] = PieceOf(Frame("answer", Received), Parts)
    BY <1>2, <1>9, <1>15, <2>9, <1>3 DEF p, Parts
  <2>11. Complete'
    <3>1. ASSUME t = "pump", NEW n \in 1 .. Received
          PROVE  ShownBefore(n, m + 2)'
      <4>1. CASE n = Received
        BY <1>2, <2>10, <3>1, <4>1 DEF ShownBefore
      <4>2. CASE n # Received
        <5>1. ShownBefore(n, m + 1)
          BY <1>2, <2>8, <2>9, <3>1, <4>2 DEF RelayInv, Complete
        <5> QED BY <5>1, <1>2, <1>8
      <4> QED BY <4>1, <4>2
    <3>2. CASE t = "pump"
      BY <1>2, <2>9, <3>1, <3>2 DEF Complete
    <3>3. CASE t = "serve"
      BY <1>2, <1>8, <2>9, <3>3 DEF RelayInv, Complete
    <3> QED BY <3>2, <3>3 DEF Senders
  <2>12. NoneAhead'
    <3>1. \A j \in 1 .. m : IsAnswer(j)' => IsAnswer(j) /\ shown'[j].frame = shown[j].frame
      BY <1>2 DEF IsAnswer
    <3>2. IsAnswer(m + 1)' => p.frame.kind = "answer" /\ shown'[m + 1].frame = p.frame
      BY <1>2 DEF IsAnswer
    <3>3. \A j \in 1 .. m : shown[j].frame.number \in Nat
      BY <1>2a
    <3>4. CASE t = "pump"
      <4>1. \A j \in 1 .. m : IsAnswer(j) => shown[j].frame.number <= Received
        BY <1>9, <1>11, <2>8, <2>9, <3>3, <3>4 DEF Frame
      <4>2. p.frame.number = Received
        BY <1>9, <2>9, <3>4 DEF Frame
      <4> QED BY <1>2, <2>8, <2>9, <3>1, <3>2, <3>4, <4>1, <4>2 DEF NoneAhead
    <3>5. CASE t = "serve"
      <4>1. p.frame.kind # "answer" /\ ~Halved("pump")
        BY <1>4, <1>9, <3>5 DEF Senders
      <4> QED BY <1>2, <2>9, <3>1, <3>2, <3>5, <4>1 DEF RelayInv, NoneAhead
    <3> QED BY <3>4, <3>5 DEF Senders
  <2>13. Teardown'
    <3>1. ui = "open" => p.frame.kind # "close"
      BY <1>1, <1>3, <1>10 DEF RelayInv, Teardown, Busy, Senders
    <3>2. Willing' => at'[t] = "receive"
      BY <1>13, <2>1, <3>1 DEF Willing, ends, AfterFrame, RelayInv, RelayTypes
    <3>3. \A u \in Senders : u # t => at'[u] = at[u]
      BY <2>1 DEF RelayInv, RelayTypes
    <3>4. Willing' <=> Willing
      BY <1>13 DEF Willing, ends
    <3>5. ASSUME Willing', at'["pump"] \in {"end", "closed"}
          PROVE  /\ answers' = <<>> /\ bridge' = "closed"
                 /\ \A n \in 1 .. bridgeSent' : ShownBefore(n, m + 2)'
      BY <1>2, <1>8, <1>13, <3>2, <3>3, <3>4, <3>5 DEF RelayInv, Teardown, ends, Senders
    <3>6. Willing' /\ at'["serve"] \in {"end", "closed"} => ~reading'
      BY <1>13, <3>2, <3>3, <3>4 DEF RelayInv, Teardown, Senders
    <3>7. reading' \/ at'["pump"] = "closed"
      BY <1>1, <1>13, <3>3 DEF RelayInv, Teardown, Senders
    <3>8. ui' = "open" /\ Busy("serve")' => sending'["serve"].kind # "close"
      BY <1>13, <2>4 DEF RelayInv, Teardown, Senders, ends
    <3>9. ui' = "open" => \A i \in DOMAIN asked' : asked'[i] # "close"
      BY <1>13 DEF RelayInv, Teardown, ends
    <3>10. Len(shown') + 1 = m + 2
      BY <1>2
    <3> QED BY <3>5, <3>6, <3>7, <3>8, <3>9, <3>10 DEF Teardown
  <2> QED BY <1>7, <1>12, <2>3, <2>5, <2>6, <2>7, <2>11, <2>12, <2>13 DEF RelayInv
<1> QED BY <1>1, <1>14, <1>15

------------------------------------------------------------------------------
LEMMA InitEstablishes == RelayInit => RelayInv
<1> SUFFICES ASSUME RelayInit PROVE RelayInv
  OBVIOUS
<1>1. shown = <<>> /\ answers = <<>> /\ asked = <<>> /\ Len(answers) = 0 /\ bridgeSent = 0
  BY DEF RelayInit
<1>2. \A t \in Senders : at[t] = "receive" /\ part[t] = 1
  BY DEF RelayInit
<1>3. RelayTypes
  <2>1. sending \in [Senders -> Frames \cup {None}] /\ part \in [Senders -> 1 .. 2]
    BY DEF RelayInit
  <2>2. at \in [Senders -> Places]
    BY DEF RelayInit, Places
  <2>3. shown = <<>> /\ asked = <<>> /\ answers = <<>>
    BY DEF RelayInit
  <2>4. /\ ui = "open" /\ bridge = "open" /\ bridgeSent = 0 /\ sendLock = None
        /\ reading = TRUE /\ refused = FALSE
    BY DEF RelayInit
  <2>5. shown \in Seq([frame : Frames, part : 1 .. 2])
    BY ONLY <2>3
  <2>6. asked \in Seq({"data", "ping", "close"}) /\ answers \in Seq(Nat)
    BY ONLY <2>3
  <2> QED BY <2>1, <2>2, <2>4, <2>5, <2>6 DEF RelayTypes
<1>4. OneSender /\ Halves
  BY <1>1, <1>2, NoneAssumption DEF RelayInit, OneSender, Halves, Halved, Busy, Senders
<1>5. Unbroken /\ NoneAhead /\ Ordered
  BY <1>1 DEF Unbroken, NoneAhead, Ordered
<1>6. Received = 0 /\ ~Busy("pump") /\ ~Busy("serve")
  <2>1. Received = 0
    <3>1. bridgeSent = 0 /\ Len(answers) = 0
      BY <1>1
    <3> QED BY ONLY <3>1 DEF Received
  <2>2. at["pump"] = "receive" /\ at["serve"] = "receive"
    BY <1>2 DEF Senders
  <2> QED BY <2>1, <2>2 DEF Busy
<1>7. Numbered /\ Complete
  BY <1>1, <1>6 DEF Numbered, Complete, Taken
<1>8. Teardown
  BY <1>1, <1>2, <1>6 DEF RelayInit, Teardown, Senders
<1> QED BY <1>3, <1>4, <1>5, <1>7, <1>8 DEF RelayInv

LEMMA StepsKeep == RelayInv /\ [RelayNext]_relayVars => RelayInv'
<1> SUFFICES ASSUME RelayInv, [RelayNext]_relayVars PROVE RelayInv'
  OBVIOUS
<1>1. CASE ServeThread
  <2>1. "serve" \in Senders
    BY DEF Senders
  <2> QED
    BY <1>1, <2>1, TakeLockKeeps, SendPieceKeeps, SendFailsKeeps, ServeReadsKeeps,
       ServeReadsEndKeeps, ForwardKeeps, ServeClosesKeeps DEF ServeThread, SendsFrame
<1>2. CASE PumpThread
  <2>1. "pump" \in Senders
    BY DEF Senders
  <2> QED
    BY <1>2, <2>1, TakeLockKeeps, SendPieceKeeps, SendFailsKeeps, PumpReceivesKeeps,
       PumpReceivesEndKeeps, PumpEndsKeeps DEF PumpThread, SendsFrame
<1>3. CASE \E kind \in {"data", "ping", "close"} : UiSends(kind)
  BY <1>3, UiSendsKeeps
<1>4. CASE UiReads \/ UiLeaves \/ BridgeSends \/ BridgeReads \/ BridgeCloses
  BY <1>4, UiReadsKeeps, UiLeavesKeeps, BridgeSendsKeeps, BridgeReadsKeeps,
     BridgeClosesKeeps
<1>5. CASE UNCHANGED relayVars
  BY <1>5 DEF RelayInv, RelayTypes, OneSender, Busy, Halves, Newest, Halved, Unbroken,
     Numbered, Received,
    Pumping, Taken, Complete, NoneAhead, Ordered, Willing, Teardown, Closed, IsAnswer, Precedes,
    ShownBefore, relayVars, ends, buffers, threads
<1> QED BY <1>1, <1>2, <1>3, <1>4, <1>5 DEF RelayNext

LEMMA RelayInvHolds == RelaySpec => []RelayInv
BY InitEstablishes, StepsKeep, PTL DEF RelaySpec

(* The browser is sent whole frames and the bridge's answers in order, none   *)
(* left out, however the two threads' writes interleave: the lock is enough   *)
(* (wsrelay.py:251-266).                                                      *)
THEOREM FramesStayWhole == RelaySpec => []FramesWhole
<1>1. RelayInv => FramesWhole
  BY DEF RelayInv, Unbroken, Ordered, FramesWhole
<1> QED BY <1>1, RelayInvHolds, PTL

(* Every answer that the bridge sent before it closed reaches a browser that  *)
(* neither closed nor left nor sent too late, whatever the number of answers, *)
(* frames and buffers (wsrelay.py:230-239, 258-273).                          *)
THEOREM AnswersArrive == RelaySpec => []LastAnswerArrives
<1>1. RelayInv => LastAnswerArrives
  BY DEF RelayInv, Teardown, Willing, LastAnswerArrives, Closed
<1> QED BY <1>1, RelayInvHolds, PTL

------------------------------------------------------------------------------
\* perfetto_open.py.

(* A tab that has the trace, a beacon on its way and a set event all come     *)
(* after a tab got the trace; main is past its wait with code 0 only after    *)
(* the event, or without the wait, or after Ctrl-C.                           *)
Reported ==
  /\ telling # {} \/ delivered \/ (\E p \in Pages: page[p] = "fetched") => got # {}
  /\ main \in {"keep", "stop", "closed", "exited"} /\ rc = 0 /\ opt.open
       => delivered \/ interrupted
OpenInv == OpenTypeOK /\ Reported

LEMMA OpenInitInv == OpenInit => OpenInv
<1>. SUFFICES ASSUME OpenInit
              PROVE  OpenInv
  OBVIOUS
<1>1. OpenTypeOK
  <2>1. page \in [Pages -> {"away"}] /\ loads = 0 /\ 0 \in 0..MaxLoads
    BY LoadsAssumption DEF OpenInit
  <2>. QED
    BY <2>1 DEF OpenInit, OpenTypeOK
<1>2. telling = {} /\ ~delivered /\ main = "bind" /\ \A p \in Pages: page[p] = "away"
  BY DEF OpenInit
<1>. QED
  BY <1>1, <1>2 DEF OpenInv, Reported

LEMMA MainKeepsTypes ==
  ASSUME OpenTypeOK, MainThread
  PROVE  OpenTypeOK'
<1>. USE DEF OpenTypeOK, Go, pageVars, Exited
<1>1. CASE BindPort
  BY <1>1 DEF BindPort, PortTaken, TimedOut, Killed
<1>2. CASE Announce
  BY <1>2 DEF Announce, AfterDelivery
<1>3. CASE SeesDelivery
  BY <1>3 DEF SeesDelivery, AfterDelivery
<1>4. CASE Shutdown
  BY <1>4 DEF Shutdown
<1>5. CASE Return
  BY <1>5 DEF Return
<1>. QED
  BY <1>1, <1>2, <1>3, <1>4, <1>5 DEF MainThread

LEMMA PageKeepsTypes ==
  ASSUME NEW p \in Pages, OpenTypeOK, Load(p) \/ CloseTab(p) \/ Script(p) \/ Handler(p)
  PROVE  OpenTypeOK'
<1>1. CASE Load(p)
  <2>1. loads' \in 0..MaxLoads
    BY <1>1, LoadsAssumption DEF Load, OpenTypeOK
  <2>. QED
    BY <1>1, <2>1 DEF OpenTypeOK, Load, Shows, mainVars, Exited
<1>2. CASE CloseTab(p) \/ Script(p)
  BY <1>2 DEF OpenTypeOK, CloseTab, Script, Fetch, HasTrace, CutOff, Tell, Shows, mainVars, Exited
<1>3. CASE Handler(p)
  <2>1. /\ telling' \subseteq Pages /\ delivered' \in BOOLEAN
        /\ UNCHANGED <<opt, mainVars, pageVars>>
    <3>1. CASE Beacon(p)
      BY <3>1 DEF OpenTypeOK, Beacon, Replies
    <3>2. CASE BeaconFails(p)
      BY <3>2 DEF OpenTypeOK, BeaconFails, Replies
    <3>. QED
      BY <1>3, <3>1, <3>2 DEF Handler
  <2>. QED
    BY <2>1 DEF OpenTypeOK, mainVars, pageVars
<1>. QED
  BY <1>1, <1>2, <1>3

LEMMA OpenTypesStep == OpenTypeOK /\ [OpenNext]_openVars => OpenTypeOK'
<1>. SUFFICES ASSUME OpenTypeOK, [OpenNext]_openVars
              PROVE  OpenTypeOK'
  OBVIOUS
<1>1. CASE MainThread
  BY <1>1, MainKeepsTypes
<1>2. CASE TimesOut
  BY <1>2 DEF OpenTypeOK, TimesOut, Go, AfterDelivery, pageVars, Exited, PortTaken, TimedOut, Killed
<1>3. CASE Interrupt
  BY <1>3 DEF OpenTypeOK, Interrupt, Go, pageVars, Exited, PortTaken, TimedOut, Killed
<1>4. CASE \E p \in Pages: Load(p) \/ CloseTab(p) \/ Script(p) \/ Handler(p)
  BY <1>4, PageKeepsTypes
<1>5. CASE UNCHANGED openVars
  BY <1>5 DEF OpenTypeOK, openVars, mainVars, pageVars, Exited
<1>. QED
  BY <1>1, <1>2, <1>3, <1>4, <1>5 DEF OpenNext

LEMMA ReportedStep == OpenInv /\ [OpenNext]_openVars => Reported'
<1>. SUFFICES ASSUME OpenInv, [OpenNext]_openVars
              PROVE  Reported'
  OBVIOUS
<1>. USE DEF OpenInv, Reported
<1>1. CASE MainThread
  BY <1>1 DEF OpenTypeOK, MainThread, BindPort, Announce, SeesDelivery, Shutdown, Return, Go, AfterDelivery,
              pageVars, PortTaken
<1>2. CASE TimesOut
  BY <1>2 DEF OpenTypeOK, TimesOut, Go, AfterDelivery, pageVars, TimedOut
<1>3. CASE Interrupt
  BY <1>3 DEF OpenTypeOK, Interrupt, Go, pageVars, Killed
<1>4. ASSUME NEW p \in Pages, Handler(p)
      PROVE  Reported'
  <2>1. got # {}
    BY <1>4 DEF Handler, Beacon, BeaconFails, Replies
  <2>. QED
    BY <1>4, <2>1 DEF Handler, Beacon, BeaconFails, Replies, mainVars, pageVars
<1>5. ASSUME NEW p \in Pages, Load(p) \/ CloseTab(p) \/ Script(p)
      PROVE  Reported'
  <2>1. CASE HasTrace(p)
    BY <2>1 DEF OpenTypeOK, HasTrace, mainVars
  <2>2. CASE Load(p) \/ CloseTab(p) \/ Fetch(p) \/ CutOff(p) \/ Tell(p)
    <3>1. \A q \in Pages: page'[q] = "fetched" => page[q] = "fetched"
      BY <2>2 DEF OpenTypeOK, Load, CloseTab, Fetch, CutOff, Tell, Shows
    <3>2. got' = got /\ UNCHANGED <<mainVars, delivered, opt>>
      BY <2>2 DEF Load, CloseTab, Fetch, CutOff, Tell
    <3>3. telling' # {} => telling # {} \/ page[p] = "fetched"
      BY <2>2 DEF Load, CloseTab, Fetch, CutOff, Tell
    <3>. QED
      BY <3>1, <3>2, <3>3 DEF mainVars
  <2>. QED
    BY <1>5, <2>1, <2>2 DEF Script
<1>6. CASE UNCHANGED openVars
  BY <1>6 DEF openVars, mainVars, pageVars
<1>. QED
  BY <1>1, <1>2, <1>3, <1>4, <1>5, <1>6 DEF OpenNext

LEMMA OpenInvariant == OpenSpec => []OpenInv
<1>1. OpenInv /\ [OpenNext]_openVars => OpenInv'
  BY OpenTypesStep, ReportedStep DEF OpenInv
<1>. QED
  BY <1>1, OpenInitInv, PTL DEF OpenSpec

(* The type invariant; in particular no process that has ended serves.        *)
THEOREM OpenTypeCorrect == OpenSpec => []OpenTypeOK
<1>1. OpenInv => OpenTypeOK
  BY DEF OpenInv
<1>. QED
  BY <1>1, OpenInvariant, PTL

(* Exit code 0 after the browser was opened means that a tab has had the      *)
(* whole trace, or that the user pressed Ctrl-C (serve_and_open).             *)
THEOREM ZeroIsFetched == OpenSpec => []ZeroMeansFetched
<1>1. OpenInv => ZeroMeansFetched
  BY DEF OpenInv, Reported, ZeroMeansFetched, Exited
<1>. QED
  BY <1>1, OpenInvariant, PTL
=============================================================================
