---------------------------- MODULE CaptureProofs ----------------------------
(* Proofs about the programs that take captures. cortrace_grab.c, for         *)
(* every ring size, every limit of a write, all payload lengths and any       *)
(* number of frames: the two threads never touch the same byte, the file is   *)
(* the accepted stream, nothing accepted is left behind, and loss is counted. *)
(* capture.py: what a run of the pipeline returns, for any tags, widths and   *)
(* number of runs, whatever failed before under the same tag.                 *)
(* record_bridge.py: one capture at a time, no stale packets when captures    *)
(* end in packets or an Exception, and whole streams of one capture each, for *)
(* any number of clients, requests, captures and chunks.                      *)
EXTENDS Grab, CapturePipeline, RecordBridge, InductionFacts, FiniteSetTheorems, TLAPS

(* cortrace_grab.c. RingInv is what both threads rely on: it says of every    *)
(* byte between tail and head that it is still in its slot.                   *)
Between == IF recv \in {"push", "copy", "publish"} THEN plen ELSE 0

RingInv ==
  /\ recv \in {"copy", "publish"} => plen <= Room
  /\ writer = "write" => wlen \in 1 .. head - tail
  /\ writer = "advance" => wlen <= head - tail
  /\ \A i \in tail .. head - 1 : buf[Slot(i)] = i
  /\ recv = "publish" => \A i \in head .. head + plen - 1 : buf[Slot(i)] = i
FileInv ==
  /\ Len(file) = IF writer = "advance" THEN tail + wlen ELSE tail
  /\ \A i \in 1 .. Len(file) : file[i] = i - 1
AccountInv ==
  /\ nbytes = head + dropped + Between
  /\ stop <=> recv \in {"join", "exited"}
  /\ writer = "gone" /\ ~failed => stop /\ head = tail
  /\ recv = "exited" => writer = "gone"
Inv == TypeOK /\ RingInv /\ FileInv /\ AccountInv

------------------------------------------------------------------------------
(* The ring's indices.                                                        *)

\* A positive multiple is at least as large as what it is a multiple of.
LEMMA MultipleIsLarge ==
  ASSUME NEW S \in Nat \ {0}, NEW q \in Int, q >= 1
  PROVE  S * q >= S
<1>1. S * q = S + S * (q - 1)  OBVIOUS
<1>2. S * (q - 1) >= 0  OBVIOUS
<1> QED BY <1>1, <1>2

\* Two bytes of the stream less than a ring apart are in different slots.
LEMMA SlotsDiffer ==
  ASSUME NEW S \in Nat \ {0}, NEW i \in Nat, NEW j \in Nat,
         i < j, j - i < S
  PROVE  i % S # j % S
<1> SUFFICES ASSUME i % S = j % S PROVE FALSE  OBVIOUS
<1>1. i = S * (i \div S) + (i % S) /\ j = S * (j \div S) + (j % S)  OBVIOUS
<1>2. i \div S \in Int /\ j \div S \in Int  OBVIOUS
<1> DEFINE q == (j \div S) - (i \div S)
<1>3. j - i = S * q  BY <1>1, <1>2
<1>4. q \in Int  BY <1>2
<1> HIDE DEF q
<1>5. q >= 1  BY <1>3, <1>4
<1> QED BY <1>3, <1>4, <1>5, MultipleIsLarge

LEMMA ModType == ASSUME NEW a \in Int, NEW S \in Nat \ {0} PROVE a % S \in 0 .. S - 1
OBVIOUS

LEMMA SlotType == ASSUME NEW i \in Nat PROVE Slot(i) \in 0 .. Size - 1
BY SizeAssumption DEF Slot

LEMMA SlotIsOwn ==
  ASSUME NEW i \in Nat, NEW j \in Nat, i # j, i - j < Size, j - i < Size
  PROVE  Slot(i) # Slot(j)
<1>1. CASE i < j  BY <1>1, SlotsDiffer, SizeAssumption DEF Slot
<1>2. CASE j < i  BY <1>2, SlotsDiffer, SizeAssumption DEF Slot
<1> QED BY <1>1, <1>2

\* The copy puts every new byte in its slot, and leaves the bytes behind it where they are.
LEMMA CopiedBytes ==
  ASSUME head \in Nat, tail \in Nat, head - tail \in 0 .. Size, NEW n \in Nat, n <= Room
  PROVE  /\ \A i \in head .. head + n - 1 : Copied(n)[Slot(i)] = i
         /\ \A i \in tail .. head - 1 : Copied(n)[Slot(i)] = buf[Slot(i)]
<1>1. ASSUME NEW i \in head .. head + n - 1  PROVE Copied(n)[Slot(i)] = i
  <2>1. i \in Nat /\ Slot(i) \in 0 .. Size - 1  BY SlotType
  <2>2. Slot(i) \in Slots(head, n)  BY DEF Slots
  <2>3. \A j \in head .. head + n - 1 : Slot(j) = Slot(i) => j = i
    BY <2>1, SlotIsOwn, SizeAssumption DEF Room
  <2>4. (CHOOSE j \in head .. head + n - 1 : Slot(j) = Slot(i)) = i  BY <2>3
  <2> QED BY <2>1, <2>2, <2>4 DEF Copied
<1>2. ASSUME NEW i \in tail .. head - 1  PROVE Copied(n)[Slot(i)] = buf[Slot(i)]
  <2>1. i \in Nat /\ Slot(i) \in 0 .. Size - 1  BY SlotType
  <2>2. \A j \in head .. head + n - 1 : Slot(j) # Slot(i)
    BY <2>1, SlotIsOwn, SizeAssumption DEF Room
  <2>3. Slot(i) \notin Slots(head, n)  BY <2>2 DEF Slots
  <2> QED BY <2>1, <2>3 DEF Copied
<1> QED BY <1>1, <1>2

LEMMA CopiedType ==
  ASSUME head \in Nat, NEW n \in Nat, buf \in [0 .. Size - 1 -> Int]
  PROVE  Copied(n) \in [0 .. Size - 1 -> Int]
<1> SUFFICES ASSUME NEW s \in 0 .. Size - 1, s \in Slots(head, n)
             PROVE  (CHOOSE i \in head .. head + n - 1 : Slot(i) = s) \in Int
  BY DEF Copied
<1>1. PICK i \in head .. head + n - 1 : Slot(i) = s  BY DEF Slots
<1>2. (CHOOSE j \in head .. head + n - 1 : Slot(j) = s) \in head .. head + n - 1  BY <1>1
<1> QED BY <1>2

\* What ring_read_contig asks for is there.
LEMMA ContiguousBound ==
  ASSUME head \in Nat, tail \in Nat, head - tail \in 0 .. Size
  PROVE  Contiguous \in 0 .. head - tail
<1> DEFINE S == {head - tail, Size - Slot(tail), MaxRead}
<1>1. S \subseteq Nat  BY SlotType, SizeAssumption
<1>2. Size - Slot(tail) \in Nat /\ MaxRead \in Nat /\ head - tail \in Nat
  BY SlotType, SizeAssumption
<1>3. \E n \in S : \A o \in S : n <= o
  <2> DEFINE a == head - tail
             b == Size - Slot(tail)
  <2> HIDE DEF a, b
  <2>1. a \in Nat /\ b \in Nat /\ MaxRead \in Nat  BY <1>2 DEF a, b
  <2>2. \E n \in {a, b, MaxRead} : \A o \in {a, b, MaxRead} : n <= o  BY <2>1
  <2> QED BY <2>2 DEF a, b
<1>4. Contiguous \in S /\ \A o \in S : Contiguous <= o  BY <1>3 DEF Contiguous, Least
<1>5. Contiguous \in Nat /\ Contiguous <= head - tail  BY <1>1, <1>4
<1> QED BY <1>5, <1>2

------------------------------------------------------------------------------
(* Inv is inductive: a step for each action of the two threads.               *)

LEMMA InitInv == Init => Inv
<1> SUFFICES ASSUME Init PROVE Inv  OBVIOUS
<1>0. Size \in Nat \ {0} /\ SeqModulus \in Nat \ {0}  BY SizeAssumption, SeqAssumption
<1>1. buf \in [0 .. Size - 1 -> Int]  BY DEF Init
<1>2. TypeOK
  <2>1. head - tail \in 0 .. Size /\ wlen \in 0 .. Size /\ seqPrev \in -1 .. SeqModulus - 1
    BY <1>0 DEF Init
  <2>2. /\ sent \in Nat /\ missing \subseteq 0 .. sent - 1 /\ frames \in Nat /\ nbytes \in Nat
        /\ gaps \in Nat /\ lost \in Nat /\ dropped \in Nat /\ head \in Nat /\ tail \in Nat
        /\ plen \in Lens \cup {0} /\ file \in Seq(Int)
    BY DEF Init
  <2>3. /\ over \in BOOLEAN /\ stop \in BOOLEAN /\ failed \in BOOLEAN
        /\ recv = "loop" /\ writer = "open"
    BY DEF Init
  <2> QED BY <1>1, <2>1, <2>2, <2>3 DEF TypeOK
<1>3. RingInv /\ FileInv  BY DEF Init, RingInv, FileInv
<1>4. AccountInv  BY DEF Init, AccountInv, Between
<1> QED BY <1>2, <1>3, <1>4 DEF Inv

LEMMA TickInv == Inv /\ Tick => Inv'
BY DEF Inv, TypeOK, RingInv, FileInv, AccountInv, Between, Room, Tick,
       net, counters, ring, output, vars

LEMMA MainWaits == ASSUME Inv, Wait \/ Runt \/ PushDrop \/ PushStart PROVE Inv'
<1> USE DEF Wait, Runt, PushDrop, PushStart, net, counters, ring, output
<1>0. plen \in Nat /\ dropped \in Nat /\ head \in Nat /\ nbytes \in Nat
  BY LensAssumption DEF Inv, TypeOK
<1>1. TypeOK'
  <2>1. dropped' \in Nat  BY <1>0
  <2> QED BY <2>1 DEF Inv, TypeOK
<1>2. RingInv'
  <2>1. Room' = Room  BY DEF Room
  <2>2. recv' = "copy" => plen <= Room
    <3>1. Room \in Int  BY SizeAssumption DEF Room, Inv, TypeOK
    <3> QED BY <1>0, <3>1
  <2> QED BY <2>1, <2>2 DEF Inv, RingInv, Slot
<1>3. FileInv'  BY DEF Inv, FileInv
<1>4. AccountInv'
  <2>1. nbytes' = head' + dropped' + Between'  BY <1>0 DEF Inv, AccountInv, Between
  <2> QED BY <2>1 DEF Inv, AccountInv
<1> QED BY <1>1, <1>2, <1>3, <1>4 DEF Inv

LEMMA ReceiveInv ==
  ASSUME Inv, NEW k \in 0 .. sent + MaxLoss, NEW len \in Lens, Receive(k, len)
  PROVE  Inv'
<1>1. TypeOK'
  <2> USE DEF Inv, TypeOK, Receive
  <2>1. sent' \in Nat /\ missing' \subseteq 0 .. sent' - 1
    <3>1. k \in Nat /\ sent \in Nat  BY SeqAssumption
    <3>2. CASE sent' = k + 1 /\ k >= sent /\ missing' = missing \cup (sent .. k - 1)
      <4>1. missing \subseteq 0 .. k /\ sent .. k - 1 \subseteq 0 .. k  BY <3>1, <3>2
      <4> QED BY <3>1, <3>2, <4>1
    <3>3. CASE UNCHANGED net  BY <3>3 DEF net
    <3>4. CASE missing' = missing \ {k} /\ UNCHANGED sent  BY <3>4
    <3>5. Arrives(k)  OBVIOUS
    <3> QED
      <4>1. ASSUME k \in sent .. sent + (IF sent = 0 THEN 0 ELSE MaxLoss)  PROVE k >= sent
        BY <4>1, <3>1, SeqAssumption
      <4> QED BY <3>2, <3>3, <3>4, <3>5, <4>1 DEF Arrives
  <2>2. seqPrev' \in -1 .. SeqModulus - 1
    <3>1. SeqOf(k) \in 0 .. SeqModulus - 1  BY SeqAssumption DEF SeqOf
    <3>2. seqPrev' = SeqOf(k)  BY DEF AccountFor
    <3> QED BY <3>1, <3>2, SeqAssumption
  <2>3. gaps' \in Nat /\ lost' \in Nat
    <3> DEFINE d == (SeqOf(k) - seqPrev) % SeqModulus
    <3>1. SeqOf(k) \in Int  BY SeqAssumption DEF SeqOf
    <3>a. seqPrev \in Int /\ SeqModulus \in Nat \ {0}  BY SeqAssumption
    <3>2. d \in Int
      <4>1. SeqOf(k) - seqPrev \in Int  BY <3>1, <3>a
      <4>2. d \in 0 .. SeqModulus - 1  BY <4>1, <3>a, ModType
      <4> HIDE DEF d
      <4> QED BY <4>2, <3>a
    <3>3. (d - 1) % SeqModulus \in Nat
      <4> HIDE DEF d
      <4>1. d - 1 \in Int  BY <3>2
      <4>2. (d - 1) % SeqModulus \in 0 .. SeqModulus - 1  BY <4>1, <3>a, ModType
      <4> QED BY <4>2, <3>a
    <3> DEFINE more == (d - 1) % SeqModulus
    <3>4. \/ gaps' = gaps + 1 /\ lost' = lost + more
          \/ gaps' = gaps /\ lost' = lost
      BY DEF AccountFor
    <3>5. gaps \in Nat /\ lost \in Nat  BY DEF Inv, TypeOK
    <3>6. more \in Nat  BY <3>3
    <3> HIDE DEF more
    <3> QED BY ONLY <3>4, <3>5, <3>6
  <2>4. frames' \in Nat /\ nbytes' \in Nat /\ plen' \in Lens \cup {0}  BY LensAssumption
  <2>5. recv' = "push"  OBVIOUS
  <2> QED BY <2>1, <2>2, <2>3, <2>4, <2>5 DEF ring, output
<1>2. RingInv' /\ FileInv'
  BY DEF Inv, RingInv, FileInv, Receive, Room, ring, output
<1>3. AccountInv'
  BY LensAssumption DEF Inv, TypeOK, AccountInv, Between, Receive, ring, output
<1> QED BY <1>1, <1>2, <1>3 DEF Inv

LEMMA PushCopyInv == ASSUME Inv, PushCopy PROVE Inv'
<1> USE DEF Inv, PushCopy
<1>0. /\ head \in Nat /\ tail \in Nat /\ plen \in Nat /\ head - tail \in 0 .. Size
      /\ plen <= Room /\ buf \in [0 .. Size - 1 -> Int]
  BY LensAssumption DEF TypeOK, RingInv
<1>1. TypeOK'
  <2>1. buf' \in [0 .. Size - 1 -> Int]  BY <1>0, CopiedType
  <2> QED BY <2>1 DEF TypeOK, net, counters, output
<1>2. RingInv'
  <2>1. \A i \in head .. head + plen - 1 : buf'[Slot(i)] = i  BY <1>0, CopiedBytes
  <2>2. \A i \in tail .. head - 1 : buf'[Slot(i)] = i
    BY <1>0, CopiedBytes DEF RingInv
  <2> QED BY <1>0, <2>1, <2>2 DEF RingInv, Room, Slot, output
<1>3. FileInv' /\ AccountInv'
  BY DEF FileInv, AccountInv, Between, net, counters, output
<1> QED BY <1>1, <1>2, <1>3

LEMMA PushPublishInv == ASSUME Inv, PushPublish PROVE Inv'
<1> USE DEF Inv, PushPublish
<1>0. /\ head \in Nat /\ tail \in Nat /\ plen \in Nat /\ head - tail \in 0 .. Size
      /\ plen <= Room /\ Size \in Nat
  BY LensAssumption, SizeAssumption DEF TypeOK, RingInv
<1>1. TypeOK'  BY <1>0 DEF TypeOK, Room, net, counters, output
<1>2. RingInv'
  <2>1. \A i \in tail .. head' - 1 : buf'[Slot(i)] = i  BY <1>0 DEF RingInv
  <2> QED BY <1>0, <2>1 DEF RingInv, Room, Slot, TypeOK, output
<1>3. FileInv' /\ AccountInv'
  BY <1>0 DEF FileInv, AccountInv, Between, TypeOK, net, counters, output
<1> QED BY <1>1, <1>2, <1>3

LEMMA MainEndsInv == Inv /\ (TimeUp \/ Exit) => Inv'
BY DEF Inv, TypeOK, RingInv, FileInv, AccountInv, Between, Room, TimeUp, Exit,
       net, counters, ring, output

LEMMA WriterLooksInv == ASSUME Inv, Open \/ ReadContig \/ Empty PROVE Inv'
<1> USE DEF Open, ReadContig, Empty, mainOnly, net, counters
<1>0. /\ head \in Nat /\ tail \in Nat /\ head - tail \in 0 .. Size /\ Size \in Nat
      /\ wlen \in 0 .. Size
  BY SizeAssumption DEF Inv, TypeOK
<1>1. Contiguous \in 0 .. head - tail  BY <1>0, ContiguousBound
<1>2. TypeOK'
  <2>1. wlen' \in 0 .. Size  BY <1>0, <1>1
  <2> QED BY <2>1 DEF Inv, TypeOK
<1>3. RingInv'
  <2>1. Room' = Room  BY DEF Room
  <2>2. (writer' = "write" => wlen' \in 1 .. head - tail) /\ writer' # "advance"
    BY <1>0, <1>1
  <2> QED BY <2>1, <2>2 DEF Inv, RingInv, Slot
<1>4. FileInv'  BY DEF Inv, FileInv
<1>5. AccountInv'  BY DEF Inv, AccountInv, Between
<1> QED BY <1>2, <1>3, <1>4, <1>5 DEF Inv

\* What one write() takes is the next bytes of the stream.
LEMMA WrittenBytes ==
  ASSUME Inv, writer = "write", NEW k \in 1 .. wlen
  PROVE  [i \in 1 .. k |-> buf[Slot(tail + i - 1)]] = [i \in 1 .. k |-> Len(file) + i - 1]
<1>1. head \in Nat /\ tail \in Nat /\ wlen \in 1 .. head - tail /\ Len(file) = tail
  BY DEF Inv, TypeOK, RingInv, FileInv
<1>2. \A i \in 1 .. k : buf[Slot(tail + i - 1)] = tail + i - 1
  <2> SUFFICES ASSUME NEW i \in 1 .. k PROVE buf[Slot(tail + i - 1)] = tail + i - 1  OBVIOUS
  <2>1. tail + i - 1 \in tail .. head - 1  BY <1>1
  <2> QED BY <2>1 DEF Inv, RingInv
<1> QED BY <1>1, <1>2

LEMMA Concatenation ==
  ASSUME NEW s \in Seq(Int), NEW t \in Seq(Int)
  PROVE  /\ s \o t \in Seq(Int)
         /\ Len(s \o t) = Len(s) + Len(t)
         /\ \A i \in 1 .. Len(s \o t) : (s \o t)[i] = IF i <= Len(s) THEN s[i] ELSE t[i - Len(s)]
  OBVIOUS

LEMMA WriteInv == ASSUME Inv, Write PROVE Inv'
<1> USE DEF Inv, Write
<1>1. CASE writer' = "gone" /\ failed' = TRUE /\ UNCHANGED <<file, wlen>>
  BY <1>1 DEF TypeOK, RingInv, FileInv, AccountInv, Between, Room, Slot, mainOnly, net, counters
<1>2. ASSUME NEW k \in 1 .. wlen,
             file' = file \o [i \in 1 .. k |-> buf[Slot(tail + i - 1)]],
             wlen' = k, writer' = "advance", UNCHANGED failed
      PROVE  Inv'
  <2>1. file' = file \o [i \in 1 .. k |-> Len(file) + i - 1]  BY <1>2, WrittenBytes
  <2>2. /\ head \in Nat /\ tail \in Nat /\ wlen \in 1 .. head - tail /\ Len(file) = tail
        /\ file \in Seq(Int) /\ head - tail \in 0 .. Size
    BY DEF TypeOK, RingInv, FileInv
  <2> DEFINE more == [i \in 1 .. k |-> Len(file) + i - 1]
  <2>3. more \in Seq(Int) /\ Len(more) = k /\ \A i \in 1 .. k : more[i] = Len(file) + i - 1
    BY <2>2
  <2> HIDE DEF more
  <2>0. file' = file \o more  BY <2>1 DEF more
  <2>4. file' \in Seq(Int) /\ Len(file') = Len(file) + k
    BY ONLY <2>0, <2>2, <2>3, Concatenation
  <2>5. \A i \in 1 .. Len(file') : file'[i] = i - 1
    <3> SUFFICES ASSUME NEW i \in 1 .. Len(file') PROVE file'[i] = i - 1  OBVIOUS
    <3>1. file'[i] = IF i <= Len(file) THEN file[i] ELSE more[i - Len(file)]
      BY ONLY <2>0, <2>2, <2>3, Concatenation
    <3>2. CASE i <= Len(file)  BY <3>1, <3>2 DEF FileInv
    <3>3. CASE i > Len(file)
      <4>1. i - Len(file) \in 1 .. k  BY <3>3, <2>4, <2>2
      <4> QED BY <3>1, <3>3, <4>1, <2>2, <2>3
    <3> QED BY <3>2, <3>3, <2>2
  <2>6. TypeOK'
    <3>1. wlen' \in 0 .. Size  BY <1>2, <2>2, SizeAssumption
    <3> QED BY <1>2, <2>4, <3>1 DEF TypeOK, mainOnly, net, counters
  <2>7. RingInv'  BY <1>2, <2>2 DEF RingInv, Room, Slot, mainOnly
  <2>8. FileInv'  BY <1>2, <2>2, <2>4, <2>5 DEF FileInv
  <2>9. AccountInv'  BY <1>2 DEF AccountInv, Between, mainOnly, counters
  <2> QED BY <2>6, <2>7, <2>8, <2>9
<1> QED BY <1>1, <1>2

LEMMA AdvanceInv == ASSUME Inv, Advance PROVE Inv'
<1> USE DEF Inv, Advance
<1>0. /\ head \in Nat /\ tail \in Nat /\ wlen \in Nat /\ wlen <= head - tail
      /\ head - tail \in 0 .. Size /\ Size \in Nat
  BY SizeAssumption DEF TypeOK, RingInv
<1>1. TypeOK'  BY <1>0 DEF TypeOK, mainOnly, net, counters
<1>2. RingInv'
  <2>1. plen \in Nat  BY LensAssumption DEF TypeOK
  <2>2. recv' \in {"copy", "publish"} => plen' <= Room'
    BY <1>0, <2>1 DEF RingInv, Room, mainOnly
  <2>3. \A i \in tail' .. head' - 1 : buf'[Slot(i)] = i  BY <1>0 DEF RingInv, mainOnly
  <2>4. recv' = "publish" => \A i \in head' .. head' + plen' - 1 : buf'[Slot(i)] = i
    BY DEF RingInv, mainOnly
  <2> QED BY <2>2, <2>3, <2>4 DEF RingInv, Slot
<1>3. FileInv' /\ AccountInv'
  BY <1>0 DEF FileInv, AccountInv, Between, mainOnly, counters
<1> QED BY <1>1, <1>2, <1>3

LEMMA NextInv == Inv /\ [Next]_vars => Inv'
<1> SUFFICES ASSUME Inv, [Next]_vars PROVE Inv'  OBVIOUS
<1>1. CASE UNCHANGED vars
  <2> USE <1>1 DEF vars, net, counters, ring, output, Inv
  <2>1. TypeOK'  BY DEF TypeOK
  <2>2. RingInv'  BY DEF RingInv, Room, Slot
  <2>3. FileInv'  BY DEF FileInv
  <2>4. AccountInv'  BY DEF AccountInv, Between
  <2> QED BY <2>1, <2>2, <2>3, <2>4
<1>2. ASSUME NEW k \in 0 .. sent + MaxLoss, NEW len \in Lens, Receive(k, len)  PROVE Inv'
  BY <1>2, ReceiveInv
<1> QED BY <1>1, <1>2, TickInv, MainWaits, PushCopyInv, PushPublishInv, MainEndsInv,
           WriterLooksInv, WriteInv, AdvanceInv
        DEF Next, Arrival, Main, Writer

(* All of it together holds in every state of the two threads.                *)
THEOREM Invariance == Spec => []Inv
BY InitInv, NextInv, PTL DEF Spec

------------------------------------------------------------------------------
(* The types and bounds of the program's variables: in particular head is     *)
(* never more than a ring ahead of tail.                                      *)
THEOREM GrabTypeCorrect == Spec => []TypeOK
BY Invariance, PTL DEF Inv

(* The bytes that main copies in are never those that write() may be reading. *)
THEOREM NoByteShared == Spec => []ThreadsKeepApart
<1>1. Inv => ThreadsKeepApart
  <2> SUFFICES ASSUME Inv, recv = "copy", writer = "write",
                      NEW i \in head .. head + plen - 1, NEW j \in tail .. tail + wlen - 1
               PROVE  Slot(i) # Slot(j)
    BY DEF ThreadsKeepApart, Slots
  <2>1. /\ head \in Nat /\ tail \in Nat /\ plen \in Nat /\ plen <= Room
        /\ wlen \in 1 .. head - tail /\ Size \in Nat /\ head - tail \in 0 .. Size
    BY LensAssumption, SizeAssumption DEF Inv, TypeOK, RingInv
  <2>2. i \in Nat /\ j \in Nat /\ j < i /\ i - j < Size  BY <2>1 DEF Room
  <2> QED BY <2>1, <2>2, SlotIsOwn
<1> QED BY <1>1, Invariance, PTL

(* Exit of a writer that did not fail: all that was accepted is in the file.  *)
THEOREM NothingLeftBehind == Spec => []EverythingSaved
<1>1. Inv => EverythingSaved
  BY DEF Inv, TypeOK, FileInv, AccountInv, Between, EverythingSaved
<1> QED BY <1>1, Invariance, PTL

(* The ring and its two threads implement a bounded first-in first-out queue. *)
THEOREM FileIsTheStream == Spec => InOrder
<1>1. Init => Fifo!FifoInit  BY DEF Init, Fifo!FifoInit
<1>2. Inv /\ [Next]_vars => [Fifo!Accept \/ Fifo!Save]_(Fifo!fifoVars)
  <2> SUFFICES ASSUME Inv, [Next]_vars,
                      ~UNCHANGED <<head, file>>
               PROVE  Fifo!Accept \/ Fifo!Save
    BY DEF Fifo!fifoVars
  <2>1. PushPublish \/ Write
    BY DEF Next, Arrival, Main, Writer, Tick, Wait, Receive, Runt, PushDrop, PushStart, PushCopy,
           TimeUp, Exit, Open, ReadContig, Empty, Advance, vars, ring, output, mainOnly
  <2>2. head \in Nat /\ tail \in Nat /\ head - tail \in 0 .. Size /\ Size \in Nat
    BY SizeAssumption DEF Inv, TypeOK
  <2>3. CASE PushPublish
    <3>1. plen \in Nat /\ plen <= Size - (head - tail) /\ Len(file) >= tail /\ Len(file) \in Nat
          /\ Len(file) <= head
      BY <2>2, <2>3, LensAssumption
         DEF Inv, TypeOK, RingInv, FileInv, Room, PushPublish
    <3>2. plen \in 0 .. Size - (head - Len(file))  BY <3>1, <2>2
    <3>3. head' = head + plen /\ UNCHANGED file  BY <2>3 DEF PushPublish, output
    <3> QED BY <3>2, <3>3 DEF Fifo!Accept
  <2>4. CASE Write
    <3>1. PICK k \in 1 .. wlen : file' = file \o [i \in 1 .. k |-> buf[Slot(tail + i - 1)]]
      BY <2>4 DEF Write, mainOnly
    <3>2. file' = file \o [i \in 1 .. k |-> Len(file) + i - 1]
      BY <3>1, <2>4, WrittenBytes DEF Write
    <3>3. k \in 0 .. head - Len(file)
      BY <2>2, <2>4 DEF Inv, RingInv, FileInv, Write, TypeOK
    <3>4. UNCHANGED head  BY <2>4 DEF Write, mainOnly
    <3> QED BY <3>2, <3>3, <3>4 DEF Fifo!Save
  <2> QED BY <2>1, <2>3, <2>4
<1> QED BY <1>1, <1>2, Invariance, PTL DEF Spec, InOrder, Fifo!FifoSpec

------------------------------------------------------------------------------
(* The accounts of the lost frames, for a run that is not so long that half   *)
(* of the sequence numbers are used.                                          *)
ShortRun == MaxFrames * (MaxLoss + 1) <= SeqModulus \div 2
LossInv ==
  /\ frames \in 0 .. MaxFrames /\ sent <= frames * (MaxLoss + 1)
  /\ sent = 0 => seqPrev = -1 /\ missing = {}
  /\ sent > 0 => \E p \in 0 .. sent - 1 : seqPrev = SeqOf(p)
  /\ lost >= Cardinality(missing)
  /\ gaps = 0 => lost = 0

\* A remainder is known by what it leaves.
LEMMA RemainderIs ==
  ASSUME NEW M \in Nat \ {0}, NEW x \in Int, NEW q \in Int, NEW r \in 0 .. M - 1,
         x = M * q + r
  PROVE  x % M = r
<1>1. x = M * (x \div M) + (x % M) /\ x \div M \in Int /\ x % M \in 0 .. M - 1  OBVIOUS
<1> DEFINE e == q - (x \div M)
<1>2. e \in Int  BY <1>1
<1>3. M * e = (x % M) - r  BY <1>1
<1>4. M * (-e) = r - (x % M)  BY <1>1, <1>3
<1> HIDE DEF e
<1>5. ~(e >= 1)  BY <1>1, <1>2, <1>3, MultipleIsLarge
<1>6. ~(-e >= 1)  BY <1>1, <1>2, <1>4, MultipleIsLarge
<1>7. e = 0  BY <1>2, <1>5, <1>6
<1> QED BY <1>1, <1>3, <1>7

\* The difference of two sequence numbers is the distance of the frames, if that is small.
LEMMA Distance ==
  ASSUME NEW p \in Nat, NEW k \in Nat, p <= k, k - p < SeqModulus
  PROVE  (SeqOf(k) - SeqOf(p)) % SeqModulus = k - p
<1> DEFINE M == SeqModulus
           a == SeqStart + k
           b == SeqStart + p
<1>1. M \in Nat \ {0} /\ a \in Int /\ b \in Int /\ a - b = k - p  BY SeqAssumption
<1>2. SeqOf(k) = a % M /\ SeqOf(p) = b % M  BY DEF SeqOf
<1> HIDE DEF M, a, b
<1>3. /\ a = M * (a \div M) + (a % M) /\ b = M * (b \div M) + (b % M)
      /\ a \div M \in Int /\ b \div M \in Int /\ a % M \in Int /\ b % M \in Int
  BY <1>1
<1> DEFINE q == (b \div M) - (a \div M)
<1>4. q \in Int /\ (a % M) - (b % M) = M * q + (k - p)  BY <1>1, <1>3
<1> HIDE DEF q
<1>5. k - p \in 0 .. M - 1  BY <1>1 DEF M
<1>6. ((a % M) - (b % M)) % M = k - p  BY <1>1, <1>3, <1>4, <1>5, RemainderIs
<1> QED BY <1>2, <1>6 DEF M

\* What AccountFor makes of a sequence number never makes the loss less.
LEMMA Accounted ==
  ASSUME TypeOK, NEW seq \in 0 .. SeqModulus - 1, AccountFor(seq)
  PROVE  /\ seqPrev' = seq /\ lost' \in Nat /\ lost' >= lost /\ gaps' \in Nat
         /\ gaps' = 0 => gaps = 0 /\ lost' = lost
<1> DEFINE d == (seq - seqPrev) % SeqModulus
<1>1. SeqModulus \in Nat \ {0} /\ lost \in Nat /\ gaps \in Nat /\ seqPrev \in Int
  BY SeqAssumption DEF TypeOK
<1>2. d \in 0 .. SeqModulus - 1  BY <1>1, ModType
<1> HIDE DEF d
<1>3. ((d - 1) % SeqModulus) \in Nat  BY <1>1, <1>2, ModType
<1>4. CASE seqPrev # -1 /\ IsGap(d)
  <2>1. seqPrev' = seq /\ gaps' = gaps + 1 /\ lost' = lost + ((d - 1) % SeqModulus)
    BY <1>4 DEF AccountFor, d
  <2> QED BY <1>1, <1>3, <2>1
<1>5. CASE ~(seqPrev # -1 /\ IsGap(d))
  <2>1. seqPrev' = seq /\ gaps' = gaps /\ lost' = lost
    BY <1>5 DEF AccountFor, d
  <2> QED BY <1>1, <2>1
<1> QED BY <1>4, <1>5

\* The frames between the last one and one that is further are counted.
LEMMA GapCounted ==
  ASSUME TypeOK, NEW p \in Nat, NEW k \in Nat, p < k, seqPrev = SeqOf(p),
         k < SeqModulus \div 2, AccountFor(SeqOf(k))
  PROVE  lost' >= lost + (k - p - 1)
<1> DEFINE d == (SeqOf(k) - seqPrev) % SeqModulus
<1>1. SeqModulus \in Nat \ {0} /\ SeqModulus % 2 = 0 /\ lost \in Nat  BY SeqAssumption DEF TypeOK
<1>2. k < SeqModulus /\ k - p < SeqModulus /\ SeqModulus \div 2 \in Int  BY <1>1
<1>3. d = k - p  BY <1>2, Distance
<1>4. seqPrev # -1
  <2>1. SeqStart + p \in Int  BY SeqAssumption
  <2>2. SeqOf(p) \in 0 .. SeqModulus - 1  BY <1>1, <2>1, ModType DEF SeqOf
  <2> QED BY <2>2
<1>5. AccountFor(SeqOf(k)) =>
        IF seqPrev # -1 /\ IsGap(d) THEN lost' = lost + ((d - 1) % SeqModulus) ELSE lost' = lost
  BY DEF AccountFor
<1> HIDE DEF d
<1>6. CASE d = 1
  <2>1. ~IsGap(d)  BY <1>6 DEF IsGap
  <2> QED BY <1>1, <1>3, <1>5, <1>6, <2>1
<1>7. CASE d # 1
  <2>1. IsGap(d)  BY <1>2, <1>3, <1>7 DEF IsGap
  <2>2. d - 1 \in 0 .. SeqModulus - 1 /\ d - 1 = SeqModulus * 0 + (d - 1)  BY <1>1, <1>2, <1>3, <1>7
  <2>3. (d - 1) % SeqModulus = d - 1  BY <1>1, <2>2, RemainderIs
  <2> QED BY <1>1, <1>3, <1>4, <1>5, <2>1, <2>3
<1> QED BY <1>6, <1>7

LEMMA InitLoss == Init => LossInv
<1> SUFFICES ASSUME Init PROVE LossInv  OBVIOUS
<1>1. Cardinality({}) = 0  BY FS_EmptySet
<1>2. MaxFrames \in Nat /\ 0 * (MaxLoss + 1) = 0  BY SeqAssumption
<1> QED BY <1>1, <1>2 DEF Init, LossInv

LEMMA ReceiveLoss ==
  ASSUME ShortRun, TypeOK, LossInv, NEW k \in 0 .. sent + MaxLoss, NEW len \in Lens, Receive(k, len)
  PROVE  LossInv'
<1>1. /\ sent \in Nat /\ missing \subseteq 0 .. sent - 1 /\ lost \in Nat /\ k \in Nat
      /\ frames \in Nat /\ frames < MaxFrames /\ frames' = frames + 1
      /\ MaxLoss \in Nat /\ MaxFrames \in Nat /\ SeqModulus \in Nat \ {0} /\ SeqStart \in Nat
  BY SeqAssumption DEF TypeOK, Receive
<1>2. IsFiniteSet(missing) /\ Cardinality(missing) \in Nat
  <2>1. IsFiniteSet(0 .. sent - 1)  BY <1>1, FS_Interval
  <2> QED BY <1>1, <2>1, FS_Subset, FS_CardinalityType
<1>3. SeqOf(k) \in 0 .. SeqModulus - 1
  <2>1. SeqStart + k \in Int  BY <1>1
  <2> QED BY <1>1, <2>1, ModType DEF SeqOf
<1>4. /\ seqPrev' = SeqOf(k) /\ lost' \in Nat /\ lost' >= lost
      /\ gaps' = 0 => gaps = 0 /\ lost' = lost
  BY <1>3, Accounted DEF Receive
<1>5. /\ sent + MaxLoss < (frames + 1) * (MaxLoss + 1)
      /\ (frames + 1) * (MaxLoss + 1) <= MaxFrames * (MaxLoss + 1)
  <2>1. (frames + 1) * (MaxLoss + 1) = frames * (MaxLoss + 1) + (MaxLoss + 1)
        /\ frames * (MaxLoss + 1) \in Int /\ sent <= frames * (MaxLoss + 1)
    BY <1>1 DEF LossInv
  <2>2. PICK r \in Nat : MaxFrames = frames + 1 + r
    <3>1. MaxFrames - frames - 1 \in Nat /\ MaxFrames = frames + 1 + (MaxFrames - frames - 1)
      BY <1>1
    <3> QED BY <3>1
  <2>3. MaxFrames * (MaxLoss + 1) = (frames + 1) * (MaxLoss + 1) + r * (MaxLoss + 1)
    BY <1>1, <2>2
  <2>4. r * (MaxLoss + 1) \in Nat /\ (frames + 1) * (MaxLoss + 1) \in Int  BY <1>1, <2>2
  <2>5. sent + MaxLoss < (frames + 1) * (MaxLoss + 1)  BY <1>1, <2>1
  <2> QED BY <2>3, <2>4, <2>5
<1>6. frames' \in 0 .. MaxFrames /\ (gaps' = 0 => lost' = 0)
  BY <1>1, <1>4 DEF LossInv
<1>7. CASE k \in sent .. sent + (IF sent = 0 THEN 0 ELSE MaxLoss)
           /\ sent' = k + 1 /\ missing' = missing \cup (sent .. k - 1)
  <2>1. sent' <= frames' * (MaxLoss + 1)
    <3>1. k <= sent + MaxLoss  OBVIOUS
    <3>2. (frames + 1) * (MaxLoss + 1) \in Int  BY <1>1
    <3>3. sent' <= (frames + 1) * (MaxLoss + 1)  BY <1>1, <1>5, <1>7, <3>1, <3>2
    <3> QED BY <1>1, <3>3
  <2>2. sent' # 0 /\ k \in 0 .. sent' - 1  BY <1>1, <1>7
  <2>3. lost' >= Cardinality(missing')
    <3>1. CASE sent = 0
      <4>1. k = 0 /\ missing = {} /\ missing' = {}  BY <1>1, <1>7, <3>1 DEF LossInv
      <4> QED BY <1>4, <4>1, FS_EmptySet
    <3>2. CASE sent # 0
      <4>1. PICK p \in 0 .. sent - 1 : seqPrev = SeqOf(p)  BY <1>1, <3>2 DEF LossInv
      <4>2. p \in Nat /\ p < k /\ k - p - 1 >= k - sent  BY <1>1, <1>7, <4>1
      <4>3. k < SeqModulus \div 2
        <5>1. (frames + 1) * (MaxLoss + 1) \in Int /\ MaxFrames * (MaxLoss + 1) \in Int
              /\ SeqModulus \div 2 \in Int
          BY <1>1
        <5>2. k <= sent + MaxLoss  BY <1>1
        <5> QED BY <1>1, <1>5, <5>1, <5>2 DEF ShortRun
      <4>4. lost' >= lost + (k - p - 1)  BY <1>1, <4>1, <4>2, <4>3, GapCounted DEF Receive
      <4>5. IsFiniteSet(sent .. k - 1) /\ Cardinality(sent .. k - 1) = k - sent
        <5>1. k - 1 \in Int /\ sent \in Int /\ (sent > k - 1 => k - sent = 0)
              /\ (~(sent > k - 1) => (k - 1) - sent + 1 = k - sent)
          BY <1>1, <1>7
        <5> QED BY <5>1, FS_Interval
      <4>6. Cardinality(missing') <= Cardinality(missing) + (k - sent)
        <5>1. missing \cap (sent .. k - 1) = {}  BY <1>1
        <5>2. Cardinality(missing \cap (sent .. k - 1)) = 0  BY <5>1, FS_EmptySet
        <5>3. Cardinality(missing \cup (sent .. k - 1)) =
                Cardinality(missing) + Cardinality(sent .. k - 1)
                - Cardinality(missing \cap (sent .. k - 1))
          BY <1>2, <4>5, FS_Union
        <5>4. missing' = missing \cup (sent .. k - 1) /\ k - sent \in Int  BY <1>1, <1>7
        <5> QED BY <1>2, <4>5, <5>2, <5>3, <5>4
      <4>7. Cardinality(missing') \in Nat
        BY <1>2, <1>7, <4>5, FS_Union, FS_CardinalityType
      <4> QED BY <1>1, <1>2, <1>4, <4>1, <4>2, <4>4, <4>6, <4>7 DEF LossInv
    <3> QED BY <3>1, <3>2
  <2> QED BY <1>4, <1>6, <2>1, <2>2, <2>3 DEF LossInv, SeqOf
<1>8. CASE sent' = sent /\ (\/ k = sent - 1 /\ missing' = missing
                            \/ k \in missing /\ missing' = missing \ {k})
  <2>1. sent # 0 /\ k \in 0 .. sent - 1  BY <1>1, <1>8
  <2>2. sent' <= frames' * (MaxLoss + 1)
    <3>1. (frames + 1) * (MaxLoss + 1) \in Int  BY <1>1
    <3> QED BY <1>1, <1>5, <1>8, <3>1
  <2>3. Cardinality(missing') \in Nat /\ Cardinality(missing') <= Cardinality(missing)
    <3>1. missing' \subseteq missing  BY <1>8
    <3> QED BY <1>2, <3>1, FS_Subset, FS_CardinalityType
  <2>4. lost' >= Cardinality(missing')  BY <1>1, <1>2, <1>4, <2>3 DEF LossInv
  <2> QED BY <1>4, <1>6, <1>8, <2>1, <2>2, <2>4 DEF LossInv, SeqOf
<1> QED BY <1>7, <1>8 DEF Receive, Arrives, net

LEMMA NextLoss == ShortRun /\ TypeOK /\ LossInv /\ [Next]_vars => LossInv'
<1> SUFFICES ASSUME ShortRun, TypeOK, LossInv, [Next]_vars PROVE LossInv'  OBVIOUS
<1>1. CASE \E k \in 0 .. sent + MaxLoss, len \in Lens : Receive(k, len)
  BY <1>1, ReceiveLoss
<1>2. CASE ~\E k \in 0 .. sent + MaxLoss, len \in Lens : Receive(k, len)
  <2>1. UNCHANGED <<net, counters>>
    BY <1>2 DEF Next, Arrival, Main, Writer, Tick, Wait, Runt, PushDrop, PushStart, PushCopy,
           PushPublish, TimeUp, Exit, Open, ReadContig, Empty, Write, Advance, vars, mainOnly
  <2> QED BY <2>1 DEF LossInv, SeqOf, net, counters
<1> QED BY <1>1, <1>2

LEMMA LossInvariance == ASSUME ShortRun PROVE Spec => []LossInv
<1>1. Init => LossInv  BY InitLoss
<1>2. TypeOK /\ LossInv /\ [Next]_vars => LossInv'  BY NextLoss
<1> QED BY <1>1, <1>2, GrabTypeCorrect, PTL DEF Spec

(* The frames reported lost are at least those that are missing, across the   *)
(* wrap of the sequence numbers and whatever is lost, repeated or late, in a  *)
(* run that uses less than half of the numbers (cortrace_grab.c:193-201).     *)
THEOREM LossCounted == ASSUME ShortRun PROVE Spec => []LossNeverUndercounted
<1>1. LossInv => LossNeverUndercounted  BY DEF LossInv, LossNeverUndercounted
<1> QED BY <1>1, LossInvariance, PTL

(* Exit code 0 of a writer that did not fail means that no frame between the  *)
(* first and the last is missing and that the file holds all the bytes        *)
(* received, in such a run.                                                   *)
THEOREM ZeroIsComplete == ASSUME ShortRun PROVE Spec => []ExitZeroIsComplete
<1>1. Inv /\ LossInv /\ EverythingSaved => ExitZeroIsComplete
  <2> SUFFICES ASSUME Inv, LossInv, EverythingSaved, recv = "exited", gaps = 0, dropped = 0,
                      ~failed
               PROVE  missing = {} /\ Len(file) = nbytes
    BY DEF ExitZeroIsComplete, ExitCode
  <2>1. Len(file) = nbytes
    <3>1. Len(file) \in Nat  BY DEF Inv, TypeOK
    <3> QED BY <3>1 DEF EverythingSaved
  <2>2. IsFiniteSet(missing)
    <3>1. sent \in Nat /\ missing \subseteq 0 .. sent - 1  BY DEF Inv, TypeOK
    <3>2. IsFiniteSet(0 .. sent - 1)  BY <3>1, FS_Interval
    <3> QED BY <3>1, <3>2, FS_Subset
  <2>3. Cardinality(missing) = 0
    <3>1. Cardinality(missing) \in Nat  BY <2>2, FS_CardinalityType
    <3> QED BY <3>1 DEF LossInv
  <2> QED BY <2>1, <2>2, <2>3, FS_EmptySet
<1> QED BY <1>1, Invariance, NothingLeftBehind, LossInvariance, PTL

------------------------------------------------------------------------------
\* capture.py.

Grabs == at \in {"width", "grab"}
HasRaw == at \in {"symbols", "dump", "resolve", "decode", "done"}

\* The raw file is this run's, or the one given; the other files follow from it.
Chain ==
  /\ Grabs => opt.rawIn = None /\ run > 0
  /\ HasRaw /\ opt.rawIn = None => raw[opt.tag].capture = run
  /\ at = "resolve" => values[opt.tag] = raw[Source].capture
  /\ at = "decode" => map[opt.tag] = raw[Source].capture
  /\ ResultOfOneCapture

\* The width on its way from the option to the FPGA, the raw file and the decoder.
WidthKept ==
  /\ at = "width" => opt.width # None
  /\ at = "grab" /\ heard => fpga.width = Told /\ fpga.armed
  /\ HasRaw /\ opt.rawIn = None /\ heard => raw[opt.tag].width = Told /\ raw[opt.tag].synced
  /\ DecodedAsCaptured

PipeInv == PipeTypeOK /\ Chain /\ WidthKept

LEMMA SourceIsTag == opt \in Options => opt.tag \in Tags /\ Source \in Tags /\ Told \in PortWidths
  BY WidthsAssumption, TagsAssumption DEF Options, Source, Told

LEMMA PipeInitInv == PipeInit => PipeInv
<1>. SUFFICES ASSUME PipeInit
              PROVE  PipeInv
  OBVIOUS
<1>1. NoRaw \in Raws /\ NoTrace \in Traces /\ 0 \in Captures /\ 0 \in 0..MaxRuns
  BY WidthsAssumption, RunsAssumption DEF NoRaw, NoTrace, Raws, Traces, Captures, Absent
<1>2. opt \in Options
  BY DEF PipeInit, Options
<1>3. PipeTypeOK
  <2>1. /\ raw \in [Tags -> Raws] /\ perf \in [Tags -> Traces]
        /\ values \in [Tags -> Captures] /\ map \in [Tags -> Captures]
        /\ notes \in [Tags -> Captures]
    BY <1>1 DEF PipeInit, Absent
  <2>2. \A t \in Tags: raw[t].capture <= run
    <3>1. NoRaw.capture = 0
      BY DEF NoRaw, Absent
    <3>2. run = 0 /\ \A t \in Tags: raw[t] = NoRaw
      BY DEF PipeInit
    <3>3. 0 <= 0
      OBVIOUS
    <3>. QED
      BY <3>1, <3>2, <3>3, Zenon
  <2>. QED
    BY <1>1, <1>2, <2>1, <2>2 DEF PipeInit, PipeTypeOK
<1>4. at = "idle"
  BY DEF PipeInit
<1>. QED
  BY <1>3, <1>4 DEF PipeInv, Chain, WidthKept, Grabs, HasRaw, ResultOfOneCapture, DecodedAsCaptured

LEMMA StartKeeps ==
  ASSUME PipeInv, NEW o \in Options, Start(o)
  PROVE  PipeInv'
<1>1. run' \in 0..MaxRuns /\ run' = run + 1 /\ run' > 0
  BY RunsAssumption DEF Start, PipeInv, PipeTypeOK
<1>2. \A t \in Tags: raw'[t].capture <= run'
  BY <1>1, RunsAssumption DEF Start, PipeInv, PipeTypeOK, Raws, Captures
<1>3. /\ at' = First(o) /\ opt' = o /\ heard' = FALSE /\ full' = FALSE
      /\ UNCHANGED <<fpga, raw, values, map, notes, perf>>
      /\ o.rawIn # None => raw[o.rawIn].capture # Absent
  BY DEF Start, Go, outputs
<1>4. at' \in {"symbols", "width", "grab"} /\ (at' = "symbols" <=> o.rawIn # None)
  BY <1>3 DEF First
<1>5. PipeTypeOK'
  BY <1>1, <1>2, <1>3, <1>4 DEF PipeInv, PipeTypeOK, Source
<1>6. Chain'
  <2>1. run' > 0
    BY <1>1
  <2>2. at' \notin {"dump", "resolve", "decode", "done"} /\ (at' = "symbols" => opt'.rawIn # None)
    BY <1>3, <1>4
  <2>3. at' \in {"width", "grab"} => opt'.rawIn = None
    BY <1>3, <1>4
  <2>. QED
    BY <2>1, <2>2, <2>3 DEF Chain, Grabs, HasRaw, ResultOfOneCapture
<1>7. at' = "width" => o.width # None
  BY <1>3 DEF First
<1>8. WidthKept'
  BY <1>3, <1>4, <1>7 DEF WidthKept, HasRaw, DecodedAsCaptured
<1>. QED
  BY <1>5, <1>6, <1>8 DEF PipeInv

LEMMA SetWidthKeeps == PipeInv /\ SetWidth => PipeInv'
<1>. SUFFICES ASSUME PipeInv, SetWidth
              PROVE  PipeInv'
  OBVIOUS
<1>1. PICK first, second \in BOOLEAN: fpga' = AfterSetWidth(first, second) /\ heard' = (first /\ second)
  BY DEF SetWidth
<1>2. at = "width" /\ at' = "grab" /\ UNCHANGED <<opt, run, full, raw, values, map, notes, perf>>
  BY DEF SetWidth, Go, outputs
<1>3. opt.width # None /\ opt.width \in PortWidths /\ Told = opt.width
  BY <1>2 DEF PipeInv, WidthKept, PipeTypeOK, Options, Told
<1>4. fpga' \in [width: PortWidths, armed: BOOLEAN]
  BY <1>1, <1>3 DEF AfterSetWidth, Rearmed, Narrowed, PipeInv, PipeTypeOK
<1>5. heard' => fpga'.width = Told /\ fpga'.armed
  BY <1>1, <1>3 DEF AfterSetWidth, Rearmed, Narrowed
<1>6. PipeTypeOK'
  BY <1>1, <1>2, <1>4 DEF PipeInv, PipeTypeOK
<1>7. Chain'
  BY <1>2 DEF PipeInv, Chain, Grabs, HasRaw, ResultOfOneCapture
<1>8. WidthKept'
  BY <1>2, <1>5 DEF WidthKept, HasRaw, DecodedAsCaptured, Told
<1>. QED
  BY <1>6, <1>7, <1>8 DEF PipeInv

LEMMA GrabKeeps == PipeInv /\ Grab => PipeInv'
<1>. SUFFICES ASSUME PipeInv, Grab
              PROVE  PipeInv'
  OBVIOUS
<1>1. /\ at = "grab" /\ at' = "symbols" /\ raw' = Filed(raw, Grabbed)
      /\ UNCHANGED <<fpga, opt, run, heard, full, values, map, notes, perf>>
  BY DEF Grab, Go, outputs
<1>2. opt \in Options /\ opt.rawIn = None /\ raw \in [Tags -> Raws] /\ run \in Captures
  BY <1>1 DEF PipeInv, PipeTypeOK, Chain, Grabs, Captures
<1>3. Grabbed \in Raws
  BY <1>2 DEF Grabbed, Raws, PipeInv, PipeTypeOK
<1>4. /\ raw' \in [Tags -> Raws] /\ raw'[opt.tag] = Grabbed
      /\ \A t \in Tags: t # opt.tag => raw'[t] = raw[t]
  BY <1>1, <1>2, <1>3, SourceIsTag DEF Filed
<1>5. Grabbed.capture = run /\ Grabbed.width = fpga.width /\ Grabbed.synced = fpga.armed
  BY DEF Grabbed
<1>6. run > 0 /\ run \in Nat /\ opt.tag \in Tags
  BY <1>1, <1>2, RunsAssumption, SourceIsTag DEF PipeInv, Chain, Grabs, PipeTypeOK
<1>7. Source' = opt.tag /\ Told' = Told
  BY <1>1, <1>2 DEF Source, Told
<1>8. \A t \in Tags: raw'[t].capture <= run'
  BY <1>1, <1>4, <1>5, <1>6 DEF PipeInv, PipeTypeOK
<1>9. PipeTypeOK'
  BY <1>1, <1>4, <1>5, <1>6, <1>7, <1>8 DEF PipeInv, PipeTypeOK, Absent
<1>10. Chain'
  BY <1>1, <1>2, <1>4, <1>5 DEF Chain, Grabs, HasRaw, ResultOfOneCapture
<1>11. WidthKept'
  BY <1>1, <1>4, <1>5, <1>7 DEF PipeInv, WidthKept, HasRaw, DecodedAsCaptured
<1>. QED
  BY <1>9, <1>10, <1>11 DEF PipeInv

LEMMA SymbolsKeeps == PipeInv /\ Symbols => PipeInv'
<1>. SUFFICES ASSUME PipeInv, Symbols
              PROVE  PipeInv'
  OBVIOUS
<1>1. /\ at = "symbols" /\ at' = "dump"
      /\ UNCHANGED <<fpga, opt, run, heard, full, raw, values, map, notes, perf>>
  BY DEF Symbols, Go, outputs
<1>2. Source' = Source /\ Told' = Told
  BY <1>1 DEF Source, Told
<1>3. PipeTypeOK'
  BY <1>1, <1>2 DEF PipeInv, PipeTypeOK
<1>4. Chain'
  BY <1>1 DEF PipeInv, Chain, Grabs, HasRaw, ResultOfOneCapture
<1>5. WidthKept'
  BY <1>1, <1>2 DEF PipeInv, WidthKept, HasRaw, DecodedAsCaptured
<1>. QED
  BY <1>3, <1>4, <1>5 DEF PipeInv

LEMMA DumpKeeps == PipeInv /\ DumpValues => PipeInv'
<1>. SUFFICES ASSUME PipeInv, DumpValues
              PROVE  PipeInv'
  OBVIOUS
<1>1. /\ at = "dump" /\ at' = "resolve" /\ values' = Filed(values, raw[Source].capture)
      /\ UNCHANGED <<fpga, opt, run, heard, full, raw, map, notes, perf>>
  BY DEF DumpValues, Go
<1>2. Source' = Source /\ Told' = Told
  BY <1>1 DEF Source, Told
<1>3. opt \in Options /\ values \in [Tags -> Captures] /\ raw[Source].capture \in Captures
  BY SourceIsTag DEF PipeInv, PipeTypeOK, Raws
<1>4. values' \in [Tags -> Captures] /\ values'[opt.tag] = raw[Source].capture
  BY <1>1, <1>3, SourceIsTag DEF Filed
<1>5. PipeTypeOK'
  BY <1>1, <1>2, <1>4 DEF PipeInv, PipeTypeOK
<1>6. Chain'
  BY <1>1, <1>2, <1>4 DEF PipeInv, Chain, Grabs, HasRaw, ResultOfOneCapture
<1>7. WidthKept'
  BY <1>1, <1>2 DEF PipeInv, WidthKept, HasRaw, DecodedAsCaptured
<1>. QED
  BY <1>5, <1>6, <1>7 DEF PipeInv

LEMMA ResolveKeeps == PipeInv /\ Resolve => PipeInv'
<1>. SUFFICES ASSUME PipeInv, Resolve
              PROVE  PipeInv'
  OBVIOUS
<1>1. /\ at = "resolve" /\ at' = "decode" /\ map' = Filed(map, values[opt.tag])
      /\ values' = Filed(values, Absent)
      /\ UNCHANGED <<fpga, opt, run, heard, full, raw, notes, perf>>
  BY DEF Resolve, Go
<1>2. Source' = Source /\ Told' = Told
  BY <1>1 DEF Source, Told
<1>3. /\ opt \in Options /\ values \in [Tags -> Captures] /\ map \in [Tags -> Captures]
      /\ values[opt.tag] \in Captures /\ Absent \in Captures
  BY SourceIsTag, RunsAssumption DEF PipeInv, PipeTypeOK, Captures, Absent
<1>4. /\ map' \in [Tags -> Captures] /\ map'[opt.tag] = values[opt.tag]
      /\ values' \in [Tags -> Captures]
  BY <1>1, <1>3, SourceIsTag DEF Filed
<1>5. PipeTypeOK'
  BY <1>1, <1>2, <1>4 DEF PipeInv, PipeTypeOK
<1>6. Chain'
  BY <1>1, <1>2, <1>4 DEF PipeInv, Chain, Grabs, HasRaw, ResultOfOneCapture
<1>7. WidthKept'
  BY <1>1, <1>2 DEF PipeInv, WidthKept, HasRaw, DecodedAsCaptured
<1>. QED
  BY <1>5, <1>6, <1>7 DEF PipeInv

\* What the decoder writes, whether it then reports success or not.
LEMMA DecoderWrites ==
  ASSUME PipeInv, NEW whole \in BOOLEAN
  PROVE  /\ Decoded(whole) \in Traces /\ Filed(perf, Decoded(whole)) \in [Tags -> Traces]
         /\ Filed(perf, Decoded(whole))[opt.tag] = Decoded(whole)
         /\ NotesOf \in [Tags -> Captures]
         /\ opt.notes => NotesOf[opt.tag] = raw[Source].capture
<1>1. /\ opt \in Options /\ opt.tag \in Tags /\ Told \in PortWidths
      /\ raw[Source].capture \in Captures /\ map[opt.tag] \in Captures
      /\ notes \in [Tags -> Captures] /\ perf \in [Tags -> Traces]
  BY SourceIsTag DEF PipeInv, PipeTypeOK, Raws
<1>2. Decoded(whole) \in Traces
  BY <1>1 DEF Decoded, Traces
<1>3. Filed(perf, Decoded(whole)) \in [Tags -> Traces] /\ Filed(perf, Decoded(whole))[opt.tag] = Decoded(whole)
  BY <1>1, <1>2 DEF Filed
<1>4. CASE opt.notes
  BY <1>1, <1>2, <1>3, <1>4 DEF Filed, NotesOf
<1>5. CASE ~opt.notes
  BY <1>1, <1>2, <1>3, <1>5 DEF NotesOf
<1>. QED
  BY <1>4, <1>5

LEMMA DecodeKeeps == PipeInv /\ Decode => PipeInv'
<1>. SUFFICES ASSUME PipeInv, Decode
              PROVE  PipeInv'
  OBVIOUS
<1>1. /\ at = "decode" /\ at' = "done" /\ notes' = NotesOf
      /\ UNCHANGED <<fpga, opt, run, heard, raw, values, map>>
  BY DEF Decode, Go
<1>12. PICK whole \in BOOLEAN: perf' = Filed(perf, Decoded(whole)) /\ full' = ~whole
  BY DEF Decode
<1>2. Source' = Source /\ Told' = Told
  BY <1>1 DEF Source, Told
<1>3. /\ perf' \in [Tags -> Traces] /\ perf'[opt.tag] = Decoded(whole)
      /\ notes' \in [Tags -> Captures]
  BY <1>1, <1>12, DecoderWrites
<1>4. /\ Decoded(whole).capture = raw[Source].capture /\ Decoded(whole).threads = map[opt.tag]
      /\ Decoded(whole).width = Told /\ Decoded(whole).whole = whole
  BY DEF Decoded
<1>5. map[opt.tag] = raw[Source].capture
  BY <1>1 DEF PipeInv, Chain
<1>6. raw[Source].capture = IF opt.rawIn = None THEN run ELSE raw[opt.rawIn].capture
  BY <1>1 DEF PipeInv, Chain, HasRaw, Source
<1>7. opt.notes => notes'[opt.tag] = raw[Source].capture
  BY <1>1, DecoderWrites
<1>8. PipeTypeOK'
  <2>1. at' \notin {"symbols", "dump", "resolve", "decode"}
    BY <1>1
  <2>. QED
    BY <1>1, <1>12, <1>2, <1>3, <2>1 DEF PipeInv, PipeTypeOK
<1>9. ResultOfOneCapture'
  <2>1. perf'[opt'.tag] = Decoded(whole) /\ opt' = opt /\ run' = run /\ raw' = raw
    BY <1>1, <1>3
  <2>. QED
    <3>1. perf'[opt'.tag].whole = whole /\ perf'[opt'.tag].capture = raw[Source].capture
          /\ perf'[opt'.tag].threads = raw[Source].capture
      BY <1>4, <1>5, <2>1
    <3>2. opt'.notes => notes'[opt'.tag] = raw[Source].capture
      BY <1>7, <2>1, Zenon
    <3>3. raw[Source].capture = IF opt'.rawIn = None THEN run' ELSE raw'[opt'.rawIn].capture
      BY <1>6, <2>1
    <3>. QED
      BY <1>12, <3>1, <3>2, <3>3 DEF ResultOfOneCapture
<1>10. Chain'
  BY <1>1, <1>9 DEF PipeInv, Chain, Grabs, HasRaw
<1>11. WidthKept'
  BY <1>1, <1>2, <1>3, <1>4 DEF PipeInv, WidthKept, HasRaw, DecodedAsCaptured
<1>. QED
  BY <1>8, <1>10, <1>11 DEF PipeInv

LEMMA FailKeeps == PipeInv /\ Fail => PipeInv'
<1>. SUFFICES ASSUME PipeInv, Fail
              PROVE  PipeInv'
  OBVIOUS
<1>1. at' = "failed" /\ UNCHANGED <<opt, run, heard, full>>
  BY DEF Fail, Go, AfterFailure
<1>2. opt \in Options /\ opt.tag \in Tags /\ Source \in Tags
  BY SourceIsTag DEF PipeInv, PipeTypeOK
<1>3. /\ fpga' \in [width: PortWidths, armed: BOOLEAN]
      /\ raw' \in [Tags -> Raws] /\ \A t \in Tags: raw'[t].capture <= run
      /\ values' \in [Tags -> Captures] /\ map' \in [Tags -> Captures]
      /\ notes' \in [Tags -> Captures] /\ perf' \in [Tags -> Traces]
  <2>1. CASE FailsBeforeWriting
    BY <2>1 DEF FailsBeforeWriting, PipeInv, PipeTypeOK, outputs
  <2>2. CASE FailsInGrab
    <3>1. raw' = Filed(raw, Grabbed) /\ UNCHANGED <<fpga, values, map, notes, perf>>
      BY <2>2 DEF FailsInGrab, outputs
    <3>2. Grabbed \in Raws /\ Grabbed.capture = run /\ run \in Nat
      BY RunsAssumption DEF Grabbed, Raws, Captures, PipeInv, PipeTypeOK
    <3>3. /\ raw' \in [Tags -> Raws] /\ raw'[opt.tag] = Grabbed
          /\ \A t \in Tags: t # opt.tag => raw'[t] = raw[t]
      BY <1>2, <3>1, <3>2 DEF Filed, PipeInv, PipeTypeOK
    <3>. QED
      BY <3>1, <3>2, <3>3 DEF PipeInv, PipeTypeOK
  <2>3. CASE FailsInThreads
    <3>1. UNCHANGED <<fpga, raw, notes, perf>>
      BY <2>3 DEF FailsInThreads
    <3>2. raw[Source].capture \in Captures /\ values[opt.tag] \in Captures
      BY <1>2 DEF PipeInv, PipeTypeOK, Raws
    <3>3. \/ values' = Filed(values, raw[Source].capture) /\ UNCHANGED map
          \/ map' = Filed(map, values[opt.tag]) /\ UNCHANGED values
      BY <2>3 DEF FailsInThreads
    <3>4. values' \in [Tags -> Captures] /\ map' \in [Tags -> Captures]
      <4>1. CASE values' = Filed(values, raw[Source].capture) /\ UNCHANGED map
        BY <1>2, <3>2, <4>1 DEF Filed, PipeInv, PipeTypeOK
      <4>2. CASE map' = Filed(map, values[opt.tag]) /\ UNCHANGED values
        BY <1>2, <3>2, <4>2 DEF Filed, PipeInv, PipeTypeOK
      <4>. QED
        BY <3>3, <4>1, <4>2
    <3>. QED
      BY <3>1, <3>4 DEF PipeInv, PipeTypeOK
  <2>4. CASE FailsInDecoder
    <3>1. /\ notes' = NotesOf /\ UNCHANGED <<fpga, raw, values, map>>
          /\ perf' = perf \/ \E whole \in BOOLEAN: perf' = Filed(perf, Decoded(whole))
      BY <2>4 DEF FailsInDecoder
    <3>. QED
      BY <3>1, DecoderWrites DEF PipeInv, PipeTypeOK
  <2>. QED
    BY <2>1, <2>2, <2>3, <2>4 DEF Fail
<1>4. PipeTypeOK'
  BY <1>1, <1>3 DEF PipeInv, PipeTypeOK
<1>. QED
  BY <1>1, <1>4 DEF PipeInv, Chain, WidthKept, Grabs, HasRaw, ResultOfOneCapture, DecodedAsCaptured

LEMMA PipeInvariant == PipeSpec => []PipeInv
<1>1. PipeInv /\ [PipeNext]_pipeVars => PipeInv'
  <2>. SUFFICES ASSUME PipeInv, [PipeNext]_pipeVars
                PROVE  PipeInv'
    OBVIOUS
  <2>1. CASE UNCHANGED pipeVars
    <3>1. UNCHANGED <<fpga, at, opt, run, heard, full, raw, values, map, notes, perf>>
      BY <2>1 DEF pipeVars, outputs
    <3>2. Source' = Source /\ Told' = Told
      BY <3>1 DEF Source, Told
    <3>3. PipeTypeOK'
      BY <3>1, <3>2 DEF PipeInv, PipeTypeOK
    <3>4. Chain'
      BY <3>1, <3>2 DEF PipeInv, Chain, Grabs, HasRaw, ResultOfOneCapture
    <3>5. WidthKept'
      BY <3>1, <3>2 DEF PipeInv, WidthKept, HasRaw, DecodedAsCaptured
    <3>. QED
      BY <3>3, <3>4, <3>5 DEF PipeInv
  <2>. QED
    BY <2>1, StartKeeps, SetWidthKeeps, GrabKeeps, SymbolsKeeps, DumpKeeps, ResolveKeeps,
       DecodeKeeps, FailKeeps DEF PipeNext
<1>. QED
  BY <1>1, PipeInitInv, PTL DEF PipeSpec

(* A run that returns a path returns the whole trace of one capture, its own   *)
(* or the one it was given, with the threads and the notes of that capture     *)
(* (capture.py, run).                                                          *)
THEOREM OneCaptureReturned == PipeSpec => []ResultOfOneCapture
<1>1. PipeInv => ResultOfOneCapture
  BY DEF PipeInv, Chain
<1>. QED
  BY <1>1, PipeInvariant, PTL

(* A width that reached the FPGA is the width that the capture is decoded at,  *)
(* and the FPGA was re-armed in between (ctrl.py set-width, capture.py).       *)
THEOREM WidthCarriedThrough == PipeSpec => []DecodedAsCaptured
<1>1. PipeInv => DecodedAsCaptured
  BY DEF PipeInv, WidthKept
<1>. QED
  BY <1>1, PipeInvariant, PTL

------------------------------------------------------------------------------
\* record_bridge.py.

(* Packets are recent enough for a capture that ended in a way, or has not    *)
(* ended: unless that was SystemExit they are its own or later ones.          *)
Recent(end, of, n) == end # "exit" => of >= n

InRequest ==
  InStart \cup {"reply", "enable", "check", "await", "wait", "bind", "chunk", "rest", "eof"}

(* What a thread that serves a request, or sends chunks, has at hand.         *)
HandlersInv ==
  \A c \in Conns :
    /\ handler[c].at \in InRequest => handler[c].req >= 1
    /\ handler[c].at \in {"chunk", "rest"} => handler[c].left >= 1 /\ handler[c].of # NoPackets

(* The captures started are those up to current; all but the last are over,   *)
(* and so is the last while the lock's holder goes to start another.          *)
WorkersInv ==
  /\ \A n \in Attempts :
       /\ worker[n].at # "none" <=> n <= current
       /\ worker[n].at # "none" => worker[n].conn \in Conns /\ worker[n].req >= 1
       /\ worker[n].at = "none" => worker[n].conn = NoConn
       /\ worker[n].at \in {"none", "capture"} => worker[n].end = "none"
       /\ n < current => worker[n].at = "dead"
  /\ \A c \in Conns : handler[c].at \in {"clear", "start"} =>
       ~IsAlive(current) /\ current < MaxStarts

(* The packets are never older than a capture that has stored its own; done   *)
(* says that the last one has; and a thread about to read the packets started *)
(* no capture that is not over.                                               *)
PacketsInv ==
  /\ \A n \in Attempts : worker[n].at \in {"set", "answer", "sent", "dead"} =>
       packets = NoPackets \/ Recent(worker[n].end, packets, n)
  /\ done => \A n \in Attempts : worker[n].at \in {"none", "answer", "sent", "dead"}
  /\ \A c \in Conns : handler[c].at = "start" => ~done
  /\ \A c \in Conns : handler[c].at = "bind" =>
       \A n \in Attempts : worker[n].conn = c => worker[n].at \in {"answer", "sent", "dead"}
  /\ \A c \in Conns : handler[c].at \in {"chunk", "rest"} =>
       \A n \in Attempts : worker[n].conn = c => Recent(worker[n].end, handler[c].of, n)

(* What was streamed belongs to requests up to the present one, and is fresh. *)
StreamsInv ==
  /\ \A c \in Conns : \A i \in 1 .. Len(out[c]) :
       IsChunk(out[c][i]) => out[c][i].req <= handler[c].req
  /\ \A c \in Conns : \A i \in 1 .. Len(out[c]) : \A n \in Attempts :
       /\ IsChunk(out[c][i])
       /\ worker[n].conn = c /\ worker[n].req < out[c][i].req
       => Recent(worker[n].end, out[c][i].of, n)

BaseInv == BridgeTypeOK /\ HandlersInv /\ WorkersInv
FreshInv == BaseInv /\ PacketsInv /\ StreamsInv

------------------------------------------------------------------------------
(* Sending a piece: the types, and what is on the wire afterwards.            *)
LEMMA Sent ==
  ASSUME out \in [Conns -> Seq(Pieces)], NEW c \in Conns, NEW p \in Pieces, Sends(c, p)
  PROVE  /\ out' \in [Conns -> Seq(Pieces)]
         /\ \A d \in Conns : \A i \in 1 .. Len(out'[d]) :
              \/ i \in 1 .. Len(out[d]) /\ out'[d][i] = out[d][i]
              \/ d = c /\ out'[d][i] = p
<1>1. out' = [out EXCEPT ![c] = Append(out[c], p)]  BY DEF Sends
<1>2. Append(out[c], p) \in Seq(Pieces) /\ Len(Append(out[c], p)) = Len(out[c]) + 1  OBVIOUS
<1>3. \A i \in 1 .. Len(out[c]) + 1 :
        \/ i \in 1 .. Len(out[c]) /\ Append(out[c], p)[i] = out[c][i]
        \/ Append(out[c], p)[i] = p
  OBVIOUS
<1> QED BY <1>1, <1>2, <1>3

(* The streams stay fresh over a step that sends one piece, if that is, and   *)
(* over one that sends nothing; requests only go up, and captures keep whom   *)
(* they answer.                                                               *)
Onward ==
  /\ \A d \in Conns : handler[d].req <= handler'[d].req
  /\ \A n \in Attempts : worker'[n].conn = worker[n].conn /\ worker'[n].req = worker[n].req
  /\ \A n \in Attempts : worker'[n].end = worker[n].end \/ worker[n].end = "none"

LEMMA RecentStays ==
  ASSUME NEW end, NEW before, end = before \/ before = "none", NEW of, NEW n,
         Recent(before, of, n)
  PROVE  Recent(end, of, n)
BY DEF Recent

LEMMA StreamsAfterSend ==
  ASSUME BridgeTypeOK, handler' \in [Conns -> Handlers], StreamsInv, Onward,
         NEW c \in Conns, NEW p \in Pieces, Sends(c, p),
         IsChunk(p) => /\ p.req <= handler[c].req
                       /\ \A n \in Attempts : worker[n].conn = c => Recent(worker[n].end, p.of, n)
  PROVE  StreamsInv'
<1>1. /\ out' \in [Conns -> Seq(Pieces)]
      /\ \A d \in Conns : \A i \in 1 .. Len(out'[d]) :
           \/ i \in 1 .. Len(out[d]) /\ out'[d][i] = out[d][i]
           \/ d = c /\ out'[d][i] = p
  BY Sent DEF BridgeTypeOK
<1>2. ASSUME NEW d \in Conns, NEW i \in 1 .. Len(out'[d]), IsChunk(out'[d][i])
      PROVE  out'[d][i].req <= handler'[d].req
  <2>1. handler[d].req \in Nat /\ handler'[d].req \in Nat /\ handler[d].req <= handler'[d].req
    BY BoundsAssumption DEF BridgeTypeOK, Handlers, Onward
  <2>2. p.req \in Nat  BY BoundsAssumption DEF Pieces
  <2>3. CASE i \in 1 .. Len(out[d]) /\ out'[d][i] = out[d][i]
    <3>1. out[d][i].req <= handler[d].req  BY <2>3, <1>2 DEF StreamsInv
    <3>2. out[d][i] \in Pieces  BY <2>3 DEF BridgeTypeOK
    <3>3. out[d][i].req \in Nat  BY <3>2, BoundsAssumption DEF Pieces
    <3> QED BY <2>1, <2>3, <3>1, <3>3
  <2>4. CASE d = c /\ out'[d][i] = p  BY <1>2, <2>1, <2>2, <2>4
  <2> QED BY <1>1, <2>3, <2>4
<1>3. ASSUME NEW d \in Conns, NEW i \in 1 .. Len(out'[d]), NEW n \in Attempts,
             IsChunk(out'[d][i]), worker'[n].conn = d, worker'[n].req < out'[d][i].req
      PROVE  Recent(worker'[n].end, out'[d][i].of, n)
  <2>1. worker[n].conn = d /\ worker[n].req < out'[d][i].req  BY <1>3 DEF Onward
  <2>2. CASE i \in 1 .. Len(out[d]) /\ out'[d][i] = out[d][i]
    BY <1>3, <2>1, <2>2, RecentStays DEF StreamsInv, Onward
  <2>3. CASE d = c /\ out'[d][i] = p  BY <1>3, <2>1, <2>3, RecentStays DEF Onward
  <2> QED BY <1>1, <2>2, <2>3
<1> QED BY <1>2, <1>3 DEF StreamsInv, IsChunk

LEMMA StreamsAfterSilence ==
  ASSUME BridgeTypeOK, handler' \in [Conns -> Handlers], StreamsInv, Onward, UNCHANGED out
  PROVE  StreamsInv'
<1>1. ASSUME NEW d \in Conns, NEW i \in 1 .. Len(out[d]), IsChunk(out[d][i])
      PROVE  out[d][i].req <= handler'[d].req
  <2>1. handler[d].req \in Nat /\ handler'[d].req \in Nat /\ handler[d].req <= handler'[d].req
    BY BoundsAssumption DEF BridgeTypeOK, Handlers, Onward
  <2>2. out[d][i].req <= handler[d].req  BY <1>1 DEF StreamsInv
  <2>3. out[d][i] \in Pieces  BY DEF BridgeTypeOK
  <2>4. out[d][i].req \in Nat  BY <2>3, BoundsAssumption DEF Pieces
  <2> QED BY <2>1, <2>2, <2>4
<1>2. ASSUME NEW d \in Conns, NEW i \in 1 .. Len(out[d]), NEW n \in Attempts, IsChunk(out[d][i]),
             worker'[n].conn = d, worker'[n].req < out[d][i].req
      PROVE  Recent(worker'[n].end, out[d][i].of, n)
  BY <1>2, RecentStays DEF StreamsInv, Onward
<1> QED BY <1>1, <1>2 DEF StreamsInv, IsChunk

------------------------------------------------------------------------------
(* The initial state.                                                         *)
LEMMA InitBase == ASSUME BridgeInit PROVE BaseInv
<1>1. handler \in [Conns -> Handlers]
  <2>1. Idle \in Handlers  BY BoundsAssumption DEF Idle, Handlers, NoPackets
  <2> QED BY <2>1 DEF BridgeInit
<1>2. out \in [Conns -> Seq(Pieces)]
  <2>1. <<>> \in Seq(Pieces)  OBVIOUS
  <2> QED BY <2>1 DEF BridgeInit
<1>3. worker \in [Attempts -> Workers]
  BY BoundsAssumption DEF BridgeInit, Workers
<1>4. BridgeTypeOK
  BY <1>1, <1>2, <1>3, ConnsAssumption DEF BridgeInit, BridgeTypeOK, NoPackets, Idle, InStart
<1>5. HandlersInv  BY DEF BridgeInit, HandlersInv, Idle, InRequest, InStart
<1>6. WorkersInv  BY BoundsAssumption DEF BridgeInit, WorkersInv, Attempts, Idle
<1> QED BY <1>4, <1>5, <1>6 DEF BaseInv
LEMMA InitFresh == BridgeInit => PacketsInv /\ StreamsInv
  BY ConnsAssumption
  DEF BridgeInit, PacketsInv, StreamsInv, Idle

------------------------------------------------------------------------------
(* A step of one connection's thread that starts no capture: what it has to   *)
(* respect.                                                                   *)
LEMMA ThreadStepBase ==
  ASSUME BaseInv, NEW c \in Conns, NEW h \in Handlers,
         handler' = [handler EXCEPT ![c] = h],
         UNCHANGED <<worker, current, packets>>,
         peer' \in [Conns -> BOOLEAN], out' \in [Conns -> Seq(Pieces)], done' \in BOOLEAN,
         lock' \in Conns \cup {NoConn},
         \A d \in Conns : lock' = d <=> handler'[d].at \in InStart,
         h.at \in InRequest => h.req >= 1,
         h.at \in {"chunk", "rest"} => h.left >= 1 /\ h.of # NoPackets,
         h.at \in {"clear", "start"} => ~IsAlive(current) /\ current < MaxStarts
  PROVE  BaseInv'
<1>1. handler \in [Conns -> Handlers] /\ handler'[c] = h
      /\ \A d \in Conns \ {c} : handler'[d] = handler[d]
  BY DEF BaseInv, BridgeTypeOK
<1>2. BridgeTypeOK'  BY <1>1 DEF BaseInv, BridgeTypeOK
<1>3. HandlersInv'  BY <1>1 DEF BaseInv, HandlersInv
<1>4. WorkersInv'  BY <1>1 DEF BaseInv, WorkersInv, IsAlive
<1> QED BY <1>2, <1>3, <1>4 DEF BaseInv

LEMMA ThreadStepPackets ==
  ASSUME FreshInv, NEW c \in Conns, NEW h \in Handlers,
         handler' = [handler EXCEPT ![c] = h],
         UNCHANGED <<worker, packets>>,
         done' => done,
         h.at = "start" => ~done',
         h.at = "bind" =>
           \A n \in Attempts : worker[n].conn = c => worker[n].at \in {"answer", "sent", "dead"},
         h.at \in {"chunk", "rest"} => \A n \in Attempts : worker[n].conn = c => Recent(worker[n].end, h.of, n)
  PROVE  PacketsInv'
<1>1. handler'[c] = h /\ \A d \in Conns \ {c} : handler'[d] = handler[d]
  BY DEF FreshInv, BaseInv, BridgeTypeOK
<1> QED BY <1>1 DEF FreshInv, PacketsInv

LEMMA Moved ==
  ASSUME NEW c \in Conns, NEW to, Goes(c, to)
  PROVE  handler' = [handler EXCEPT ![c] = [at |-> to, req |-> handler[c].req,
                                            of |-> handler[c].of, left |-> handler[c].left]]
  BY DEF Goes, Becomes

\* A thread that sends nothing.
LEMMA ThreadSilent ==
  ASSUME FreshInv, NEW c \in Conns, NEW h \in Handlers,
         handler' = [handler EXCEPT ![c] = h],
         handler[c].req <= h.req,
         UNCHANGED <<peer, out, worker, current, packets>>,
         done' \in BOOLEAN, done' => done,
         lock' \in Conns \cup {NoConn},
         \A d \in Conns : lock' = d <=> handler'[d].at \in InStart,
         h.at \in InRequest => h.req >= 1,
         h.at \in {"clear", "start"} => ~IsAlive(current) /\ current < MaxStarts,
         h.at = "start" => ~done',
         h.at = "bind" =>
           \A n \in Attempts : worker[n].conn = c => worker[n].at \in {"answer", "sent", "dead"},
         h.at \in {"chunk", "rest"} => /\ h.left >= 1 /\ h.of # NoPackets
                                       /\ \A n \in Attempts : worker[n].conn = c => Recent(worker[n].end, h.of, n)
  PROVE  FreshInv'
<1>1. BridgeTypeOK  BY DEF FreshInv, BaseInv
<1>2. BaseInv'
  <2>1. peer' \in [Conns -> BOOLEAN] /\ out' \in [Conns -> Seq(Pieces)]  BY <1>1 DEF BridgeTypeOK
  <2>2. UNCHANGED <<worker, current, packets>>  OBVIOUS
  <2> QED BY <2>1, <2>2, ThreadStepBase DEF FreshInv
<1>3. PacketsInv'  BY ThreadStepPackets
<1>4. Onward  BY <1>1, BoundsAssumption DEF Onward, BridgeTypeOK, Handlers
<1>5. StreamsInv'  BY <1>1, <1>2, <1>4, StreamsAfterSilence DEF FreshInv, BaseInv, BridgeTypeOK
<1> QED BY <1>2, <1>3, <1>5 DEF FreshInv

(* What a thread's record is made of, in arithmetic terms.                    *)
LEMMA HandlerFields ==
  ASSUME BridgeTypeOK, NEW c \in Conns
  PROVE  /\ handler[c] \in Handlers
         /\ handler[c].req \in Nat /\ handler[c].req <= MaxRequests
         /\ handler[c].left \in Nat /\ handler[c].left <= Chunks
         /\ handler[c].of \in Attempts \cup {NoPackets}
  BY BoundsAssumption DEF BridgeTypeOK, Handlers

\* A thread that sends a piece, as itself or as part of a stream.
LEMMA ThreadSends ==
  ASSUME FreshInv, NEW c \in Conns, handler[c].at \notin InStart,
         NEW h \in Handlers, handler' = [handler EXCEPT ![c] = h],
         h.at \in {"recv", "rest", "chunk", "eof"}, h.req = handler[c].req,
         h.at \in InRequest => h.req >= 1,
         h.at \in {"chunk", "rest"} => /\ h.left >= 1 /\ h.of # NoPackets
                                       /\ \A n \in Attempts : worker[n].conn = c => Recent(worker[n].end, h.of, n),
         NEW p \in Pieces, Sends(c, p),
         IsChunk(p) => /\ p.req <= handler[c].req
                       /\ \A n \in Attempts : worker[n].conn = c => Recent(worker[n].end, p.of, n),
         UNCHANGED <<peer, capture, lock>>
  PROVE  FreshInv'
<1>1. BridgeTypeOK /\ PacketsInv /\ StreamsInv  BY DEF FreshInv, BaseInv
<1>2. h.at \notin InStart /\ h.at # "bind"  BY DEF InStart
<1>3. \A d \in Conns : lock' = d <=> handler'[d].at \in InStart
  BY <1>1, <1>2 DEF BridgeTypeOK
<1>4. out' \in [Conns -> Seq(Pieces)]  BY <1>1, Sent DEF BridgeTypeOK
<1>5. BaseInv'
  <2>1. h.at \notin {"clear", "start"}  BY <1>2 DEF InStart
  <2>2. /\ peer' \in [Conns -> BOOLEAN] /\ done' \in BOOLEAN /\ lock' \in Conns \cup {NoConn}
        /\ UNCHANGED <<worker, current, packets>>
    BY <1>1 DEF BridgeTypeOK, capture
  <2> QED BY <1>3, <1>4, <2>1, <2>2, ThreadStepBase DEF FreshInv
<1>6. PacketsInv'  BY <1>2, ThreadStepPackets DEF capture
<1>7. handler' \in [Conns -> Handlers] /\ Onward
  BY <1>1, BoundsAssumption DEF Onward, capture, BridgeTypeOK, Handlers
<1>8. StreamsInv'  BY <1>1, <1>7, StreamsAfterSend
<1> QED BY <1>5, <1>6, <1>8 DEF FreshInv

LEMMA LeaveInv == ASSUME FreshInv, NEW c \in Conns, Leave(c) PROVE FreshInv'
<1>1. peer' \in [Conns -> BOOLEAN]  BY DEF FreshInv, BaseInv, BridgeTypeOK, Leave
<1>2. UNCHANGED <<handler, out, worker, current, packets, done, lock>>  BY DEF Leave, capture
<1>3. BaseInv'
  <2>1. BridgeTypeOK'  BY <1>1, <1>2 DEF FreshInv, BaseInv, BridgeTypeOK
  <2>2. HandlersInv' /\ WorkersInv'
    BY <1>2 DEF FreshInv, BaseInv, HandlersInv, WorkersInv, IsAlive
  <2> QED BY <2>1, <2>2 DEF BaseInv
<1>4. PacketsInv' /\ StreamsInv'
  BY <1>2 DEF FreshInv, PacketsInv, StreamsInv, IsChunk
<1> QED BY <1>3, <1>4 DEF FreshInv

\* A thread that goes to a place outside _start_capture with nothing new at hand.
LEMMA ThreadGoes ==
  ASSUME FreshInv, NEW c \in Conns, handler[c].at \notin InStart,
         NEW to \in {"closed", "await", "wait"}, Goes(c, to),
         to \in InRequest => handler[c].at \in InRequest,
         UNCHANGED <<peer, out, capture, lock>>
  PROVE  FreshInv'
<1> DEFINE h == [at |-> to, req |-> handler[c].req, of |-> handler[c].of, left |-> handler[c].left]
<1>1. BridgeTypeOK /\ handler' = [handler EXCEPT ![c] = h]
  BY Moved DEF FreshInv, BaseInv
<1>2. h \in Handlers /\ handler[c].req <= h.req  BY <1>1, HandlerFields DEF Handlers
<1>3. h.at = to /\ to \notin InStart /\ to \notin {"clear", "start", "bind", "chunk", "rest"}
  BY DEF InStart
<1>4. h.at \in InRequest => h.req >= 1  BY <1>3 DEF FreshInv, BaseInv, HandlersInv
<1> HIDE DEF h
<1>5. \A d \in Conns : lock' = d <=> handler'[d].at \in InStart
  BY <1>1, <1>3 DEF BridgeTypeOK
<1>6. done' \in BOOLEAN /\ lock' \in Conns \cup {NoConn}
      /\ UNCHANGED <<peer, out, worker, current, packets>> /\ (done' => done)
  BY <1>1 DEF BridgeTypeOK, capture
<1> QED BY <1>1, <1>2, <1>3, <1>4, <1>5, <1>6, ThreadSilent

LEMMA CloseInv == ASSUME FreshInv, NEW c \in Conns, Close(c) PROVE FreshInv'
  BY ThreadGoes DEF Close, InStart, InRequest, capture

LEMMA ReplyInv == ASSUME FreshInv, NEW c \in Conns, Reply(c) PROVE FreshInv'
<1> DEFINE h == [at |-> "recv", req |-> handler[c].req, of |-> handler[c].of,
                 left |-> handler[c].left]
<1> DEFINE p == Piece(handler[c].req, "reply", NoPackets)
<1>1. BridgeTypeOK /\ handler[c].at = "reply" /\ handler[c].req >= 1
  BY DEF FreshInv, BaseInv, HandlersInv, Reply, At, InRequest
<1>2. h \in Handlers /\ handler' = [handler EXCEPT ![c] = h]
  BY <1>1, Moved, HandlerFields DEF Reply, Handlers
<1>3. p \in Pieces  BY <1>1, HandlerFields, BoundsAssumption DEF Piece, Pieces
<1>4. ~IsChunk(p)  BY DEF IsChunk, Piece
<1>5. h.at = "recv" /\ h.req = handler[c].req /\ h.at \notin InRequest
  BY DEF InRequest, InStart
<1>6. Sends(c, p) /\ UNCHANGED <<peer, capture, lock>>  BY DEF Reply
<1>7. handler[c].at \notin InStart  BY <1>1 DEF InStart
<1> HIDE DEF h, p
<1> QED BY <1>2, <1>3, <1>4, <1>5, <1>6, <1>7, ThreadSends

\* A chunk in two pieces, and the empty one at the end, of the packets bound.
LEMMA ChunkInv == ASSUME FreshInv, NEW c \in Conns, Chunk(c) PROVE FreshInv'
<1> DEFINE h == [at |-> "rest", req |-> handler[c].req, of |-> handler[c].of,
                 left |-> handler[c].left]
<1> DEFINE p == Piece(handler[c].req, "first", handler[c].of)
<1>1. BridgeTypeOK /\ handler[c].at = "chunk" /\ handler[c].req >= 1
      /\ handler[c].left >= 1 /\ handler[c].of # NoPackets
      /\ \A n \in Attempts : worker[n].conn = c => Recent(worker[n].end, handler[c].of, n)
  BY DEF FreshInv, BaseInv, HandlersInv, PacketsInv, Chunk, At, InRequest
<1>2. h \in Handlers /\ handler' = [handler EXCEPT ![c] = h]
  BY <1>1, Moved, HandlerFields DEF Chunk, Handlers
<1>3. p \in Pieces /\ p.of = handler[c].of /\ p.req = handler[c].req
  BY <1>1, HandlerFields, BoundsAssumption DEF Piece, Pieces
<1>4. p.req <= handler[c].req  BY <1>3, <1>1, HandlerFields
<1>5. h.at = "rest" /\ h.req = handler[c].req /\ h.left = handler[c].left /\ h.of = handler[c].of
  OBVIOUS
<1>6. Sends(c, p) /\ UNCHANGED <<peer, capture, lock>>  BY DEF Chunk
<1>7. handler[c].at \notin InStart  BY <1>1 DEF InStart
<1> HIDE DEF h, p
<1> QED BY <1>1, <1>2, <1>3, <1>4, <1>5, <1>6, <1>7, ThreadSends

LEMMA RestOfChunkInv == ASSUME FreshInv, NEW c \in Conns, RestOfChunk(c) PROVE FreshInv'
<1> DEFINE to == IF handler[c].left = 1 THEN "eof" ELSE "chunk"
<1> DEFINE h == [at |-> to, req |-> handler[c].req, of |-> handler[c].of,
                 left |-> handler[c].left - 1]
<1> DEFINE p == Piece(handler[c].req, "rest", handler[c].of)
<1>1. BridgeTypeOK /\ handler[c].at = "rest" /\ handler[c].req >= 1
      /\ handler[c].left >= 1 /\ handler[c].of # NoPackets
      /\ \A n \in Attempts : worker[n].conn = c => Recent(worker[n].end, handler[c].of, n)
  BY DEF FreshInv, BaseInv, HandlersInv, PacketsInv, RestOfChunk, At, InRequest
<1>2. h \in Handlers
  BY <1>1, HandlerFields, BoundsAssumption DEF Handlers
<1>3. handler' = [handler EXCEPT ![c] = h]  BY DEF RestOfChunk, Becomes
<1>4. p \in Pieces /\ p.of = handler[c].of /\ p.req = handler[c].req
  BY <1>1, HandlerFields, BoundsAssumption DEF Piece, Pieces
<1>5. p.req <= handler[c].req  BY <1>4, <1>1, HandlerFields
<1>6. /\ h.at \in {"eof", "chunk"} /\ h.req = handler[c].req /\ h.of = handler[c].of
      /\ h.at \in {"chunk", "rest"} => h.left >= 1
  BY <1>1, HandlerFields
<1>7. Sends(c, p) /\ UNCHANGED <<peer, capture, lock>>  BY DEF RestOfChunk
<1>8. handler[c].at \notin InStart  BY <1>1 DEF InStart
<1> HIDE DEF h, p
<1> QED BY <1>1, <1>2, <1>3, <1>4, <1>5, <1>6, <1>7, <1>8, ThreadSends

LEMMA EofInv == ASSUME FreshInv, NEW c \in Conns, Eof(c) PROVE FreshInv'
<1> DEFINE h == [at |-> "recv", req |-> handler[c].req, of |-> NoPackets, left |-> 0]
<1> DEFINE p == Piece(handler[c].req, "eof", handler[c].of)
<1>1. BridgeTypeOK /\ handler[c].at = "eof" /\ handler[c].req >= 1
  BY DEF FreshInv, BaseInv, HandlersInv, Eof, At, InRequest
<1>2. h \in Handlers  BY <1>1, HandlerFields, BoundsAssumption DEF Handlers
<1>3. handler' = [handler EXCEPT ![c] = h]  BY DEF Eof, Becomes
<1>4. p \in Pieces  BY <1>1, HandlerFields, BoundsAssumption DEF Piece, Pieces
<1>5. ~IsChunk(p)  BY DEF IsChunk, Piece
<1>6. h.at = "recv" /\ h.req = handler[c].req /\ h.at \notin InRequest
  BY DEF InRequest, InStart
<1>7. Sends(c, p) /\ UNCHANGED <<peer, capture, lock>>  BY DEF Eof
<1>8. handler[c].at \notin InStart  BY <1>1 DEF InStart
<1> HIDE DEF h, p
<1> QED BY <1>2, <1>3, <1>4, <1>5, <1>6, <1>7, <1>8, ThreadSends

LEMMA RequestInv == ASSUME FreshInv, NEW c \in Conns, Request(c) PROVE FreshInv'
<1>1. BridgeTypeOK /\ handler[c].at = "recv"  BY DEF FreshInv, BaseInv, Request, At
<1>2. PICK to \in {"check", "enable", "reply"} :
        handler' = [handler EXCEPT ![c] = [at |-> to, req |-> handler[c].req + 1,
                                           of |-> NoPackets, left |-> 0]]
  BY DEF Request
<1> DEFINE h == [at |-> to, req |-> handler[c].req + 1, of |-> NoPackets, left |-> 0]
<1>3. h \in Handlers /\ handler[c].req <= h.req /\ h.req >= 1
  BY <1>1, HandlerFields, BoundsAssumption DEF Request, Handlers
<1>4. h.at = to /\ to \notin InStart /\ to \notin {"clear", "start", "bind", "chunk", "rest"}
  BY DEF InStart
<1>5. handler' = [handler EXCEPT ![c] = h]  BY <1>2
<1> HIDE DEF h
<1>6. \A d \in Conns : lock' = d <=> handler'[d].at \in InStart
  BY <1>1, <1>4, <1>5 DEF BridgeTypeOK, Request, InStart
<1>7. done' \in BOOLEAN /\ lock' \in Conns \cup {NoConn}
      /\ UNCHANGED <<peer, out, worker, current, packets>> /\ (done' => done)
  BY <1>1 DEF BridgeTypeOK, capture, Request
<1> QED BY <1>3, <1>4, <1>5, <1>6, <1>7, ThreadSilent

LEMMA EnterInv == ASSUME FreshInv, NEW c \in Conns, Enter(c) PROVE FreshInv'
<1> DEFINE h == [at |-> "alive?", req |-> handler[c].req, of |-> handler[c].of,
                 left |-> handler[c].left]
<1>1. BridgeTypeOK /\ handler' = [handler EXCEPT ![c] = h]
  BY Moved DEF FreshInv, BaseInv, Enter
<1>2. h \in Handlers /\ handler[c].req <= h.req
  BY <1>1, HandlerFields DEF Handlers, InStart
<1>3. h.at = "alive?" /\ h.req = handler[c].req  OBVIOUS
<1>4. h.req >= 1
  BY <1>3 DEF FreshInv, BaseInv, HandlersInv, Enter, At, InRequest
<1> HIDE DEF h
<1>5. /\ lock' \in Conns \cup {NoConn}
      /\ \A d \in Conns : lock' = d <=> handler'[d].at \in InStart
  BY <1>1, <1>3, ConnsAssumption DEF BridgeTypeOK, Enter, InStart
<1>6. done' \in BOOLEAN /\ (done' => done)
      /\ UNCHANGED <<peer, out, worker, current, packets>>
  BY <1>1 DEF BridgeTypeOK, capture, Enter
<1> QED BY <1>1, <1>2, <1>3, <1>4, <1>5, <1>6, ThreadSilent DEF InStart

LEMMA LookForCaptureInv == ASSUME FreshInv, NEW c \in Conns, LookForCapture(c) PROVE FreshInv'
<1> DEFINE h == [at |-> (IF IsAlive(current) THEN "leave" ELSE "clear"), req |-> handler[c].req, of |-> handler[c].of,
                 left |-> handler[c].left]
<1>1. BridgeTypeOK /\ handler' = [handler EXCEPT ![c] = h]
  BY Moved DEF FreshInv, BaseInv, LookForCapture
<1>2. h \in Handlers /\ handler[c].req <= h.req
  BY <1>1, HandlerFields DEF Handlers, InStart
<1>3. h.at = (IF IsAlive(current) THEN "leave" ELSE "clear") /\ h.req = handler[c].req  OBVIOUS
<1>4. /\ h.req >= 1
      /\ h.at \in {"leave", "clear"}
      /\ h.at = "clear" => ~IsAlive(current) /\ current < MaxStarts
  BY <1>3 DEF FreshInv, BaseInv, HandlersInv, LookForCapture, At, InRequest, InStart
<1> HIDE DEF h
<1>5. /\ lock' \in Conns \cup {NoConn}
      /\ \A d \in Conns : lock' = d <=> handler'[d].at \in InStart
  BY <1>1, <1>4 DEF BridgeTypeOK, LookForCapture, At, InStart
<1>6. done' \in BOOLEAN /\ (done' => done)
      /\ UNCHANGED <<peer, out, worker, current, packets>>
  BY <1>1 DEF BridgeTypeOK, capture, LookForCapture
<1> QED BY <1>1, <1>2, <1>3, <1>4, <1>5, <1>6, ThreadSilent DEF InStart

LEMMA ClearInv == ASSUME FreshInv, NEW c \in Conns, Clear(c) PROVE FreshInv'
<1> DEFINE h == [at |-> "start", req |-> handler[c].req, of |-> handler[c].of,
                 left |-> handler[c].left]
<1>1. BridgeTypeOK /\ handler' = [handler EXCEPT ![c] = h]
  BY Moved DEF FreshInv, BaseInv, Clear
<1>2. h \in Handlers /\ handler[c].req <= h.req
  BY <1>1, HandlerFields DEF Handlers, InStart
<1>3. h.at = "start" /\ h.req = handler[c].req  OBVIOUS
<1>4. h.req >= 1 /\ ~IsAlive(current) /\ current < MaxStarts
  BY <1>3 DEF FreshInv, BaseInv, HandlersInv, WorkersInv, Clear, At, InRequest, InStart
<1> HIDE DEF h
<1>5. /\ lock' \in Conns \cup {NoConn}
      /\ \A d \in Conns : lock' = d <=> handler'[d].at \in InStart
  BY <1>1, <1>3 DEF BridgeTypeOK, Clear, At, InStart
<1>6. done' \in BOOLEAN /\ ~done'
      /\ UNCHANGED <<peer, out, worker, current, packets>>
  BY <1>1 DEF BridgeTypeOK, capture, Clear
<1> QED BY <1>1, <1>2, <1>3, <1>4, <1>5, <1>6, ThreadSilent DEF InStart

LEMMA UnlockInv == ASSUME FreshInv, NEW c \in Conns, Unlock(c) PROVE FreshInv'
<1> DEFINE h == [at |-> "recv", req |-> handler[c].req, of |-> handler[c].of,
                 left |-> handler[c].left]
<1>1. BridgeTypeOK /\ handler' = [handler EXCEPT ![c] = h]
  BY Moved DEF FreshInv, BaseInv, Unlock
<1>2. h \in Handlers /\ handler[c].req <= h.req
  BY <1>1, HandlerFields DEF Handlers, InStart
<1>3. h.at = "recv" /\ h.req = handler[c].req  OBVIOUS
<1>4. h.at \notin InRequest  BY <1>3 DEF InRequest, InStart
<1> HIDE DEF h
<1>5. /\ lock' \in Conns \cup {NoConn}
      /\ \A d \in Conns : lock' = d <=> handler'[d].at \in InStart
  BY <1>1, <1>3, ConnsAssumption DEF BridgeTypeOK, Unlock, At, InStart
<1>6. done' \in BOOLEAN /\ (done' => done)
      /\ UNCHANGED <<peer, out, worker, current, packets>>
  BY <1>1 DEF BridgeTypeOK, capture, Unlock
<1> QED BY <1>1, <1>2, <1>3, <1>4, <1>5, <1>6, ThreadSilent DEF InStart

\* ReadBuffers: a thread that finds the event set has no capture of its own going on.
LEMMA LookInv ==
  ASSUME FreshInv, NEW c \in Conns, NEW place \in {"check", "await"},
         NEW otherwise \in {"await", "wait"}, Look(c, place, otherwise)
  PROVE  FreshInv'
<1>1. CASE ~done
  BY <1>1, ThreadGoes DEF Look, At, InStart, InRequest, capture
<1>2. CASE done
  <2> DEFINE h == [at |-> "bind", req |-> handler[c].req, of |-> handler[c].of,
                   left |-> handler[c].left]
  <2>1. BridgeTypeOK /\ handler' = [handler EXCEPT ![c] = h]
    BY <1>2, Moved DEF FreshInv, BaseInv, Look
  <2>2. h \in Handlers /\ handler[c].req <= h.req
    BY <2>1, HandlerFields DEF Handlers
  <2>3. h.at = "bind" /\ h.req = handler[c].req  OBVIOUS
  <2>4. h.req >= 1
    BY <2>3 DEF FreshInv, BaseInv, HandlersInv, Look, At, InRequest
  <2>5. \A n \in Attempts : worker[n].conn = c => worker[n].at \in {"answer", "sent", "dead"}
    BY <1>2, ConnsAssumption DEF FreshInv, BaseInv, WorkersInv, PacketsInv
  <2> HIDE DEF h
  <2>6. /\ lock' \in Conns \cup {NoConn}
        /\ \A d \in Conns : lock' = d <=> handler'[d].at \in InStart
    BY <2>1, <2>3 DEF BridgeTypeOK, Look, At, InStart
  <2>7. done' \in BOOLEAN /\ (done' => done)
        /\ UNCHANGED <<peer, out, worker, current, packets>>
    BY <2>1 DEF BridgeTypeOK, capture, Look
  <2> QED BY <2>1, <2>2, <2>3, <2>4, <2>5, <2>6, <2>7, ThreadSilent
<1> QED BY <1>1, <1>2

LEMMA BindInv == ASSUME FreshInv, NEW c \in Conns, Bind(c) PROVE FreshInv'
<1> DEFINE none == packets = NoPackets
<1> DEFINE h == [at |-> IF none THEN "eof" ELSE "chunk", req |-> handler[c].req,
                 of |-> packets, left |-> IF none THEN 0 ELSE Chunks]
<1>1. BridgeTypeOK /\ handler' = [handler EXCEPT ![c] = h]
  BY DEF FreshInv, BaseInv, Bind, Becomes
<1>2. h \in Handlers /\ handler[c].req <= h.req
  <2>1. packets \in Attempts \cup {NoPackets}  BY <1>1 DEF BridgeTypeOK
  <2> QED BY <1>1, <2>1, HandlerFields, BoundsAssumption DEF Handlers
<1>3. /\ h.at \in {"eof", "chunk"} /\ h.req = handler[c].req /\ h.of = packets
      /\ h.at = "chunk" => packets # NoPackets /\ h.left >= 1
  BY BoundsAssumption
<1>4. h.req >= 1
  BY <1>3 DEF FreshInv, BaseInv, HandlersInv, Bind, At, InRequest
<1>5. packets # NoPackets => \A n \in Attempts : worker[n].conn = c => Recent(worker[n].end, packets, n)
  BY DEF FreshInv, PacketsInv, Bind, At
<1> HIDE DEF h
<1>6. /\ lock' \in Conns \cup {NoConn}
      /\ \A d \in Conns : lock' = d <=> handler'[d].at \in InStart
  BY <1>1, <1>3 DEF BridgeTypeOK, Bind, At, InStart
<1>7. done' \in BOOLEAN /\ (done' => done)
      /\ UNCHANGED <<peer, out, worker, current, packets>>
  BY <1>1 DEF BridgeTypeOK, capture, Bind
<1> QED BY <1>1, <1>2, <1>3, <1>4, <1>5, <1>6, <1>7, ThreadSilent

------------------------------------------------------------------------------
(* The step that starts a capture.                                            *)
LEMMA StartInv == ASSUME FreshInv, NEW c \in Conns, StartCapture(c) PROVE FreshInv'
<1> DEFINE h == [at |-> "leave", req |-> handler[c].req, of |-> handler[c].of,
                 left |-> handler[c].left]
<1> DEFINE w == [at |-> "capture", conn |-> c, req |-> handler[c].req, end |-> "none"]
<1>1. BridgeTypeOK /\ handler' = [handler EXCEPT ![c] = h]
  BY Moved DEF FreshInv, BaseInv, StartCapture
<1>2. /\ handler[c].at = "start" /\ ~done /\ handler[c].req >= 1
      /\ ~IsAlive(current) /\ current \in Nat /\ current < MaxStarts
  BY BoundsAssumption
  DEF FreshInv, BaseInv, HandlersInv, WorkersInv, PacketsInv, StartCapture, At, InRequest, InStart,
      BridgeTypeOK, Attempts
<1>3. current' = current + 1 /\ current' \in Attempts /\ worker' = [worker EXCEPT ![current'] = w]
  BY <1>2, BoundsAssumption DEF StartCapture, Attempts
<1>4. h \in Handlers /\ w \in Workers
  BY <1>1, HandlerFields DEF Handlers, InStart, Workers
<1>5. UNCHANGED <<peer, out, packets, done, lock>>  BY DEF StartCapture
<1>6. /\ h.at = "leave" /\ h.req = handler[c].req
      /\ w.at = "capture" /\ w.conn = c /\ w.req = handler[c].req /\ w.end = "none"
  OBVIOUS
<1> HIDE DEF h, w
<1>7. handler'[c] = h /\ \A d \in Conns \ {c} : handler'[d] = handler[d]
  BY <1>1 DEF BridgeTypeOK
<1>8. worker'[current'] = w /\ \A n \in Attempts \ {current'} : worker'[n] = worker[n]
  BY <1>1, <1>3 DEF BridgeTypeOK
<1>9. \A n \in Attempts : worker[n].at \in {"none", "dead"}
  <2> SUFFICES ASSUME NEW n \in Attempts, worker[n].at # "none" PROVE worker[n].at = "dead"
    OBVIOUS
  <2>1. n \in Nat /\ n >= 1 /\ n <= current  BY BoundsAssumption DEF FreshInv, BaseInv, WorkersInv, Attempts
  <2>2. n < current \/ n = current  BY <2>1, <1>2
  <2>3. n = current => current # 0  BY <2>1
  <2> QED BY <1>2, <2>2, <2>3 DEF FreshInv, BaseInv, WorkersInv, IsAlive
<1>10. BridgeTypeOK'
  <2>1. \A d \in Conns : lock' = d <=> handler'[d].at \in InStart
    BY <1>1, <1>2, <1>5, <1>6, <1>7 DEF BridgeTypeOK, InStart
  <2> QED BY <1>1, <1>3, <1>4, <1>5, <2>1 DEF BridgeTypeOK
<1>11. HandlersInv'
  BY <1>2, <1>6, <1>7 DEF FreshInv, BaseInv, HandlersInv
<1>12. WorkersInv'
  <2>1. ASSUME NEW n \in Attempts
        PROVE  /\ worker'[n].at # "none" <=> n <= current'
               /\ worker'[n].at # "none" => worker'[n].conn \in Conns /\ worker'[n].req >= 1
               /\ worker'[n].at = "none" => worker'[n].conn = NoConn
               /\ worker'[n].at \in {"none", "capture"} => worker'[n].end = "none"
               /\ n < current' => worker'[n].at = "dead"
    <3>1. n \in Nat  BY BoundsAssumption DEF Attempts
    <3>2. CASE n = current'  BY <1>2, <1>3, <1>6, <1>8, <3>1, <3>2
    <3>3. CASE n # current'
      <4>1. worker'[n] = worker[n]  BY <1>8, <3>3
      <4>2. n <= current' <=> n <= current  BY <1>2, <1>3, <3>1, <3>3
      <4>3. n < current' => n <= current  BY <1>2, <1>3, <3>1, <3>3
      <4> QED BY <1>9, <4>1, <4>2, <4>3 DEF FreshInv, BaseInv, WorkersInv
    <3> QED BY <3>2, <3>3
  <2>2. ASSUME NEW d \in Conns, handler'[d].at \in {"clear", "start"}
        PROVE  FALSE
    <3>1. d # c  BY <2>2, <1>6, <1>7
    <3>2. handler[d].at \in InStart  BY <2>2, <1>7, <3>1 DEF InStart
    <3>3. handler[c].at \in InStart  BY <1>2 DEF InStart
    <3> QED BY <1>1, <3>1, <3>2, <3>3 DEF BridgeTypeOK
  <2> QED BY <2>1, <2>2 DEF WorkersInv
<1>13. PacketsInv'
  <2>1. \A n \in Attempts : worker'[n].at \in {"set", "answer", "sent", "dead"} =>
          packets = NoPackets \/ Recent(worker'[n].end, packets, n)
    BY <1>6, <1>8 DEF FreshInv, PacketsInv
  <2>2. ASSUME NEW d \in Conns, handler'[d].at \in {"start", "bind", "chunk", "rest"}
        PROVE  d # c /\ handler'[d] = handler[d]
    BY <2>2, <1>6, <1>7
  <2>3. ASSUME NEW d \in Conns, d # c, NEW n \in Attempts, worker'[n].conn = d
        PROVE  worker'[n] = worker[n]
    BY <2>3, <1>6, <1>8
  <2> QED BY <1>2, <1>5, <2>1, <2>2, <2>3 DEF FreshInv, PacketsInv
<1>14. StreamsInv'
  <2>1. \A d \in Conns : handler'[d].req = handler[d].req  BY <1>6, <1>7
  <2>2. ASSUME NEW d \in Conns, NEW i \in 1 .. Len(out[d]), NEW n \in Attempts,
               IsChunk(out[d][i]), worker'[n].conn = d, worker'[n].req < out[d][i].req
        PROVE  Recent(worker'[n].end, out[d][i].of, n)
    <3>1. CASE n = current'
      <4>1. d = c /\ worker'[n].req = handler[c].req  BY <2>2, <1>6, <1>8, <3>1
      <4>2. out[d][i].req <= handler[c].req  BY <2>2, <4>1 DEF FreshInv, StreamsInv
      <4>3. out[d][i] \in Pieces  BY <1>1 DEF BridgeTypeOK
      <4>4. out[d][i].req \in Nat  BY <4>3, BoundsAssumption DEF Pieces
      <4>5. handler[c].req \in Nat  BY <1>1, HandlerFields
      <4> QED BY <2>2, <4>1, <4>2, <4>4, <4>5
    <3>2. CASE n # current'
      BY <2>2, <3>2, <1>8 DEF FreshInv, StreamsInv
    <3> QED BY <3>1, <3>2
  <2> QED BY <1>5, <2>1, <2>2 DEF FreshInv, StreamsInv, IsChunk
<1> QED BY <1>10, <1>11, <1>12, <1>13, <1>14 DEF FreshInv, BaseInv

------------------------------------------------------------------------------
(* The steps of a capture thread.                                             *)
\* A capture thread that runs is that of the last capture, and goes on as itself.
LEMMA WorkerStep ==
  ASSUME FreshInv, NEW n \in Attempts, worker[n].at \in {"capture", "set", "answer", "sent"},
         NEW to \in {"set", "answer", "sent", "dead"}, NEW end \in Outcomes \cup {"none"},
         WorkerEnds(n, to, end), worker[n].at = "capture" \/ end = worker[n].end,
         UNCHANGED <<current, peer, lock>>,
         packets' \in Attempts \cup {NoPackets}, done' \in BOOLEAN,
         out' \in [Conns -> Seq(Pieces)], handler' \in [Conns -> Handlers],
         \A c \in Conns : \/ handler'[c] = handler[c]
                          \/ /\ handler[c].at = "wait" /\ handler'[c].at = "bind"
                             /\ handler'[c].req = handler[c].req
  PROVE  /\ BaseInv' /\ Onward
         /\ n = current
         /\ \A m \in Attempts : worker'[m].conn = worker[m].conn
         /\ \A m \in Attempts : worker'[m].at =
              IF m = n THEN to ELSE IF m < n THEN "dead" ELSE "none"
<1>1. BridgeTypeOK /\ HandlersInv /\ WorkersInv  BY DEF FreshInv, BaseInv
<1>2. worker'[n] = [at |-> to, conn |-> worker[n].conn, req |-> worker[n].req, end |-> end]
      /\ \A m \in Attempts \ {n} : worker'[m] = worker[m]
  BY <1>1 DEF BridgeTypeOK, WorkerEnds
<1>3. \A m \in Attempts :
        /\ worker'[m].conn = worker[m].conn /\ worker'[m].req = worker[m].req
        /\ worker'[m].end = worker[m].end \/ worker[m].end = "none"
  BY <1>1, <1>2 DEF WorkersInv
<1>4. n = current
  <2>1. n <= current /\ ~(n < current)  BY <1>1 DEF WorkersInv
  <2>2. n \in Nat /\ current \in Nat  BY <1>1, BoundsAssumption DEF BridgeTypeOK, Attempts
  <2> QED BY <2>1, <2>2
<1>5. \A m \in Attempts : worker'[m].at = IF m = n THEN to ELSE IF m < n THEN "dead" ELSE "none"
  <2> SUFFICES ASSUME NEW m \in Attempts, m # n
               PROVE  worker[m].at = IF m < n THEN "dead" ELSE "none"
    BY <1>2
  <2>1. m \in Nat /\ n \in Nat  BY BoundsAssumption DEF Attempts
  <2>2. m < n => worker[m].at = "dead"  BY <1>1, <1>4 DEF WorkersInv
  <2>3. ~(m < n) => ~(m <= current)  BY <2>1, <1>4
  <2>4. ~(m <= current) => worker[m].at = "none"  BY <1>1 DEF WorkersInv
  <2> QED BY <2>2, <2>3, <2>4
<1>6. \A c \in Conns : /\ handler'[c].req = handler[c].req
                       /\ \/ handler'[c] = handler[c]
                          \/ handler'[c].at = "bind" /\ handler[c].at = "wait"
  OBVIOUS
<1>7. BridgeTypeOK'
  <2>1. worker' \in [Attempts -> Workers]
    <3>1. worker[n] \in Workers  BY <1>1 DEF BridgeTypeOK
    <3>2. [at |-> to, conn |-> worker[n].conn, req |-> worker[n].req, end |-> end] \in Workers
      BY <3>1 DEF Workers
    <3> QED BY <1>1, <3>2 DEF WorkerEnds, BridgeTypeOK
  <2>2. \A c \in Conns : handler'[c].at \in InStart <=> handler[c].at \in InStart
    BY <1>6 DEF InStart
  <2> QED BY <1>1, <2>1, <2>2 DEF BridgeTypeOK
<1>8. HandlersInv'
  BY <1>1, <1>6 DEF HandlersInv, InRequest
<1>9. WorkersInv'
  <2>1. ASSUME NEW m \in Attempts
        PROVE  /\ worker'[m].at # "none" <=> m <= current
               /\ worker'[m].at # "none" => worker'[m].conn \in Conns /\ worker'[m].req >= 1
               /\ worker'[m].at = "none" => worker'[m].conn = NoConn
               /\ worker'[m].at \in {"none", "capture"} => worker'[m].end = "none"
               /\ m < current => worker'[m].at = "dead"
    BY <1>1, <1>2, <1>4 DEF WorkersInv
  <2>2. ASSUME NEW c \in Conns, handler'[c].at \in {"clear", "start"}
        PROVE  FALSE
    <3>1. handler[c].at \in {"clear", "start"}  BY <2>2, <1>6
    <3>2. ~IsAlive(current)  BY <1>1, <3>1 DEF WorkersInv
    <3>3. current # 0  BY <1>4, BoundsAssumption DEF Attempts
    <3> QED BY <3>2, <3>3, <1>4 DEF IsAlive
  <2> QED BY <2>1, <2>2 DEF WorkersInv
<1>10. Onward
  <2>1. \A c \in Conns : handler[c].req \in Nat  BY <1>1, HandlerFields
  <2> QED BY <1>3, <1>6, <2>1 DEF Onward
<1> QED BY <1>3, <1>4, <1>5, <1>7, <1>8, <1>9, <1>10 DEF BaseInv

\* Stores the packets: the thread's own, or none.
LEMMA CaptureInv == ASSUME FreshInv, NEW n \in Attempts, Capture(n) PROVE FreshInv'
<1>1. BridgeTypeOK /\ PacketsInv /\ StreamsInv /\ worker[n].at = "capture"
  BY DEF FreshInv, BaseInv, Capture
<1>0. PICK end \in Outcomes : packets' = Stored(n, end) /\ WorkerEnds(n, "set", end)
  BY DEF Capture
<1>2. /\ WorkerEnds(n, "set", end) /\ UNCHANGED <<peer, handler, out, current, done, lock>>
      /\ packets' \in Attempts \cup {NoPackets}
      /\ packets' \in {n, NoPackets} \/ (end = "exit" /\ packets' = packets)
  BY <1>0, <1>1, OutcomesAssumption DEF Capture, BridgeTypeOK, Stored
<1>3. /\ BaseInv' /\ Onward /\ n = current
      /\ \A m \in Attempts : worker'[m].conn = worker[m].conn
      /\ \A m \in Attempts : worker'[m].at =
           IF m = n THEN "set" ELSE IF m < n THEN "dead" ELSE "none"
  BY <1>1, <1>2, WorkerStep DEF BridgeTypeOK
<1>4. ~done /\ \A c \in Conns : handler[c].at = "bind" => worker[n].conn # c
  BY <1>1 DEF PacketsInv
<1>5. PacketsInv'
  <2>1. ASSUME NEW m \in Attempts, worker'[m].at \in {"set", "answer", "sent", "dead"}
        PROVE  packets' = NoPackets \/ Recent(worker'[m].end, packets', m)
    <3>1. m \in Nat /\ n \in Nat  BY BoundsAssumption DEF Attempts
    <3>2. m <= n  BY <1>3, <2>1, <3>1
    <3>3. CASE packets' \in {n, NoPackets}  BY <3>1, <3>2, <3>3 DEF Recent
    <3>4. worker'[n].end = end /\ \A k \in Attempts \ {n} : worker'[k] = worker[k]
      BY <1>1, <1>2 DEF BridgeTypeOK, WorkerEnds
    <3>5. CASE end = "exit" /\ packets' = packets
      <4>1. CASE m = n  BY <3>4, <3>5, <4>1 DEF Recent
      <4>2. CASE m # n
        <5>1. worker'[m] = worker[m] /\ worker[m].at \in {"set", "answer", "sent", "dead"}
          BY <2>1, <3>4, <4>2
        <5> QED BY <1>1, <3>5, <5>1 DEF PacketsInv
      <4> QED BY <4>1, <4>2
    <3> QED BY <1>2, <3>3, <3>5
  <2>2. ASSUME NEW c \in Conns, handler[c].at = "bind", NEW m \in Attempts, worker[m].conn = c
        PROVE  worker'[m].at \in {"answer", "sent", "dead"}
    <3>1. m # n /\ worker[m].at \in {"answer", "sent", "dead"}  BY <1>1, <1>4, <2>2 DEF PacketsInv
    <3>2. m < n
      BY <1>1, <1>3, <3>1, BoundsAssumption DEF FreshInv, BaseInv, WorkersInv, Attempts
    <3> QED BY <1>3, <3>1, <3>2
  <2>3. ASSUME NEW c \in Conns, handler[c].at \in {"chunk", "rest"}, NEW m \in Attempts,
               worker'[m].conn = c
        PROVE  Recent(worker'[m].end, handler[c].of, m)
    BY <1>1, <1>3, <2>3, RecentStays DEF PacketsInv, Onward
  <2> QED BY <1>1, <1>2, <1>3, <1>4, <2>1, <2>2, <2>3 DEF PacketsInv
<1>6. StreamsInv'
  BY <1>1, <1>2, <1>3, StreamsAfterSilence DEF BridgeTypeOK
<1> QED BY <1>3, <1>5, <1>6 DEF FreshInv

\* Sets the event: whoever waits will read the packets, and no capture is going on.
LEMMA SetDoneInv == ASSUME FreshInv, NEW n \in Attempts, SetDone(n) PROVE FreshInv'
<1>1. BridgeTypeOK /\ PacketsInv /\ StreamsInv /\ worker[n].at = "set"
  BY DEF FreshInv, BaseInv, SetDone
<1>2. /\ WorkerEnds(n, "answer", worker[n].end) /\ done' = TRUE
      /\ UNCHANGED <<peer, out, current, packets, lock>>
      /\ handler' = [c \in Conns |-> Woken(handler[c])]
  BY DEF SetDone, WorkerGoes
<1>3. ASSUME NEW c \in Conns
      PROVE  /\ handler'[c] \in Handlers
             /\ \/ handler'[c] = handler[c]
                \/ /\ handler[c].at = "wait" /\ handler'[c].at = "bind"
                   /\ handler'[c].req = handler[c].req
             /\ handler'[c].at \in {"start", "chunk", "rest"} => handler'[c] = handler[c]
  <2> DEFINE h == [at |-> "bind", req |-> handler[c].req, of |-> handler[c].of,
                   left |-> handler[c].left]
  <2>1. h \in Handlers /\ h.at = "bind" /\ h.req = handler[c].req
    BY <1>1, HandlerFields DEF Handlers
  <2>2. handler'[c] = IF handler[c].at = "wait" THEN h ELSE handler[c]
    BY <1>2 DEF Woken
  <2>3. handler[c] \in Handlers  BY <1>1, HandlerFields
  <2> HIDE DEF h
  <2> QED BY <2>1, <2>2, <2>3
<1>4. handler' \in [Conns -> Handlers]  BY <1>2, <1>3
<1>5. /\ BaseInv' /\ Onward /\ n = current
      /\ \A m \in Attempts : worker'[m].conn = worker[m].conn
      /\ \A m \in Attempts : worker'[m].at =
           IF m = n THEN "answer" ELSE IF m < n THEN "dead" ELSE "none"
  <2>1. PICK end \in Outcomes \cup {"none"} : end = worker[n].end
    BY <1>1 DEF BridgeTypeOK, Workers
  <2>2. WorkerEnds(n, "answer", end)  BY <1>2, <2>1
  <2>3. /\ packets' \in Attempts \cup {NoPackets} /\ done' \in BOOLEAN
        /\ out' \in [Conns -> Seq(Pieces)] /\ UNCHANGED <<current, peer, lock>>
    BY <1>1, <1>2 DEF BridgeTypeOK
  <2>4. \A c \in Conns : \/ handler'[c] = handler[c]
                         \/ /\ handler[c].at = "wait" /\ handler'[c].at = "bind"
                            /\ handler'[c].req = handler[c].req
    BY <1>3
  <2> QED BY <1>1, <1>4, <2>1, <2>2, <2>3, <2>4, WorkerStep
<1>6. \A m \in Attempts : worker'[m].at \in {"none", "answer", "sent", "dead"}
  BY <1>5
<1>7. ASSUME NEW m \in Attempts, worker'[m].at \in {"answer", "sent", "dead"}
      PROVE  worker[m].at \in {"set", "answer", "sent", "dead"}
  <2>1. m = n \/ m < n  BY <1>5, <1>7
  <2>2. m < n => worker[m].at = "dead"  BY <1>5 DEF FreshInv, BaseInv, WorkersInv
  <2> QED BY <1>1, <2>1, <2>2
<1>8. \A c \in Conns : handler'[c].at # "start"
  <2>1. current' \in Attempts /\ worker'[current'].at = "answer" /\ current' # 0
    BY <1>2, <1>5, BoundsAssumption DEF Attempts
  <2>2. IsAlive(current)'  BY <2>1 DEF IsAlive
  <2> QED BY <1>5, <2>2 DEF BaseInv, WorkersInv
<1>9. \A m \in Attempts : \A c \in Conns : worker'[m].conn = c => worker'[m].at \in {"answer", "sent", "dead"}
  BY <1>5, <1>6, ConnsAssumption DEF BaseInv, WorkersInv
<1>10. PacketsInv'
  <2>1. \A m \in Attempts : worker'[m].end = worker[m].end
    BY <1>1, <1>2 DEF BridgeTypeOK, WorkerEnds
  <2> QED BY <1>1, <1>2, <1>3, <1>5, <1>6, <1>7, <1>8, <1>9, <2>1 DEF PacketsInv
<1>11. StreamsInv'
  BY <1>1, <1>2, <1>4, <1>5, StreamsAfterSilence
<1> QED BY <1>5, <1>10, <1>11 DEF FreshInv

\* After the event: an answer to the client that started the capture, and the end.
LEMMA TailInv ==
  ASSUME FreshInv, NEW n \in Attempts, worker[n].at \in {"answer", "sent"},
         NEW to \in {"sent", "dead"}, WorkerGoes(n, to),
         UNCHANGED <<peer, handler, current, packets, done, lock>>,
         Sends(worker[n].conn, Piece(worker[n].req, "disabled", n)) \/ UNCHANGED out
  PROVE  FreshInv'
<1> DEFINE p == Piece(worker[n].req, "disabled", n)
<1>1. BridgeTypeOK /\ PacketsInv /\ StreamsInv /\ WorkersInv
  BY DEF FreshInv, BaseInv
<1>2. /\ WorkerEnds(n, to, worker[n].end)
      /\ UNCHANGED <<peer, handler, current, packets, done, lock>>
      /\ Sends(worker[n].conn, p) \/ UNCHANGED out
  BY DEF WorkerGoes
<1>3. worker[n].conn \in Conns /\ p \in Pieces /\ ~IsChunk(p)
  <2>1. worker[n].conn \in Conns /\ worker[n].req >= 1
    BY <1>1 DEF FreshInv, BaseInv, WorkersInv
  <2>2. worker[n].req \in 0 .. MaxRequests  BY <1>1 DEF BridgeTypeOK, Workers
  <2> QED BY <2>1, <2>2, BoundsAssumption DEF Piece, Pieces, IsChunk
<1> HIDE DEF p
<1>4. out' \in [Conns -> Seq(Pieces)]  BY <1>1, <1>2, <1>3, Sent DEF BridgeTypeOK
<1>5. /\ BaseInv' /\ Onward /\ n = current
      /\ \A m \in Attempts : worker'[m].conn = worker[m].conn
      /\ \A m \in Attempts : worker'[m].at =
           IF m = n THEN to ELSE IF m < n THEN "dead" ELSE "none"
  <2>1. worker[n].end \in Outcomes \cup {"none"} /\ handler' \in [Conns -> Handlers]
    BY <1>1, <1>2 DEF BridgeTypeOK, Workers
  <2> QED BY <1>1, <1>2, <1>4, <2>1, WorkerStep DEF BridgeTypeOK
<1>6. ASSUME NEW m \in Attempts
      PROVE  /\ worker'[m].at \in {"answer", "sent", "dead"} <=> worker[m].at \in {"answer", "sent", "dead"}
             /\ worker'[m].at \in {"set", "answer", "sent", "dead"} <=>
                  worker[m].at \in {"set", "answer", "sent", "dead"}
             /\ worker'[m].at \in {"none", "answer", "sent", "dead"} <=>
                  worker[m].at \in {"none", "answer", "sent", "dead"}
  <2>1. m = n => worker[m].at \in {"answer", "sent"} /\ worker'[m].at \in {"sent", "dead"}
    BY <1>5
  <2>2. m # n => worker'[m] = worker[m]  BY <1>1, <1>2 DEF BridgeTypeOK, WorkerEnds
  <2> QED BY <2>1, <2>2
<1>7. PacketsInv'
  <2>1. \A m \in Attempts : worker'[m].end = worker[m].end
    BY <1>1, <1>2 DEF BridgeTypeOK, WorkerEnds
  <2> QED BY <1>1, <1>2, <1>5, <1>6, <2>1 DEF PacketsInv
<1>8. StreamsInv'
  <2>1. handler' \in [Conns -> Handlers]  BY <1>1, <1>2 DEF BridgeTypeOK
  <2> QED BY <1>1, <1>2, <1>3, <1>5, <2>1, StreamsAfterSend, StreamsAfterSilence
<1> QED BY <1>5, <1>7, <1>8 DEF FreshInv

LEMMA AnswerInv == ASSUME FreshInv, NEW n \in Attempts, Answer(n) PROVE FreshInv'
  BY TailInv DEF Answer
LEMMA EndThreadInv == ASSUME FreshInv, NEW n \in Attempts, EndThread(n) PROVE FreshInv'
  BY TailInv DEF EndThread

------------------------------------------------------------------------------
LEMMA BridgeNextInv == FreshInv /\ [BridgeNext]_bridgeVars => FreshInv'
<1> SUFFICES ASSUME FreshInv, [BridgeNext]_bridgeVars PROVE FreshInv'
  OBVIOUS
<1>1. ASSUME NEW c \in Conns, Leave(c) \/ Request(c) \/ Serve(c) PROVE FreshInv'
  BY <1>1, LeaveInv, RequestInv, CloseInv, ReplyInv, EnterInv, LookForCaptureInv, ClearInv,
     StartInv, UnlockInv, LookInv, BindInv, ChunkInv, RestOfChunkInv, EofInv
  DEF Serve, Check, Await
<1>2. ASSUME NEW n \in Attempts, Work(n) PROVE FreshInv'
  BY <1>2, CaptureInv, SetDoneInv, AnswerInv, EndThreadInv DEF Work
<1>3. CASE UNCHANGED bridgeVars
  <2>1. BaseInv'
    BY <1>3 DEF bridgeVars, FreshInv, BaseInv, BridgeTypeOK, HandlersInv, WorkersInv, IsAlive
  <2>2. PacketsInv' /\ StreamsInv'
    BY <1>3 DEF bridgeVars, FreshInv, PacketsInv, StreamsInv, IsChunk
  <2> QED BY <2>1, <2>2 DEF FreshInv
<1> QED BY <1>1, <1>2, <1>3 DEF BridgeNext

(* Every reachable state satisfies the inductive invariant.                   *)
THEOREM BridgeInvariance == BridgeSpec => []FreshInv
<1>1. BridgeInit => FreshInv  BY InitBase, InitFresh DEF FreshInv
<1> QED BY <1>1, BridgeNextInv, PTL DEF BridgeSpec

(* The values stay within their types, and the thread inside _start_capture   *)
(* is the one that holds _capture_lock (record_bridge.py:282-308).            *)
THEOREM BridgeTypeCorrect == BridgeSpec => []BridgeTypeOK
<1>1. FreshInv => BridgeTypeOK  BY DEF FreshInv, BaseInv
<1> QED BY <1>1, BridgeInvariance, PTL

(* However many clients ask for a capture at once, there is one: a capture    *)
(* that has not set _capture_done is the last one started.                    *)
THEOREM SingleCapture == BridgeSpec => []OneCaptureAtATime
<1>1. FreshInv => OneCaptureAtATime
  <2> SUFFICES ASSUME FreshInv PROVE OneCaptureAtATime
    OBVIOUS
  <2> DEFINE S == {n \in Attempts : worker[n].at \in {"capture", "set"}}
  <2>1. ASSUME NEW n \in S PROVE n = current
    <3>1. n <= current /\ ~(n < current)
      BY <2>1 DEF FreshInv, BaseInv, WorkersInv
    <3>2. n \in Nat /\ current \in Nat
      BY <2>1, BoundsAssumption DEF FreshInv, BaseInv, BridgeTypeOK, Attempts
    <3> QED BY <3>1, <3>2
  <2>2. S = {} \/ S = {current}  BY <2>1
  <2>3. Cardinality(S) = 0 \/ Cardinality(S) = 1
    BY ONLY <2>2, FS_EmptySet, FS_Singleton
  <2> QED BY <2>3 DEF OneCaptureAtATime
<1> QED BY <1>1, BridgeInvariance, PTL

(* No ReadBuffers gets packets older than the last capture its connection     *)
(* started, unless that ended in SystemExit; for any number of clients,       *)
(* captures and requests, however they interleave.                            *)
THEOREM NoStalePackets == BridgeSpec => []FreshUnlessExit
<1>1. FreshInv => FreshUnlessExit
  <2> SUFFICES ASSUME FreshInv, NEW c \in Conns, NEW i \in 1 .. Len(out[c]), NEW n \in Attempts,
                      Stale(c, i, n)
               PROVE  worker[n].end = "exit"
    BY DEF FreshUnlessExit
  <2>1. Recent(worker[n].end, out[c][i].of, n) /\ out[c][i].of < n
    BY DEF FreshInv, StreamsInv, Stale
  <2>2. out[c] \in Seq(Pieces)  BY DEF FreshInv, BaseInv, BridgeTypeOK
  <2>3. out[c][i] \in Pieces  BY <2>2
  <2>4. out[c][i].of \in Nat /\ n \in Nat
    BY <2>3, BoundsAssumption DEF Pieces, Attempts, NoPackets
  <2> QED BY <2>1, <2>4 DEF Recent
<1> QED BY <1>1, BridgeInvariance, PTL

------------------------------------------------------------------------------
(* Streams are whole.                                                         *)
InStream == {"chunk", "rest", "eof"}

(* How far the stream of a request has got, from what was sent and where the  *)
(* thread is: nothing before it is bound, two pieces a chunk, all of them at  *)
(* the end; and whoever got an eof got the whole of it before.                *)
Whole(of) == IF of = NoPackets THEN 0 ELSE 2 * Chunks
Ended(given, i) == i \in 1 .. Len(given) /\ given[i].part = "eof"
StreamOf(given, h) ==
  /\ \A i \in 1 .. Len(given) : IsChunk(given[i]) => given[i].req <= h.req
  /\ \A i \in 1 .. Len(given) : Ended(given, i) =>
       /\ given[i].req <= h.req
       /\ h.at \in InRequest => given[i].req < h.req
       /\ Streamed(given, given[i].req, given[i].of, Whole(given[i].of))
  /\ h.at \in InRequest \ InStream => ChunksIn(given, h.req) = {}
  /\ h.at = "chunk" => Streamed(given, h.req, h.of, 2 * (Chunks - h.left))
  /\ h.at = "rest" => Streamed(given, h.req, h.of, 2 * (Chunks - h.left) + 1)
  /\ h.at = "eof" => Streamed(given, h.req, h.of, Whole(h.of))
WholeInv == \A c \in Conns : StreamOf(out[c], handler[c])

\* The chunks of a request are counted by a finite set.
LEMMA ChunksFinite ==
  ASSUME NEW o \in Seq(Pieces), NEW r
  PROVE  IsFiniteSet(ChunksIn(o, r))
<1>1. ChunksIn(o, r) \subseteq 1 .. Len(o)  BY DEF ChunksIn
<1>2. IsFiniteSet(1 .. Len(o))  BY FS_Interval
<1> QED BY <1>1, <1>2, FS_Subset

\* What is sent after it: a piece that is no chunk of the request, or one more.
LEMMA Appended ==
  ASSUME NEW o \in Seq(Pieces), NEW p \in Pieces
  PROVE  /\ Len(Append(o, p)) = Len(o) + 1
         /\ \A i \in 1 .. Len(o) + 1 : \/ i \in 1 .. Len(o) /\ Append(o, p)[i] = o[i]
                                       \/ i = Len(o) + 1 /\ Append(o, p)[i] = p
         /\ \A i \in 1 .. Len(o) : i \in 1 .. Len(o) + 1 /\ Append(o, p)[i] = o[i]
         /\ Len(o) + 1 \in 1 .. Len(o) + 1 /\ Append(o, p)[Len(o) + 1] = p
         /\ Len(o) + 1 \notin 1 .. Len(o)
  OBVIOUS

LEMMA OtherPiece ==
  ASSUME NEW o \in Seq(Pieces), NEW p \in Pieces, NEW r, ~(IsChunk(p) /\ p.req = r)
  PROVE  /\ ChunksIn(Append(o, p), r) = ChunksIn(o, r)
         /\ \A of, n : Streamed(o, r, of, n) => Streamed(Append(o, p), r, of, n)
<1> DEFINE s == Append(o, p)
<1>1. /\ Len(s) = Len(o) + 1
      /\ \A i \in 1 .. Len(o) + 1 : \/ i \in 1 .. Len(o) /\ s[i] = o[i]
                                    \/ i = Len(o) + 1 /\ s[i] = p
      /\ \A i \in 1 .. Len(o) : i \in 1 .. Len(o) + 1 /\ s[i] = o[i]
  BY Appended
<1> HIDE DEF s
<1>2. ChunksIn(s, r) = ChunksIn(o, r)  BY <1>1 DEF ChunksIn
<1>3. \A j \in ChunksIn(o, r) : s[j] = o[j]  BY <1>1 DEF ChunksIn
<1> QED BY <1>2, <1>3 DEF Streamed, s

LEMMA OneMoreChunk ==
  ASSUME NEW o \in Seq(Pieces), NEW p \in Pieces, IsChunk(p), NEW n \in Nat,
         Streamed(o, p.req, p.of, n)
  PROVE  Streamed(Append(o, p), p.req, p.of, n + 1)
<1> DEFINE s == Append(o, p)
           m == Len(o) + 1
<1>1. /\ Len(s) = m
      /\ \A i \in 1 .. m : \/ i \in 1 .. Len(o) /\ s[i] = o[i]
                           \/ i = m /\ s[i] = p
      /\ \A i \in 1 .. Len(o) : i \in 1 .. m /\ s[i] = o[i]
      /\ m \in 1 .. m /\ s[m] = p
      /\ m \notin 1 .. Len(o)
  BY Appended
<1> HIDE DEF s, m
<1>2. ChunksIn(s, p.req) = ChunksIn(o, p.req) \cup {m}  BY <1>1 DEF ChunksIn
<1>3. m \notin ChunksIn(o, p.req)  BY <1>1 DEF ChunksIn
<1>4. Cardinality(ChunksIn(s, p.req)) = n + 1
  BY <1>2, <1>3, ChunksFinite, FS_AddElement DEF Streamed
<1>5. \A j \in ChunksIn(s, p.req) : s[j].of = p.of
  BY <1>1, <1>2 DEF Streamed, ChunksIn
<1> QED BY <1>4, <1>5 DEF Streamed, s

\* A thread that goes on without a stream.
LEMMA NoStream ==
  ASSUME NEW o, NEW h, NEW k, StreamOf(o, h), k.req = h.req, k.at \notin InStream,
         k.at \in InRequest => h.at \in InRequest \ InStream
  PROVE  StreamOf(o, k)
  BY DEF StreamOf, InStream

\* Sending a reply leaves the stream as it is.
LEMMA NotAStreamPiece ==
  ASSUME NEW o \in Seq(Pieces), NEW h, NEW p \in Pieces, ~IsChunk(p), p.part # "eof",
         StreamOf(o, h)
  PROVE  StreamOf(Append(o, p), h)
<1> DEFINE s == Append(o, p)
<1>1. /\ Len(s) = Len(o) + 1
      /\ \A i \in 1 .. Len(o) + 1 : \/ i \in 1 .. Len(o) /\ s[i] = o[i]
                                    \/ i = Len(o) + 1 /\ s[i] = p
  BY Appended
<1>2. \A r : /\ ChunksIn(s, r) = ChunksIn(o, r)
             /\ \A of, n : Streamed(o, r, of, n) => Streamed(s, r, of, n)
  BY OtherPiece
<1> HIDE DEF s
<1>3. ASSUME NEW i \in 1 .. Len(s), IsChunk(s[i]) \/ Ended(s, i)
      PROVE  i \in 1 .. Len(o) /\ s[i] = o[i] /\ (Ended(s, i) => Ended(o, i))
  BY <1>1, <1>3 DEF Ended
<1>4. /\ \A i \in 1 .. Len(s) : IsChunk(s[i]) => s[i].req <= h.req
      /\ \A i \in 1 .. Len(s) : Ended(s, i) =>
           /\ s[i].req <= h.req
           /\ h.at \in InRequest => s[i].req < h.req
           /\ Streamed(s, s[i].req, s[i].of, Whole(s[i].of))
  BY <1>2, <1>3 DEF StreamOf
<1>5. StreamOf(s, h)  BY <1>2, <1>4 DEF StreamOf
<1> QED BY <1>5 DEF s

\* Sending a chunk of the stream that goes on.
LEMMA ChunkOfStream ==
  ASSUME NEW o \in Seq(Pieces), NEW h \in Handlers, NEW k, NEW p \in Pieces, IsChunk(p),
         StreamOf(o, h), h.at \in InRequest, p.req = h.req, k.req = h.req,
         k.at \in InStream, k.of = p.of, NEW n \in Nat, Streamed(o, p.req, p.of, n),
         k.at = "chunk" => 2 * (Chunks - k.left) = n + 1,
         k.at = "rest" => 2 * (Chunks - k.left) + 1 = n + 1,
         k.at = "eof" => Whole(k.of) = n + 1
  PROVE  StreamOf(Append(o, p), k)
<1> DEFINE s == Append(o, p)
<1>1. /\ Len(s) = Len(o) + 1
      /\ \A i \in 1 .. Len(o) + 1 : \/ i \in 1 .. Len(o) /\ s[i] = o[i]
                                    \/ i = Len(o) + 1 /\ s[i] = p
  BY Appended
<1>2. \A r : r # p.req => \A of, m : Streamed(o, r, of, m) => Streamed(s, r, of, m)
  BY OtherPiece
<1>3. Streamed(s, p.req, p.of, n + 1)  BY OneMoreChunk
<1> HIDE DEF s
<1>4. h.req \in Nat /\ p.req \in Nat  BY BoundsAssumption DEF Handlers, Pieces
<1>5. ASSUME NEW i \in 1 .. Len(s), IsChunk(s[i]) PROVE s[i].req <= k.req
  BY <1>1, <1>4, <1>5 DEF StreamOf
<1>6. ASSUME NEW i \in 1 .. Len(s), Ended(s, i)
      PROVE  /\ s[i].req <= k.req
             /\ s[i].req < k.req
             /\ Streamed(s, s[i].req, s[i].of, Whole(s[i].of))
  <2>1. i \in 1 .. Len(o) /\ s[i] = o[i] /\ Ended(o, i)
    BY <1>1, <1>6 DEF Ended, IsChunk
  <2>2. o[i].req <= h.req /\ o[i].req < h.req /\ Streamed(o, o[i].req, o[i].of, Whole(o[i].of))
    BY <2>1 DEF StreamOf
  <2>3. o[i].req \in Nat
    <3>1. o[i] \in Pieces  BY <2>1
    <3> QED BY <3>1, BoundsAssumption DEF Pieces
  <2>4. o[i].req # p.req  BY <2>2, <2>3, <1>4
  <2> QED BY <1>2, <2>1, <2>2, <2>4
<1>7. k.at \notin InRequest \ InStream  OBVIOUS
<1>8. StreamOf(s, k)  BY <1>3, <1>5, <1>6, <1>7 DEF StreamOf
<1> QED BY <1>8 DEF s

\* Sending the end of the stream.
LEMMA EndOfStream ==
  ASSUME NEW o \in Seq(Pieces), NEW h \in Handlers, NEW k, NEW p \in Pieces, p.part = "eof",
         StreamOf(o, h), h.at = "eof", p.req = h.req, p.of = h.of,
         k.req = h.req, k.at = "recv"
  PROVE  StreamOf(Append(o, p), k)
<1> DEFINE s == Append(o, p)
<1>1. /\ Len(s) = Len(o) + 1
      /\ \A i \in 1 .. Len(o) + 1 : \/ i \in 1 .. Len(o) /\ s[i] = o[i]
                                    \/ i = Len(o) + 1 /\ s[i] = p
  BY Appended
<1>2. ~IsChunk(p)  BY DEF IsChunk
<1>3. \A r, of, m : Streamed(o, r, of, m) => Streamed(s, r, of, m)
  BY <1>2, OtherPiece
<1> HIDE DEF s
<1>4. h.req \in Nat  BY BoundsAssumption DEF Handlers
<1>5. k.at \notin InRequest  BY DEF InRequest, InStart
<1>6. ASSUME NEW i \in 1 .. Len(s), IsChunk(s[i]) PROVE s[i].req <= k.req
  BY <1>1, <1>2, <1>6 DEF StreamOf
<1>7. ASSUME NEW i \in 1 .. Len(s), Ended(s, i)
      PROVE  /\ s[i].req <= k.req
             /\ Streamed(s, s[i].req, s[i].of, Whole(s[i].of))
  <2>1. CASE i \in 1 .. Len(o) /\ s[i] = o[i]
    BY <2>1, <1>3, <1>7 DEF StreamOf, Ended
  <2>2. CASE s[i] = p
    <3>1. Streamed(o, h.req, h.of, Whole(h.of))  BY DEF StreamOf
    <3> QED BY <2>2, <3>1, <1>3, <1>4
  <2> QED BY <2>1, <2>2, <1>1
<1>8. k.at \notin {"chunk", "rest", "eof"}  OBVIOUS
<1>9. StreamOf(s, k)  BY <1>5, <1>6, <1>7, <1>8 DEF StreamOf
<1> QED BY <1>9 DEF s

------------------------------------------------------------------------------
(* Every stream is whole: a step of one thread that keeps its stream so.      *)
LEMMA WholeOver ==
  ASSUME BridgeTypeOK, WholeInv, NEW c \in Conns, NEW k, handler' = [handler EXCEPT ![c] = k],
         \A d \in Conns \ {c} : out'[d] = out[d], StreamOf(out'[c], k)
  PROVE  WholeInv'
<1>1. handler'[c] = k /\ \A d \in Conns \ {c} : handler'[d] = handler[d]  BY DEF BridgeTypeOK
<1>2. \A d \in Conns \ {c} : StreamOf(out'[d], handler'[d])  BY <1>1 DEF WholeInv
<1>3. StreamOf(out'[c], handler'[c])  BY <1>1
<1> QED BY <1>2, <1>3 DEF WholeInv

\* One that sends nothing.
LEMMA WholeOverGoing ==
  ASSUME BridgeTypeOK, WholeInv, NEW c \in Conns, NEW to, Goes(c, to), UNCHANGED out,
         to \notin InStream, to \in InRequest => handler[c].at \in InRequest \ InStream
  PROVE  WholeInv'
<1> DEFINE k == [at |-> to, req |-> handler[c].req, of |-> handler[c].of, left |-> handler[c].left]
<1>1. handler' = [handler EXCEPT ![c] = k]  BY Moved
<1>2. k.at = to /\ k.req = handler[c].req  OBVIOUS
<1> HIDE DEF k
<1>3. StreamOf(out[c], handler[c])  BY DEF WholeInv
<1>4. StreamOf(out[c], k)  BY <1>2, <1>3, NoStream
<1> QED BY <1>1, <1>4, WholeOver

\* One that sends a piece.
LEMMA SentBy ==
  ASSUME BridgeTypeOK, NEW c \in Conns, NEW p, Sends(c, p)
  PROVE  out[c] \in Seq(Pieces) /\ out'[c] = Append(out[c], p)
         /\ \A d \in Conns \ {c} : out'[d] = out[d]
  BY DEF BridgeTypeOK, Sends

LEMMA WholeRequest ==
  ASSUME BridgeTypeOK, WholeInv, NEW c \in Conns, Request(c) PROVE WholeInv'
<1>1. PICK to \in {"check", "enable", "reply"} :
        handler' = [handler EXCEPT ![c] = [at |-> to, req |-> handler[c].req + 1,
                                           of |-> NoPackets, left |-> 0]]
  BY DEF Request
<1> DEFINE h == handler[c]
           k == [at |-> to, req |-> h.req + 1, of |-> NoPackets, left |-> 0]
           o == out[c]
<1>2. StreamOf(o, h) /\ o \in Seq(Pieces) /\ h.req \in Nat
  BY HandlerFields DEF WholeInv, BridgeTypeOK
<1>3. k.req = h.req + 1 /\ k.at = to /\ handler' = [handler EXCEPT ![c] = k]  BY <1>1
<1>4. k.at \notin {"chunk", "rest", "eof"}  BY <1>3
<1>5. \A i \in 1 .. Len(o) : o[i].req \in Nat
  <2>1. \A i \in 1 .. Len(o) : o[i] \in Pieces  BY <1>2
  <2> QED BY <2>1, BoundsAssumption DEF Pieces
<1> HIDE DEF h, k, o
<1>6. \A i \in 1 .. Len(o) : IsChunk(o[i]) => o[i].req <= h.req  BY <1>2 DEF StreamOf
<1>7. \A i \in 1 .. Len(o) : Ended(o, i) =>
        o[i].req <= h.req /\ Streamed(o, o[i].req, o[i].of, Whole(o[i].of))
  BY <1>2 DEF StreamOf
<1>8. \A i \in 1 .. Len(o) : o[i].req <= h.req => o[i].req <= k.req /\ o[i].req < k.req
  BY <1>2, <1>3, <1>5
<1>9. ChunksIn(o, k.req) = {}
  <2>1. \A i \in 1 .. Len(o) : IsChunk(o[i]) => o[i].req # k.req  BY <1>5, <1>2, <1>3, <1>6, <1>8
  <2> QED BY <2>1 DEF ChunksIn
<1>10. StreamOf(o, k)  BY <1>4, <1>6, <1>7, <1>8, <1>9 DEF StreamOf
<1>11. out' = out  BY DEF Request
<1> QED BY <1>3, <1>10, <1>11, WholeOver DEF o

LEMMA WholeReply == ASSUME FreshInv, WholeInv, NEW c \in Conns, Reply(c) PROVE WholeInv'
<1> DEFINE p == Piece(handler[c].req, "reply", NoPackets)
           k == [at |-> "recv", req |-> handler[c].req, of |-> handler[c].of,
                 left |-> handler[c].left]
<1>1. BridgeTypeOK /\ handler[c].at = "reply" /\ handler[c].req >= 1
  BY DEF FreshInv, BaseInv, HandlersInv, Reply, At, InRequest
<1>2. Sends(c, p) /\ handler' = [handler EXCEPT ![c] = k]  BY Moved DEF Reply
<1>3. p \in Pieces  BY <1>1, HandlerFields, BoundsAssumption DEF Piece, Pieces
<1>4. ~IsChunk(p) /\ p.part # "eof"  BY DEF Piece, IsChunk
<1>5. k.req = handler[c].req /\ k.at \notin InRequest /\ k.at \notin InStream
  BY DEF InRequest, InStart, InStream
<1> HIDE DEF p, k
<1>6. /\ out[c] \in Seq(Pieces) /\ out'[c] = Append(out[c], p)
      /\ \A d \in Conns \ {c} : out'[d] = out[d]
  BY <1>1, <1>2, SentBy
<1>7. StreamOf(out[c], handler[c])  BY DEF WholeInv
<1>8. StreamOf(out'[c], handler[c])  BY <1>3, <1>4, <1>6, <1>7, NotAStreamPiece
<1>9. StreamOf(out'[c], k)  BY <1>5, <1>8, NoStream
<1> QED BY <1>1, <1>2, <1>6, <1>9, WholeOver

\* Binding the packets: none of their chunks is sent.
LEMMA WholeBind == ASSUME BridgeTypeOK, WholeInv, NEW c \in Conns, Bind(c) PROVE WholeInv'
<1>1. /\ handler[c].at = "bind" /\ out' = out
      /\ \/ Becomes(c, "eof", NoPackets, 0)
         \/ packets # NoPackets /\ Becomes(c, "chunk", packets, Chunks)
  BY DEF Bind, At
<1>2. StreamOf(out[c], handler[c]) /\ "bind" \in InRequest \ InStream
  BY DEF WholeInv, InRequest, InStream
<1>3. ChunksIn(out[c], handler[c].req) = {}  BY <1>1, <1>2 DEF StreamOf
<1>4. \A of : Streamed(out[c], handler[c].req, of, 0)  BY <1>3, FS_EmptySet DEF Streamed
<1>5. ASSUME NEW k, k.req = handler[c].req, k.at \in {"eof", "chunk"},
             k.at = "eof" => Whole(k.of) = 0, k.at = "chunk" => 2 * (Chunks - k.left) = 0
      PROVE  StreamOf(out[c], k)
  <2>1. k.at \in InRequest /\ k.at \notin InRequest \ InStream /\ k.at # "rest"
    BY <1>5 DEF InRequest, InStream
  <2> QED BY <1>1, <1>2, <1>4, <1>5, <2>1 DEF StreamOf
<1>6. CASE Becomes(c, "eof", NoPackets, 0)
  <2> DEFINE k == [at |-> "eof", req |-> handler[c].req, of |-> NoPackets, left |-> 0]
  <2>1. handler' = [handler EXCEPT ![c] = k]  BY <1>6 DEF Becomes
  <2>2. k.req = handler[c].req /\ k.at = "eof" /\ Whole(k.of) = 0  BY DEF Whole
  <2> HIDE DEF k
  <2>3. StreamOf(out[c], k)  BY <1>5, <2>2
  <2> QED BY <1>1, <2>1, <2>3, WholeOver
<1>7. CASE Becomes(c, "chunk", packets, Chunks)
  <2> DEFINE k == [at |-> "chunk", req |-> handler[c].req, of |-> packets, left |-> Chunks]
  <2>1. handler' = [handler EXCEPT ![c] = k]  BY <1>7 DEF Becomes
  <2>2. k.req = handler[c].req /\ k.at = "chunk" /\ 2 * (Chunks - k.left) = 0
    BY BoundsAssumption
  <2> HIDE DEF k
  <2>3. StreamOf(out[c], k)  BY <1>5, <2>2
  <2> QED BY <1>1, <2>1, <2>3, WholeOver
<1> QED BY <1>1, <1>6, <1>7

\* A chunk in two pieces, and the piece that ends the stream.
LEMMA WholeChunk == ASSUME FreshInv, WholeInv, NEW c \in Conns, Chunk(c) PROVE WholeInv'
<1> DEFINE p == Piece(handler[c].req, "first", handler[c].of)
           k == [at |-> "rest", req |-> handler[c].req, of |-> handler[c].of,
                 left |-> handler[c].left]
           n == 2 * (Chunks - handler[c].left)
<1>1. BridgeTypeOK /\ handler[c].at = "chunk" /\ handler[c].req >= 1
  BY DEF FreshInv, BaseInv, HandlersInv, Chunk, At, InRequest
<1>2. Sends(c, p) /\ handler' = [handler EXCEPT ![c] = k]  BY Moved DEF Chunk
<1>3. p \in Pieces  BY <1>1, HandlerFields, BoundsAssumption DEF Piece, Pieces
<1>4. IsChunk(p) /\ p.req = handler[c].req /\ p.of = handler[c].of  BY DEF Piece, IsChunk
<1>5. /\ k.req = handler[c].req /\ k.of = handler[c].of /\ k.at = "rest"
      /\ 2 * (Chunks - k.left) + 1 = n + 1
  OBVIOUS
<1>6. n \in Nat /\ handler[c] \in Handlers  BY <1>1, HandlerFields, BoundsAssumption
<1>7. StreamOf(out[c], handler[c])  BY DEF WholeInv
<1>8. Streamed(out[c], handler[c].req, handler[c].of, n)  BY <1>1, <1>7 DEF StreamOf
<1> HIDE DEF p, k, n
<1>9. /\ out[c] \in Seq(Pieces) /\ out'[c] = Append(out[c], p)
      /\ \A d \in Conns \ {c} : out'[d] = out[d]
  BY <1>1, <1>2, SentBy
<1>10. k.at \in InStream /\ handler[c].at \in InRequest  BY <1>1, <1>5 DEF InStream, InRequest
<1>11. StreamOf(out'[c], k)
  BY <1>3, <1>4, <1>5, <1>6, <1>7, <1>8, <1>9, <1>10, ChunkOfStream
<1> QED BY <1>1, <1>2, <1>9, <1>11, WholeOver

LEMMA WholeRest == ASSUME FreshInv, WholeInv, NEW c \in Conns, RestOfChunk(c) PROVE WholeInv'
<1> DEFINE p == Piece(handler[c].req, "rest", handler[c].of)
           k == [at |-> (IF handler[c].left = 1 THEN "eof" ELSE "chunk"),
                 req |-> handler[c].req, of |-> handler[c].of, left |-> handler[c].left - 1]
           n == 2 * (Chunks - handler[c].left) + 1
<1>1. BridgeTypeOK /\ handler[c].at = "rest" /\ handler[c].req >= 1
      /\ handler[c].left >= 1 /\ handler[c].of # NoPackets
  BY DEF FreshInv, BaseInv, HandlersInv, RestOfChunk, At, InRequest
<1>2. Sends(c, p) /\ handler' = [handler EXCEPT ![c] = k]  BY DEF RestOfChunk, Becomes
<1>3. p \in Pieces  BY <1>1, HandlerFields, BoundsAssumption DEF Piece, Pieces
<1>4. IsChunk(p) /\ p.req = handler[c].req /\ p.of = handler[c].of  BY DEF Piece, IsChunk
<1>5. n \in Nat /\ handler[c] \in Handlers  BY <1>1, HandlerFields, BoundsAssumption
<1>6. /\ k.req = handler[c].req /\ k.of = handler[c].of /\ k.at \in {"eof", "chunk"}
      /\ k.at = "chunk" => 2 * (Chunks - k.left) = n + 1
      /\ k.at = "eof" => Whole(k.of) = n + 1
  <2>1. 2 * (Chunks - (handler[c].left - 1)) = n + 1
    BY <1>1, HandlerFields, BoundsAssumption
  <2>2. handler[c].left = 1 => 2 * Chunks = n + 1  BY <1>1, HandlerFields, BoundsAssumption
  <2> QED BY <1>1, <2>1, <2>2 DEF Whole
<1>7. StreamOf(out[c], handler[c])  BY DEF WholeInv
<1>8. Streamed(out[c], handler[c].req, handler[c].of, n)  BY <1>1, <1>7 DEF StreamOf
<1> HIDE DEF p, k, n
<1>9. /\ out[c] \in Seq(Pieces) /\ out'[c] = Append(out[c], p)
      /\ \A d \in Conns \ {c} : out'[d] = out[d]
  BY <1>1, <1>2, SentBy
<1>10. k.at \in InStream /\ k.at # "rest" /\ handler[c].at \in InRequest
  BY <1>1, <1>6 DEF InStream, InRequest
<1>11. StreamOf(out'[c], k)
  BY <1>3, <1>4, <1>5, <1>6, <1>7, <1>8, <1>9, <1>10, ChunkOfStream
<1> QED BY <1>1, <1>2, <1>9, <1>11, WholeOver

LEMMA WholeEof == ASSUME FreshInv, WholeInv, NEW c \in Conns, Eof(c) PROVE WholeInv'
<1> DEFINE p == Piece(handler[c].req, "eof", handler[c].of)
           k == [at |-> "recv", req |-> handler[c].req, of |-> NoPackets, left |-> 0]
<1>1. BridgeTypeOK /\ handler[c].at = "eof" /\ handler[c].req >= 1
  BY DEF FreshInv, BaseInv, HandlersInv, Eof, At, InRequest
<1>2. Sends(c, p) /\ handler' = [handler EXCEPT ![c] = k]  BY DEF Eof, Becomes
<1>3. p \in Pieces /\ p.part = "eof" /\ p.req = handler[c].req /\ p.of = handler[c].of
  BY <1>1, HandlerFields, BoundsAssumption DEF Piece, Pieces
<1>4. k.req = handler[c].req /\ k.at = "recv"  OBVIOUS
<1>5. handler[c] \in Handlers /\ StreamOf(out[c], handler[c])
  BY <1>1, HandlerFields DEF WholeInv
<1> HIDE DEF p, k
<1>6. /\ out[c] \in Seq(Pieces) /\ out'[c] = Append(out[c], p)
      /\ \A d \in Conns \ {c} : out'[d] = out[d]
  BY <1>1, <1>2, SentBy
<1>7. StreamOf(out'[c], k)  BY <1>1, <1>3, <1>4, <1>5, <1>6, EndOfStream
<1> QED BY <1>1, <1>2, <1>6, <1>7, WholeOver

LEMMA WholeServe == ASSUME FreshInv, WholeInv, NEW c \in Conns, Serve(c) PROVE WholeInv'
<1>1. BridgeTypeOK  BY DEF FreshInv, BaseInv
<1>2. CASE \/ Close(c) \/ Enter(c) \/ LookForCapture(c) \/ Clear(c) \/ StartCapture(c) \/ Unlock(c)
           \/ Check(c) \/ Await(c)
  <2>1. PICK to \in {"closed", "alive?", "leave", "clear", "start", "recv", "bind", "await",
                      "wait"} :
          /\ Goes(c, to) /\ out' = out
          /\ \/ to \in {"closed", "recv"}
             \/ handler[c].at \in {"enable", "alive?", "clear", "start", "leave", "check",
                               "await"}
    BY <1>2 DEF Close, Enter, LookForCapture, Clear, StartCapture, Unlock, Check, Await, Look,
                capture, At
  <2>2. /\ to \notin InStream
        /\ to \in InRequest => handler[c].at \in InRequest \ InStream
    BY <2>1 DEF InStream, InRequest, InStart
  <2> QED BY <1>1, <2>1, <2>2, WholeOverGoing
<1> QED BY <1>1, <1>2, WholeReply, WholeBind, WholeChunk, WholeRest, WholeEof DEF Serve

\* The capture threads: whoever waits is woken, and a reply is no part of a stream.
LEMMA WholeWork == ASSUME FreshInv, WholeInv, NEW n \in Attempts, Work(n) PROVE WholeInv'
<1>1. BridgeTypeOK  BY DEF FreshInv, BaseInv
<1>2. CASE Capture(n)
  BY <1>2 DEF Capture, WholeInv
<1>3. CASE SetDone(n)
  <2>1. out' = out /\ handler' = [c \in Conns |-> Woken(handler[c])]  BY <1>3 DEF SetDone
  <2>2. ASSUME NEW c \in Conns PROVE StreamOf(out[c], Woken(handler[c]))
    <3> DEFINE k == [at |-> "bind", req |-> handler[c].req, of |-> handler[c].of,
                     left |-> handler[c].left]
    <3>1. StreamOf(out[c], handler[c])  BY DEF WholeInv
    <3>2. k.req = handler[c].req /\ k.at = "bind"  OBVIOUS
    <3>3. Woken(handler[c]) = IF handler[c].at = "wait" THEN k ELSE handler[c]  BY DEF Woken
    <3> HIDE DEF k
    <3>4. CASE handler[c].at = "wait"
      <4>1. k.at \notin InStream /\ handler[c].at \in InRequest \ InStream
        BY <3>2, <3>4 DEF InStream, InRequest
      <4>2. StreamOf(out[c], k)  BY <3>1, <3>2, <4>1, NoStream
      <4> QED BY <3>3, <3>4, <4>2
    <3> QED BY <3>1, <3>3, <3>4
  <2> QED BY <2>1, <2>2 DEF WholeInv
<1>4. CASE Answer(n)
  <2> DEFINE p == Piece(worker[n].req, "disabled", n)
  <2>1. /\ handler' = handler
        /\ Sends(worker[n].conn, p) \/ UNCHANGED out
        /\ worker[n].conn \in Conns /\ worker[n].req >= 1
    BY <1>4 DEF Answer, FreshInv, BaseInv, WorkersInv
  <2>2. p \in Pieces /\ ~IsChunk(p) /\ p.part # "eof"
    <3>1. worker[n].req \in 0 .. MaxRequests  BY <1>1 DEF BridgeTypeOK, Workers
    <3> QED BY <2>1, <3>1, BoundsAssumption DEF Piece, Pieces, IsChunk
  <2> HIDE DEF p
  <2>3. CASE UNCHANGED out  BY <2>1, <2>3, <1>4 DEF WholeInv, Answer
  <2>4. CASE Sends(worker[n].conn, p)
    <3> DEFINE c == worker[n].conn
    <3>1. c \in Conns /\ handler' = handler  BY <2>1, <1>4 DEF Answer
    <3>2. /\ out[c] \in Seq(Pieces) /\ out'[c] = Append(out[c], p)
          /\ \A d \in Conns \ {c} : out'[d] = out[d]
      BY <1>1, <2>4, <3>1, SentBy
    <3>3. \A d \in Conns : StreamOf(out[d], handler[d])  BY DEF WholeInv
    <3> HIDE DEF c
    <3>4. StreamOf(out'[c], handler[c])  BY <2>2, <3>1, <3>2, <3>3, NotAStreamPiece
    <3>5. \A d \in Conns : StreamOf(out'[d], handler'[d])  BY <3>1, <3>2, <3>3, <3>4
    <3> QED BY <3>5 DEF WholeInv
  <2> QED BY <2>1, <2>3, <2>4
<1>5. CASE EndThread(n)
  BY <1>5 DEF EndThread, WholeInv
<1> QED BY <1>2, <1>3, <1>4, <1>5 DEF Work

LEMMA WholeNext == FreshInv /\ WholeInv /\ [BridgeNext]_bridgeVars => WholeInv'
<1> SUFFICES ASSUME FreshInv, WholeInv, [BridgeNext]_bridgeVars PROVE WholeInv'
  OBVIOUS
<1>1. BridgeTypeOK  BY DEF FreshInv, BaseInv
<1>2. ASSUME NEW c \in Conns, Leave(c) PROVE WholeInv'  BY <1>2 DEF Leave, WholeInv
<1>3. CASE UNCHANGED bridgeVars  BY <1>3 DEF bridgeVars, WholeInv
<1> QED BY <1>1, <1>2, <1>3, WholeRequest, WholeServe, WholeWork DEF BridgeNext

LEMMA WholeInit == BridgeInit => WholeInv
<1> SUFFICES ASSUME BridgeInit, NEW c \in Conns PROVE StreamOf(out[c], handler[c])
  BY DEF WholeInv
<1>1. out[c] = <<>> /\ handler[c].at = "recv" /\ Len(<<>>) = 0  BY DEF BridgeInit, Idle
<1>2. "recv" \notin InRequest  BY DEF InRequest, InStart
<1> QED BY <1>1, <1>2 DEF StreamOf, Ended

(* Whoever has got the eof of a ReadBuffers has got before it every chunk of  *)
(* one capture, or none at all, whatever captures stored meanwhile            *)
(* (record_bridge.py:322-336): the thread binds the packets once.             *)
THEOREM WholeStreams == BridgeSpec => []OneCapturePerStream
<1>1. WholeInv => OneCapturePerStream
  BY DEF WholeInv, StreamOf, Ended, Whole, OneCapturePerStream
<1>2. FreshInv /\ WholeInv /\ [BridgeNext]_bridgeVars => WholeInv'  BY WholeNext
<1> QED BY <1>1, <1>2, WholeInit, BridgeInvariance, PTL DEF BridgeSpec
=============================================================================
