-------------------------------- MODULE Grab --------------------------------
(* cortrace-grab (tools/cortrace_grab.c): the main thread receives UDP frames *)
(* and pushes their payloads into a single-producer single-consumer byte      *)
(* ring, the writer thread drains the ring into the output file, and main     *)
(* returns an exit code from the frames lost and the bytes dropped.           *)
(*                                                                            *)
(* A payload is its length; byte i of all the bytes that fitted into the ring *)
(* is written i, so the file should read 0, 1, 2... Every access to the ring  *)
(* that the other thread can tell apart is a step of its own, in program      *)
(* order. A batch of frames is one frame after the other: only the clock can  *)
(* tell the difference. The network, the disk and the kernel are not the      *)
(* program's: frames may be lost, repeated or late, recvmmsg returns only     *)
(* when something arrived, open() and write() may fail or write less.         *)
EXTENDS Integers, Sequences, FiniteSets

CONSTANTS
  Size,        \* ring_t.size: a power of two, of which only the remainders matter
  MaxRead,     \* most bytes in one write(): 1 << 20
  Lens,        \* payload lengths
  SeqModulus,  \* 2^32: sequence numbers are counted modulo this
  SeqStart,    \* the first frame's sequence number
  MaxLoss,     \* bound: frames lost in a row
  MaxFrames    \* bound: frames received

ASSUME SizeAssumption == Size \in Nat \ {0} /\ MaxRead \in Nat \ {0}
ASSUME LensAssumption == Lens \subseteq Nat
ASSUME SeqAssumption ==
  /\ SeqModulus \in Nat \ {0} /\ SeqModulus % 2 = 0
  /\ SeqStart \in 0 .. SeqModulus - 1
  /\ MaxLoss \in Nat /\ MaxFrames \in Nat

VARIABLES
  sent,      \* frames the target has sent, up to the furthest one received
  missing,   \* those of them that were not received
  frames,    \* npkt
  nbytes,    \* nbytes: payload bytes received
  seqPrev,   \* seq_prev, -1 unless have_prev
  gaps,      \* g_seq_gaps
  lost,      \* g_seq_lost_frames
  dropped,   \* g_dropped_bytes
  over,      \* now_s() >= tend
  recv,      \* where the main thread is
  plen,      \* plen
  head, tail, buf,  \* the ring
  writer,    \* where the writer thread is
  wlen,      \* n, then wr, of the writer's loop
  file,      \* the output file
  failed,    \* the writer gave up: open() or write() failed
  stop       \* g_stop

net == <<sent, missing>>
counters == <<frames, nbytes, seqPrev, gaps, lost>>
ring == <<head, tail, buf>>
output == <<writer, wlen, file, failed>>
vars == <<net, counters, dropped, over, recv, plen, ring, output, stop>>

Init ==
  /\ sent = 0 /\ missing = {}
  /\ frames = 0 /\ nbytes = 0 /\ seqPrev = -1
  /\ gaps = 0 /\ lost = 0 /\ dropped = 0
  /\ over = FALSE /\ recv = "loop" /\ plen = 0
  /\ head = 0 /\ tail = 0 /\ buf = [i \in 0 .. Size - 1 |-> -1]
  /\ writer = "open" /\ wlen = 0
  /\ file = <<>> /\ failed = FALSE
  /\ stop = FALSE

------------------------------------------------------------------------------
(* The main thread.                                                           *)
Tick ==
  /\ ~over /\ over' = TRUE
  /\ UNCHANGED <<net, counters, dropped, recv, plen, ring, output, stop>>

\* The time is not over: wait for a frame.
Wait ==
  /\ recv = "loop" /\ ~over
  /\ recv' = "recvmmsg"
  /\ UNCHANGED <<net, counters, dropped, over, plen, ring, output, stop>>

\* The next frame arrives, or one after it (those between are lost, or late), or the last
\* one a second time, or one that was late.
Arrives(k) ==
  \/ /\ k \in sent .. sent + (IF sent = 0 THEN 0 ELSE MaxLoss)
     /\ sent' = k + 1
     /\ missing' = missing \cup (sent .. k - 1)
  \/ /\ k >= 0 /\ k = sent - 1
     /\ UNCHANGED net
  \/ /\ k \in missing
     /\ missing' = missing \ {k}
     /\ UNCHANGED sent

\* The sequence number of a frame against that of the one received before it, in uint32_t.
SeqOf(k) == (SeqStart + k) % SeqModulus
IsGap(d) == d # 1 /\ d < SeqModulus \div 2
AccountForAfterWrap(seq) ==
  LET d == seq - seqPrev IN
  /\ seqPrev' = seq
  /\ IF seqPrev # -1 /\ d > 1
     THEN gaps' = gaps + 1 /\ lost' = lost + (d - 1)
     ELSE UNCHANGED <<gaps, lost>>
AccountFor(seq) ==
  LET d == (seq - seqPrev) % SeqModulus IN
  /\ seqPrev' = seq
  /\ IF seqPrev # -1 /\ IsGap(d)
     THEN gaps' = gaps + 1 /\ lost' = lost + ((d - 1) % SeqModulus)
     ELSE UNCHANGED <<gaps, lost>>

Receive(k, len) ==
  /\ recv = "recvmmsg"
  /\ frames < MaxFrames
  /\ Arrives(k)
  /\ AccountFor(SeqOf(k))
  /\ frames' = frames + 1
  /\ nbytes' = nbytes + len
  /\ plen' = len
  /\ recv' = "push"
  /\ UNCHANGED <<dropped, over, ring, output, stop>>
\* A datagram too short to hold a sequence number is skipped.
Runt ==
  /\ recv = "recvmmsg"
  /\ recv' = "loop"
  /\ UNCHANGED <<net, counters, dropped, over, plen, ring, output, stop>>

\* ring_push takes all of the payload or nothing.
RoomOffByOne == Size - (head - tail) + 1
Room == Size - (head - tail)
PushDropSilently ==
  /\ recv = "push"
  /\ Room < plen
  /\ recv' = "loop"
  /\ UNCHANGED <<net, counters, dropped, over, plen, ring, output, stop>>
PushDrop ==
  /\ recv = "push"
  /\ Room < plen
  /\ dropped' = dropped + plen
  /\ recv' = "loop"
  /\ UNCHANGED <<net, counters, over, plen, ring, output, stop>>
PushStart ==
  /\ recv = "push"
  /\ Room >= plen
  /\ recv' = "copy"
  /\ UNCHANGED <<net, counters, dropped, over, plen, ring, output, stop>>

\* Byte i of the stream is in buf[i & mask]. n bytes are copied in, wrapping at the end.
Slot(i) == i % Size
Slots(from, n) == {Slot(i) : i \in from .. from + n - 1}
Copied(n) ==
  [s \in 0 .. Size - 1 |->
     IF s \in Slots(head, n) THEN CHOOSE i \in head .. head + n - 1 : Slot(i) = s ELSE buf[s]]
PushCopyWithoutWrap ==
  /\ recv = "copy"
  /\ buf' = Copied(IF plen <= Size - Slot(head) THEN plen ELSE Size - Slot(head))
  /\ recv' = "publish"
  /\ UNCHANGED <<net, counters, dropped, over, plen, head, tail, output, stop>>
PushCopy ==
  /\ recv = "copy"
  /\ buf' = Copied(plen)
  /\ recv' = "publish"
  /\ UNCHANGED <<net, counters, dropped, over, plen, head, tail, output, stop>>
PushPublish ==
  /\ recv = "publish"
  /\ head' = head + plen
  /\ recv' = "loop"
  /\ UNCHANGED <<net, counters, dropped, over, plen, tail, buf, output, stop>>

\* The seconds are over: stop the writer, wait for it, return.
TimeUp ==
  /\ recv = "loop" /\ over
  /\ stop' = TRUE
  /\ recv' = "join"
  /\ UNCHANGED <<net, counters, dropped, over, plen, ring, output>>
Exit ==
  /\ recv = "join" /\ writer = "gone"
  /\ recv' = "exited"
  /\ UNCHANGED <<net, counters, dropped, over, plen, ring, output, stop>>
ExitCode == IF gaps = 0 /\ dropped = 0 THEN 0 ELSE 1

------------------------------------------------------------------------------
(* The writer thread.                                                         *)
mainOnly == <<net, counters, dropped, over, recv, plen, head, buf, stop>>

Open ==
  /\ writer = "open"
  /\ \/ writer' = "read" /\ UNCHANGED failed
     \/ writer' = "gone" /\ failed' = TRUE
  /\ UNCHANGED <<mainOnly, tail, wlen, file>>

\* ring_read_contig: what is there, up to the end of the buffer and to MaxRead.
Least(S) == CHOOSE n \in S : \A o \in S : n <= o
Contiguous == Least({head - tail, Size - Slot(tail), MaxRead})
ReadContig ==
  /\ writer = "read"
  /\ wlen' = Contiguous
  /\ writer' = IF Contiguous = 0 THEN "empty" ELSE "write"
  /\ UNCHANGED <<mainOnly, tail, file, failed>>

\* Nothing to write: leave if the main thread is done and nothing came in since.
EmptyIgnoresStop ==
  /\ writer = "empty"
  /\ writer' = "read"
  /\ UNCHANGED <<mainOnly, tail, wlen, file, failed>>
EmptyStops ==
  /\ writer = "empty"
  /\ writer' = IF stop THEN "gone" ELSE "read"
  /\ UNCHANGED <<mainOnly, tail, wlen, file, failed>>
Empty ==
  /\ writer = "empty"
  /\ writer' = IF stop /\ head = tail THEN "gone" ELSE "read"
  /\ UNCHANGED <<mainOnly, tail, wlen, file, failed>>

\* write() takes some of the bytes, or fails.
Write ==
  /\ writer = "write"
  /\ \/ \E k \in 1 .. wlen :
          /\ file' = file \o [i \in 1 .. k |-> buf[Slot(tail + i - 1)]]
          /\ wlen' = k
          /\ writer' = "advance"
          /\ UNCHANGED failed
     \/ /\ writer' = "gone" /\ failed' = TRUE
        /\ UNCHANGED <<file, wlen>>
  /\ UNCHANGED <<mainOnly, tail>>
AdvanceByAsked ==
  /\ writer = "advance"
  /\ tail' = tail + Contiguous
  /\ writer' = "read"
  /\ UNCHANGED <<mainOnly, wlen, file, failed>>
Advance ==
  /\ writer = "advance"
  /\ tail' = tail + wlen
  /\ writer' = "read"
  /\ UNCHANGED <<mainOnly, wlen, file, failed>>

Arrival == Runt \/ \E k \in 0 .. sent + MaxLoss, len \in Lens : Receive(k, len)
Main == Wait \/ PushDrop \/ PushStart \/ PushCopy \/ PushPublish \/ TimeUp \/ Exit
Writer == Open \/ ReadContig \/ Empty \/ Write \/ Advance
Next == Tick \/ Arrival \/ Main \/ Writer

(* Time passes and both threads run; write() returns, whatever it returns.    *)
GrabFairness == WF_vars(Tick) /\ WF_vars(Main) /\ WF_vars(Writer)
Spec == Init /\ [][Next]_vars /\ GrabFairness

(* The network delivers something, if only a runt, whenever main waits.       *)
TrafficGoesOn == WF_vars(Arrival)
BusySpec == Spec /\ TrafficGoesOn
------------------------------------------------------------------------------
TypeOK ==
  /\ sent \in Nat /\ missing \subseteq 0 .. sent - 1
  /\ frames \in Nat /\ nbytes \in Nat /\ seqPrev \in -1 .. SeqModulus - 1
  /\ gaps \in Nat /\ lost \in Nat /\ dropped \in Nat
  /\ over \in BOOLEAN /\ stop \in BOOLEAN /\ failed \in BOOLEAN
  /\ recv \in {"loop", "recvmmsg", "push", "copy", "publish", "join", "exited"}
  /\ plen \in Lens \cup {0}
  /\ head \in Nat /\ tail \in Nat
  /\ head - tail \in 0 .. Size
  /\ buf \in [0 .. Size - 1 -> Int]
  /\ writer \in {"open", "read", "empty", "write", "advance", "gone"}
  /\ wlen \in 0 .. Size
  /\ file \in Seq(Int)

(* No byte of the ring is copied into while write() may be reading it: the    *)
(* two threads share no lock, only head and tail keep them apart.             *)
ThreadsKeepApart ==
  recv = "copy" /\ writer = "write"
    => Slots(head, plen) \cap Slots(tail, wlen) = {}

(* The bytes accepted reach the file in order, each once, and no more of them *)
(* wait than the ring holds, whatever write() takes of each request and       *)
(* wherever the buffer wraps.                                                 *)
Fifo == INSTANCE ByteFifo WITH Capacity <- Size, accepted <- head
InOrder == Fifo!FifoSpec

(* A writer that did not fail has saved all that was accepted before the      *)
(* program exits: the last bytes are not lost between the writer's last look  *)
(* at the ring and the stop flag.                                             *)
EverythingSaved == recv = "exited" /\ ~failed => Len(file) + dropped = nbytes

(* The frames reported lost are at least those that are missing, across the   *)
(* wrap of the sequence numbers, for late and for repeated frames.            *)
LossNeverUndercounted == lost >= Cardinality(missing)

(* What capture.py:162 relies on, as far as it holds: exit code 0 of a writer *)
(* that did not fail means that no frame between the first and the last is    *)
(* missing and that the file holds all the bytes received.                    *)
ExitZeroIsComplete ==
  recv = "exited" /\ ExitCode = 0 /\ ~failed => missing = {} /\ Len(file) = nbytes

(* Every byte accepted reaches the file in the end, unless the writer failed, *)
(* whether or not anything more arrives.                                      *)
Drains == \A n \in 1 .. 2 * Size :
  head >= n ~> Len(file) >= n \/ failed

(* When the seconds are over the program exits.                               *)
Terminates == over ~> recv = "exited"
=============================================================================
