---------------------------- MODULE RecordBridge ----------------------------
(* The fake traced of python/cortrace/record_bridge.py in live mode: a thread *)
(* per connection serves its requests one after the other; EnableTracing      *)
(* starts a thread that captures, stores the packets, sets _capture_done and  *)
(* only then answers; ReadBuffers waits for _capture_done and streams what is *)
(* stored. No lock covers a connection: its own thread and the capture thread *)
(* both write to it.                                                          *)
(*                                                                            *)
(* Packets are known by the capture they come from, and written to the wire   *)
(* as a number of chunks. A chunk is large, so sendall() sends it in more     *)
(* than one piece; the other replies are a few bytes. The clients are not the *)
(* program's: they send any requests and leave at any time.                   *)
EXTENDS Naturals, Sequences, FiniteSets

CONSTANTS
  Conns,        \* client connections
  Outcomes,     \* how capture_cb can end: "packets", "exception" or "exit" (SystemExit)
  Chunks,       \* chunks of a trace
  NoConn,
  MaxStarts,    \* bound: captures started
  MaxRequests,  \* bound: requests on one connection
  MaxTraffic    \* bound: requests on all of them

ASSUME ConnsAssumption == NoConn \notin Conns
ASSUME OutcomesAssumption == Outcomes \subseteq {"packets", "exception", "exit"}
ASSUME BoundsAssumption ==
  /\ Chunks \in Nat \ {0}
  /\ MaxStarts \in Nat
  /\ MaxRequests \in Nat
  /\ MaxTraffic \in Nat

Attempts == 1 .. MaxStarts
NoPackets == 0  \* [] : nothing captured, or the capture failed

VARIABLES
  peer,      \* connection -> the client is there
  handler,   \* connection -> its serve_conn thread: where it is, the request, the packets bound
  out,       \* connection -> pieces of frames sent, in order
  worker,    \* capture -> the thread of that capture: where it is, whom it will answer;
             \* history: how its capture_cb ended
  current,   \* _capture_thread: the last capture started, 0 if none
  packets,   \* packets: the capture they come from
  done,      \* _capture_done
  lock       \* _capture_lock: the connection whose thread holds it

bridgeVars == <<peer, handler, out, worker, current, packets, done, lock>>

Idle == [at |-> "recv", req |-> 0, of |-> NoPackets, left |-> 0]

BridgeInit ==
  /\ peer = [c \in Conns |-> TRUE]
  /\ handler = [c \in Conns |-> Idle]
  /\ out = [c \in Conns |-> <<>>]
  /\ worker = [n \in Attempts |-> [at |-> "none", conn |-> NoConn, req |-> 0, end |-> "none"]]
  /\ current = 0
  /\ packets = NoPackets
  /\ done = FALSE
  /\ lock = NoConn

------------------------------------------------------------------------------
Becomes(c, at, of, left) ==
  handler' = [handler EXCEPT ![c] = [at |-> at, req |-> handler[c].req, of |-> of, left |-> left]]
Goes(c, at) == Becomes(c, at, handler[c].of, handler[c].left)
At(c, at) == handler[c].at = at
Piece(req, part, of) == [req |-> req, part |-> part, of |-> of]
Sends(c, piece) == out' = [out EXCEPT ![c] = Append(@, piece)]

capture == <<worker, current, packets, done>>

(* The client leaves. Its thread notices when it next receives or sends.      *)
Leave(c) ==
  /\ peer[c]
  /\ peer' = [peer EXCEPT ![c] = FALSE]
  /\ UNCHANGED <<handler, out, capture, lock>>
Close(c) ==
  /\ ~peer[c]
  /\ handler[c].at \in {"recv", "reply", "chunk", "rest", "eof"}
  /\ Goes(c, "closed")
  /\ UNCHANGED <<peer, out, capture, lock>>

\* handle_frame and dispatch: the next request of the client.
Made == {r \in Conns \X (1 .. MaxRequests) : r[2] <= handler[r[1]].req}
Request(c) ==
  /\ At(c, "recv") /\ peer[c]
  /\ handler[c].req < MaxRequests /\ Cardinality(Made) < MaxTraffic
  /\ \E at \in {"check", "enable", "reply"} :
       handler' = [handler EXCEPT ![c] = [at |-> at, req |-> handler[c].req + 1,
                                          of |-> NoPackets, left |-> 0]]
  /\ UNCHANGED <<peer, out, capture, lock>>

\* Requests that are answered at once.
Reply(c) ==
  /\ At(c, "reply") /\ peer[c]
  /\ Sends(c, Piece(handler[c].req, "reply", NoPackets))
  /\ Goes(c, "recv")
  /\ UNCHANGED <<peer, capture, lock>>

(* EnableTracing: _start_capture, under the lock.                             *)
EnterWithoutLock(c) ==
  /\ At(c, "enable")
  /\ lock' = c
  /\ Goes(c, "alive?")
  /\ UNCHANGED <<peer, out, capture>>
Enter(c) ==
  /\ At(c, "enable")
  /\ lock = NoConn
  /\ lock' = c
  /\ Goes(c, "alive?")
  /\ UNCHANGED <<peer, out, capture>>
IsAlive(n) == n # 0 /\ worker[n].at # "dead"
LookForCapture(c) ==
  /\ At(c, "alive?")
  /\ IsAlive(current) \/ current < MaxStarts
  /\ Goes(c, IF IsAlive(current) THEN "leave" ELSE "clear")
  /\ UNCHANGED <<peer, out, capture, lock>>
ClearNothing(c) ==
  /\ At(c, "clear")
  /\ Goes(c, "start")
  /\ UNCHANGED <<peer, out, capture, lock>>
Clear(c) ==
  /\ At(c, "clear")
  /\ done' = FALSE
  /\ Goes(c, "start")
  /\ UNCHANGED <<peer, out, worker, current, packets, lock>>
StartCapture(c) ==
  /\ At(c, "start")
  /\ current' = current + 1
  /\ worker' = [worker EXCEPT ![current + 1] =
                  [at |-> "capture", conn |-> c, req |-> handler[c].req, end |-> "none"]]
  /\ Goes(c, "leave")
  /\ UNCHANGED <<peer, out, packets, done, lock>>
Unlock(c) ==
  /\ At(c, "leave")
  /\ lock' = NoConn
  /\ Goes(c, "recv")
  /\ UNCHANGED <<peer, out, capture>>

(* ReadBuffers: wait until the capture is done, then stream its packets.      *)
(* is_set() and wait() are two looks at the event: between them it may be set *)
(* and, for the next capture, cleared again.                                  *)
Look(c, at, otherwise) ==
  /\ At(c, at)
  /\ Goes(c, IF done THEN "bind" ELSE otherwise)
  /\ UNCHANGED <<peer, out, capture, lock>>
Check(c) == Look(c, "check", "await")
Await(c) == Look(c, "await", "wait")
Bind(c) ==
  /\ At(c, "bind")
  /\ IF packets = NoPackets THEN Becomes(c, "eof", NoPackets, 0)
     ELSE Becomes(c, "chunk", packets, Chunks)
  /\ UNCHANGED <<peer, out, capture, lock>>
ChunkOfLatest(c) ==
  /\ At(c, "chunk") /\ peer[c]
  /\ Sends(c, Piece(handler[c].req, "first", packets))
  /\ Becomes(c, "rest", packets, handler[c].left)
  /\ UNCHANGED <<peer, capture, lock>>
Chunk(c) ==
  /\ At(c, "chunk") /\ peer[c]
  /\ Sends(c, Piece(handler[c].req, "first", handler[c].of))
  /\ Goes(c, "rest")
  /\ UNCHANGED <<peer, capture, lock>>
RestOfChunk(c) ==
  /\ At(c, "rest") /\ peer[c]
  /\ Sends(c, Piece(handler[c].req, "rest", handler[c].of))
  /\ Becomes(c, IF handler[c].left = 1 THEN "eof" ELSE "chunk",
             handler[c].of, handler[c].left - 1)
  /\ UNCHANGED <<peer, capture, lock>>
Eof(c) ==
  /\ At(c, "eof") /\ peer[c]
  /\ Sends(c, Piece(handler[c].req, "eof", handler[c].of))
  /\ Becomes(c, "recv", NoPackets, 0)
  /\ UNCHANGED <<peer, capture, lock>>

------------------------------------------------------------------------------
WorkerEnds(n, at, end) ==
  worker' = [worker EXCEPT ![n] =
               [at |-> at, conn |-> worker[n].conn, req |-> worker[n].req, end |-> end]]
WorkerGoes(n, at) == WorkerEnds(n, at, worker[n].end)

(* The capture thread. An Exception leaves an empty list; a SystemExit is no  *)
(* Exception: only the finally clause runs, and the packets stay what they    *)
(* were.                                                                      *)
Stored(n, end) == CASE end = "packets" -> n
                    [] end = "exception" -> NoPackets
                    [] end = "exit" -> packets
CaptureWithoutFinally(n) ==
  /\ worker[n].at = "capture"
  /\ \E end \in Outcomes :
       /\ packets' = Stored(n, end)
       /\ WorkerEnds(n, IF end = "packets" THEN "set" ELSE "dead", end)
  /\ UNCHANGED <<peer, handler, out, current, done, lock>>
Capture(n) ==
  /\ worker[n].at = "capture"
  /\ \E end \in Outcomes :
       packets' = Stored(n, end) /\ WorkerEnds(n, "set", end)
  /\ UNCHANGED <<peer, handler, out, current, done, lock>>
\* Event.set: those that wait are woken, whatever happens to the event before they run.
Woken(h) ==
  IF h.at = "wait" THEN [at |-> "bind", req |-> h.req, of |-> h.of, left |-> h.left] ELSE h
SetDone(n) ==
  /\ worker[n].at = "set"
  /\ done' = TRUE
  /\ handler' = [c \in Conns |-> Woken(handler[c])]
  /\ WorkerGoes(n, "answer")
  /\ UNCHANGED <<peer, out, current, packets, lock>>
(* EnableTracingResponse{disabled}, unless the client is gone; then the       *)
(* thread ends, which an EnableTracing that comes in between does not wait for.*)
AnswerInSilence(n) ==
  /\ worker[n].at = "answer"
  /\ WorkerGoes(n, "sent")
  /\ UNCHANGED <<peer, handler, out, current, packets, done, lock>>
Answer(n) ==
  /\ worker[n].at = "answer"
  /\ WorkerGoes(n, "sent")
  /\ LET c == worker[n].conn IN
     IF peer[c] THEN Sends(c, Piece(worker[n].req, "disabled", n)) ELSE UNCHANGED out
  /\ UNCHANGED <<peer, handler, current, packets, done, lock>>
EndThread(n) ==
  /\ worker[n].at = "sent"
  /\ WorkerGoes(n, "dead")
  /\ UNCHANGED <<peer, handler, out, current, packets, done, lock>>

Serve(c) ==
  \/ Close(c) \/ Reply(c)
  \/ Enter(c) \/ LookForCapture(c) \/ Clear(c) \/ StartCapture(c) \/ Unlock(c)
  \/ Check(c) \/ Await(c) \/ Bind(c) \/ Chunk(c) \/ RestOfChunk(c) \/ Eof(c)
Work(n) == Capture(n) \/ SetDone(n) \/ Answer(n) \/ EndThread(n)

BridgeNext ==
  \/ \E c \in Conns : Leave(c) \/ Request(c) \/ Serve(c)
  \/ \E n \in Attempts : Work(n)

(* The threads run, and a capture ends, one way or another. Clients do as     *)
(* they like, but read what they are sent: no thread is held up in a send.    *)
BridgeFairness ==
  /\ \A c \in Conns : WF_bridgeVars(Serve(c))
  /\ \A n \in Attempts : WF_bridgeVars(Work(n))
BridgeSpec == BridgeInit /\ [][BridgeNext]_bridgeVars /\ BridgeFairness

------------------------------------------------------------------------------
InStart == {"alive?", "clear", "start", "leave"}

Pieces == [req : 1 .. MaxRequests, of : Attempts \cup {NoPackets},
           part : {"reply", "first", "rest", "eof", "disabled"}]
Handlers == [at : {"recv", "reply", "enable", "check", "await", "wait", "bind", "chunk", "rest",
                   "eof", "closed"} \cup InStart,
             req : 0 .. MaxRequests, of : Attempts \cup {NoPackets}, left : 0 .. Chunks]
Workers == [at : {"none", "capture", "set", "answer", "sent", "dead"},
            conn : Conns \cup {NoConn}, req : 0 .. MaxRequests, end : Outcomes \cup {"none"}]

(* Types, and that the lock is held by the one thread inside _start_capture.  *)
BridgeTypeOK ==
  /\ peer \in [Conns -> BOOLEAN]
  /\ handler \in [Conns -> Handlers]
  /\ out \in [Conns -> Seq(Pieces)]
  /\ worker \in [Attempts -> Workers]
  /\ current \in Attempts \cup {0}
  /\ packets \in Attempts \cup {NoPackets}
  /\ done \in BOOLEAN
  /\ lock \in Conns \cup {NoConn}
  /\ \A c \in Conns : lock = c <=> handler[c].at \in InStart

(* "Only ONE capture may run at a time" (record_bridge.py:284), however many  *)
(* clients ask for one at once.                                               *)
OneCaptureAtATime ==
  Cardinality({n \in Attempts : worker[n].at \in {"capture", "set"}}) <= 1

(* Stale: streamed for a ReadBuffers that the connection sent after it had    *)
(* started capture n, and older than that capture.                            *)
IsChunk(p) == p.part \in {"first", "rest"}
Stale(c, i, n) ==
  /\ IsChunk(out[c][i])
  /\ worker[n].conn = c /\ worker[n].req < out[c][i].req
  /\ out[c][i].of < n

(* A ReadBuffers gets the packets of the last capture that its connection     *)
(* started before it, or of a later one, or none if that failed               *)
(* (record_bridge.py:229-230).                                                *)
FreshBuffers ==
  \A c \in Conns : \A i \in 1 .. Len(out[c]) : \A n \in Attempts : ~Stale(c, i, n)

(* What holds of it: only for a capture that ends in SystemExit may a         *)
(* ReadBuffers get older packets. Whatever others start, clear and store in   *)
(* the meantime, a capture that ends in packets or in an Exception is never   *)
(* answered with what was there before it.                                    *)
FreshUnlessExit ==
  \A c \in Conns : \A i \in 1 .. Len(out[c]) : \A n \in Attempts :
    Stale(c, i, n) => worker[n].end = "exit"

\* The chunks sent for a request, and that they are so many of one capture.
ChunksIn(sent, req) == {j \in 1 .. Len(sent) : IsChunk(sent[j]) /\ sent[j].req = req}
Streamed(sent, req, of, count) ==
  /\ \A j \in ChunksIn(sent, req) : sent[j].of = of
  /\ Cardinality(ChunksIn(sent, req)) = count

(* All the chunks of one ReadBuffers are of one capture and they are all      *)
(* there, also when another capture replaces the packets while they are       *)
(* being sent.                                                                *)
OneCapturePerStream ==
  \A c \in Conns : \A i \in 1 .. Len(out[c]) :
    out[c][i].part = "eof" =>
      Streamed(out[c], out[c][i].req, out[c][i].of,
               IF out[c][i].of = NoPackets THEN 0 ELSE 2 * Chunks)

(* A ReadBuffers that waits is served in the end, once any capture was        *)
(* started, because the event is set however the capture ends. One that saw   *)
(* the event not set may sleep through a set() that the next EnableTracing's  *)
(* clear() takes back before it gets to wait(); the later capture serves it.  *)
Waits(c) == At(c, "await") \/ At(c, "wait")
WaitersServed ==
  \A c \in Conns : Waits(c) /\ current # 0 ~> ~Waits(c)

(* The EnableTracing that started a capture is answered, unless its client    *)
(* has left.                                                                  *)
Answered(c, n) == \E i \in 1 .. Len(out[c]) : out[c][i].part = "disabled" /\ out[c][i].of = n
StartsAnswered ==
  \A n \in Attempts :
    worker[n].at = "capture" ~>
      \E c \in Conns : worker[n].conn = c /\ (Answered(c, n) \/ ~peer[c])

(* Nobody waits for ever for a capture that was started: neither those who    *)
(* want its packets nor the one who started it.                               *)
EveryoneServed == WaitersServed /\ StartsAnswered
=============================================================================
