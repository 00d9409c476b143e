------------------------------ MODULE WsRelay ------------------------------
(* One connection of python/cortrace/wsrelay.py: the Perfetto UI speaks       *)
(* WebSocket to the relay, the relay speaks to the UNIX socket of the record  *)
(* bridge. The thread "serve" reads the UI's frames, and after its last one   *)
(* closes both sockets; the thread "pump" brings the bridge's answers to the  *)
(* UI. Both write to the UI, under a lock. The handshake is over: it comes    *)
(* before there are two threads.                                              *)
EXTENDS Naturals, Sequences

CONSTANTS
  None,
  SocketRoom,   \* bound: frames or pieces that a socket buffers, each way
  MaxAnswers,   \* bound: chunks that the bridge sends
  MaxUiFrames   \* bound: frames that the UI sends

ASSUME NoneAssumption == None \notin {"serve", "pump"}

Senders == {"serve", "pump"}
Parts == 2      \* the pieces that a frame for the UI may be torn into

VARIABLES
  ui,        \* the browser's end: "open", "closing" (it sent a CLOSE) or "left"
  bridge,    \* the bridge's end: "open" or "closed"
  asked,     \* frames from the UI that the relay has not read
  shown,     \* pieces for the UI: those it has read, then those in the buffer
  unread,    \* how many of them are in the buffer
  requests,  \* chunks for the bridge, in the buffer
  answers,   \* chunks from the bridge, in the buffer
  bridgeSent,\* chunks that the bridge has sent
  uiFrames,  \* frames that the UI has sent
  at,        \* where each thread is
  sending,   \* the frame each thread is about to send
  part,      \* the piece of it that is next
  sendLock,  \* send_lock
  reading,   \* conn's reading side has not been shut down
  refused    \* history: a chunk could not be forwarded, the bridge had closed

ends == <<ui, bridge, bridgeSent, uiFrames>>
buffers == <<asked, shown, unread, requests, answers>>
threads == <<at, sending, part, sendLock, reading, refused>>
relayVars == <<ends, buffers, threads>>

RelayInit ==
  /\ ui = "open" /\ bridge = "open" /\ bridgeSent = 0 /\ uiFrames = 0
  /\ asked = <<>> /\ shown = <<>> /\ unread = 0 /\ requests = 0 /\ answers = <<>>
  /\ at = [t \in Senders |-> "receive"] /\ sending = [t \in Senders |-> None]
  /\ part = [t \in Senders |-> 1]
  /\ sendLock = None /\ reading = TRUE /\ refused = FALSE

Closed == at["serve"] = "closed"
Goto(t, place) == at' = [at EXCEPT ![t] = place]

------------------------------------------------------------------------------
(* The two peers, as the relay sees them.                                     *)
UiSends(kind) ==
  /\ ui = "open" /\ ~Closed /\ uiFrames < MaxUiFrames /\ Len(asked) < SocketRoom
  /\ asked' = Append(asked, kind)
  /\ uiFrames' = uiFrames + 1
  /\ ui' = IF kind = "close" THEN "closing" ELSE ui
  /\ UNCHANGED <<bridge, bridgeSent, shown, unread, requests, answers, threads>>
UiReads ==
  /\ ui # "left" /\ unread > 0
  /\ unread' = unread - 1
  /\ UNCHANGED <<ends, asked, shown, requests, answers, threads>>
UiLeaves ==
  /\ ui # "left"
  /\ ui' = "left"
  /\ UNCHANGED <<bridge, bridgeSent, uiFrames, buffers, threads>>
BridgeSends ==
  /\ bridge = "open" /\ ~Closed /\ bridgeSent < MaxAnswers /\ Len(answers) < SocketRoom
  /\ bridgeSent' = bridgeSent + 1
  /\ answers' = Append(answers, bridgeSent')
  /\ UNCHANGED <<ui, bridge, uiFrames, asked, shown, unread, requests, threads>>
BridgeReads ==
  /\ bridge = "open" /\ requests > 0
  /\ requests' = requests - 1
  /\ UNCHANGED <<ends, asked, shown, unread, answers, threads>>
BridgeCloses ==
  /\ bridge = "open"
  /\ bridge' = "closed" /\ requests' = 0
  /\ UNCHANGED <<ui, bridgeSent, uiFrames, asked, shown, unread, answers, threads>>

------------------------------------------------------------------------------
(* Both threads: take the lock, sendall, which goes on as the UI reads, and   *)
(* release the lock, also when the UI left or the other thread closed conn.   *)
TakeLockNever(t) ==
  /\ at[t] = "lock"
  /\ Goto(t, "send")
  /\ UNCHANGED <<ends, buffers, sending, part, sendLock, reading, refused>>
TakeLock(t) ==
  /\ at[t] = "lock" /\ sendLock = None
  /\ sendLock' = t
  /\ Goto(t, "send")
  /\ UNCHANGED <<ends, buffers, sending, part, reading, refused>>
Frame(kind, number) == [kind |-> kind, number |-> number]
PieceOf(frame, n) == [frame |-> frame, part |-> n]
AfterFrame(kind) == IF kind = "close" THEN "end" ELSE "receive"
SendPiece(t) ==
  /\ at[t] = "send" /\ ui # "left" /\ ~Closed /\ unread < SocketRoom
  /\ shown' = Append(shown, PieceOf(sending[t], part[t]))
  /\ unread' = unread + 1
  /\ IF part[t] < Parts
     THEN /\ part' = [part EXCEPT ![t] = @ + 1]
          /\ UNCHANGED <<at, sending, sendLock>>
     ELSE /\ part' = [part EXCEPT ![t] = 1]
          /\ sending' = [sending EXCEPT ![t] = None]
          /\ sendLock' = None
          /\ Goto(t, AfterFrame(sending[t].kind))
  /\ UNCHANGED <<ends, asked, requests, answers, reading, refused>>
SendFails(t) ==
  /\ at[t] = "send" /\ (ui = "left" \/ Closed)
  /\ sendLock' = None
  /\ part' = [part EXCEPT ![t] = 1]
  /\ sending' = [sending EXCEPT ![t] = None]
  /\ Goto(t, "end")
  /\ UNCHANGED <<ends, buffers, reading, refused>>

\* _ws_to_unix: a frame of data is forwarded, PING and CLOSE are answered.
ServeReads ==
  /\ at["serve"] = "receive" /\ asked # <<>>
  /\ asked' = Tail(asked)
  /\ IF Head(asked) = "data" THEN Goto("serve", "forward") /\ UNCHANGED sending
     ELSE Goto("serve", "lock") /\ sending' = [sending EXCEPT !["serve"] = Frame(Head(asked), 0)]
  /\ UNCHANGED <<ends, shown, unread, requests, answers, part, sendLock, reading, refused>>
ServeReadsEnd ==
  /\ at["serve"] = "receive" /\ asked = <<>> /\ (ui = "left" \/ ~reading)
  /\ Goto("serve", "end")
  /\ UNCHANGED <<ends, buffers, sending, part, sendLock, reading, refused>>
Forward ==
  /\ at["serve"] = "forward"
  /\ \/ /\ bridge = "open" /\ requests < SocketRoom
        /\ requests' = requests + 1
        /\ Goto("serve", "receive")
        /\ UNCHANGED refused
     \/ /\ bridge = "closed"
        /\ refused' = TRUE
        /\ Goto("serve", "end")
        /\ UNCHANGED requests
  /\ UNCHANGED <<ends, asked, shown, unread, answers, sending, part, sendLock, reading>>
\* _serve's finally: both sockets are shut down and closed.
ServeCloses ==
  /\ at["serve"] = "end"
  /\ Goto("serve", "closed")
  /\ UNCHANGED <<ends, buffers, sending, part, sendLock, reading, refused>>

\* _unix_to_ws: every chunk becomes one frame; the end of the chunks ends the UI's reader too.
PumpReceives ==
  /\ at["pump"] = "receive" /\ answers # <<>> /\ ~Closed
  /\ answers' = Tail(answers)
  /\ sending' = [sending EXCEPT !["pump"] = Frame("answer", Head(answers))]
  /\ Goto("pump", "lock")
  /\ UNCHANGED <<ends, asked, shown, unread, requests, part, sendLock, reading, refused>>
DrainedNever == bridge = "closed"
Drained == answers = <<>> /\ bridge = "closed"
PumpReceivesEnd ==
  /\ at["pump"] = "receive" /\ (Drained \/ Closed)
  /\ Goto("pump", "end")
  /\ UNCHANGED <<ends, buffers, sending, part, sendLock, reading, refused>>
PumpLeaves ==
  /\ at["pump"] = "end"
  /\ Goto("pump", "closed")
  /\ UNCHANGED <<ends, buffers, sending, part, sendLock, reading, refused>>
PumpEnds ==
  /\ at["pump"] = "end"
  /\ reading' = FALSE
  /\ Goto("pump", "closed")
  /\ UNCHANGED <<ends, buffers, sending, part, sendLock, refused>>

SendsFrame(t) == TakeLock(t) \/ SendPiece(t) \/ SendFails(t)
ServeThread == SendsFrame("serve") \/ ServeReads \/ ServeReadsEnd \/ Forward \/ ServeCloses
PumpThread == SendsFrame("pump") \/ PumpReceives \/ PumpReceivesEnd \/ PumpEnds
RelayNext ==
  \/ ServeThread \/ PumpThread
  \/ \E kind \in {"data", "ping", "close"} : UiSends(kind)
  \/ UiReads \/ UiLeaves \/ BridgeSends \/ BridgeReads \/ BridgeCloses

(* The threads run, and each peer reads what it is sent for as long as it is  *)
(* there. Neither need send, close or leave.                                  *)
RelayFairness ==
  /\ WF_relayVars(ServeThread) /\ WF_relayVars(PumpThread)
  /\ WF_relayVars(UiReads) /\ WF_relayVars(BridgeReads)
RelaySpec == RelayInit /\ [][RelayNext]_relayVars /\ RelayFairness

------------------------------------------------------------------------------
(* What the UI is sent is a sequence of whole frames, however the answers,    *)
(* the PONGs and the CLOSE of the two threads interleave, and the answers in  *)
(* it are those of the bridge in its order, with none left out                *)
(* (wsrelay.py:251-266).                                                      *)
Precedes(i, j) ==
  \/ shown[i].frame.number < shown[j].frame.number
  \/ shown[i].frame = shown[j].frame /\ shown[i].part < shown[j].part
IsAnswer(i) == shown[i].frame.kind = "answer"
ShownBefore(n, i) == \E j \in 1 .. i - 1 : shown[j] = PieceOf(Frame("answer", n), Parts)
FramesWhole ==
  /\ \A i \in DOMAIN shown :
       IF shown[i].part = 1 THEN i > 1 => shown[i - 1].part = Parts
       ELSE i > 1 /\ shown[i - 1] = PieceOf(shown[i].frame, shown[i].part - 1)
  /\ \A i \in DOMAIN shown : IsAnswer(i) =>
       /\ \A j \in 1 .. i - 1 : IsAnswer(j) => Precedes(j, i)
       /\ \A n \in 1 .. shown[i].frame.number - 1 : ShownBefore(n, i)

(* An answer that the bridge sent before it closed is not lost: when both     *)
(* threads are done the UI has all of them or has them coming, unless it left *)
(* or closed, or sent the bridge something that came too late (_serve closes  *)
(* both sockets at once when forwarding that fails).                          *)
LastAnswerArrives ==
  /\ at["pump"] = "closed" /\ ui = "open" /\ ~refused =>
       \A n \in 1 .. bridgeSent : ShownBefore(n, Len(shown) + 1)
  /\ Closed /\ ui = "open" /\ ~refused => at["pump"] = "closed"

(* Whichever end goes, the relay lets go of the other one and both threads    *)
(* end: no connection is left half open, and none is waited for               *)
(* (wsrelay.py:232-239, 269-271).                                             *)
BothEnd == (ui = "left" \/ bridge = "closed") ~> \A t \in Senders : at[t] = "closed"
=============================================================================
