------------------------------ MODULE MCHost ------------------------------
(* Three programs of the host, each with threads of its own, that share no    *)
(* state: cortrace-grab, a connection of the relay, and the server of the     *)
(* page. A behaviour is one of one of them; the others are where they have    *)
(* nothing to do. The ring has four bytes, write() is asked for three at      *)
(* most, payloads have one byte or three, and the sequence numbers wrap.      *)
EXTENDS Grab, WsRelay, PerfettoOpen

VARIABLE program
hostVars == <<program, vars, relayVars, openVars>>

\* Nothing arrived, and the file could not be opened.
GrabAtRest ==
  /\ sent = 0 /\ missing = {}
  /\ frames = 0 /\ nbytes = 0 /\ seqPrev = -1
  /\ gaps = 0 /\ lost = 0 /\ dropped = 0
  /\ over = TRUE /\ recv = "exited" /\ plen = 0
  /\ head = 0 /\ tail = 0 /\ buf = [i \in 0 .. Size - 1 |-> -1]
  /\ writer = "gone" /\ wlen = 0
  /\ file = <<>> /\ failed = TRUE
  /\ stop = TRUE
\* The port was taken.
OpenAtRest ==
  /\ opt = [open |-> FALSE, keep |-> FALSE, timeout |-> FALSE]
  /\ main = "exited" /\ rc = PortTaken /\ serving = FALSE
  /\ telling = {} /\ delivered = FALSE
  /\ page = [p \in Pages |-> "away"] /\ loads = 0
  /\ interrupted = FALSE /\ got = {}
\* The relay's threads have nothing to do before an end sends something or goes.
HostInit ==
  \/ program = "grab" /\ Init /\ RelayInit /\ OpenAtRest
  \/ program = "relay" /\ GrabAtRest /\ RelayInit /\ OpenAtRest
  \/ program = "page" /\ GrabAtRest /\ RelayInit /\ OpenInit

Grabs == program = "grab" /\ Next /\ UNCHANGED <<program, relayVars, openVars>>
Relays == program = "relay" /\ RelayNext /\ UNCHANGED <<program, vars, openVars>>
Opens == program = "page" /\ OpenNext /\ UNCHANGED <<program, vars, relayVars>>

(* The fairness of each, and traffic for the grabber; a program at rest has   *)
(* no step to be fair to.                                                     *)
HostSpec ==
  /\ HostInit /\ [][Grabs \/ Relays \/ Opens]_hostVars
  /\ GrabFairness /\ TrafficGoesOn /\ RelayFairness /\ OpenFairness
=============================================================================
