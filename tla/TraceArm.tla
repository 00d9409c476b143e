----------------------------- MODULE TraceArm -----------------------------
(* python/cortrace/trace_arm.py over python/cortrace/probe.py: arming is a    *)
(* straight sequence of probe commands with the core halted. Registers of the *)
(* debug domain survive a system reset, so a session starts from what earlier *)
(* ones left there, the failed ones included. Any command may be refused, or  *)
(* time out after it took effect; and OpenOCD may close the connection, which *)
(* a write, halt or resume takes for success and only a read notices.         *)
EXTENDS Naturals, Sequences, SequencesExt

CONSTANTS
  WatchLists,      \* what may be asked for: addresses to watch, in order
  MaxComparators,  \* the DWT's; 4 in the code
  PollTries        \* bound: reads of a poll before it gives up

ASSUME ArmAssumption ==
  /\ MaxComparators \in Nat \ {0} /\ PollTries \in Nat \ {0}
  /\ \A w \in WatchLists: w \in Seq(Nat \ {0})

VARIABLES reg, core, link, ask, todo, tries, outcome
armVars == <<reg, core, link, ask, todo, tries, outcome>>

(* Registers: block, name, index. 0 is the reset value, and off. The several   *)
(* registers that set a block up are one, "config"; "lar" 1 is unlocked.       *)
Comparators == 1..MaxComparators
Locked == {"tpiu", "funnel", "etf", "etm", "itm"}
R(block, name) == <<block, name, 0>>
Comp(name, i) == <<"dwt", name, i>>
Registers ==
  {R(b, n): b \in Locked \union {"chip", "dwt"}, n \in {"lar", "power", "config", "ctl"}}
    \union {Comp(n, i): n \in {"comp", "function"}, i \in Comparators}
AtPowerUp == [r \in Registers |-> IF r[2] = "lar" /\ r[1] \notin Locked THEN 1 ELSE 0]
Asks == [watches: WatchLists, etm: BOOLEAN, required: BOOLEAN]

------------------------------------------------------------------------------
\* The commands, in the order of the code.
Write(r, v) == [do |-> "write", reg |-> r, value |-> v]
Read == [do |-> "read"]
Poll(required) == [do |-> "poll", required |-> required]
Unlock(b) == Write(R(b, "lar"), 1)
SetUp(b) == Write(R(b, "config"), 1)
Ctl(b, v) == Write(R(b, "ctl"), v)

\* rmw32, poll32 and write32 steps of the platform; TRCENA and the time stamps.
ChipSteps(a) == <<Read, SetUp("chip"), Poll(a.required), Read, Ctl("chip", 1)>>
ArmTpiu == <<Unlock("tpiu"), SetUp("tpiu")>>
ArmFunnel == <<Unlock("funnel"), Ctl("funnel", 1), Read, SetUp("funnel")>>
ArmEtf == <<Ctl("etf", 0), Unlock("etf"), SetUp("etf"), Ctl("etf", 1)>>
PowerUp(b) == Write(R(b, "power"), 1)
ArmEtm(a) ==
  IF a.etm THEN <<Unlock("etm"), PowerUp("etm"), Ctl("etm", 0), Poll(FALSE),
                  SetUp("etm"), Ctl("etm", 1)>>
  ELSE <<Unlock("etm"), Ctl("etm", 0), Poll(FALSE)>>
ArmItm == <<Unlock("itm"), SetUp("itm"), Ctl("itm", 1)>>
Watch(i, addr) ==
  <<Write(Comp("function", i), 0), Write(Comp("comp", i), addr), Write(Comp("function", i), 1)>>
WatchInPlace(i, addr) == <<Write(Comp("comp", i), addr), Write(Comp("function", i), 1)>>
Watched(w) == FlattenSeq([i \in 1..Len(w) |-> Watch(i, w[i])])
Unused(w) ==
  [k \in 1..(MaxComparators - Len(w)) |-> Write(Comp("function", Len(w) + k), 0)]
WatchedInPlace(w) == FlattenSeq([i \in 1..Len(w) |-> WatchInPlace(i, w[i])])
ArmDwtInPlace(w) == IF Len(w) > MaxComparators THEN <<[do |-> "raise"]>>
                    ELSE <<SetUp("dwt")>> \o WatchedInPlace(w) \o Unused(w)
ArmDwt(w) == IF Len(w) > MaxComparators THEN <<[do |-> "raise"]>>
             ELSE <<SetUp("dwt")>> \o Watched(w) \o Unused(w)
ReadBackSkipped == <<>>
ReadBack == <<Read, Read, Read>>
Sequence(a) ==
  <<[do |-> "halt"]>> \o ChipSteps(a) \o ArmTpiu \o ArmFunnel \o ArmEtf \o ArmEtm(a)
    \o ArmItm \o ArmDwt(a.watches) \o ReadBack \o <<[do |-> "resume"]>>

------------------------------------------------------------------------------
ArmInit ==
  /\ reg = AtPowerUp /\ core = "running"
  /\ link = "closed" /\ outcome = "none" /\ todo = <<>> /\ tries = 0
  /\ ask \in Asks

Arming == outcome = "arming"
Command == Head(todo)
Is(kind) == Arming /\ todo # <<>> /\ Command.do = kind
Advance == todo' = Tail(todo) /\ tries' = 0

\* arm, its connection just made.
ArmResumes(a) ==
  /\ ~Arming
  /\ ask' = a /\ todo' = (IF todo = <<>> THEN Sequence(a) ELSE todo) /\ tries' = 0
  /\ outcome' = "arming" /\ link' = "up"
  /\ UNCHANGED <<reg, core>>
Arm(a) ==
  /\ ~Arming
  /\ ask' = a /\ todo' = Sequence(a) /\ tries' = 0
  /\ outcome' = "arming" /\ link' = "up"
  /\ UNCHANGED <<reg, core>>

\* What a command does to the target; a locked block ignores its writes.
Takes(r) == r[2] = "lar" \/ reg[R(r[1], "lar")] = 1
Effect ==
  /\ reg' = IF Command.do = "write" /\ Takes(Command.reg)
            THEN [reg EXCEPT ![Command.reg] = Command.value] ELSE reg
  /\ core' = CASE Command.do = "halt" -> "halted"
               [] Command.do = "resume" -> "running"
               [] OTHER -> core

\* _checked, read32, write32, halt, resume: answered.
Answered ==
  /\ Is("write") \/ Is("read") \/ Is("halt") \/ Is("resume")
  /\ link = "up"
  /\ Effect /\ Advance
  /\ UNCHANGED <<link, ask, outcome>>
\* An end of file ends the wait for the prompt: nothing in the answer to check.
TakenForAnswered ==
  /\ Is("write") \/ Is("halt") \/ Is("resume")
  /\ link = "closed"
  /\ Advance
  /\ UNCHANGED <<reg, core, link, ask, outcome>>

\* poll: the bit is set, or not yet; then on, or the end of a required step.
PollEnds(set) ==
  IF set THEN "on"
  ELSE IF tries + 1 < PollTries THEN "again"
  ELSE IF Command.required THEN "raise" ELSE "on"
PollOnce ==
  /\ Is("poll") /\ link = "up"
  /\ \E set \in BOOLEAN:
       \/ PollEnds(set) = "on" /\ Advance /\ UNCHANGED outcome
       \/ /\ PollEnds(set) = "again"
          /\ tries' = tries + 1
          /\ UNCHANGED <<todo, outcome>>
       \/ PollEnds(set) = "raise" /\ outcome' = "error" /\ UNCHANGED <<todo, tries>>
  /\ UNCHANGED <<reg, core, link, ask>>

(* A command fails: refused, or no answer within the timeout (it may have been *)
(* executed), or on a closed connection. More variables than comparators are   *)
(* only noticed at this point. Nothing is undone, the core stays halted.       *)
Fails ==
  /\ Arming /\ todo # <<>>
  /\ outcome' = "error"
  /\ \/ link = "up" /\ Effect
     \/ UNCHANGED <<reg, core>>
  /\ UNCHANGED <<link, ask, todo, tries>>
Done ==
  /\ Arming /\ todo = <<>>
  /\ outcome' = "armed"
  /\ UNCHANGED <<reg, core, link, ask, todo, tries>>
Work == Answered \/ TakenForAnswered \/ PollOnce \/ Fails \/ Done

\* OpenOCD goes away.
Hangup ==
  /\ Arming /\ link = "up"
  /\ link' = "closed"
  /\ UNCHANGED <<reg, core, ask, todo, tries, outcome>>
\* Between two sessions: the chip is reset and the debug domain is not, or both.
SystemReset ==
  /\ ~Arming
  /\ reg' = [reg EXCEPT ![R("chip", "config")] = 0]
  /\ core' = "running" /\ outcome' = "none"
  /\ UNCHANGED <<link, ask, todo, tries>>
PowerCycle ==
  /\ ~Arming
  /\ reg' = AtPowerUp /\ core' = "running" /\ outcome' = "none"
  /\ UNCHANGED <<link, ask, todo, tries>>

ArmNext ==
  \/ \E a \in Asks: Arm(a)
  \/ Work \/ Hangup \/ SystemReset \/ PowerCycle
ArmSpec == ArmInit /\ [][ArmNext]_armVars

------------------------------------------------------------------------------
\* Types; what is still to do is the end of the sequence asked for.
ArmTypeOK ==
  /\ reg \in [Registers -> Nat]
  /\ core \in {"running", "halted"} /\ link \in {"up", "closed"}
  /\ ask \in Asks
  /\ outcome \in {"none", "arming", "armed", "error"}
  /\ tries \in 0..(PollTries - 1)
  /\ Arming => IsSuffix(todo, Sequence(ask))

(* When `cortrace arm` reports success the target is armed exactly as asked:   *)
(* these addresses watched and no other, the ETM on or held off, the path on   *)
(* and unlocked; whatever earlier sessions left in the debug domain, and       *)
(* although a write on a dead connection looks like one that worked.           *)
ArmedAsAsked ==
  outcome = "armed" =>
    /\ \A i \in Comparators:
         IF i <= Len(ask.watches)
         THEN reg[Comp("function", i)] = 1 /\ reg[Comp("comp", i)] = ask.watches[i]
         ELSE reg[Comp("function", i)] = 0
    /\ reg[R("etm", "ctl")] = IF ask.etm THEN 1 ELSE 0
    /\ ask.etm => reg[R("etm", "power")] = 1 /\ reg[R("etm", "config")] = 1
    /\ \A b \in {"chip", "tpiu", "funnel", "etf", "itm", "dwt"}: reg[R(b, "config")] = 1
    /\ \A b \in {"chip", "funnel", "etf", "itm"}: reg[R(b, "ctl")] = 1

(* A comparator, the FIFO and the ETM are set up only while they are off, and  *)
(* the core is halted: in every session, also when an earlier one left them on *)
(* and although the FIFO is switched off before it is unlocked. Only the ETM's *)
(* power is requested before it is off (trace_arm.py:114).                     *)
SetUpWhileOff ==
  Is("write") /\ link = "up" =>
    /\ core = "halted"
    /\ \A i \in Comparators: Command.reg = Comp("comp", i) => reg[Comp("function", i)] = 0
    /\ \A b \in {"etf", "etm"}: Command.reg = R(b, "config") => reg[R(b, "ctl")] = 0

=============================================================================
