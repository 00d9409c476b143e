------------------------------ MODULE Deframe ------------------------------
(* The TPIU demultiplexer of src/deframe.cpp: it takes the assembled bytes of *)
(* a capture one by one, looks for the sync word, collects frames and hands   *)
(* every data byte to the trace stream it belongs to (the variant for one     *)
(* stream takes the same steps and keeps that stream's bytes only).           *)
(*                                                                            *)
(* The formatter of the target and the link are not the program's. The        *)
(* formatter packs data bytes and stream changes into frames, puts a full     *)
(* sync between any two frames and a half sync between any two half-words;    *)
(* the link loses bytes anywhere. The capture starts while the formatter is   *)
(* in the midst of some stream.                                               *)
EXTENDS Naturals, Sequences

CONSTANTS
  FrameLen,   \* TPIU_PACKET_LEN: bytes of a frame, 16 in the code
  Ids,        \* stream ids; 0 is padding
  Data        \* data bytes

ASSUME FrameAssumption ==  \* its flags fit in one byte
  FrameLen \in Nat /\ FrameLen % 2 = 0 /\ FrameLen > 2 /\ FrameLen <= 16
ASSUME IdsAssumption == 0 \in Ids /\ Ids \subseteq 0 .. 126  \* 127 is reserved: its byte is 255
ASSUME DataAssumption == Data \subseteq 0 .. 255

Pairs == FrameLen \div 2
NoByte == 256   \* ~got_lowbits

VARIABLES
  wire,     \* bytes under way
  fmtId,    \* the formatter's stream
  said,     \* it has announced its stream since the last sync
  meant,    \* the bytes of its last frame, each with its stream, if intact
  intact,   \* nothing was lost since its last sync
  clean,    \* nothing was ever lost
  synced,   \* state_synced
  ffs,      \* sync_monitor: how many of its last three bytes, from the end, are 0xFF
  rxed,     \* rxed, the complete half-words of it: byte_count = Len(rxed)
  low,      \* rxed[byte_count] if got_lowbits
  cur,      \* cur_stream
  got       \* what the last byte completed: a frame and the bytes it gave each stream

sender == <<wire, fmtId, said, meant, intact, clean>>
demux == <<synced, ffs, rxed, low, cur, got>>
vars == <<sender, demux>>

Nothing == [frame |-> FALSE, bytes |-> <<>>]

Init ==
  /\ wire = <<>> /\ fmtId \in Ids /\ said = FALSE /\ meant = <<>>
  /\ intact = FALSE /\ clean = TRUE
  /\ synced = FALSE /\ ffs = 0 /\ rxed = <<>> /\ low = NoByte /\ cur = 0 /\ got = Nothing

------------------------------------------------------------------------------
(* The formatter. An even position holds a stream change, odd and with a flag *)
(* that delays it by a byte, or a data byte whose low bit is kept apart; the  *)
(* last byte holds the flags and the low bits.                                *)
Evens == [change : {TRUE}, value : Ids, flag : {0, 1}]
         \cup {[change |-> FALSE, value |-> d - (d % 2), flag |-> d % 2] : d \in Data}
EvenByte(e) == IF e.change THEN 2 * e.value + 1 ELSE e.value

Flags(evens) ==
  LET last[n \in 0 .. Pairs] == IF n = 0 THEN 0 ELSE evens[Pairs - n].flag + 2 * last[n - 1]
  IN last[Pairs]

FrameBytes(evens, odds) ==
  [i \in 1 .. FrameLen |->
     IF i = FrameLen THEN Flags(evens)
     ELSE IF i % 2 = 1 THEN EvenByte(evens[(i - 1) \div 2]) ELSE odds[(i - 2) \div 2]]

\* The stream of a position is the one last announced for it or a position before.
Announced(evens, pos) ==
  {j \in 0 .. Pairs - 1 : evens[j].change /\ 2 * j + 2 * evens[j].flag <= pos}
StreamAt(evens, stream, pos) ==
  LET js == Announced(evens, pos) IN
  IF js = {} THEN stream ELSE evens[CHOOSE j \in js : \A k \in js : k <= j].value

\* What the frame means if the formatter was in that stream, and had (sure) said so: each data
\* byte, but those of stream 0, with its stream.
IsData(evens, pos) == pos % 2 = 1 \/ ~evens[pos \div 2].change
DataByte(evens, odds, pos) ==
  IF pos % 2 = 1 THEN odds[pos \div 2] ELSE evens[pos \div 2].value + evens[pos \div 2].flag
MeaningAt(evens, odds, stream, sure, pos) ==
  LET id == StreamAt(evens, stream, pos) IN
  IF IsData(evens, pos) /\ id # 0
    THEN << [id |-> id, byte |-> DataByte(evens, odds, pos),
             said |-> sure \/ Announced(evens, pos) # {}] >>
    ELSE <<>>
Meaning(evens, odds, stream, sure) ==
  LET upTo[n \in 0 .. FrameLen - 1] ==
        IF n = 0 THEN <<>> ELSE upTo[n - 1] \o MeaningAt(evens, odds, stream, sure, n - 1)
  IN upTo[FrameLen - 1]

Frame ==
  /\ wire = <<>>
  /\ \E evens \in [0 .. Pairs - 1 -> Evens], odds \in [0 .. Pairs - 2 -> Data] :
       /\ wire' = FrameBytes(evens, odds)
       /\ meant' = IF intact THEN Meaning(evens, odds, fmtId, said) ELSE <<>>
       /\ fmtId' = StreamAt(evens, fmtId, FrameLen)
       /\ said' = (intact /\ (said \/ Announced(evens, FrameLen) # {}))
  /\ UNCHANGED <<intact, clean, demux>>
Sync ==
  /\ wire = <<>>
  /\ wire' = <<255, 255, 255, 127>>
  /\ said' = FALSE /\ meant' = <<>> /\ intact' = TRUE
  /\ UNCHANGED <<fmtId, clean, demux>>
HalfSync ==
  /\ Len(wire) % 2 = 0 /\ (wire # <<>> => Head(wire) # 255)
  /\ wire' = <<255, 127>> \o wire
  /\ UNCHANGED <<fmtId, said, meant, intact, clean, demux>>
Lose ==
  /\ wire # <<>>
  /\ wire' = Tail(wire) /\ intact' = FALSE /\ clean' = FALSE /\ meant' = <<>> /\ said' = FALSE
  /\ UNCHANGED <<fmtId, demux>>

------------------------------------------------------------------------------
(* get_packet: one frame, half-word by half-word, with the flags shifted out. *)
(* A stream change takes effect at once or after the byte that follows;       *)
(* stream 0 is dropped.                                                       *)
PutPadding(id, byte) == <<[id |-> id, byte |-> byte]>>
Put(id, byte) == IF id = 0 THEN <<>> ELSE <<[id |-> id, byte |-> byte]>>
IsChange(even) == even % 2 = 1
StreamNowUndelayed(even, flag, stream) == IF IsChange(even) THEN even \div 2 ELSE stream
StreamNow(even, flag, stream) == IF IsChange(even) /\ flag = 0 THEN even \div 2 ELSE stream
HalfWord(frame, j, s) ==
  LET even == frame[2 * j + 1]  odd == frame[2 * j + 2]
      flag == s.lowbits % 2
      now == StreamNow(even, flag, s.cur)
  IN [lowbits |-> s.lowbits \div 2,
      cur |-> IF IsChange(even) THEN even \div 2 ELSE now,
      out |-> s.out \o (IF IsChange(even) THEN <<>> ELSE Put(now, even + flag))
                    \o (IF j < Pairs - 1 THEN Put(now, odd) ELSE <<>>)]
GetPacket(frame, stream) ==
  LET after[j \in 0 .. Pairs] ==
        IF j = 0 THEN [lowbits |-> frame[FrameLen], cur |-> stream, out |-> <<>>]
        ELSE HalfWord(frame, j - 1, after[j - 1])
  IN after[Pairs]

(* tpiu_deframe, one byte.                                                    *)
IsSync(d) == ffs = 3 /\ d = 127
ResyncUnpaired ==
  /\ synced' = TRUE /\ rxed' = <<>> /\ got' = Nothing
  /\ UNCHANGED <<cur, low>>
Resync ==
  /\ synced' = TRUE /\ rxed' = <<>> /\ low' = NoByte /\ got' = Nothing
  /\ UNCHANGED cur
IsWholeLate(frame) == Len(frame) > FrameLen
IsWhole(frame) == Len(frame) = FrameLen
HalfWordDone(d) ==
  LET frame == rxed \o <<low, d>> IN
  /\ low' = NoByte
  /\ IF low = 255 /\ d = 127 THEN UNCHANGED <<rxed, cur>> /\ got' = Nothing
     ELSE IF ~IsWhole(frame) THEN rxed' = frame /\ got' = Nothing /\ UNCHANGED cur
     ELSE LET packet == GetPacket(frame, cur) IN
          rxed' = <<>> /\ cur' = packet.cur /\ got' = [frame |-> TRUE, bytes |-> packet.out]
  /\ UNCHANGED synced

Byte ==
  /\ wire # <<>>
  /\ LET d == Head(wire) IN
       /\ ffs' = IF d # 255 THEN 0 ELSE IF ffs = 3 THEN 3 ELSE ffs + 1
       /\ IF IsSync(d) THEN Resync
          ELSE IF ~synced THEN UNCHANGED <<synced, rxed, low, cur>> /\ got' = Nothing
          ELSE IF low = NoByte THEN low' = d /\ UNCHANGED <<synced, rxed, cur>> /\ got' = Nothing
          ELSE HalfWordDone(d)
  /\ wire' = Tail(wire)
  /\ UNCHANGED <<fmtId, said, meant, intact, clean>>

Next == Frame \/ Sync \/ HalfSync \/ Lose \/ Byte
Spec == Init /\ [][Next]_vars

------------------------------------------------------------------------------
Bytes == 0 .. 255
Traced == [id : 0 .. 127, byte : Bytes]

(* Types; between two bytes of a capture there is never a whole frame         *)
(* collected, and none before the first sync.                                 *)
TypeOK ==
  /\ wire \in Seq(Bytes) /\ fmtId \in Ids
  /\ {said, intact, clean, synced, got.frame} \subseteq BOOLEAN
  /\ ffs \in 0 .. 3 /\ low \in Bytes \cup {NoByte} /\ cur \in 0 .. 127
  /\ rxed \in Seq(Bytes) /\ Len(rxed) % 2 = 0 /\ Len(rxed) < FrameLen
  /\ got.bytes \in Seq(Traced)
  /\ ~synced => rxed = <<>> /\ low = NoByte /\ cur = 0

(* The n-th byte that the last frame gave, from the end, is the n-th that it  *)
(* means, from the end.                                                       *)
SameByte(n) ==
  LET b == meant[Len(meant) - n] IN
  /\ n < Len(got.bytes)
  /\ got.bytes[Len(got.bytes) - n] = [id |-> b.id, byte |-> b.byte]

(* One sync is enough: whatever was lost before it, every frame behind it is  *)
(* taken apart as the formatter put it together, half syncs between its       *)
(* half-words or not: each data byte, low bit restored, goes to its stream,   *)
(* from the first stream change behind the sync on (deframe.cpp:194-222).     *)
FrameDone == got.frame /\ wire = <<>>
ResyncRestores ==
  FrameDone /\ intact =>
    \A n \in 0 .. Len(meant) - 1 : meant[Len(meant) - n].said => SameByte(n)

(* Before that first stream change the demultiplexer does not know the        *)
(* stream. At the start of a capture it then drops the bytes and attributes   *)
(* none to a stream it guesses.                                               *)
NothingGuessedAtStart ==
  FrameDone /\ clean =>
    Len(got.bytes) <= Len(meant) /\ \A n \in 0 .. Len(got.bytes) - 1 : SameByte(n)

(* Both: each byte is attributed to its stream, or before the first stream    *)
(* change to none.                                                            *)
BytesFindTheirStream == ResyncRestores /\ NothingGuessedAtStart

(* The frames it collects end where the formatter's frames end, unless bytes  *)
(* were lost since the sync: a byte of data is never taken for part of a sync *)
(* and a sync never for data.                                                 *)
FramesAlign == synced /\ intact /\ wire = <<>> => rxed = <<>> /\ low = NoByte
=============================================================================
