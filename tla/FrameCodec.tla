------------------------------ MODULE FrameCodec ------------------------------
(***************************************************************************)
(* How a request becomes bytes on the VE.Bus and a received frame becomes  *)
(* bytes to decode (src/ve_bus.cpp): prepareCommand puts a header in front *)
(* of the request, stuffingFAtoFF escapes the bytes 0xFA .. 0xFF in place, *)
(* appendChecksum closes the frame, DestuffingFAtoFF undoes the escapes in *)
(* place.  Both loops run over one buffer with a read and a write pointer, *)
(* one round per step here.  Index k of the code is k + 1.                 *)
(***************************************************************************)
EXTENDS Integers, Sequences, SequencesExt, FiniteSetsExt

CONSTANTS
  Bytes,      \* the byte values requests and answers are made of
  MaxPayload, \* bound on the bytes of a request or an answer
  FrameNrs    \* the frame numbers sync frames carry

ASSUME BytesAssumption == Bytes \subseteq 0 .. 255 /\ FrameNrs \subseteq 0 .. 127
ASSUME MaxPayloadAssumption == MaxPayload \in Nat

MK3_ID == <<152, 247>>  \* 0x98 0xF7
MP_ID  == <<131, 131>>  \* 0x83 0x83
DATA_FRAME   == 254     \* 0xFE
END_OF_FRAME == 255     \* 0xFF
ESC == 250              \* 0xFA, also the least byte that is escaped

Payloads == UNION {[1 .. n -> Bytes] : n \in 0 .. MaxPayload}

(* A byte of the buffer that was exposed by resize and not written yet.     *)
Stale == -1

VARIABLES
  pc,      \* the next thing to do: sending goes from "idle" to "sent",
           \* receiving from "arrived" to "received"
  payload, \* the request to send, or what the inverter put into its frame
  buffer,  \* the VEBusBuffer that is worked on
  wire,    \* the frame as it is on the bus: sent, or received
  src, dst,\* the pointers of the loop that runs
  fas      \* its count of escapes

codecVars == <<pc, payload, buffer, wire, src, dst, fas>>

Escaped(v) == v >= ESC

-------------------------------------------------------------------------------
(* Sending: sendData.                                                       *)

NextFrameNr(nr) == (nr + 1) % 128

prepareCommand(nr) ==
  /\ pc = "idle"
  /\ buffer' = MK3_ID \o <<DATA_FRAME, NextFrameNr(nr)>> \o payload
  /\ pc' = "prepared"
  /\ UNCHANGED <<payload, wire, src, dst, fas>>

(* Fault: the loop starts one byte too low. *)
StuffFrom_OffByOne(n) == n - 1

(* buffer.back() after the resize. *)
StuffFrom(n) == n

(* The escapes are counted and the buffer grows by as many bytes; it has    *)
(* room for them (128 bytes for requests of at most 9).                     *)
StuffingBegin ==
  LET n == Len(buffer)
      k == Cardinality({j \in 1 .. n : Escaped(buffer[j])})
  IN
  /\ pc = "prepared"
  /\ fas' = k
  /\ buffer' = buffer \o [j \in 1 .. k |-> Stale]
  /\ src' = n
  /\ dst' = StuffFrom(n + k)
  /\ pc' = "stuffing"
  /\ UNCHANGED <<payload, wire>>

(* Fault: the escape keeps only three bits of the byte. *)
EscapedByte_ThreeBits(v) == 112 + (v % 8)

EscapedByte(v) == 112 + (v % 16)

(* One round, from the back to the front. *)
StuffStep ==
  /\ pc = "stuffing"
  /\ src >= 1
  /\ \/ /\ Escaped(buffer[src])
        /\ buffer' = [buffer EXCEPT ![dst] = EscapedByte(buffer[src]), ![dst - 1] = ESC]
        /\ dst' = dst - 2
     \/ /\ ~Escaped(buffer[src])
        /\ buffer' = [buffer EXCEPT ![dst] = buffer[src]]
        /\ dst' = dst - 1
  /\ src' = src - 1
  /\ UNCHANGED <<pc, payload, wire, fas>>

StuffingEnd ==
  /\ pc = "stuffing"
  /\ src = 0
  /\ pc' = "stuffed"
  /\ UNCHANGED <<payload, buffer, wire, src, dst, fas>>

SumFrom(s, i) == FoldLeft(LAMBDA a, b : a + b, 0, SubSeq(s, i, Len(s)))

(* Faults: the checksum includes the MK3_ID; a checksum of 0xFF is not      *)
(* escaped.                                                                 *)
Checksum_WithId(s) == (1 - SumFrom(s, 1)) % 256
ChecksumBytes_NoEscape(cs) == <<cs>>

(* The bytes after the two of the MK3_ID and the checksum add up to 1. *)
Checksum(s) == (1 - SumFrom(s, 3)) % 256

ChecksumBytes(cs) == IF cs > ESC THEN <<ESC, cs - ESC>> ELSE <<cs>>

appendChecksum ==
  /\ pc = "stuffed"
  /\ buffer' = buffer \o ChecksumBytes(Checksum(buffer)) \o <<END_OF_FRAME>>
  /\ wire' = buffer'
  /\ pc' = "sent"
  /\ UNCHANGED <<payload, src, dst, fas>>

-------------------------------------------------------------------------------
(* Receiving: the inverter's frame, then DestuffingFAtoFF.                  *)

(* What an inverter sends: header, escaped payload, checksum, end.          *)
Stuff(s) ==
  FlattenSeq([j \in 1 .. Len(s) |->
    IF Escaped(s[j]) THEN <<ESC, 112 + (s[j] % 16)>> ELSE <<s[j]>>])

DeviceFrame(nr, p) ==
  LET body == MP_ID \o <<DATA_FRAME, nr>> \o Stuff(p)
  IN  body \o ChecksumBytes(Checksum(body)) \o <<END_OF_FRAME>>

(* A frame of at most 4 bytes is left as it is. *)
TooShort == Len(buffer) <= 4

DestuffingBegin ==
  /\ pc = "arrived"
  /\ IF TooShort
       THEN pc' = "received" /\ UNCHANGED <<src, dst, fas>>
       ELSE pc' = "destuffing" /\ src' = 5 /\ dst' = 5 /\ fas' = 0
  /\ UNCHANGED <<payload, buffer, wire>>

(* Fault: 0xFA 0xFF, a checksum of 0xFA and the end, is taken for an escape. *)
IsChecksumAndEnd_Never == FALSE

IsChecksumAndEnd == buffer[src + 1] = END_OF_FRAME

DestuffStep ==
  /\ pc = "destuffing"
  /\ src <= Len(buffer)
  /\ \/ /\ buffer[src] = ESC /\ IsChecksumAndEnd
        /\ buffer' = [buffer EXCEPT ![dst] = ESC, ![dst + 1] = END_OF_FRAME]
        /\ dst' = dst + 2
        /\ src' = src + 2
        /\ UNCHANGED fas
     \/ /\ buffer[src] = ESC /\ ~IsChecksumAndEnd
        /\ buffer' = [buffer EXCEPT ![dst] = (128 + buffer[src + 1]) % 256]
        /\ dst' = dst + 1
        /\ src' = src + 2
        /\ fas' = fas + 1
     \/ /\ buffer[src] # ESC
        /\ buffer' = [buffer EXCEPT ![dst] = buffer[src]]
        /\ dst' = dst + 1
        /\ src' = src + 1
        /\ UNCHANGED fas
  /\ UNCHANGED <<pc, payload, wire>>

DestuffingEnd ==
  /\ pc = "destuffing"
  /\ src > Len(buffer)
  /\ buffer' = SubSeq(buffer, 1, Len(buffer) - fas)
  /\ pc' = "received"
  /\ UNCHANGED <<payload, wire, src, dst, fas>>

-------------------------------------------------------------------------------
(* Listening may begin inside of a frame: any end of one may arrive.        *)
CodecInit ==
  /\ payload \in Payloads
  /\ src = 0 /\ dst = 0 /\ fas = 0
  /\ \/ pc = "idle" /\ buffer = <<>> /\ wire = <<>>
     \/ /\ pc = "arrived"
        /\ \E nr \in FrameNrs :
             LET frame == DeviceFrame(nr, payload)
             IN  \E k \in 1 .. Len(frame) : wire = SubSeq(frame, k, Len(frame))
        /\ buffer = wire

CodecNext ==
  \/ \E nr \in FrameNrs : prepareCommand(nr)
  \/ StuffingBegin \/ StuffStep \/ StuffingEnd \/ appendChecksum
  \/ DestuffingBegin \/ DestuffStep \/ DestuffingEnd

CodecSpec == CodecInit /\ [][CodecNext]_codecVars

-------------------------------------------------------------------------------
(* Properties.                                                              *)

(* In place means that no byte is overwritten before it is read: what the   *)
(* loop of stuffingFAtoFF has still to read is what prepareCommand wrote,   *)
(* what DestuffingFAtoFF has still to read is what arrived.                 *)
UnreadIsUntouched ==
  /\ pc = "stuffing" =>
       /\ dst >= src
       /\ \A k \in 1 .. src :
            /\ k <= 3 => buffer[k] = (MK3_ID \o <<DATA_FRAME>>)[k]
            /\ k > 4 => buffer[k] = payload[k - 4]
  /\ pc = "destuffing" =>
       \A k \in src .. Len(buffer) : buffer[k] = wire[k]

(* A sent frame ends at its last byte and nowhere before, or the inverter   *)
(* would take its rest for another frame.                                   *)
OneEnd ==
  pc = "sent" =>
    /\ Last(wire) = END_OF_FRAME
    /\ \A k \in 1 .. Len(wire) - 1 : wire[k] \in 0 .. 254

(* The bytes between the MK3_ID and the end of a sent frame add up to 1,    *)
(* whether the checksum takes one byte or two.                              *)
ChecksumCloses ==
  pc = "sent" => SumFrom(Front(wire), 3) % 256 = 1

(* What the two pointers of stuffingFAtoFF leave is the escaped form of the *)
(* header and the request, byte by byte from the front.                     *)
SentIsStuffed ==
  pc = "sent" =>
    \E nr \in 0 .. 127 :
      LET body == Stuff(MK3_ID \o <<DATA_FRAME, nr>> \o payload)
      IN  IsPrefix(body, wire) /\ Len(wire) - Len(body) \in 2 .. 3

(* A whole frame is decoded to the bytes the inverter put into it, at the   *)
(* offsets they had there, and its length does not depend on them:          *)
(* decodeVEbusFrame compares lengths and reads at fixed offsets.  A         *)
(* checksum of 0xFB or more is read as one byte, a checksum of 0xFA is not  *)
(* taken for an escape.                                                     *)
ReceiveInverts ==
  (pc = "received" /\ \E nr \in FrameNrs : wire = DeviceFrame(nr, payload)) =>
    /\ Len(buffer) = 4 + Len(payload) + 2
    /\ SubSeq(buffer, 1, 4) = SubSeq(wire, 1, 4)
    /\ SubSeq(buffer, 5, 4 + Len(payload)) = payload
    /\ Last(buffer) = END_OF_FRAME
===============================================================================
