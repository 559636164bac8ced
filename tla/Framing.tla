------------------------------- MODULE Framing -------------------------------
(***************************************************************************)
(* The two transport codecs, transport/intermediate.rs and                 *)
(* transport/abridged.rs, as operators on sequences of bytes with the      *)
(* widths of the code.  A decoder is a function of the stream prefix and   *)
(* the frame limit only; it keeps no state between calls.                  *)
(***************************************************************************)
EXTENDS Integers, Sequences

Byte == 0 .. 255
Codecs == {"intermediate", "abridged"}

-----------------------------------------------------------------------------
(* The outcomes of decode: FrameStatus, or an error with its kind.         *)
NeedMore(total) == [status |-> "need_more", total |-> total]
QuickAck(token) == [status |-> "quick_ack", token |-> token,
                    consumed |-> Len(token)]
Packet(offset, length) ==
    [status |-> "packet", offset |-> offset, length |-> length,
     consumed |-> offset + length]
Failed(kind) == [status |-> "error", kind |-> kind]

(* FrameBounds::payload                                                    *)
Payload(input, packet) == SubSeq(input, packet.offset + 1, packet.consumed)

(* Little-endian integers; the callers exclude a set top bit.              *)
LE3(b) == b[1] + 256 * (b[2] + 256 * b[3])
LE4(b) == b[1] + 256 * (b[2] + 256 * (b[3] + 256 * b[4]))

(* The lowest three and four bytes of n, lowest first.                     *)
Shift(n) == n \div 256
Bytes3(n) == <<n % 256, Shift(n) % 256, Shift(Shift(n)) % 256>>
Bytes4(n) == <<n % 256, Shift(n) % 256, Shift(Shift(n)) % 256,
               Shift(Shift(Shift(n))) % 256>>

-----------------------------------------------------------------------------
(* Mutant: the header is counted twice in what is asked for.               *)
BoundedAskingMore(input, header, length, max) ==
    IF length = 0 \/ length % 4 # 0 THEN Failed("InvalidLength")
    ELSE IF length > max THEN Failed("LimitExceeded")
    ELSE IF Len(input) < header + length THEN NeedMore(2 * header + length)
    ELSE Packet(header, length)

(* What both decoders do once the header has given the payload's length.   *)
Bounded(input, header, length, max) ==
    IF length = 0 \/ length % 4 # 0 THEN Failed("InvalidLength")
    ELSE IF length > max THEN Failed("LimitExceeded")
    ELSE IF Len(input) < header + length THEN NeedMore(header + length)
    ELSE Packet(header, length)

(* Intermediate: a four-byte length, or a quick acknowledgement when the   *)
(* top bit is set.                                                         *)
IntermediateDecode(input, max) ==
    IF Len(input) < 4 THEN NeedMore(4)
    ELSE IF input[4] >= 128 THEN QuickAck(SubSeq(input, 1, 4))
    ELSE Bounded(input, 4, LE4(input), max)

(* Abridged: the length in words, in one byte or behind a 0x7f marker.     *)
AbridgedDecode(input, max) ==
    IF input = <<>> THEN NeedMore(1)
    ELSE IF input[1] < 127 THEN Bounded(input, 1, 4 * input[1], max)
    ELSE IF input[1] > 127 THEN Failed("InvalidLength")
    ELSE IF Len(input) < 4 THEN NeedMore(4)
    ELSE Bounded(input, 4, 4 * LE3(Tail(input)), max)

Decode(codec, input, max) ==
    IF codec = "intermediate" THEN IntermediateDecode(input, max)
    ELSE AbridgedDecode(input, max)

-----------------------------------------------------------------------------
(* encode, when the output has room for the frame: the header, then the    *)
(* payload.  A payload is refused unless it is whole words, not empty, and *)
(* short enough for the header's length field.                             *)
MaxPayload(codec) ==
    IF codec = "intermediate" THEN 2147483647 ELSE 4 * 16777215

Encodable(codec, payload) ==
    /\ payload # <<>> /\ Len(payload) % 4 = 0
    /\ Len(payload) <= MaxPayload(codec)

(* Mutant: the one-byte header is used for 127 words, too.                 *)
HeaderSwitchingLate(codec, payload) ==
    IF codec = "intermediate" THEN Bytes4(Len(payload))
    ELSE LET words == Len(payload) \div 4
         IN  IF words <= 127 THEN <<words>> ELSE <<127>> \o Bytes3(words)

Header(codec, payload) ==
    IF codec = "intermediate" THEN Bytes4(Len(payload))
    ELSE LET words == Len(payload) \div 4
         IN  IF words < 127 THEN <<words>> ELSE <<127>> \o Bytes3(words)

Encode(codec, payload) == Header(codec, payload) \o payload
=============================================================================
