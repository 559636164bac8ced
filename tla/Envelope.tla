------------------------------- MODULE Envelope -------------------------------
(***************************************************************************)
(* mtproto/envelope.rs and mtproto/outbound.rs: which byte strings are     *)
(* envelopes, and how long they are.  A plain envelope is a zero key       *)
(* identifier, a message identifier, a length and the body; an encrypted   *)
(* one is a key identifier, a message key and whole cipher blocks.         *)
(***************************************************************************)
EXTENDS Framing

KeyIdBytes == 8
MessageIdBytes == 8
LengthBytes == 4
PlainHeaderBytes == KeyIdBytes + MessageIdBytes + LengthBytes
EncryptedHeaderBytes == KeyIdBytes + 16
InnerHeaderBytes == 32
BlockBytes == 16
PaddingRange == 12 .. 1024

Plain(body) == [status |-> "plain", body |-> body]
Encrypted(data) == [status |-> "encrypted", body |-> data]

IsZero(bytes) == \A i \in DOMAIN bytes : bytes[i] = 0

(* The body of a plain envelope: Cursor::take, then Cursor::finish.        *)
PlainBody(input, length, max) ==
    LET rest == Len(input) - PlainHeaderBytes
    IN  IF length % 4 # 0 THEN Failed("InvalidLength")
        ELSE IF length > max THEN Failed("LimitExceeded")
        ELSE IF rest < length THEN Failed("NeedMore")
        ELSE IF rest > length THEN Failed("InvalidLength")
        ELSE Plain(SubSeq(input, PlainHeaderBytes + 1, Len(input)))

(* Mutant: the data need not be whole cipher blocks.                       *)
EncryptedDataAnyLength(input, max) ==
    LET length == Len(input) - EncryptedHeaderBytes
    IN  IF length < InnerHeaderBytes THEN Failed("InvalidLength")
        ELSE IF length > max + 1072 THEN Failed("LimitExceeded")
        ELSE Encrypted(SubSeq(input, EncryptedHeaderBytes + 1, Len(input)))

EncryptedData(input, max) ==
    LET length == Len(input) - EncryptedHeaderBytes
    IN  IF length < InnerHeaderBytes \/ length % BlockBytes # 0
        THEN Failed("InvalidLength")
        ELSE IF length > max + 1072 THEN Failed("LimitExceeded")
        ELSE Encrypted(SubSeq(input, EncryptedHeaderBytes + 1, Len(input)))

(* parse_external: every field the input is too short for is NeedMore.     *)
ParseExternal(input, max) ==
    IF Len(input) < KeyIdBytes THEN Failed("NeedMore")
    ELSE IF IsZero(SubSeq(input, 1, KeyIdBytes))
    THEN IF Len(input) < PlainHeaderBytes THEN Failed("NeedMore")
         ELSE PlainBody(input, LE4(SubSeq(input, KeyIdBytes + MessageIdBytes + 1,
                                          PlainHeaderBytes)), max)
    ELSE IF Len(input) < EncryptedHeaderBytes THEN Failed("NeedMore")
    ELSE EncryptedData(input, max)

(* encrypted_packet_len: the frame payload for a body and its padding, or  *)
(* zero when the combination is refused.                                   *)
EncryptedPacketLen(body, padding) ==
    IF /\ body % 4 = 0 /\ padding \in PaddingRange
       /\ (InnerHeaderBytes + body + padding) % BlockBytes = 0
    THEN EncryptedHeaderBytes + InnerHeaderBytes + body + padding
    ELSE 0

(* parse_decrypted, on the lengths alone: the plaintext's length and the   *)
(* body length its header declares.                                        *)
ParseDecrypted(length, body, max) ==
    IF length % BlockBytes # 0 THEN "InvalidLength"
    ELSE IF length < InnerHeaderBytes THEN "NeedMore"
    ELSE IF body % 4 # 0 THEN "InvalidLength"
    ELSE IF body > max THEN "LimitExceeded"
    ELSE IF length - InnerHeaderBytes < body THEN "NeedMore"
    ELSE IF length - InnerHeaderBytes - body \notin PaddingRange
    THEN "InvalidLength"
    ELSE "ok"
===============================================================================
