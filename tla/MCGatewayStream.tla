--------------------------- MODULE MCGatewayStream ---------------------------
(***************************************************************************)
(* The frames the peer writes in the runs.  The acceptable ones include a  *)
(* body of exactly max_message_bytes, an empty one, a payload of exactly   *)
(* max_frame_bytes, and frames on both sides of the abridged codec's       *)
(* header switch at 127 words; the others break one rule each.             *)
(***************************************************************************)
EXTENDS GatewayStream

Body(n) == [i \in 1 .. n |-> i % 256]

PlainFrame(n) == [kind |-> "plain", body |-> Body(n)]
EncryptedFrame(n) == [kind |-> "encrypted", body |-> Body(n)]
RawFrame(bytes) == [kind |-> "raw", body |-> bytes]
QuickAckFrame == [kind |-> "quick_ack", body |-> <<7, 0, 0, 200>>]

Pairs(A, B) == {<<a, b>> : a \in A, b \in B}

-----------------------------------------------------------------------------
(* Limits of 8 (message) and 72 (frame) bytes.                             *)
SmallGood == {PlainFrame(0), PlainFrame(8), EncryptedFrame(48)}
SmallBad ==
    {PlainFrame(12),            \* above max_message_bytes
     EncryptedFrame(52),        \* above max_frame_bytes
     EncryptedFrame(36),        \* not whole cipher blocks
     EncryptedFrame(16),        \* shorter than the inner header
     RawFrame(<<1, 2, 3, 4, 5, 6, 7, 8, 9, 10, 11, 12>>)}

IntermediateGood == SmallGood \cup {QuickAckFrame}
IntermediateScripts ==
    {<<f>> : f \in IntermediateGood} \cup
    Pairs(IntermediateGood, IntermediateGood \cup SmallBad)

Intermediate ==
    [codec : {"intermediate"}, maxFrameBytes : {72}, maxMessageBytes : {8},
     script : IntermediateScripts]

-----------------------------------------------------------------------------
(* Limits of 488 and 512 bytes: PlainFrame(484) is 126 words with its      *)
(* header, PlainFrame(488) is 127.                                         *)
AbridgedGood == {PlainFrame(4), PlainFrame(484), PlainFrame(488)}
AbridgedBad == {PlainFrame(492), [QuickAckFrame EXCEPT !.body = <<200, 0, 0, 7>>]}
AbridgedScripts == Pairs(AbridgedGood, AbridgedGood \cup AbridgedBad)

Abridged ==
    [codec : {"abridged"}, maxFrameBytes : {512}, maxMessageBytes : {488},
     script : AbridgedScripts]

-----------------------------------------------------------------------------
MCConnections == Intermediate \cup Abridged

(* No frame is good on one kind of connection and bad on the other.        *)
MCAcceptable(frame) == frame \in IntermediateGood \cup AbridgedGood
=============================================================================
