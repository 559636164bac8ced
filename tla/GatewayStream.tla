---------------------------- MODULE GatewayStream ----------------------------
(***************************************************************************)
(* One inbound connection: CoreGateway::poll (gateway.rs) over one of the  *)
(* codecs, driven by the host loop the README prescribes.  The peer writes *)
(* frames; TCP turns them into a byte stream that arrives in pieces of any *)
(* size; the host keeps the receive buffer, polls its prefix, discards     *)
(* what an event consumed and, told NeedMore(total), waits until that many *)
(* bytes are buffered.  A host may also poll early, whenever bytes arrive. *)
(*                                                                         *)
(* poll itself is stateless, so one call is one step.                      *)
(***************************************************************************)
EXTENDS Envelope

CONSTANTS
    Connections,        \* the connections there may be: [codec,
                        \* maxFrameBytes, maxMessageBytes, script]
    Acceptable(_)       \* the frames that satisfy the receiver's rules

(* A frame is the peer's view of what it writes: a "plain" or "encrypted"  *)
(* envelope around a body, a "raw" payload that is no envelope, or the     *)
(* bytes of a quick acknowledgement, which has no frame around it.         *)
Frame == [kind : {"plain", "encrypted", "raw", "quick_ack"}, body : Seq(Byte)]

Repeat(byte, n) == [i \in 1 .. n |-> byte]

PeerPayload(frame) ==
    CASE frame.kind = "plain" ->
            Repeat(0, KeyIdBytes) \o Repeat(1, MessageIdBytes)
            \o Bytes4(Len(frame.body)) \o frame.body
      [] frame.kind = "encrypted" ->
            Repeat(1, EncryptedHeaderBytes) \o frame.body
      [] frame.kind = "raw" -> frame.body

(* What a peer can write: a payload its own encoder admits, or a quick     *)
(* acknowledgement with its marker bit where the codec has it.             *)
Writable(c, frame) ==
    IF frame.kind = "quick_ack"
    THEN /\ Len(frame.body) = 4
         /\ frame.body[IF c.codec = "intermediate" THEN 4 ELSE 1] >= 128
    ELSE /\ Encodable(c.codec, PeerPayload(frame))
         /\ frame.kind = "raw" =>
                ParseExternal(frame.body, c.maxMessageBytes).status = "error"

(* The receiver's rules: GatewayConfig's limits, whole cipher blocks, and  *)
(* no quick acknowledgement on an abridged connection.                     *)
WithinRules(c, frame) ==
    LET length == Len(frame.body)
    IN  CASE frame.kind = "plain" ->
                /\ length <= c.maxMessageBytes
                /\ PlainHeaderBytes + length <= c.maxFrameBytes
          [] frame.kind = "encrypted" ->
                /\ length >= InnerHeaderBytes /\ length % BlockBytes = 0
                /\ length <= c.maxMessageBytes + 1072
                /\ EncryptedHeaderBytes + length <= c.maxFrameBytes
          [] frame.kind = "quick_ack" -> c.codec = "intermediate"
          [] frame.kind = "raw" -> FALSE

ASSUME ConnectionsAssumption ==
    \A c \in Connections :
        /\ c.codec \in Codecs /\ c.maxFrameBytes \in Nat /\ c.maxMessageBytes \in Nat
        /\ c.script \in Seq(Frame)
        /\ \A i \in DOMAIN c.script : Writable(c, c.script[i])

ASSUME AcceptableAssumption ==
    \A c \in Connections : \A i \in DOMAIN c.script :
        Acceptable(c.script[i]) <=> WithinRules(c, c.script[i])

VARIABLES
    connection,         \* codec, GatewayConfig's limits, the peer's frames
    wire,               \* bytes written and not yet arrived
    buffer,             \* the host's receive buffer
    need,               \* the total the last NeedMore asked for, else 0
    delivered,          \* history: the events handed to the application
    failure             \* the error poll returned, or "none"

vars == <<connection, wire, buffer, need, delivered, failure>>

script == connection.script
Scripts == {c.script : c \in Connections}

(* The host's receive buffer has room for the greatest frame.              *)
BufferBytes == connection.maxFrameBytes + 4

FrameBytes(frame) ==
    IF frame.kind = "quick_ack" THEN frame.body
    ELSE Encode(connection.codec, PeerPayload(frame))

(* The stream of the last n frames, and of all of them.                    *)
LastFrames[n \in 0 .. Len(script)] ==
    IF n = 0 THEN <<>>
    ELSE FrameBytes(script[Len(script) - n + 1]) \o LastFrames[n - 1]

StreamBytes == LastFrames[Len(script)]

(* CoreGateway::poll.  An event carries the frame it hands over.           *)
Poll(input) ==
    LET status   == Decode(connection.codec, input, connection.maxFrameBytes)
        envelope == ParseExternal(Payload(input, status), connection.maxMessageBytes)
    IN  CASE status.status = "quick_ack" ->
                [status |-> "event", consumed |-> status.consumed,
                 frame |-> [kind |-> "quick_ack", body |-> status.token]]
          [] status.status = "packet" ->
                IF envelope.status = "error" THEN envelope
                ELSE [status |-> "event", consumed |-> status.consumed,
                      frame |-> [kind |-> envelope.status,
                                 body |-> envelope.body]]
          [] OTHER -> status

-----------------------------------------------------------------------------
Init ==
    /\ connection \in Connections
    /\ wire = StreamBytes
    /\ buffer = <<>>
    /\ need = 0
    /\ delivered = <<>>
    /\ failure = "none"

(* A byte arrives, if the host has room for it.  Several arrivals without  *)
(* a poll in between are one larger TCP segment.                           *)
Arrive ==
    /\ wire # <<>>
    /\ Len(buffer) < BufferBytes
    /\ buffer' = Append(buffer, Head(wire))
    /\ wire' = Tail(wire)
    /\ UNCHANGED <<connection, need, delivered, failure>>

(* NeedMore(total): keep the buffer and wait.                              *)
PollNeedMore ==
    LET event == Poll(buffer)
    IN  /\ event.status = "need_more"
        /\ need' = event.total
        /\ UNCHANGED <<connection, wire, buffer, delivered, failure>>

(* Packet or QuickAck: process the event, discard what it consumed.        *)
PollEvent ==
    LET event == Poll(buffer)
    IN  /\ event.status = "event"
        /\ delivered' = Append(delivered, event.frame)
        /\ buffer' = SubSeq(buffer, event.consumed + 1, Len(buffer))
        /\ need' = 0
        /\ UNCHANGED <<connection, wire, failure>>

(* An error: poll reports no consumed length, so the host cannot step over *)
(* the frame and gives the connection up.                                  *)
PollError ==
    LET event == Poll(buffer)
    IN  /\ event.status = "error"
        /\ failure' = event.kind
        /\ UNCHANGED <<connection, wire, buffer, need, delivered>>

PollAny == failure = "none" /\ (PollNeedMore \/ PollEvent \/ PollError)

(* Enough bytes for what the last poll asked for.                          *)
PollWhenReady == Len(buffer) >= need /\ PollAny

(* The host polls on every arrival.                                        *)
PollEarly == Len(buffer) < need /\ PollAny

Next == Arrive \/ PollWhenReady \/ PollEarly

(* TCP keeps delivering, and a host with the bytes it was told to wait for *)
(* polls; nothing obliges it to poll before.                               *)
Fairness == WF_vars(Arrive) /\ WF_vars(PollWhenReady)

Spec == Init /\ [][Next]_vars /\ Fairness

-----------------------------------------------------------------------------
(* A host is never told to wait for bytes that cannot come: what NeedMore  *)
(* asked for fits its buffer and is no more than what the peer wrote for   *)
(* the frame at the head of the stream.                                    *)
NeedReachable ==
    need > 0 /\ Len(delivered) < Len(script) =>
        /\ need <= BufferBytes
        /\ need <= Len(FrameBytes(script[Len(delivered) + 1]))

(* However the stream is cut into segments and whenever the host polls,    *)
(* it hands over the peer's frames, whole, once and in order, fails only   *)
(* at a frame that breaks the rules, and gets through all the others.      *)
Channel == INSTANCE FrameChannel WITH open <- failure = "none"
ImplementsFrameChannel == Channel!Spec
=============================================================================
