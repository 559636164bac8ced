---------------------------- MODULE ServiceObjects ----------------------------
(***************************************************************************)
(* parse_service and parse_message_update of service.rs, and the elements  *)
(* of a LongVector, against the layouts of schemas/core.tl and of the four *)
(* updates of schemas/telegram_api.tl.                                     *)
(*                                                                         *)
(* Nothing is copied: a field of a result is the place of its bytes in the *)
(* body, <<first byte, length>>.  A body is its constructor, the number of *)
(* bytes that follow it, and what the parser looks at among them: whether  *)
(* a vector begins with `vector`, the count of a vector, and the length    *)
(* byte of a TL string.  Bytes may be missing or follow.                   *)
(***************************************************************************)
EXTENDS Integers, Sequences, FiniteSets, TLC
LOCAL INSTANCE FiniteSetsExt

CONSTANTS
    Counts,         \* elements a vector may have, bytes a string may have
    MaxVector,      \* GatewayConfig::max_vector_elements
    MaxMissing      \* bound: bytes cut off or added

VARIABLES
    body,           \* [constructor, size, vector, count]
    sent,           \* history: the body as the server wrote it
    parser,         \* "none", "service" or "update": what the host called
    object          \* what it returned

vars == <<body, sent, parser, object>>

Prefix == 4
LongBytes == 8
IntBytes == 4
F(name, length) == [name |-> name, length |-> length]

-----------------------------------------------------------------------------
(* The reads of the arms that read fields of a fixed size and finish.      *)
(* Mutant: the salt's arm is that of the other notification.               *)
ReadsSaltless ==
    "pong" :> <<F("message_id", LongBytes), F("ping_id", LongBytes)>>
 @@ "new_session_created" :>
        <<F("first_message_id", LongBytes), F("unique_id", LongBytes), F("server_salt", LongBytes)>>
 @@ "bad_msg_notification" :>
        <<F("bad_message_id", LongBytes), F("bad_sequence_number", IntBytes), F("error_code", IntBytes)>>
 @@ "bad_server_salt" :>
        <<F("bad_message_id", LongBytes), F("error_code", IntBytes),
          F("bad_sequence_number", IntBytes), F("new_server_salt", LongBytes)>>

Reads ==
    "pong" :> <<F("message_id", LongBytes), F("ping_id", LongBytes)>>
 @@ "new_session_created" :>
        <<F("first_message_id", LongBytes), F("unique_id", LongBytes), F("server_salt", LongBytes)>>
 @@ "bad_msg_notification" :>
        <<F("bad_message_id", LongBytes), F("bad_sequence_number", IntBytes), F("error_code", IntBytes)>>
 @@ "bad_server_salt" :>
        <<F("bad_message_id", LongBytes), F("bad_sequence_number", IntBytes),
          F("error_code", IntBytes), F("new_server_salt", LongBytes)>>

Updates == {"updateNewMessage", "updateNewChannelMessage",
            "updateEditMessage", "updateEditChannelMessage"}

Err(kind) == [ok |-> FALSE, kind |-> kind, fields |-> << >>]
Ok(fields) == [ok |-> TRUE, kind |-> "none", fields |-> fields]

LengthBefore(reads, i) ==
    MapThenSumSet(LAMBDA j : reads[j].length, 1 .. i - 1)
Total(reads) == LengthBefore(reads, Len(reads) + 1)

(* Fields one after the other, from a byte on.                             *)
Placed(reads, from) ==
    [name \in {reads[i].name : i \in DOMAIN reads} |->
        LET i == CHOOSE j \in DOMAIN reads : reads[j].name = name
        IN  <<from + LengthBefore(reads, i), reads[i].length>>]

(* Mutant: what follows the fields is not looked at.                       *)
ExactlyUnfinished(reads) ==
    IF Total(reads) > body.size THEN Err("NeedMore")
    ELSE Ok(Placed(reads, Prefix))

(* Every field is read and the cursor is then at the end.                  *)
Exactly(reads) ==
    IF Total(reads) > body.size THEN Err("NeedMore")
    ELSE IF Total(reads) < body.size THEN Err("InvalidLength")
    ELSE Ok(Placed(reads, Prefix))

-----------------------------------------------------------------------------
(* RPC_RESULT: the boxed result is whatever is left.                       *)
RpcResult ==
    IF body.size < LongBytes + Prefix THEN Err("NeedMore")
    ELSE Ok("request_message_id" :> <<Prefix, LongBytes>>
            @@ "result" :> <<Prefix + LongBytes, body.size - LongBytes>>)

(* MSGS_ACK: read_vector_len, the elements, finish.                        *)
Elements == body.count * LongBytes

MessagesAck ==
    IF body.size < IntBytes THEN Err("NeedMore")
    ELSE IF ~body.vector THEN Err("UnexpectedConstructor")
    ELSE IF body.size < 2 * IntBytes THEN Err("NeedMore")
    ELSE IF body.count > MaxVector THEN Err("LimitExceeded")
    ELSE IF body.size < 2 * IntBytes + Elements THEN Err("NeedMore")
    ELSE IF body.size > 2 * IntBytes + Elements THEN Err("InvalidLength")
    ELSE Ok("msg_ids" :> <<Prefix + 2 * IntBytes, Elements>>)

(* LongVector::get, with the place of what it returns.                     *)
GetLong(place, index) ==
    IF index >= place[2] \div LongBytes THEN <<>>
    ELSE <<place[1] + index * LongBytes, LongBytes>>

(* GZIP_PACKED: a TL string in the short form, and finish.                 *)
Padded(n) == 4 * ((n + 3) \div 4)

GzipPacked ==
    IF body.size < 1 \/ body.size < Padded(1 + body.count) THEN Err("NeedMore")
    ELSE IF body.size > Padded(1 + body.count) THEN Err("InvalidLength")
    ELSE Ok("packed_data" :> <<Prefix + 1, body.count>>)

(* MSG_CONTAINER hands out the iterator of MessageContainer; an object of  *)
(* the API is left as it is.                                               *)
ParseService ==
    CASE body.constructor \in DOMAIN Reads -> Exactly(Reads[body.constructor])
      [] body.constructor = "rpc_result" -> RpcResult
      [] body.constructor = "msgs_ack" -> MessagesAck
      [] body.constructor = "gzip_packed" -> GzipPacked
      [] OTHER -> Ok("body" :> <<Prefix, body.size>>)

(* Mutant: the counters are looked for where the message begins.           *)
ParseMessageUpdateAhead ==
    IF body.constructor \notin Updates THEN Err("UnexpectedConstructor")
    ELSE IF body.size < Prefix + 2 * IntBytes THEN Err("NeedMore")
    ELSE Ok("message" :> <<Prefix + 2 * IntBytes, body.size - 2 * IntBytes>>
            @@ "pts" :> <<Prefix, IntBytes>> @@ "pts_count" :> <<Prefix + IntBytes, IntBytes>>)

(* parse_message_update: the message's end is known from the tail alone.   *)
ParseMessageUpdate ==
    IF body.constructor \notin Updates THEN Err("UnexpectedConstructor")
    ELSE IF body.size < Prefix + 2 * IntBytes THEN Err("NeedMore")
    ELSE LET split == Prefix + body.size - 2 * IntBytes
         IN  Ok("message" :> <<Prefix, split - Prefix>>
                @@ "pts" :> <<split, IntBytes>> @@ "pts_count" :> <<split + IntBytes, IntBytes>>)

-----------------------------------------------------------------------------
(* What the server writes: by the schema.                                  *)
Body(constructor, size, count) ==
    [constructor |-> constructor, size |-> size, vector |-> TRUE, count |-> count]

Written ==
    {Body("pong", 16, 0), Body("new_session_created", 24, 0),
     Body("bad_msg_notification", 16, 0), Body("bad_server_salt", 24, 0)}
    \cup {Body("rpc_result", 8 + Prefix + 4 * n, 0) : n \in Counts}
    \cup {Body("msgs_ack", 8 + 8 * n, n) : n \in Counts}
    \cup {Body("gzip_packed", Padded(1 + n), n) : n \in Counts}
    \cup {Body("of_the_api", 4 * n, 0) : n \in Counts}
    \cup {Body(u, Prefix + 4 * n + 8, 0) : u \in Updates, n \in Counts}

Init ==
    /\ sent \in Written
    /\ body \in {[sent EXCEPT !.size = n, !.vector = v] :
                    n \in {m \in sent.size - MaxMissing .. sent.size + MaxMissing : m >= 0},
                    v \in BOOLEAN}
    /\ parser = "none" /\ object = Err("none")

Parse(by, outcome) ==
    /\ parser = "none"
    /\ parser' = by /\ object' = outcome
    /\ UNCHANGED <<body, sent>>

Next == Parse("service", ParseService) \/ Parse("update", ParseMessageUpdate)

Spec == Init /\ [][Next]_vars

-----------------------------------------------------------------------------
(* The schema: every constructor's fields in the order of its declaration, *)
(* -1 for what the enclosing length alone delimits.                        *)
Declared ==
    "pong" :> <<F("message_id", 8), F("ping_id", 8)>>
 @@ "new_session_created" :>
        <<F("first_message_id", 8), F("unique_id", 8), F("server_salt", 8)>>
 @@ "bad_msg_notification" :>
        <<F("bad_message_id", 8), F("bad_sequence_number", 4), F("error_code", 4)>>
 @@ "bad_server_salt" :>
        <<F("bad_message_id", 8), F("bad_sequence_number", 4), F("error_code", 4),
          F("new_server_salt", 8)>>
 @@ "rpc_result" :> <<F("request_message_id", 8), F("result", -1)>>
 @@ [u \in Updates |-> <<F("message", -1), F("pts", 4), F("pts_count", 4)>>]

Fitted(fields, size) ==
    [i \in DOMAIN fields |->
        IF fields[i].length # -1 THEN fields[i]
        ELSE F(fields[i].name,
               size - MapThenSumSet(LAMBDA j : fields[j].length, DOMAIN fields \ {i}))]

(* A service object or an update as the server wrote it is parsed, unless  *)
(* its vector is over the limit, and each of its fields is where the       *)
(* schema puts it: none is shifted, exchanged or left out.                 *)
ReadsByTheSchema ==
    /\ parser # "none" /\ body = sent
    /\ parser = "update" <=> body.constructor \in Updates
    => \/ object.kind = "LimitExceeded" /\ body.count > MaxVector
       \/ /\ object.ok
          /\ body.constructor \in DOMAIN Declared =>
               object.fields = Placed(Fitted(Declared[body.constructor], body.size), Prefix)
          /\ body.constructor = "msgs_ack" =>
               \A i \in 0 .. MaxVector :
                   GetLong(object.fields["msg_ids"], i)
                     = IF i < body.count THEN <<Prefix + 8 + 8 * i, 8>> ELSE <<>>
          /\ body.constructor = "gzip_packed" =>
               object.fields["packed_data"] = <<Prefix + 1, body.count>>

(* A service object that lost bytes or that bytes follow is refused, save  *)
(* where the body is opaque to the end; and no field of a result, damaged  *)
(* or not, lies outside the body.                                          *)
DamagedObjectRefused ==
    parser # "none" /\ object.ok =>
        /\ \A name \in DOMAIN object.fields :
              LET place == object.fields[name]
              IN  /\ place[1] >= Prefix /\ place[2] >= 0
                  /\ place[1] + place[2] <= Prefix + body.size
        /\ body.size # sent.size =>
              body.constructor \in Updates \cup {"rpc_result", "of_the_api"}
===============================================================================
