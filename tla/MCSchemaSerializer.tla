--------------------------- MODULE MCSchemaSerializer ---------------------------
(***************************************************************************)
(* Constructors of schemas/telegram_api.tl: bare and conditional fields,   *)
(* vectors, peers, objects in objects in objects, two fields on one bit,   *)
(* and a second flags word.                                                *)
(***************************************************************************)
EXTENDS SchemaSerializer, TLC

Word(f) == [ty |-> "#", flags |-> f, bit |-> 0]
If(f, bit, ty) == [ty |-> ty, flags |-> f, bit |-> bit]

Declared ==
    "boolTrue" :> <<>> @@ "boolFalse" :> <<>>
 @@ "inputPeerSelf" :> <<>>
 @@ "inputPeerUser" :> <<Plain("long"), Plain("long")>>
 @@ "inputPeerChannel" :> <<Plain("long"), Plain("long")>>
 @@ "inputPeerChat" :> <<Plain("long")>>
 @@ "inputMessageID" :> <<Plain("int")>>
 @@ "inputUser" :> <<Plain("long"), Plain("long")>>
 @@ "inputChannelEmpty" :> <<>>
 @@ "sendMessageTypingAction" :> <<>>
 @@ "inputReplyToMessage" :>
      <<Word(0), Plain("int"), If(0, 0, "int"), If(0, 1, "InputPeer"), If(0, 2, "string"),
        If(0, 3, "Vector<MessageEntity>"), If(0, 4, "int"), If(0, 5, "InputPeer"),
        If(0, 6, "int"), If(0, 7, "bytes")>>
 @@ "peerColor" :> <<Word(0), If(0, 0, "int"), If(0, 1, "long")>>
 @@ "chatPhotoEmpty" :> <<>>

Methods ==
    "messages.deleteMessages" :> <<Word(0), If(0, 0, "true"), Plain("Vector<int>")>>
 @@ "messages.getMessages" :> <<Plain("Vector<InputMessage>")>>
 @@ "users.getUsers" :> <<Plain("Vector<InputUser>")>>
 @@ "messages.setTyping" :>
      <<Word(0), Plain("InputPeer"), If(0, 0, "int"), Plain("SendMessageAction")>>
 @@ "channels.togglePreHistoryHidden" :> <<Plain("InputChannel"), Plain("Bool")>>
 @@ "messages.sendScreenshotNotification" :>
      <<Plain("InputPeer"), Plain("InputReplyTo"), Plain("long")>>
 @@ "messages.readMessageContents" :> <<Plain("Vector<long>"), Plain("bytes")>>
 @@ "account.updateColor" :> <<Word(0), If(0, 1, "true"), If(0, 2, "PeerColor")>>
 @@ "account.updateProfile" :>
      <<Word(0), If(0, 0, "string"), If(0, 1, "string"), If(0, 2, "string")>>
 @@ "community" :>
      <<Word(0), If(0, 0, "true"), If(0, 2, "true"), If(0, 12, "true"), Word(1),
        If(1, 20, "true"), Plain("long"), If(0, 13, "long"), Plain("string"),
        Plain("ChatPhoto"), Plain("int")>>

(* Two fields on one bit: the upload of files and its size limit.          *)
Takeout ==
    "account.initTakeoutSession" :>
      <<Word(0), If(0, 0, "true"), If(0, 1, "true"), If(0, 2, "true"), If(0, 3, "true"),
        If(0, 4, "true"), If(0, 5, "true"), If(0, 5, "long")>>

MCSchema == Declared @@ Methods @@ Takeout

MCElementOf ==
    "Vector<int>" :> "int" @@ "Vector<long>" :> "long"
 @@ "Vector<InputMessage>" :> "InputMessage" @@ "Vector<InputUser>" :> "InputUser"
 @@ "Vector<MessageEntity>" :> "MessageEntity"

-----------------------------------------------------------------------------
Colors == {Boxed("peerColor", <<>>), Boxed("peerColor", <<I32(3)>>),
           Boxed("peerColor", <<Skip, I64(6)>>), Boxed("peerColor", <<I64(2), I32(1)>>)}

Given(ty) ==
    CASE ty = "true" -> {True, False, Skip}
      [] ty = "int" -> {I32(3), I64(9)}
      [] ty = "long" -> {I64(9), I32(2)}
      [] ty = "string" -> {Str(11)}
      [] ty = "bytes" -> {Bytes(12)}
      [] ty = "Bool" -> {I32(0), I32(1)}
      [] ty = "InputPeer" ->
            {Peer("inputPeerSelf", <<>>), Peer("inputPeerUser", <<5, 6>>),
             Peer("inputPeerChat", <<7>>), Boxed("inputPeerUser", <<I64(5), I32(-3)>>), Skip}
      [] ty = "Vector<int>" -> {Items("Ints", <<>>), Items("Ints", <<4, 5>>)}
      [] ty = "Vector<long>" -> {Items("Longs", <<4>>)}
      [] ty = "Vector<InputMessage>" ->
            {Items("MessageIds", <<>>), Items("MessageIds", <<1, 2>>)}
      [] ty = "Vector<InputUser>" -> {Items("UserIds", <<8>>)}
      [] ty = "InputReplyTo" ->
            {ReplyTo(2), Boxed("inputReplyToMessage", <<Skip>>)}
              \cup {Boxed("inputReplyToMessage", <<I32(2), Skip, p>>) :
                      p \in {Peer("inputPeerChannel", <<5, 6>>),
                             Boxed("inputPeerUser", <<I64(5), I64(6)>>),
                             Boxed("inputPeerUser", <<I64(5)>>)}}
      [] ty = "PeerColor" -> Colors
      [] ty = "InputChannel" -> {Boxed("inputChannelEmpty", <<>>), Boxed("unlinked", <<>>)}
      [] ty = "SendMessageAction" -> {Boxed("sendMessageTypingAction", <<>>)}
      [] ty = "ChatPhoto" -> {Boxed("chatPhotoEmpty", <<>>), EmptyObject("chatPhotoEmpty")}

(* False is Skip by another name, and is tried on one bit of each word.    *)
Values(field) ==
    (IF field.flags = NoFlags THEN Given(field.ty) ELSE Given(field.ty) \cup {Skip})
      \ (IF field.bit = 0 THEN {} ELSE {False})

Lists(fields) ==
    LET upto[j \in 0 .. Len(fields)] ==
            IF j = 0 THEN {<<>>}
            ELSE IF IsFlagsWord(fields[j]) THEN upto[j - 1]
            ELSE {Append(l, v) : l \in upto[j - 1], v \in Values(fields[j])}
    IN  upto[Len(fields)]

(* Every list of values in its fields' types, whole, cut short, and with   *)
(* one value too many.                                                     *)
Offered(id) ==
    LET whole == Lists(MCSchema[id])
    IN  whole \cup {Append(l, I32(1)) : l \in whole}
          \cup (UNION {{SubSeq(l, 1, n) : n \in 0 .. Len(l)} : l \in whole})

WithNested(objects) == objects \cup UNION {NestedIn(o) : o \in objects}

TakeoutLists == [id : DOMAIN Takeout, values : Lists(MCSchema["account.initTakeoutSession"])]

Depth(o) ==
    IF NestedIn(o) = {} THEN 0
    ELSE IF \A inner \in NestedIn(o) : NestedIn(inner) = {} THEN 1 ELSE 2

(* Of the lists that two fields share a bit of, those that agree on it.    *)
MCObjects ==
    LET requests == UNION {[id : {m}, values : Offered(m)] : m \in DOMAIN Methods}
        agreeing == {o \in TakeoutLists : SharedBitsAgree(o)}
    IN  WithNested(WithNested(requests \cup agreeing))

TakeoutObjects == TakeoutLists
===============================================================================
