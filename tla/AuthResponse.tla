----------------------------- MODULE AuthResponse -----------------------------
(***************************************************************************)
(* parse_auth_response of api.rs against the layouts of the vendored TL    *)
(* schema, schemas/telegram_api.tl.  The server answers a login request    *)
(* with one of the objects the schema allows; the answer may be cut short  *)
(* or continued; the client parses it in one call.                         *)
(*                                                                         *)
(* A field's value is its own name, so that a parser that takes one field  *)
(* for another is seen to do so.  A wire is a sequence of typed items.  A  *)
(* User or a TermsOfService is its constructor and the rest of it: the     *)
(* parser takes what is left from its first four bytes on, and looks at no *)
(* more of it.                                                             *)
(***************************************************************************)
EXTENDS Naturals, Sequences, TLC

CONSTANT Responses      \* the well-formed answers the server may give

Always == 99
Field(name, type) == [name |-> name, type |-> type, bit |-> Always]
When(bit, name, type) == [name |-> name, type |-> type, bit |-> bit]
Item(type, value) == [type |-> type, value |-> value]
FlagsItem(bits) == [type |-> "flags", value |-> "flags", bits |-> bits]
Flags == Field("flags", "flags")

CodeTypes == {"codeTypeSms", "codeTypeCall", "codeTypeFlashCall",
              "codeTypeMissedCall", "codeTypeFragmentSms"}
Deliveries == {"typeApp", "typeSms", "typeCall", "typeFlashCall",
               "typeMissedCall", "typeEmailCode", "typeSetUpEmailRequired",
               "typeFragmentSms", "typeFirebaseSms", "typeSmsWord",
               "typeSmsPhrase"}
Authorizations == {"authorization", "authorizationSignUpRequired"}
Answers == {"sentCode", "sentCodeSuccess", "sentCodePaymentRequired", "rpc_error"}
           \cup Authorizations

-----------------------------------------------------------------------------
(* The schema: the fields of every constructor in declaration order (void  *)
(* `true` fields occupy nothing).                                          *)
Lengthy == <<Field("length", "int")>>
Beginning == <<Flags, When(0, "beginning", "string")>>

Schema ==
    "sentCode" :> <<Flags, Field("type", "delivery"),
                    Field("phone_code_hash", "string"),
                    When(1, "next_type", "code_type"), When(2, "timeout", "int")>>
 @@ "sentCodeSuccess" :> <<Field("authorization", "authorization")>>
 @@ "sentCodePaymentRequired" :>
        <<Field("store_product", "string"), Field("phone_code_hash", "string"),
          Field("support_email_address", "string"),
          Field("support_email_subject", "string"),
          Field("premium_days", "int"), Field("currency", "string"),
          Field("amount", "long")>>
 @@ "rpc_error" :> <<Field("code", "int"), Field("message", "string")>>
 @@ "authorization" :>
        <<Flags, When(1, "otherwise_relogin_days", "int"),
          When(0, "tmp_sessions", "int"), When(2, "future_auth_token", "bytes"),
          Field("user", "tail")>>
 @@ "authorizationSignUpRequired" :> <<Flags, When(0, "terms_of_service", "tail")>>
 @@ "typeApp" :> Lengthy @@ "typeSms" :> Lengthy @@ "typeCall" :> Lengthy
 @@ "typeFlashCall" :> <<Field("pattern", "string")>>
 @@ "typeMissedCall" :> <<Field("prefix", "string")>> \o Lengthy
 @@ "typeEmailCode" :>
        <<Flags, Field("email_pattern", "string"), Field("length", "int"),
          When(3, "reset_available_period", "int"),
          When(4, "reset_pending_date", "int")>>
 @@ "typeSetUpEmailRequired" :> <<Flags>>
 @@ "typeFragmentSms" :> <<Field("url", "string")>> \o Lengthy
 @@ "typeFirebaseSms" :>
        <<Flags, When(0, "nonce", "bytes"), When(2, "play_integrity_project_id", "long"),
          When(2, "play_integrity_nonce", "bytes"), When(1, "receipt", "string"),
          When(1, "push_timeout", "int")>> \o Lengthy
 @@ "typeSmsWord" :> Beginning @@ "typeSmsPhrase" :> Beginning

(* The parser: the reads of each match arm, in the order they are made.    *)
SentCodeReads ==
    <<Flags, Field("type", "delivery"), Field("phone_code_hash", "string"),
      When(1, "next_type", "code_type"), When(2, "timeout", "int")>>

AuthorizationReads ==
    "authorization" :>
        <<Flags, When(0, "tmp_sessions", "int"),
          When(1, "otherwise_relogin_days", "int"),
          When(2, "future_auth_token", "bytes"), Field("user", "tail")>>
 @@ "authorizationSignUpRequired" :> <<Flags, When(0, "terms_of_service", "tail")>>

(* Mutant: the Firebase arm reads its optional fields by bit number.       *)
DeliveryReadsByBit ==
    "typeFirebaseSms" :>
        <<Flags, When(0, "nonce", "bytes"), When(1, "receipt", "string"),
          When(1, "push_timeout", "int"), When(2, "play_integrity_project_id", "long"),
          When(2, "play_integrity_nonce", "bytes"), Field("length", "int")>>
 @@ [d \in Deliveries \ {"typeFirebaseSms"} |-> Schema[d]]

DeliveryReads ==
    "typeApp" :> Lengthy @@ "typeSms" :> Lengthy @@ "typeCall" :> Lengthy
 @@ "typeFlashCall" :> <<Field("pattern", "string")>>
 @@ "typeMissedCall" :> <<Field("prefix", "string"), Field("length", "int")>>
 @@ "typeEmailCode" :>
        <<Flags, Field("email_pattern", "string"), Field("length", "int"),
          When(3, "reset_available_period", "int"),
          When(4, "reset_pending_date", "int")>>
 @@ "typeSetUpEmailRequired" :> <<Flags>>
 @@ "typeFragmentSms" :> <<Field("url", "string"), Field("length", "int")>>
 @@ "typeFirebaseSms" :>
        <<Flags, When(0, "nonce", "bytes"), When(2, "play_integrity_project_id", "long"),
          When(2, "play_integrity_nonce", "bytes"), When(1, "receipt", "string"),
          When(1, "push_timeout", "int"), Field("length", "int")>>
 @@ "typeSmsWord" :> Beginning @@ "typeSmsPhrase" :> Beginning

PaymentReads ==
    <<Field("store_product", "string"), Field("phone_code_hash", "string"),
      Field("support_email_address", "string"),
      Field("support_email_subject", "string"),
      Field("premium_days", "int"), Field("currency", "string"),
      Field("amount", "long")>>

Reads ==
    "sentCode" :> SentCodeReads
 @@ "sentCodeSuccess" :> <<Field("authorization", "authorization")>>
 @@ "sentCodePaymentRequired" :> PaymentReads
 @@ "rpc_error" :> <<Field("code", "int"), Field("message", "string")>>
 @@ AuthorizationReads @@ DeliveryReads

(* What a nested field may be.                                             *)
Nested(type) ==
    CASE type = "delivery" -> Deliveries
      [] type = "authorization" -> Authorizations
      [] type = "code_type" -> CodeTypes
      [] OTHER -> {}

-----------------------------------------------------------------------------
(* The server's side.  choice maps every field with alternatives to one of *)
(* them, and every constructor to the flag bits it sets.                   *)
Bits(constructor) == {f.bit : f \in {g \in {Schema[constructor][i] :
                          i \in DOMAIN Schema[constructor]} : g.bit # Always}}

RECURSIVE Written(_, _, _)
Written(fields, bits, inner) ==
    IF fields = <<>> THEN <<>>
    ELSE LET f == Head(fields)
             here == CASE f.bit \notin bits \cup {Always} -> <<>>
                       [] f.type = "flags" -> <<FlagsItem(bits)>>
                       [] Nested(f.type) # {} -> inner
                       [] f.type = "tail" ->
                             <<Item("constructor", f.name), Item("body", f.name)>>
                       [] OTHER -> <<Item(f.type, f.name)>>
         IN  here \o Written(Tail(fields), bits, inner)

Object(constructor, bits, inner) ==
    <<Item("constructor", constructor)>> \o Written(Schema[constructor], bits, inner)

(* The items of the nested object.  next_type is the only field of a       *)
(* constructor that has another nested one, and is chosen separately.      *)
InnerObjects(type) ==
    UNION {{Object(c, bits, <<>>) : bits \in SUBSET Bits(c)} : c \in Nested(type)}

SentCodes ==
    {<<Item("constructor", "sentCode"), FlagsItem(bits)>> \o delivery
       \o <<Item("string", "phone_code_hash")>>
       \o (IF 1 \in bits THEN <<Item("constructor", next)>> ELSE <<>>)
       \o (IF 2 \in bits THEN <<Item("int", "timeout")>> ELSE <<>>) :
        bits \in SUBSET {1, 2}, delivery \in InnerObjects("delivery"),
        next \in CodeTypes}

Wires ==
    SentCodes
    \cup {Object("sentCodeSuccess", {}, a) : a \in InnerObjects("authorization")}
    \cup {Object(c, {}, <<>>) : c \in {"sentCodePaymentRequired", "rpc_error"}}
    \cup InnerObjects("authorization")

-----------------------------------------------------------------------------
(* The parser.  A result is an error or the fields that were read and the  *)
(* items that are left.                                                    *)
Wrong == [ok |-> FALSE, fields |-> << >>, rest |-> <<>>]

RECURSIVE Parsed(_, _, _, _)
Parsed(fields, bits, wire, got) ==
    IF fields = <<>> THEN [ok |-> TRUE, fields |-> got, rest |-> wire]
    ELSE LET f == Head(fields)
             more == Tail(fields)
         IN  IF f.bit \notin bits \cup {Always} THEN Parsed(more, bits, wire, got)
             ELSE IF wire = <<>> THEN Wrong
             ELSE LET item == Head(wire)
                      read == f.name :> item.value @@ got
                  IN  CASE f.type = "flags" /\ item.type = "flags" ->
                             Parsed(more, item.bits, Tail(wire), got)
                        [] f.type = "tail" -> Parsed(more, bits, <<>>, read)
                        [] item.type = "constructor" /\ f.type = "code_type"
                           /\ item.value \in CodeTypes ->
                             Parsed(more, bits, Tail(wire), read)
                        [] item.type = "constructor"
                           /\ f.type \in {"delivery", "authorization"}
                           /\ item.value \in Nested(f.type) ->
                             LET inner == Parsed(Reads[item.value], {}, Tail(wire), read)
                             IN  IF inner.ok
                                 THEN Parsed(more, bits, inner.rest, inner.fields)
                                 ELSE Wrong
                        [] f.type = item.type
                           /\ f.type \in {"int", "long", "string", "bytes"} ->
                             Parsed(more, bits, Tail(wire), read)
                        [] OTHER -> Wrong

(* Mutant: what is left of the input is not looked at.                     *)
ParseUnfinished(wire) ==
    IF wire = <<>> \/ Head(wire).type # "constructor" THEN Wrong
    ELSE IF Head(wire).value \notin Answers THEN Wrong
    ELSE Parsed(Reads[Head(wire).value], {}, Tail(wire),
                "response" :> Head(wire).value)

(* parse_auth_response: dispatch on the constructor, then Cursor::finish.  *)
ParseAuthResponse(wire) ==
    IF wire = <<>> \/ Head(wire).type # "constructor" THEN Wrong
    ELSE IF Head(wire).value \notin Answers THEN Wrong
    ELSE LET p == Parsed(Reads[Head(wire).value], {}, Tail(wire),
                         "response" :> Head(wire).value)
         IN  IF p.ok /\ p.rest = <<>> THEN p ELSE Wrong

-----------------------------------------------------------------------------
VARIABLES
    sent,           \* the answer the server wrote
    received,       \* what the client was given of it
    result          \* what parse_auth_response returned, or None

vars == <<sent, received, result>>

None == [ok |-> FALSE, fields |-> << >>, rest |-> <<"unparsed">>]

Init == sent = <<>> /\ received = <<>> /\ result = None

Answer ==
    /\ sent = <<>>
    /\ sent' \in Responses
    /\ received' = sent'
    /\ UNCHANGED result

(* The decrypted body is shorter or longer than the object.                *)
Damage ==
    /\ sent # <<>> /\ received = sent /\ result = None
    /\ \/ \E n \in 0 .. Len(sent) - 1 : received' = SubSeq(sent, 1, n)
       \/ \E type \in {"int", "string", "constructor"} :
             received' = Append(sent, Item(type, "trailing"))
    /\ UNCHANGED <<sent, result>>

Parse ==
    /\ sent # <<>> /\ result = None
    /\ result' = ParseAuthResponse(received)
    /\ UNCHANGED <<sent, received>>

Next == Answer \/ Damage \/ Parse

Spec == Init /\ [][Next]_vars

-----------------------------------------------------------------------------
(* A field's value in the result is the item the server wrote for it: what *)
(* is on the wire and no flag word is in the result, under its own name.   *)
Constructors == Answers \cup Deliveries \cup CodeTypes \cup Authorizations

ParsesWhatWasSent ==
    result # None /\ received = sent =>
        /\ result.ok
        /\ \A name \in DOMAIN result.fields :
              result.fields[name] = name \/ result.fields[name] \in Constructors
        /\ {result.fields[name] : name \in DOMAIN result.fields}
              = {sent[i].value : i \in {j \in DOMAIN sent : sent[j].type # "flags"}}

(* An answer that was cut short or that something follows is refused, and  *)
(* never read as another answer.  Not so from the first four bytes of an   *)
(* opaque last field on: RawObject::from_exact takes the user, or the      *)
(* terms of service, with whatever is left of it or follows it, and the    *)
(* other fields are read as they were sent.                                *)
ReachesOpaque ==
    \E i \in DOMAIN sent \cap DOMAIN received :
        sent[i].type = "constructor" /\ sent[i].value \in {"user", "terms_of_service"}

DamagedIsRefused ==
    result.ok => \/ received = sent
                 \/ ReachesOpaque /\ result = ParseAuthResponse(sent)
===============================================================================
