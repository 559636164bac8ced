---------------------------- MODULE SchemaSerializer ----------------------------
(***************************************************************************)
(* tl/schema.rs: serialize writes any method or object from its field list *)
(* and the caller's values.  A first pass finds the flags words, a second  *)
(* writes.  A value belongs to the field with its number, `#` fields not   *)
(* counted; a missing value counts as Skip.                                *)
(*                                                                         *)
(* The output is a sequence of tokens, one for each value TL encodes, and  *)
(* a flags word is the set of its bits.  The reader in the middle of the   *)
(* module follows TL's rules and nothing of the code.                      *)
(***************************************************************************)
EXTENDS Integers, FiniteSets, SequencesExt

CONSTANTS
    Schema,         \* constructor -> its fields: [ty, flags, bit]
    ElementOf,      \* the schema's vector types -> the type of the elements
    Objects,        \* what a caller may put together: [id, values]
    Nesting(_),     \* how deep other objects are nested in an object
    MaxNesting,
    Requests,       \* the objects it asks serialize for
    Half            \* an i32 is one of -Half .. Half - 1 (2^31)

VARIABLES request, written

serializerVars == <<request, written>>

-----------------------------------------------------------------------------
NoFlags == 255
MaxFlagsWords == 3

Plain(ty) == [ty |-> ty, flags |-> NoFlags, bit |-> 0]

IsFlagsWord(field) == field.ty = "#"
IsConditional(field) == field.ty # "#" /\ field.flags # NoFlags
IsBare(field) == field.flags # NoFlags /\ field.ty \in {"true", "false"}

IsScalar(ty) == ty \in {"int", "long", "double", "string", "bytes", "int128", "int256"}
IsVector(ty) == ty \in DOMAIN ElementOf
IsBoxed(ty) == ~IsScalar(ty) /\ ~IsVector(ty) /\ ty \notin {"#", "true", "false"}

(* The values a caller gives.                                              *)
I32(v) == [kind |-> "I32", v |-> v]
I64(v) == [kind |-> "I64", v |-> v]
Str(v) == [kind |-> "Str", v |-> v]
Bytes(v) == [kind |-> "Bytes", v |-> v]
True == [kind |-> "True"]
False == [kind |-> "False"]
Skip == [kind |-> "Skip"]
Peer(id, numbers) == [kind |-> "Peer", id |-> id, numbers |-> numbers]
Items(kind, items) == [kind |-> kind, items |-> items]
ReplyTo(m) == [kind |-> "ReplyTo", v |-> m]
EmptyObject(id) == [kind |-> "Empty", id |-> id]
Boxed(id, values) == [kind |-> "Boxed", object |-> [id |-> id, values |-> values]]

(* The peers by their constructors, with the count of their numbers.       *)
Peers == {<<"inputPeerSelf", 0>>, <<"inputPeerUser", 2>>,
          <<"inputPeerChannel", 2>>, <<"inputPeerChat", 1>>}

IsListOf(ty, kind) ==
    <<ty, kind>> \in {<<"Vector<int>", "Ints">>, <<"Vector<long>", "Longs">>,
                      <<"Vector<InputMessage>", "MessageIds">>,
                      <<"Vector<InputUser>", "UserIds">>}

-----------------------------------------------------------------------------
Tok(t, v) == [t |-> t, v |-> v]
Written(out) == [ok |-> TRUE, out |-> out]
Refused(out) == [ok |-> FALSE, out |-> out]

(* Writing stops at the first part that fails; what that part and those    *)
(* before it wrote stays in the caller's buffer.                           *)
Joined(id, parts) ==
    LET outs == [k \in DOMAIN parts |-> parts[k].out]
        failed == {k \in DOMAIN parts : ~parts[k].ok}
        first == CHOOSE k \in failed : \A i \in failed : k <= i
    IN  IF failed = {} THEN Written(<<Tok("id", id)>> \o FlattenSeq(outs))
        ELSE Refused(<<Tok("id", id)>> \o FlattenSeq(SubSeq(outs, 1, first)))

NumberOf(fields, j) == Cardinality({i \in 1 .. j : ~IsFlagsWord(fields[i])})

(* Mutant: conditional fields are not expected to have a value.            *)
CountOfRequired(fields) ==
    Cardinality({i \in DOMAIN fields : ~IsFlagsWord(fields[i]) /\ fields[i].flags = NoFlags})

Count(fields) == NumberOf(fields, Len(fields))

Value(fields, values, j) ==
    LET n == NumberOf(fields, j)
    IN  IF n \in DOMAIN values THEN values[n] ELSE Skip

(* Mutant: any value given for a bare `true` sets its bit.                 *)
SetsWhenGiven(fields, values, j) ==
    IsConditional(fields[j]) /\ Value(fields, values, j) # Skip

(* First pass: the field sets its bit.                                     *)
Sets(fields, values, j) ==
    /\ IsConditional(fields[j])
    /\ IF IsBare(fields[j]) THEN Value(fields, values, j) = True
                            ELSE Value(fields, values, j) # Skip

Flags(fields, values, f) ==
    {fields[j].bit : j \in {i \in DOMAIN fields :
                              fields[i].flags = f /\ Sets(fields, values, i)}}

(* `value as i32`.                                                         *)
Narrow(v) == ((v + Half) % (2 * Half)) - Half

ScalarOut(ty, value) ==
    CASE ty = "int" /\ value.kind = "I64" -> Tok("int", Narrow(value.v))
      [] ty = "long" /\ value.kind = "I32" -> Tok("long", value.v)
      [] value.kind = "I32" /\ ty # "long" -> Tok("int", value.v)
      [] value.kind = "I64" /\ ty # "int" -> Tok("long", value.v)
      [] value.kind = "Str" -> Tok("string", value.v)
      [] value.kind = "Bytes" -> Tok("bytes", value.v)

ItemOut(kind, v) ==
    CASE kind = "Ints" -> <<Tok("int", v)>>
      [] kind = "Longs" -> <<Tok("long", v)>>
      [] kind = "MessageIds" -> <<Tok("id", "inputMessageID"), Tok("int", v)>>
      [] kind = "UserIds" -> <<Tok("id", "inputUser"), Tok("long", v), Tok("long", 0)>>

ListOut(value) ==
    <<Tok("id", "vector"), Tok("int", Narrow(Len(value.items)))>>
        \o FlattenSeq([i \in DOMAIN value.items |-> ItemOut(value.kind, value.items[i])])

BoolOut(v) == <<Tok("id", IF v # 0 THEN "boolTrue" ELSE "boolFalse")>>
PeerOut(peer) ==
    <<Tok("id", peer.id)>> \o [i \in DOMAIN peer.numbers |-> Tok("long", peer.numbers[i])]
ReplyOut(m) == <<Tok("id", "inputReplyToMessage"), Tok("flags", {}), Tok("int", m)>>

(* write_value; `boxed` is what serialize writes of an object.             *)
WriteValue(boxed, ty, value) ==
    CASE ty = "Bool" /\ value.kind = "I32" -> Written(BoolOut(value.v))
      [] ty # "Bool" /\ value.kind = "I32" -> Written(<<ScalarOut(ty, value)>>)
      [] value.kind \in {"I64", "Str", "Bytes"} -> Written(<<ScalarOut(ty, value)>>)
      [] ty = "InputPeer" /\ value.kind = "Peer" -> Written(PeerOut(value))
      [] IsListOf(ty, value.kind) -> Written(ListOut(value))
      [] ty = "InputReplyTo" /\ value.kind = "ReplyTo" -> Written(ReplyOut(value.v))
      [] value.kind = "Empty" -> Written(<<Tok("id", value.id)>>)
      [] value.kind = "Boxed" -> boxed[value.object]
      [] OTHER -> Refused(<<>>)

(* Second pass: what one field writes.                                     *)
FieldOut(boxed, fields, values, j) ==
    LET value == Value(fields, values, j)
    IN  IF IsFlagsWord(fields[j])
        THEN Written(<<Tok("flags", Flags(fields, values, fields[j].flags))>>)
        ELSE IF IsBare(fields[j]) \/ (IsConditional(fields[j]) /\ value = Skip)
        THEN Written(<<>>)
        ELSE WriteValue(boxed, fields[j].ty, value)

ObjectOut(boxed, object) ==
    IF object.id \notin DOMAIN Schema THEN Refused(<<>>)
    ELSE LET fields == Schema[object.id]
         IN  IF Len(object.values) > Count(fields) THEN Refused(<<>>)
             ELSE Joined(object.id, [j \in DOMAIN fields |->
                                       FieldOut(boxed, fields, object.values, j)])

Serialize[object \in Objects] == ObjectOut(Serialize, object)

-----------------------------------------------------------------------------
SerializerInit == request \in Requests /\ written = <<>>

SerializeRequest ==
    /\ written = <<>>
    /\ written' = <<Serialize[request]>>
    /\ UNCHANGED request

SerializerSpec == SerializerInit /\ [][SerializeRequest]_serializerVars

-----------------------------------------------------------------------------
(* TL's own rules: an object is its constructor and its fields; a field    *)
(* with a condition is there when the bit is; `true` takes no space; a     *)
(* vector is its constructor, a count and its elements.  `in` is the text, *)
(* `at` a place in it.                                                     *)
Absent == [t |-> "absent"]
Present == [t |-> "true"]
Node(id, fields) == [t |-> "object", id |-> id, fields |-> fields]

Found(value, at) == [ok |-> TRUE, value |-> value, at |-> at]
Unreadable == [ok |-> FALSE, value |-> Absent, at |-> 0]

(* How far the fields were read: the flags words and the values so far.    *)
Reached(at, words, fields) == [ok |-> TRUE, at |-> at, words |-> words, fields |-> fields]
Broken == [ok |-> FALSE, at |-> 0, words |-> <<>>, fields |-> <<>>]

IsThere(r, field) == field.flags = NoFlags \/ field.bit \in r.words[field.flags + 1]

(* One more field; values in it are read by `inner`.                       *)
ReadField(in, inner, r, field) ==
    IF ~r.ok THEN Broken
    ELSE IF IsFlagsWord(field)
    THEN IF r.at <= Len(in) /\ in[r.at].t = "flags"
         THEN Reached(r.at + 1, Append(r.words, in[r.at].v), r.fields) ELSE Broken
    ELSE IF ~IsThere(r, field) THEN Reached(r.at, r.words, Append(r.fields, Absent))
    ELSE IF field.ty = "true" THEN Reached(r.at, r.words, Append(r.fields, Present))
    ELSE LET one == IF r.at <= Len(in) THEN inner[r.at][field.ty] ELSE Unreadable
         IN  IF one.ok THEN Reached(one.at, r.words, Append(r.fields, one.value)) ELSE Broken

ReadFields(in, inner, at, fields) ==
    LET after[j \in 0 .. Len(fields)] ==
            IF j = 0 THEN Reached(at, <<>>, <<>>)
            ELSE LET r == after[j - 1] IN ReadField(in, inner, r, fields[j])
    IN  after[Len(fields)]

Gathered(id, r) == IF r.ok THEN Found(Node(id, r.fields), r.at) ELSE Unreadable

ReadVector(in, inner, at, ty) ==
    IF /\ at < Len(in) /\ in[at].t = "id" /\ in[at].v = "vector"
       /\ in[at + 1].t = "int" /\ in[at + 1].v >= 0
    THEN Gathered("vector", ReadFields(in, inner, at + 2,
                                       [i \in 1 .. in[at + 1].v |-> Plain(ElementOf[ty])]))
    ELSE Unreadable

ReadObject(in, inner, at) ==
    IF in[at].t = "id" /\ in[at].v \in DOMAIN Schema
    THEN Gathered(in[at].v, ReadFields(in, inner, at + 1, Schema[in[at].v]))
    ELSE Unreadable

ReadValue(in, inner, at, ty) ==
    IF IsScalar(ty) THEN IF in[at].t = ty THEN Found(in[at], at + 1) ELSE Unreadable
    ELSE IF IsVector(ty) THEN ReadVector(in, inner, at, ty)
    ELSE ReadObject(in, inner, at)

Types ==
    {"Object"} \cup {ElementOf[ty] : ty \in DOMAIN ElementOf}
      \cup UNION {{Schema[id][j].ty : j \in DOMAIN Schema[id]} : id \in DOMAIN Schema}

(* place -> type -> what is read there, if values are nested less than d    *)
(* deep; every level takes a token, so that the text's length is enough.   *)
Readings(in) ==
    LET read[d \in 0 .. Len(in)] ==
            [at \in 1 .. Len(in) |-> [ty \in Types |->
                IF d = 0 THEN Unreadable ELSE ReadValue(in, read[d - 1], at, ty)]]
    IN  read

ReadWhole(in) == Readings(in)[Len(in)][1]["Object"]

-----------------------------------------------------------------------------
(* What the caller means by its values, in the reader's terms.             *)

(* The i32 with the same low 32 bits.                                      *)
LowBits(v) == CHOOSE n \in -Half .. Half - 1 : (v - n) % (2 * Half) = 0

MeantItem(kind, v) ==
    CASE kind = "Ints" -> Tok("int", v)
      [] kind = "Longs" -> Tok("long", v)
      [] kind = "MessageIds" -> Node("inputMessageID", <<Tok("int", v)>>)
      [] kind = "UserIds" -> Node("inputUser", <<Tok("long", v), Tok("long", 0)>>)

MeantNumber(ty, v) ==
    IF ty = "int" THEN Tok("int", LowBits(v))
    ELSE IF ty = "long" THEN Tok("long", v)
    ELSE Node(IF v # 0 THEN "boolTrue" ELSE "boolFalse", <<>>)

Meaning(meant, ty, value) ==
    CASE value.kind = "True" -> Present
      [] value.kind \in {"False", "Skip"} -> Absent
      [] value.kind \in {"I32", "I64"} -> MeantNumber(ty, value.v)
      [] value.kind = "Str" -> Tok("string", value.v)
      [] value.kind = "Bytes" -> Tok("bytes", value.v)
      [] value.kind = "Peer" ->
            Node(value.id, [i \in DOMAIN value.numbers |-> Tok("long", value.numbers[i])])
      [] value.kind \in {"Ints", "Longs", "MessageIds", "UserIds"} ->
            Node("vector", [i \in DOMAIN value.items |->
                              MeantItem(value.kind, value.items[i])])
      [] value.kind = "ReplyTo" ->
            Node("inputReplyToMessage",
                 [n \in 1 .. Len(Schema["inputReplyToMessage"]) - 1 |->
                    IF n = 1 THEN Tok("int", value.v) ELSE Absent])
      [] value.kind = "Empty" -> Node(value.id, <<>>)
      [] value.kind = "Boxed" -> meant[value.object]

(* The n-th field that takes a value.                                      *)
FieldNumbered(fields, n) ==
    CHOOSE j \in DOMAIN fields :
        /\ ~IsFlagsWord(fields[j])
        /\ Cardinality({i \in 1 .. j : ~IsFlagsWord(fields[i])}) = n

MeaningOf(meant, object) ==
    LET fields == Schema[object.id]
    IN  Node(object.id,
             [n \in 1 .. NumberOf(fields, Len(fields)) |->
                IF n \in DOMAIN object.values
                THEN Meaning(meant, fields[FieldNumbered(fields, n)].ty, object.values[n])
                ELSE Absent])

Meant[object \in Objects] == MeaningOf(Meant, object)

-----------------------------------------------------------------------------
(* The values that fit a type, each within its own range.                  *)
FitsType(ty, value) ==
    \/ value.kind = "I32" /\ ty \in {"int", "long", "Bool"} /\ value.v \in -Half .. Half - 1
    \/ value.kind = "I64" /\ ty \in {"int", "long"} /\ value.v \in Int
    \/ value.kind = "Str" /\ ty = "string"
    \/ value.kind = "Bytes" /\ ty = "bytes"
    \/ /\ value.kind = "Peer" /\ ty = "InputPeer" /\ value.numbers \in Seq(Int)
       /\ <<value.id, Len(value.numbers)>> \in Peers
    \/ IsListOf(ty, value.kind) /\ value.items \in Seq(Int) /\ Len(value.items) < Half
    \/ value.kind = "ReplyTo" /\ ty = "InputReplyTo"
    \/ value.kind = "Empty" /\ IsBoxed(ty) /\ value.id \in DOMAIN Schema
         /\ Schema[value.id] = <<>>
    \/ value.kind = "Boxed" /\ IsBoxed(ty)

FitsField(field, value) ==
    \/ value = Skip
    \/ IF field.ty = "true" THEN value \in {True, False} ELSE FitsType(field.ty, value)

NestedIn(object) ==
    {object.values[n].object :
       n \in {i \in DOMAIN object.values : object.values[i].kind = "Boxed"}}

WordsBefore(fields, j) == Cardinality({i \in 1 .. j - 1 : IsFlagsWord(fields[i])})

(* Of any schema: flags words are numbered as they come, and come before   *)
(* the fields that depend on them; `true` stands for a bit; no constructor *)
(* has more flags words than `serialize` has room for (a fourth panics).   *)
ASSUME SchemaAssumption ==
    /\ \A id \in DOMAIN Schema :
          LET fields == Schema[id]
          IN  /\ fields \in Seq([ty : STRING, flags : Nat, bit : Nat])
              /\ \A j \in DOMAIN fields :
                    /\ IsFlagsWord(fields[j]) => /\ fields[j].flags = WordsBefore(fields, j)
                                                 /\ fields[j].flags < MaxFlagsWords
                    /\ IsConditional(fields[j]) => fields[j].flags < WordsBefore(fields, j)
                    /\ fields[j].ty = "true" => IsConditional(fields[j])
                    /\ fields[j].ty # "false"
    /\ \A ty \in DOMAIN ElementOf : ~IsScalar(ty)

(* Of the vendored schema: the objects that schema.rs writes by itself are *)
(* declared as it writes them.                                             *)
ASSUME KnownObjectsAssumption ==
    LET DeclaredAs(id, fields) == id \in DOMAIN Schema /\ Schema[id] = fields
        IsDeclaredList(ty, element) == IsVector(ty) /\ ElementOf[ty] = element
        reply == Schema["inputReplyToMessage"]
    IN  /\ DeclaredAs("boolTrue", <<>>) /\ DeclaredAs("boolFalse", <<>>)
        /\ \A p \in Peers : DeclaredAs(p[1], [i \in 1 .. p[2] |-> Plain("long")])
        /\ DeclaredAs("inputMessageID", <<Plain("int")>>)
        /\ DeclaredAs("inputUser", <<Plain("long"), Plain("long")>>)
        /\ "inputReplyToMessage" \in DOMAIN Schema /\ Len(reply) > 1
        /\ IsFlagsWord(reply[1]) /\ reply[2] = Plain("int")
        /\ \A j \in 3 .. Len(reply) : IsConditional(reply[j]) /\ reply[j].flags = 0
        /\ IsDeclaredList("Vector<int>", "int") /\ IsDeclaredList("Vector<long>", "long")
        /\ IsDeclaredList("Vector<InputMessage>", "InputMessage")
        /\ IsDeclaredList("Vector<InputUser>", "InputUser")
        /\ \A ty \in {"InputMessage", "InputUser", "InputPeer", "InputReplyTo", "Bool", "Object"} :
              ~IsVector(ty)

(* Of the caller: values fit their fields, and objects nest to some depth, *)
(* being made of borrowed values.                                          *)
ASSUME ObjectsAssumption ==
    /\ Half \in Nat \ {0} /\ Requests \subseteq Objects /\ MaxNesting \in Nat
    /\ UNION {NestedIn(object) : object \in Objects} \subseteq Objects
    /\ \A object \in Objects :
          /\ Nesting(object) \in 0 .. MaxNesting
          /\ \A inner \in NestedIn(object) : Nesting(inner) < Nesting(object)
          /\ object.values \in Seq({object.values[n] : n \in DOMAIN object.values})
          /\ object.id \in DOMAIN Schema =>
                LET fields == Schema[object.id]
                IN  \A n \in DOMAIN object.values :
                      n <= NumberOf(fields, Len(fields)) =>
                        FitsField(fields[FieldNumbered(fields, n)], object.values[n])

-----------------------------------------------------------------------------
(* Whoever reads the request by TL's rules finds the method and the values *)
(* the caller meant, each under its own field, and nothing behind them.    *)
(* Of a 64-bit value for an `int` field he finds the low 32 bits.          *)
ReadsBack ==
    written # <<>> /\ written[1].ok =>
        ReadWhole(written[1].out) = Found(Meant[request], Len(written[1].out) + 1)

(* What serialize writes is a valid body: by TL's rules an object can be   *)
(* read from it, to its end.                                               *)
BodyIsValid ==
    written # <<>> /\ written[1].ok =>
        /\ ReadWhole(written[1].out).ok
        /\ ReadWhole(written[1].out).at = Len(written[1].out) + 1

(* Two fields with one bit are both given or both left out.                *)
SharedBitsAgree(object) ==
    object.id \in DOMAIN Schema =>
        LET fields == Schema[object.id]
        IN  \A i, j \in DOMAIN fields :
              /\ IsConditional(fields[i]) /\ IsConditional(fields[j])
              /\ fields[i].flags = fields[j].flags /\ fields[i].bit = fields[j].bit
              => (Sets(fields, object.values, i) <=> Sets(fields, object.values, j))

(* A value for every field that is always there.                           *)
Complete(object) ==
    LET fields == Schema[object.id]
    IN  \A j \in DOMAIN fields :
          ~IsFlagsWord(fields[j]) /\ fields[j].flags = NoFlags =>
            LET n == NumberOf(fields, j)
            IN  n \in DOMAIN object.values /\ object.values[n] # Skip

(* Values that fit their fields, in full or with optional ones left off at *)
(* the end, are always written, if the objects among them are; one too     *)
(* many never is, nor an object of a namespace that is not linked.         *)
GivenIsWritten ==
    written # <<>> =>
        (written[1].ok <=>
            /\ request.id \in DOMAIN Schema
            /\ Complete(request)
            /\ Len(request.values)
                 <= NumberOf(Schema[request.id], Len(Schema[request.id]))
            /\ \A n \in DOMAIN request.values :
                  request.values[n].kind = "Boxed" => Serialize[request.values[n].object].ok)
===============================================================================
