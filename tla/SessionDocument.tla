---------------------------- MODULE SessionDocument ----------------------------
(***************************************************************************)
(* session.rs: seal and open of a session document, the text that          *)
(* SessionFile keeps on disk.  seal encodes a record, encrypts it in       *)
(* counter mode and authenticates the ciphertext; open undoes this in the  *)
(* caller's scratch buffer.  What open is given may have been put together *)
(* from several documents, cut, filled with holes or edited.               *)
(*                                                                         *)
(* A field of the record stands for a block.  HMAC is symbolic.  The text  *)
(* of a value is <<form, value>>: hexadecimal in lower or upper case, or   *)
(* something that is none.                                                 *)
(***************************************************************************)
EXTENDS Integers, FiniteSets

CONSTANTS
    Block, Zero,
    Xor(_, _),
    Encrypt(_, _),      \* Aes256::encrypt_block of a counter block
    SessionKeys,        \* whole keys, and those derived from a passphrase
    Secrets,            \* what hosts keep: keys and passphrases
    KeyFor(_, _),       \* the key of a secret and a salt
    Salts,
    Magic, Version,     \* RECORD_MAGIC, RECORD_VERSION
    Versions,           \* of the programs that write documents
    Records,            \* what is saved
    MaxSeals,           \* bound: documents sealed
    MaxCalls            \* bound: calls of seal and open

(* SessionRecordRef                                                        *)
SessionRecord ==
    [dc_id : Block, auth_key_id : Block, server_salt : Block, session_id : Block,
     sequence_number : Block, pts : Block, qts : Block, date : Block, seq : Block,
     unread_count : Block, auth_key : Block]

RecordLength == 13

VARIABLES
    scratch,        \* the caller's buffer, its first SESSION_RECORD_BYTES
    call,           \* what ran last: [op, secret, document, room]
    result,         \* "none", "ok" or an error's kind
    record,         \* what open returned
    sealed,         \* history: [secret, salt, version, record] of each seal
    calls

vars == <<scratch, call, result, record, sealed, calls>>

Nothing == [dc_id |-> "none"]

(* XOR undoes itself.                                                      *)
ASSUME DocumentAssumption ==
    /\ \A a, b \in Block : Xor(a, b) \in Block /\ Xor(Xor(a, b), b) = a
    /\ \A secret \in Secrets, salt \in Salts : KeyFor(secret, salt) \in SessionKeys
    /\ Magic \in Block /\ Version \in Versions /\ Versions \subseteq Block
    /\ Records \subseteq SessionRecord

-----------------------------------------------------------------------------
(* encode_record                                                           *)
EncodeRecord(version, r) ==
    <<Magic, version, r.dc_id, r.auth_key_id, r.server_salt, r.session_id,
      r.sequence_number, r.pts, r.qts, r.date, r.seq, r.unread_count, r.auth_key>>

Readable(plain) == plain[1] = Magic /\ plain[2] = Version

(* Mutant: two counters are read in the order of the older state.          *)
ParseRecordSwapped(plain) ==
    [dc_id |-> plain[3], auth_key_id |-> plain[4], server_salt |-> plain[5],
     session_id |-> plain[6], sequence_number |-> plain[7], pts |-> plain[9],
     qts |-> plain[8], date |-> plain[10], seq |-> plain[11],
     unread_count |-> plain[12], auth_key |-> plain[13]]

(* parse_record, of a readable one                                         *)
ParseRecord(plain) ==
    [dc_id |-> plain[3], auth_key_id |-> plain[4], server_salt |-> plain[5],
     session_id |-> plain[6], sequence_number |-> plain[7], pts |-> plain[8],
     qts |-> plain[9], date |-> plain[10], seq |-> plain[11],
     unread_count |-> plain[12], auth_key |-> plain[13]]

Hmac(key, text) == <<"hmac", key, text>>

(* DocumentMaterial::derive                                                *)
StreamKey(key, salt) == Hmac(key, <<"TRLib-session-stream-v1", salt>>)
MacKey(key, salt) == Hmac(key, <<"TRLib-session-mac-v1", salt>>)

(* The cipher makes blocks of blocks.                                      *)
ASSUME StreamAssumption ==
    \A key \in SessionKeys, salt \in Salts, i \in 1 .. RecordLength :
        Encrypt(StreamKey(key, salt), <<salt, i - 1>>) \in Block

(* aes_ctr: the block's number takes the place of the salt's last bytes.   *)
Ctr(key, salt, data) ==
    [i \in 1 .. RecordLength |-> Xor(data[i], Encrypt(StreamKey(key, salt), <<salt, i - 1>>))]

(* Mutant: the ciphertext is left out.                                     *)
TagOfSalt(key, salt, cipher) == Hmac(MacKey(key, salt), <<"TRLib-session-v1", salt>>)

Tag(key, salt, cipher) == Hmac(MacKey(key, salt), <<"TRLib-session-v1", salt, cipher>>)

-----------------------------------------------------------------------------
(* write_hex and decode_hex                                                *)
Hex(value) == <<"lower", value>>
IsHex(text) == text[1] \in {"lower", "upper"}
Decoded(texts) == [i \in 1 .. RecordLength |-> texts[i][2]]

Cipher(s) == Ctr(KeyFor(s.secret, s.salt), s.salt, EncodeRecord(s.version, s.record))
TagOf(s) == Tag(KeyFor(s.secret, s.salt), s.salt, Cipher(s))

(* The text seal writes.  `whole`: its length is SESSION_DOCUMENT_BYTES;   *)
(* `framed`: header, prefixes and suffix are in their places.              *)
Document(s) ==
    [whole |-> TRUE, framed |-> TRUE, salt |-> Hex(s.salt),
     data |-> [i \in 1 .. RecordLength |-> Hex(Cipher(s)[i])], tag |-> Hex(TagOf(s))]

Empty == [whole |-> FALSE, framed |-> FALSE, salt |-> <<"other", Zero>>,
          data |-> [i \in 1 .. RecordLength |-> <<"other", Zero>>], tag |-> <<"other", Zero>>]

Init ==
    /\ scratch = [i \in 1 .. RecordLength |-> Zero]
    /\ call = [op |-> "none", secret |-> CHOOSE k \in Secrets : TRUE, document |-> Empty,
               room |-> TRUE]
    /\ result = "none" /\ record = Nothing /\ sealed = {} /\ calls = 0

Called(op, secret, document, room) ==
    /\ calls' = calls + 1
    /\ call' = [op |-> op, secret |-> secret, document |-> document, room |-> room]

(* seal.  A document that did not fit into the output is cut, and may be   *)
(* completed all the same: the history has it.                             *)
Seal(secret, salt, version, r, fits) ==
    LET s == [secret |-> secret, salt |-> salt, version |-> version, record |-> r]
    IN  /\ Cardinality(sealed) < MaxSeals
        /\ scratch' = Cipher(s)
        /\ sealed' = sealed \cup {s}
        /\ Called("seal", secret, Document(s), TRUE)
        /\ result' = IF fits THEN "ok" ELSE "OutputTooSmall"
        /\ record' = Nothing

SealWithoutRoom(secret) ==
    /\ Called("seal", secret, Empty, FALSE)
    /\ result' = "OutputTooSmall" /\ record' = Nothing
    /\ UNCHANGED <<scratch, sealed>>

-----------------------------------------------------------------------------
Opening(secret, document, room) ==
    /\ Called("open", secret, document, room)
    /\ UNCHANGED sealed

Fails(kind) == result' = kind /\ record' = Nothing

Unframed(document) == ~document.framed \/ ~IsHex(document.salt)
AllHex(document) == (\A i \in 1 .. RecordLength : IsHex(document.data[i])) /\ IsHex(document.tag)

(* Before data is decoded: scratch keeps what it had.                      *)
OpenRefused(secret, document, room) ==
    /\ Opening(secret, document, room)
    /\ \/ ~document.whole /\ Fails("InvalidLength")
       \/ document.whole /\ ~room /\ Fails("OutputTooSmall")
       \/ document.whole /\ room /\ Unframed(document) /\ Fails("InvalidPacket")
    /\ UNCHANGED scratch

Framed(document, room) == document.whole /\ room /\ ~Unframed(document)

(* Blocks before the first that is not hexadecimal are in scratch.         *)
OpenUnreadable(secret, document, room) ==
    /\ Framed(document, room) /\ ~AllHex(document)
    /\ Opening(secret, document, room)
    /\ scratch' = [i \in 1 .. RecordLength |->
                      IF \A j \in 1 .. i : IsHex(document.data[j])
                      THEN document.data[i][2] ELSE scratch[i]]
    /\ Fails("InvalidPacket")

Authentic(secret, document) ==
    LET salt == document.salt[2]
    IN  Tag(KeyFor(secret, salt), salt, Decoded(document.data)) = document.tag[2]

Decrypted(secret, document) ==
    Ctr(KeyFor(secret, document.salt[2]), document.salt[2], Decoded(document.data))

OpenForged(secret, document, room) ==
    /\ Framed(document, room) /\ AllHex(document) /\ ~Authentic(secret, document)
    /\ Opening(secret, document, room)
    /\ scratch' = [i \in 1 .. RecordLength |-> Zero]
    /\ Fails("Authentication")

(* Mutant: the tag is compared after the record was parsed, and not at all *)
(* when that fails.                                                        *)
OpenWithoutTag(secret, document, room) ==
    /\ Framed(document, room) /\ AllHex(document)
    /\ Opening(secret, document, room)
    /\ scratch' = Decrypted(secret, document)
    /\ IF Readable(scratch')
       THEN result' = "ok" /\ record' = ParseRecord(scratch')
       ELSE Fails("InvalidPacket")

(* Authenticated; another program's version is refused after decryption.   *)
OpenAuthentic(secret, document, room) ==
    /\ Framed(document, room) /\ AllHex(document) /\ Authentic(secret, document)
    /\ Opening(secret, document, room)
    /\ scratch' = Decrypted(secret, document)
    /\ IF Readable(scratch')
       THEN result' = "ok" /\ record' = ParseRecord(scratch')
       ELSE Fails("InvalidPacket")

Open(secret, document, room) ==
    \/ OpenRefused(secret, document, room)
    \/ OpenUnreadable(secret, document, room)
    \/ OpenForged(secret, document, room)
    \/ OpenAuthentic(secret, document, room)

-----------------------------------------------------------------------------
(* The beginning of one document's data with the end of another's.         *)
Spliced(a, b, at) == [i \in 1 .. RecordLength |-> IF i <= at THEN a.data[i] ELSE b.data[i]]

Misshapen(a, whole) == [a EXCEPT !.whole = whole, !.framed = FALSE]

Edited(text) == {text, <<"upper", text[2]>>, <<"other", text[2]>>}

(* Salt, data and tag of documents that were sealed, in any combination;   *)
(* one text of it edited; and a text cut, or continued, or without frame.  *)
Arrivals ==
    LET documents == {Document(s) : s \in sealed}
        whole == [whole : {TRUE}, framed : {TRUE},
                  salt : {a.salt : a \in documents},
                  data : {Spliced(a, b, at) : a \in documents, b \in documents,
                                              at \in 1 .. RecordLength},
                  tag : {a.tag : a \in documents}]
    IN  whole
        \cup {[a EXCEPT !.salt = t] : a \in documents, t \in UNION {Edited(b.salt) : b \in documents}}
        \cup (UNION {{[a EXCEPT !.tag = t] : t \in Edited(a.tag)} : a \in documents})
        \cup (UNION {{[a EXCEPT !.data[i] = t] : t \in Edited(a.data[i])} :
                        a \in documents, i \in 1 .. RecordLength})
        \cup {Misshapen(a, w) : a \in documents, w \in BOOLEAN}

Next ==
    /\ calls < MaxCalls
    /\ \/ \E secret \in Secrets, salt \in Salts, version \in Versions, r \in Records,
             fits \in BOOLEAN : Seal(secret, salt, version, r, fits)
       \/ \E secret \in Secrets : SealWithoutRoom(secret)
       \/ \E secret \in Secrets, document \in Arrivals, room \in BOOLEAN :
             Open(secret, document, room)

Spec == Init /\ [][Next]_vars

-----------------------------------------------------------------------------
(* The text is the document's, hexadecimal digits in either case.          *)
SameText(text, document) ==
    /\ text.whole /\ text.framed
    /\ IsHex(text.salt) /\ AllHex(text)
    /\ text.salt[2] = document.salt[2] /\ text.tag[2] = document.tag[2]
    /\ Decoded(text.data) = Decoded(document.data)

Wrote(s) ==
    /\ s.version = Version
    /\ KeyFor(call.secret, s.salt) = KeyFor(s.secret, s.salt)
    /\ SameText(call.document, Document(s))

(* A text opens exactly if it is, from end to end, one document that was   *)
(* sealed under the reader's key, and then it yields the record that went  *)
(* in: nothing put together from two documents, even with a salt that was  *)
(* used twice, and no edited one is ever taken for a document.             *)
OpensExactlyTheSealed ==
    call.op = "open" =>
        /\ result = "ok" <=> call.room /\ \E s \in sealed : Wrote(s)
        /\ result = "ok" => \E s \in sealed : Wrote(s) /\ record = s.record
===============================================================================
