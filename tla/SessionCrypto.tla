----------------------------- MODULE SessionCrypto -----------------------------
(***************************************************************************)
(* crypto.rs: `seal` and `open` of the RustCrypto session cipher.  Both    *)
(* work in the caller's buffer, one AES block after the other, and chain   *)
(* the blocks through two registers (infinite garble extension).  `open`   *)
(* can only compare the message key once the whole buffer is decrypted.    *)
(*                                                                         *)
(* Two peers share authorization keys.  One seals a text; what reaches a   *)
(* receiver may be the packet, a damaged one, one of the other direction   *)
(* or of another key, or a buffer that was already opened.                 *)
(*                                                                         *)
(* AES, XOR and the hash are parameters.  A slice of the authorization key *)
(* is the key with the slice's place; the hash is cut into a message key,  *)
(* an AES key and the two halves of the vector by parameters as well.      *)
(***************************************************************************)
EXTENDS Integers, Sequences, FiniteSets

CONSTANTS
    Block,              \* 16 bytes
    Zero,               \* the block of zero bytes
    Xor(_, _),
    AesKey,             \* 32 bytes
    Encrypt(_, _),      \* Aes256::encrypt_block, and its inverse
    Decrypt(_, _),
    AuthKeys,           \* authorization keys the peers share
    Sha256(_),
    KeyOf(_, _),        \* how two digests make an AES key ...
    HeadOf(_, _),       \* ... and the halves of the initialization vector
    TailOf(_, _),
    Noise,              \* message keys that are no message's
    Texts,              \* what a caller may want to seal
    MaxBlocks,          \* bound: length of a buffer, in blocks
    MaxCalls            \* bound: calls of seal and open

VARIABLES
    buffer,         \* the caller's buffer
    ragged,         \* its length is no multiple of 16: bytes follow the blocks
    messageKey,     \* the caller's message_key
    call,           \* [op, direction, key] of the call that runs, or ran last
    running,        \* whether it still runs
    done,           \* blocks it has processed
    previousC,      \* previous_ciphertext
    previousP,      \* previous_plaintext
    result,         \* "none", "ok", "InvalidLength", "Authentication"
    given,          \* history: the buffer and message key the call began with
    sealed,         \* history: the packets sealed
    calls

registers == <<done, previousC, previousP>>
vars == <<buffer, ragged, messageKey, call, running, registers, result,
          given, sealed, calls>>

Directions == {"client_to_server", "server_to_client"}
Buffers == UNION {[1 .. n -> Block] : n \in 0 .. MaxBlocks}

-----------------------------------------------------------------------------
(* Mutant: both directions use the same slices of the key.                 *)
OffsetOfBoth(direction) == 0

(* CryptoDirection::x                                                      *)
Offset(direction) == IF direction = "client_to_server" THEN 0 ELSE 8

Slice(key, from, length) == [key |-> key, from |-> from, length |-> length]

(* What calculate_message_key hashes.                                      *)
KeyedText(direction, key, text) ==
    <<Slice(key, 88 + Offset(direction), 32), text>>

MessageKey(direction, key, text) == Sha256(KeyedText(direction, key, text))

(* derive_key_iv                                                           *)
Material(direction, key, mkey) ==
    LET x == Offset(direction)
        a == Sha256(<<mkey, Slice(key, x, 36)>>)
        b == Sha256(<<Slice(key, 40 + x, 36), mkey>>)
    IN  [key |-> KeyOf(a, b), head |-> HeadOf(a, b), tail |-> TailOf(a, b)]

(* validate_block_data: whole blocks, and two of them.                     *)
ValidLength == Len(buffer) >= 2 /\ ~ragged

-----------------------------------------------------------------------------
MessageKeys ==
    {MessageKey(d, k, t) : d \in Directions, k \in AuthKeys, t \in Buffers} \cup Noise

(* The cipher can be undone, XOR undoes itself, the hash is taken to be    *)
(* free of collisions on what a message key is made of, and the derived    *)
(* material has its type.                                                  *)
ASSUME CipherAssumption ==
    /\ Zero \in Block
    /\ \A a, b \in Block : Xor(a, b) \in Block /\ Xor(Xor(a, b), b) = a
    /\ \A k \in AesKey, b \in Block :
          Encrypt(k, b) \in Block /\ Decrypt(k, b) \in Block /\ Decrypt(k, Encrypt(k, b)) = b

ASSUME HashAssumption ==
    /\ \A d1, d2 \in Directions, k1, k2 \in AuthKeys, t1, t2 \in Buffers :
          MessageKey(d1, k1, t1) = MessageKey(d2, k2, t2)
             => KeyedText(d1, k1, t1) = KeyedText(d2, k2, t2)
    /\ \A d \in Directions, k \in AuthKeys, t \in Buffers :
          MessageKey(d, k, t) \notin Noise

ASSUME MaterialAssumption ==
    \A d \in Directions, k \in AuthKeys, m \in MessageKeys :
        Material(d, k, m) \in [key : AesKey, head : Block, tail : Block]

ASSUME BoundsAssumption ==
    MaxBlocks \in Nat /\ MaxCalls \in Nat /\ Texts \subseteq Buffers /\ AuthKeys # {}

-----------------------------------------------------------------------------
Init ==
    /\ buffer = <<>> /\ ragged = FALSE /\ messageKey \in Noise
    /\ call = [op |-> "none", direction |-> "client_to_server",
               key |-> CHOOSE k \in AuthKeys : TRUE]
    /\ running = FALSE /\ result = "none"
    /\ done = 0 /\ previousC = Zero /\ previousP = Zero
    /\ given = [buffer |-> <<>>, messageKey |-> messageKey]
    /\ sealed = {} /\ calls = 0

Idle == ~running /\ calls < MaxCalls

Called(op, d, k, blocks, tail) ==
    /\ Idle
    /\ calls' = calls + 1
    /\ call' = [op |-> op, direction |-> d, key |-> k]
    /\ buffer' = blocks /\ ragged' = tail
    /\ done' = 0

(* The buffer is refused before anything is written.                       *)
Refuse(op, d, k, blocks, tail, mkey) ==
    /\ Called(op, d, k, blocks, tail)
    /\ ~ValidLength'
    /\ messageKey' = mkey
    /\ given' = [buffer |-> blocks, messageKey |-> mkey]
    /\ result' = "InvalidLength"
    /\ UNCHANGED <<running, previousC, previousP, sealed>>

(* seal up to its loop: the message key is that of the text.               *)
BeginSeal(d, k, text) ==
    /\ Called("seal", d, k, text, FALSE)
    /\ ValidLength'
    /\ messageKey' = MessageKey(d, k, text)
    /\ previousC' = Material(d, k, messageKey').head
    /\ previousP' = Material(d, k, messageKey').tail
    /\ given' = [buffer |-> text, messageKey |-> messageKey']
    /\ running' = TRUE /\ result' = "none"
    /\ UNCHANGED sealed

(* open up to its loop.                                                    *)
BeginOpen(d, k, blocks, mkey) ==
    /\ Called("open", d, k, blocks, FALSE)
    /\ ValidLength'
    /\ messageKey' = mkey
    /\ previousC' = Material(d, k, mkey).head
    /\ previousP' = Material(d, k, mkey).tail
    /\ given' = [buffer |-> blocks, messageKey |-> mkey]
    /\ running' = TRUE /\ result' = "none"
    /\ UNCHANGED sealed

-----------------------------------------------------------------------------
Current == Material(call.direction, call.key, messageKey).key
This == buffer[done + 1]

Looping(op) ==
    /\ running /\ call.op = op /\ done < Len(buffer)
    /\ done' = done + 1
    /\ UNCHANGED <<ragged, messageKey, call, running, result, given, sealed, calls>>

(* Mutant: the plaintext is saved after the block was overwritten.         *)
EncryptBlockOverwritten ==
    /\ Looping("seal")
    /\ buffer' = [buffer EXCEPT ![done + 1] =
                     Xor(Encrypt(Current, Xor(This, previousC)), previousP)]
    /\ previousC' = buffer'[done + 1]
    /\ previousP' = buffer'[done + 1]

(* One round of aes_ige_encrypt.                                           *)
EncryptBlock ==
    /\ Looping("seal")
    /\ buffer' = [buffer EXCEPT ![done + 1] =
                     Xor(Encrypt(Current, Xor(This, previousC)), previousP)]
    /\ previousC' = buffer'[done + 1]
    /\ previousP' = This

(* One round of aes_ige_decrypt.                                           *)
DecryptBlock ==
    /\ Looping("open")
    /\ buffer' = [buffer EXCEPT ![done + 1] =
                     Xor(Decrypt(Current, Xor(This, previousP)), previousC)]
    /\ previousP' = buffer'[done + 1]
    /\ previousC' = This

Ending(op, outcome) ==
    /\ running /\ call.op = op /\ done = Len(buffer)
    /\ running' = FALSE
    /\ previousC' = Zero /\ previousP' = Zero
    /\ result' = outcome
    /\ UNCHANGED <<ragged, messageKey, call, done, given, calls>>

EndSeal ==
    /\ Ending("seal", "ok")
    /\ sealed' = sealed \cup {[direction |-> call.direction, key |-> call.key,
                               text |-> given.buffer, cipher |-> buffer,
                               messageKey |-> messageKey]}
    /\ UNCHANGED buffer

Verified == MessageKey(call.direction, call.key, buffer) = messageKey

EndOpen ==
    /\ Verified
    /\ Ending("open", "ok")
    /\ UNCHANGED <<buffer, sealed>>

(* Mutant: the buffer is left as it was decrypted.                         *)
EndOpenUnwiped ==
    /\ ~Verified
    /\ Ending("open", "Authentication")
    /\ UNCHANGED <<buffer, sealed>>

(* The comparison fails: the plaintext is wiped.                           *)
EndOpenRefused ==
    /\ ~Verified
    /\ Ending("open", "Authentication")
    /\ buffer' = [i \in DOMAIN buffer |-> Zero]
    /\ UNCHANGED sealed

-----------------------------------------------------------------------------
(* What may arrive for a packet: the packet, one block of it changed, its  *)
(* last block missing, two blocks exchanged.                               *)
Arrivals(cipher) ==
    {cipher}
    \cup {[cipher EXCEPT ![i] = b] : i \in DOMAIN cipher, b \in Block}
    \cup {[cipher EXCEPT ![i] = cipher[j], ![j] = cipher[i]] :
             i \in DOMAIN cipher, j \in DOMAIN cipher}
    \cup {SubSeq(cipher, 1, Len(cipher) - 1)}

Seal ==
    \E d \in Directions, k \in AuthKeys, text \in Texts, tail \in BOOLEAN :
        \/ ~tail /\ BeginSeal(d, k, text)
        \/ Refuse("seal", d, k, text, tail, messageKey)

(* A packet, or the buffer the last call left, with the last message key.  *)
Open ==
    \E d \in Directions, k \in AuthKeys, tail \in BOOLEAN :
        \/ \E p \in sealed : \E blocks \in Arrivals(p.cipher),
                                mkey \in {p.messageKey} \cup Noise :
              \/ ~tail /\ BeginOpen(d, k, blocks, mkey)
              \/ Refuse("open", d, k, blocks, tail, mkey)
        \/ sealed # {} /\ ~tail /\ BeginOpen(d, k, buffer, messageKey)

Next ==
    \/ Seal \/ Open
    \/ EncryptBlock \/ EndSeal
    \/ DecryptBlock \/ EndOpen \/ EndOpenRefused

Spec == Init /\ [][Next]_vars

-----------------------------------------------------------------------------
Packets == [direction : Directions, key : AuthKeys, text : Buffers,
            cipher : Buffers, messageKey : MessageKeys]

(* The variables keep their types, and the loop stays inside the buffer.   *)
TypeOK ==
    /\ buffer \in Buffers /\ ragged \in BOOLEAN
    /\ messageKey \in MessageKeys
    /\ call \in [op : {"none", "seal", "open"}, direction : Directions, key : AuthKeys]
    /\ running \in BOOLEAN /\ (running => call.op # "none" /\ ~ragged)
    /\ done \in 0 .. Len(buffer)
    /\ previousC \in Block /\ previousP \in Block
    /\ result \in {"none", "ok", "InvalidLength", "Authentication"}
    /\ given \in [buffer : Buffers, messageKey : MessageKeys]
    /\ Len(given.buffer) = Len(buffer)
    /\ sealed \subseteq Packets
    /\ calls \in 0 .. MaxCalls

Opened(outcome) == ~running /\ call.op = "open" /\ result = outcome

(* A packet that arrives as it was sealed, at a receiver that uses its     *)
(* direction and key, is opened, and the buffer then holds its text.       *)
OpensWhatWasSealed ==
    \A p \in sealed :
        /\ ~running /\ call = [op |-> "open", direction |-> p.direction, key |-> p.key]
        /\ result \notin {"none", "InvalidLength"}
        /\ given = [buffer |-> p.cipher, messageKey |-> p.messageKey]
        => result = "ok" /\ buffer = p.text

(* What open returns as authentic was sealed, word for word, by the peer   *)
(* in this direction and under this key: nothing damaged, reflected, of    *)
(* another connection, or opened before.                                   *)
AcceptsOnlySealed ==
    Opened("ok") =>
        \E p \in sealed : /\ p.direction = call.direction /\ p.key = call.key
                          /\ p.text = buffer /\ p.messageKey = messageKey

(* Between two calls the buffer never holds a decryption that was not      *)
(* verified: it is what the caller put there, a text that was verified, or *)
(* zeros throughout.                                                       *)
NothingUnverified ==
    ~running /\ call.op = "open" =>
        \/ result = "InvalidLength" /\ buffer = given.buffer
        \/ result = "ok" /\ Verified
        \/ result = "Authentication" /\ \A i \in DOMAIN buffer : buffer[i] = Zero
===============================================================================
