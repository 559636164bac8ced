-------------------------- MODULE CryptographyProofs ---------------------------
(***************************************************************************)
(* seal and open for every cipher, every text and every key: the chain of  *)
(* blocks is undone in place, and only sealed texts are accepted.          *)
(*                                                                         *)
(* factor_pq for every number, nonce and limit: if it returns two numbers  *)
(* they are the factors of pq, by Euclid's lemma the only ones that the    *)
(* product of two primes has.                                              *)
(***************************************************************************)
EXTENDS SessionCrypto, PqFactor, SequenceTheorems, WellFoundedInduction, TLAPS

-----------------------------------------------------------------------------
(* Buffers are sequences, and stay buffers when one block is replaced.     *)
LEMMA BufferIsSequence ==
    ASSUME NEW s
    PROVE  s \in Buffers <=> s \in Seq(Block) /\ Len(s) \in 0 .. MaxBlocks
<1>1. ASSUME s \in Buffers
      PROVE  s \in Seq(Block) /\ Len(s) \in 0 .. MaxBlocks
  <2>1. PICK n \in 0 .. MaxBlocks : s \in [1 .. n -> Block]
    BY <1>1 DEF Buffers
  <2> QED
    BY <2>1
<1>2. ASSUME s \in Seq(Block), Len(s) \in 0 .. MaxBlocks
      PROVE  s \in Buffers
  <2>1. s \in [1 .. Len(s) -> Block]
    BY <1>2
  <2> QED
    BY <1>2, <2>1 DEF Buffers
<1> QED
  BY <1>1, <1>2

LEMMA BufferUpdate ==
    ASSUME NEW s \in Buffers, NEW i \in 1 .. Len(s), NEW b \in Block
    PROVE  /\ [s EXCEPT ![i] = b] \in Buffers
           /\ Len([s EXCEPT ![i] = b]) = Len(s)
           /\ [s EXCEPT ![i] = b][i] = b
           /\ \A j \in 1 .. Len(s) : j # i => [s EXCEPT ![i] = b][j] = s[j]
<1>1. s \in Seq(Block) /\ Len(s) \in 0 .. MaxBlocks
  BY BufferIsSequence
<1>2. [s EXCEPT ![i] = b] \in Seq(Block) /\ Len([s EXCEPT ![i] = b]) = Len(s)
  BY <1>1
<1>3. [s EXCEPT ![i] = b] \in Buffers
  BY <1>1, <1>2, BufferIsSequence
<1> QED
  BY <1>1, <1>2, <1>3

(* One round undoes the other, whatever the registers hold.                *)
LEMMA RoundUndone ==
    ASSUME NEW k \in AesKey, NEW p \in Block, NEW c \in Block, NEW t \in Block
    PROVE  LET x == Xor(Encrypt(k, Xor(p, c)), t)
           IN  x \in Block /\ Xor(Decrypt(k, Xor(x, t)), c) = p
<1> DEFINE e == Encrypt(k, Xor(p, c))
           x == Xor(e, t)
<1>1. Xor(p, c) \in Block /\ Xor(Xor(p, c), c) = p
  BY CipherAssumption
<1>2. e \in Block /\ Decrypt(k, e) = Xor(p, c)
  BY <1>1, CipherAssumption
<1>3. x \in Block /\ Xor(x, t) = e
  BY <1>2, CipherAssumption
<1> QED
  BY <1>1, <1>2, <1>3

(* The same for the types alone.                                           *)
LEMMA RoundType ==
    ASSUME NEW k \in AesKey, NEW b \in Block, NEW c \in Block, NEW p \in Block
    PROVE  /\ Xor(Encrypt(k, Xor(b, c)), p) \in Block
           /\ Xor(Decrypt(k, Xor(b, p)), c) \in Block
<1>1. Xor(b, c) \in Block /\ Xor(b, p) \in Block
  BY CipherAssumption
<1>2. Encrypt(k, Xor(b, c)) \in Block /\ Decrypt(k, Xor(b, p)) \in Block
  BY <1>1, CipherAssumption
<1> QED
  BY <1>2, CipherAssumption

LEMMA MessageKeyType ==
    ASSUME NEW d \in Directions, NEW k \in AuthKeys, NEW t \in Buffers
    PROVE  MessageKey(d, k, t) \in MessageKeys
BY DEF MessageKeys

LEMMA ArrivalType ==
    ASSUME NEW cipher \in Buffers, NEW blocks \in Arrivals(cipher)
    PROVE  blocks \in Buffers
<1>1. cipher \in Seq(Block) /\ Len(cipher) \in 0 .. MaxBlocks /\ DOMAIN cipher = 1 .. Len(cipher)
  BY BufferIsSequence
<1>2. CASE \E i \in DOMAIN cipher, b \in Block : blocks = [cipher EXCEPT ![i] = b]
  <2>1. PICK i \in DOMAIN cipher, b \in Block : blocks = [cipher EXCEPT ![i] = b]
    BY <1>2
  <2>2. i \in 1 .. Len(cipher)
    BY <1>1
  <2> QED
    BY <2>1, <2>2, BufferUpdate
<1>3. CASE \E i \in DOMAIN cipher, j \in DOMAIN cipher :
              blocks = [cipher EXCEPT ![i] = cipher[j], ![j] = cipher[i]]
  <2>1. PICK i \in DOMAIN cipher, j \in DOMAIN cipher :
              blocks = [[cipher EXCEPT ![i] = cipher[j]] EXCEPT ![j] = cipher[i]]
    BY <1>3
  <2>2. cipher[i] \in Block /\ cipher[j] \in Block /\ i \in 1 .. Len(cipher)
        /\ j \in 1 .. Len(cipher)
    BY <1>1
  <2>3. [cipher EXCEPT ![i] = cipher[j]] \in Buffers
        /\ Len([cipher EXCEPT ![i] = cipher[j]]) = Len(cipher)
    BY <2>2, BufferUpdate
  <2> QED
    BY <2>1, <2>2, <2>3, BufferUpdate
<1>4. CASE blocks = SubSeq(cipher, 1, Len(cipher) - 1)
  <2>1. blocks \in Seq(Block) /\ Len(blocks) \in 0 .. MaxBlocks
    BY <1>1, <1>4, BoundsAssumption
  <2> QED
    BY <2>1, BufferIsSequence
<1> QED
  BY <1>2, <1>3, <1>4 DEF Arrivals

LEMMA MaterialType ==
    ASSUME NEW d \in Directions, NEW k \in AuthKeys, NEW m \in MessageKeys
    PROVE  /\ Material(d, k, m).key \in AesKey
           /\ Material(d, k, m).head \in Block /\ Material(d, k, m).tail \in Block
<1>1. Material(d, k, m) \in [key : AesKey, head : Block, tail : Block]
  BY MaterialAssumption
<1> QED
  BY <1>1

-----------------------------------------------------------------------------
(* Next, with the caller's choices named.                                  *)
LEMMA NextCases ==
    ASSUME TypeOK, Next
    PROVE  \/ \E d \in Directions, k \in AuthKeys, text \in Buffers : BeginSeal(d, k, text)
           \/ \E op \in {"seal", "open"}, d \in Directions, k \in AuthKeys,
                 blocks \in Buffers, tail \in BOOLEAN, mkey \in MessageKeys :
                 /\ Refuse(op, d, k, blocks, tail, mkey)
                 /\ mkey = messageKey \/ mkey \in Noise \cup {p.messageKey : p \in sealed}
           \/ \E d \in Directions, k \in AuthKeys, blocks \in Buffers,
                 mkey \in MessageKeys :
                 /\ BeginOpen(d, k, blocks, mkey)
                 /\ mkey = messageKey \/ mkey \in Noise \cup {p.messageKey : p \in sealed}
           \/ EncryptBlock \/ EndSeal \/ DecryptBlock \/ EndOpen \/ EndOpenRefused
<1>1. ASSUME Seal
      PROVE  \/ \E d \in Directions, k \in AuthKeys, text \in Buffers : BeginSeal(d, k, text)
             \/ \E op \in {"seal", "open"}, d \in Directions, k \in AuthKeys,
                   blocks \in Buffers, tail \in BOOLEAN, mkey \in MessageKeys :
                   Refuse(op, d, k, blocks, tail, mkey) /\ mkey = messageKey
  <2>1. PICK d \in Directions, k \in AuthKeys, text \in Texts, tail \in BOOLEAN :
            BeginSeal(d, k, text) \/ Refuse("seal", d, k, text, tail, messageKey)
    BY <1>1 DEF Seal
  <2>2. text \in Buffers /\ messageKey \in MessageKeys
    BY BoundsAssumption DEF TypeOK
  <2> QED
    BY <2>1, <2>2
<1>2. ASSUME Open
      PROVE  \/ \E op \in {"seal", "open"}, d \in Directions, k \in AuthKeys,
                   blocks \in Buffers, tail \in BOOLEAN, mkey \in MessageKeys :
                   /\ Refuse(op, d, k, blocks, tail, mkey)
                   /\ mkey = messageKey \/ mkey \in Noise \cup {p.messageKey : p \in sealed}
             \/ \E d \in Directions, k \in AuthKeys, blocks \in Buffers,
                   mkey \in MessageKeys :
                   /\ BeginOpen(d, k, blocks, mkey)
                   /\ mkey = messageKey \/ mkey \in Noise \cup {p.messageKey : p \in sealed}
  <2>1. PICK d \in Directions, k \in AuthKeys, tail \in BOOLEAN :
            \/ \E p \in sealed : \E blocks \in Arrivals(p.cipher),
                                    mkey \in {p.messageKey} \cup Noise :
                  \/ BeginOpen(d, k, blocks, mkey)
                  \/ Refuse("open", d, k, blocks, tail, mkey)
            \/ BeginOpen(d, k, buffer, messageKey)
    BY <1>2 DEF Open
  <2>2. CASE BeginOpen(d, k, buffer, messageKey)
    <3>1. buffer \in Buffers /\ messageKey \in MessageKeys
      BY DEF TypeOK
    <3> QED
      BY <2>2, <3>1
  <2>3. CASE \E p \in sealed : \E blocks \in Arrivals(p.cipher),
                                  mkey \in {p.messageKey} \cup Noise :
                  \/ BeginOpen(d, k, blocks, mkey)
                  \/ Refuse("open", d, k, blocks, tail, mkey)
    <3>1. PICK p \in sealed : \E blocks \in Arrivals(p.cipher),
                                  mkey \in {p.messageKey} \cup Noise :
                  \/ BeginOpen(d, k, blocks, mkey)
                  \/ Refuse("open", d, k, blocks, tail, mkey)
      BY <2>3
    <3>2. PICK blocks \in Arrivals(p.cipher), mkey \in {p.messageKey} \cup Noise :
                  \/ BeginOpen(d, k, blocks, mkey)
                  \/ Refuse("open", d, k, blocks, tail, mkey)
      BY <3>1
    <3>3. p.cipher \in Buffers /\ p.messageKey \in MessageKeys
      BY DEF TypeOK, Packets
    <3>4. blocks \in Buffers
      BY <3>3, ArrivalType
    <3>5. mkey \in MessageKeys /\ mkey \in Noise \cup {q.messageKey : q \in sealed}
      BY <3>3 DEF MessageKeys
    <3>6. CASE BeginOpen(d, k, blocks, mkey)
      BY <3>4, <3>5, <3>6
    <3>7. CASE Refuse("open", d, k, blocks, tail, mkey)
      BY <3>4, <3>5, <3>7
    <3> QED
      BY <3>2, <3>6, <3>7
  <2> QED
    BY <2>1, <2>2, <2>3
<1> QED
  BY <1>1, <1>2 DEF Next

-----------------------------------------------------------------------------
LEMMA TypeInit == Init => TypeOK
<1> SUFFICES ASSUME Init PROVE TypeOK
  OBVIOUS
<1>1. <<>> \in Buffers /\ Len(<<>>) = 0
  <2>1. <<>> \in [1 .. 0 -> Block] /\ 0 \in 0 .. MaxBlocks
    BY BoundsAssumption
  <2> QED
    BY <2>1 DEF Buffers
<1>2. (CHOOSE k \in AuthKeys : TRUE) \in AuthKeys
  BY BoundsAssumption
<1>3. messageKey \in MessageKeys
  BY DEF Init, MessageKeys
<1>4. given \in [buffer : Buffers, messageKey : MessageKeys] /\ Len(given.buffer) = Len(buffer)
  BY <1>1, <1>3 DEF Init
<1>5. call \in [op : {"none", "seal", "open"}, direction : Directions, key : AuthKeys]
  BY <1>2 DEF Init, Directions
<1>6. done \in 0 .. Len(buffer) /\ calls \in 0 .. MaxCalls
  BY <1>1, BoundsAssumption DEF Init
<1>7. sealed \subseteq Packets
  BY DEF Init
<1>8. buffer \in Buffers /\ previousC \in Block /\ previousP \in Block
  BY <1>1, CipherAssumption DEF Init
<1> QED
  BY <1>3, <1>4, <1>5, <1>6, <1>7, <1>8 DEF Init, TypeOK

LEMMA TypeStep == TypeOK /\ [Next]_vars => TypeOK'
<1> SUFFICES ASSUME TypeOK, [Next]_vars PROVE TypeOK'
  OBVIOUS
<1>0. Len(buffer) \in Nat /\ \A i \in 1 .. Len(buffer) : buffer[i] \in Block
  BY BufferIsSequence DEF TypeOK
<1>1. ASSUME NEW d \in Directions, NEW k \in AuthKeys, NEW text \in Buffers,
             BeginSeal(d, k, text)
      PROVE  TypeOK'
  <2>1. MessageKey(d, k, text) \in MessageKeys
    BY MessageKeyType
  <2>2. Material(d, k, MessageKey(d, k, text)).head \in Block
        /\ Material(d, k, MessageKey(d, k, text)).tail \in Block
    BY <2>1, MaterialType
  <2>3. Len(text) \in Nat
    BY BufferIsSequence
  <2>4. given' \in [buffer : Buffers, messageKey : MessageKeys]
        /\ Len(given'.buffer) = Len(buffer')
    BY <1>1, <2>1 DEF BeginSeal, Called
  <2>5. call' \in [op : {"none", "seal", "open"}, direction : Directions, key : AuthKeys]
        /\ call'.op = "seal"
    BY <1>1 DEF BeginSeal, Called
  <2>6. calls' \in 0 .. MaxCalls /\ done' \in 0 .. Len(buffer')
    BY <1>1, <2>3, BoundsAssumption DEF BeginSeal, Called, Idle, TypeOK
  <2>7. buffer' \in Buffers /\ ragged' = FALSE /\ messageKey' \in MessageKeys
        /\ previousC' \in Block /\ previousP' \in Block
    BY <1>1, <2>1, <2>2 DEF BeginSeal, Called
  <2> QED
    BY <1>1, <2>4, <2>5, <2>6, <2>7 DEF BeginSeal, TypeOK
<1>2. ASSUME NEW op \in {"seal", "open"}, NEW d \in Directions, NEW k \in AuthKeys,
             NEW blocks \in Buffers, NEW tail \in BOOLEAN, NEW mkey \in MessageKeys,
             Refuse(op, d, k, blocks, tail, mkey)
      PROVE  TypeOK'
  <2>1. Len(blocks) \in Nat
    BY BufferIsSequence
  <2> QED
    BY <1>2, <2>1, BoundsAssumption DEF Refuse, Called, Idle, TypeOK
<1>3. ASSUME NEW d \in Directions, NEW k \in AuthKeys, NEW blocks \in Buffers,
             NEW mkey \in MessageKeys, BeginOpen(d, k, blocks, mkey)
      PROVE  TypeOK'
  <2>1. Material(d, k, mkey).head \in Block /\ Material(d, k, mkey).tail \in Block
    BY MaterialType
  <2>2. Len(blocks) \in Nat
    BY BufferIsSequence
  <2>4. given' \in [buffer : Buffers, messageKey : MessageKeys]
        /\ Len(given'.buffer) = Len(buffer')
    BY <1>3 DEF BeginOpen, Called
  <2>5. call' \in [op : {"none", "seal", "open"}, direction : Directions, key : AuthKeys]
        /\ call'.op = "open"
    BY <1>3 DEF BeginOpen, Called
  <2>6. calls' \in 0 .. MaxCalls /\ done' \in 0 .. Len(buffer')
    BY <1>3, <2>2, BoundsAssumption DEF BeginOpen, Called, Idle, TypeOK
  <2>7. buffer' \in Buffers /\ ragged' = FALSE /\ messageKey' \in MessageKeys
        /\ previousC' \in Block /\ previousP' \in Block
    BY <1>3, <2>1 DEF BeginOpen, Called
  <2> QED
    BY <1>3, <2>4, <2>5, <2>6, <2>7 DEF BeginOpen, TypeOK
<1>4. ASSUME Looping(call.op), EncryptBlock \/ DecryptBlock
      PROVE  TypeOK'
  <2>1. Current \in AesKey
    BY MaterialType DEF TypeOK, Current
  <2>2. done + 1 \in 1 .. Len(buffer) /\ This \in Block
    BY <1>0, <1>4 DEF Looping, TypeOK, This
  <2>3. PICK b \in Block : buffer' = [buffer EXCEPT ![done + 1] = b]
    <3>1. Xor(Encrypt(Current, Xor(This, previousC)), previousP) \in Block
          /\ Xor(Decrypt(Current, Xor(This, previousP)), previousC) \in Block
      BY <2>1, <2>2, RoundType DEF TypeOK
    <3> QED
      BY <1>4, <3>1 DEF EncryptBlock, DecryptBlock
  <2>4. buffer' \in Buffers /\ Len(buffer') = Len(buffer) /\ buffer'[done + 1] \in Block
    <3>1. buffer \in Buffers
      BY DEF TypeOK
    <3>2. /\ [buffer EXCEPT ![done + 1] = b] \in Buffers
          /\ Len([buffer EXCEPT ![done + 1] = b]) = Len(buffer)
          /\ [buffer EXCEPT ![done + 1] = b][done + 1] = b
      BY <2>2, <3>1, BufferUpdate
    <3> QED
      BY <2>3, <3>2
  <2>5. previousC' \in Block /\ previousP' \in Block
    BY <1>4, <2>2, <2>4 DEF EncryptBlock, DecryptBlock
  <2> QED
    BY <1>4, <2>2, <2>4, <2>5 DEF Looping, TypeOK
<1>5. ASSUME EndSeal
      PROVE  TypeOK'
  <2>1. [direction |-> call.direction, key |-> call.key, text |-> given.buffer,
         cipher |-> buffer, messageKey |-> messageKey] \in Packets
    BY DEF TypeOK, Packets
  <2>2. sealed' \subseteq Packets
    BY <1>5, <2>1 DEF EndSeal, TypeOK
  <2> QED
    BY <1>5, <2>2, CipherAssumption DEF EndSeal, Ending, TypeOK
<1>6. ASSUME EndOpen
      PROVE  TypeOK'
  BY <1>6, CipherAssumption DEF EndOpen, Ending, TypeOK
<1>7. ASSUME EndOpenRefused
      PROVE  TypeOK'
  <2>1. buffer \in Seq(Block) /\ DOMAIN buffer = 1 .. Len(buffer)
    BY BufferIsSequence DEF TypeOK
  <2>2. buffer' \in Seq(Block) /\ Len(buffer') = Len(buffer)
    BY <1>0, <1>7, <2>1, CipherAssumption DEF EndOpenRefused
  <2>3. buffer' \in Buffers
    BY <2>2, BufferIsSequence DEF TypeOK
  <2> QED
    BY <1>7, <2>2, <2>3, CipherAssumption DEF EndOpenRefused, Ending, TypeOK
<1>8. CASE UNCHANGED vars
  BY <1>8 DEF vars, registers, TypeOK
<1> QED
  BY <1>1, <1>2, <1>3, <1>4, <1>5, <1>6, <1>7, <1>8, NextCases
  DEF EncryptBlock, DecryptBlock, Looping

-----------------------------------------------------------------------------
(* The chain: block n of a ciphertext comes from block n of the text, the  *)
(* ciphertext's block before it and the text's block before it.            *)
Before(s, first, n) == IF n = 0 THEN first ELSE s[n]

Chained(m, text, cipher, n) ==
    cipher[n] = Xor(Encrypt(m.key, Xor(text[n], Before(cipher, m.head, n - 1))),
                    Before(text, m.tail, n - 1))

MaterialOf(p) == Material(p.direction, p.key, p.messageKey)

(* While seal runs, the part behind the loop is still the text, the part   *)
(* before it is chained, and the registers are the blocks last passed.     *)
SealInv ==
    running /\ call.op = "seal" =>
        LET m == Material(call.direction, call.key, messageKey)
            text == given.buffer
        IN  /\ messageKey = MessageKey(call.direction, call.key, text)
            /\ \A n \in 1 .. Len(text) : n > done => buffer[n] = text[n]
            /\ \A n \in 1 .. Len(text) : n <= done => Chained(m, text, buffer, n)
            /\ previousC = Before(buffer, m.head, done)
            /\ previousP = Before(text, m.tail, done)

(* A packet that was sealed is chained throughout.                         *)
PacketInv ==
    \A p \in sealed :
        /\ p.messageKey = MessageKey(p.direction, p.key, p.text)
        /\ Len(p.cipher) = Len(p.text)
        /\ \A n \in 1 .. Len(p.text) : Chained(MaterialOf(p), p.text, p.cipher, n)

Receives(p) ==
    /\ call = [op |-> "open", direction |-> p.direction, key |-> p.key]
    /\ given = [buffer |-> p.cipher, messageKey |-> p.messageKey]

(* While open runs over a packet as it was sealed, the loop has turned the *)
(* part behind it into the text, and the registers are the blocks passed.  *)
OpenInv ==
    running => \A p \in sealed : Receives(p) =>
        /\ \A n \in 1 .. Len(p.text) :
              buffer[n] = IF n <= done THEN p.text[n] ELSE p.cipher[n]
        /\ previousC = Before(p.cipher, MaterialOf(p).head, done)
        /\ previousP = Before(p.text, MaterialOf(p).tail, done)

(* A receiver's message key is a packet's or no message's at all.          *)
KeyInv ==
    /\ running => messageKey = given.messageKey
    /\ ~running \/ call.op = "open" =>
          messageKey \in Noise \cup {p.messageKey : p \in sealed}

Inv ==
    /\ TypeOK /\ SealInv /\ PacketInv /\ OpenInv /\ KeyInv
    /\ OpensWhatWasSealed /\ NothingUnverified

-----------------------------------------------------------------------------
(* A message key says whose it is: the slices of the two directions and of *)
(* two keys differ, so what is hashed does.                                *)
LEMMA HashSeparates ==
    ASSUME NEW d1 \in Directions, NEW d2 \in Directions,
           NEW k1 \in AuthKeys, NEW k2 \in AuthKeys,
           NEW t1 \in Buffers, NEW t2 \in Buffers,
           MessageKey(d1, k1, t1) = MessageKey(d2, k2, t2)
    PROVE  d1 = d2 /\ k1 = k2 /\ t1 = t2
<1>1. KeyedText(d1, k1, t1) = KeyedText(d2, k2, t2)
  BY HashAssumption
<1>2. t1 = t2 /\ Slice(k1, 88 + Offset(d1), 32) = Slice(k2, 88 + Offset(d2), 32)
  BY <1>1 DEF KeyedText
<1>3. k1 = k2 /\ 88 + Offset(d1) = 88 + Offset(d2)
  BY <1>2 DEF Slice
<1>4. d1 = d2
  BY <1>3 DEF Offset, Directions
<1> QED
  BY <1>2, <1>3, <1>4

(* What follows for the properties.                                        *)
LEMMA InvAccepts == Inv => AcceptsOnlySealed
<1> SUFFICES ASSUME Inv, Opened("ok")
             PROVE  \E p \in sealed :
                      /\ p.direction = call.direction /\ p.key = call.key
                      /\ p.text = buffer /\ p.messageKey = messageKey
  BY DEF AcceptsOnlySealed
<1>1. call.direction \in Directions /\ call.key \in AuthKeys /\ buffer \in Buffers
  BY DEF Inv, TypeOK
<1>2. MessageKey(call.direction, call.key, buffer) = messageKey
  BY DEF Inv, NothingUnverified, Opened, Verified
<1>3. messageKey \notin Noise
  BY <1>1, <1>2, HashAssumption
<1>4. PICK p \in sealed : messageKey = p.messageKey
  BY <1>3 DEF Inv, KeyInv, Opened
<1>5. p.direction \in Directions /\ p.key \in AuthKeys /\ p.text \in Buffers
  BY DEF Inv, TypeOK, Packets
<1>6. MessageKey(p.direction, p.key, p.text) = MessageKey(call.direction, call.key, buffer)
  BY <1>2, <1>4 DEF Inv, PacketInv
<1>7. p.direction = call.direction /\ p.key = call.key /\ p.text = buffer
  BY <1>1, <1>5, <1>6, HashSeparates
<1> QED
  BY <1>4, <1>7

-----------------------------------------------------------------------------
LEMMA InvInit == Init => Inv
<1> SUFFICES ASSUME Init PROVE Inv
  OBVIOUS
<1>1. TypeOK
  BY TypeInit
<1>2. SealInv /\ PacketInv /\ OpenInv /\ KeyInv
  BY DEF Init, SealInv, PacketInv, OpenInv, KeyInv
<1>3. OpensWhatWasSealed /\ NothingUnverified
  BY DEF Init, OpensWhatWasSealed, NothingUnverified
<1> QED
  BY <1>1, <1>2, <1>3 DEF Inv

(* The three ways a call begins.                                           *)
LEMMA BeginSealInv ==
    ASSUME Inv, TypeOK', NEW d \in Directions, NEW k \in AuthKeys,
           NEW text \in Buffers, BeginSeal(d, k, text)
    PROVE  Inv'
<1>1. call' = [op |-> "seal", direction |-> d, key |-> k] /\ buffer' = text
      /\ done' = 0 /\ running' /\ sealed' = sealed
      /\ given' = [buffer |-> text, messageKey |-> messageKey']
      /\ messageKey' = MessageKey(d, k, text)
  BY DEF BeginSeal, Called
<1>2. SealInv'
  <2>1. Len(text) \in Nat
    BY BufferIsSequence
  <2>2. previousC' = Material(d, k, messageKey').head
        /\ previousP' = Material(d, k, messageKey').tail
    BY DEF BeginSeal
  <2> QED
    BY <1>1, <2>1, <2>2 DEF SealInv, Before
<1>3. PacketInv' /\ OpenInv' /\ KeyInv'
  BY <1>1 DEF Inv, PacketInv, OpenInv, KeyInv, Receives
<1>4. OpensWhatWasSealed' /\ NothingUnverified'
  BY <1>1 DEF OpensWhatWasSealed, NothingUnverified
<1> QED
  BY <1>2, <1>3, <1>4 DEF Inv

LEMMA RefuseInv ==
    ASSUME Inv, TypeOK', NEW op \in {"seal", "open"}, NEW d \in Directions,
           NEW k \in AuthKeys, NEW blocks \in Buffers, NEW tail \in BOOLEAN,
           NEW mkey \in MessageKeys, Refuse(op, d, k, blocks, tail, mkey),
           mkey = messageKey \/ mkey \in Noise \cup {p.messageKey : p \in sealed}
    PROVE  Inv'
<1>1. /\ ~running /\ ~running' /\ sealed' = sealed /\ messageKey' = mkey
      /\ result' = "InvalidLength" /\ buffer' = blocks
      /\ given' = [buffer |-> blocks, messageKey |-> mkey]
  BY DEF Refuse, Called, Idle
<1>2. SealInv' /\ PacketInv' /\ OpenInv' /\ OpensWhatWasSealed' /\ NothingUnverified'
  BY <1>1 DEF Inv, SealInv, PacketInv, OpenInv, OpensWhatWasSealed, NothingUnverified
<1>3. KeyInv'
  BY <1>1 DEF Inv, KeyInv
<1> QED
  BY <1>2, <1>3 DEF Inv

LEMMA BeginOpenInv ==
    ASSUME Inv, TypeOK', NEW d \in Directions, NEW k \in AuthKeys,
           NEW blocks \in Buffers, NEW mkey \in MessageKeys,
           BeginOpen(d, k, blocks, mkey),
           mkey = messageKey \/ mkey \in Noise \cup {p.messageKey : p \in sealed}
    PROVE  Inv'
<1>1. /\ ~running /\ running' /\ sealed' = sealed /\ messageKey' = mkey
      /\ call' = [op |-> "open", direction |-> d, key |-> k]
      /\ buffer' = blocks /\ done' = 0
      /\ given' = [buffer |-> blocks, messageKey |-> mkey]
      /\ previousC' = Material(d, k, mkey).head
      /\ previousP' = Material(d, k, mkey).tail
  BY DEF BeginOpen, Called, Idle
<1>2. SealInv' /\ PacketInv' /\ OpensWhatWasSealed' /\ NothingUnverified'
  BY <1>1 DEF Inv, SealInv, PacketInv, OpensWhatWasSealed, NothingUnverified
<1>3. KeyInv'
  BY <1>1 DEF Inv, KeyInv
<1>4. OpenInv'
  <2> SUFFICES ASSUME NEW p \in sealed, Receives(p)'
               PROVE  /\ \A n \in 1 .. Len(p.text) : buffer'[n] = p.cipher[n]
                      /\ previousC' = MaterialOf(p).head
                      /\ previousP' = MaterialOf(p).tail
    <3>1. \A p \in sealed : Len(p.text) \in Nat
      BY BufferIsSequence DEF Inv, TypeOK, Packets
    <3> QED
      BY <1>1, <3>1 DEF OpenInv, Before
  <2>1. d = p.direction /\ k = p.key /\ blocks = p.cipher /\ mkey = p.messageKey
    BY <1>1 DEF Receives
  <2> QED
    BY <1>1, <2>1 DEF MaterialOf
<1> QED
  BY <1>2, <1>3, <1>4 DEF Inv

-----------------------------------------------------------------------------
(* One round of either loop, in terms of the block it writes.              *)
LEMMA EncryptBlockInv ==
    ASSUME Inv, TypeOK', EncryptBlock
    PROVE  Inv'
<1> DEFINE m == Material(call.direction, call.key, messageKey)
           text == given.buffer
           x == Xor(Encrypt(m.key, Xor(This, previousC)), previousP)
<1>1. /\ running /\ running' /\ call' = call /\ call.op = "seal" /\ done < Len(buffer)
      /\ done' = done + 1 /\ messageKey' = messageKey /\ given' = given
      /\ sealed' = sealed /\ result' = result
      /\ buffer' = [buffer EXCEPT ![done + 1] = x]
      /\ previousC' = buffer'[done + 1] /\ previousP' = This
  BY DEF EncryptBlock, Looping, Current
<1>2. m.key \in AesKey /\ buffer \in Buffers /\ previousC \in Block /\ previousP \in Block
      /\ done \in Nat /\ Len(buffer) \in Nat /\ Len(text) = Len(buffer)
  BY MaterialType, BufferIsSequence DEF Inv, TypeOK
<1>3. done + 1 \in 1 .. Len(buffer)
  BY <1>1, <1>2
<1>4. This \in Block
  BY <1>2, <1>3, BufferIsSequence DEF This
<1>5. x \in Block
  BY <1>2, <1>4, RoundType
<1>6. /\ buffer'[done + 1] = x
      /\ \A j \in 1 .. Len(buffer) : j # done + 1 => buffer'[j] = buffer[j]
  BY <1>1, <1>2, <1>3, <1>5, BufferUpdate
<1>7. SealInv'
  <2>1. /\ messageKey = MessageKey(call.direction, call.key, text)
        /\ \A n \in 1 .. Len(text) : n > done => buffer[n] = text[n]
        /\ \A n \in 1 .. Len(text) : n <= done => Chained(m, text, buffer, n)
        /\ previousC = Before(buffer, m.head, done)
        /\ previousP = Before(text, m.tail, done)
    BY <1>1 DEF Inv, SealInv
  <2>2. This = text[done + 1]
    BY <1>2, <1>3, <2>1 DEF This
  <2>3. \A n \in 1 .. Len(text) : n > done + 1 => buffer'[n] = text[n]
    BY <1>2, <1>6, <2>1
  <2>4. \A n \in 0 .. done : Before(buffer', m.head, n) = Before(buffer, m.head, n)
    BY <1>2, <1>3, <1>6 DEF Before
  <2>5. ASSUME NEW n \in 1 .. Len(text), n <= done
        PROVE  Chained(m, text, buffer', n)
    <3>1. n - 1 \in 0 .. done /\ n \in 1 .. Len(buffer) /\ n # done + 1
      BY <1>2, <2>5
    <3>2. Before(buffer', m.head, n - 1) = Before(buffer, m.head, n - 1)
          /\ buffer'[n] = buffer[n]
      BY <1>6, <2>4, <3>1
    <3> QED
      BY <2>1, <2>5, <3>2 DEF Chained
  <2>6. Chained(m, text, buffer', done + 1)
    <3>1. (done + 1) - 1 = done /\ done \in 0 .. done
      BY <1>2
    <3>2. Before(buffer', m.head, done) = previousC
      BY <2>1, <2>4, <3>1
    <3>3. x = Xor(Encrypt(m.key, Xor(text[done + 1], Before(buffer', m.head, done))),
                  Before(text, m.tail, done))
      BY <2>1, <2>2, <3>2
    <3> QED
      BY <1>6, <3>1, <3>3 DEF Chained
  <2>7. \A n \in 1 .. Len(text) : n <= done + 1 => Chained(m, text, buffer', n)
    <3> SUFFICES ASSUME NEW n \in 1 .. Len(text), n <= done + 1
                 PROVE  Chained(m, text, buffer', n)
      OBVIOUS
    <3>1. n <= done \/ n = done + 1
      BY <1>2
    <3> QED
      BY <2>5, <2>6, <3>1
  <2>8. previousC' = Before(buffer', m.head, done + 1)
        /\ previousP' = Before(text, m.tail, done + 1)
    BY <1>1, <1>2, <2>2 DEF Before
  <2> HIDE DEF m, text
  <2>9. m' = m /\ text' = text
    BY <1>1 DEF m, text
  <2> QED
    BY <1>1, <2>1, <2>3, <2>7, <2>8, <2>9 DEF SealInv, m, text
<1>8. PacketInv' /\ OpenInv' /\ KeyInv' /\ OpensWhatWasSealed' /\ NothingUnverified'
  <2>1. PacketInv' /\ KeyInv'
    BY <1>1 DEF Inv, PacketInv, KeyInv
  <2>2. OpenInv' /\ OpensWhatWasSealed' /\ NothingUnverified'
    BY <1>1 DEF OpenInv, Receives, OpensWhatWasSealed, NothingUnverified
  <2> QED
    BY <2>1, <2>2
<1> QED
  BY <1>7, <1>8 DEF Inv

LEMMA DecryptBlockInv ==
    ASSUME Inv, TypeOK', DecryptBlock
    PROVE  Inv'
<1> DEFINE x == Xor(Decrypt(Current, Xor(This, previousP)), previousC)
<1>1. /\ running /\ running' /\ call' = call /\ call.op = "open" /\ done < Len(buffer)
      /\ done' = done + 1 /\ messageKey' = messageKey /\ given' = given
      /\ sealed' = sealed /\ result' = result
      /\ buffer' = [buffer EXCEPT ![done + 1] = x]
      /\ previousP' = buffer'[done + 1] /\ previousC' = This
  BY DEF DecryptBlock, Looping
<1>2. Current \in AesKey /\ buffer \in Buffers /\ previousC \in Block /\ previousP \in Block
      /\ done \in Nat /\ Len(buffer) \in Nat /\ Len(given.buffer) = Len(buffer)
  BY MaterialType, BufferIsSequence DEF Inv, TypeOK, Current
<1>3. done + 1 \in 1 .. Len(buffer)
  BY <1>1, <1>2
<1>4. This \in Block
  BY <1>2, <1>3, BufferIsSequence DEF This
<1>5. x \in Block
  BY <1>2, <1>4, RoundType
<1>6. /\ buffer'[done + 1] = x
      /\ \A j \in 1 .. Len(buffer) : j # done + 1 => buffer'[j] = buffer[j]
  BY <1>1, <1>2, <1>3, <1>5, BufferUpdate
<1> HIDE DEF x
<1>7. OpenInv'
  <2> SUFFICES ASSUME NEW p \in sealed, Receives(p)
               PROVE  /\ \A n \in 1 .. Len(p.text) :
                            buffer'[n] = IF n <= done + 1 THEN p.text[n] ELSE p.cipher[n]
                      /\ previousC' = Before(p.cipher, MaterialOf(p).head, done + 1)
                      /\ previousP' = Before(p.text, MaterialOf(p).tail, done + 1)
    BY <1>1 DEF OpenInv, Receives
  <2> DEFINE m == MaterialOf(p)
  <2>1. /\ \A n \in 1 .. Len(p.text) :
              buffer[n] = IF n <= done THEN p.text[n] ELSE p.cipher[n]
        /\ previousC = Before(p.cipher, m.head, done)
        /\ previousP = Before(p.text, m.tail, done)
    BY <1>1 DEF Inv, OpenInv
  <2>2. /\ p.text \in Buffers /\ p.cipher \in Buffers
        /\ Len(p.cipher) = Len(p.text) /\ Len(buffer) = Len(p.text)
        /\ \A n \in 1 .. Len(p.text) : Chained(m, p.text, p.cipher, n)
    BY <1>2 DEF Inv, TypeOK, Packets, PacketInv, Receives
  <2>3. m.key = Current
    BY <1>1 DEF Inv, KeyInv, Receives, MaterialOf, Current
  <2>4. This = p.cipher[done + 1]
    BY <1>2, <1>3, <2>1, <2>2 DEF This
  <2>5. p.text[done + 1] \in Block
    BY <1>3, <2>2, BufferIsSequence
  <2>6. This = Xor(Encrypt(Current, Xor(p.text[done + 1], previousC)), previousP)
    <3>1. Chained(m, p.text, p.cipher, done + 1) /\ (done + 1) - 1 = done
      BY <1>2, <1>3, <2>2
    <3> QED
      BY <2>1, <2>3, <2>4, <3>1 DEF Chained
  <2>7. x = p.text[done + 1]
    BY <1>2, <2>5, <2>6, RoundUndone DEF x
  <2>8. ASSUME NEW n \in 1 .. Len(p.text)
        PROVE  buffer'[n] = IF n <= done + 1 THEN p.text[n] ELSE p.cipher[n]
    <3>1. CASE n = done + 1
      BY <1>2, <1>6, <2>7, <3>1
    <3>2. CASE n # done + 1
      BY <1>2, <1>6, <2>1, <2>2, <3>2
    <3> QED
      BY <3>1, <3>2
  <2>9. previousC' = Before(p.cipher, m.head, done + 1)
        /\ previousP' = Before(p.text, m.tail, done + 1)
    BY <1>1, <1>2, <1>6, <2>4, <2>7 DEF Before
  <2> QED
    BY <2>8, <2>9
<1>8. SealInv' /\ PacketInv' /\ KeyInv' /\ OpensWhatWasSealed' /\ NothingUnverified'
  <2>1. PacketInv' /\ KeyInv'
    BY <1>1 DEF Inv, PacketInv, KeyInv
  <2>2. SealInv' /\ OpensWhatWasSealed' /\ NothingUnverified'
    BY <1>1 DEF SealInv, OpensWhatWasSealed, NothingUnverified
  <2> QED
    BY <2>1, <2>2
<1> QED
  BY <1>7, <1>8 DEF Inv

-----------------------------------------------------------------------------
LEMMA EndSealInv ==
    ASSUME Inv, TypeOK', EndSeal
    PROVE  Inv'
<1> DEFINE new == [direction |-> call.direction, key |-> call.key,
                   text |-> given.buffer, cipher |-> buffer, messageKey |-> messageKey]
<1>1. /\ running /\ ~running' /\ call' = call /\ call.op = "seal" /\ done = Len(buffer)
      /\ messageKey' = messageKey /\ sealed' = sealed \cup {new}
  BY DEF EndSeal, Ending
<1>2. new.messageKey = MessageKey(new.direction, new.key, new.text)
  BY <1>1 DEF Inv, SealInv
<1>3. Len(new.cipher) = Len(new.text) /\ Len(new.text) = done
  BY <1>1 DEF Inv, TypeOK
<1>4. \A n \in 1 .. Len(new.text) : Chained(MaterialOf(new), new.text, new.cipher, n)
  BY <1>1, <1>3 DEF Inv, SealInv, MaterialOf
<1>5. PacketInv'
  BY <1>1, <1>2, <1>3, <1>4 DEF Inv, PacketInv
<1>6. KeyInv'
  <2>1. new \in sealed' /\ new.messageKey = messageKey
    BY <1>1
  <2>2. messageKey' \in {p.messageKey : p \in sealed'}
    BY <1>1, <2>1
  <2> HIDE DEF new
  <2> QED
    BY <1>1, <2>2 DEF KeyInv
<1>7. SealInv' /\ OpenInv' /\ OpensWhatWasSealed' /\ NothingUnverified'
  BY <1>1 DEF SealInv, OpenInv, OpensWhatWasSealed, NothingUnverified
<1> QED
  BY <1>5, <1>6, <1>7 DEF Inv

(* At the end of open, a packet as it was sealed has become its text, and  *)
(* its message key is the one that is compared.                            *)
LEMMA EndOpenText ==
    ASSUME Inv, running, done = Len(buffer), NEW p \in sealed, Receives(p)
    PROVE  buffer = p.text /\ Verified
<1>1. p.text \in Buffers /\ p.cipher \in Buffers /\ Len(p.cipher) = Len(p.text)
      /\ p.messageKey = MessageKey(p.direction, p.key, p.text)
  BY DEF Inv, TypeOK, Packets, PacketInv
<1>2. Len(buffer) = Len(p.text) /\ Len(buffer) \in Nat
  BY <1>1, BufferIsSequence DEF Inv, TypeOK, Receives
<1>3. \A n \in 1 .. Len(p.text) : buffer[n] = p.text[n]
  BY <1>2 DEF Inv, OpenInv
<1>4. buffer \in Seq(Block) /\ p.text \in Seq(Block)
  BY <1>1, BufferIsSequence DEF Inv, TypeOK
<1>5. buffer = p.text
  BY <1>2, <1>3, <1>4, SeqEqual
<1>6. messageKey = p.messageKey /\ call.direction = p.direction /\ call.key = p.key
  BY DEF Inv, KeyInv, Receives
<1> QED
  BY <1>1, <1>5, <1>6 DEF Verified

LEMMA EndOpenInv ==
    ASSUME Inv, TypeOK', EndOpen \/ EndOpenRefused
    PROVE  Inv'
<1>1. /\ running /\ ~running' /\ call' = call /\ call.op = "open" /\ done = Len(buffer)
      /\ messageKey' = messageKey /\ given' = given /\ sealed' = sealed
      /\ EndOpen => result' = "ok" /\ buffer' = buffer /\ Verified
      /\ EndOpenRefused => /\ result' = "Authentication" /\ ~Verified
                           /\ buffer' = [i \in DOMAIN buffer |-> Zero]
  BY DEF EndOpen, EndOpenRefused, Ending
<1>2. SealInv' /\ PacketInv' /\ OpenInv' /\ KeyInv'
  BY <1>1 DEF Inv, SealInv, PacketInv, OpenInv, KeyInv
<1>3. OpensWhatWasSealed'
  <2> SUFFICES ASSUME NEW p \in sealed, Receives(p)
               PROVE  result' = "ok" /\ buffer' = p.text
    BY <1>1 DEF OpensWhatWasSealed, Receives
  <2>1. buffer = p.text /\ Verified
    BY <1>1, EndOpenText
  <2> QED
    BY <1>1, <2>1
<1>4. NothingUnverified'
  <2>1. CASE EndOpen
    BY <1>1, <2>1 DEF NothingUnverified, Verified
  <2>2. CASE EndOpenRefused
    BY <1>1, <2>2 DEF NothingUnverified
  <2> QED
    BY <2>1, <2>2
<1> QED
  BY <1>2, <1>3, <1>4 DEF Inv

LEMMA InvStep == Inv /\ [Next]_vars => Inv'
<1> SUFFICES ASSUME Inv, [Next]_vars PROVE Inv'
  OBVIOUS
<1>1. TypeOK /\ TypeOK'
  BY TypeStep DEF Inv
<1>2. CASE Next
  BY <1>1, <1>2, NextCases, BeginSealInv, RefuseInv, BeginOpenInv, EncryptBlockInv,
     DecryptBlockInv, EndSealInv, EndOpenInv
<1>3. CASE UNCHANGED vars
  BY <1>1, <1>3 DEF vars, registers, Inv, SealInv, PacketInv, OpenInv, KeyInv, Receives,
     OpensWhatWasSealed, NothingUnverified, Verified
<1> QED
  BY <1>2, <1>3

-----------------------------------------------------------------------------
(* The variables keep their types, and neither loop leaves the buffer.     *)
THEOREM TypeCorrect == Spec => []TypeOK
<1>1. TypeOK /\ [Next]_vars => TypeOK'
  BY TypeStep
<1> QED
  BY <1>1, TypeInit, PTL DEF Spec

LEMMA AlwaysInv == Spec => []Inv
BY InvInit, InvStep, PTL DEF Spec

(* Whatever the cipher, the text and the key are: a packet that arrives as *)
(* it was sealed, at a receiver of its direction and key, opens to its     *)
(* text.                                                                   *)
THEOREM SealedOpens == Spec => []OpensWhatWasSealed
<1>1. Inv => OpensWhatWasSealed
  BY DEF Inv
<1> QED
  BY <1>1, AlwaysInv, PTL

(* What open reports as authentic is a text the peer sealed in this        *)
(* direction and under this key, if the hash has no collisions.            *)
THEOREM OnlySealedAccepted == Spec => []AcceptsOnlySealed
BY InvAccepts, AlwaysInv, PTL

(* No caller sees a decryption that was not verified.                      *)
THEOREM UnverifiedIsWiped == Spec => []NothingUnverified
<1>1. Inv => NothingUnverified
  BY DEF Inv
<1> QED
  BY <1>1, AlwaysInv, PTL

-----------------------------------------------------------------------------
(* Division.                                                               *)
LEMMA LeastNatural ==
    ASSUME NEW S \in SUBSET Nat, S # {}
    PROVE  \E n \in S : \A m \in S : n <= m
<1> DEFINE R == OpToRel(<, Nat)
<1>1. IsWellFoundedOn(R, Nat)
  BY NatLessThanWellFounded, Zenon
<1>2. \A i, j \in Nat : j < i => <<j, i>> \in R
  BY DEF OpToRel
<1> HIDE DEF R
<1>3. PICK i \in S : \A j \in S : ~ (<<j, i>> \in R)
  BY <1>1, WFMin, Zenon
<1>4. \A j \in S : ~ (j < i)
  BY <1>2, <1>3
<1>5. i \in Nat /\ \A j \in S : j \in Nat
  OBVIOUS
<1>6. \A j \in S : i <= j
  BY <1>4, <1>5, SMT
<1> QED
  BY <1>6, Zenon

LEMMA Division ==
    ASSUME NEW b \in Nat \ {0}, NEW n \in Nat
    PROVE  /\ n \div b \in Nat /\ n % b \in 0 .. b - 1
           /\ n = b * (n \div b) + (n % b)
  OBVIOUS

LEMMA Larger ==
    ASSUME NEW b \in Nat, NEW p \in Nat, NEW q \in Nat, p < q
    PROVE  b * p + b <= b * q
<1>1. PICK e \in Nat : q = p + 1 + e
  <2>1. q - p - 1 \in Nat /\ q = p + 1 + (q - p - 1)
    OBVIOUS
  <2> QED
    BY <2>1
<1>2. b * (p + 1 + e) = b * p + b + b * e /\ b * e >= 0
  OBVIOUS
<1> QED
  BY <1>1, <1>2

(* The quotient of a multiple.                                             *)
LEMMA OfMultiple ==
    ASSUME NEW b \in Nat \ {0}, NEW k \in Nat
    PROVE  b * k \in Nat /\ (b * k) % b = 0 /\ (b * k) \div b = k
<1>1. b * k \in Nat
  OBVIOUS
<1>2. PICK p \in Nat, s \in 0 .. b - 1 :
         p = (b * k) \div b /\ s = (b * k) % b /\ b * k = b * p + s
  <2> DEFINE n == b * k
  <2>1. n \in Nat
    BY <1>1
  <2> HIDE DEF n
  <2>2. \E p \in Nat, s \in 0 .. b - 1 : p = n \div b /\ s = n % b /\ n = b * p + s
    BY <2>1, Division
  <2> QED
    BY <2>2 DEF n
<1>3. ~ (p < k)
  <2>1. SUFFICES ASSUME p < k PROVE FALSE
    OBVIOUS
  <2>2. b * p + b <= b * k
    BY <2>1, Larger
  <2>3. b * p \in Nat
    OBVIOUS
  <2> QED
    BY <1>1, <1>2, <2>2, <2>3
<1>4. ~ (k < p)
  <2>1. SUFFICES ASSUME k < p PROVE FALSE
    OBVIOUS
  <2>2. b * k + b <= b * p
    BY <2>1, Larger
  <2>3. b * p \in Nat
    OBVIOUS
  <2> QED
    BY <1>1, <1>2, <2>2, <2>3
<1>5. p = k
  BY <1>3, <1>4
<1>6. s = 0
  BY <1>1, <1>2, <1>5
<1> QED
  BY <1>1, <1>2, <1>5, <1>6

LEMMA Multiple ==
    ASSUME NEW b \in Nat \ {0}, NEW n \in Nat
    PROVE  n % b = 0 <=> \E k \in Nat : n = b * k
<1>1. ASSUME n % b = 0
      PROVE  \E k \in Nat : n = b * k
  <2>1. n \div b \in Nat /\ n = b * (n \div b) + 0
    BY <1>1, Division
  <2>2. n = b * (n \div b)
    BY <2>1
  <2> QED
    BY <2>1, <2>2, Zenon
<1>2. ASSUME NEW k \in Nat, n = b * k
      PROVE  n % b = 0
  BY <1>2, OfMultiple
<1> QED
  BY <1>1, <1>2

(* Two factors other than 1 are less than their product.                   *)
LEMMA FactorSize ==
    ASSUME NEW a \in Nat, NEW b \in Nat, a * b > 0
    PROVE  /\ a >= 1 /\ b >= 1 /\ a <= a * b /\ b <= a * b
           /\ (a > 1 => b < a * b) /\ (b > 1 => a < a * b)
<1>1. a # 0 /\ b # 0
  OBVIOUS
<1>2. PICK i \in Nat, j \in Nat : a = i + 1 /\ b = j + 1
  <2>1. a - 1 \in Nat /\ b - 1 \in Nat
    BY <1>1
  <2> QED
    BY <2>1
<1>3. (i + 1) * (j + 1) = i * j + i + j + 1 /\ i * j >= 0
  OBVIOUS
<1>4. i * j \in Nat
  OBVIOUS
<1> QED
  BY <1>2, <1>3, <1>4

LEMMA Distribute ==
    ASSUME NEW m \in Nat, NEW q \in Nat, NEW r \in Nat, NEW b \in Nat
    PROVE  (m * q + r) * b = q * (m * b) + r * b
  OBVIOUS

LEMMA Cancel ==
    ASSUME NEW p \in Nat \ {0}, NEW a \in Nat, NEW b \in Nat, p * a = p * b
    PROVE  a = b
<1>1. (p * a) \div p = a /\ (p * b) \div p = b
  BY OfMultiple
<1> QED
  BY <1>1

-----------------------------------------------------------------------------
(* The greatest common divisor exists, and divides.                        *)
LEMMA GcdDivides ==
    ASSUME NEW a \in Nat, NEW b \in Nat \ {0}
    PROVE  Gcd(a, b) \in 1 .. b /\ b % Gcd(a, b) = 0
<1> DEFINE Common(g) == a % g = 0 /\ b % g = 0
           S == {i \in 0 .. b - 1 : Common(b - i)}
<1>1. b - 1 \in S
  <2>1. b - (b - 1) = 1 /\ a % 1 = 0 /\ b % 1 = 0
    OBVIOUS
  <2> QED
    BY <2>1
<1>2. PICK i \in S : \A j \in S : i <= j
  <2>1. S \in SUBSET Nat
    OBVIOUS
  <2>2. S # {}
    BY <1>1, Zenon
  <2> HIDE DEF S
  <2> QED
    BY <2>1, <2>2, LeastNatural, Zenon
<1>3. b - i \in 1 .. b /\ Common(b - i)
  BY <1>2
<1>4. ASSUME NEW h \in b - i + 1 .. b
      PROVE  ~Common(h)
  <2>1. SUFFICES ASSUME Common(h) PROVE FALSE
    OBVIOUS
  <2>2. b - h \in 0 .. b - 1 /\ b - (b - h) = h /\ b - h < i
    BY <1>4
  <2>3. b - h \in S
    BY <2>1, <2>2
  <2> QED
    BY <1>2, <2>2, <2>3
<1>5. \E g \in 1 .. b : /\ a % g = 0 /\ b % g = 0
                        /\ \A h \in g + 1 .. b : ~(a % h = 0 /\ b % h = 0)
  BY <1>3, <1>4
<1> QED
  BY <1>5, Zenon DEF Gcd

(* Euclid's lemma.  The least factor of which p divides the product with b *)
(* divides every such factor, p among them.                                *)
LEMMA PrimeDividesFactor ==
    ASSUME NEW p \in Nat, Prime(p), NEW a \in Nat, NEW b \in Nat, (a * b) % p = 0
    PROVE  a % p = 0 \/ b % p = 0
<1> DEFINE S == {i \in Nat \ {0} : (i * b) % p = 0}
<1>1. p \in Nat \ {0} /\ p > 1
  BY DEF Prime
<1>2. p \in S
  BY <1>1, OfMultiple
<1>3. PICK m \in S : \A i \in S : m <= i
  BY <1>2, LeastNatural
<1>4. PICK u \in Nat : m * b = p * u
  <2>1. m * b \in Nat /\ (m * b) % p = 0
    BY <1>3
  <2> QED
    BY <1>1, <2>1, Multiple
<1>5. ASSUME NEW i \in S
      PROVE  i % m = 0
  <2>1. m \in Nat \ {0} /\ i \in Nat
    BY <1>3, <1>5
  <2>2. PICK q \in Nat, r \in 0 .. m - 1 : q = i \div m /\ r = i % m /\ i = m * q + r
    <3>1. /\ i \div m \in Nat /\ i % m \in 0 .. m - 1
          /\ i = m * (i \div m) + (i % m)
      BY <2>1, Division
    <3> QED
      BY <3>1, Zenon
  <2>3. PICK v \in Nat : i * b = p * v
    <3>1. i * b \in Nat /\ (i * b) % p = 0
      BY <1>5
    <3> QED
      BY <1>1, <3>1, Multiple
  <2>4. r * b = p * (v - q * u)
    <3>1. i * b = q * (m * b) + r * b
      <4>1. (m * q + r) * b = q * (m * b) + r * b
        <5>1. m \in Nat /\ q \in Nat /\ r \in Nat
          BY <2>1, <2>2
        <5> QED
          BY <5>1, Distribute, SMT
      <4> QED
        BY <2>2, <4>1
    <3>2. p * v = q * (p * u) + r * b
      BY <1>4, <2>3, <3>1
    <3> QED
      BY <1>1, <3>2
  <2>5. CASE v - q * u < 0
    <3>1. PICK w \in Nat : v - q * u = -1 - w
      <4>1. -1 - (v - q * u) \in Nat /\ v - q * u = -1 - (-1 - (v - q * u))
        BY <2>5
      <4> QED
        BY <4>1
    <3>2. r * b = - p - p * w
      BY <1>1, <2>4, <3>1
    <3>3. r * b >= 0 /\ p * w >= 0
      BY <1>1, <2>2
    <3> QED
      BY <1>1, <3>2, <3>3
  <2>6. CASE v - q * u >= 0
    <3>1. v - q * u \in Nat /\ r * b \in Nat
      BY <2>2, <2>6
    <3>2. (r * b) % p = 0
      BY <1>1, <2>4, <3>1, Multiple
    <3>3. r = 0
      BY <1>3, <2>1, <2>2, <3>2
    <3> QED
      BY <2>2, <3>3
  <2> QED
    BY <2>5, <2>6
<1>6. p % m = 0 /\ m \in 1 .. p
  BY <1>2, <1>3, <1>5
<1>7. m = 1 \/ m = p
  <2>1. \A k \in 2 .. p - 1 : p % k # 0
    BY DEF Prime
  <2>2. m \notin 2 .. p - 1
    BY <1>6, <2>1, Zenon
  <2>3. m \in Nat
    BY <1>6
  <2> QED
    BY <1>6, <2>2, <2>3
<1>8. CASE m = 1
  <2>1. (1 * b) % p = 0
    BY <1>3, <1>8
  <2> QED
    BY <2>1
<1>9. CASE m = p
  <2>1. CASE a = 0
    BY <1>1, <2>1
  <2>2. CASE a # 0
    BY <1>5, <1>9, <2>2
  <2> QED
    BY <2>1, <2>2
<1> QED
  BY <1>7, <1>8, <1>9

(* A product of two primes has no other factors.                           *)
LEMMA OnlyFactors ==
    ASSUME NEW p \in Nat, NEW q \in Nat, Prime(p), Prime(q), p <= q,
           NEW a \in Nat, NEW b \in Nat, a * b = p * q, 1 < a, a <= b
    PROVE  a = p /\ b = q
<1>1. p \in Nat \ {0} /\ q \in Nat \ {0} /\ p > 1 /\ q > 1
  BY DEF Prime
<1>2. ASSUME NEW k \in Nat, NEW e \in Nat, k * e = q, e > 1
      PROVE  e = q /\ k = 1
  <2>1. e * k = q /\ e \in Nat \ {0}
    BY <1>2
  <2>2. q % e = 0
    BY <2>1, Multiple
  <2>3. e <= q
    BY <1>1, <1>2, FactorSize
  <2>4. e \notin 2 .. q - 1
    <3>1. \A j \in 2 .. q - 1 : q % j # 0
      BY DEF Prime
    <3> QED
      BY <2>2, <3>1, Zenon
  <2>5. e = q
    BY <1>2, <2>3, <2>4
  <2>6. q * k = q * 1
    BY <1>1, <2>1, <2>5
  <2>7. k = 1
    BY <1>1, <2>6, Cancel
  <2> QED
    BY <2>5, <2>7
<1>3. (a * b) % p = 0
  BY <1>1, OfMultiple
<1>4. a % p = 0 \/ b % p = 0
  BY <1>3, PrimeDividesFactor
<1>5. CASE a % p = 0
  <2>1. PICK k \in Nat : a = p * k
    BY <1>1, <1>5, Multiple
  <2>2. p * (k * b) = p * q
    BY <2>1
  <2>3. k * b = q
    <3>1. k * b \in Nat
      BY <2>1
    <3> QED
      BY <1>1, <2>2, <3>1, Cancel
  <2>4. b = q /\ k = 1
    BY <1>2, <2>1, <2>3
  <2> QED
    BY <1>1, <2>1, <2>4
<1>6. CASE b % p = 0
  <2>1. PICK k \in Nat : b = p * k
    BY <1>1, <1>6, Multiple
  <2>2. p * (k * a) = p * q
    BY <2>1
  <2>3. k * a = q
    <3>1. k * a \in Nat
      BY <2>1
    <3> QED
      BY <1>1, <2>2, <3>1, Cancel
  <2>4. a = q /\ k = 1
    BY <1>2, <2>1, <2>3
  <2> QED
    BY <1>1, <2>1, <2>4
<1> QED
  BY <1>4, <1>5, <1>6

-----------------------------------------------------------------------------
(* What the walk and its end rest on: the common factor divides pq.        *)
FactorTypes ==
    /\ pq \in Nat /\ seed \in Nat /\ attempt \in Nat
    /\ divisor \in Nat \ {0} /\ pq % divisor = 0
    /\ Factorable(pq) => constant \in Nat /\ tortoise \in Nat /\ hare \in Nat

IsSplitting(a, b) == a \in Nat /\ b \in Nat /\ a * b = pq /\ 1 < a /\ a <= b /\ b <= MaxFactor

Outcome ==
    \/ outcome \in {<<>>, <<"InvalidPacket">>, <<"LimitExceeded">>}
    \/ \E a, b \in Nat : outcome = <<a, b>> /\ IsSplitting(a, b)

FactorInv == FactorTypes /\ Outcome

LEMMA StartType ==
    ASSUME NEW m \in Nat, m >= 15, NEW s \in Nat, NEW c \in Nat
    PROVE  Start(m, s, c) \in Nat
<1> DEFINE b == m - 3
           n == s + c
<1>1. b \in Nat \ {0} /\ n \in Nat
  OBVIOUS
<1> HIDE DEF b, n
<1>2. n % b \in Nat
  BY <1>1, Division
<1>3. 2 + (n % b) \in Nat
  BY <1>2
<1> QED
  BY <1>3 DEF b, n, Start

LEMMA DistanceType ==
    ASSUME NEW a \in Nat, NEW b \in Nat
    PROVE  Distance(a, b) \in Nat
  BY DEF Distance

LEMMA FactorInvInit == FactorInit => FactorInv
<1> SUFFICES ASSUME FactorInit PROVE FactorInv
  OBVIOUS
<1>1. /\ pq \in Nat /\ seed \in Nat /\ attempt \in Nat /\ Outcome
      /\ divisor \in Nat \ {0} /\ pq % divisor = 0
  BY NumbersAssumption DEF FactorInit, Outcome
<1>2. ASSUME Factorable(pq)
      PROVE  constant \in Nat /\ tortoise \in Nat /\ hare \in Nat
  <2>1. pq >= 15 /\ constant = 1 + (seed % (pq - 1)) /\ tortoise = Start(pq, seed, constant)
        /\ hare = tortoise
    BY <1>2 DEF FactorInit, Factorable
  <2>2. constant \in Nat
    BY <1>1, <2>1
  <2>4. tortoise \in Nat
    BY <1>1, <2>1, <2>2, StartType
  <2> QED
    BY <1>1, <2>1, <2>2, <2>4
<1> QED
  BY <1>1, <1>2 DEF FactorInv, FactorTypes

LEMMA RoundInv == ASSUME FactorInv, Round PROVE FactorInv'
<1>1. /\ pq \in Nat /\ Factorable(pq) /\ pq >= 15 /\ constant \in Nat
      /\ tortoise \in Nat /\ hare \in Nat
  BY DEF FactorInv, FactorTypes, Round, Factorable
<1>2. ASSUME NEW z \in Nat PROVE Walk(z) \in Nat
  <2>1. z * z + constant \in Nat
    BY <1>1
  <2> HIDE DEF FactorInv
  <2>2. (z * z + constant) % pq \in Nat
    BY <1>1, <2>1, Division
  <2> QED
    BY <2>2 DEF Walk
<1>3. /\ tortoise' = Walk(tortoise) /\ hare' = Walk(Walk(hare))
      /\ divisor' = Gcd(Distance(tortoise', hare'), pq)
      /\ UNCHANGED <<pq, seed, constant, attempt, outcome>>
  BY DEF Round
<1>4. tortoise' \in Nat /\ hare' \in Nat
  BY <1>1, <1>2, <1>3
<1>5. Distance(tortoise', hare') \in Nat
  BY <1>4, DistanceType
<1>6. divisor' \in Nat \ {0} /\ pq % divisor' = 0
  BY <1>1, <1>3, <1>5, GcdDivides
<1>7. FactorTypes'
  BY <1>1, <1>3, <1>4, <1>6 DEF FactorInv, FactorTypes
<1>8. Outcome'
  BY <1>3 DEF FactorInv, Outcome, IsSplitting
<1> QED
  BY <1>7, <1>8 DEF FactorInv

(* The two numbers that a common factor gives.                             *)
LEMMA SplitInv == ASSUME FactorInv, Split PROVE FactorInv'
<1>1. /\ divisor > 1 /\ divisor < pq /\ divisor <= MaxFactor
      /\ pq \div divisor <= MaxFactor /\ Running
      /\ outcome' = <<Lesser(divisor, pq \div divisor), pq \div Lesser(divisor, pq \div divisor)>>
      /\ UNCHANGED <<pq, seed, constant, attempt, tortoise, hare, divisor, round>>
  BY DEF Split, Splits, AttemptEnds
<1>2. FactorTypes'
  BY <1>1 DEF FactorInv, FactorTypes
<1>4. divisor \in Nat \ {0} /\ pq \in Nat /\ pq % divisor = 0
  BY <1>1 DEF FactorInv, FactorTypes
<1>5. PICK k \in Nat : pq = divisor * k
  BY <1>4, Multiple
<1>6. pq \div divisor = k
  BY <1>4, <1>5, OfMultiple
<1>7. k > 1
  <2>1. k # 0
    BY <1>1, <1>4, <1>5
  <2>2. k # 1
    BY <1>1, <1>4, <1>5
  <2> QED
    BY <1>5, <2>1, <2>2
<1>8. pq \div k = divisor
  <2>1. k \in Nat \ {0} /\ pq = k * divisor
    BY <1>4, <1>5, <1>7
  <2> QED
    BY <1>4, <2>1, OfMultiple
<1>9. CASE divisor < k
  <2>1. outcome' = <<divisor, k>>
    BY <1>1, <1>6, <1>9 DEF Lesser
  <2>2. IsSplitting(divisor, k)'
    BY <1>1, <1>4, <1>5, <1>6, <1>9 DEF IsSplitting
  <2>3. IsSplitting(divisor, k)
    BY <1>1, <1>4, <1>5, <1>6, <1>9 DEF IsSplitting
  <2>4. Outcome'
    BY <1>1, <1>4, <2>1, <2>3 DEF Outcome, IsSplitting
  <2> QED
    BY <1>2, <2>4 DEF FactorInv
<1>10. CASE ~ (divisor < k)
  <2>1. outcome' = <<k, divisor>>
    BY <1>1, <1>6, <1>8, <1>10 DEF Lesser
  <2>2. IsSplitting(k, divisor)
    BY <1>1, <1>4, <1>5, <1>7, <1>10 DEF IsSplitting
  <2>3. Outcome'
    BY <1>1, <1>4, <2>1, <2>2 DEF Outcome, IsSplitting
  <2> QED
    BY <1>2, <2>3 DEF FactorInv
<1> QED
  BY <1>9, <1>10

LEMMA RetryInv == ASSUME FactorInv, Retry PROVE FactorInv'
<1>1. /\ attempt' = attempt + 1 /\ constant' = constant + 2
      /\ tortoise' = Start(pq, seed, constant') /\ hare' = tortoise' /\ divisor' = 1
      /\ UNCHANGED <<pq, seed, outcome>>
  BY DEF Retry
<1>2. Outcome' /\ attempt' \in Nat /\ pq' \in Nat /\ seed' \in Nat
  BY <1>1 DEF FactorInv, FactorTypes, Outcome, IsSplitting
<1>3. ASSUME Factorable(pq)
      PROVE  constant' \in Nat /\ tortoise' \in Nat /\ hare' \in Nat
  <2>1. pq \in Nat /\ pq >= 15 /\ seed \in Nat /\ constant' \in Nat
    BY <1>1, <1>3 DEF FactorInv, FactorTypes, Factorable
  <2>3. tortoise' \in Nat
    BY <1>1, <2>1, StartType
  <2> QED
    BY <1>1, <2>1, <2>3
<1>4. divisor' \in Nat \ {0} /\ pq % divisor' = 0
  BY <1>1 DEF FactorInv, FactorTypes
<1> QED
  BY <1>1, <1>2, <1>3, <1>4 DEF FactorInv, FactorTypes

LEMMA FactorInvStep == FactorInv /\ [FactorNext]_factorVars => FactorInv'
<1> SUFFICES ASSUME FactorInv, [FactorNext]_factorVars
             PROVE  FactorInv'
  OBVIOUS
<1>1. CASE Unfactorable
  BY <1>1 DEF Unfactorable, FactorInv, FactorTypes, Outcome, IsSplitting
<1>2. CASE Round
  BY <1>2, RoundInv
<1>3. CASE Split
  BY <1>3, SplitInv
<1>4. CASE Retry
  BY <1>4, RetryInv
<1>5. CASE GiveUp
  BY <1>5 DEF GiveUp, FactorInv, FactorTypes, Outcome, IsSplitting
<1>6. CASE UNCHANGED factorVars
  BY <1>6 DEF factorVars, FactorInv, FactorTypes, Outcome, IsSplitting
<1> QED
  BY <1>1, <1>2, <1>3, <1>4, <1>5, <1>6 DEF FactorNext

LEMMA SplittingIsPrime == FactorInv => FactorsAreThePrimes
<1> SUFFICES ASSUME FactorInv, Len(outcome) = 2
             PROVE  /\ outcome[1] * outcome[2] = pq
                    /\ 1 < outcome[1] /\ outcome[1] <= outcome[2] /\ outcome[2] <= MaxFactor
                    /\ \A p \in 2 .. pq : IsProduct(p) => outcome = <<p, pq \div p>>
  BY DEF FactorsAreThePrimes
<1>1. PICK a \in Nat, b \in Nat : outcome = <<a, b>> /\ IsSplitting(a, b)
  <2>1. outcome \notin {<<>>, <<"InvalidPacket">>, <<"LimitExceeded">>}
    OBVIOUS
  <2> QED
    BY <2>1, Zenon DEF FactorInv, Outcome
<1>2. /\ outcome[1] = a /\ outcome[2] = b /\ a * b = pq /\ 1 < a /\ a <= b /\ b <= MaxFactor
      /\ pq \in Nat
  BY <1>1 DEF IsSplitting, FactorInv, FactorTypes
<1>3. ASSUME NEW p \in 2 .. pq, IsProduct(p)
      PROVE  outcome = <<p, pq \div p>>
  <2>1. p \in Nat \ {0} /\ pq % p = 0
    BY <1>2, <1>3 DEF IsProduct
  <2>2. PICK q \in Nat : pq = p * q
    BY <1>2, <2>1, Multiple
  <2>3. pq \div p = q
    BY <2>1, <2>2, OfMultiple
  <2>4. Prime(p) /\ Prime(q) /\ p <= q
    BY <1>3, <2>3 DEF IsProduct
  <2>5. a = p /\ b = q
    <3>1. p \in Nat /\ a * b = p * q /\ 1 < a /\ a <= b
      BY <1>2, <2>1, <2>2
    <3> QED
      BY <2>4, <3>1, OnlyFactors, Zenon
  <2> QED
    BY <1>1, <2>3, <2>5
<1> QED
  BY <1>2, <1>3

(* Whatever number, nonce and limits: two numbers that factor_pq returns   *)
(* are the factors of pq, and its primes if it is a product of two.        *)
THEOREM FactorsAreRight == FactorSpec => []FactorsAreThePrimes
BY FactorInvInit, FactorInvStep, SplittingIsPrime, PTL DEF FactorSpec
===============================================================================
