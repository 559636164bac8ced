---------------------------- MODULE MCCryptography ----------------------------
(***************************************************************************)
(* Two uses of numbers that must not be guessed, in one instance: a        *)
(* behaviour takes one subject and leaves the other in a first state.      *)
(* They share nothing.                                                     *)
(*                                                                         *)
(* "packet": the session cipher.  Blocks of two bits, a cipher that        *)
(* permutes them by one of two keys, and a hash that is what was hashed;   *)
(* the material depends on every part of what it is derived from.          *)
(*                                                                         *)
(* "factor": every product of two odd primes up to MaxNumber, and a few    *)
(* other numbers, with every first byte a nonce can have.                  *)
(***************************************************************************)
EXTENDS SessionCrypto, PqFactor

CONSTANT MaxNumber

VARIABLE subject

allVars == <<subject, vars, factorVars>>

-----------------------------------------------------------------------------
MCBlock == 0 .. 3
MCAesKey == 0 .. 1

MCXor(a, b) ==
    LET bit(n, i) == (n \div i) % 2
    IN  ((bit(a, 1) + bit(b, 1)) % 2) + 2 * ((bit(a, 2) + bit(b, 2)) % 2)

Permutation(k) == IF k = 0 THEN <<1, 3, 0, 2>> ELSE <<2, 0, 1, 3>>
MCEncrypt(k, b) == Permutation(k)[b + 1]
MCDecrypt(k, b) == (CHOOSE i \in 1 .. 4 : Permutation(k)[i] = b) - 1

MCAuthKeys == {1, 2}
MCNoise == {<<"noise">>}
MCSha256(data) == data

(* Too short, of two blocks and of three; equal blocks and distinct ones.  *)
MCTexts == {<<>>, <<1>>, <<0, 1>>, <<2, 2>>, <<3, 0, 1>>, <<1, 1, 1>>}

(* A number out of a message key and of a digest made of one.              *)
Weight(mkey) ==
    IF mkey \in Noise THEN 1
    ELSE LET text == mkey[2] IN text[1] + 2 * text[Len(text)] + mkey[1].from

(* The other digest of the pair has the same parts.                        *)
Number(a) ==
    (IF Len(a) = 2 /\ a[1] \notin Noise /\ a[1][2] = <<>> THEN 0 ELSE Weight(a[1]))
    + a[2].key + (a[2].from \div 8)

MCKeyOf(a, b) == Number(a) % 2
MCHeadOf(a, b) == Number(a) % 4
MCTailOf(a, b) == (Number(a) \div 2) % 4

-----------------------------------------------------------------------------
OddPrimes == {p \in 3 .. MaxNumber \div 3 : Prime(p)}

(* Too small, even, a prime, and a product of three.                       *)
Others == {9, 16, 17, 105}

MCNumbers == {m \in 15 .. MaxNumber : \E p, q \in OddPrimes : m = p * q} \cup Others
MCSeeds == 0 .. 255

-----------------------------------------------------------------------------
FixedPacket == Init /\ messageKey = CHOOSE m \in Noise : TRUE
FixedFactor ==
    /\ pq = 0 /\ seed = 0 /\ constant = 0 /\ attempt = 0 /\ tortoise = 0 /\ hare = 0
    /\ divisor = 1 /\ round = 0 /\ outcome = <<>>

MCInit ==
    \/ subject = "packet" /\ Init /\ FixedFactor
    \/ subject = "factor" /\ FixedPacket /\ FactorInit

PacketStep == subject = "packet" /\ Next /\ UNCHANGED <<subject, factorVars>>
FactorStep == subject = "factor" /\ FactorNext /\ UNCHANGED <<subject, vars>>

MCNext == PacketStep \/ FactorStep

MCSpec == MCInit /\ [][MCNext]_allVars
===============================================================================
