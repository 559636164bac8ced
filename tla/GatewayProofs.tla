---------------------------- MODULE GatewayProofs ----------------------------
(***************************************************************************)
(* What the receive loop relies on in the two codecs, for every stream     *)
(* prefix, every continuation of it and every limit; and, from that, what  *)
(* the loop guarantees: frames are handed over whole, once and in order,   *)
(* and the host never waits for bytes that cannot come.                    *)
(***************************************************************************)
EXTENDS GatewayStream, SequenceTheorems, WellFoundedInduction, TLAPS

(* Splitting a natural number in bytes and reading them back.              *)
LEMMA ByteSplit ==
    ASSUME NEW n \in Nat
    PROVE  /\ n % 256 \in 0 .. 255 /\ Shift(n) \in Nat
           /\ n = (n % 256) + 256 * Shift(n)
<1> QED
  BY DEF Shift

LEMMA SmallByte ==
    ASSUME NEW n \in 0 .. 255
    PROVE  n % 256 = n
<1> QED
  OBVIOUS

(* A payload length that encode admits reads back from the header, and its *)
(* top bit, the quick acknowledgement's marker, is clear.                  *)
LEMMA LengthRoundTrip ==
    ASSUME NEW n \in Nat, n <= MaxPayload("intermediate")
    PROVE  LE4(Bytes4(n)) = n /\ Bytes4(n)[4] < 128
<1> DEFINE p == Shift(n)
           q == Shift(p)
           r == Shift(q)
<1>a. n % 256 \in 0 .. 255 /\ p \in Nat /\ n = (n % 256) + 256 * p
  BY ByteSplit, Zenon
<1>b. p % 256 \in 0 .. 255 /\ q \in Nat /\ p = (p % 256) + 256 * q
  BY <1>a, ByteSplit, Zenon
<1>c. q % 256 \in 0 .. 255 /\ r \in Nat /\ q = (q % 256) + 256 * r
  BY <1>b, ByteSplit, Zenon
<1> HIDE DEF p, q, r
<1>1. /\ n % 256 \in 0 .. 255 /\ p \in Nat /\ n = (n % 256) + 256 * p
      /\ p % 256 \in 0 .. 255 /\ q \in Nat /\ p = (p % 256) + 256 * q
      /\ q % 256 \in 0 .. 255 /\ r \in Nat /\ q = (q % 256) + 256 * r
  BY <1>a, <1>b, <1>c, Zenon
<1>2. r < 128
  BY <1>1, SMT DEF MaxPayload
<1>3. r % 256 = r
  BY <1>1, <1>2, SmallByte
<1>4. Bytes4(n) = <<n % 256, p % 256, q % 256, r>>
  BY <1>3 DEF Bytes4, p, q, r
<1> QED
  BY <1>1, <1>2, <1>4 DEF LE4

LEMMA WordsRoundTrip ==
    ASSUME NEW n \in Nat, 4 * n <= MaxPayload("abridged")
    PROVE  LE3(Bytes3(n)) = n
<1> DEFINE p == Shift(n)
           q == Shift(p)
<1>a. n % 256 \in 0 .. 255 /\ p \in Nat /\ n = (n % 256) + 256 * p
  BY ByteSplit, Zenon
<1>b. p % 256 \in 0 .. 255 /\ q \in Nat /\ p = (p % 256) + 256 * q
  BY <1>a, ByteSplit, Zenon
<1> HIDE DEF p, q
<1>1. /\ n % 256 \in 0 .. 255 /\ p \in Nat /\ n = (n % 256) + 256 * p
      /\ p % 256 \in 0 .. 255 /\ q \in Nat /\ p = (p % 256) + 256 * q
  BY <1>a, <1>b, Zenon
<1>2. q <= 255
  BY <1>1, SMT DEF MaxPayload
<1>3. q % 256 = q
  BY <1>1, <1>2, SmallByte
<1>4. Bytes3(n) = <<n % 256, p % 256, q>>
  BY <1>3 DEF Bytes3, p, q
<1> QED
  BY <1>1, <1>4 DEF LE3

LEMMA BytesType ==
    ASSUME NEW n \in Nat
    PROVE  /\ Bytes3(n) \in Seq(Byte) /\ Len(Bytes3(n)) = 3
           /\ Bytes4(n) \in Seq(Byte) /\ Len(Bytes4(n)) = 4
<1>a. n % 256 \in Byte /\ Shift(n) \in Nat
  BY ByteSplit, Zenon DEF Byte
<1>b. Shift(n) % 256 \in Byte /\ Shift(Shift(n)) \in Nat
  BY <1>a, ByteSplit, Zenon DEF Byte
<1>c. Shift(Shift(n)) % 256 \in Byte /\ Shift(Shift(Shift(n))) \in Nat
  BY <1>b, ByteSplit, Zenon DEF Byte
<1>d. Shift(Shift(Shift(n))) % 256 \in Byte
  BY <1>c, ByteSplit, Zenon DEF Byte
<1>1. /\ n % 256 \in Byte /\ Shift(n) % 256 \in Byte
      /\ Shift(Shift(n)) % 256 \in Byte /\ Shift(Shift(Shift(n))) % 256 \in Byte
  BY <1>a, <1>b, <1>c, <1>d, Zenon
<1> QED
  BY <1>1 DEF Bytes3, Bytes4

-----------------------------------------------------------------------------
(* The part both decoders share: its outcome, and that it only looks at    *)
(* how much of the input there is.                                         *)
LEMMA BoundedOutcome ==
    ASSUME NEW input \in Seq(Byte), NEW header \in Nat, NEW length \in Nat,
           NEW max \in Nat, header > 0
    PROVE  LET d == Bounded(input, header, length, max)
           IN  /\ d.status \in {"need_more", "packet", "error"}
               /\ d.status = "need_more" =>
                     /\ d.total \in Nat /\ d.total > Len(input)
                     /\ d.total <= header + max
               /\ d.status = "packet" =>
                     /\ d.offset = header /\ d.length = length
                     /\ d.consumed = header + length
                     /\ d.consumed <= Len(input)
                     /\ length > 0 /\ length % 4 = 0 /\ length <= max
<1> DEFINE d == Bounded(input, header, length, max)
<1>1. CASE length = 0 \/ length % 4 # 0
  <2>1. d = Failed("InvalidLength")
    BY <1>1 DEF Bounded
  <2> QED
    BY <2>1 DEF Failed
<1>2. CASE length # 0 /\ length % 4 = 0 /\ length > max
  <2>1. d = Failed("LimitExceeded")
    BY <1>2 DEF Bounded
  <2> QED
    BY <2>1 DEF Failed
<1>3. CASE length # 0 /\ length % 4 = 0 /\ length <= max
           /\ Len(input) < header + length
  <2>1. d = NeedMore(header + length)
    BY <1>3 DEF Bounded
  <2> QED
    BY <1>3, <2>1 DEF NeedMore
<1>4. CASE length # 0 /\ length % 4 = 0 /\ length <= max
           /\ Len(input) >= header + length
  <2>1. d = Packet(header, length)
    BY <1>4 DEF Bounded
  <2> QED
    BY <1>4, <2>1 DEF Packet
<1> QED
  BY <1>1, <1>2, <1>3, <1>4

LEMMA BoundedStable ==
    ASSUME NEW input \in Seq(Byte), NEW longer \in Seq(Byte),
           NEW header \in Nat, NEW length \in Nat, NEW max \in Nat,
           Len(longer) >= Len(input),
           Bounded(input, header, length, max).status # "need_more"
    PROVE  Bounded(longer, header, length, max) =
           Bounded(input, header, length, max)
<1>1. CASE length = 0 \/ length % 4 # 0 \/ length > max
  BY <1>1 DEF Bounded
<1>2. CASE length # 0 /\ length % 4 = 0 /\ length <= max
  <2>1. Len(input) >= header + length
    BY <1>2 DEF Bounded, NeedMore
  <2> QED
    BY <1>2, <2>1 DEF Bounded
<1> QED
  BY <1>1, <1>2

(* The values the headers hold are natural numbers.                        *)
LEMMA ByteAt ==
    ASSUME NEW input \in Seq(Byte), NEW i \in 1 .. Len(input)
    PROVE  input[i] \in Nat
<1>1. input[i] \in Byte
  BY ElementOfSeq
<1>2. Byte \subseteq Nat
  BY DEF Byte
<1> QED
  BY <1>1, <1>2

LEMMA HeaderValues ==
    ASSUME NEW input \in Seq(Byte), Len(input) >= 4
    PROVE  /\ LE4(input) \in Nat /\ LE3(Tail(input)) \in Nat
           /\ LE3(Tail(input)) =
                 input[2] + 256 * (input[3] + 256 * input[4])
<1>1. /\ input[1] \in Nat /\ input[2] \in Nat
      /\ input[3] \in Nat /\ input[4] \in Nat
  BY ByteAt
<1>2. /\ Tail(input)[1] = input[2] /\ Tail(input)[2] = input[3]
      /\ Tail(input)[3] = input[4]
  OBVIOUS
<1>3. LE4(input) \in Nat
  BY <1>1 DEF LE4
<1>4. LE3(Tail(input)) = input[2] + 256 * (input[3] + 256 * input[4])
  BY <1>2 DEF LE3
<1> QED
  BY <1>1, <1>3, <1>4

(* The stream grew: what was there is still there.                         *)
Grew(input, longer) ==
    /\ Len(longer) >= Len(input)
    /\ \A i \in 1 .. Len(input) : longer[i] = input[i]

LEMMA GrewHeader ==
    ASSUME NEW input \in Seq(Byte), NEW longer \in Seq(Byte),
           Grew(input, longer), Len(input) >= 4
    PROVE  /\ LE4(longer) = LE4(input) /\ longer[4] = input[4]
           /\ LE3(Tail(longer)) = LE3(Tail(input))
           /\ SubSeq(longer, 1, 4) = SubSeq(input, 1, 4)
           /\ Len(longer) >= 4
<1>1. /\ longer[1] = input[1] /\ longer[2] = input[2]
      /\ longer[3] = input[3] /\ longer[4] = input[4]
      /\ Len(longer) >= 4
  BY DEF Grew
<1>2. LE3(Tail(longer)) = LE3(Tail(input))
  BY <1>1, HeaderValues
<1>3. LE4(longer) = LE4(input)
  BY <1>1 DEF LE4
<1>4. SubSeq(longer, 1, 4) = SubSeq(input, 1, 4)
  BY <1>1
<1> QED
  BY <1>1, <1>2, <1>3, <1>4

(* What decode may say of any input: an incomplete frame asks for more     *)
(* than there is, so the host's wait makes progress, and for no more than  *)
(* the limit and the longest header, so a buffer of that size suffices; a  *)
(* packet lies inside the input, is whole words and respects the limit.    *)
Sound(d, input, max) ==
    /\ d.status = "need_more" =>
          d.total \in Nat /\ d.total > Len(input) /\ d.total <= 4 + max
    /\ d.status = "packet" =>
          /\ d.consumed = d.offset + d.length /\ d.offset \in {1, 4}
          /\ d.consumed <= Len(input)
          /\ d.length > 0 /\ d.length % 4 = 0 /\ d.length <= max
    /\ d.status = "quick_ack" => d.consumed = 4 /\ d.consumed <= Len(input)

LEMMA BoundedSound ==
    ASSUME NEW input \in Seq(Byte), NEW header \in {1, 4},
           NEW length \in Nat, NEW max \in Nat
    PROVE  Sound(Bounded(input, header, length, max), input, max)
<1> DEFINE d == Bounded(input, header, length, max)
<1>1. /\ d.status \in {"need_more", "packet", "error"}
      /\ d.status = "need_more" =>
            /\ d.total \in Nat /\ d.total > Len(input)
            /\ d.total <= header + max
      /\ d.status = "packet" =>
            /\ d.offset = header /\ d.length = length
            /\ d.consumed = header + length
            /\ d.consumed <= Len(input)
            /\ length > 0 /\ length % 4 = 0 /\ length <= max
  BY BoundedOutcome
<1> HIDE DEF d
<1>2. Sound(d, input, max)
  BY <1>1 DEF Sound
<1> QED
  BY <1>2 DEF d

LEMMA IntermediateSound ==
    ASSUME NEW input \in Seq(Byte), NEW max \in Nat
    PROVE  Sound(IntermediateDecode(input, max), input, max)
<1>1. CASE Len(input) < 4
  <2>1. IntermediateDecode(input, max) = NeedMore(4)
    BY <1>1 DEF IntermediateDecode
  <2> QED
    BY <1>1, <2>1 DEF Sound, NeedMore
<1>2. CASE Len(input) >= 4 /\ input[4] >= 128
  <2>1. IntermediateDecode(input, max) = QuickAck(SubSeq(input, 1, 4))
    BY <1>2 DEF IntermediateDecode
  <2>2. Len(SubSeq(input, 1, 4)) = 4
    BY <1>2
  <2> QED
    BY <1>2, <2>1, <2>2 DEF Sound, QuickAck
<1>3. CASE Len(input) >= 4 /\ ~(input[4] >= 128)
  <2>1. IntermediateDecode(input, max) = Bounded(input, 4, LE4(input), max)
    BY <1>3 DEF IntermediateDecode
  <2>2. LE4(input) \in Nat
    BY <1>3, HeaderValues
  <2> QED
    BY <2>1, <2>2, BoundedSound
<1> QED
  BY <1>1, <1>2, <1>3

LEMMA AbridgedSound ==
    ASSUME NEW input \in Seq(Byte), NEW max \in Nat
    PROVE  Sound(AbridgedDecode(input, max), input, max)
<1>1. CASE input = <<>>
  <2>1. AbridgedDecode(input, max) = NeedMore(1)
    BY <1>1 DEF AbridgedDecode
  <2> QED
    BY <1>1, <2>1 DEF Sound, NeedMore
<1>2. ASSUME input # <<>>
      PROVE  input[1] \in Nat
  BY <1>2, ByteAt
<1>3. CASE input # <<>> /\ input[1] < 127
  <2>1. AbridgedDecode(input, max) = Bounded(input, 1, 4 * input[1], max)
    BY <1>3 DEF AbridgedDecode
  <2>2. 4 * input[1] \in Nat
    BY <1>2, <1>3
  <2> QED
    BY <2>1, <2>2, BoundedSound
<1>4. CASE input # <<>> /\ input[1] > 127
  <2>1. AbridgedDecode(input, max) = Failed("InvalidLength")
    BY <1>2, <1>4 DEF AbridgedDecode
  <2> QED
    BY <2>1 DEF Sound, Failed
<1>5. CASE input # <<>> /\ input[1] = 127 /\ Len(input) < 4
  <2>1. AbridgedDecode(input, max) = NeedMore(4)
    BY <1>5 DEF AbridgedDecode
  <2> QED
    BY <1>5, <2>1 DEF Sound, NeedMore
<1>6. CASE input # <<>> /\ input[1] = 127 /\ Len(input) >= 4
  <2>1. AbridgedDecode(input, max) = Bounded(input, 4, 4 * LE3(Tail(input)), max)
    BY <1>6 DEF AbridgedDecode
  <2>2. 4 * LE3(Tail(input)) \in Nat
    BY <1>6, HeaderValues
  <2> QED
    BY <2>1, <2>2, BoundedSound
<1> QED
  BY <1>1, <1>2, <1>3, <1>4, <1>5, <1>6

(* decode never asks for less than it has, never more than a buffer of     *)
(* max_frame_bytes + 4 holds, and never points outside the input.          *)
THEOREM DecodeSound ==
    ASSUME NEW codec \in Codecs, NEW input \in Seq(Byte), NEW max \in Nat
    PROVE  Sound(Decode(codec, input, max), input, max)
<1> QED
  BY IntermediateSound, AbridgedSound DEF Decode

-----------------------------------------------------------------------------
LEMMA IntermediateStable ==
    ASSUME NEW input \in Seq(Byte), NEW longer \in Seq(Byte), NEW max \in Nat,
           Grew(input, longer),
           IntermediateDecode(input, max).status # "need_more"
    PROVE  IntermediateDecode(longer, max) = IntermediateDecode(input, max)
<1>1. Len(input) >= 4
  BY DEF IntermediateDecode, NeedMore
<1>2. /\ LE4(longer) = LE4(input) /\ longer[4] = input[4]
      /\ SubSeq(longer, 1, 4) = SubSeq(input, 1, 4)
      /\ Len(longer) >= 4
  BY <1>1, GrewHeader
<1>3. CASE input[4] >= 128
  <2>1. IntermediateDecode(input, max) = QuickAck(SubSeq(input, 1, 4))
    BY <1>1, <1>3 DEF IntermediateDecode
  <2>2. IntermediateDecode(longer, max) = QuickAck(SubSeq(longer, 1, 4))
    BY <1>2, <1>3 DEF IntermediateDecode
  <2> QED
    BY <1>2, <2>1, <2>2
<1>4. CASE ~(input[4] >= 128)
  <2>1. IntermediateDecode(input, max) = Bounded(input, 4, LE4(input), max)
    BY <1>1, <1>4 DEF IntermediateDecode
  <2>2. IntermediateDecode(longer, max) = Bounded(longer, 4, LE4(input), max)
    BY <1>2, <1>4 DEF IntermediateDecode
  <2>3. LE4(input) \in Nat
    BY <1>1, HeaderValues
  <2> QED
    BY <2>1, <2>2, <2>3, BoundedStable DEF Grew
<1> QED
  BY <1>3, <1>4

LEMMA AbridgedStable ==
    ASSUME NEW input \in Seq(Byte), NEW longer \in Seq(Byte), NEW max \in Nat,
           Grew(input, longer),
           AbridgedDecode(input, max).status # "need_more"
    PROVE  AbridgedDecode(longer, max) = AbridgedDecode(input, max)
<1>1. input # <<>>
  BY DEF AbridgedDecode, NeedMore
<1>2. /\ input[1] \in Nat /\ longer[1] = input[1] /\ longer # <<>>
  BY <1>1, ByteAt DEF Grew
<1>3. CASE input[1] < 127
  <2>1. AbridgedDecode(input, max) = Bounded(input, 1, 4 * input[1], max)
    BY <1>1, <1>3 DEF AbridgedDecode
  <2>2. AbridgedDecode(longer, max) = Bounded(longer, 1, 4 * input[1], max)
    BY <1>2, <1>3 DEF AbridgedDecode
  <2>3. 4 * input[1] \in Nat
    BY <1>2
  <2> QED
    BY <2>1, <2>2, <2>3, BoundedStable DEF Grew
<1>4. CASE input[1] > 127
  BY <1>1, <1>2, <1>4 DEF AbridgedDecode
<1>5. CASE input[1] = 127
  <2>1. Len(input) >= 4
    BY <1>1, <1>5 DEF AbridgedDecode, NeedMore
  <2>2. LE3(Tail(longer)) = LE3(Tail(input)) /\ Len(longer) >= 4
    BY <2>1, GrewHeader
  <2>3. AbridgedDecode(input, max) =
        Bounded(input, 4, 4 * LE3(Tail(input)), max)
    BY <1>1, <1>5, <2>1 DEF AbridgedDecode
  <2>4. AbridgedDecode(longer, max) =
        Bounded(longer, 4, 4 * LE3(Tail(input)), max)
    BY <1>2, <1>5, <2>2 DEF AbridgedDecode
  <2>5. 4 * LE3(Tail(input)) \in Nat
    BY <2>1, HeaderValues
  <2> QED
    BY <2>3, <2>4, <2>5, BoundedStable DEF Grew
<1> QED
  BY <1>2, <1>3, <1>4, <1>5

(* Once decode has an answer, bytes that arrive later do not change it: an *)
(* event depends on the stream, not on how TCP cut it or when the host     *)
(* polled.                                                                 *)
THEOREM DecodeStable ==
    ASSUME NEW codec \in Codecs, NEW input \in Seq(Byte),
           NEW more \in Seq(Byte), NEW max \in Nat,
           Decode(codec, input, max).status # "need_more"
    PROVE  Decode(codec, input \o more, max) = Decode(codec, input, max)
<1>1. input \o more \in Seq(Byte) /\ Grew(input, input \o more)
  BY DEF Grew
<1> QED
  BY <1>1, IntermediateStable, AbridgedStable DEF Decode

-----------------------------------------------------------------------------
(* Where the bytes of two joined strings are.                              *)
LEMMA Joined ==
    ASSUME NEW m \in Seq(Byte), NEW s \in Seq(Byte)
    PROVE  /\ m \o s \in Seq(Byte) /\ Len(m \o s) = Len(m) + Len(s)
           /\ \A i \in 1 .. Len(m) : (m \o s)[i] = m[i]
           /\ \A i \in 1 .. Len(s) : (m \o s)[Len(m) + i] = s[i]
<1> QED
  OBVIOUS

LEMMA MarkerJoined ==
    ASSUME NEW m \in Seq(Byte), NEW s \in Seq(Byte), Len(m) = 1, Len(s) = 3
    PROVE  /\ m \o s \in Seq(Byte) /\ Len(m \o s) = 4 /\ (m \o s)[1] = m[1]
           /\ (m \o s)[2] = s[1] /\ (m \o s)[3] = s[2] /\ (m \o s)[4] = s[3]
<1> DEFINE t == m \o s
<1>1. /\ t \in Seq(Byte) /\ Len(t) = Len(m) + Len(s)
      /\ \A i \in 1 .. Len(m) : t[i] = m[i]
      /\ \A i \in 1 .. Len(s) : t[Len(m) + i] = s[i]
  BY Joined
<1> HIDE DEF t
<1>2. Len(t) = 4 /\ t[1] = m[1]
  BY <1>1
<1>3. t[1 + 1] = s[1] /\ t[1 + 2] = s[2] /\ t[1 + 3] = s[3]
  <2>1. \A i \in 1 .. 3 : t[1 + i] = s[i]
    BY <1>1
  <2> QED
    BY <2>1
<1> QED
  BY <1>1, <1>2, <1>3 DEF t

(* What encode writes in front of a payload.                               *)
LEMMA HeaderShape ==
    ASSUME NEW codec \in Codecs, NEW payload \in Seq(Byte),
           Encodable(codec, payload)
    PROVE  LET h == Header(codec, payload)
               n == Len(payload)
           IN  /\ h \in Seq(Byte) /\ n \in Nat /\ n > 0 /\ n % 4 = 0
               /\ codec = "intermediate" =>
                     Len(h) = 4 /\ h[4] < 128 /\ LE4(h) = n
               /\ codec = "abridged" =>
                     \/ Len(h) = 1 /\ h[1] < 127 /\ 4 * h[1] = n
                     \/ /\ Len(h) = 4 /\ h[1] = 127
                        /\ 4 * (h[2] + 256 * (h[3] + 256 * h[4])) = n
<1> DEFINE h == Header(codec, payload)
           n == Len(payload)
           w == n \div 4
<1>1. n \in Nat /\ n > 0 /\ n % 4 = 0 /\ n <= MaxPayload(codec)
  BY DEF Encodable
<1>2. w \in Nat /\ 4 * w = n
  BY <1>1
<1> HIDE DEF w
<1>3. CASE codec = "intermediate"
  <2>1. h = Bytes4(n)
    BY <1>3 DEF Header
  <2>2. LE4(h) = n /\ h[4] < 128 /\ h \in Seq(Byte) /\ Len(h) = 4
    BY <1>1, <1>3, <2>1, LengthRoundTrip, BytesType
  <2> QED
    BY <1>1, <1>3, <2>2
<1>4. CASE codec = "abridged" /\ w < 127
  <2>1. h = <<w>>
    BY <1>4 DEF Header, w
  <2>2. w \in Byte
    BY <1>2, <1>4 DEF Byte
  <2>3. h \in Seq(Byte) /\ Len(h) = 1 /\ h[1] = w
    BY <2>1, <2>2
  <2>4. h[1] < 127 /\ 4 * h[1] = n
    BY <1>2, <1>4, <2>3
  <2> QED
    BY <1>1, <1>4, <2>3, <2>4
<1>5. CASE codec = "abridged" /\ ~(w < 127)
  <2>1. h = <<127>> \o Bytes3(w)
    BY <1>5 DEF Header, w
  <2>2. /\ LE3(Bytes3(w)) = w /\ Bytes3(w) \in Seq(Byte)
        /\ Len(Bytes3(w)) = 3
    BY <1>1, <1>2, <1>5, WordsRoundTrip, BytesType
  <2>3. 127 \in Byte
    BY DEF Byte
  <2>4. /\ h \in Seq(Byte) /\ Len(h) = 4 /\ h[1] = 127
        /\ h[2] = Bytes3(w)[1] /\ h[3] = Bytes3(w)[2] /\ h[4] = Bytes3(w)[3]
    <3> DEFINE s == Bytes3(w)
               m == <<127>>
    <3>1. m \in Seq(Byte) /\ Len(m) = 1 /\ m[1] = 127
      BY <2>3
    <3>2. s \in Seq(Byte) /\ Len(s) = 3
      BY <2>2
    <3> HIDE DEF s, m
    <3>3. /\ m \o s \in Seq(Byte) /\ Len(m \o s) = 4 /\ (m \o s)[1] = 127
          /\ (m \o s)[2] = s[1] /\ (m \o s)[3] = s[2] /\ (m \o s)[4] = s[3]
      BY <3>1, <3>2, MarkerJoined
    <3> QED
      BY <2>1, <3>3 DEF m, s
  <2>5. 4 * (h[2] + 256 * (h[3] + 256 * h[4])) = n
    BY <1>2, <2>2, <2>4 DEF LE3
  <2> QED
    BY <1>1, <1>5, <2>4, <2>5
<1> QED
  BY <1>3, <1>4, <1>5 DEF Codecs

(* The decoder of an input whose first bytes are such a header.            *)
LEMMA DecodeHeader ==
    ASSUME NEW codec \in Codecs, NEW payload \in Seq(Byte),
           Encodable(codec, payload), NEW max \in Nat,
           NEW input \in Seq(Byte), Grew(Header(codec, payload), input)
    PROVE  Decode(codec, input, max) =
           Bounded(input, Len(Header(codec, payload)), Len(payload), max)
<1> DEFINE h == Header(codec, payload)
           n == Len(payload)
<1>1. /\ h \in Seq(Byte) /\ n \in Nat
      /\ codec = "intermediate" => Len(h) = 4 /\ h[4] < 128 /\ LE4(h) = n
      /\ codec = "abridged" =>
            \/ Len(h) = 1 /\ h[1] < 127 /\ 4 * h[1] = n
            \/ /\ Len(h) = 4 /\ h[1] = 127
               /\ 4 * (h[2] + 256 * (h[3] + 256 * h[4])) = n
  BY HeaderShape
<1>2. Grew(h, input)
  OBVIOUS
<1> HIDE DEF h, n
<1>3. CASE codec = "intermediate"
  <2>0. h \in Seq(Byte) /\ Len(h) >= 4 /\ h[4] < 128 /\ LE4(h) = n
    <3>1. h \in Seq(Byte) /\ Len(h) = 4 /\ h[4] < 128 /\ LE4(h) = n
      BY <1>1, <1>3, Zenon
    <3> QED
      BY <3>1
  <2>1. Len(input) >= 4 /\ input[4] < 128 /\ LE4(input) = n
    BY <1>2, <2>0, GrewHeader
  <2>2. input[4] \in Nat
    BY <2>1, ByteAt
  <2>3. IntermediateDecode(input, max) = Bounded(input, 4, n, max)
    BY <2>1, <2>2 DEF IntermediateDecode
  <2> QED
    BY <1>1, <1>3, <2>3 DEF Decode, h, n
<1>4. CASE codec = "abridged" /\ Len(h) = 1 /\ h[1] < 127 /\ 4 * h[1] = n
  <2>1. input # <<>> /\ input[1] < 127 /\ 4 * input[1] = n
    BY <1>1, <1>2, <1>4 DEF Grew
  <2>2. AbridgedDecode(input, max) = Bounded(input, 1, n, max)
    BY <2>1 DEF AbridgedDecode
  <2> QED
    BY <1>4, <2>2 DEF Decode, h, n
<1>5. CASE /\ codec = "abridged" /\ Len(h) = 4 /\ h[1] = 127
           /\ 4 * (h[2] + 256 * (h[3] + 256 * h[4])) = n
  <2>1. /\ Len(input) >= 4 /\ input # <<>>
        /\ input[1] = 127 /\ input[2] = h[2]
        /\ input[3] = h[3] /\ input[4] = h[4]
    BY <1>1, <1>2, <1>5 DEF Grew
  <2>2. 4 * LE3(Tail(input)) = n
    BY <1>5, <2>1, HeaderValues
  <2>3. AbridgedDecode(input, max) = Bounded(input, 4, n, max)
    BY <2>1, <2>2 DEF AbridgedDecode
  <2> QED
    BY <1>5, <2>3 DEF Decode, h, n
<1> QED
  BY <1>1, <1>3, <1>4, <1>5 DEF Codecs

(* A frame that encode wrote is decoded to the payload it was made from,   *)
(* whatever follows it in the stream, under every limit it respects.       *)
THEOREM RoundTrip ==
    ASSUME NEW codec \in Codecs, NEW payload \in Seq(Byte),
           Encodable(codec, payload), NEW rest \in Seq(Byte),
           NEW max \in Nat, Len(payload) <= max
    PROVE  LET frame == Encode(codec, payload)
               input == frame \o rest
               d == Decode(codec, input, max)
           IN  /\ d.status = "packet" /\ d.consumed = Len(frame)
               /\ Payload(input, d) = payload
<1> DEFINE h == Header(codec, payload)
           n == Len(payload)
           input == Encode(codec, payload) \o rest
<1>1. h \in Seq(Byte) /\ n \in Nat /\ n > 0 /\ n % 4 = 0
  BY HeaderShape
<1>2. Encode(codec, payload) = h \o payload
  BY DEF Encode
<1> HIDE DEF h
<1>3. /\ input \in Seq(Byte) /\ Len(input) = Len(h) + n + Len(rest)
      /\ Len(Encode(codec, payload)) = Len(h) + n
      /\ \A i \in 1 .. Len(h) : input[i] = h[i]
      /\ \A i \in 1 .. n : input[Len(h) + i] = payload[i]
      /\ Len(h) \in Nat /\ Len(rest) \in Nat
  BY <1>1, <1>2
<1>4. Decode(codec, input, max) = Bounded(input, Len(h), n, max)
  <2>1. Grew(h, input)
    BY <1>1, <1>3 DEF Grew
  <2> QED
    BY <1>3, <2>1, DecodeHeader DEF h
<1> HIDE DEF input
<1>5. Bounded(input, Len(h), n, max) = Packet(Len(h), n)
  BY <1>1, <1>3 DEF Bounded
<1>6. Payload(input, Packet(Len(h), n)) = SubSeq(input, Len(h) + 1, Len(h) + n)
  BY DEF Payload, Packet
<1>7. SubSeq(input, Len(h) + 1, Len(h) + n) = payload
  <2> DEFINE sub == SubSeq(input, Len(h) + 1, Len(h) + n)
  <2>1. sub \in Seq(Byte) /\ Len(sub) = n
    BY <1>1, <1>3
  <2>2. \A i \in 1 .. n : sub[i] = input[Len(h) + i]
    BY <1>1, <1>3
  <2> QED
    BY <1>3, <2>1, <2>2, SeqEqual
<1>8. LET d == Decode(codec, input, max)
      IN  /\ d.status = "packet" /\ d.consumed = Len(h) + n
          /\ Payload(input, d) = payload
  <2>1. Decode(codec, input, max) = Packet(Len(h), n)
    BY <1>4, <1>5
  <2>2. /\ Packet(Len(h), n).status = "packet"
        /\ Packet(Len(h), n).consumed = Len(h) + n
    BY DEF Packet
  <2> QED
    BY <1>6, <1>7, <2>1, <2>2
<1> QED
  BY <1>3, <1>8 DEF input

(* Of a frame that has not arrived in full decode asks for more, and never *)
(* for more than the frame has: the host is not left waiting for bytes of  *)
(* a frame the peer has yet to begin.                                      *)
THEOREM PartialFrameAsks ==
    ASSUME NEW codec \in Codecs, NEW payload \in Seq(Byte),
           Encodable(codec, payload), NEW max \in Nat, Len(payload) <= max,
           NEW k \in 0 .. Len(Encode(codec, payload)) - 1
    PROVE  LET frame == Encode(codec, payload)
               d == Decode(codec, SubSeq(frame, 1, k), max)
           IN  d.status = "need_more" /\ d.total > k /\ d.total <= Len(frame)
<1> DEFINE h == Header(codec, payload)
           n == Len(payload)
           frame == Encode(codec, payload)
           input == SubSeq(frame, 1, k)
<1>1. /\ h \in Seq(Byte) /\ n \in Nat /\ n > 0 /\ n % 4 = 0
      /\ codec = "intermediate" => Len(h) = 4
      /\ codec = "abridged" => Len(h) = 1 \/ (Len(h) = 4 /\ h[1] = 127)
  BY HeaderShape
<1>2. frame = h \o payload
  BY DEF Encode
<1> HIDE DEF h
<1>3. /\ frame \in Seq(Byte) /\ Len(frame) = Len(h) + n
      /\ Len(h) \in Nat /\ \A i \in 1 .. Len(h) : frame[i] = h[i]
  BY <1>1, <1>2
<1>4. k \in Nat /\ k < Len(frame)
  BY <1>3
<1> HIDE DEF frame
<1>5. /\ input \in Seq(Byte) /\ Len(input) = k
      /\ \A i \in 1 .. k : input[i] = frame[i]
  BY <1>3, <1>4
<1> HIDE DEF input
<1> DEFINE Asks(total) ==
              /\ Decode(codec, input, max) = NeedMore(total)
              /\ total > k /\ total <= Len(h) + n
<1>6. ASSUME k >= Len(h)
      PROVE  Asks(Len(h) + n)
  <2>1. Grew(h, input)
    BY <1>1, <1>3, <1>5, <1>6 DEF Grew
  <2>2. Decode(codec, input, max) = Bounded(input, Len(h), n, max)
    BY <1>5, <2>1, DecodeHeader DEF h
  <2>3. Bounded(input, Len(h), n, max) = NeedMore(Len(h) + n)
    BY <1>1, <1>3, <1>4, <1>5 DEF Bounded
  <2> QED
    BY <1>1, <1>3, <1>4, <2>2, <2>3
<1>7. ASSUME k < Len(h), codec = "intermediate"
      PROVE  Asks(4)
  <2>1. Decode(codec, input, max) = NeedMore(4)
    BY <1>1, <1>5, <1>7 DEF Decode, IntermediateDecode
  <2>2. Len(h) = 4
    BY <1>1, <1>7
  <2> QED
    BY <1>1, <1>4, <1>7, <2>1, <2>2
<1>8. ASSUME k = 0, codec = "abridged"
      PROVE  Asks(1)
  <2>1. Decode(codec, input, max) = NeedMore(1)
    BY <1>5, <1>8 DEF Decode, AbridgedDecode
  <2> QED
    BY <1>1, <1>3, <1>8, <2>1
<1>9. ASSUME k > 0, k < Len(h), codec = "abridged"
      PROVE  Asks(4)
  <2>1. Len(h) = 4 /\ h[1] = 127
    BY <1>1, <1>3, <1>4, <1>9
  <2>2. input # <<>> /\ input[1] = frame[1] /\ Len(input) < 4
    BY <1>4, <1>5, <1>9, <2>1
  <2>3. input[1] = 127
    BY <1>3, <2>1, <2>2
  <2>4. Decode(codec, input, max) = NeedMore(4)
    BY <1>9, <2>2, <2>3 DEF Decode, AbridgedDecode
  <2> QED
    BY <1>1, <1>4, <1>9, <2>1, <2>4
<1> HIDE DEF Asks
<1>10. \E total : Asks(total)
  <2>1. codec = "intermediate" \/ codec = "abridged"
    BY DEF Codecs
  <2>2. k >= Len(h) \/ k < Len(h)
    BY <1>3, <1>4
  <2>3. k = 0 \/ k > 0
    BY <1>4
  <2> QED
    BY <2>1, <2>2, <2>3, <1>6, <1>7, <1>8, <1>9
<1>11. LET d == Decode(codec, input, max)
       IN  d.status = "need_more" /\ d.total > k /\ d.total <= Len(h) + n
  BY <1>10 DEF NeedMore, Asks
<1> QED
  BY <1>3, <1>11 DEF frame, input

-----------------------------------------------------------------------------
(* The lengths encode_encrypted admits.                                    *)
LEMMA SealedLengths ==
    ASSUME NEW body \in Nat, NEW padding \in Nat,
           EncryptedPacketLen(body, padding) # 0
    PROVE  /\ body % 4 = 0 /\ padding >= 12 /\ padding <= 1024
           /\ (32 + body + padding) % 16 = 0
           /\ EncryptedPacketLen(body, padding) = 56 + body + padding
<1>1. /\ body % 4 = 0 /\ padding \in PaddingRange
      /\ (InnerHeaderBytes + body + padding) % BlockBytes = 0
  BY DEF EncryptedPacketLen
<1>2. EncryptedPacketLen(body, padding) =
      EncryptedHeaderBytes + InnerHeaderBytes + body + padding
  BY <1>1 DEF EncryptedPacketLen
<1> QED
  BY <1>1, <1>2, SMT DEF PaddingRange, InnerHeaderBytes, BlockBytes,
                         EncryptedHeaderBytes, KeyIdBytes

(* A packet of any length encode_encrypted produces, for a body within the *)
(* limit, passes every length check of the two parsers on the other side:  *)
(* the paddings one side may choose are those the other accepts, and the   *)
(* slack parse_external adds to the limit is enough for all of them.       *)
THEOREM SealedIsAccepted ==
    ASSUME NEW body \in Nat, NEW padding \in Nat, NEW max \in Nat,
           body <= max, EncryptedPacketLen(body, padding) # 0,
           NEW input \in Seq(Byte),
           Len(input) = EncryptedPacketLen(body, padding),
           ~IsZero(SubSeq(input, 1, KeyIdBytes))
    PROVE  /\ ParseExternal(input, max).status = "encrypted"
           /\ ParseDecrypted(Len(input) - EncryptedHeaderBytes, body, max) = "ok"
<1>1. /\ body % 4 = 0 /\ padding >= 12 /\ padding <= 1024
      /\ (32 + body + padding) % 16 = 0
      /\ Len(input) = 56 + body + padding
  BY SealedLengths
<1> DEFINE length == 32 + body + padding
<1>2. /\ Len(input) - EncryptedHeaderBytes = length
      /\ length \in Nat /\ length >= 44 /\ length <= max + 1056
  BY <1>1, SMT DEF EncryptedHeaderBytes, KeyIdBytes
<1>3. length % 16 = 0
  BY <1>1
<1> HIDE DEF length
<1>4. EncryptedData(input, max) =
      Encrypted(SubSeq(input, EncryptedHeaderBytes + 1, Len(input)))
  BY <1>2, <1>3, SMT DEF EncryptedData, InnerHeaderBytes, BlockBytes
<1>5. ParseExternal(input, max) = EncryptedData(input, max)
  <2>1. Len(input) >= KeyIdBytes /\ Len(input) >= EncryptedHeaderBytes
    BY <1>1, SMT DEF EncryptedHeaderBytes, KeyIdBytes
  <2>2. KeyIdBytes \in Nat /\ EncryptedHeaderBytes \in Nat /\ Len(input) \in Nat
    BY <1>1, SMT DEF EncryptedHeaderBytes, KeyIdBytes
  <2> QED
    BY <2>1, <2>2, SMT DEF ParseExternal
<1>6. ParseDecrypted(length, body, max) = "ok"
  <2>1. length - 32 = body + padding /\ length - 32 - body = padding
    BY <1>1, <1>2, SMT DEF length
  <2> QED
    BY <1>1, <1>2, <1>3, <2>1, SMT
    DEF ParseDecrypted, InnerHeaderBytes, BlockBytes, PaddingRange
<1> QED
  BY <1>2, <1>4, <1>5, <1>6 DEF Encrypted
-----------------------------------------------------------------------------
(* The input and the frame are the beginnings of one stream.               *)
Agree(input, frame) ==
    \A i \in 1 .. Len(input) : i <= Len(frame) => input[i] = frame[i]

LEMMA Slice ==
    ASSUME NEW S, NEW s \in Seq(S), NEW a \in Nat, NEW n \in Nat,
           a + n <= Len(s)
    PROVE  /\ SubSeq(s, a + 1, a + n) \in Seq(S)
           /\ Len(SubSeq(s, a + 1, a + n)) = n
           /\ \A i \in 1 .. n : SubSeq(s, a + 1, a + n)[i] = s[a + i]
<1>1. a + 1 \in Int /\ a + n \in Int
  OBVIOUS
<1>2. SubSeq(s, a + 1, a + n) = [i \in 1 .. n |-> s[a + i]]
  BY <1>1
<1>3. \A i \in 1 .. n : s[a + i] \in S
  BY ElementOfSeq
<1> DEFINE f == [i \in 1 .. n |-> s[a + i]]
<1>4. f \in Seq(S) /\ Len(f) = n /\ \A i \in 1 .. n : f[i] = s[a + i]
  BY <1>3
<1> QED
  BY <1>2, <1>4

(* decode at the front of a frame, whatever part of it has arrived and     *)
(* whatever has arrived behind it: it asks for no more than the frame, or  *)
(* hands over the payload, or refuses a frame above the limit.             *)
FrameOutcome(d, payload, frame, input, max) ==
    /\ d.status \in {"need_more", "packet", "error"}
    /\ d.status = "need_more" => d.total <= Len(frame)
    /\ d.status = "packet" =>
          /\ d.consumed = Len(frame) /\ Len(frame) <= Len(input)
          /\ Len(payload) <= max /\ Payload(input, d) = payload
    /\ d.status = "error" => Len(payload) > max /\ d.kind # "none"

LEMMA FrameDecode ==
    ASSUME NEW codec \in Codecs, NEW payload \in Seq(Byte),
           Encodable(codec, payload), NEW max \in Nat,
           NEW input \in Seq(Byte), Agree(input, Encode(codec, payload))
    PROVE  FrameOutcome(Decode(codec, input, max), payload,
                        Encode(codec, payload), input, max)
<1> DEFINE h == Header(codec, payload)
           n == Len(payload)
           frame == Encode(codec, payload)
           d == Decode(codec, input, max)
<1> SUFFICES FrameOutcome(d, payload, frame, input, max)
  OBVIOUS
<1>1. /\ h \in Seq(Byte) /\ n \in Nat /\ n > 0 /\ n % 4 = 0
      /\ codec = "intermediate" => Len(h) = 4
      /\ codec = "abridged" => Len(h) = 1 \/ (Len(h) = 4 /\ h[1] = 127)
  BY HeaderShape
<1>2. frame = h \o payload
  BY DEF Encode
<1>3. Agree(input, frame)
  OBVIOUS
<1> HIDE DEF h
<1>4. /\ frame \in Seq(Byte) /\ Len(frame) = Len(h) + n /\ Len(h) \in Nat
      /\ \A i \in 1 .. Len(h) : frame[i] = h[i]
      /\ \A i \in 1 .. n : frame[Len(h) + i] = payload[i]
  BY <1>1, <1>2
<1> HIDE DEF frame, d
<1>5. ASSUME NEW total \in Nat, total <= Len(frame), d = NeedMore(total)
      PROVE  FrameOutcome(d, payload, frame, input, max)
  BY <1>5 DEF NeedMore, FrameOutcome
<1>6. CASE Len(input) >= Len(h)
  <2>1. Grew(h, input)
    BY <1>1, <1>3, <1>4, <1>6 DEF Grew, Agree
  <2>2. d = Bounded(input, Len(h), n, max)
    BY <2>1, DecodeHeader DEF h, d
  <2>3. CASE n > max
    <3>1. d = Failed("LimitExceeded")
      BY <1>1, <2>2, <2>3 DEF Bounded
    <3> QED
      BY <2>3, <3>1 DEF Failed, FrameOutcome
  <2>4. CASE n <= max /\ Len(input) < Len(h) + n
    <3>1. d = NeedMore(Len(h) + n)
      BY <1>1, <2>2, <2>4 DEF Bounded
    <3> QED
      BY <1>1, <1>4, <1>5, <3>1
  <2>5. CASE n <= max /\ Len(input) >= Len(h) + n
    <3>1. d = Packet(Len(h), n)
      BY <1>1, <1>4, <2>2, <2>5 DEF Bounded
    <3>2. d.status = "packet" /\ d.consumed = Len(h) + n
          /\ Payload(input, d) = SubSeq(input, Len(h) + 1, Len(h) + n)
      BY <3>1 DEF Packet, Payload
    <3>3. SubSeq(input, Len(h) + 1, Len(h) + n) = payload
      <4> DEFINE sub == SubSeq(input, Len(h) + 1, Len(h) + n)
      <4>1. /\ sub \in Seq(Byte) /\ Len(sub) = n
            /\ \A i \in 1 .. n : sub[i] = input[Len(h) + i]
        <5> DEFINE skipped == Len(h)
        <5>1. skipped \in Nat /\ n \in Nat /\ skipped + n <= Len(input)
          BY <1>1, <1>4, <2>5
        <5> HIDE DEF skipped, n
        <5>2. /\ SubSeq(input, skipped + 1, skipped + n) \in Seq(Byte)
              /\ Len(SubSeq(input, skipped + 1, skipped + n)) = n
              /\ \A i \in 1 .. n :
                    SubSeq(input, skipped + 1, skipped + n)[i]
                       = input[skipped + i]
          BY <5>1, Slice
        <5> QED
          BY Zenon, <5>2 DEF skipped, n
      <4>2. \A i \in 1 .. n : input[Len(h) + i] = frame[Len(h) + i]
        <5>1. Len(input) \in Nat /\ Len(frame) = Len(h) + n
          BY <1>4
        <5>2. ASSUME NEW i \in 1 .. n
              PROVE  Len(h) + i \in 1 .. Len(input) /\ Len(h) + i <= Len(frame)
          <6> HIDE DEF n
          <6> QED
            BY <1>1, <1>4, <2>5, <5>1
        <5> QED
          BY <1>3, <5>2 DEF Agree
      <4>3. \A i \in 1 .. n : sub[i] = payload[i]
        BY <1>4, <4>1, <4>2
      <4> QED
        BY <4>1, <4>3, SeqEqual
    <3> QED
      BY <1>4, <2>5, <3>2, <3>3 DEF FrameOutcome
  <2>6. \/ n > max
        \/ n <= max /\ Len(input) < Len(h) + n
        \/ n <= max /\ Len(input) >= Len(h) + n
    <3>1. /\ Len(input) \in Nat /\ max \in Nat
          /\ n \in Nat /\ Len(h) + n \in Nat
      BY <1>1, <1>4
    <3> DEFINE whole == Len(h) + n
    <3> HIDE DEF whole, n
    <3>2. Len(input) < whole \/ Len(input) >= whole
      BY <3>1 DEF whole
    <3> QED
      BY <3>1, <3>2 DEF whole
  <2> QED
    BY <2>3, <2>4, <2>5, <2>6
<1>7. CASE Len(input) < Len(h) /\ codec = "intermediate"
  <2>1. d = NeedMore(4)
    BY <1>1, <1>7 DEF Decode, IntermediateDecode, d
  <2> QED
    BY <1>1, <1>4, <1>5, <1>7, <2>1
<1>8. CASE input = <<>> /\ codec = "abridged"
  <2>1. d = NeedMore(1)
    BY <1>8 DEF Decode, AbridgedDecode, d
  <2> QED
    BY <1>1, <1>4, <1>5, <1>8, <2>1
<1>9. CASE input # <<>> /\ Len(input) < Len(h) /\ codec = "abridged"
  <2>1. Len(h) = 4 /\ h[1] = 127
    BY <1>1, <1>9
  <2>2. input[1] = 127 /\ Len(input) < 4
    BY <1>3, <1>4, <1>9, <2>1 DEF Agree
  <2>3. d = NeedMore(4)
    BY <1>9, <2>2 DEF Decode, AbridgedDecode, d
  <2> QED
    BY <1>1, <1>4, <1>5, <2>1, <2>3
<1>10. codec = "intermediate" \/ codec = "abridged"
  BY DEF Codecs
<1>11. Len(input) >= Len(h) \/ Len(input) < Len(h)
  BY <1>4
<1> QED
  BY <1>10, <1>11, <1>6, <1>7, <1>8, <1>9

(* The payload of a plain envelope, as parse_external will look at it.     *)
LEMMA PlainPayload ==
    ASSUME NEW f \in Frame, f.kind = "plain"
    PROVE  LET p == PeerPayload(f)
           IN  /\ p \in Seq(Byte) /\ Len(p) = PlainHeaderBytes + Len(f.body)
               /\ IsZero(SubSeq(p, 1, KeyIdBytes))
               /\ SubSeq(p, KeyIdBytes + MessageIdBytes + 1, PlainHeaderBytes)
                     = Bytes4(Len(f.body))
               /\ SubSeq(p, PlainHeaderBytes + 1, Len(p)) = f.body
<1> DEFINE a == Repeat(0, 8)
           b == Repeat(1, 8)
           c == Bytes4(Len(f.body))
           d == f.body
           p == PeerPayload(f)
           n == Len(d)
<1>1. d \in Seq(Byte) /\ n \in Nat
  BY DEF Frame
<1>2. p = ((a \o b) \o c) \o d
  BY DEF PeerPayload, KeyIdBytes, MessageIdBytes
<1>3. 0 \in Byte /\ 1 \in Byte /\ 8 \in Nat
  BY DEF Byte
<1>4. a \in Seq(Byte) /\ Len(a) = 8 /\ \A i \in 1 .. 8 : a[i] = 0
  BY <1>3 DEF Repeat
<1>5. b \in Seq(Byte) /\ Len(b) = 8
  BY <1>3 DEF Repeat
<1>6. c \in Seq(Byte) /\ Len(c) = 4
  BY <1>1, BytesType
<1> HIDE DEF a, b, c, d, n, p
<1>7. /\ p \in Seq(Byte) /\ Len(p) = 20 + n
      /\ \A i \in 1 .. 8 : p[i] = 0
      /\ \A i \in 1 .. 4 : p[16 + i] = c[i]
      /\ \A i \in 1 .. n : p[20 + i] = d[i]
  <2>1. /\ p \in Seq(Byte)
        /\ Len(p) = ((Len(a) + Len(b)) + Len(c)) + Len(d)
        /\ \A i \in 1 .. Len(a) : p[i] = a[i]
        /\ \A i \in 1 .. Len(c) : p[(Len(a) + Len(b)) + i] = c[i]
        /\ \A i \in 1 .. Len(d) : p[((Len(a) + Len(b)) + Len(c)) + i] = d[i]
    <3>1. /\ a \in Seq(Byte) /\ b \in Seq(Byte)
          /\ c \in Seq(Byte) /\ d \in Seq(Byte)
      BY <1>1, <1>4, <1>5, <1>6
    <3> QED
      BY <1>2, <3>1
  <2>2. Len(d) = n
    BY DEF n
  <2> QED
    BY <1>1, <1>4, <1>5, <1>6, <2>1, <2>2
<1>8. IsZero(SubSeq(p, 1, 8))
  <2>1. SubSeq(p, 1, 8) = [i \in 1 .. 8 |-> p[i]]
    BY <1>1, <1>7
  <2> QED
    BY <1>7, <2>1 DEF IsZero
<1>9. SubSeq(p, 17, 20) = c
  <2>1. SubSeq(p, 17, 20) = [i \in 1 .. 4 |-> p[16 + i]]
    BY <1>1, <1>7
  <2>2. c = [i \in 1 .. 4 |-> c[i]]
    BY <1>6
  <2> QED
    BY <1>7, <2>1, <2>2
<1>10. SubSeq(p, 21, Len(p)) = d
  <2>1. SubSeq(p, 21, Len(p)) = [i \in 1 .. n |-> p[20 + i]]
    BY <1>1, <1>7
  <2>2. d = [i \in 1 .. n |-> d[i]]
    BY <1>1 DEF n
  <2> QED
    BY <1>7, <2>1, <2>2
<1> QED
  BY <1>7, <1>8, <1>9, <1>10
  DEF PlainHeaderBytes, KeyIdBytes, MessageIdBytes, LengthBytes, c, d, n, p

LEMMA EncryptedPayload ==
    ASSUME NEW f \in Frame, f.kind = "encrypted"
    PROVE  LET p == PeerPayload(f)
           IN  /\ p \in Seq(Byte) /\ Len(p) = EncryptedHeaderBytes + Len(f.body)
               /\ ~IsZero(SubSeq(p, 1, KeyIdBytes))
               /\ SubSeq(p, EncryptedHeaderBytes + 1, Len(p)) = f.body
<1> DEFINE a == Repeat(1, 24)
           d == f.body
           p == PeerPayload(f)
           n == Len(d)
<1>1. d \in Seq(Byte) /\ n \in Nat
  BY DEF Frame
<1>2. p = a \o d
  BY DEF PeerPayload, EncryptedHeaderBytes, KeyIdBytes
<1>3. 1 \in Byte /\ 24 \in Nat
  BY DEF Byte
<1>4. a \in Seq(Byte) /\ Len(a) = 24 /\ \A i \in 1 .. 24 : a[i] = 1
  BY <1>3 DEF Repeat
<1> HIDE DEF a, d, n, p
<1>5. /\ p \in Seq(Byte) /\ Len(p) = 24 + n
      /\ p[1] = 1 /\ \A i \in 1 .. n : p[24 + i] = d[i]
  <2>1. /\ p \in Seq(Byte) /\ Len(p) = Len(a) + Len(d)
        /\ \A i \in 1 .. Len(a) : p[i] = a[i]
        /\ \A i \in 1 .. Len(d) : p[Len(a) + i] = d[i]
    BY <1>1, <1>2, <1>4, Joined, Zenon
  <2>2. Len(d) = n
    BY DEF n
  <2> QED
    BY <1>1, <1>4, <2>1, <2>2
<1>6. ~IsZero(SubSeq(p, 1, 8))
  <2>1. SubSeq(p, 1, 8) = [i \in 1 .. 8 |-> p[i]]
    BY <1>1, <1>5
  <2> QED
    BY <1>5, <2>1 DEF IsZero
<1>7. SubSeq(p, 25, Len(p)) = d
  <2>1. SubSeq(p, 25, Len(p)) = [i \in 1 .. n |-> p[24 + i]]
    BY <1>1, <1>5
  <2>2. d = [i \in 1 .. n |-> d[i]]
    BY <1>1 DEF n
  <2> QED
    BY <1>5, <2>1, <2>2
<1> QED
  BY <1>5, <1>6, <1>7 DEF EncryptedHeaderBytes, KeyIdBytes, d, n, p

(* Every error of parse_external has a kind of its own.                    *)
LEMMA ParseKinds ==
    ASSUME NEW input \in Seq(Byte), NEW max \in Nat
    PROVE  LET e == ParseExternal(input, max)
           IN  /\ e.status \in {"error", "plain", "encrypted"}
               /\ e.status = "error" => e.kind # "none"
<1> DEFINE Named(e) == /\ e.status \in {"error", "plain", "encrypted"}
                       /\ e.status = "error" => e.kind # "none"
<1>1. /\ Named(Failed("NeedMore")) /\ Named(Failed("InvalidLength"))
      /\ Named(Failed("LimitExceeded"))
  BY DEF Failed
<1>2. \A s : Named(Plain(s)) /\ Named(Encrypted(s))
  BY DEF Plain, Encrypted
<1> HIDE DEF Named
<1>3. Named(EncryptedData(input, max))
  BY <1>1, <1>2, Zenon DEF EncryptedData
<1>4. \A length : Named(PlainBody(input, length, max))
  BY <1>1, <1>2, Zenon DEF PlainBody
<1>5. Named(ParseExternal(input, max))
  BY <1>1, <1>3, <1>4, Zenon DEF ParseExternal
<1> QED
  BY <1>5 DEF Named

LEMMA EnvelopeSizes ==
    /\ KeyIdBytes = 8 /\ PlainHeaderBytes = 20 /\ EncryptedHeaderBytes = 24
    /\ InnerHeaderBytes = 32 /\ BlockBytes = 16
<1> QED
  BY SMT DEF KeyIdBytes, MessageIdBytes, LengthBytes, PlainHeaderBytes,
             EncryptedHeaderBytes, InnerHeaderBytes, BlockBytes

(* A plain envelope is refused only for the size of its body.              *)
LEMMA PlainParsed ==
    ASSUME NEW f \in Frame, f.kind = "plain", NEW codec \in Codecs,
           Encodable(codec, PeerPayload(f)), NEW max \in Nat
    PROVE  ParseExternal(PeerPayload(f), max) =
           IF Len(f.body) <= max THEN Plain(f.body) ELSE Failed("LimitExceeded")
<1> DEFINE p == PeerPayload(f)
           n == Len(f.body)
           header == SubSeq(p, KeyIdBytes + MessageIdBytes + 1, PlainHeaderBytes)
           rest == SubSeq(p, PlainHeaderBytes + 1, Len(p))
           zero == IsZero(SubSeq(p, 1, KeyIdBytes))
           top == MaxPayload("intermediate")
<1>1. /\ p \in Seq(Byte) /\ Len(p) = PlainHeaderBytes + n
      /\ zero /\ header = Bytes4(n) /\ rest = f.body
  BY PlainPayload
<1>2. n \in Nat /\ Len(p) \in Nat
  BY <1>1 DEF Frame
<1>3. Len(p) % 4 = 0 /\ Len(p) <= MaxPayload(codec)
  BY DEF Encodable
<1>4. top \in Nat /\ MaxPayload("abridged") \in Nat /\ MaxPayload("abridged") <= top
  BY SMT DEF MaxPayload
<1>5. ParseExternal(p, max) =
      IF Len(p) < KeyIdBytes THEN Failed("NeedMore")
      ELSE IF zero
      THEN IF Len(p) < PlainHeaderBytes THEN Failed("NeedMore")
           ELSE PlainBody(p, LE4(header), max)
      ELSE IF Len(p) < EncryptedHeaderBytes THEN Failed("NeedMore")
      ELSE EncryptedData(p, max)
  BY Zenon DEF ParseExternal
<1>6. \A length : PlainBody(p, length, max) =
         IF length % 4 # 0 THEN Failed("InvalidLength")
         ELSE IF length > max THEN Failed("LimitExceeded")
         ELSE IF Len(p) - PlainHeaderBytes < length THEN Failed("NeedMore")
         ELSE IF Len(p) - PlainHeaderBytes > length THEN Failed("InvalidLength")
         ELSE Plain(rest)
  BY Zenon DEF PlainBody
<1> HIDE DEF p, n, header, rest, zero, top
<1>7. Len(p) <= top
  BY <1>2, <1>3, <1>4 DEF Codecs, top
<1>8. Len(p) = 20 + n /\ PlainHeaderBytes = 20
  BY <1>1, EnvelopeSizes
<1>9. n % 4 = 0 /\ n <= top /\ Len(p) - PlainHeaderBytes = n
  BY <1>2, <1>3, <1>4, <1>7, <1>8
<1>10. LE4(header) = n
  BY <1>1, <1>2, <1>9, LengthRoundTrip DEF top
<1>11. ParseExternal(p, max) = PlainBody(p, n, max)
  <2>1. ~(Len(p) < KeyIdBytes) /\ ~(Len(p) < PlainHeaderBytes)
    BY <1>2, <1>8, EnvelopeSizes
  <2> QED
    BY <1>1, <1>5, <1>10, <2>1, Zenon
<1>12. PlainBody(p, n, max) =
       IF n <= max THEN Plain(f.body) ELSE Failed("LimitExceeded")
  <2>1. ~(n < n) /\ ~(n > n) /\ (n > max <=> ~(n <= max))
    BY <1>2
  <2> QED
    BY <1>1, <1>6, <1>9, <2>1, Zenon
<1> QED
  BY <1>11, <1>12 DEF p, n

LEMMA EncryptedParsed ==
    ASSUME NEW f \in Frame, f.kind = "encrypted", NEW max \in Nat
    PROVE  LET n == Len(f.body)
               e == ParseExternal(PeerPayload(f), max)
           IN  IF n >= InnerHeaderBytes /\ n % BlockBytes = 0 /\ n <= max + 1072
               THEN e = Encrypted(f.body)
               ELSE e = Failed("InvalidLength") \/ e = Failed("LimitExceeded")
<1> DEFINE p == PeerPayload(f)
           n == Len(f.body)
           rest == SubSeq(p, EncryptedHeaderBytes + 1, Len(p))
           zero == IsZero(SubSeq(p, 1, KeyIdBytes))
<1>1. /\ p \in Seq(Byte) /\ Len(p) = EncryptedHeaderBytes + n
      /\ ~zero /\ rest = f.body
  BY EncryptedPayload
<1>2. n \in Nat /\ Len(p) \in Nat
  BY <1>1 DEF Frame
<1>3. ParseExternal(p, max) =
      IF Len(p) < KeyIdBytes THEN Failed("NeedMore")
      ELSE IF zero
      THEN IF Len(p) < PlainHeaderBytes THEN Failed("NeedMore")
           ELSE PlainBody(p, LE4(SubSeq(p, KeyIdBytes + MessageIdBytes + 1,
                                        PlainHeaderBytes)), max)
      ELSE IF Len(p) < EncryptedHeaderBytes THEN Failed("NeedMore")
      ELSE EncryptedData(p, max)
  BY Zenon DEF ParseExternal
<1>4. EncryptedData(p, max) =
      IF \/ Len(p) - EncryptedHeaderBytes < InnerHeaderBytes
         \/ (Len(p) - EncryptedHeaderBytes) % BlockBytes # 0
      THEN Failed("InvalidLength")
      ELSE IF Len(p) - EncryptedHeaderBytes > max + 1072
      THEN Failed("LimitExceeded")
      ELSE Encrypted(rest)
  BY Zenon DEF EncryptedData
<1> HIDE DEF p, n, rest, zero
<1>5. Len(p) - EncryptedHeaderBytes = n
  BY <1>1, <1>2, EnvelopeSizes
<1>6. ParseExternal(p, max) = EncryptedData(p, max)
  <2>1. ~(Len(p) < KeyIdBytes) /\ ~(Len(p) < EncryptedHeaderBytes)
    BY <1>1, <1>2, EnvelopeSizes
  <2> QED
    BY <1>1, <1>3, <2>1, Zenon
<1>7. /\ n < InnerHeaderBytes <=> ~(n >= InnerHeaderBytes)
      /\ n > max + 1072 <=> ~(n <= max + 1072)
  BY <1>2, EnvelopeSizes
<1>8. IF n >= InnerHeaderBytes /\ n % BlockBytes = 0 /\ n <= max + 1072
      THEN EncryptedData(p, max) = Encrypted(f.body)
      ELSE \/ EncryptedData(p, max) = Failed("InvalidLength")
           \/ EncryptedData(p, max) = Failed("LimitExceeded")
  BY <1>1, <1>4, <1>5, <1>7
<1> QED
  BY <1>6, <1>8 DEF p, n

LEMMA PeerPayloadType ==
    ASSUME NEW f \in Frame, f.kind # "quick_ack"
    PROVE  PeerPayload(f) \in Seq(Byte)
<1>1. f.kind \in {"plain", "encrypted", "raw"} /\ f.body \in Seq(Byte)
  BY DEF Frame
<1>2. CASE f.kind = "raw"
  BY <1>1, <1>2 DEF PeerPayload
<1> QED
  BY <1>1, <1>2, PlainPayload, EncryptedPayload

(* decode at the front of a quick acknowledgement.                         *)
LEMMA QuickAckDecode ==
    ASSUME NEW codec \in Codecs, NEW bytes \in Seq(Byte), Len(bytes) = 4,
           bytes[IF codec = "intermediate" THEN 4 ELSE 1] >= 128,
           NEW max \in Nat, NEW input \in Seq(Byte), Agree(input, bytes)
    PROVE  LET d == Decode(codec, input, max)
           IN  IF codec = "intermediate"
               THEN \/ d = NeedMore(4)
                    \/ d = QuickAck(bytes) /\ Len(input) >= 4
               ELSE \/ d = NeedMore(1)
                    \/ d = Failed("InvalidLength")
<1> DEFINE d == Decode(codec, input, max)
<1>1. CASE codec = "intermediate" /\ Len(input) < 4
  BY <1>1 DEF Decode, IntermediateDecode
<1>2. CASE codec = "intermediate" /\ Len(input) >= 4
  <2>1. /\ input[1] = bytes[1] /\ input[2] = bytes[2]
        /\ input[3] = bytes[3] /\ input[4] = bytes[4]
    BY <1>2 DEF Agree
  <2>2. SubSeq(input, 1, 4) = bytes
    <3>1. SubSeq(input, 1, 4) = [i \in 1 .. 4 |-> input[i]]
      BY <1>2
    <3>2. bytes = [i \in 1 .. 4 |-> bytes[i]]
      OBVIOUS
    <3>3. \A i \in 1 .. 4 : input[i] = bytes[i]
      BY <2>1
    <3> QED
      BY <3>1, <3>2, <3>3
  <2>3. input[4] >= 128 /\ ~(Len(input) < 4)
    BY <1>2, <2>1
  <2>4. d = QuickAck(SubSeq(input, 1, 4))
    BY <1>2, <2>3, Zenon DEF Decode, IntermediateDecode
  <2> QED
    BY <1>2, <2>2, <2>4
<1>3. CASE codec # "intermediate" /\ input = <<>>
  BY <1>3 DEF Decode, AbridgedDecode
<1>4. CASE codec # "intermediate" /\ input # <<>>
  <2>1. input[1] = bytes[1] /\ bytes[1] >= 128 /\ bytes[1] \in Nat
    BY <1>4, ByteAt DEF Agree
  <2>2. ~(input[1] < 127) /\ input[1] > 127
    BY <2>1
  <2>3. d = Failed("InvalidLength")
    BY <1>4, <2>2, Zenon DEF Decode, AbridgedDecode
  <2> QED
    BY <1>4, <2>3
<1> QED
  BY <1>1, <1>2, <1>3, <1>4

(* poll with a part of the stream in the buffer that begins with the frame *)
(* f, and its bytes: it waits for no more than the frame, or hands the     *)
(* frame over and consumes just its bytes, or fails at a bad frame.        *)
PollOutcome(event, f, bytes, input) ==
    /\ event.status \in {"need_more", "event", "error"}
    /\ event.status = "need_more" =>
          event.total \in Nat /\ event.total <= Len(bytes)
          /\ event.total <= BufferBytes
    /\ event.status = "event" =>
          /\ Acceptable(f) /\ event.frame = f
          /\ event.consumed = Len(bytes) /\ Len(bytes) <= Len(input)
    /\ event.status = "error" => ~Acceptable(f) /\ event.kind # "none"

LEMMA PollFrame ==
    ASSUME connection \in Connections, NEW i \in 1 .. Len(script),
           NEW input \in Seq(Byte), Agree(input, FrameBytes(script[i]))
    PROVE  PollOutcome(Poll(input), script[i], FrameBytes(script[i]), input)
<1> DEFINE f == script[i]
           codec == connection.codec
           max == connection.maxFrameBytes
           limit == connection.maxMessageBytes
           bytes == FrameBytes(f)
           d == Decode(codec, input, max)
           event == Poll(input)
           e == ParseExternal(Payload(input, d), limit)
<1> SUFFICES PollOutcome(event, f, bytes, input)
  OBVIOUS
<1>1. /\ codec \in Codecs /\ max \in Nat /\ limit \in Nat
      /\ f \in Frame /\ Writable(connection, f)
      /\ Acceptable(f) <=> WithinRules(connection, f)
  <2>1. /\ codec \in Codecs /\ max \in Nat /\ limit \in Nat
        /\ script \in Seq(Frame)
        /\ \A j \in DOMAIN script : Writable(connection, script[j])
    BY ConnectionsAssumption DEF script
  <2>2. \A j \in DOMAIN script :
           Acceptable(script[j]) <=> WithinRules(connection, script[j])
    BY AcceptableAssumption DEF script
  <2>3. i \in DOMAIN script /\ f \in Frame
    BY <2>1
  <2> QED
    BY <2>1, <2>2, <2>3
<1>2. Sound(d, input, max)
  BY <1>1, DecodeSound
<1>3. /\ d.status = "quick_ack" =>
            event = [status |-> "event", consumed |-> d.consumed,
                     frame |-> [kind |-> "quick_ack", body |-> d.token]]
      /\ d.status = "packet" =>
            event = IF e.status = "error" THEN e
                    ELSE [status |-> "event", consumed |-> d.consumed,
                          frame |-> [kind |-> e.status, body |-> e.body]]
      /\ d.status \notin {"quick_ack", "packet"} => event = d
  BY DEF Poll
<1>4. f.kind \in {"plain", "encrypted", "raw", "quick_ack"} /\ f.body \in Seq(Byte)
      /\ f = [kind |-> f.kind, body |-> f.body]
  BY <1>1 DEF Frame
<1>5. Agree(input, bytes)
  OBVIOUS
<1> HIDE DEF f, codec, max, limit, d, event, e
<1>6. BufferBytes = max + 4
  BY DEF BufferBytes, max
<1>7. CASE f.kind = "quick_ack"
  <2>1. bytes = f.body
    BY <1>7 DEF FrameBytes
  <2>2. /\ Len(f.body) = 4
        /\ f.body[IF codec = "intermediate" THEN 4 ELSE 1] >= 128
    BY <1>1, <1>7 DEF Writable, codec
  <2>3. IF codec = "intermediate"
        THEN d = NeedMore(4) \/ (d = QuickAck(f.body) /\ Len(input) >= 4)
        ELSE d = NeedMore(1) \/ d = Failed("InvalidLength")
    BY <1>1, <1>4, <1>5, <2>1, <2>2, QuickAckDecode DEF d
  <2>4. Acceptable(f) <=> codec = "intermediate"
    BY <1>1, <1>7 DEF WithinRules, codec
  <2>5. ASSUME NEW total \in {1, 4}, d = NeedMore(total)
        PROVE  PollOutcome(event, f, bytes, input)
    <3>1. event = d /\ d.status = "need_more" /\ d.total = total
      BY <1>3, <2>5 DEF NeedMore
    <3> QED
      BY <1>1, <1>6, <2>1, <2>2, <3>1 DEF PollOutcome
  <2>6. CASE codec = "intermediate" /\ d = QuickAck(f.body) /\ Len(input) >= 4
    <3>1. d.status = "quick_ack" /\ d.consumed = 4 /\ d.token = f.body
      BY <2>2, <2>6 DEF QuickAck
    <3>2. event = [status |-> "event", consumed |-> 4, frame |-> f]
      BY <1>3, <1>4, <1>7, <3>1
    <3> QED
      BY <2>1, <2>2, <2>4, <2>6, <3>2 DEF PollOutcome
  <2>7. CASE codec # "intermediate" /\ d = Failed("InvalidLength")
    <3>1. event = d /\ d.status = "error" /\ d.kind = "InvalidLength"
      BY <1>3, <2>7 DEF Failed
    <3> QED
      BY <2>4, <2>7, <3>1 DEF PollOutcome
  <2> QED
    BY <2>3, <2>5, <2>6, <2>7
<1>8. CASE f.kind # "quick_ack"
  <2> DEFINE p == PeerPayload(f)
  <2>1. bytes = Encode(codec, p) /\ p \in Seq(Byte) /\ Encodable(codec, p)
    BY <1>1, <1>8, PeerPayloadType DEF FrameBytes, Writable, codec
  <2>2. FrameOutcome(d, p, bytes, input, max)
    BY <1>1, <1>5, <2>1, FrameDecode DEF d
  <2>3. Len(p) \in Nat
    BY <2>1
  <2> HIDE DEF p, bytes
  <2>4. CASE d.status = "need_more"
    <3>1. event = d
      BY <1>3, <2>4
    <3>2. d.total \in Nat /\ d.total <= 4 + max /\ d.total <= Len(bytes)
      BY <1>2, <2>2, <2>4 DEF Sound, FrameOutcome
    <3> QED
      BY <1>1, <1>6, <2>4, <3>1, <3>2 DEF PollOutcome
  <2>5. CASE d.status = "error"
    <3>1. event = d
      BY <1>3, <2>5
    <3>2. Len(p) > max /\ d.kind # "none"
      BY <2>2, <2>5 DEF FrameOutcome
    <3>3. ~Acceptable(f)
      <4>1. CASE f.kind = "plain"
        <5>1. Len(p) = PlainHeaderBytes + Len(f.body)
          BY <1>1, <4>1, PlainPayload DEF p
        <5> QED
          BY <1>1, <2>3, <3>2, <4>1, <5>1 DEF WithinRules, max
      <4>2. CASE f.kind = "encrypted"
        <5>1. Len(p) = EncryptedHeaderBytes + Len(f.body)
          BY <1>1, <4>2, EncryptedPayload DEF p
        <5> QED
          BY <1>1, <2>3, <3>2, <4>2, <5>1 DEF WithinRules, max
      <4>3. CASE f.kind = "raw"
        BY <1>1, <4>3 DEF WithinRules
      <4> QED
        BY <1>4, <1>8, <4>1, <4>2, <4>3
    <3> QED
      BY <2>5, <3>1, <3>2, <3>3 DEF PollOutcome
  <2>6. CASE d.status = "packet"
    <3>1. /\ d.consumed = Len(bytes) /\ Len(bytes) <= Len(input)
          /\ Len(p) <= max /\ Payload(input, d) = p
      BY <2>2, <2>6 DEF FrameOutcome
    <3>2. e = ParseExternal(p, limit)
      BY <3>1 DEF e
    <3>3. event = IF e.status = "error" THEN e
                  ELSE [status |-> "event", consumed |-> d.consumed,
                        frame |-> [kind |-> e.status, body |-> e.body]]
      BY <1>3, <2>6
    <3>4. ASSUME Acceptable(f), e.status = f.kind, e.body = f.body
          PROVE  PollOutcome(event, f, bytes, input)
      <4>1. event = [status |-> "event", consumed |-> d.consumed, frame |-> f]
        BY <1>4, <3>3, <3>4
      <4> QED
        BY <3>1, <3>4, <4>1 DEF PollOutcome
    <3>5. ASSUME ~Acceptable(f), e.status = "error"
          PROVE  PollOutcome(event, f, bytes, input)
      <4>1. e.kind # "none"
        BY <1>1, <2>1, <3>2, <3>5, ParseKinds
      <4>2. event = e
        BY <3>3, <3>5
      <4> QED
        BY <3>5, <4>1, <4>2 DEF PollOutcome
    <3>6. CASE f.kind = "plain"
      <4>1. /\ Len(p) = PlainHeaderBytes + Len(f.body)
            /\ e = IF Len(f.body) <= limit THEN Plain(f.body)
                   ELSE Failed("LimitExceeded")
        BY <1>1, <2>1, <3>2, <3>6, PlainPayload, PlainParsed DEF p
      <4>2. Acceptable(f) <=> Len(f.body) <= limit
        BY <1>1, <3>1, <3>6, <4>1 DEF WithinRules, limit, max
      <4> QED
        BY <3>4, <3>5, <3>6, <4>1, <4>2 DEF Plain, Failed
    <3>7. CASE f.kind = "encrypted"
      <4>1. Len(p) = EncryptedHeaderBytes + Len(f.body)
        BY <1>1, <3>7, EncryptedPayload DEF p
      <4> DEFINE good == /\ Len(f.body) >= InnerHeaderBytes
                         /\ Len(f.body) % BlockBytes = 0
                         /\ Len(f.body) <= limit + 1072
      <4>2. IF good THEN e = Encrypted(f.body)
            ELSE e = Failed("InvalidLength") \/ e = Failed("LimitExceeded")
        BY <1>1, <3>2, <3>7, EncryptedParsed DEF p
      <4>3. Acceptable(f) <=> good
        BY <1>1, <3>1, <3>7, <4>1 DEF WithinRules, limit, max
      <4> HIDE DEF good
      <4> QED
        BY <3>4, <3>5, <3>7, <4>2, <4>3 DEF Encrypted, Failed
    <3>8. CASE f.kind = "raw"
      <4>1. p = f.body /\ ~Acceptable(f)
        BY <1>1, <3>8 DEF PeerPayload, WithinRules, p
      <4>2. e.status = "error"
        BY <1>1, <1>8, <3>2, <3>8, <4>1 DEF Writable, limit
      <4> QED
        BY <3>5, <4>1, <4>2
    <3> QED
      BY <1>4, <1>8, <3>6, <3>7, <3>8
  <2> QED
    BY <2>2, <2>4, <2>5, <2>6 DEF FrameOutcome
<1> QED
  BY <1>7, <1>8

-----------------------------------------------------------------------------
(* Induction over the naturals, and the existence of the function that     *)
(* primitive recursion defines, from the least number principle.           *)
LEMMA LeastNatural ==
    ASSUME NEW S \in SUBSET Nat, S # {}
    PROVE  \E n \in S : \A m \in S : n <= m
<1> DEFINE R == OpToRel(<, Nat)
<1>1. IsWellFoundedOn(R, Nat)
  BY NatLessThanWellFounded, Zenon
<1>2. \A x, y \in Nat : y < x => <<y, x>> \in R
  BY DEF OpToRel
<1> HIDE DEF R
<1>3. PICK x \in S : \A y \in S : ~ (<<y, x>> \in R)
  BY <1>1, WFMin, Zenon
<1>4. \A y \in S : ~ (y < x)
  BY <1>2, <1>3
<1>5. x \in Nat /\ \A y \in S : y \in Nat
  OBVIOUS
<1>6. \A y \in S : x <= y
  BY <1>4, <1>5, SMT
<1> QED
  BY <1>6, Zenon

LEMMA Induction ==
    ASSUME NEW S, 0 \in S, \A n \in Nat : n \in S => n + 1 \in S
    PROVE  Nat \subseteq S
<1> DEFINE B == {n \in Nat : n \notin S}
<1>1. SUFFICES ASSUME B # {} PROVE FALSE
  OBVIOUS
<1>2. PICK n \in B : \A m \in B : n <= m
  <2>1. B \in SUBSET Nat
    OBVIOUS
  <2> QED
    BY <1>1, <2>1, LeastNatural, Zenon
<1>3. n # 0
  BY <1>2
<1>4. n - 1 \in Nat /\ n - 1 \notin B
  BY <1>2, <1>3
<1> QED
  BY <1>2, <1>4

IsRecursion(f, first, limit, step) ==
    f = [n \in 0 .. limit |-> IF n = 0 THEN first ELSE step[<<n, f[n - 1]>>]]

LEMMA PrimitiveRecursion ==
    ASSUME NEW S, NEW first \in S, NEW limit \in Nat,
           NEW step \in [(1 .. limit) \X S -> S]
    PROVE  \E f \in [0 .. limit -> S] : IsRecursion(f, first, limit, step)
<1> DEFINE Upto(k, f) == /\ f \in [0 .. k -> S] /\ f[0] = first
                         /\ \A n \in 1 .. k : f[n] = step[<<n, f[n - 1]>>]
           Good == {k \in Nat : k <= limit => \E f : Upto(k, f)}
<1>1. 0 \in Good
  <2>1. Upto(0, [n \in 0 .. 0 |-> first])
    OBVIOUS
  <2> QED
    BY <2>1
<1>2. ASSUME NEW k \in Nat, k \in Good
      PROVE  k + 1 \in Good
  <2>1. SUFFICES ASSUME k + 1 <= limit PROVE \E f : Upto(k + 1, f)
    OBVIOUS
  <2>2. PICK g : Upto(k, g)
    BY <1>2, <2>1
  <2> DEFINE h == [n \in 0 .. k + 1 |-> IF n <= k THEN g[n]
                                        ELSE step[<<k + 1, g[k]>>]]
  <2>3. <<k + 1, g[k]>> \in (1 .. limit) \X S
    BY <2>1, <2>2
  <2>4. h \in [0 .. k + 1 -> S] /\ h[0] = first
    BY <2>2, <2>3
  <2>5. ASSUME NEW n \in 1 .. k + 1
        PROVE  h[n] = step[<<n, h[n - 1]>>]
    <3>1. n - 1 \in 0 .. k /\ h[n - 1] = g[n - 1]
      OBVIOUS
    <3>2. CASE n <= k
      BY <2>2, <3>1, <3>2
    <3>3. CASE n = k + 1
      <4>1. h[n] = step[<<k + 1, g[k]>>] /\ n - 1 = k
        BY <3>3
      <4> QED
        BY <3>1, <3>3, <4>1
    <3> QED
      BY <3>2, <3>3
  <2>6. Upto(k + 1, h)
    BY <2>4, <2>5
  <2> HIDE DEF Upto
  <2> QED
    BY <2>6
<1>3. limit \in Good
  <2> HIDE DEF Good
  <2>1. Nat \subseteq Good
    BY <1>1, <1>2, Induction, Zenon
  <2> QED
    BY <2>1
<1>4. PICK f : Upto(limit, f)
  BY <1>3
<1>5. f = [n \in 0 .. limit |-> IF n = 0 THEN first ELSE step[<<n, f[n - 1]>>]]
  BY <1>4
<1> QED
  BY <1>4, <1>5 DEF IsRecursion

-----------------------------------------------------------------------------
LEMMA FrameBytesType ==
    ASSUME connection \in Connections, NEW i \in 1 .. Len(script)
    PROVE  FrameBytes(script[i]) \in Seq(Byte)
<1> DEFINE f == script[i]
<1>1. /\ connection.codec \in Codecs /\ f \in Frame /\ Writable(connection, f)
  BY ConnectionsAssumption DEF script
<1> SUFFICES FrameBytes(f) \in Seq(Byte)
  OBVIOUS
<1> HIDE DEF f
<1>2. CASE f.kind = "quick_ack"
  BY <1>1, <1>2 DEF FrameBytes, Frame
<1>3. CASE f.kind # "quick_ack"
  <2>1. PeerPayload(f) \in Seq(Byte) /\ Encodable(connection.codec, PeerPayload(f))
    BY <1>1, <1>3, PeerPayloadType DEF Writable
  <2>2. Header(connection.codec, PeerPayload(f)) \in Seq(Byte)
    BY <1>1, <2>1, HeaderShape
  <2> QED
    BY <1>3, <2>1, <2>2 DEF FrameBytes, Encode
<1> QED
  BY <1>2, <1>3 DEF f

(* The stream is what its recursive definition says.                       *)
LEMMA StreamRecursion ==
    ASSUME connection \in Connections
    PROVE  /\ Len(script) \in Nat
           /\ LastFrames \in [0 .. Len(script) -> Seq(Byte)]
           /\ LastFrames[0] = <<>>
           /\ \A n \in 1 .. Len(script) :
                 LastFrames[n] = FrameBytes(script[Len(script) - n + 1])
                                 \o LastFrames[n - 1]
<1> DEFINE N == Len(script)
           part == [n \in 1 .. N |-> FrameBytes(script[N - n + 1])]
           next == [x \in (1 .. N) \X Seq(Byte) |-> part[x[1]] \o x[2]]
           Body(f) == [n \in 0 .. N |->
                          IF n = 0 THEN <<>>
                          ELSE FrameBytes(script[N - n + 1]) \o f[n - 1]]
<1>1. script \in Seq(Frame) /\ N \in Nat
  BY ConnectionsAssumption DEF script
<1>2. part \in [1 .. N -> Seq(Byte)]
  <2>1. \A n \in 1 .. N : N - n + 1 \in 1 .. N
    BY <1>1
  <2> QED
    BY <2>1, FrameBytesType
<1>3. next \in [(1 .. N) \X Seq(Byte) -> Seq(Byte)]
  <2> HIDE DEF part
  <2>1. \A x \in (1 .. N) \X Seq(Byte) :
           part[x[1]] \in Seq(Byte) /\ x[2] \in Seq(Byte)
    BY <1>2
  <2>2. \A x \in (1 .. N) \X Seq(Byte) : part[x[1]] \o x[2] \in Seq(Byte)
    BY <2>1
  <2> QED
    BY <2>2
<1>4. \E f \in [0 .. N -> Seq(Byte)] : IsRecursion(f, <<>>, N, next)
  <2> HIDE DEF next
  <2>1. <<>> \in Seq(Byte)
    OBVIOUS
  <2> HIDE DEF N
  <2> QED
    BY <1>1, <1>3, <2>1, PrimitiveRecursion, Zenon
<1>5. PICK f \in [0 .. N -> Seq(Byte)] :
         f = [n \in 0 .. N |-> IF n = 0 THEN <<>> ELSE next[<<n, f[n - 1]>>]]
  BY <1>4 DEF IsRecursion
<1>6. f = Body(f)
  <2>1. ASSUME NEW n \in 0 .. N, n # 0
        PROVE  next[<<n, f[n - 1]>>] = FrameBytes(script[N - n + 1]) \o f[n - 1]
    <3>1. n \in 1 .. N /\ n - 1 \in 0 .. N
      BY <1>1, <2>1
    <3>2. <<n, f[n - 1]>> \in (1 .. N) \X Seq(Byte)
      BY <1>5, <3>1
    <3>3. next[<<n, f[n - 1]>>] = part[n] \o f[n - 1]
      BY <3>2
    <3> QED
      BY <3>1, <3>3
  <2> HIDE DEF next
  <2> QED
    BY <1>5, <2>1
<1>7. LastFrames = CHOOSE g : g = Body(g)
  BY DEF LastFrames
<1>8. LastFrames = Body(LastFrames)
  <2> HIDE DEF Body
  <2> QED
    BY <1>6, <1>7, Zenon
<1>9. LastFrames[0] = <<>>
  BY <1>1, <1>8
<1>10. ASSUME NEW n \in 1 .. N
       PROVE  LastFrames[n] = FrameBytes(script[N - n + 1]) \o LastFrames[n - 1]
  <2>1. n \in 0 .. N /\ n # 0
    BY <1>1
  <2>2. Body(LastFrames)[n] = FrameBytes(script[N - n + 1]) \o LastFrames[n - 1]
    BY <2>1
  <2> HIDE DEF Body
  <2> QED
    BY <1>8, <2>2
<1> DEFINE T == {n \in Nat : n <= N => LastFrames[n] \in Seq(Byte)}
<1>11. 0 \in T
  <2>1. <<>> \in Seq(Byte) /\ 0 \in Nat
    OBVIOUS
  <2> QED
    BY <1>9, <2>1
<1>12. ASSUME NEW n \in Nat, n \in T
       PROVE  n + 1 \in T
  <2>1. SUFFICES ASSUME n + 1 <= N PROVE LastFrames[n + 1] \in Seq(Byte)
    OBVIOUS
  <2> DEFINE m == n + 1
  <2>2. m \in 1 .. N /\ m - 1 = n /\ N - m + 1 \in 1 .. N
    BY <1>1, <2>1
  <2>3. LastFrames[m - 1] \in Seq(Byte)
    BY <1>1, <1>12, <2>1
  <2>4. FrameBytes(script[N - m + 1]) \in Seq(Byte)
    BY <2>2, FrameBytesType
  <2>5. LastFrames[m] = FrameBytes(script[N - m + 1]) \o LastFrames[m - 1]
    BY <1>10, <2>2
  <2> HIDE DEF m
  <2>6. LastFrames[m] \in Seq(Byte)
    BY <2>3, <2>4, <2>5
  <2> QED
    BY <2>6 DEF m
<1>13. Nat \subseteq T
  <2> HIDE DEF T
  <2> QED
    BY <1>11, <1>12, Induction, Zenon
<1>14. \A n \in 0 .. N : LastFrames[n] \in Seq(Byte)
  BY <1>1, <1>13
<1>15. LastFrames \in [0 .. N -> Seq(Byte)]
  <2>1. LastFrames = [n \in 0 .. N |-> Body(LastFrames)[n]]
    BY <1>8
  <2>2. LastFrames = [n \in 0 .. N |-> LastFrames[n]]
    <3> HIDE DEF Body
    <3> QED
      BY <1>8, <2>1
  <2> QED
    BY <1>14, <2>2
<1> QED
  BY <1>1, <1>9, <1>10, <1>15

LEMMA StreamConstant ==
    ASSUME connection' = connection
    PROVE  LastFrames' = LastFrames
<1> QED
  BY Zenon DEF LastFrames, FrameBytes, script

-----------------------------------------------------------------------------
(* The inductive invariant: what has arrived and is not consumed, with     *)
(* what is still to arrive, is exactly the bytes of the frames not yet     *)
(* handed over.                                                            *)
Remaining == Len(script) - Len(delivered)

StreamInv ==
    /\ connection \in Connections
    /\ wire \in Seq(Byte) /\ buffer \in Seq(Byte)
    /\ need \in Nat
    /\ delivered \in Seq(Frame) /\ Len(delivered) <= Len(script)
    /\ buffer \o wire = LastFrames[Remaining]
    /\ NeedReachable

(* What poll can find in the buffer: the beginning of the next frame's     *)
(* bytes and of those behind it, or nothing when there is no next frame.   *)
LEMMA NextFrame ==
    ASSUME StreamInv, Len(delivered) < Len(script)
    PROVE  LET i == Len(delivered) + 1
               bytes == FrameBytes(script[i])
           IN  /\ i \in 1 .. Len(script) /\ script[i] \in Frame
               /\ bytes \in Seq(Byte)
               /\ LastFrames[Remaining - 1] \in Seq(Byte)
               /\ buffer \o wire = bytes \o LastFrames[Remaining - 1]
               /\ PollOutcome(Poll(buffer), script[i], bytes, buffer)
<1> DEFINE i == Len(delivered) + 1
           bytes == FrameBytes(script[i])
           rest == LastFrames[Remaining - 1]
<1>1. /\ connection \in Connections
      /\ wire \in Seq(Byte) /\ buffer \in Seq(Byte)
      /\ Len(delivered) \in Nat
      /\ buffer \o wire = LastFrames[Remaining]
  BY DEF StreamInv
<1>2. /\ Len(script) \in Nat
      /\ LastFrames \in [0 .. Len(script) -> Seq(Byte)]
      /\ \A n \in 1 .. Len(script) :
            LastFrames[n] = FrameBytes(script[Len(script) - n + 1])
                            \o LastFrames[n - 1]
  BY <1>1, StreamRecursion
<1>3. /\ i \in 1 .. Len(script) /\ Remaining \in 1 .. Len(script)
      /\ Remaining - 1 \in 0 .. Len(script)
      /\ Len(script) - Remaining + 1 = i
  BY <1>1, <1>2 DEF Remaining
<1>4. script[i] \in Frame
  <2>1. script \in Seq(Frame)
    BY <1>1, ConnectionsAssumption DEF script
  <2> QED
    BY <1>3, <2>1
<1>5. bytes \in Seq(Byte)
  BY <1>1, <1>3, FrameBytesType
<1>6. rest \in Seq(Byte)
  <2> HIDE DEF i
  <2> QED
    BY <1>2, <1>3
<1>7. buffer \o wire = bytes \o rest
  BY <1>1, <1>2, <1>3
<1> HIDE DEF bytes, rest
<1>8. Agree(buffer, bytes)
  <2>1. ASSUME NEW k \in 1 .. Len(buffer), k <= Len(bytes)
        PROVE  buffer[k] = bytes[k]
    <3>1. (buffer \o wire)[k] = buffer[k]
      BY <1>1, <2>1
    <3>2. (bytes \o rest)[k] = bytes[k]
      BY <1>5, <1>6, <2>1
    <3> QED
      BY <1>7, <3>1, <3>2
  <2> QED
    BY <2>1 DEF Agree
<1>9. PollOutcome(Poll(buffer), script[i], bytes, buffer)
  BY <1>1, <1>3, <1>8, PollFrame DEF bytes
<1> QED
  BY <1>3, <1>4, <1>5, <1>6, <1>7, <1>9 DEF bytes, rest

LEMMA NoNextFrame ==
    ASSUME StreamInv, ~(Len(delivered) < Len(script))
    PROVE  /\ buffer = <<>>
           /\ Poll(buffer).status = "need_more" /\ Poll(buffer).total \in Nat
<1>1. /\ connection \in Connections
      /\ wire \in Seq(Byte) /\ buffer \in Seq(Byte)
      /\ Len(delivered) \in Nat /\ Len(delivered) <= Len(script)
      /\ buffer \o wire = LastFrames[Remaining]
  BY DEF StreamInv
<1>2. Len(script) \in Nat /\ LastFrames[0] = <<>>
  BY <1>1, StreamRecursion
<1>3. Remaining = 0
  BY <1>1, <1>2 DEF Remaining
<1>4. buffer \o wire = <<>>
  BY <1>1, <1>2, <1>3
<1>5. buffer = <<>>
  <2>1. Len(buffer \o wire) = Len(buffer) + Len(wire)
    BY <1>1
  <2>2. Len(buffer) = 0
    BY <1>1, <1>4, <2>1
  <2> QED
    BY <1>1, <2>2
<1> DEFINE d == Decode(connection.codec, buffer, connection.maxFrameBytes)
<1>6. d = NeedMore(4) \/ d = NeedMore(1)
  BY <1>5 DEF Decode, IntermediateDecode, AbridgedDecode
<1>7. d.status = "need_more" /\ d.total \in Nat
  BY <1>6 DEF NeedMore
<1>8. Poll(buffer) = d
  BY <1>7 DEF Poll
<1> QED
  BY <1>5, <1>7, <1>8

LEMMA StreamInit ==
    ASSUME Init
    PROVE  StreamInv
<1>1. /\ connection \in Connections /\ wire = LastFrames[Len(script)]
      /\ buffer = <<>> /\ need = 0 /\ delivered = <<>>
  BY DEF Init, StreamBytes
<1>2. Len(script) \in Nat /\ LastFrames \in [0 .. Len(script) -> Seq(Byte)]
  BY <1>1, StreamRecursion
<1>3. wire \in Seq(Byte)
  BY <1>1, <1>2
<1>4. Remaining = Len(script)
  BY <1>1, <1>2 DEF Remaining
<1>5. buffer \o wire = wire
  BY <1>1, <1>3
<1>6. /\ buffer \in Seq(Byte) /\ delivered \in Seq(Frame)
      /\ Len(delivered) <= Len(script)
  BY <1>1, <1>2
<1>7. NeedReachable
  BY <1>1 DEF NeedReachable
<1> QED
  BY <1>1, <1>3, <1>4, <1>5, <1>6, <1>7 DEF StreamInv

(* Cutting a sequence off a stream that begins with it.                    *)
LEMMA CutOff ==
    ASSUME NEW x \in Seq(Byte), NEW y \in Seq(Byte), NEW z \in Seq(Byte),
           NEW w \in Seq(Byte), x \o y = z \o w, Len(z) <= Len(x)
    PROVE  /\ SubSeq(x, Len(z) + 1, Len(x)) \in Seq(Byte)
           /\ SubSeq(x, Len(z) + 1, Len(x)) \o y = w
<1> DEFINE n == Len(z)
           m == Len(x) - Len(z)
           t == SubSeq(x, n + 1, Len(x))
<1>1. n \in Nat /\ m \in Nat /\ Len(x) = n + m
  OBVIOUS
<1>2. t \in Seq(Byte) /\ Len(t) = m /\ \A i \in 1 .. m : t[i] = x[n + i]
  <2> HIDE DEF n, m
  <2> QED
    BY <1>1, Slice
<1>3. Len(y) \in Nat /\ Len(w) \in Nat /\ m + Len(y) = Len(w)
  <2>1. Len(x \o y) = Len(x) + Len(y) /\ Len(z \o w) = Len(z) + Len(w)
    OBVIOUS
  <2> QED
    BY <2>1
<1> HIDE DEF t
<1>4. t \o y \in Seq(Byte) /\ Len(t \o y) = Len(w)
  <2>1. t \in Seq(Byte) /\ Len(t) = m
    BY <1>2
  <2>2. t \o y \in Seq(Byte) /\ Len(t \o y) = Len(t) + Len(y)
    BY <2>1
  <2> QED
    BY <1>3, <2>1, <2>2
<1>5. ASSUME NEW k \in 1 .. Len(w)
      PROVE  (t \o y)[k] = w[k]
  <2>1. (z \o w)[n + k] = w[k]
    BY <1>5
  <2>2. CASE k <= m
    <3>1. t[k] = x[n + k]
      BY <1>1, <1>2, <2>2
    <3>2. (x \o y)[n + k] = x[n + k]
      BY <1>1, <2>2
    <3>3. (t \o y)[k] = t[k]
      BY <1>1, <1>2, <2>2
    <3> QED
      BY <2>1, <3>1, <3>2, <3>3
  <2>3. CASE k > m
    <3> DEFINE l == k - m
    <3>1. l \in 1 .. Len(y) /\ k = m + l
      BY <1>1, <1>3, <2>3
    <3> HIDE DEF l, m
    <3>2. (t \o y)[m + l] = y[l]
      BY <1>1, <1>2, <3>1
    <3>3. (x \o y)[Len(x) + l] = y[l]
      BY <3>1
    <3>4. n + k = Len(x) + l
      BY <1>1, <3>1
    <3> QED
      BY <2>1, <3>1, <3>2, <3>3, <3>4
  <2>4. k <= m \/ k > m
    BY <1>1
  <2> QED
    BY <2>2, <2>3, <2>4
<1> QED
  BY <1>2, <1>4, <1>5, SeqEqual DEF t

(* What each step does, beyond its definition, when it starts where the    *)
(* invariant holds.                                                        *)
LEMMA EventStep ==
    ASSUME StreamInv, Poll(buffer).status = "event"
    PROVE  LET event == Poll(buffer)
               rest == SubSeq(buffer, event.consumed + 1, Len(buffer))
           IN  /\ Len(delivered) < Len(script)
               /\ event.frame = script[Len(delivered) + 1]
               /\ event.frame \in Frame /\ Acceptable(event.frame)
               /\ rest \in Seq(Byte)
               /\ rest \o wire = LastFrames[Remaining - 1]
<1>1. Len(delivered) < Len(script)
  BY NoNextFrame
<1> DEFINE i == Len(delivered) + 1
           bytes == FrameBytes(script[i])
           event == Poll(buffer)
           rest == SubSeq(buffer, event.consumed + 1, Len(buffer))
<1>2. /\ script[i] \in Frame /\ bytes \in Seq(Byte)
      /\ LastFrames[Remaining - 1] \in Seq(Byte)
      /\ buffer \o wire = bytes \o LastFrames[Remaining - 1]
      /\ PollOutcome(event, script[i], bytes, buffer)
  BY <1>1, NextFrame
<1>3. /\ Acceptable(script[i]) /\ event.frame = script[i]
      /\ event.consumed = Len(bytes) /\ Len(bytes) <= Len(buffer)
  BY <1>2 DEF PollOutcome
<1>4. buffer \in Seq(Byte) /\ wire \in Seq(Byte)
  BY DEF StreamInv
<1> HIDE DEF bytes, event
<1>5. rest \in Seq(Byte) /\ rest \o wire = LastFrames[Remaining - 1]
  <2> DEFINE behind == LastFrames[Remaining - 1]
             kept == SubSeq(buffer, Len(bytes) + 1, Len(buffer))
  <2>1. rest = kept
    BY <1>3
  <2>2. /\ behind \in Seq(Byte) /\ bytes \in Seq(Byte)
        /\ buffer \o wire = bytes \o behind
    BY <1>2
  <2> HIDE DEF behind
  <2>3. kept \in Seq(Byte) /\ kept \o wire = behind
    BY <1>3, <1>4, <2>2, CutOff
  <2> HIDE DEF rest, kept
  <2> QED
    BY <2>1, <2>3 DEF behind
<1> QED
  BY <1>1, <1>2, <1>3, <1>5 DEF event

LEMMA NeedMoreStep ==
    ASSUME StreamInv, Poll(buffer).status = "need_more"
    PROVE  /\ Poll(buffer).total \in Nat
           /\ Len(delivered) < Len(script) =>
                 /\ Poll(buffer).total <= BufferBytes
                 /\ Poll(buffer).total
                       <= Len(FrameBytes(script[Len(delivered) + 1]))
<1>1. CASE Len(delivered) < Len(script)
  BY <1>1, NextFrame DEF PollOutcome
<1>2. CASE ~(Len(delivered) < Len(script))
  BY <1>2, NoNextFrame
<1> QED
  BY <1>1, <1>2

LEMMA ErrorStep ==
    ASSUME StreamInv, Poll(buffer).status = "error"
    PROVE  /\ Len(delivered) < Len(script)
           /\ ~Acceptable(script[Len(delivered) + 1])
           /\ Poll(buffer).kind # "none"
<1>1. Len(delivered) < Len(script)
  BY NoNextFrame
<1> QED
  BY <1>1, NextFrame DEF PollOutcome

LEMMA ArriveStep ==
    ASSUME StreamInv, wire # <<>>
    PROVE  /\ Append(buffer, Head(wire)) \in Seq(Byte) /\ Tail(wire) \in Seq(Byte)
           /\ Append(buffer, Head(wire)) \o Tail(wire) = LastFrames[Remaining]
<1>1. /\ wire \in Seq(Byte) /\ buffer \in Seq(Byte)
      /\ buffer \o wire = LastFrames[Remaining]
  BY DEF StreamInv
<1>2. Head(wire) \in Byte /\ Tail(wire) \in Seq(Byte)
  BY <1>1
<1>3. Append(buffer, Head(wire)) \o Tail(wire) = buffer \o wire
  BY <1>1
<1> QED
  BY <1>1, <1>2, <1>3

LEMMA StreamStep ==
    ASSUME StreamInv, [Next]_vars
    PROVE  StreamInv'
<1>1. /\ connection \in Connections
      /\ wire \in Seq(Byte) /\ buffer \in Seq(Byte)
      /\ need \in Nat
      /\ delivered \in Seq(Frame) /\ Len(delivered) <= Len(script)
      /\ buffer \o wire = LastFrames[Remaining]
      /\ NeedReachable
  BY DEF StreamInv
<1>2. connection' = connection
  BY DEF Next, Arrive, PollWhenReady, PollEarly, PollAny, PollNeedMore,
         PollEvent, PollError, vars
<1>3. /\ script' = script /\ LastFrames' = LastFrames
      /\ BufferBytes' = BufferBytes
  BY <1>2, StreamConstant DEF script, BufferBytes
<1>4. \A f : FrameBytes(f)' = FrameBytes(f)
  BY <1>2 DEF FrameBytes
<1>5. ASSUME delivered' = delivered, need' = need
      PROVE  NeedReachable' /\ Remaining' = Remaining
  BY <1>1, <1>3, <1>4, <1>5 DEF NeedReachable, Remaining
<1>6. CASE Arrive
  <2>1. /\ wire # <<>> /\ delivered' = delivered /\ need' = need
        /\ buffer' = Append(buffer, Head(wire)) /\ wire' = Tail(wire)
    BY <1>6 DEF Arrive
  <2>2. buffer' \in Seq(Byte) /\ wire' \in Seq(Byte)
        /\ buffer' \o wire' = LastFrames[Remaining]
    BY <2>1, ArriveStep
  <2> QED
    BY <1>1, <1>2, <1>3, <1>5, <2>1, <2>2 DEF StreamInv
<1>7. CASE PollNeedMore
  <2>1. /\ Poll(buffer).status = "need_more" /\ need' = Poll(buffer).total
        /\ wire' = wire /\ buffer' = buffer /\ delivered' = delivered
    BY <1>7 DEF PollNeedMore
  <2>2. /\ need' \in Nat
        /\ Len(delivered) < Len(script) =>
              /\ need' <= BufferBytes
              /\ need' <= Len(FrameBytes(script[Len(delivered) + 1]))
    BY <2>1, NeedMoreStep
  <2>3. NeedReachable'
    BY <1>3, <1>4, <2>1, <2>2 DEF NeedReachable
  <2>4. Remaining' = Remaining
    BY <1>3, <2>1 DEF Remaining
  <2> QED
    BY <1>1, <1>2, <1>3, <2>1, <2>2, <2>3, <2>4 DEF StreamInv
<1>8. CASE PollEvent
  <2> DEFINE event == Poll(buffer)
             rest == SubSeq(buffer, event.consumed + 1, Len(buffer))
  <2>1. /\ event.status = "event" /\ need' = 0 /\ wire' = wire
        /\ delivered' = Append(delivered, event.frame)
        /\ buffer' = rest
    BY <1>8 DEF PollEvent
  <2>2. /\ Len(delivered) < Len(script) /\ event.frame \in Frame
        /\ rest \in Seq(Byte) /\ rest \o wire = LastFrames[Remaining - 1]
    BY <2>1, EventStep
  <2>3. Len(script) \in Nat
    BY <1>1, StreamRecursion
  <2> HIDE DEF event, rest
  <2>4. delivered' \in Seq(Frame) /\ Len(delivered') = Len(delivered) + 1
    BY <1>1, <2>1, <2>2
  <2>5. Len(delivered') <= Len(script') /\ Remaining' = Remaining - 1
    BY <1>1, <1>3, <2>2, <2>3, <2>4 DEF Remaining
  <2>6. NeedReachable'
    BY <2>1 DEF NeedReachable
  <2> QED
    BY <1>1, <1>2, <1>3, <2>1, <2>2, <2>4, <2>5, <2>6 DEF StreamInv
<1>9. CASE PollError
  <2>1. /\ wire' = wire /\ buffer' = buffer /\ delivered' = delivered
        /\ need' = need
    BY <1>9 DEF PollError
  <2> QED
    BY <1>1, <1>2, <1>3, <1>5, <2>1 DEF StreamInv
<1>10. CASE UNCHANGED vars
  <2>1. /\ wire' = wire /\ buffer' = buffer /\ delivered' = delivered
        /\ need' = need
    BY <1>10 DEF vars
  <2> QED
    BY <1>1, <1>2, <1>3, <1>5, <2>1 DEF StreamInv
<1> QED
  BY <1>6, <1>7, <1>8, <1>9, <1>10
  DEF Next, PollWhenReady, PollEarly, PollAny

LEMMA StreamAlways == Spec => []StreamInv
<1> QED
  BY StreamInit, StreamStep, PTL DEF Spec

(* For every set of connections and however the stream is cut: what a host *)
(* was last told to wait for fits its buffer, and the peer's next frame is *)
(* at least as long.                                                       *)
THEOREM NeedIsReachable == Spec => []NeedReachable
<1>1. StreamInv => NeedReachable
  BY DEF StreamInv
<1> QED
  BY <1>1, StreamAlways, PTL

(* Every step of the gateway is a step of the abstract channel, or none of *)
(* its business: frames come out whole, once, in order, and only the ones  *)
(* within the rules; the connection fails only at one that is not.         *)
THEOREM DeliversTheScript ==
    Spec => Channel!Init /\ [][Channel!Next]_Channel!vars
<1>1. Init => Channel!Init
  <2>1. \A c \in Connections : c.script \in Scripts
    BY DEF Scripts
  <2> QED
    BY <2>1 DEF Init, Channel!Init, script
<1>2. ASSUME StreamInv, [Next]_vars
      PROVE  [Channel!Next]_Channel!vars
  <2>1. connection' = connection
    BY <1>2 DEF Next, Arrive, PollWhenReady, PollEarly, PollAny, PollNeedMore,
         PollEvent, PollError, vars
  <2>2. script' = script
    BY <2>1 DEF script
  <2>3. ASSUME delivered' = delivered, failure' = failure
        PROVE  UNCHANGED Channel!vars
    BY <2>2, <2>3 DEF Channel!vars
  <2>4. CASE Arrive \/ PollNeedMore \/ UNCHANGED vars
    BY <2>3, <2>4 DEF Arrive, PollNeedMore, vars
  <2>5. CASE PollEvent /\ failure = "none"
    <3>1. /\ Poll(buffer).status = "event" /\ failure' = failure
          /\ delivered' = Append(delivered, Poll(buffer).frame)
      BY <2>5 DEF PollEvent
    <3>2. /\ Len(delivered) < Len(script)
          /\ Poll(buffer).frame = script[Len(delivered) + 1]
          /\ Acceptable(script[Len(delivered) + 1])
      BY <1>2, <3>1, EventStep
    <3>3. Channel!Deliver
      BY <2>2, <2>5, <3>1, <3>2
      DEF Channel!Deliver, Channel!Pending, Channel!Front
    <3> QED
      BY <3>3 DEF Channel!Next
  <2>6. CASE PollError /\ failure = "none"
    <3>1. /\ Poll(buffer).status = "error" /\ failure' = Poll(buffer).kind
          /\ delivered' = delivered
      BY <2>6 DEF PollError
    <3>2. /\ Len(delivered) < Len(script)
          /\ ~Acceptable(script[Len(delivered) + 1])
          /\ Poll(buffer).kind # "none"
      BY <1>2, <3>1, ErrorStep
    <3>3. Channel!Fail
      BY <2>2, <2>6, <3>1, <3>2
      DEF Channel!Fail, Channel!Pending, Channel!Front
    <3> QED
      BY <3>3 DEF Channel!Next
  <2> QED
    BY <1>2, <2>4, <2>5, <2>6 DEF Next, PollWhenReady, PollEarly, PollAny
<1> QED
  BY <1>1, <1>2, StreamAlways, PTL DEF Spec
=============================================================================
