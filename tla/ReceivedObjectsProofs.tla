------------------------ MODULE ReceivedObjectsProofs ------------------------
(***************************************************************************)
(* Proofs about what is parsed from outside, for all inputs: containers,   *)
(* TL bytes, session documents and the file they are kept in.              *)
(*                                                                         *)
(* The first two properties say that a parser inverts a packing given by   *)
(* FlattenSeq.  FlattenSeq is unfolded to "one more element appends it"    *)
(* by induction from the least-number principle; then packing or encoding  *)
(* what was handed out so far is the part of the input before the cursor,  *)
(* an invariant that every step extends by one part.  The length of a TL   *)
(* value goes through its three digits to the base, which determine it.    *)
(*                                                                         *)
(* A session document that is authentic carries the tag of one that was    *)
(* sealed; HMAC being symbolic, this tag fixes the reader's key, the salt  *)
(* and the ciphertext; counter mode undoes itself, and parse_record undoes *)
(* encode_record.                                                          *)
(*                                                                         *)
(* That a saved document stays in the file is not inductive: it says       *)
(* nothing of a save under way.  FileIInv adds what `alone` means: as long *)
(* as the save that opened the file last met no other, it is the only one  *)
(* that writes, the file is exactly what it has written so far, and every  *)
(* save has a number of its own.  A load is followed piece by piece: as    *)
(* long as all it has read is of one document, that was in the file whole  *)
(* already, is still being written there, or has lost a piece further on   *)
(* that nobody will write again.                                           *)
(***************************************************************************)
EXTENDS SessionDocument, SessionFile, MessageContainer, TlBytes, SequenceTheorems,
        WellFoundedInduction, TLAPS

-----------------------------------------------------------------------------
(* Induction over the naturals, from the least number principle.           *)
LEMMA LeastNatural ==
    ASSUME NEW S \in SUBSET Nat, S # {}
    PROVE  \E n \in S : \A m \in S : n <= m
<1> DEFINE R == OpToRel(<, Nat)
<1>1. IsWellFoundedOn(R, Nat)
  BY NatLessThanWellFounded, Zenon
<1>2. \A x, y \in Nat : y < x => <<y, x>> \in R
  BY DEF OpToRel
<1> HIDE DEF R
<1>3. PICK x \in S : \A y \in S : ~ (<<y, x>> \in R)
  BY <1>1, WFMin, Zenon
<1>4. \A y \in S : ~ (y < x)
  BY <1>2, <1>3
<1>5. x \in Nat /\ \A y \in S : y \in Nat
  OBVIOUS
<1>6. \A y \in S : x <= y
  BY <1>4, <1>5, SMT
<1> QED
  BY <1>6, Zenon

LEMMA Induction ==
    ASSUME NEW S, 0 \in S, \A n \in Nat : n \in S => n + 1 \in S
    PROVE  Nat \subseteq S
<1> DEFINE B == {n \in Nat : n \notin S}
<1>1. SUFFICES ASSUME B # {} PROVE FALSE
  OBVIOUS
<1>2. PICK n \in B : \A m \in B : n <= m
  <2>1. B \in SUBSET Nat
    OBVIOUS
  <2> QED
    BY <1>1, <2>1, LeastNatural, Zenon
<1>3. n # 0
  BY <1>2
<1>4. n - 1 \in Nat /\ n - 1 \notin B
  BY <1>2, <1>3
<1> QED
  BY <1>2, <1>4

-----------------------------------------------------------------------------
(* Division, and numbers of three digits.                                  *)
LEMMA Product ==
    ASSUME NEW b \in Nat, NEW p \in Nat, NEW q \in Nat, p < q
    PROVE  b * p + b <= b * q
<1>1. PICK d \in Nat : q = p + 1 + d
  <2>1. q - p - 1 \in Nat /\ q = p + 1 + (q - p - 1)
    OBVIOUS
  <2> QED
    BY <2>1
<1>2. b * (p + 1 + d) = b * p + b + b * d /\ b * d >= 0
  OBVIOUS
<1> QED
  BY <1>1, <1>2

LEMMA Euclid ==
    ASSUME NEW b \in Nat, b > 0, NEW n \in Nat
    PROVE  /\ n \div b \in Nat /\ n % b \in 0 .. b - 1
           /\ n = b * (n \div b) + (n % b)
  OBVIOUS

LEMMA Quotient ==
    ASSUME NEW b \in Nat, NEW q \in Nat, NEW r \in 0 .. b - 1
    PROVE  /\ (b * q + r) \div b = q
           /\ (b * q + r) % b = r
<1> DEFINE n == b * q + r
<1>1. n \in Nat /\ b > 0
  OBVIOUS
<1>2. PICK p \in Nat, s \in 0 .. b - 1 :
         p = n \div b /\ s = n % b /\ n = b * p + s
  <2> HIDE DEF n
  <2> QED
    BY <1>1, Euclid
<1>3. b * p + s = b * q + r
  BY <1>2
<1>4. ~ (p < q)
  <2>1. SUFFICES ASSUME p < q PROVE FALSE
    OBVIOUS
  <2>2. b * p + b <= b * q
    BY <2>1, Product
  <2> QED
    BY <1>3, <2>2
<1>5. ~ (q < p)
  <2>1. SUFFICES ASSUME q < p PROVE FALSE
    OBVIOUS
  <2>2. b * q + b <= b * p
    BY <2>1, Product
  <2> QED
    BY <1>3, <2>2
<1>6. p = q
  BY <1>4, <1>5
<1>7. s = r
  BY <1>3, <1>6
<1> QED
  BY <1>2, <1>6, <1>7

LEMMA DigitsOfNumber ==
    ASSUME NEW radix \in Nat, radix > 0, NEW low \in 0 .. radix - 1, NEW middle \in 0 .. radix - 1,
           NEW high \in 0 .. radix - 1, NEW number, number = low + radix * middle + radix * radix * high
    PROVE  /\ number \in 0 .. radix * radix * radix - 1
           /\ number % radix = low /\ (number \div radix) % radix = middle /\ number \div (radix * radix) = high
<1> DEFINE m == radix * high + middle
<1>1. m \in Nat /\ number = radix * m + low
  OBVIOUS
<1>2. number \div radix = m /\ number % radix = low
  <2> HIDE DEF m
  <2>1. (radix * m + low) \div radix = m /\ (radix * m + low) % radix = low
    BY <1>1, Quotient
  <2> QED
    BY <1>1, <2>1
<1>3. m % radix = middle
  BY Quotient
<1> DEFINE c == radix * radix
           w == radix * middle + low
<1>4. w \in 0 .. c - 1 /\ number = c * high + w /\ c \in Nat
  <2>1. radix * middle + radix <= radix * radix
    BY Product
  <2> QED
    BY <2>1
<1>5. number \div c = high
  <2> HIDE DEF c, w
  <2>1. (c * high + w) \div c = high
    BY <1>4, Quotient
  <2> QED
    BY <1>4, <2>1
<1>6. number \in 0 .. c * radix - 1
  <2> HIDE DEF c, w
  <2>1. c * high + c <= c * radix
    BY <1>4, Product
  <2>2. c * high \in Nat
    BY <1>4
  <2> QED
    BY <1>4, <2>1, <2>2
<1>7. c * radix = radix * radix * radix
  OBVIOUS
<1> QED
  BY <1>2, <1>3, <1>5, <1>6, <1>7

LEMMA NumberOfDigits ==
    ASSUME NEW b \in Nat, b > 0, NEW n \in 0 .. b * b * b - 1
    PROVE  /\ n % b \in 0 .. b - 1 /\ (n \div b) % b \in 0 .. b - 1
           /\ n \div (b * b) \in 0 .. b - 1
           /\ n = (n % b) + b * ((n \div b) % b) + b * b * (n \div (b * b))
<1>1. PICK m \in Nat, x \in 0 .. b - 1 : m = n \div b /\ x = n % b /\ n = b * m + x
  BY Euclid
<1>2. PICK z \in Nat, y \in 0 .. b - 1 : z = m \div b /\ y = m % b /\ m = b * z + y
  BY Euclid
<1>3. n = x + b * y + b * b * z
  BY <1>1, <1>2
<1>4. z < b
  <2>1. SUFFICES ASSUME b <= z PROVE FALSE
    OBVIOUS
  <2>2. b * b * z >= b * b * b
    <3>1. b * b \in Nat
      OBVIOUS
    <3>2. CASE z = b
      BY <3>2
    <3>3. CASE b < z
      <4>1. (b * b) * b + b * b <= (b * b) * z
        BY <3>1, <3>3, Product
      <4> QED
        BY <3>1, <4>1
    <3> QED
      BY <2>1, <3>2, <3>3
  <2>3. b * y >= 0 /\ x >= 0
    OBVIOUS
  <2> QED
    BY <1>3, <2>2, <2>3
<1>5. z \in 0 .. b - 1
  BY <1>4
<1>6. n \div (b * b) = z
  BY <1>3, <1>5, DigitsOfNumber
<1> QED
  BY <1>1, <1>2, <1>3, <1>5, <1>6

-----------------------------------------------------------------------------
(* The function by which FlattenSeq is defined.                            *)
Flattens(f, s) ==
    f = [i \in 1 .. Len(s) |-> IF i = 1 THEN s[i] ELSE f[i - 1] \o s[i]]

Agree(f, g, k) == \A i \in 1 .. k : f[i] = g[i]

LEMMA FlatteningUnique ==
    ASSUME NEW s, Len(s) \in Nat, NEW t, Len(t) \in Nat, NEW f, NEW g,
           Flattens(f, s), Flattens(g, t),
           NEW k \in Nat, k <= Len(s), k <= Len(t), Agree(s, t, k)
    PROVE  Agree(f, g, k)
<1>1. \A i \in 1 .. k : s[i] = t[i]
  BY DEF Agree
<1> DEFINE T == {n \in Nat : n \in 1 .. k => f[n] = g[n]}
<1>2. 0 \in T
  OBVIOUS
<1>3. ASSUME NEW n \in Nat, n \in T PROVE n + 1 \in T
  <2>1. SUFFICES ASSUME n + 1 \in 1 .. k PROVE f[n + 1] = g[n + 1]
    OBVIOUS
  <2>2. n + 1 \in 1 .. Len(s) /\ n + 1 \in 1 .. Len(t) /\ (n + 1) - 1 = n
    BY <2>1
  <2>3. f[n + 1] = IF n + 1 = 1 THEN s[n + 1] ELSE f[(n + 1) - 1] \o s[n + 1]
    BY <2>2, Zenon DEF Flattens
  <2>4. g[n + 1] = IF n + 1 = 1 THEN t[n + 1] ELSE g[(n + 1) - 1] \o t[n + 1]
    BY <2>2, Zenon DEF Flattens
  <2>5. s[n + 1] = t[n + 1]
    BY <1>1, <2>1
  <2>6. CASE n = 0
    BY <2>3, <2>4, <2>5, <2>6
  <2>7. CASE n # 0
    <3>1. n \in 1 .. k /\ n + 1 # 1
      BY <2>1, <2>7
    <3>2. f[n] = g[n]
      BY <1>3, <3>1
    <3> QED
      BY <2>2, <2>3, <2>4, <2>5, <3>1, <3>2, Zenon
  <2> QED
    BY <2>6, <2>7
<1>4. Nat \subseteq T
  <2> HIDE DEF T
  <2> QED
    BY <1>2, <1>3, Induction, Zenon
<1> QED
  BY <1>4 DEF Agree

(* It exists.                                                              *)
LEMMA FlatteningExists ==
    ASSUME NEW s, Len(s) \in Nat
    PROVE  \E f : Flattens(f, s)
<1> DEFINE Upto(f, n) == f = [i \in 1 .. n |-> IF i = 1 THEN s[i] ELSE f[i - 1] \o s[i]]
           T == {n \in Nat : \E f : Upto(f, n)}
<1>1. 0 \in T
  <2>1. Upto([i \in 1 .. 0 |-> s], 0)
    OBVIOUS
  <2> QED
    BY <2>1
<1>2. ASSUME NEW n \in Nat, n \in T PROVE n + 1 \in T
  <2>1. PICK f : Upto(f, n)
    BY <1>2
  <2> DEFINE next == IF n = 0 THEN s[1] ELSE f[n] \o s[n + 1]
             g == [i \in 1 .. n + 1 |-> IF i <= n THEN f[i] ELSE next]
  <2>2. ASSUME NEW i \in 1 .. n + 1
        PROVE  g[i] = IF i = 1 THEN s[i] ELSE g[i - 1] \o s[i]
    <3>1. CASE i <= n
      <4>1. i \in 1 .. n /\ g[i] = f[i]
        BY <3>1
      <4>2. f[i] = IF i = 1 THEN s[i] ELSE f[i - 1] \o s[i]
        BY <2>1, <4>1, Zenon
      <4>3. i # 1 => g[i - 1] = f[i - 1]
        BY <3>1
      <4> HIDE DEF g
      <4> QED
        BY <4>1, <4>2, <4>3, Zenon
    <3>2. CASE i = n + 1
      <4>1. g[i] = next
        BY <3>2
      <4>2. CASE n = 0
        BY <3>2, <4>1, <4>2
      <4>3. CASE n # 0
        <5>1. i # 1 /\ i - 1 = n /\ i - 1 \in 1 .. n + 1 /\ i - 1 <= n
          BY <3>2, <4>3
        <5>2. g[i - 1] = f[n]
          BY <5>1
        <5>3. next = f[n] \o s[n + 1]
          BY <4>3
        <5> HIDE DEF g, next
        <5> QED
          BY <3>2, <4>1, <5>1, <5>2, <5>3, Zenon
      <4> QED
        BY <4>2, <4>3
    <3> QED
      BY <3>1, <3>2
  <2>3. Upto(g, n + 1)
    <3>1. g = [i \in 1 .. n + 1 |-> g[i]]
      OBVIOUS
    <3> HIDE DEF g
    <3> QED
      BY <2>2, <3>1
  <2> HIDE DEF Upto
  <2> QED
    BY <2>3
<1>3. Nat \subseteq T
  <2> HIDE DEF T
  <2> QED
    BY <1>1, <1>2, Induction, Zenon
<1>4. Len(s) \in T
  BY <1>3
<1> QED
  BY <1>4 DEF Flattens

LEMMA FlattenValue ==
    ASSUME NEW s, Len(s) \in Nat, Len(s) # 0
    PROVE  \E f : Flattens(f, s) /\ FlattenSeq(s) = f[Len(s)]
<1> DEFINE chosen == CHOOSE f : Flattens(f, s)
<1>1. Flattens(chosen, s)
  BY FlatteningExists, Zenon
<1>2. FlattenSeq(s) = chosen[Len(s)]
  BY DEF FlattenSeq, Flattens
<1> QED
  BY <1>1, <1>2, Zenon

LEMMA FlattenEmpty ==
    FlattenSeq(<<>>) = <<>>
<1> QED
  BY DEF FlattenSeq

LEMMA FlattenType ==
    ASSUME NEW S, NEW s \in Seq(Seq(S))
    PROVE  FlattenSeq(s) \in Seq(S)
<1>1. CASE Len(s) = 0
  <2>1. s = <<>> /\ <<>> \in Seq(S)
    BY <1>1
  <2> QED
    BY <2>1, FlattenEmpty
<1>2. CASE Len(s) # 0
  <2>1. Len(s) \in Nat /\ \A i \in 1 .. Len(s) : s[i] \in Seq(S)
    OBVIOUS
  <2>2. PICK f : Flattens(f, s) /\ FlattenSeq(s) = f[Len(s)]
    BY <1>2, <2>1, FlattenValue, Zenon
  <2> DEFINE T == {n \in Nat : n \in 1 .. Len(s) => f[n] \in Seq(S)}
  <2>3. 0 \in T
    OBVIOUS
  <2>4. ASSUME NEW n \in Nat, n \in T PROVE n + 1 \in T
    <3>1. SUFFICES ASSUME n + 1 \in 1 .. Len(s) PROVE f[n + 1] \in Seq(S)
      OBVIOUS
    <3>2. f[n + 1] = IF n + 1 = 1 THEN s[n + 1] ELSE f[(n + 1) - 1] \o s[n + 1]
      BY <2>2, <3>1, Zenon DEF Flattens
    <3>3. s[n + 1] \in Seq(S)
      BY <2>1, <3>1
    <3>4. CASE n = 0
      BY <3>2, <3>3, <3>4
    <3>5. CASE n # 0
      <4>1. f[n] \in Seq(S)
        BY <2>1, <2>4, <3>1, <3>5
      <4>2. n + 1 # 1 /\ (n + 1) - 1 = n
        BY <3>5
      <4>3. f[n + 1] = f[n] \o s[n + 1]
        BY <3>2, <4>2, Zenon
      <4> QED
        BY <3>3, <4>1, <4>3
    <3> QED
      BY <3>4, <3>5
  <2>5. Nat \subseteq T
    <3> HIDE DEF T
    <3> QED
      BY <2>3, <2>4, Induction, Zenon
  <2> QED
    BY <1>2, <2>1, <2>2, <2>5
<1> QED
  BY <1>1, <1>2

LEMMA FlattenAppend ==
    ASSUME NEW S, NEW s \in Seq(Seq(S)), NEW e \in Seq(S)
    PROVE  /\ FlattenSeq(Append(s, e)) = FlattenSeq(s) \o e
           /\ FlattenSeq(s) \in Seq(S)
<1> DEFINE longer == Append(s, e)
           size == Len(s)
<1>1. /\ size \in Nat /\ Len(longer) = size + 1 /\ longer[size + 1] = e
      /\ \A i \in 1 .. size : s[i] = longer[i]
  OBVIOUS
<1>2. FlattenSeq(s) \in Seq(S)
  BY FlattenType
<1>3. CASE size = 0
  <2>1. longer = <<e>> /\ s = <<>>
    BY <1>3
  <2>2. PICK f : Flattens(f, longer) /\ FlattenSeq(longer) = f[Len(longer)]
    <3> HIDE DEF longer
    <3> QED
      BY <1>1, FlattenValue
  <2>3. f[1] = e
    <3>1. 1 \in 1 .. Len(longer)
      BY <1>1, <1>3
    <3>2. f[1] = IF 1 = 1 THEN longer[1] ELSE f[1 - 1] \o longer[1]
      <4> HIDE DEF longer
      <4> QED
        BY <2>2, <3>1, Zenon DEF Flattens
    <3> QED
      BY <2>1, <3>2
  <2>4. FlattenSeq(longer) = e
    <3> HIDE DEF longer
    <3> QED
      BY <1>1, <1>3, <2>2, <2>3
  <2>5. FlattenSeq(s) \o e = e
    <3>1. FlattenSeq(s) = <<>>
      BY <2>1, FlattenEmpty
    <3> QED
      BY <3>1
  <2> QED
    BY <1>2, <2>4, <2>5
<1>4. CASE size # 0
  <2> HIDE DEF longer
  <2>1. PICK f : Flattens(f, longer) /\ FlattenSeq(longer) = f[Len(longer)]
    <3>1. Len(longer) \in Nat /\ Len(longer) # 0
      BY <1>1
    <3> QED
      BY <3>1, FlattenValue, Zenon
  <2>2. PICK g : Flattens(g, s) /\ FlattenSeq(s) = g[size]
    BY <1>1, <1>4, FlattenValue, Zenon
  <2>3. Agree(g, f, size)
    <3>1. size \in Nat /\ size <= Len(s) /\ size <= Len(longer) /\ Len(s) \in Nat /\ Len(longer) \in Nat
      BY <1>1
    <3>2. Agree(s, longer, size)
      BY <1>1 DEF Agree
    <3> HIDE DEF size
    <3> QED
      BY <2>1, <2>2, <3>1, <3>2, FlatteningUnique, Zenon
  <2>4. size \in 1 .. size /\ size + 1 \in 1 .. Len(longer) /\ size + 1 # 1 /\ (size + 1) - 1 = size
    BY <1>1, <1>4
  <2>5. f[size + 1] = IF size + 1 = 1 THEN longer[size + 1] ELSE f[(size + 1) - 1] \o longer[size + 1]
    BY <2>1, <2>4, Zenon DEF Flattens
  <2>6. FlattenSeq(longer) = FlattenSeq(s) \o e
    BY <1>1, <2>1, <2>2, <2>3, <2>4, <2>5, Zenon DEF Agree
  <2> QED
    BY <1>2, <2>6 DEF longer
<1> QED
  BY <1>3, <1>4

(* What is flattened first is a beginning of the whole.                    *)
LEMMA FlattenSplit ==
    ASSUME NEW S, NEW s \in Seq(Seq(S)), NEW k \in 0 .. Len(s)
    PROVE  /\ FlattenSeq(SubSeq(s, 1, k)) \in Seq(S)
           /\ \E rest \in Seq(S) : FlattenSeq(s) = FlattenSeq(SubSeq(s, 1, k)) \o rest
<1> DEFINE begin == FlattenSeq(SubSeq(s, 1, k))
           Goes(n) == \E rest \in Seq(S) : FlattenSeq(SubSeq(s, 1, k + n)) = begin \o rest
           T == {n \in Nat : k + n <= Len(s) => Goes(n)}
<1>1. begin \in Seq(S)
  <2>1. SubSeq(s, 1, k) \in Seq(Seq(S))
    OBVIOUS
  <2> QED
    BY <2>1, FlattenType
<1>2. Goes(0)
  <2>1. k + 0 = k /\ <<>> \in Seq(S)
    OBVIOUS
  <2>2. \A word \in Seq(S) : word \o <<>> = word
    OBVIOUS
  <2> QED
    BY <1>1, <2>1, <2>2, Zenon
<1>3. ASSUME NEW n \in Nat, k + (n + 1) <= Len(s), Goes(n) PROVE Goes(n + 1)
  <2>1. PICK rest \in Seq(S) : FlattenSeq(SubSeq(s, 1, k + n)) = begin \o rest
    BY <1>3, Zenon
  <2> DEFINE shorter == SubSeq(s, 1, k + n)
             next == s[k + (n + 1)]
  <2>2. /\ shorter \in Seq(Seq(S)) /\ next \in Seq(S)
        /\ SubSeq(s, 1, k + (n + 1)) = Append(shorter, next)
    BY <1>3
  <2> HIDE DEF begin, shorter, next, Goes
  <2>3. FlattenSeq(shorter) = begin \o rest
    BY <2>1 DEF shorter
  <2>4. FlattenSeq(Append(shorter, next)) = FlattenSeq(shorter) \o next
    BY <2>2, FlattenAppend
  <2>5. /\ (begin \o rest) \o next = begin \o (rest \o next)
        /\ rest \o next \in Seq(S)
    BY <1>1, <2>2, SMTT(30)
  <2> QED
    BY <2>2, <2>3, <2>4, <2>5, Zenon DEF Goes
<1> HIDE DEF Goes, begin
<1>4. 0 \in T
  BY <1>2
<1>5. ASSUME NEW n \in Nat, n \in T PROVE n + 1 \in T
  BY <1>3, <1>5
<1>6. Nat \subseteq T
  <2> HIDE DEF T
  <2> QED
    BY <1>4, <1>5, Induction, Zenon
<1>7. /\ Len(s) - k \in Nat /\ k + (Len(s) - k) = Len(s)
      /\ SubSeq(s, 1, Len(s)) = s
  OBVIOUS
<1>8. Goes(Len(s) - k)
  <2>1. Len(s) - k \in T
    BY <1>6, <1>7
  <2> QED
    BY <1>7, <2>1
<1>9. \E rest \in Seq(S) : FlattenSeq(s) = begin \o rest
  BY <1>7, <1>8, Zenon DEF Goes
<1> QED
  BY <1>1, <1>9 DEF begin

(* Parts of a sequence: n elements behind the first `at`.                  *)
Part(s, at, n) == SubSeq(s, at + 1, at + n)

LEMMA PartProperties ==
    ASSUME NEW S, NEW s \in Seq(S), NEW at \in Nat, NEW n \in Nat, at + n <= Len(s)
    PROVE  /\ Part(s, at, n) \in Seq(S) /\ Len(Part(s, at, n)) = n
           /\ \A i \in 1 .. n : s[at + i] \in S /\ Part(s, at, n)[i] = s[at + i]
<1>1. \A i \in at + 1 .. at + n : s[i] \in S
  OBVIOUS
<1>2. /\ SubSeq(s, at + 1, at + n) \in Seq(S)
      /\ Len(SubSeq(s, at + 1, at + n))
           = IF at + 1 <= at + n THEN (at + n) - (at + 1) + 1 ELSE 0
      /\ \A i \in 1 .. (at + n) - (at + 1) + 1 :
            SubSeq(s, at + 1, at + n)[i] = s[(at + 1) + i - 1]
  BY <1>1, SubSeqProperties
<1>3. \A i \in 1 .. n : at + i \in at + 1 .. at + n
  OBVIOUS
<1> QED
  BY <1>1, <1>2, <1>3 DEF Part

LEMMA PartReads ==
    ASSUME NEW S, NEW s \in Seq(S), NEW at \in Nat, NEW n \in Nat, at + n <= Len(s),
           NEW i \in 1 .. n
    PROVE  Part(s, at, n)[i] = s[at + i]
BY PartProperties, Zenon

LEMMA PartIs ==
    ASSUME NEW S, NEW s \in Seq(S), NEW at \in Nat, NEW n \in Nat, at + n <= Len(s),
           NEW t \in Seq(S), Len(t) = n, \A i \in 1 .. n : t[i] = s[at + i]
    PROVE  Part(s, at, n) = t
<1>1. Part(s, at, n) \in Seq(S) /\ Len(Part(s, at, n)) = n
  BY PartProperties
<1>2. ASSUME NEW i \in 1 .. n PROVE Part(s, at, n)[i] = t[i]
  <2>1. Part(s, at, n)[i] = s[at + i]
    BY PartReads, ZenonT(30)
  <2> QED
    BY <2>1
<1> QED
  BY <1>1, <1>2, SeqEqual

LEMMA PartsJoin ==
    ASSUME NEW S, NEW s \in Seq(S), NEW at \in Nat, NEW m \in Nat, NEW n \in Nat,
           at + m + n <= Len(s)
    PROVE  Part(s, at, m) \o Part(s, at + m, n) = Part(s, at, m + n)
<1>1. /\ at + 1 \in 1 .. Len(s) + 1 /\ at + m \in (at + 1) - 1 .. Len(s)
      /\ at + m + n \in at + m .. Len(s)
  OBVIOUS
<1>2. SubSeq(s, at + 1, at + m) \o SubSeq(s, (at + m) + 1, at + m + n)
        = SubSeq(s, at + 1, at + m + n)
  BY <1>1, ConcatAdjacentSubSeq
<1>3. at + (m + n) = at + m + n
  OBVIOUS
<1> QED
  BY <1>2, <1>3 DEF Part

-----------------------------------------------------------------------------
(* The container.                                                          *)
Entries == [id : Seq(Nat), sequence : Nat, body : Seq(Nat)]

LEMMA EntryWordsType ==
    ASSUME NEW e \in Entries
    PROVE  EntryWords(e) \in Seq(Nat)
<1>1. e.id \in Seq(Nat) /\ e.sequence \in Nat /\ e.body \in Seq(Nat)
  BY DEF Entries
<1>2. <<e.sequence, 4 * Len(e.body)>> \in Seq(Nat)
  BY <1>1
<1> QED
  BY <1>1, <1>2 DEF EntryWords

(* A sender appends the words of one more entry.                           *)
LEMMA PackedAppend ==
    ASSUME NEW entries \in Seq(Entries), NEW e \in Entries
    PROVE  /\ Packed(entries) \in Seq(Nat)
           /\ Packed(Append(entries, e)) = Packed(entries) \o EntryWords(e)
<1> DEFINE words == [i \in DOMAIN entries |-> EntryWords(entries[i])]
<1>1. words \in Seq(Seq(Nat)) /\ EntryWords(e) \in Seq(Nat)
  <2>1. \A i \in 1 .. Len(entries) : entries[i] \in Entries
    OBVIOUS
  <2>2. \A i \in 1 .. Len(entries) : EntryWords(entries[i]) \in Seq(Nat)
    BY <2>1, EntryWordsType
  <2>3. DOMAIN entries = 1 .. Len(entries) /\ Len(entries) \in Nat
    OBVIOUS
  <2>4. words \in Seq(Seq(Nat))
    BY <2>2, <2>3
  <2> QED
    BY <2>4, EntryWordsType
<1>2. [i \in DOMAIN Append(entries, e) |-> EntryWords(Append(entries, e)[i])]
        = Append(words, EntryWords(e))
  OBVIOUS
<1> HIDE DEF words
<1>3. FlattenSeq(Append(words, EntryWords(e))) = FlattenSeq(words) \o EntryWords(e)
  BY <1>1, FlattenAppend
<1>4. FlattenSeq(words) \in Seq(Nat)
  BY <1>1, FlattenType
<1> QED
  BY <1>2, <1>3, <1>4 DEF Packed, words

(* The inductive invariant: an open container accounts for every entry it  *)
(* declared.                                                               *)
ContainerTypes ==
    /\ input \in Containers
    /\ cursor \in 0 .. Len(input.words)
    /\ remaining \in Nat /\ failures \in Nat
    /\ handed \in Seq(Entries)

Accounted ==
    /\ stage = "unparsed" => handed = <<>> /\ failures = 0
    /\ stage \in {"open", "complete", "incomplete"} =>
          Len(handed) + failures + remaining = input.count
    /\ stage = "complete" => remaining = 0 /\ cursor = Len(input.words)

ContainerIInv == ContainerTypes /\ Accounted /\ ReadsWhatWasPacked

LEMMA FourConcat ==
    ASSUME NEW a \in Nat, NEW b \in Nat, NEW c \in Nat, NEW d \in Nat
    PROVE  <<a, b>> \o <<c, d>> = <<a, b, c, d>>
<1> DEFINE s == <<a, b>>
           t == <<c, d>>
           u == <<a, b, c, d>>
<1>1. /\ s \in Seq(Nat) /\ Len(s) = 2 /\ s[1] = a /\ s[2] = b
      /\ t \in Seq(Nat) /\ Len(t) = 2 /\ t[1] = c /\ t[2] = d
      /\ u \in Seq(Nat) /\ Len(u) = 4
      /\ u[1] = a /\ u[2] = b /\ u[3] = c /\ u[4] = d
  OBVIOUS
<1> HIDE DEF s, t, u
<1>2. /\ s \o t \in Seq(Nat) /\ Len(s \o t) = 4
      /\ \A i \in 1 .. 4 : (s \o t)[i] = IF i <= 2 THEN s[i] ELSE t[i - 2]
  <2>1. /\ s \o t \in Seq(Nat) /\ Len(s \o t) = Len(s) + Len(t)
        /\ \A i \in 1 .. Len(s) + Len(t) :
              (s \o t)[i] = IF i <= Len(s) THEN s[i] ELSE t[i - Len(s)]
    <3>1. s \in Seq(Nat) /\ t \in Seq(Nat)
      BY <1>1
    <3> QED
      BY <3>1, ConcatProperties, Zenon
  <2> QED
    BY <1>1, <2>1
<1>3. (s \o t)[1] = a /\ (s \o t)[2] = b /\ (s \o t)[3] = c /\ (s \o t)[4] = d
  BY <1>1, <1>2
<1>4. ASSUME NEW i \in 1 .. Len(u) PROVE (s \o t)[i] = u[i]
  <2>1. i = 1 \/ i = 2 \/ i = 3 \/ i = 4
    BY <1>1
  <2> QED
    BY <1>1, <1>3, <2>1
<1>5. s \o t = u
  BY <1>1, <1>2, <1>4, SeqEqual
<1> QED
  BY <1>5 DEF s, t, u

LEMMA HeaderPart ==
    ASSUME NEW words \in Seq(Nat), NEW at \in Nat, at + 4 <= Len(words)
    PROVE  /\ words[at + 1] \in Nat /\ words[at + 2] \in Nat
           /\ words[at + 3] \in Nat /\ words[at + 4] \in Nat
           /\ Part(words, at, 4)
                = <<words[at + 1], words[at + 2]>> \o <<words[at + 3], words[at + 4]>>
<1>1. \A i \in 1 .. 4 : at + i \in 1 .. Len(words)
  OBVIOUS
<1>2. \A i \in 1 .. 4 : words[at + i] \in Nat
  BY <1>1, ElementOfSeq
<1>3. /\ words[at + 1] \in Nat /\ words[at + 2] \in Nat
      /\ words[at + 3] \in Nat /\ words[at + 4] \in Nat
  BY <1>2
<1> DEFINE header == <<words[at + 1], words[at + 2], words[at + 3], words[at + 4]>>
<1>4. header \in Seq(Nat) /\ Len(header) = 4
  BY <1>3
<1>5. ASSUME NEW i \in 1 .. 4 PROVE header[i] = words[at + i]
  <2>1. i = 1 \/ i = 2 \/ i = 3 \/ i = 4
    OBVIOUS
  <2>2. header[1] = words[at + 1] /\ header[2] = words[at + 2]
        /\ header[3] = words[at + 3] /\ header[4] = words[at + 4]
    OBVIOUS
  <2> QED
    BY <2>1, <2>2
<1>6. Part(words, at, 4) = header
  <2> HIDE DEF header
  <2>1. 4 \in Nat
    OBVIOUS
  <2> QED
    BY <1>4, <1>5, <2>1, PartIs, Zenon
<1> QED
  BY <1>3, <1>6, FourConcat, ZenonT(30)

(* An entry, as next_message reads it.                                     *)
EntryAt(words, at, n) ==
    [id |-> <<words[at + 1], words[at + 2]>>, sequence |-> words[at + 3],
     body |-> Part(words, at + 4, n)]

LEMMA EntryWordsRead ==
    ASSUME NEW words \in Seq(Nat), NEW at \in Nat, NEW n \in Nat,
           at + 4 + n <= Len(words), words[at + 4] = 4 * n
    PROVE  /\ EntryAt(words, at, n) \in Entries
           /\ EntryWords(EntryAt(words, at, n)) = Part(words, at, 4 + n)
<1>1. at + 4 \in Nat /\ at + 4 <= Len(words)
  OBVIOUS
<1>2. /\ words[at + 1] \in Nat /\ words[at + 2] \in Nat /\ words[at + 3] \in Nat
      /\ Part(words, at, 4)
           = <<words[at + 1], words[at + 2]>> \o <<words[at + 3], words[at + 4]>>
  BY <1>1, HeaderPart
<1>3. Part(words, at + 4, n) \in Seq(Nat) /\ Len(Part(words, at + 4, n)) = n
  BY <1>1, PartProperties
<1>4. Part(words, at, 4) \o Part(words, at + 4, n) = Part(words, at, 4 + n)
  <2>1. 4 \in Nat
    OBVIOUS
  <2> QED
    BY <2>1, PartsJoin
<1>5. PICK x, y, z, body :
         /\ x = <<words[at + 1], words[at + 2]>> /\ x \in Seq(Nat)
         /\ y = words[at + 3] /\ z = words[at + 4]
         /\ body = Part(words, at + 4, n) /\ body \in Seq(Nat) /\ Len(body) = n
  <2>1. <<words[at + 1], words[at + 2]>> \in Seq(Nat)
    BY <1>2
  <2>2. words[at + 4] \in Nat
    OBVIOUS
  <2> QED
    BY <1>2, <1>3, <2>1, <2>2, Zenon
<1> DEFINE e == [id |-> x, sequence |-> y, body |-> body]
<1>6. EntryAt(words, at, n) = e
  BY <1>5, Zenon DEF EntryAt
<1>7. e \in Entries /\ e.id = x /\ e.sequence = y /\ e.body = body
  BY <1>2, <1>5 DEF Entries
<1> HIDE DEF e
<1>8. EntryWords(e) = x \o <<y, z>> \o body
  <2>1. 4 * Len(body) = z
    BY <1>5
  <2> QED
    BY <1>7, <2>1, Zenon DEF EntryWords
<1> QED
  BY <1>2, <1>4, <1>5, <1>6, <1>7, <1>8, Zenon

LEMMA ContainerInitially == ContainerInit => ContainerIInv
<1> SUFFICES ASSUME ContainerInit PROVE ContainerIInv
  OBVIOUS
<1>1. /\ input \in Containers /\ cursor = 0 /\ remaining = 0 /\ handed = <<>>
      /\ failures = 0 /\ stage = "unparsed"
  BY DEF ContainerInit
<1>2. input.words \in Seq(Nat)
  BY <1>1, ContainersAssumption
<1>3. cursor \in 0 .. Len(input.words)
  BY <1>1, <1>2
<1>4. ContainerTypes
  <2>1. handed \in Seq(Entries)
    BY <1>1
  <2> QED
    BY <1>1, <1>3, <2>1 DEF ContainerTypes
<1>5. Accounted
  BY <1>1 DEF Accounted
<1>6. ReadsWhatWasPacked
  <2>1. Packed(<<>>) = <<>>
    <3>1. [i \in DOMAIN <<>> |-> EntryWords(<<>>[i])] = <<>>
      OBVIOUS
    <3> QED
      BY <3>1, FlattenEmpty DEF Packed
  <2>2. SubSeq(input.words, 1, 0) = <<>>
    BY SubSeqEmpty
  <2> QED
    BY <1>1, <2>1, <2>2 DEF ReadsWhatWasPacked
<1> QED
  BY <1>4, <1>5, <1>6 DEF ContainerIInv

(* What an entry that is read adds.                                        *)
LEMMA EntryReads ==
    ASSUME ContainerIInv, NextEntry
    PROVE  /\ Entry \in Entries /\ cursor' \in 0 .. Len(input.words)
           /\ SubSeq(input.words, 1, cursor') = SubSeq(input.words, 1, cursor) \o EntryWords(Entry)
<1>1. input.words \in Seq(Nat) /\ cursor \in 0 .. Len(input.words)
  BY ContainersAssumption DEF ContainerIInv, ContainerTypes
<1>2. /\ Len(input.words) - cursor >= 4 /\ input.words[cursor + 4] % 4 = 0
      /\ Len(input.words) - cursor - 4 >= input.words[cursor + 4] \div 4
      /\ cursor' = cursor + 4 + (input.words[cursor + 4] \div 4)
  BY DEF NextEntry, WordsLeft, BodyBytes, BodyWords, Word, HeaderWords
<1>3. PICK words, at, length, n :
         /\ words = input.words /\ at = cursor /\ length = input.words[cursor + 4]
         /\ n = input.words[cursor + 4] \div 4
  BY Zenon
<1>4. words \in Seq(Nat) /\ at \in 0 .. Len(words) /\ length = words[at + 4]
  BY <1>1, <1>3, Zenon
<1>5. /\ Len(words) - at >= 4 /\ length % 4 = 0 /\ Len(words) - at - 4 >= n
      /\ n = length \div 4 /\ cursor' = at + 4 + n
  BY <1>2, <1>3
<1>6. length \in Nat
  BY <1>4, <1>5, SMTT(30)
<1>7. n \in Nat /\ length = 4 * n
  BY <1>5, <1>6
<1>8. /\ at \in Nat /\ at + 4 + n <= Len(words) /\ Len(words) \in Nat
      /\ words[at + 4] = 4 * n
  <2>1. Len(words) \in Nat /\ at \in Nat /\ at <= Len(words)
    BY <1>4
  <2>2. words[at + 4] = 4 * n
    BY <1>4, <1>7, Zenon
  <2> QED
    BY <1>5, <1>7, <2>1, <2>2
<1>9. Entry = EntryAt(words, at, n)
  BY <1>3, Zenon DEF Entry, EntryAt, Part, Word, BodyWords, BodyBytes, HeaderWords
<1>10. EntryAt(words, at, n) \in Entries /\ EntryWords(EntryAt(words, at, n)) = Part(words, at, 4 + n)
  BY <1>4, <1>7, <1>8, EntryWordsRead
<1>11. SubSeq(words, 1, at + 4 + n) = SubSeq(words, 1, at) \o Part(words, at, 4 + n)
  <2>1. /\ 0 + 1 = 1 /\ 0 + at = at /\ 0 + (at + (4 + n)) = at + 4 + n /\ 0 \in Nat
        /\ 4 + n \in Nat /\ 0 + at + (4 + n) <= Len(words)
    BY <1>7, <1>8
  <2>2. Part(words, 0, at) \o Part(words, 0 + at, 4 + n) = Part(words, 0, at + (4 + n))
    BY <1>4, <1>8, <2>1, PartsJoin, ZenonT(30)
  <2>3. Part(words, 0, at) = SubSeq(words, 1, at)
    BY <2>1, Zenon DEF Part
  <2>4. Part(words, 0, at + (4 + n)) = SubSeq(words, 1, at + 4 + n)
    BY <2>1, Zenon DEF Part
  <2> QED
    BY <2>1, <2>2, <2>3, <2>4, Zenon
<1>12. cursor' \in 0 .. Len(words)
  BY <1>5, <1>7, <1>8
<1> QED
  BY <1>3, <1>5, <1>9, <1>10, <1>11, <1>12, Zenon

LEMMA ContainerSteps == ContainerIInv /\ [ContainerNext]_containerVars => ContainerIInv'
<1> SUFFICES ASSUME ContainerIInv, [ContainerNext]_containerVars PROVE ContainerIInv'
  OBVIOUS
<1>1. /\ input \in Containers /\ input.words \in Seq(Nat) /\ input.count \in Nat
      /\ cursor \in 0 .. Len(input.words) /\ Len(input.words) \in Nat
      /\ remaining \in Nat /\ failures \in Nat /\ handed \in Seq(Entries)
      /\ Len(handed) \in Nat
  BY ContainersAssumption DEF ContainerIInv, ContainerTypes
<1>2. Accounted /\ ReadsWhatWasPacked
  BY DEF ContainerIInv
<1>3. CASE Parse
  <2>1. /\ stage = "unparsed" /\ input.count <= MaxMessages /\ stage' = "open"
        /\ remaining' = input.count % Modulus /\ input' = input /\ cursor' = cursor
        /\ handed' = handed /\ failures' = failures
    BY <1>3 DEF Parse
  <2>2. remaining' = input.count
    <3>1. /\ Modulus \in Nat /\ input.count \in 0 .. Modulus - 1
          /\ Modulus * 0 + input.count = input.count
      BY <1>1, <2>1, ContainersAssumption
    <3>2. (Modulus * 0 + input.count) % Modulus = input.count
      BY <3>1, Quotient
    <3> QED
      BY <2>1, <3>1, <3>2
  <2>3. ContainerTypes'
    BY <1>1, <2>1, <2>2 DEF ContainerTypes
  <2>4. handed = <<>> /\ failures = 0
    BY <1>2, <2>1 DEF Accounted
  <2>5. Accounted'
    BY <1>1, <2>1, <2>2, <2>4 DEF Accounted
  <2>6. ReadsWhatWasPacked'
    BY <1>2, <2>1, Zenon DEF ReadsWhatWasPacked
  <2> QED
    BY <2>3, <2>5, <2>6 DEF ContainerIInv
<1>4. CASE ParseTooMany
  <2>1. /\ stage' = "refused" /\ remaining' = remaining /\ input' = input
        /\ cursor' = cursor /\ handed' = handed /\ failures' = failures
    BY <1>4 DEF ParseTooMany
  <2>2. ContainerTypes' /\ Accounted'
    BY <1>1, <2>1 DEF ContainerTypes, Accounted
  <2>3. ReadsWhatWasPacked'
    BY <1>2, <2>1, Zenon DEF ReadsWhatWasPacked
  <2> QED
    BY <2>2, <2>3 DEF ContainerIInv
<1>5. ASSUME Call, Failing, cursor' \in 0 .. Len(input.words)
      PROVE  ContainerIInv'
  <2>1. /\ stage = "open" /\ stage' = "open" /\ remaining > 0 /\ remaining' = remaining - 1
        /\ input' = input /\ failures' = failures + 1 /\ handed' = handed
    BY <1>5 DEF Call, Failing
  <2>2. ContainerTypes'
    BY <1>1, <1>5, <2>1 DEF ContainerTypes
  <2>3. Accounted'
    BY <1>1, <1>2, <2>1 DEF Accounted
  <2>4. ReadsWhatWasPacked'
    <3>1. failures' # 0
      BY <1>1, <2>1
    <3> QED
      BY <3>1 DEF ReadsWhatWasPacked
  <2> QED
    BY <2>2, <2>3, <2>4 DEF ContainerIInv
<1>6. CASE NextCutHeader
  <2>1. cursor' \in 0 .. Len(input.words)
    BY <1>1, <1>6 DEF NextCutHeader
  <2> QED
    BY <1>5, <1>6, <2>1 DEF NextCutHeader
<1>7. CASE NextMisaligned
  <2>1. cursor' \in 0 .. Len(input.words)
    BY <1>1, <1>7 DEF NextMisaligned, WordsLeft, HeaderWords
  <2> QED
    BY <1>5, <1>7, <2>1 DEF NextMisaligned
<1>8. CASE NextCutBody
  <2>1. cursor' \in 0 .. Len(input.words)
    BY <1>1, <1>8 DEF NextCutBody, WordsLeft, HeaderWords
  <2> QED
    BY <1>5, <1>8, <2>1 DEF NextCutBody
<1>9. CASE NextEntry
  <2>1. /\ stage = "open" /\ stage' = "open" /\ remaining > 0 /\ remaining' = remaining - 1
        /\ input' = input /\ failures' = failures /\ handed' = Append(handed, Entry)
    BY <1>9 DEF NextEntry, Call
  <2>2. /\ Entry \in Entries /\ cursor' \in 0 .. Len(input.words)
        /\ SubSeq(input.words, 1, cursor') = SubSeq(input.words, 1, cursor) \o EntryWords(Entry)
    BY <1>9, EntryReads
  <2>3. handed' \in Seq(Entries) /\ Len(handed') = Len(handed) + 1
    BY <1>1, <2>1, <2>2, AppendProperties
  <2>4. ContainerTypes'
    BY <1>1, <2>1, <2>2, <2>3 DEF ContainerTypes
  <2>5. Accounted'
    BY <1>1, <1>2, <2>1, <2>3 DEF Accounted
  <2>6. ReadsWhatWasPacked'
    <3>1. Packed(Append(handed, Entry)) = Packed(handed) \o EntryWords(Entry)
      BY <1>1, <2>2, PackedAppend
    <3>2. failures = 0 => SubSeq(input.words, 1, cursor) = Packed(handed)
      BY <1>2 DEF ReadsWhatWasPacked
    <3>3. failures' = 0 => SubSeq(input.words, 1, cursor') = Packed(Append(handed, Entry))
      BY <2>1, <2>2, <3>1, <3>2, Zenon
    <3> QED
      BY <2>1, <3>3, Zenon DEF ReadsWhatWasPacked
  <2> QED
    BY <2>4, <2>5, <2>6 DEF ContainerIInv
<1>10. CASE Finish
  <2>1. /\ stage = "open"
        /\ stage' = IF remaining = 0 /\ WordsLeft = 0 THEN "complete" ELSE "incomplete"
        /\ input' = input /\ cursor' = cursor /\ remaining' = remaining
        /\ handed' = handed /\ failures' = failures
    BY <1>10 DEF Finish
  <2>2. ContainerTypes'
    BY <1>1, <2>1 DEF ContainerTypes
  <2>3. Accounted'
    <3>1. stage' = "complete" => remaining = 0 /\ cursor = Len(input.words)
      BY <1>1, <2>1 DEF WordsLeft
    <3>2. Len(handed) + failures + remaining = input.count
      BY <1>2, <2>1 DEF Accounted
    <3>3. stage' # "unparsed"
      BY <2>1
    <3> QED
      BY <2>1, <3>1, <3>2, <3>3 DEF Accounted
  <2>4. ReadsWhatWasPacked'
    BY <1>2, <2>1, Zenon DEF ReadsWhatWasPacked
  <2> QED
    BY <2>2, <2>3, <2>4 DEF ContainerIInv
<1>11. CASE UNCHANGED containerVars
  <2>1. /\ input' = input /\ cursor' = cursor /\ remaining' = remaining
        /\ handed' = handed /\ failures' = failures /\ stage' = stage
    BY <1>11 DEF containerVars
  <2> QED
    BY <1>2, <2>1, Zenon DEF ContainerIInv, ContainerTypes, Accounted, ReadsWhatWasPacked
<1> QED
  BY <1>3, <1>4, <1>6, <1>7, <1>8, <1>9, <1>10, <1>11 DEF ContainerNext

LEMMA ContainerAlways == ContainerSpec => []ContainerIInv
<1> QED
  BY ContainerInitially, ContainerSteps, PTL DEF ContainerSpec

(* Whatever the bytes and the limits are: as long as no call failed, what  *)
(* next_message handed out is exactly what the words it has read encode.   *)
THEOREM ContainerReads == ContainerSpec => []ReadsWhatWasPacked
<1>1. ContainerIInv => ReadsWhatWasPacked
  BY DEF ContainerIInv
<1> QED
  BY <1>1, ContainerAlways, PTL

(* A container that finish calls complete was handed over whole.           *)
THEOREM ContainerComplete == ContainerSpec => []CompleteMeansWhole
<1>1. ContainerIInv => CompleteMeansWhole
  <2> SUFFICES ASSUME ContainerIInv, stage = "complete", failures = 0
               PROVE  Len(handed) = input.count /\ input.words = Packed(handed)
    BY DEF CompleteMeansWhole
  <2>1. /\ Len(handed) + failures + remaining = input.count
        /\ remaining = 0 /\ cursor = Len(input.words)
    BY DEF ContainerIInv, Accounted
  <2>2. handed \in Seq(Entries) /\ input.words \in Seq(Nat)
    BY ContainersAssumption DEF ContainerIInv, ContainerTypes
  <2>3. SubSeq(input.words, 1, cursor) = Packed(handed)
    BY DEF ContainerIInv, ReadsWhatWasPacked
  <2>4. SubSeq(input.words, 1, Len(input.words)) = input.words
    BY <2>2, SubSeqFull
  <2>5. Len(handed) = input.count
    BY <2>1, <2>2
  <2> QED
    BY <2>1, <2>3, <2>4, <2>5, Zenon
<1> QED
  BY <1>1, ContainerAlways, PTL

LEMMA OneConcat ==
    ASSUME NEW S, NEW a \in S, NEW b \in S, NEW c \in S, NEW d \in S
    PROVE  <<a>> \o <<b, c, d>> = <<a, b, c, d>>
<1> DEFINE s == <<a>>
           t == <<b, c, d>>
           u == <<a, b, c, d>>
<1>1. /\ s \in Seq(S) /\ Len(s) = 1 /\ s[1] = a
      /\ t \in Seq(S) /\ Len(t) = 3 /\ t[1] = b /\ t[2] = c /\ t[3] = d
      /\ u \in Seq(S) /\ Len(u) = 4
      /\ u[1] = a /\ u[2] = b /\ u[3] = c /\ u[4] = d
  OBVIOUS
<1> HIDE DEF s, t, u
<1>2. /\ s \o t \in Seq(S) /\ Len(s \o t) = 4
      /\ \A i \in 1 .. 4 : (s \o t)[i] = IF i <= 1 THEN s[i] ELSE t[i - 1]
  <2>1. /\ s \o t \in Seq(S) /\ Len(s \o t) = Len(s) + Len(t)
        /\ \A i \in 1 .. Len(s) + Len(t) :
              (s \o t)[i] = IF i <= Len(s) THEN s[i] ELSE t[i - Len(s)]
    <3>1. s \in Seq(S) /\ t \in Seq(S)
      BY <1>1
    <3> QED
      BY <3>1, ConcatProperties, Zenon
  <2> QED
    BY <1>1, <2>1
<1>3. (s \o t)[1] = a /\ (s \o t)[2] = b /\ (s \o t)[3] = c /\ (s \o t)[4] = d
  BY <1>1, <1>2
<1>4. ASSUME NEW i \in 1 .. Len(u) PROVE (s \o t)[i] = u[i]
  <2>1. i = 1 \/ i = 2 \/ i = 3 \/ i = 4
    BY <1>1
  <2> QED
    BY <1>1, <1>3, <2>1
<1>5. s \o t = u
  BY <1>1, <1>2, <1>4, SeqEqual
<1> QED
  BY <1>5 DEF s, t, u

LEMMA TwoAppends ==
    ASSUME NEW S, NEW s \in Seq(S), NEW a \in S, NEW b \in S
    PROVE  /\ s \o <<a, b>> = Append(Append(s, a), b)
           /\ Append(s, a) \in Seq(S) /\ Append(Append(s, a), b) \in Seq(S)
<1>1. Append(s, a) \in Seq(S) /\ Append(s, a) = s \o <<a>>
  BY AppendProperties, AppendIsConcat
<1>2. Append(Append(s, a), b) \in Seq(S) /\ Append(Append(s, a), b) = Append(s, a) \o <<b>>
  BY <1>1, AppendProperties, AppendIsConcat
<1>3. <<a>> \in Seq(S) /\ <<b>> \in Seq(S) /\ <<a>> \o <<b>> = <<a, b>>
  <2>1. <<a>> \in Seq(S) /\ <<b>> \in Seq(S)
    OBVIOUS
  <2>2. Append(<<a>>, b) = <<a, b>>
    <3> DEFINE one == <<a>>
               two == <<a, b>>
    <3>1. /\ one \in Seq(S) /\ Len(one) = 1 /\ one[1] = a
          /\ two \in Seq(S) /\ Len(two) = 2 /\ two[1] = a /\ two[2] = b
      OBVIOUS
    <3> HIDE DEF one, two
    <3>2. /\ Append(one, b) \in Seq(S) /\ Len(Append(one, b)) = 2
          /\ Append(one, b)[1] = a /\ Append(one, b)[2] = b
      <4>1. /\ Append(one, b) \in Seq(S) /\ Len(Append(one, b)) = Len(one) + 1
            /\ \A i \in 1 .. Len(one) : Append(one, b)[i] = one[i]
            /\ Append(one, b)[Len(one) + 1] = b
        <5>1. one \in Seq(S)
          BY <3>1
        <5> HIDE <3>1
        <5> QED
          BY <5>1, AppendProperties
      <4> QED
        BY <3>1, <4>1
    <3>3. \A i \in 1 .. Len(two) : Append(one, b)[i] = two[i]
      <4>1. \A i \in 1 .. Len(two) : i = 1 \/ i = 2
        BY <3>1
      <4> QED
        BY <3>1, <3>2, <4>1, Zenon
    <3>4. Append(one, b) = two
      BY <3>1, <3>2, <3>3, SeqEqual
    <3> QED
      BY <3>4 DEF one, two
  <2> QED
    BY <2>1, <2>2, AppendIsConcat
<1>4. (s \o <<a>>) \o <<b>> = s \o (<<a>> \o <<b>>)
  BY <1>3, ConcatAssociative
<1> QED
  BY <1>1, <1>2, <1>3, <1>4

-----------------------------------------------------------------------------
(* TL bytes.                                                               *)
LEMMA ByteFacts ==
    /\ Long \in Nat /\ Base \in Nat /\ Base = Long + 2
    /\ \A b : b \in Byte <=> b \in Nat /\ b < Base
    /\ MaxLength = Base * Base * Base - 1 /\ MaxLength \in Nat
<1>1. Long \in Nat /\ Base \in Nat /\ Base = Long + 2
  BY BytesAssumption DEF Base
<1>2. \A b : b \in Byte <=> b \in Nat /\ b < Base
  BY <1>1 DEF Byte
<1>3. Base * Base * Base >= 1
  BY <1>1
<1> QED
  BY <1>1, <1>2, <1>3 DEF MaxLength

(* The length's one or four bytes.                                         *)
HeaderBytes(n) ==
    IF n < Long THEN <<n>>
    ELSE <<Long, n % Base, (n \div Base) % Base, n \div (Base * Base)>>

LEMMA LengthDigits ==
    ASSUME NEW n \in 0 .. MaxLength
    PROVE  /\ n % Base \in Byte /\ (n \div Base) % Base \in Byte
           /\ n \div (Base * Base) \in Byte /\ Long \in Byte /\ (n < Long => n \in Byte)
           /\ n = (n % Base) + Base * ((n \div Base) % Base) + Base * Base * (n \div (Base * Base))
<1>1. Base > 0 /\ n \in 0 .. Base * Base * Base - 1 /\ Base \in Nat
  BY ByteFacts
<1>2. /\ n % Base \in 0 .. Base - 1 /\ (n \div Base) % Base \in 0 .. Base - 1
      /\ n \div (Base * Base) \in 0 .. Base - 1
      /\ n = (n % Base) + Base * ((n \div Base) % Base) + Base * Base * (n \div (Base * Base))
  BY <1>1, NumberOfDigits
<1>3. Long \in Byte /\ (n < Long => n \in Byte)
  BY ByteFacts
<1> QED
  BY <1>2, <1>3 DEF Byte

LEMMA LengthOfDigits ==
    ASSUME NEW p \in Byte, NEW q \in Byte, NEW r \in Byte,
           NEW length, length = p + Base * q + Base * Base * r
    PROVE  /\ length \in 0 .. MaxLength
           /\ length % Base = p /\ (length \div Base) % Base = q
           /\ length \div (Base * Base) = r
<1>1. Base \in Nat /\ Base > 0
  BY ByteFacts
<1>2. p \in 0 .. Base - 1 /\ q \in 0 .. Base - 1 /\ r \in 0 .. Base - 1
  BY DEF Byte
<1>3. PICK base \in Nat : base = Base /\ base > 0
  BY <1>1
<1>4. PICK x \in 0 .. base - 1, y \in 0 .. base - 1, z \in 0 .. base - 1 :
         x = p /\ y = q /\ z = r
  BY <1>2, <1>3
<1>5. PICK n \in Nat : n = length /\ n = x + base * y + base * base * z
  <2>1. length = x + base * y + base * base * z
    BY <1>3, <1>4, Zenon
  <2>2. x + base * y + base * base * z \in Nat
    OBVIOUS
  <2> QED
    BY <2>1, <2>2
<1>6. /\ n \in 0 .. base * base * base - 1
      /\ n % base = x /\ (n \div base) % base = y /\ n \div (base * base) = z
  <2>1. base > 0 /\ n = x + base * y + base * base * z
    BY <1>3, <1>5, Zenon
  <2>2. n % base = x
    BY <2>1, DigitsOfNumber
  <2>3. n \in 0 .. base * base * base - 1
    BY <2>1, DigitsOfNumber
  <2>4. (n \div base) % base = y
    <3>1. PICK m \in Nat : m = base * z + y
      OBVIOUS
    <3>2. n = base * m + x
      BY <2>1, <3>1
    <3>3. (base * m + x) \div base = m
      BY Quotient
    <3>4. (base * z + y) % base = y
      BY Quotient
    <3> QED
      BY <3>1, <3>2, <3>3, <3>4, Zenon
  <2>5. n \div (base * base) = z
    BY <2>1, DigitsOfNumber
  <2> QED
    BY <2>2, <2>3, <2>4, <2>5, Zenon
<1> QED
  BY <1>3, <1>4, <1>5, <1>6, Zenon DEF MaxLength

LEMMA HeaderFlat ==
    ASSUME NEW n \in 0 .. MaxLength
    PROVE  /\ Header(n) \in Seq(Seq(Byte)) /\ FlattenSeq(Header(n)) = HeaderBytes(n)
           /\ HeaderBytes(n) \in Seq(Byte) /\ Len(HeaderBytes(n)) = HeaderSize(n)
<1>1. <<>> \in Seq(Seq(Byte)) /\ \A w \in Seq(Byte) : <<>> \o w = w
  OBVIOUS
<1>2. ASSUME NEW w \in Seq(Byte)
      PROVE  <<w>> \in Seq(Seq(Byte)) /\ FlattenSeq(<<w>>) = w
  <2>1. <<w>> = Append(<<>>, w) /\ <<w>> \in Seq(Seq(Byte))
    OBVIOUS
  <2>2. FlattenSeq(Append(<<>>, w)) = FlattenSeq(<<>>) \o w
    BY <1>1, FlattenAppend
  <2> QED
    BY <1>1, <2>1, <2>2, FlattenEmpty
<1>3. CASE n < Long
  <2>1. <<n>> \in Seq(Byte) /\ Len(<<n>>) = 1
    BY <1>3, LengthDigits
  <2>2. Header(n) = <<<<n>>>> /\ HeaderBytes(n) = <<n>> /\ HeaderSize(n) = 1
    BY <1>3 DEF Header, HeaderBytes, HeaderSize
  <2> QED
    BY <1>2, <2>1, <2>2
<1>4. CASE ~ (n < Long)
  <2>1. PICK x, y, z : x = n % Base /\ y = (n \div Base) % Base /\ z = n \div (Base * Base)
    BY Zenon
  <2>2. x \in Byte /\ y \in Byte /\ z \in Byte /\ Long \in Byte
    BY <2>1, LengthDigits
  <2>3. /\ Header(n) = <<<<Long>>, <<x, y, z>>>> /\ HeaderBytes(n) = <<Long, x, y, z>>
        /\ HeaderSize(n) = 4
    BY <1>4, <2>1, Zenon DEF Header, HeaderBytes, HeaderSize
  <2>4. <<Long>> \in Seq(Byte) /\ <<x, y, z>> \in Seq(Byte)
    BY <2>2
  <2>5. /\ <<<<Long>>, <<x, y, z>>>> = Append(<<<<Long>>>>, <<x, y, z>>)
        /\ <<<<Long>>, <<x, y, z>>>> \in Seq(Seq(Byte))
    BY <2>4
  <2>6. FlattenSeq(Append(<<<<Long>>>>, <<x, y, z>>)) = FlattenSeq(<<<<Long>>>>) \o <<x, y, z>>
    BY <1>2, <2>4, FlattenAppend
  <2>7. <<Long>> \o <<x, y, z>> = <<Long, x, y, z>>
    BY <2>2, OneConcat
  <2>8. <<Long, x, y, z>> \in Seq(Byte) /\ Len(<<Long, x, y, z>>) = 4
    BY <2>2
  <2>9. FlattenSeq(Header(n)) = HeaderBytes(n)
    BY <1>2, <2>3, <2>4, <2>5, <2>6, <2>7, Zenon
  <2> QED
    BY <2>3, <2>5, <2>8, <2>9
<1> QED
  BY <1>3, <1>4

LEMMA PaddingFacts ==
    ASSUME NEW h \in Nat, NEW n \in Nat
    PROVE  /\ Padding(h, n) \in Nat /\ Padding(h, n) < 4
           /\ (h + n + Padding(h, n)) % 4 = 0
           /\ Zeros(Padding(h, n)) \in Seq(Byte) /\ Len(Zeros(Padding(h, n))) = Padding(h, n)
<1>1. /\ Padding(h, n) \in Nat /\ Padding(h, n) < 4
      /\ (h + n + Padding(h, n)) % 4 = 0
  BY DEF Padding
<1>2. 0 \in Byte
  BY ByteFacts
<1>3. ASSUME NEW p \in Nat PROVE Zeros(p) \in Seq(Byte) /\ Len(Zeros(p)) = p
  BY <1>2 DEF Zeros
<1> QED
  BY <1>1, <1>3

(* What can be written.                                                    *)
Fitting == {v \in Seq(Byte) : Len(v) <= MaxLength}

PaddingOf(v) == Padding(HeaderSize(Len(v)), Len(v))

LEMMA EncodingIs ==
    ASSUME NEW v \in Fitting
    PROVE  /\ v \in Seq(Byte) /\ Len(v) \in 0 .. MaxLength /\ PaddingOf(v) \in Nat
           /\ HeaderSize(Len(v)) \in {1, 4}
           /\ HeaderBytes(Len(v)) \in Seq(Byte)
           /\ Len(HeaderBytes(Len(v))) = HeaderSize(Len(v))
           /\ Zeros(PaddingOf(v)) \in Seq(Byte) /\ Len(Zeros(PaddingOf(v))) = PaddingOf(v)
           /\ Pieces(v) \in Seq(Seq(Byte))
           /\ Encoding(v) = (HeaderBytes(Len(v)) \o v) \o Zeros(PaddingOf(v))
<1>1. v \in Seq(Byte) /\ Len(v) \in 0 .. MaxLength /\ Len(v) \in Nat
  BY ByteFacts DEF Fitting
<1>2. /\ Header(Len(v)) \in Seq(Seq(Byte))
      /\ FlattenSeq(Header(Len(v))) = HeaderBytes(Len(v))
      /\ HeaderBytes(Len(v)) \in Seq(Byte)
      /\ Len(HeaderBytes(Len(v))) = HeaderSize(Len(v))
  BY <1>1, HeaderFlat
<1>3. HeaderSize(Len(v)) \in {1, 4}
  BY DEF HeaderSize
<1>4. /\ PaddingOf(v) \in Nat /\ Zeros(PaddingOf(v)) \in Seq(Byte)
      /\ Len(Zeros(PaddingOf(v))) = PaddingOf(v)
  <2>1. HeaderSize(Len(v)) \in Nat
    BY <1>3
  <2> QED
    BY <1>1, <2>1, PaddingFacts, Zenon DEF PaddingOf
<1>5. PICK head, zeros : head = Header(Len(v)) /\ zeros = Zeros(PaddingOf(v))
  BY Zenon
<1>6. head \in Seq(Seq(Byte)) /\ zeros \in Seq(Byte)
  BY <1>2, <1>4, <1>5
<1>7. /\ head \o <<v, zeros>> = Append(Append(head, v), zeros)
      /\ Append(head, v) \in Seq(Seq(Byte)) /\ Append(Append(head, v), zeros) \in Seq(Seq(Byte))
  BY <1>1, <1>6, TwoAppends
<1>8. Pieces(v) = head \o <<v, zeros>>
  BY <1>5, Zenon DEF Pieces, PaddingOf
<1>9. FlattenSeq(Append(Append(head, v), zeros)) = (FlattenSeq(head) \o v) \o zeros
  BY <1>1, <1>6, <1>7, FlattenAppend, ZenonT(30)
<1>10. Encoding(v) = (HeaderBytes(Len(v)) \o v) \o Zeros(PaddingOf(v))
  BY <1>2, <1>5, <1>7, <1>8, <1>9, Zenon DEF Encoding
<1> QED
  BY <1>1, <1>2, <1>3, <1>4, <1>7, <1>8, <1>10

(* Byte by byte.                                                           *)
LEMMA EncodingBytes ==
    ASSUME NEW v \in Fitting
    PROVE  LET h == HeaderSize(Len(v))
               n == Len(v)
               p == PaddingOf(v)
           IN  /\ Encoding(v) \in Seq(Byte) /\ Len(Encoding(v)) = h + n + p
               /\ Len(Encoding(v)) % 4 = 0 /\ Len(Encoding(v)) >= 1
               /\ \A i \in 1 .. h : Encoding(v)[i] = HeaderBytes(n)[i]
               /\ \A i \in 1 .. n : Encoding(v)[h + i] = v[i]
               /\ \A i \in 1 .. p : Encoding(v)[h + n + i] = 0
<1>1. PICK h, n, p, header, zeros :
         /\ h = HeaderSize(Len(v)) /\ n = Len(v) /\ p = PaddingOf(v)
         /\ header = HeaderBytes(Len(v)) /\ zeros = Zeros(PaddingOf(v))
  BY Zenon
<1>2. /\ v \in Seq(Byte) /\ n \in Nat /\ n = Len(v) /\ h \in {1, 4} /\ p \in Nat
      /\ header \in Seq(Byte) /\ Len(header) = h
      /\ zeros \in Seq(Byte) /\ Len(zeros) = p
      /\ Encoding(v) = (header \o v) \o zeros
  <2>1. v \in Seq(Byte) /\ Len(v) \in Nat
    BY DEF Fitting
  <2>2. /\ PaddingOf(v) \in Nat /\ HeaderSize(Len(v)) \in {1, 4}
        /\ HeaderBytes(Len(v)) \in Seq(Byte)
        /\ Len(HeaderBytes(Len(v))) = HeaderSize(Len(v))
        /\ Zeros(PaddingOf(v)) \in Seq(Byte) /\ Len(Zeros(PaddingOf(v))) = PaddingOf(v)
        /\ Encoding(v) = (HeaderBytes(Len(v)) \o v) \o Zeros(PaddingOf(v))
    BY EncodingIs, Zenon
  <2> QED
    BY <1>1, <2>1, <2>2, Zenon
<1>3. (h + n + p) % 4 = 0
  <2>1. h \in Nat
    BY <1>2
  <2>2. p = Padding(h, n)
    BY <1>1, Zenon DEF PaddingOf
  <2>3. (h + n + Padding(h, n)) % 4 = 0
    BY <1>2, <2>1, PaddingFacts, Zenon
  <2> QED
    BY <2>2, <2>3, Zenon
<1>4. PICK begin : begin = header \o v
  BY Zenon
<1>5. /\ begin \in Seq(Byte) /\ Len(begin) = h + n
      /\ \A i \in 1 .. h + n : begin[i] = IF i <= h THEN header[i] ELSE v[i - h]
  <2>1. /\ header \o v \in Seq(Byte) /\ Len(header \o v) = Len(header) + Len(v)
        /\ \A i \in 1 .. Len(header) + Len(v) :
              (header \o v)[i] = IF i <= Len(header) THEN header[i] ELSE v[i - Len(header)]
    BY <1>2, ConcatProperties
  <2> QED
    BY <1>2, <1>4, <2>1, Zenon
<1>6. PICK e : e = begin \o zeros
  BY Zenon
<1>7. /\ e \in Seq(Byte) /\ Len(e) = h + n + p
      /\ \A i \in 1 .. h + n + p : e[i] = IF i <= h + n THEN begin[i] ELSE zeros[i - (h + n)]
  <2>1. /\ begin \o zeros \in Seq(Byte) /\ Len(begin \o zeros) = Len(begin) + Len(zeros)
        /\ \A i \in 1 .. Len(begin) + Len(zeros) :
              (begin \o zeros)[i]
                = IF i <= Len(begin) THEN begin[i] ELSE zeros[i - Len(begin)]
    <3>1. begin \in Seq(Byte) /\ zeros \in Seq(Byte)
      BY <1>2, <1>5, Zenon
    <3> QED
      BY <3>1, ConcatProperties, Zenon
  <2> QED
    BY <1>2, <1>5, <1>6, <2>1, Zenon
<1>8. Encoding(v) = e
  BY <1>2, <1>4, <1>6, Zenon
<1>9. \A i \in 1 .. p : zeros[i] = 0
  BY <1>1 DEF Zeros
<1>10. \A i \in 1 .. h : e[i] = header[i]
  <2>1. ASSUME NEW i \in 1 .. h PROVE e[i] = header[i]
    <3>1. i \in 1 .. h + n /\ i \in 1 .. h + n + p /\ i <= h + n /\ i <= h
      BY <1>2
    <3> QED
      BY <1>5, <1>7, <3>1, Zenon
  <2> QED
    BY <2>1
<1>11. \A i \in 1 .. n : e[h + i] = v[i]
  <2>1. ASSUME NEW i \in 1 .. n PROVE e[h + i] = v[i]
    <3>1. /\ h + i \in 1 .. h + n /\ h + i \in 1 .. h + n + p /\ h + i <= h + n
          /\ ~ (h + i <= h) /\ (h + i) - h = i
      BY <1>2
    <3> QED
      BY <1>5, <1>7, <3>1, Zenon
  <2> QED
    BY <2>1
<1>12. \A i \in 1 .. p : e[h + n + i] = 0
  <2>1. ASSUME NEW i \in 1 .. p PROVE e[h + n + i] = 0
    <3>1. /\ h + n + i \in 1 .. h + n + p /\ ~ (h + n + i <= h + n)
          /\ (h + n + i) - (h + n) = i
      BY <1>2
    <3> QED
      BY <1>7, <1>9, <3>1, Zenon
  <2> QED
    BY <2>1
<1>13. Len(e) % 4 = 0 /\ Len(e) >= 1
  <2>1. Len(e) = h + n + p
    BY <1>7
  <2>2. Len(e) % 4 = 0
    BY <1>3, <2>1, Zenon
  <2>3. h + n + p >= 1
    BY <1>2
  <2> QED
    BY <2>1, <2>2, <2>3, Zenon
<1> QED
  BY <1>1, <1>7, <1>8, <1>10, <1>11, <1>12, <1>13, Zenon

(* The encodings of several values.                                        *)
LEMMA EncodingsAppend ==
    ASSUME NEW vs \in Seq(Fitting), NEW v \in Fitting
    PROVE  /\ Encodings(vs) \in Seq(Byte)
           /\ Encodings(Append(vs, v)) = Encodings(vs) \o Encoding(v)
<1> DEFINE pieces == [i \in DOMAIN vs |-> Encoding(vs[i])]
<1>1. pieces \in Seq(Seq(Byte)) /\ Encoding(v) \in Seq(Byte)
  <2>1. \A i \in 1 .. Len(vs) : vs[i] \in Fitting
    OBVIOUS
  <2>2. \A i \in 1 .. Len(vs) : Encoding(vs[i]) \in Seq(Byte)
    BY <2>1, EncodingBytes
  <2>3. DOMAIN vs = 1 .. Len(vs) /\ Len(vs) \in Nat
    OBVIOUS
  <2>4. pieces \in Seq(Seq(Byte))
    BY <2>2, <2>3
  <2> QED
    BY <2>4, EncodingBytes
<1>2. [i \in DOMAIN Append(vs, v) |-> Encoding(Append(vs, v)[i])] = Append(pieces, Encoding(v))
  OBVIOUS
<1> HIDE DEF pieces
<1>3. FlattenSeq(Append(pieces, Encoding(v))) = FlattenSeq(pieces) \o Encoding(v)
  BY <1>1, FlattenAppend
<1>4. FlattenSeq(pieces) \in Seq(Byte)
  BY <1>1, FlattenType
<1> QED
  BY <1>2, <1>3, <1>4 DEF Encodings, pieces

LEMMA EncodingsEmpty == Encodings(<<>>) = <<>>
<1>1. [i \in DOMAIN <<>> |-> Encoding(<<>>[i])] = <<>>
  OBVIOUS
<1> QED
  BY <1>1, FlattenEmpty DEF Encodings

(* The encoding of a value in that of a list.                              *)
LEMMA EncodingsSplit ==
    ASSUME NEW vs \in Seq(Fitting), NEW k \in Nat, k < Len(vs)
    PROVE  /\ SubSeq(vs, 1, k) \in Seq(Fitting) /\ Encodings(SubSeq(vs, 1, k)) \in Seq(Byte)
           /\ vs[k + 1] \in Fitting
           /\ \E rest \in Seq(Byte) :
                 Encodings(vs) = (Encodings(SubSeq(vs, 1, k)) \o Encoding(vs[k + 1])) \o rest
<1> DEFINE pieces == [i \in DOMAIN vs |-> Encoding(vs[i])]
           begin == SubSeq(vs, 1, k)
           longer == SubSeq(vs, 1, k + 1)
<1>1. /\ begin \in Seq(Fitting) /\ vs[k + 1] \in Fitting
      /\ longer = Append(begin, vs[k + 1])
  OBVIOUS
<1>2. pieces \in Seq(Seq(Byte)) /\ Len(pieces) = Len(vs) /\ Len(vs) \in Nat
  <2>1. \A i \in 1 .. Len(vs) : vs[i] \in Fitting
    OBVIOUS
  <2>2. \A i \in 1 .. Len(vs) : Encoding(vs[i]) \in Seq(Byte)
    BY <2>1, EncodingBytes
  <2>3. DOMAIN vs = 1 .. Len(vs) /\ Len(vs) \in Nat
    OBVIOUS
  <2> QED
    BY <2>2, <2>3
<1>3. SubSeq(pieces, 1, k + 1) = [i \in DOMAIN longer |-> Encoding(longer[i])]
  <2>1. /\ SubSeq(pieces, 1, k + 1) = [i \in 1 .. k + 1 |-> pieces[i]]
        /\ longer = [i \in 1 .. k + 1 |-> vs[i]]
        /\ \A i \in 1 .. k + 1 : pieces[i] = Encoding(vs[i])
    OBVIOUS
  <2> HIDE DEF pieces, longer
  <2> QED
    BY <2>1
<1> HIDE DEF pieces, longer, begin
<1>4. PICK rest \in Seq(Byte) : FlattenSeq(pieces) = FlattenSeq(SubSeq(pieces, 1, k + 1)) \o rest
  <2>1. k + 1 \in 0 .. Len(pieces)
    BY <1>2
  <2> QED
    BY <1>2, <2>1, FlattenSplit
<1>5. Encodings(longer) = Encodings(begin) \o Encoding(vs[k + 1]) /\ Encodings(begin) \in Seq(Byte)
  BY <1>1, EncodingsAppend
<1>6. Encodings(vs) = Encodings(longer) \o rest
  BY <1>3, <1>4, Zenon DEF Encodings, pieces
<1> QED
  BY <1>1, <1>5, <1>6, Zenon DEF begin

(* The header a read takes is the one a writer of that length gives.       *)
Cursor == buffer \in Seq(Byte) /\ position \in 0 .. Len(buffer)

LEMMA AtByte ==
    ASSUME Cursor, NEW i \in 1 .. BytesLeft
    PROVE  At(i) \in Byte /\ At(i) = buffer[position + i] /\ At(i) \in Nat /\ At(i) < Base
<1>1. position + i \in 1 .. Len(buffer)
  BY DEF Cursor, BytesLeft
<1>2. buffer[position + i] \in Byte
  BY <1>1 DEF Cursor
<1> QED
  BY <1>2, ByteFacts DEF At

LEMMA HeaderFacts ==
    ASSUME Cursor, HeaderRead
    PROVE  /\ Declared \in 0 .. MaxLength /\ HeaderLen = HeaderSize(Declared)
           /\ HeaderLen \in {1, 4} /\ position + HeaderLen <= Len(buffer)
           /\ Part(buffer, position, HeaderLen) = HeaderBytes(Declared)
<1>1. /\ position \in Nat /\ BytesLeft \in Nat /\ BytesLeft >= 1
      /\ position + BytesLeft = Len(buffer) /\ Len(buffer) \in Nat
  BY DEF Cursor, BytesLeft, HeaderRead
<1>2. buffer \in Seq(Byte) /\ 0 \in 0 .. Base - 1 /\ Base \in Nat /\ Base > 0
  BY ByteFacts DEF Cursor
<1>3. CASE At(1) < Long
  <2>1. PICK x : x = At(1)
    OBVIOUS
  <2>2. x \in Byte /\ x \in Nat /\ x < Base /\ x = buffer[position + 1]
    BY <1>1, <2>1, AtByte
  <2>3. x \in 0 .. Base * Base * Base - 1
    <3>1. x \in 0 .. Base - 1
      BY <1>2, <2>2
    <3>2. x = x + Base * 0 + Base * Base * 0
      BY <1>2, <2>2
    <3>3. Base \in Nat /\ Base > 0
      BY <1>2
    <3>4. 0 \in 0 .. Base - 1
      BY <1>2
    <3> QED
      BY <3>1, <3>2, <3>3, <3>4, DigitsOfNumber
  <2>4. Declared = x /\ HeaderLen = 1
    BY <1>3, <2>1, Zenon DEF Declared, HeaderLen
  <2>5. HeaderSize(x) = 1 /\ HeaderBytes(x) = <<x>>
    BY <1>3, <2>1, Zenon DEF HeaderSize, HeaderBytes
  <2>6. Part(buffer, position, 1) = <<x>>
    <3> DEFINE t == <<x>>
    <3>1. t \in Seq(Byte) /\ Len(t) = 1 /\ t[1] = x
      BY <2>2
    <3> HIDE DEF t
    <3>2. \A i \in 1 .. 1 : t[i] = buffer[position + i]
      BY <2>2, <3>1
    <3>3. position + 1 <= Len(buffer) /\ 1 \in Nat
      BY <1>1
    <3>4. Part(buffer, position, 1) = t
      BY <1>1, <1>2, <3>1, <3>2, <3>3, PartIs, ZenonT(30)
    <3> QED
      BY <3>4 DEF t
  <2> QED
    BY <1>1, <2>3, <2>4, <2>5, <2>6, ByteFacts
<1>4. CASE ~ (At(1) < Long)
  <2>1. At(1) = Long /\ BytesLeft >= 4 /\ Declared >= Long
    BY <1>4 DEF HeaderRead
  <2>2. PICK x, y, z : x = At(2) /\ y = At(3) /\ z = At(4)
    OBVIOUS
  <2>3. 1 \in 1 .. BytesLeft /\ 2 \in 1 .. BytesLeft /\ 3 \in 1 .. BytesLeft /\ 4 \in 1 .. BytesLeft
    BY <1>1, <2>1
  <2>4. /\ x \in Byte /\ y \in Byte /\ z \in Byte /\ Long \in Byte
        /\ Long = buffer[position + 1] /\ x = buffer[position + 2]
        /\ y = buffer[position + 3] /\ z = buffer[position + 4]
    BY <2>1, <2>2, <2>3, AtByte, Zenon
  <2>5. PICK n : n = x + Base * y + Base * Base * z
    OBVIOUS
  <2>6. /\ n \in 0 .. MaxLength
        /\ n % Base = x /\ (n \div Base) % Base = y /\ n \div (Base * Base) = z
    BY <2>4, <2>5, LengthOfDigits
  <2>7. Declared = n /\ HeaderLen = 4
    BY <1>4, <2>2, <2>5, Zenon DEF Declared, HeaderLen
  <2>8. ~ (n < Long)
    BY <2>1, <2>6, <2>7, ByteFacts
  <2>9. HeaderSize(n) = 4 /\ HeaderBytes(n) = <<Long, x, y, z>>
    BY <2>6, <2>8, Zenon DEF HeaderSize, HeaderBytes
  <2>10. Part(buffer, position, 4) = <<Long, x, y, z>>
    <3> DEFINE t == <<Long, x, y, z>>
    <3>1. /\ t \in Seq(Byte) /\ Len(t) = 4
          /\ t[1] = Long /\ t[2] = x /\ t[3] = y /\ t[4] = z
      BY <2>4
    <3> HIDE DEF t
    <3>2. ASSUME NEW i \in 1 .. 4 PROVE t[i] = buffer[position + i]
      <4>1. i = 1 \/ i = 2 \/ i = 3 \/ i = 4
        OBVIOUS
      <4> QED
        BY <2>4, <3>1, <4>1, Zenon
    <3>3. position + 4 <= Len(buffer) /\ 4 \in Nat
      BY <1>1, <2>1
    <3>4. Part(buffer, position, 4) = t
      BY <1>1, <1>2, <3>1, <3>2, <3>3, PartIs, ZenonT(30)
    <3> QED
      BY <3>4 DEF t
  <2>11. position + 4 <= Len(buffer)
    BY <1>1, <2>1
  <2> QED
    BY <2>6, <2>7, <2>9, <2>10, <2>11, ByteFacts
<1> QED
  BY <1>3, <1>4

(* What a read takes off the buffer is what writing its value gives.       *)
Taken == SubSeq(buffer, position + HeaderLen + 1, position + HeaderLen + Declared)
Size == HeaderLen + Declared + PaddingLen

LEMMA ReadTakes ==
    ASSUME Cursor, HeaderRead, BytesLeft >= HeaderLen + Declared + PaddingLen,
           PaddingBytes \subseteq {0}
    PROVE  /\ Taken \in Fitting /\ Size \in Nat /\ position + Size <= Len(buffer)
           /\ Part(buffer, position, Size) = Encoding(Taken)
<1>1. PICK h, n, p : h = HeaderLen /\ n = Declared /\ p = PaddingLen
  OBVIOUS
<1>2. /\ n \in 0 .. MaxLength /\ h = HeaderSize(n) /\ h \in {1, 4}
      /\ Part(buffer, position, h) = HeaderBytes(n)
  BY <1>1, HeaderFacts, Zenon
<1>3. /\ n \in Nat /\ h \in Nat /\ n <= MaxLength /\ buffer \in Seq(Byte)
      /\ position \in Nat /\ Len(buffer) \in Nat
  BY <1>2 DEF Cursor
<1>4. p = Padding(h, n)
  BY <1>1, Zenon DEF PaddingLen
<1>5. p \in Nat /\ Zeros(p) \in Seq(Byte) /\ Len(Zeros(p)) = p
  BY <1>3, <1>4, PaddingFacts
<1>6. position + (h + n + p) <= Len(buffer)
  BY <1>1, <1>3, <1>5 DEF BytesLeft
<1>7. PICK v : v = Part(buffer, position + h, n)
  OBVIOUS
<1>8. v \in Seq(Byte) /\ Len(v) = n
  <2>1. position + h \in Nat /\ (position + h) + n <= Len(buffer)
    BY <1>3, <1>5, <1>6
  <2> QED
    BY <1>3, <1>7, <2>1, PartProperties
<1>9. Taken = v
  BY <1>1, <1>7, Zenon DEF Taken, Part
<1>10. v \in Fitting /\ PaddingOf(v) = p
  BY <1>2, <1>3, <1>4, <1>8 DEF Fitting, PaddingOf
<1>11. Part(buffer, position + (h + n), p) = Zeros(p)
  <2>1. position + (h + n) \in Nat /\ (position + (h + n)) + p <= Len(buffer)
    BY <1>3, <1>5, <1>6
  <2>2. ASSUME NEW i \in 1 .. p PROVE Zeros(p)[i] = buffer[(position + (h + n)) + i]
    <3>1. /\ h + n + i \in h + n + 1 .. h + n + p
          /\ position + (h + n + i) = (position + (h + n)) + i
      BY <1>3, <1>5
    <3>2. At(h + n + i) \in PaddingBytes
      BY <1>1, <3>1, Zenon DEF PaddingBytes
    <3>3. At(h + n + i) = 0
      BY <3>2
    <3>4. At(h + n + i) = buffer[(position + (h + n)) + i]
      BY <3>1, Zenon DEF At
    <3>5. Zeros(p)[i] = 0
      BY <1>5 DEF Zeros
    <3> QED
      BY <3>3, <3>4, <3>5
  <2> QED
    BY <1>3, <1>5, <2>1, <2>2, PartIs, SMTT(30)
<1>12. Part(buffer, position, h) \o Part(buffer, position + h, n) = Part(buffer, position, h + n)
  <2>1. position + h + n <= Len(buffer)
    BY <1>3, <1>5, <1>6
  <2> QED
    BY <1>3, <2>1, PartsJoin
<1>13. Part(buffer, position, h + n) \o Part(buffer, position + (h + n), p)
         = Part(buffer, position, (h + n) + p)
  <2>1. position + (h + n) + p <= Len(buffer) /\ h + n \in Nat
    BY <1>3, <1>5, <1>6
  <2> QED
    BY <1>3, <1>5, <2>1, PartsJoin
<1>14. Encoding(v) = (HeaderBytes(n) \o v) \o Zeros(p)
  BY <1>8, <1>10, EncodingIs, Zenon
<1>15. Part(buffer, position, h + n + p) = Encoding(v)
  BY <1>2, <1>7, <1>11, <1>12, <1>13, <1>14, Zenon
<1>16. Size = h + n + p /\ h + n + p \in Nat
  BY <1>1, <1>3, <1>5 DEF Size
<1> QED
  BY <1>6, <1>9, <1>10, <1>15, <1>16, Zenon

(* Where the encoding of a value is in the buffer, a read takes the value  *)
(* and nothing else.                                                       *)
StandsAt(v) ==
    /\ position + Len(Encoding(v)) <= Len(buffer)
    /\ \A i \in 1 .. Len(Encoding(v)) : buffer[position + i] = Encoding(v)[i]

LEMMA ReadBack ==
    ASSUME Cursor, NEW v \in Fitting, StandsAt(v)
    PROVE  /\ HeaderRead /\ Declared = Len(v) /\ Declared \in Nat
           /\ HeaderLen \in Nat /\ PaddingLen \in Nat
           /\ (At(1) < Long \/ (At(1) = Long /\ BytesLeft >= 4 /\ Declared >= Long))
           /\ BytesLeft >= HeaderLen + Declared + PaddingLen
           /\ PaddingBytes \subseteq {0} /\ Taken = v
<1>1. PICK h, n, p, e :
         h = HeaderSize(Len(v)) /\ n = Len(v) /\ p = PaddingOf(v) /\ e = Encoding(v)
  BY Zenon
<1>2. /\ Encoding(v) \in Seq(Byte)
      /\ Len(Encoding(v)) = HeaderSize(Len(v)) + Len(v) + PaddingOf(v)
      /\ \A i \in 1 .. HeaderSize(Len(v)) : Encoding(v)[i] = HeaderBytes(Len(v))[i]
      /\ \A i \in 1 .. Len(v) : Encoding(v)[HeaderSize(Len(v)) + i] = v[i]
      /\ \A i \in 1 .. PaddingOf(v) : Encoding(v)[HeaderSize(Len(v)) + Len(v) + i] = 0
  BY EncodingBytes
<1>3. /\ e \in Seq(Byte) /\ Len(e) = h + n + p
      /\ \A i \in 1 .. h : e[i] = HeaderBytes(n)[i]
      /\ \A i \in 1 .. n : e[h + i] = v[i]
      /\ \A i \in 1 .. p : e[h + n + i] = 0
  BY <1>1, <1>2, Zenon
<1>4. /\ v \in Seq(Byte) /\ n \in 0 .. MaxLength /\ p \in Nat /\ h \in {1, 4}
  BY <1>1, EncodingIs, Zenon
<1>5. /\ n \in Nat /\ h \in Nat /\ buffer \in Seq(Byte)
      /\ position \in Nat /\ Len(buffer) \in Nat
      /\ position + (h + n + p) <= Len(buffer) /\ BytesLeft = Len(buffer) - position
      /\ \A i \in 1 .. h + n + p : buffer[position + i] = e[i]
  <2>1. n \in Nat /\ h \in Nat /\ buffer \in Seq(Byte) /\ position \in Nat /\ Len(buffer) \in Nat
    BY <1>4 DEF Cursor
  <2>2. Len(Encoding(v)) = h + n + p
    BY <1>1, <1>3, Zenon
  <2>3. position + (h + n + p) <= Len(buffer)
    BY <2>2, Zenon DEF StandsAt
  <2>4. \A i \in 1 .. h + n + p : buffer[position + i] = e[i]
    BY <1>1, <2>2, Zenon DEF StandsAt
  <2> QED
    BY <2>1, <2>3, <2>4 DEF BytesLeft
<1>6. \A i \in 1 .. h : At(i) = HeaderBytes(n)[i]
  <2>1. \A i \in 1 .. h : i \in 1 .. h + n + p
    BY <1>4, <1>5
  <2> QED
    BY <1>3, <1>5, <2>1, Zenon DEF At
<1>7. BytesLeft >= h + n + p
  BY <1>4, <1>5
<1>8. /\ Declared = n /\ HeaderLen = h
      /\ (At(1) < Long \/ (At(1) = Long /\ BytesLeft >= 4 /\ Declared >= Long))
  <2>1. CASE n < Long
    <3>1. h = 1 /\ HeaderBytes(n) = <<n>>
      BY <1>1, <2>1, Zenon DEF HeaderSize, HeaderBytes
    <3>2. At(1) = n
      BY <1>6, <3>1
    <3> QED
      BY <2>1, <3>1, <3>2, Zenon DEF Declared, HeaderLen
  <2>2. CASE ~ (n < Long)
    <3>1. PICK x, y, z : x = n % Base /\ y = (n \div Base) % Base /\ z = n \div (Base * Base)
      BY Zenon
    <3>2. h = 4 /\ HeaderBytes(n) = <<Long, x, y, z>>
      BY <1>1, <2>2, <3>1, Zenon DEF HeaderSize, HeaderBytes
    <3>3. At(1) = Long /\ At(2) = x /\ At(3) = y /\ At(4) = z
      BY <1>6, <3>2
    <3>4. n = x + Base * y + Base * Base * z
      BY <1>4, <3>1, LengthDigits
    <3>5. ~ (Long < Long) /\ n >= Long /\ BytesLeft >= 4
      BY <1>4, <1>5, <1>7, <2>2, <3>2, ByteFacts
    <3>6. Declared = n /\ HeaderLen = 4
      BY <3>3, <3>4, <3>5, Zenon DEF Declared, HeaderLen
    <3> QED
      BY <3>2, <3>3, <3>5, <3>6, Zenon
  <2> QED
    BY <2>1, <2>2
<1>9. PaddingLen = p
  BY <1>1, <1>8, Zenon DEF PaddingLen, PaddingOf
<1>10. HeaderRead
  <2>1. BytesLeft >= 1
    BY <1>4, <1>5, <1>7
  <2> QED
    BY <1>8, <2>1 DEF HeaderRead
<1>11. PaddingBytes \subseteq {0}
  <2>1. ASSUME NEW i \in h + n + 1 .. h + n + p PROVE At(i) = 0
    <3>1. i - (h + n) \in 1 .. p /\ h + n + (i - (h + n)) = i /\ i \in 1 .. h + n + p
      BY <1>4, <1>5
    <3>2. e[i] = 0
      BY <1>3, <3>1, Zenon
    <3> QED
      BY <1>5, <3>1, <3>2, Zenon DEF At
  <2> QED
    BY <1>8, <1>9, <2>1, Zenon DEF PaddingBytes
<1>12. Taken = v
  <2>1. position + h \in Nat /\ (position + h) + n <= Len(buffer)
    BY <1>4, <1>5
  <2>2. ASSUME NEW i \in 1 .. n PROVE v[i] = buffer[(position + h) + i]
    <3>1. h + i \in 1 .. h + n + p /\ position + (h + i) = (position + h) + i
      BY <1>4, <1>5
    <3>2. buffer[position + (h + i)] = e[h + i]
      BY <1>5, <3>1, Zenon
    <3> QED
      BY <1>3, <3>1, <3>2, Zenon
  <2>3. Part(buffer, position + h, n) = v
    <3>1. v \in Seq(Byte) /\ Len(v) = n /\ n \in Nat /\ buffer \in Seq(Byte)
      BY <1>1, <1>4, <1>5, Zenon
    <3> QED
      BY <2>1, <2>2, <3>1, PartIs
  <2> QED
    BY <1>8, <2>3, Zenon DEF Taken, Part
<1> QED
  BY <1>1, <1>4, <1>5, <1>7, <1>8, <1>9, <1>10, <1>11, <1>12, Zenon

-----------------------------------------------------------------------------
LEMMA PrefixOfConcat ==
    ASSUME NEW S, NEW s \in Seq(S), NEW t \in Seq(S)
    PROVE  IsPrefix(s, s \o t)
<1>1. /\ s \o t \in Seq(S) /\ Len(s \o t) = Len(s) + Len(t)
      /\ \A i \in 1 .. Len(s) + Len(t) :
            (s \o t)[i] = IF i <= Len(s) THEN s[i] ELSE t[i - Len(s)]
  BY ConcatProperties
<1>2. PICK u : u = s \o t
  OBVIOUS
<1>3. /\ u \in Seq(S) /\ Len(s) \in Nat /\ Len(s) <= Len(u)
      /\ \A i \in 1 .. Len(s) : s[i] = u[i]
  <2>1. Len(s) \in Nat /\ Len(t) \in Nat
    OBVIOUS
  <2>2. ASSUME NEW i \in 1 .. Len(s) PROVE s[i] = u[i]
    <3>1. i \in 1 .. Len(s) + Len(t) /\ i <= Len(s)
      BY <2>1
    <3> QED
      BY <1>1, <1>2, <3>1, Zenon
  <2> QED
    BY <1>1, <1>2, <2>1, <2>2
<1>4. SubSeq(s, 1, Len(s)) = SubSeq(u, 1, Len(s))
  BY <1>3
<1> QED
  BY <1>2, <1>3, <1>4 DEF IsPrefix

-----------------------------------------------------------------------------
(* The invariant of the values written and read.                           *)
BytesTypes ==
    /\ script \in Seq(Seq(Byte)) /\ decoded \in Seq(Fitting)
    /\ Cursor

Failures == {"full", "tooLong"}

WrittenSoFar ==
    status = "writing" =>
        /\ asked \in Seq(Fitting)
        /\ buffer = Encodings(asked) /\ Len(buffer) % 4 = 0
        /\ position = 0 /\ decoded = <<>>

Filled ==
    status = "full" => IsPrefix(buffer, Encodings(asked))

ReadBackSoFar ==
    asked # <<>> /\ status # "writing" /\ status \notin Failures =>
        /\ status = "reading"
        /\ asked \in Seq(Fitting)
        /\ buffer = Encodings(asked) /\ Len(buffer) % 4 = 0
        /\ Len(decoded) <= Len(asked) /\ decoded = SubSeq(asked, 1, Len(decoded))

BytesIInv == BytesTypes /\ WrittenSoFar /\ Filled /\ ReadBackSoFar /\ Canonical

LEMMA BytesInitially == BytesInit => BytesIInv
<1> SUFFICES ASSUME BytesInit PROVE BytesIInv
  OBVIOUS
<1>1. asked = <<>> /\ position = 0 /\ decoded = <<>>
  BY DEF BytesInit
<1>2. script \in Seq(Seq(Byte)) /\ buffer \in Seq(Byte)
  <2>1. <<>> \in Seq(Seq(Byte)) /\ <<>> \in Seq(Byte)
    OBVIOUS
  <2>2. /\ (script \in Scripts \/ script = <<>>)
        /\ (buffer \in Buffers \/ buffer = <<>>)
    BY DEF BytesInit
  <2>3. Scripts \subseteq Seq(Seq(Byte)) /\ Buffers \subseteq Seq(Byte)
    BY BytesAssumption, Zenon
  <2> QED
    BY <2>1, <2>2, <2>3, Zenon
<1>3. BytesTypes
  BY <1>1, <1>2 DEF BytesTypes, Cursor
<1>4. Encodings(<<>>) = <<>> /\ SubSeq(buffer, 1, 0) = <<>>
  BY <1>2, EncodingsEmpty
<1>5. Canonical
  BY <1>1, <1>4 DEF Canonical
<1>6. WrittenSoFar
  <2>1. status = "writing" => buffer = <<>>
    BY DEF BytesInit
  <2>2. Len(<<>>) % 4 = 0 /\ <<>> \in Seq(Fitting)
    OBVIOUS
  <2> QED
    BY <1>1, <1>4, <2>1, <2>2 DEF WrittenSoFar
<1>7. Filled /\ ReadBackSoFar
  BY <1>1 DEF BytesInit, Filled, ReadBackSoFar
<1> QED
  BY <1>3, <1>5, <1>6, <1>7 DEF BytesIInv

(* What a write leaves.                                                    *)
LEMMA AskedValue ==
    ASSUME BytesIInv, Asking
    PROVE  /\ Head(script) \in Seq(Byte) /\ script' \in Seq(Seq(Byte))
           /\ asked \in Seq(Fitting) /\ buffer = Encodings(asked) /\ buffer \in Seq(Byte)
           /\ Len(buffer) % 4 = 0 /\ asked' = Append(asked, Head(script))
           /\ position' = 0 /\ decoded' = <<>> /\ status = "writing"
           /\ (Len(Head(script)) <= MaxLength => Head(script) \in Fitting)
<1>1. status = "writing" /\ script # <<>> /\ script \in Seq(Seq(Byte))
  BY DEF Asking, BytesIInv, BytesTypes
<1>2. Head(script) \in Seq(Byte) /\ script' \in Seq(Seq(Byte))
  BY <1>1 DEF Asking
<1>3. /\ asked \in Seq(Fitting) /\ buffer = Encodings(asked) /\ Len(buffer) % 4 = 0
      /\ position = 0 /\ decoded = <<>>
  BY <1>1 DEF BytesIInv, WrittenSoFar
<1>4. buffer \in Seq(Byte)
  BY DEF BytesIInv, BytesTypes, Cursor
<1>5. asked' = Append(asked, Head(script)) /\ position' = position /\ decoded' = decoded
  BY DEF Asking
<1> QED
  BY <1>1, <1>2, <1>3, <1>4, <1>5 DEF Fitting

Aligned(s) == Len(s) % 4 = 0

LEMMA AlignedConcat ==
    ASSUME NEW S, NEW s \in Seq(S), NEW t \in Seq(S), Aligned(s), Aligned(t)
    PROVE  s \o t \in Seq(S) /\ Aligned(s \o t)
<1>1. s \o t \in Seq(S) /\ Len(s \o t) = Len(s) + Len(t)
  BY ConcatProperties
<1>2. Len(s) \in Nat /\ Len(t) \in Nat
  OBVIOUS
<1>3. PICK m \in Nat, n \in Nat : m = Len(s) /\ n = Len(t)
  BY <1>2
<1>4. m % 4 = 0 /\ n % 4 = 0
  BY <1>3 DEF Aligned
<1>5. (m + n) % 4 = 0
  BY <1>4
<1> QED
  BY <1>1, <1>3, <1>5 DEF Aligned

LEMMA WriteWholeKeeps == BytesIInv /\ WriteWhole => BytesIInv'
<1> SUFFICES ASSUME BytesIInv, WriteWhole PROVE BytesIInv'
  OBVIOUS
<1>1. PICK v : v = Head(script)
  OBVIOUS
<1>2. /\ v \in Fitting /\ script' \in Seq(Seq(Byte))
      /\ asked \in Seq(Fitting) /\ buffer = Encodings(asked) /\ buffer \in Seq(Byte)
      /\ Len(buffer) % 4 = 0 /\ asked' = Append(asked, v)
      /\ position' = 0 /\ decoded' = <<>> /\ status = "writing"
      /\ buffer' = buffer \o Encoding(v) /\ status' = status
  BY <1>1, AskedValue DEF WriteWhole
<1>3. asked' \in Seq(Fitting) /\ asked' # <<>>
  BY <1>2
<1>4. Encodings(asked') = buffer'
  BY <1>2, EncodingsAppend, Zenon
<1>5. buffer' \in Seq(Byte) /\ Len(buffer') % 4 = 0 /\ Len(buffer') \in Nat
  <2>1. PICK e : e = Encoding(v)
    OBVIOUS
  <2>2. e \in Seq(Byte) /\ Len(e) % 4 = 0
    BY <1>2, <2>1, EncodingBytes
  <2>3. buffer \in Seq(Byte) /\ Len(buffer) % 4 = 0
    BY <1>2
  <2>4. Aligned(buffer \o e) /\ buffer \o e \in Seq(Byte)
    BY <2>2, <2>3, AlignedConcat, Zenon DEF Aligned
  <2>5. buffer' = buffer \o e
    BY <1>2, <2>1, Zenon
  <2> QED
    <3>1. buffer' \in Seq(Byte) /\ Aligned(buffer')
      BY <2>4, <2>5, Zenon
    <3>2. Len(buffer') \in Nat
      BY <3>1
    <3> QED
      BY <3>1, <3>2, Zenon DEF Aligned
<1>6. BytesTypes'
  <2>1. <<>> \in Seq(Fitting)
    OBVIOUS
  <2> QED
    BY <1>2, <1>5, <2>1 DEF BytesTypes, Cursor
<1>7. WrittenSoFar'
  BY <1>2, <1>3, <1>4, <1>5, Zenon DEF WrittenSoFar
<1>8. Filled' /\ ReadBackSoFar' /\ Canonical'
  BY <1>2 DEF Filled, ReadBackSoFar, Canonical
<1> QED
  BY <1>6, <1>7, <1>8 DEF BytesIInv

LEMMA WritePartialKeeps == BytesIInv /\ WritePartial => BytesIInv'
<1> SUFFICES ASSUME BytesIInv, WritePartial PROVE BytesIInv'
  OBVIOUS
<1>1. PICK v : v = Head(script)
  OBVIOUS
<1>2. PICK n \in DOMAIN Pieces(v) : buffer' = buffer \o FlattenSeq(SubSeq(Pieces(v), 1, n - 1))
  BY <1>1, Zenon DEF WritePartial
<1>3. Asking /\ Len(v) <= MaxLength /\ status' = "full"
  BY <1>1 DEF WritePartial
<1>4. /\ v \in Fitting /\ script' \in Seq(Seq(Byte))
      /\ asked \in Seq(Fitting) /\ buffer = Encodings(asked) /\ buffer \in Seq(Byte)
      /\ asked' = Append(asked, v) /\ position' = 0 /\ decoded' = <<>>
  BY <1>1, <1>3, AskedValue
<1>5. asked' # <<>>
  BY <1>4
<1>6. Encodings(asked') = buffer \o Encoding(v)
  BY <1>4, EncodingsAppend, Zenon
<1>7. Pieces(v) \in Seq(Seq(Byte)) /\ Encoding(v) = FlattenSeq(Pieces(v))
  BY <1>4, EncodingIs, Zenon DEF Encoding
<1>8. PICK begin, rest \in Seq(Byte) :
         /\ begin = FlattenSeq(SubSeq(Pieces(v), 1, n - 1)) /\ begin \in Seq(Byte)
         /\ Encoding(v) = begin \o rest
  <2>1. PICK pieces : pieces = Pieces(v)
    OBVIOUS
  <2>2. n - 1 \in 0 .. Len(pieces) /\ pieces \in Seq(Seq(Byte))
    BY <1>2, <1>7, <2>1
  <2>3. /\ FlattenSeq(SubSeq(pieces, 1, n - 1)) \in Seq(Byte)
        /\ \E rest \in Seq(Byte) :
              FlattenSeq(pieces) = FlattenSeq(SubSeq(pieces, 1, n - 1)) \o rest
    BY <2>2, FlattenSplit
  <2> QED
    BY <1>7, <2>1, <2>3, Zenon
<1>9. buffer' = buffer \o begin
  BY <1>2, <1>8, Zenon
<1>10. buffer \o begin \in Seq(Byte) /\ buffer \o (begin \o rest) = (buffer \o begin) \o rest
  <2>1. buffer \o begin \in Seq(Byte)
    BY <1>4, <1>8
  <2>2. buffer \in Seq(Byte)
    BY <1>4
  <2>3. begin \in Seq(Byte)
    BY <1>8
  <2>4. (buffer \o begin) \o rest = buffer \o (begin \o rest)
    BY <2>2, <2>3, ConcatAssociative
  <2> QED
    BY <2>1, <2>4
<1>11. Filled'
  <2>1. IsPrefix(buffer', buffer' \o rest)
    BY <1>8, <1>9, <1>10, PrefixOfConcat, Zenon
  <2>2. Encodings(asked') = buffer' \o rest
    BY <1>6, <1>8, <1>9, <1>10, Zenon
  <2> QED
    BY <2>1, <2>2, Zenon DEF Filled
<1>12. BytesTypes'
  <2>1. <<>> \in Seq(Fitting) /\ buffer' \in Seq(Byte)
    BY <1>9, <1>10
  <2> QED
    BY <1>4, <2>1 DEF BytesTypes, Cursor
<1>13. WrittenSoFar' /\ ReadBackSoFar' /\ Canonical'
  BY <1>3 DEF WrittenSoFar, ReadBackSoFar, Canonical, Failures
<1> QED
  BY <1>11, <1>12, <1>13 DEF BytesIInv

LEMMA WriteTooLongKeeps == BytesIInv /\ WriteTooLong => BytesIInv'
<1> SUFFICES ASSUME BytesIInv, WriteTooLong PROVE BytesIInv'
  OBVIOUS
<1>1. status' = "tooLong" /\ buffer' = buffer /\ Asking
  BY DEF WriteTooLong
<1>2. script' \in Seq(Seq(Byte)) /\ buffer \in Seq(Byte) /\ position' = 0 /\ decoded' = <<>>
  BY <1>1, AskedValue
<1>3. <<>> \in Seq(Fitting)
  OBVIOUS
<1>4. BytesTypes'
  BY <1>1, <1>2, <1>3 DEF BytesTypes, Cursor
<1> QED
  BY <1>1, <1>4 DEF BytesIInv, WrittenSoFar, Filled, ReadBackSoFar, Canonical, Failures

LEMMA TurnKeeps == BytesIInv /\ Turn => BytesIInv'
<1> SUFFICES ASSUME BytesIInv, Turn PROVE BytesIInv'
  OBVIOUS
<1>1. /\ status = "writing" /\ status' = "reading" /\ script' = script /\ asked' = asked
      /\ buffer' = buffer /\ position' = position /\ decoded' = decoded
  BY DEF Turn
<1>2. /\ asked \in Seq(Fitting) /\ buffer = Encodings(asked) /\ Len(buffer) % 4 = 0
      /\ position = 0 /\ decoded = <<>> /\ buffer \in Seq(Byte)
  BY <1>1 DEF BytesIInv, WrittenSoFar, BytesTypes, Cursor
<1>3. BytesTypes'
  BY <1>1 DEF BytesIInv, BytesTypes, Cursor
<1>4. WrittenSoFar' /\ Filled'
  BY <1>1 DEF WrittenSoFar, Filled
<1>5. ReadBackSoFar'
  <2>1. Len(<<>>) = 0 /\ Len(asked) >= 0 /\ <<>> = SubSeq(asked, 1, 0)
    BY <1>2
  <2> QED
    BY <1>1, <1>2, <2>1 DEF ReadBackSoFar
<1>6. Canonical'
  <2>1. Encodings(<<>>) = <<>> /\ SubSeq(buffer, 1, 0) = <<>>
    BY <1>2, EncodingsEmpty
  <2> QED
    BY <1>1, <1>2, <2>1 DEF Canonical
<1> QED
  BY <1>3, <1>4, <1>5, <1>6 DEF BytesIInv

(* The next value asked stands at the cursor.                              *)
LEMMA NextWritten ==
    ASSUME BytesIInv, status = "reading", asked # <<>>, BytesLeft > 0
    PROVE  \E v \in Fitting : /\ StandsAt(v) /\ Len(decoded) < Len(asked)
                              /\ v = asked[Len(decoded) + 1]
<1>1. /\ asked \in Seq(Fitting) /\ buffer = Encodings(asked)
      /\ Len(decoded) <= Len(asked) /\ decoded = SubSeq(asked, 1, Len(decoded))
  BY DEF BytesIInv, ReadBackSoFar, Failures
<1>2. /\ decoded \in Seq(Fitting) /\ buffer \in Seq(Byte) /\ position \in 0 .. Len(buffer)
  BY DEF BytesIInv, BytesTypes, Cursor
<1>3. Encodings(decoded) = SubSeq(buffer, 1, position)
  BY DEF BytesIInv, Canonical
<1>4. position < Len(buffer) /\ position \in Nat /\ Len(buffer) \in Nat
      /\ Len(decoded) \in Nat /\ Len(asked) \in Nat
  BY <1>1, <1>2 DEF BytesLeft
<1>5. Len(SubSeq(buffer, 1, position)) = position
  BY <1>2, <1>4
<1>6. Len(decoded) < Len(asked)
  <2>1. SUFFICES ASSUME Len(decoded) = Len(asked) PROVE FALSE
    BY <1>1, <1>4
  <2>2. decoded = asked
    <3>1. SubSeq(asked, 1, Len(asked)) = asked
      BY <1>1
    <3> QED
      BY <1>1, <2>1, <3>1, Zenon
  <2>3. Len(buffer) = position
    BY <1>1, <1>3, <1>5, <2>2, ZenonT(30)
  <2> QED
    BY <1>4, <2>3
<1>7. PICK k \in Nat : k = Len(decoded) /\ k < Len(asked) /\ SubSeq(asked, 1, k) = decoded
  BY <1>1, <1>4, <1>6
<1>8. /\ asked[k + 1] \in Fitting
      /\ \E rest \in Seq(Byte) :
            Encodings(asked) = (Encodings(SubSeq(asked, 1, k)) \o Encoding(asked[k + 1])) \o rest
      /\ Encodings(SubSeq(asked, 1, k)) \in Seq(Byte)
  BY <1>1, <1>7, EncodingsSplit
<1>9. PICK v \in Fitting, rest \in Seq(Byte), begin \in Seq(Byte) :
         /\ v = asked[k + 1] /\ begin = Encodings(decoded)
         /\ buffer = (begin \o Encoding(v)) \o rest
  BY <1>1, <1>7, <1>8, Zenon
<1>10. Len(begin) = position
  BY <1>3, <1>5, <1>9, Zenon
<1>11. PICK e \in Seq(Byte) : e = Encoding(v)
  BY EncodingBytes
<1>12. PICK longer \in Seq(Byte) :
          /\ longer = begin \o e /\ Len(longer) = position + Len(e)
          /\ \A i \in 1 .. Len(begin) + Len(e) :
                longer[i] = IF i <= Len(begin) THEN begin[i] ELSE e[i - Len(begin)]
  <2>1. /\ begin \o e \in Seq(Byte) /\ Len(begin \o e) = Len(begin) + Len(e)
        /\ \A i \in 1 .. Len(begin) + Len(e) :
              (begin \o e)[i] = IF i <= Len(begin) THEN begin[i] ELSE e[i - Len(begin)]
    BY ConcatProperties
  <2> QED
    BY <1>10, <2>1
<1>13. /\ buffer = longer \o rest /\ Len(buffer) = Len(longer) + Len(rest)
       /\ \A i \in 1 .. Len(longer) + Len(rest) :
             buffer[i] = IF i <= Len(longer) THEN longer[i] ELSE rest[i - Len(longer)]
  <2>1. buffer = longer \o rest
    BY <1>9, <1>11, <1>12, Zenon
  <2>2. /\ Len(longer \o rest) = Len(longer) + Len(rest)
        /\ \A i \in 1 .. Len(longer) + Len(rest) :
              (longer \o rest)[i]
                = IF i <= Len(longer) THEN longer[i] ELSE rest[i - Len(longer)]
    BY ConcatProperties
  <2> QED
    BY <2>1, <2>2, Zenon
<1>14. Len(e) \in Nat /\ Len(rest) \in Nat
  OBVIOUS
<1>15. ASSUME NEW i \in 1 .. Len(e) PROVE buffer[position + i] = e[i]
  <2>1. /\ position + i \in 1 .. Len(longer) + Len(rest) /\ position + i <= Len(longer)
        /\ position + i \in 1 .. Len(begin) + Len(e) /\ ~ (position + i <= Len(begin))
        /\ (position + i) - Len(begin) = i
    BY <1>4, <1>10, <1>12, <1>14
  <2>2. buffer[position + i] = longer[position + i]
    BY <1>13, <2>1, Zenon
  <2>3. longer[position + i] = e[(position + i) - Len(begin)]
    BY <1>12, <2>1, Zenon
  <2> QED
    BY <2>1, <2>2, <2>3, Zenon
<1>16. position + Len(e) <= Len(buffer)
  BY <1>4, <1>12, <1>13, <1>14
<1>17. StandsAt(v)
  BY <1>11, <1>15, <1>16, Zenon DEF StandsAt
<1> QED
  BY <1>6, <1>7, <1>9, <1>17, Zenon

(* Reading what was written fails in no way.                               *)
LEMMA NoFailedRead ==
    ASSUME BytesIInv, asked # <<>>, ReadCut \/ ReadNonCanonical \/ ReadDirtyPadding
    PROVE  FALSE
<1>1. status = "reading" /\ BytesLeft > 0
  BY DEF ReadCut, ReadNonCanonical, ReadDirtyPadding, Reading
<1>2. PICK v \in Fitting : StandsAt(v)
  BY <1>1, NextWritten
<1>3. Cursor
  BY DEF BytesIInv, BytesTypes
<1>4. /\ Declared \in Nat /\ HeaderLen \in Nat /\ PaddingLen \in Nat
      /\ (At(1) < Long \/ (At(1) = Long /\ BytesLeft >= 4 /\ Declared >= Long))
      /\ BytesLeft >= HeaderLen + Declared + PaddingLen
      /\ PaddingBytes \subseteq {0}
  BY <1>2, <1>3, ReadBack
<1>5. BytesLeft \in Nat /\ Long \in Nat /\ At(1) \in Nat
  <2>1. BytesLeft \in Nat
    BY <1>3 DEF Cursor, BytesLeft
  <2>2. 1 \in 1 .. BytesLeft
    BY <1>1, <2>1
  <2>3. At(1) \in Nat
    BY <1>3, <2>2, AtByte
  <2> QED
    BY <2>1, <2>3, ByteFacts
<1>6. CASE ReadCut
  <2>1. \/ At(1) = Long /\ BytesLeft < 4
        \/ BytesLeft < HeaderLen + Declared
        \/ BytesLeft < HeaderLen + Declared + PaddingLen
    BY <1>6 DEF ReadCut
  <2> QED
    BY <1>4, <1>5, <2>1
<1>7. CASE ReadNonCanonical
  <2>1. At(1) > Long \/ (At(1) = Long /\ Declared < Long)
    BY <1>7 DEF ReadNonCanonical
  <2> QED
    BY <1>4, <1>5, <2>1
<1>8. CASE ReadDirtyPadding
  BY <1>4, <1>8 DEF ReadDirtyPadding
<1> QED
  BY <1>6, <1>7, <1>8

LEMMA ReadKeeps == BytesIInv /\ Read => BytesIInv'
<1> SUFFICES ASSUME BytesIInv, Read PROVE BytesIInv'
  OBVIOUS
<1>1. /\ status = "reading" /\ BytesLeft > 0 /\ HeaderRead
      /\ BytesLeft >= HeaderLen + Declared + PaddingLen /\ PaddingBytes \subseteq {0}
      /\ decoded' = Append(decoded, Taken) /\ position' = position + HeaderLen + Declared + PaddingLen
      /\ status' = status /\ script' = script /\ asked' = asked /\ buffer' = buffer
  BY DEF Read, Reading, Taken
<1>2. /\ Cursor /\ decoded \in Seq(Fitting) /\ script \in Seq(Seq(Byte))
      /\ buffer \in Seq(Byte) /\ position \in Nat /\ Len(buffer) \in Nat
      /\ position \in 0 .. Len(buffer)
      /\ Encodings(decoded) = SubSeq(buffer, 1, position)
  BY <1>1 DEF BytesIInv, BytesTypes, Cursor, Canonical
<1>3. PICK v \in Fitting, size \in Nat :
         /\ v = Taken /\ size = Size /\ position + size <= Len(buffer)
         /\ Part(buffer, position, size) = Encoding(v)
  BY <1>1, <1>2, ReadTakes, Zenon
<1>4. position' = position + size
  <2>1. HeaderLen \in Nat /\ Declared \in Nat
    BY <1>1, <1>2, HeaderFacts
  <2>2. PaddingLen \in Nat
    BY <2>1, PaddingFacts, Zenon DEF PaddingLen
  <2> QED
    BY <1>1, <1>2, <1>3, <2>1, <2>2 DEF Size
<1>5. decoded' \in Seq(Fitting) /\ decoded' = Append(decoded, v)
  BY <1>1, <1>2, <1>3
<1>6. BytesTypes'
  <2>1. (position + size) \in 0 .. Len(buffer)
    BY <1>2, <1>3
  <2> QED
    BY <1>1, <1>2, <1>4, <1>5, <2>1 DEF BytesTypes, Cursor
<1>7. Canonical'
  <2>1. Encodings(Append(decoded, v)) = Encodings(decoded) \o Encoding(v)
    BY <1>2, EncodingsAppend
  <2>2. Part(buffer, 0, position) \o Part(buffer, 0 + position, size) = Part(buffer, 0, position + size)
    <3>1. buffer \in Seq(Byte) /\ position \in Nat /\ 0 \in Nat
      BY <1>2
    <3>2. 0 + position + size <= Len(buffer)
      BY <1>2, <1>3
    <3> QED
      BY <3>1, <3>2, PartsJoin
  <2>3. 0 + position = position /\ 0 + 1 = 1 /\ 0 + (position + size) = position + size
    BY <1>2
  <2>4. Encodings(decoded) = Part(buffer, 0, position)
    BY <1>2, <2>3, Zenon DEF Part
  <2>5. Encodings(Append(decoded, v)) = Part(buffer, 0, position + size)
    BY <1>3, <2>1, <2>2, <2>3, <2>4, Zenon
  <2>6. Encodings(Append(decoded, v)) = SubSeq(buffer, 1, position + size)
    BY <2>3, <2>5, Zenon DEF Part
  <2> QED
    BY <1>1, <1>4, <1>5, <2>6, Zenon DEF Canonical
<1>8. WrittenSoFar' /\ Filled'
  BY <1>1 DEF WrittenSoFar, Filled
<1>9. ReadBackSoFar'
  <2>1. SUFFICES ASSUME asked # <<>> PROVE ReadBackSoFar'
    BY <1>1 DEF ReadBackSoFar
  <2>2. PICK w \in Fitting :
           StandsAt(w) /\ Len(decoded) < Len(asked) /\ w = asked[Len(decoded) + 1]
    BY <1>1, <2>1, NextWritten
  <2>3. Taken = w
    BY <1>2, <2>2, ReadBack
  <2>4. /\ asked \in Seq(Fitting) /\ buffer = Encodings(asked) /\ Len(buffer) % 4 = 0
        /\ decoded = SubSeq(asked, 1, Len(decoded))
    BY <1>1, <2>1 DEF BytesIInv, ReadBackSoFar, Failures
  <2>5. PICK k \in Nat : k = Len(decoded) /\ k < Len(asked)
    BY <1>2, <2>2
  <2>6. Append(SubSeq(asked, 1, k), asked[k + 1]) = SubSeq(asked, 1, k + 1)
    BY <2>4, <2>5
  <2>7. decoded' = SubSeq(asked, 1, k + 1)
    BY <1>3, <1>5, <2>2, <2>3, <2>4, <2>5, <2>6, Zenon
  <2>8. Len(decoded') = k + 1 /\ k + 1 <= Len(asked)
    BY <2>4, <2>5, <2>7
  <2> QED
    BY <1>1, <2>4, <2>7, <2>8 DEF ReadBackSoFar
<1> QED
  BY <1>6, <1>7, <1>8, <1>9 DEF BytesIInv

LEMMA StopKeeps ==
    ASSUME BytesIInv, Reading, NEW error \in {"NeedMore", "InvalidLength", "InvalidPacket"},
           NEW moved \in Nat, position + moved <= Len(buffer), Stop(error, moved), asked = <<>>
    PROVE  BytesIInv'
<1>1. /\ status' = error /\ position' = position + moved /\ decoded' = decoded
      /\ script' = script /\ asked' = asked /\ buffer' = buffer
  BY DEF Stop, Reading
<1>2. error # "writing" /\ error # "full" /\ error # "reading"
  OBVIOUS
<1>3. BytesTypes'
  <2>1. /\ script \in Seq(Seq(Byte)) /\ decoded \in Seq(Fitting) /\ buffer \in Seq(Byte)
        /\ position \in 0 .. Len(buffer)
    BY DEF BytesIInv, BytesTypes, Cursor
  <2>2. position + moved \in 0 .. Len(buffer)
    BY <2>1
  <2> QED
    BY <1>1, <2>1, <2>2 DEF BytesTypes, Cursor
<1>4. WrittenSoFar' /\ Filled' /\ ReadBackSoFar' /\ Canonical'
  BY <1>1, <1>2 DEF WrittenSoFar, Filled, ReadBackSoFar, Canonical
<1> QED
  BY <1>3, <1>4 DEF BytesIInv

LEMMA FailedReadKeeps ==
    BytesIInv /\ (ReadCut \/ ReadNonCanonical \/ ReadDirtyPadding) => BytesIInv'
<1> SUFFICES ASSUME BytesIInv, ReadCut \/ ReadNonCanonical \/ ReadDirtyPadding
             PROVE  BytesIInv'
  OBVIOUS
<1>1. asked = <<>>
  BY NoFailedRead
<1>2. Reading /\ BytesLeft > 0 /\ Cursor
  BY DEF ReadCut, ReadNonCanonical, ReadDirtyPadding, Reading, BytesIInv, BytesTypes
<1>3. /\ position \in Nat /\ Len(buffer) \in Nat /\ BytesLeft = Len(buffer) - position
      /\ BytesLeft \in Nat
  BY <1>2 DEF Cursor, BytesLeft
<1>4. HeaderRead => /\ Declared \in Nat /\ HeaderLen \in Nat /\ PaddingLen \in Nat
                    /\ position + HeaderLen <= Len(buffer)
  <2>1. SUFFICES ASSUME HeaderRead
                 PROVE  /\ Declared \in Nat /\ HeaderLen \in Nat /\ PaddingLen \in Nat
                        /\ position + HeaderLen <= Len(buffer)
    OBVIOUS
  <2>2. /\ Declared \in Nat /\ HeaderLen \in Nat /\ position + HeaderLen <= Len(buffer)
    BY <1>2, <2>1, HeaderFacts
  <2>3. PaddingLen \in Nat
    BY <2>2, PaddingFacts, Zenon DEF PaddingLen
  <2> QED
    BY <2>2, <2>3
<1>5. \E error \in {"NeedMore", "InvalidLength", "InvalidPacket"}, moved \in Nat :
         position + moved <= Len(buffer) /\ Stop(error, moved)
  <2>1. CASE ReadCut
    <3>1. CASE At(1) = Long /\ BytesLeft < 4 /\ Stop("NeedMore", 1)
      <4>1. position + 1 <= Len(buffer) /\ 1 \in Nat
        BY <1>2, <1>3
      <4> QED
        BY <3>1, <4>1, Zenon
    <3>2. CASE HeaderRead /\ BytesLeft < HeaderLen + Declared /\ Stop("NeedMore", HeaderLen)
      BY <1>4, <3>2, Zenon
    <3>3. CASE /\ HeaderRead /\ BytesLeft >= HeaderLen + Declared
               /\ Stop("NeedMore", HeaderLen + Declared)
      <4>1. position + (HeaderLen + Declared) <= Len(buffer) /\ HeaderLen + Declared \in Nat
        BY <1>3, <1>4, <3>3
      <4> QED
        BY <3>3, <4>1, Zenon
    <3> QED
      BY <2>1, <3>1, <3>2, <3>3, Zenon DEF ReadCut
  <2>2. CASE ReadNonCanonical
    <3>1. CASE Stop("InvalidLength", 1)
      <4>1. position + 1 <= Len(buffer) /\ 1 \in Nat
        BY <1>2, <1>3
      <4> QED
        BY <3>1, <4>1, Zenon
    <3>2. CASE BytesLeft >= 4 /\ Stop("InvalidLength", 4)
      <4>1. position + 4 <= Len(buffer) /\ 4 \in Nat
        BY <1>3, <3>2
      <4> QED
        BY <3>2, <4>1, Zenon
    <3> QED
      BY <2>2, <3>1, <3>2, Zenon DEF ReadNonCanonical
  <2>3. CASE ReadDirtyPadding
    <3>1. /\ HeaderRead /\ BytesLeft >= HeaderLen + Declared + PaddingLen
          /\ Stop("InvalidPacket", HeaderLen + Declared + PaddingLen)
      BY <2>3, Zenon DEF ReadDirtyPadding
    <3>2. /\ position + (HeaderLen + Declared + PaddingLen) <= Len(buffer)
          /\ HeaderLen + Declared + PaddingLen \in Nat
      BY <1>3, <1>4, <3>1
    <3> QED
      BY <3>1, <3>2, Zenon
  <2> QED
    BY <2>1, <2>2, <2>3
<1> QED
  BY <1>1, <1>2, <1>5, StopKeeps, Zenon

LEMMA BytesInvariant == BytesSpec => []BytesIInv
<1>1. BytesIInv /\ [BytesNext]_bytesVars => BytesIInv'
  <2> SUFFICES ASSUME BytesIInv, [BytesNext]_bytesVars PROVE BytesIInv'
    OBVIOUS
  <2>1. CASE WriteWhole
    BY <2>1, WriteWholeKeeps
  <2>2. CASE WritePartial
    BY <2>2, WritePartialKeeps
  <2>3. CASE WriteTooLong
    BY <2>3, WriteTooLongKeeps
  <2>4. CASE Turn
    BY <2>4, TurnKeeps
  <2>5. CASE Read
    BY <2>5, ReadKeeps
  <2>6. CASE ReadCut \/ ReadNonCanonical \/ ReadDirtyPadding
    BY <2>6, FailedReadKeeps
  <2>7. CASE UNCHANGED bytesVars
    BY <2>7 DEF bytesVars, BytesIInv, BytesTypes, Cursor, WrittenSoFar, Filled, ReadBackSoFar,
                Canonical
  <2> QED
    BY <2>1, <2>2, <2>3, <2>4, <2>5, <2>6, <2>7 DEF BytesNext
<1> QED
  BY <1>1, BytesInitially, PTL DEF BytesSpec

(* What is in the buffer is the beginning of what the caller asked to      *)
(* write, and all of it in whole words as long as nothing failed           *)
(* (Writer::write_all and write_bytes in writer.rs).                       *)
THEOREM BytesPrefix == BytesSpec => []PrefixOfAsked
<1>1. BytesIInv => PrefixOfAsked
  <2> SUFFICES ASSUME BytesIInv, asked # <<>>
               PROVE  /\ status # "tooLong" => IsPrefix(buffer, Encodings(asked))
                      /\ status \in {"writing", "reading"} =>
                           buffer = Encodings(asked) /\ Len(buffer) % 4 = 0
    BY DEF PrefixOfAsked
  <2>1. buffer \in Seq(Byte)
    BY DEF BytesIInv, BytesTypes, Cursor
  <2>2. IsPrefix(buffer, buffer)
    BY <2>1 DEF IsPrefix
  <2>3. CASE status = "tooLong"
    BY <2>3
  <2>4. CASE status = "full"
    BY <2>4 DEF BytesIInv, Filled
  <2>5. CASE status = "writing"
    <3>1. buffer = Encodings(asked) /\ Len(buffer) % 4 = 0
      BY <2>5 DEF BytesIInv, WrittenSoFar
    <3> QED
      BY <2>2, <3>1
  <2>6. CASE status # "writing" /\ status \notin Failures
    <3>1. buffer = Encodings(asked) /\ Len(buffer) % 4 = 0
      BY <2>6 DEF BytesIInv, ReadBackSoFar
    <3> QED
      BY <2>2, <3>1
  <2> QED
    BY <2>3, <2>4, <2>5, <2>6 DEF Failures
<1> QED
  BY <1>1, BytesInvariant, PTL

(* Every value that was written is read back, in order, and no read of it  *)
(* fails (write_bytes in writer.rs, bytes in cursor.rs).                   *)
THEOREM BytesReadBack == BytesSpec => []ReadsWhatWasWritten
<1>1. BytesIInv => ReadsWhatWasWritten
  <2> SUFFICES ASSUME BytesIInv, asked # <<>>, status \notin {"writing", "full", "tooLong"}
               PROVE  /\ status = "reading" /\ IsPrefix(decoded, asked)
                      /\ position = Len(buffer) => decoded = asked
    BY DEF ReadsWhatWasWritten
  <2>1. /\ status = "reading" /\ asked \in Seq(Fitting) /\ buffer = Encodings(asked)
        /\ Len(decoded) <= Len(asked) /\ decoded = SubSeq(asked, 1, Len(decoded))
    BY DEF BytesIInv, ReadBackSoFar, Failures
  <2>2. decoded \in Seq(Fitting) /\ buffer \in Seq(Byte)
    BY DEF BytesIInv, BytesTypes, Cursor
  <2>3. IsPrefix(decoded, asked)
    <3>1. SubSeq(decoded, 1, Len(decoded)) = decoded
      BY <2>2
    <3> QED
      BY <2>1, <3>1, Zenon DEF IsPrefix
  <2>4. ASSUME position = Len(buffer) PROVE decoded = asked
    <3>1. CASE Len(decoded) = Len(asked)
      <4>1. SubSeq(asked, 1, Len(asked)) = asked
        BY <2>1
      <4> QED
        BY <2>1, <3>1, <4>1, Zenon
    <3>2. CASE Len(decoded) < Len(asked)
      <4>1. PICK k \in Nat : k = Len(decoded) /\ k < Len(asked) /\ SubSeq(asked, 1, k) = decoded
        <5>1. Len(decoded) \in Nat
          BY <2>2
        <5> QED
          BY <2>1, <3>2, <5>1, Zenon
      <4>2. Encodings(decoded) = buffer
        <5>1. Encodings(decoded) = SubSeq(buffer, 1, position)
          BY <2>1 DEF BytesIInv, Canonical
        <5>2. SubSeq(buffer, 1, Len(buffer)) = buffer
          BY <2>2
        <5> QED
          BY <2>4, <5>1, <5>2, Zenon
      <4>3. PICK rest \in Seq(Byte) :
               Encodings(asked) = (Encodings(SubSeq(asked, 1, k)) \o Encoding(asked[k + 1])) \o rest
        BY <2>1, <4>1, EncodingsSplit
      <4>4. asked[k + 1] \in Fitting
        BY <2>1, <4>1, EncodingsSplit
      <4>5. PICK e \in Seq(Byte) : e = Encoding(asked[k + 1]) /\ Len(e) >= 1
        BY <4>4, EncodingBytes
      <4>6. buffer = (buffer \o e) \o rest
        BY <2>1, <4>1, <4>2, <4>3, <4>5, Zenon
      <4>7. buffer \o e \in Seq(Byte) /\ Len(buffer \o e) = Len(buffer) + Len(e)
        BY <2>2, ConcatProperties
      <4>8. Len((buffer \o e) \o rest) = Len(buffer \o e) + Len(rest)
        BY <4>7, ConcatProperties
      <4>9. Len(buffer) \in Nat /\ Len(e) \in Nat /\ Len(rest) \in Nat
        BY <2>2
      <4>10. Len(buffer) = Len(buffer) + Len(e) + Len(rest)
        BY <4>6, <4>7, <4>8, Zenon
      <4> QED
        BY <4>5, <4>9, <4>10
    <3> QED
      BY <2>1, <2>2, <3>1, <3>2
  <2> QED
    BY <2>1, <2>3, <2>4
<1> QED
  BY <1>1, BytesInvariant, PTL

(* A value has one encoding: what a read of any buffer took is exactly     *)
(* what writing the values gives (bytes in cursor.rs).                     *)
THEOREM BytesCanonical == BytesSpec => []Canonical
<1>1. BytesIInv => Canonical
  BY DEF BytesIInv
<1> QED
  BY <1>1, BytesInvariant, PTL

-----------------------------------------------------------------------------
(* The session document.                                                   *)
Sealings == [secret : Secrets, salt : Salts, version : Versions, record : Records]

(* Wrote, of the call that is given.                                       *)
WroteFor(secret, document, s) ==
    /\ s.version = Version
    /\ KeyFor(secret, s.salt) = KeyFor(s.secret, s.salt)
    /\ SameText(document, Document(s))

Matches(secret, document, s) ==
    /\ KeyFor(secret, document.salt[2]) = KeyFor(s.secret, s.salt)
    /\ document.salt[2] = s.salt
    /\ Decoded(document.data) = Cipher(s)
    /\ document.tag[2] = TagOf(s)

-----------------------------------------------------------------------------
(* parse_record(encode_record(r)) = r, in a record of its own program.     *)
LEMMA RecordRoundTrip ==
    ASSUME NEW r \in SessionRecord, NEW version
    PROVE  /\ ParseRecord(EncodeRecord(version, r)) = r
           /\ Readable(EncodeRecord(version, r)) <=> version = Version
  <1>1. ParseRecord(EncodeRecord(version, r))
            = [dc_id |-> r.dc_id, auth_key_id |-> r.auth_key_id,
               server_salt |-> r.server_salt, session_id |-> r.session_id,
               sequence_number |-> r.sequence_number, pts |-> r.pts, qts |-> r.qts,
               date |-> r.date, seq |-> r.seq, unread_count |-> r.unread_count,
               auth_key |-> r.auth_key]
    BY DEF ParseRecord, EncodeRecord
  <1>2. ParseRecord(EncodeRecord(version, r)) = r
    BY <1>1 DEF SessionRecord
  <1>3. Readable(EncodeRecord(version, r)) <=> version = Version
    BY DEF Readable, EncodeRecord
  <1> QED  BY <1>2, <1>3

(* What encode_record writes are blocks.                                   *)
LEMMA EncodedBlocks ==
    ASSUME NEW r \in SessionRecord, NEW version \in Versions
    PROVE  /\ EncodeRecord(version, r) = [i \in 1 .. RecordLength |-> EncodeRecord(version, r)[i]]
           /\ \A i \in 1 .. RecordLength : EncodeRecord(version, r)[i] \in Block
  <1>1. /\ Magic \in Block /\ version \in Block
        /\ r.dc_id \in Block /\ r.auth_key_id \in Block /\ r.server_salt \in Block
        /\ r.session_id \in Block /\ r.sequence_number \in Block /\ r.pts \in Block
        /\ r.qts \in Block /\ r.date \in Block /\ r.seq \in Block
        /\ r.unread_count \in Block /\ r.auth_key \in Block
    BY DocumentAssumption DEF SessionRecord
  <1>2. EncodeRecord(version, r) \in [1 .. RecordLength -> Block]
    BY <1>1 DEF EncodeRecord, RecordLength
  <1> QED  BY <1>2

(* Counter mode undoes itself.                                             *)
LEMMA CtrUndoesItself ==
    ASSUME NEW key \in SessionKeys, NEW salt \in Salts, NEW data,
           data = [i \in 1 .. RecordLength |-> data[i]],
           \A i \in 1 .. RecordLength : data[i] \in Block
    PROVE  Ctr(key, salt, Ctr(key, salt, data)) = data
  <1> DEFINE mask(i) == Encrypt(StreamKey(key, salt), <<salt, i - 1>>)
  <1>1. \A i \in 1 .. RecordLength : Xor(Xor(data[i], mask(i)), mask(i)) = data[i]
    BY DocumentAssumption, StreamAssumption
  <1>2. Ctr(key, salt, data) = [i \in 1 .. RecordLength |-> Xor(data[i], mask(i))]
    BY DEF Ctr
  <1>3. Ctr(key, salt, Ctr(key, salt, data))
            = [i \in 1 .. RecordLength |-> Xor(Ctr(key, salt, data)[i], mask(i))]
    BY DEF Ctr
  <1> HIDE DEF mask
  <1>4. Ctr(key, salt, Ctr(key, salt, data)) = [i \in 1 .. RecordLength |-> data[i]]
    BY <1>1, <1>2, <1>3
  <1> QED  BY <1>4

(* Two tags are equal only of one key, one salt and one ciphertext.        *)
LEMMA TagsDiffer ==
    ASSUME NEW key, NEW salt, NEW cipher, NEW other, NEW saltOfOther, NEW cipherOfOther,
           Tag(key, salt, cipher) = Tag(other, saltOfOther, cipherOfOther)
    PROVE  key = other /\ salt = saltOfOther /\ cipher = cipherOfOther
  <1>1. /\ MacKey(key, salt) = MacKey(other, saltOfOther)
        /\ <<"TRLib-session-v1", salt, cipher>>
             = <<"TRLib-session-v1", saltOfOther, cipherOfOther>>
    BY DEF Tag, Hmac
  <1>2. salt = saltOfOther /\ cipher = cipherOfOther
    BY <1>1
  <1>3. key = other
    BY <1>1 DEF MacKey, Hmac
  <1> QED  BY <1>2, <1>3

(* Every text that arrives carries the tag of some sealed document.        *)
LEMMA ArrivingTags ==
    ASSUME NEW document \in Arrivals
    PROVE  \E s \in sealed : document.tag[2] = TagOf(s)
  <1> DEFINE accepted == {Document(s) : s \in sealed}
  <1> DEFINE whole == [whole : {TRUE}, framed : {TRUE}, salt : {a.salt : a \in accepted},
                       data : {Spliced(a, b, at) : a \in accepted, b \in accepted,
                                                   at \in 1 .. RecordLength},
                       tag : {a.tag : a \in accepted}]
  <1>1. \A a \in accepted : \E s \in sealed : a.tag = Hex(TagOf(s))
    BY DEF Document
  <1>2. \A a \in accepted : \E s \in sealed : a.tag[2] = TagOf(s)
    BY <1>1 DEF Hex
  <1>3. \A a \in accepted : /\ a.tag = Hex(a.tag[2])
                             /\ a = [whole |-> a.whole, framed |-> a.framed, salt |-> a.salt,
                                     data |-> a.data, tag |-> a.tag]
    BY DEF Document, Hex
  <1> DEFINE resalted == {[a EXCEPT !.salt = t] :
                              a \in accepted, t \in UNION {Edited(b.salt) : b \in accepted}}
  <1> DEFINE retagged == UNION {{[a EXCEPT !.tag = t] : t \in Edited(a.tag)} : a \in accepted}
  <1> DEFINE reblocked == UNION {{[a EXCEPT !.data[i] = t] : t \in Edited(a.data[i])} :
                                    a \in accepted, i \in 1 .. RecordLength}
  <1> DEFINE misshapen == {Misshapen(a, w) : a \in accepted, w \in BOOLEAN}
  <1>4. document \in whole \/ document \in resalted \/ document \in retagged
        \/ document \in reblocked \/ document \in misshapen
    <2>1. Arrivals = whole \cup resalted \cup retagged \cup reblocked \cup misshapen
      BY SMT DEF Arrivals
    <2> HIDE DEF accepted, whole, resalted, retagged, reblocked, misshapen
    <2> QED  BY <2>1
  <1>5. CASE document \in whole
    <2>1. document.tag \in {a.tag : a \in accepted}
      BY <1>5
    <2> QED  BY <2>1, <1>2
  <1>6. CASE document \in resalted
    <2>1. PICK a \in accepted, t \in UNION {Edited(b.salt) : b \in accepted} :
              document = [a EXCEPT !.salt = t]
      BY <1>6
    <2>2. document.tag = a.tag
      BY <2>1, <1>3
    <2> QED  BY <2>2, <1>2
  <1>7. CASE document \in retagged
    <2>1. PICK a \in accepted : document \in {[a EXCEPT !.tag = t] : t \in Edited(a.tag)}
      BY <1>7
    <2>2. PICK t \in Edited(a.tag) : document = [a EXCEPT !.tag = t]
      BY <2>1
    <2>3. document.tag = t
      BY <2>2, <1>3
    <2>4. t[2] = a.tag[2]
      BY DEF Edited
    <2> QED  BY <2>3, <2>4, <1>2
  <1>8. CASE document \in reblocked
    <2>1. PICK a \in accepted, i \in 1 .. RecordLength :
              document \in {[a EXCEPT !.data[i] = t] : t \in Edited(a.data[i])}
      BY <1>8
    <2>2. PICK t \in Edited(a.data[i]) : document = [a EXCEPT !.data[i] = t]
      BY <2>1
    <2>3. document.tag = a.tag
      BY <2>2, <1>3
    <2> QED  BY <2>3, <1>2
  <1>9. CASE document \in misshapen
    <2>1. PICK a \in accepted, w \in BOOLEAN : document = Misshapen(a, w)
      BY <1>9
    <2>2. document.tag = a.tag
      BY <2>1, <1>3 DEF Misshapen
    <2> QED  BY <2>2, <1>2
  <1> HIDE DEF accepted, whole, resalted, retagged, reblocked, misshapen
  <1> QED  BY <1>4, <1>5, <1>6, <1>7, <1>8, <1>9

-----------------------------------------------------------------------------
(* A text with its parts in hexadecimal is authentic exactly if it matches *)
(* a document that was sealed.                                             *)
LEMMA AuthenticMatches ==
    ASSUME NEW secret, NEW document \in Arrivals
    PROVE  Authentic(secret, document) <=> \E s \in sealed : Matches(secret, document, s)
  <1>1. ASSUME Authentic(secret, document)
        PROVE  \E s \in sealed : Matches(secret, document, s)
    <2>1. PICK s \in sealed : document.tag[2] = TagOf(s)
      BY ArrivingTags
    <2>2. Tag(KeyFor(secret, document.salt[2]), document.salt[2], Decoded(document.data))
            = Tag(KeyFor(s.secret, s.salt), s.salt, Cipher(s))
      BY <1>1, <2>1 DEF Authentic, TagOf
    <2>3. Matches(secret, document, s)
      BY <2>1, <2>2, TagsDiffer DEF Matches
    <2> QED  BY <2>3
  <1>2. ASSUME NEW s \in sealed, Matches(secret, document, s)
        PROVE  Authentic(secret, document)
    BY <1>2 DEF Matches, Authentic, TagOf
  <1> QED  BY <1>1, <1>2

(* It is decrypted to what was encoded.                                    *)
LEMMA MatchDecrypts ==
    ASSUME NEW secret, NEW document, NEW s \in Sealings, Matches(secret, document, s)
    PROVE  Decrypted(secret, document) = EncodeRecord(s.version, s.record)
  <1>1. /\ KeyFor(s.secret, s.salt) \in SessionKeys /\ s.salt \in Salts
        /\ s.record \in SessionRecord /\ s.version \in Versions
    BY DocumentAssumption DEF Sealings
  <1>2. Decrypted(secret, document) = Ctr(KeyFor(s.secret, s.salt), s.salt, Cipher(s))
    BY DEF Matches, Decrypted
  <1>3. Decrypted(secret, document)
          = Ctr(KeyFor(s.secret, s.salt), s.salt,
                Ctr(KeyFor(s.secret, s.salt), s.salt, EncodeRecord(s.version, s.record)))
    BY <1>2 DEF Cipher
  <1> QED  BY <1>1, <1>3, EncodedBlocks, CtrUndoesItself

(* A document's data, decoded, is its ciphertext.                          *)
LEMMA DocumentDecodes ==
    ASSUME NEW s
    PROVE  /\ Document(s).salt[2] = s.salt /\ Document(s).tag[2] = TagOf(s)
           /\ Decoded(Document(s).data) = Cipher(s)
  <1>1. Document(s).salt[2] = s.salt /\ Document(s).tag[2] = TagOf(s)
    BY DEF Document, Hex
  <1>2. Document(s).data = [i \in 1 .. RecordLength |-> <<"lower", Cipher(s)[i]>>]
    BY DEF Document, Hex
  <1>3. Decoded(Document(s).data) = [i \in 1 .. RecordLength |-> Cipher(s)[i]]
    BY <1>2 DEF Decoded
  <1>4. Cipher(s) = [i \in 1 .. RecordLength |-> Cipher(s)[i]]
    BY DEF Cipher, Ctr
  <1> QED  BY <1>1, <1>3, <1>4

(* Writing a document and matching it, once every text is hexadecimal.     *)
LEMMA WroteIsMatch ==
    ASSUME NEW secret, NEW document, NEW s
    PROVE  WroteFor(secret, document, s)
             <=> /\ s.version = Version /\ Matches(secret, document, s)
                 /\ document.whole /\ document.framed
                 /\ IsHex(document.salt) /\ AllHex(document)
  <1>1. ASSUME WroteFor(secret, document, s)
        PROVE  /\ s.version = Version /\ Matches(secret, document, s)
               /\ document.whole /\ document.framed
               /\ IsHex(document.salt) /\ AllHex(document)
    BY <1>1, DocumentDecodes DEF WroteFor, SameText, Matches
  <1>2. ASSUME s.version = Version, Matches(secret, document, s),
               document.whole, document.framed, IsHex(document.salt), AllHex(document)
        PROVE  WroteFor(secret, document, s)
    BY <1>2, DocumentDecodes DEF WroteFor, SameText, Matches
  <1> QED  BY <1>1, <1>2

-----------------------------------------------------------------------------
(* The sealed records are ones a host may save.                            *)
SealedTyped == sealed \subseteq Sealings

DocumentIInv == SealedTyped /\ OpensExactlyTheSealed

(* What the property says of an open's outcome.                            *)
Right(secret, document, room, outcome, got) ==
    /\ outcome = "ok" <=> room /\ \E s \in sealed : WroteFor(secret, document, s)
    /\ outcome = "ok" => \E s \in sealed : WroteFor(secret, document, s) /\ got = s.record

LEMMA RightIsEnough ==
    ASSUME NEW secret, NEW document, NEW room, SealedTyped,
           Opening(secret, document, room), Right(secret, document, room, result', record')
    PROVE  DocumentIInv'
  <1>1. /\ call'.op = "open" /\ call'.secret = secret /\ call'.document = document
        /\ call'.room = room /\ sealed' = sealed
    BY DEF Opening, Called
  <1>2. \A s : Wrote(s)' <=> WroteFor(secret, document, s)
    BY <1>1 DEF Wrote, WroteFor
  <1>3. OpensExactlyTheSealed'
    BY <1>1, <1>2, Zenon DEF OpensExactlyTheSealed, Right
  <1>4. SealedTyped'
    BY <1>1 DEF SealedTyped
  <1> QED  BY <1>3, <1>4 DEF DocumentIInv

LEMMA RefusedIsRight ==
    ASSUME SealedTyped, NEW secret, NEW document \in Arrivals, NEW room,
           OpenRefused(secret, document, room)
    PROVE  DocumentIInv'
  <1>1. result' # "ok" /\ Opening(secret, document, room)
    BY DEF OpenRefused, Fails
  <1>2. ~document.whole \/ ~room \/ Unframed(document)
    BY DEF OpenRefused
  <1>3. ~(room /\ \E s \in sealed : WroteFor(secret, document, s))
    BY <1>2, WroteIsMatch DEF Unframed
  <1>4. Right(secret, document, room, result', record')
    BY <1>1, <1>3 DEF Right
  <1> QED  BY <1>1, <1>4, RightIsEnough

LEMMA UnreadableIsRight ==
    ASSUME SealedTyped, NEW secret, NEW document \in Arrivals, NEW room,
           OpenUnreadable(secret, document, room)
    PROVE  DocumentIInv'
  <1>1. result' # "ok" /\ Opening(secret, document, room) /\ ~AllHex(document)
    BY DEF OpenUnreadable, Fails
  <1>2. ~(room /\ \E s \in sealed : WroteFor(secret, document, s))
    BY <1>1, WroteIsMatch
  <1>3. Right(secret, document, room, result', record')
    BY <1>1, <1>2 DEF Right
  <1> QED  BY <1>1, <1>3, RightIsEnough

LEMMA ForgedIsRight ==
    ASSUME SealedTyped, NEW secret, NEW document \in Arrivals, NEW room,
           OpenForged(secret, document, room)
    PROVE  DocumentIInv'
  <1>1. result' # "ok" /\ Opening(secret, document, room) /\ ~Authentic(secret, document)
    BY DEF OpenForged, Fails
  <1>2. ~(room /\ \E s \in sealed : WroteFor(secret, document, s))
    BY <1>1, WroteIsMatch, AuthenticMatches
  <1>3. Right(secret, document, room, result', record')
    BY <1>1, <1>2 DEF Right
  <1> QED  BY <1>1, <1>3, RightIsEnough

LEMMA AuthenticIsRight ==
    ASSUME SealedTyped,
           NEW secret, NEW document \in Arrivals, NEW room,
           OpenAuthentic(secret, document, room)
    PROVE  DocumentIInv'
  <1>1. /\ Opening(secret, document, room) /\ Authentic(secret, document)
        /\ AllHex(document) /\ room /\ document.whole /\ document.framed
        /\ IsHex(document.salt)
    BY DEF OpenAuthentic, Framed, Unframed
  <1>2. \A s \in sealed : Matches(secret, document, s) =>
            /\ ParseRecord(Decrypted(secret, document)) = s.record
            /\ Readable(Decrypted(secret, document)) <=> s.version = Version
    <2>1. ASSUME NEW s \in sealed, Matches(secret, document, s)
          PROVE  /\ ParseRecord(Decrypted(secret, document)) = s.record
                 /\ Readable(Decrypted(secret, document)) <=> s.version = Version
      <3>1. s \in Sealings /\ s.record \in SessionRecord
        BY DocumentAssumption DEF SealedTyped, Sealings
      <3>2. Decrypted(secret, document) = EncodeRecord(s.version, s.record)
        BY <3>1, <2>1, MatchDecrypts
      <3> QED  BY <3>1, <3>2, RecordRoundTrip
    <2> QED  BY <2>1
  <1>3. PICK s \in sealed : Matches(secret, document, s)
    BY <1>1, AuthenticMatches
  <1>4. CASE Readable(Decrypted(secret, document))
    <2>1. result' = "ok" /\ record' = ParseRecord(Decrypted(secret, document))
      BY <1>4 DEF OpenAuthentic
    <2>2. WroteFor(secret, document, s) /\ record' = s.record
      BY <1>1, <1>2, <1>3, <1>4, <2>1, WroteIsMatch
    <2> QED  BY <1>1, <2>1, <2>2, RightIsEnough DEF Right
  <1>5. CASE ~Readable(Decrypted(secret, document))
    <2>1. result' = "InvalidPacket"
      BY <1>5 DEF OpenAuthentic, Fails
    <2>2. \A other \in sealed : ~WroteFor(secret, document, other)
      BY <1>2, <1>5, WroteIsMatch
    <2>3. Right(secret, document, room, result', record')
      BY <2>1, <2>2 DEF Right
    <2> QED  BY <1>1, <2>3, RightIsEnough
  <1> QED  BY <1>4, <1>5

LEMMA SealKeepsDocument ==
    ASSUME SealedTyped, NEW secret \in Secrets, NEW salt \in Salts,
           NEW version \in Versions, NEW r \in Records, NEW fits,
           Seal(secret, salt, version, r, fits)
    PROVE  DocumentIInv'
  <1>1. call'.op = "seal"
    BY DEF Seal, Called
  <1>2. [secret |-> secret, salt |-> salt, version |-> version, record |-> r] \in Sealings
    BY DEF Sealings
  <1>3. sealed' = sealed \cup
                    {[secret |-> secret, salt |-> salt, version |-> version, record |-> r]}
    BY DEF Seal
  <1>4. SealedTyped'
    BY <1>2, <1>3 DEF SealedTyped
  <1> QED  BY <1>1, <1>4 DEF DocumentIInv, OpensExactlyTheSealed

LEMMA StepKeepsDocument ==
    ASSUME DocumentIInv, [Next]_vars
    PROVE  DocumentIInv'
  <1>1. SealedTyped
    BY DEF DocumentIInv
  <1>2. CASE \E secret \in Secrets, salt \in Salts, version \in Versions, r \in Records,
               fits \in BOOLEAN : Seal(secret, salt, version, r, fits)
    BY <1>1, <1>2, SealKeepsDocument
  <1>3. CASE \E secret \in Secrets : SealWithoutRoom(secret)
    <2>1. call'.op = "seal" /\ sealed' = sealed
      BY <1>3 DEF SealWithoutRoom, Called
    <2> QED  BY <1>1, <2>1 DEF DocumentIInv, SealedTyped, OpensExactlyTheSealed
  <1>4. CASE \E secret \in Secrets, document \in Arrivals, room \in BOOLEAN :
                Open(secret, document, room)
    <2>1. PICK secret \in Secrets, document \in Arrivals, room \in BOOLEAN :
              Open(secret, document, room)
      BY <1>4
    <2>2. CASE OpenRefused(secret, document, room)
      BY <1>1, <2>2, RefusedIsRight
    <2>3. CASE OpenUnreadable(secret, document, room)
      BY <1>1, <2>3, UnreadableIsRight
    <2>4. CASE OpenForged(secret, document, room)
      BY <1>1, <2>4, ForgedIsRight
    <2>5. CASE OpenAuthentic(secret, document, room)
      BY <1>1, <2>5, AuthenticIsRight
    <2> QED  BY <2>1, <2>2, <2>3, <2>4, <2>5 DEF Open
  <1>5. CASE UNCHANGED vars
    <2>1. /\ call' = call /\ result' = result /\ record' = record /\ sealed' = sealed
      BY <1>5 DEF vars
    <2> QED  BY <2>1 DEF DocumentIInv, SealedTyped, OpensExactlyTheSealed, Wrote
  <1> QED  BY <1>2, <1>3, <1>4, <1>5 DEF Next

-----------------------------------------------------------------------------
(* seal and open: whatever is read back from the disk, a record comes out  *)
(* of it exactly if it is one whole document sealed under the reader's key *)
(* by a program of this version, and then it is the record that went in.   *)
THEOREM OpensExactly == Spec => []OpensExactlyTheSealed
  <1>1. Init => DocumentIInv
    BY DEF Init, DocumentIInv, SealedTyped, OpensExactlyTheSealed
  <1>2. DocumentIInv /\ [Next]_vars => DocumentIInv'
    BY StepKeepsDocument
  <1>3. DocumentIInv => OpensExactlyTheSealed
    BY DEF DocumentIInv
  <1> QED  BY <1>1, <1>2, <1>3, PTL DEF Spec

-----------------------------------------------------------------------------
(* Every save under way has a document of its own, and writes at its       *)
(* offset until all pieces are written.                                    *)
OwnDocuments ==
    \A p \in Savers :
        /\ saver[p].at = "idle" <=> saver[p].doc = 0
        /\ saver[p].at = "writing" => saver[p].offset < Blocks
        /\ saver[p].at = "syncing" => saver[p].offset = Blocks
        /\ saver[p].at = "sealed" => saver[p].offset = 0
        /\ \A q \in Savers : saver[p].doc # 0 /\ saver[p].doc = saver[q].doc => p = q

(* The save that had the file for itself is the only one that writes, and  *)
(* the file holds what it has written.                                     *)
AloneWrites ==
    alone # 0 => \A p \in Savers : Saving(p) =>
        /\ saver[p].doc = alone
        /\ Len(file) = saver[p].offset
        /\ \A i \in 1 .. Len(file) : file[i] = alone

(* Nothing has touched the saved document, and nobody is about to.         *)
SavedRests == latest # 0 => SavedSurvives /\ \A p \in Savers : ~Saving(p)

(* The current load has read only pieces of the document it must return.   *)
LoadFollows ==
    expected # 0 =>
        /\ expected = latest
        /\ loader.at = "reading" =>
              \A i \in 1 .. Len(loader.blocks) : loader.blocks[i] = expected
        /\ loader.at = "idle" => loaded = expected

(* Only sealed documents are in the file or read from it, and not yet one  *)
(* whose save has not opened the file.                                     *)
PiecesAreSealed ==
    /\ \A i \in 1 .. Len(file) : file[i] <= documents
    /\ \A i \in 1 .. Len(loader.blocks) : loader.blocks[i] <= documents
    /\ \A p \in Savers : saver[p].at = "sealed" =>
          \A i \in 1 .. Len(file) : file[i] # saver[p].doc

(* What the two histories of the current load say of this moment.          *)
MomentsAreKept ==
    loader.at = "reading" =>
        /\ apart => \A p, q \in Savers : Saving(p) /\ Saving(q) => p = q
        /\ \A d \in 1 .. documents : Holds(file, d) => d \in wholes

(* While all the load has read is of one document, it was in the file      *)
(* whole, or is being written there, or can no longer be read to its end.  *)
OnlyReads(d) ==
    Len(loader.blocks) >= 1 /\ \A i \in 1 .. Len(loader.blocks) : loader.blocks[i] = d
Coming(d) ==
    /\ \E p \in Savers : Saving(p) /\ saver[p].doc = d
    /\ Len(loader.blocks) <= Len(file)
    /\ \A i \in 1 .. Len(loader.blocks) : file[i] = d
Lost(d) ==
    /\ \A p \in Savers : saver[p].doc # d
    /\ \E i \in Len(loader.blocks) + 1 .. Blocks : i > Len(file) \/ file[i] # d
ReadsOneMoment ==
    loader.at = "reading" /\ apart =>
        \A d \in 1 .. documents :
            OnlyReads(d) => d \in wholes \/ Coming(d) \/ Lost(d)

LoadKnows == PiecesAreSealed /\ MomentsAreKept /\ ReadsOneMoment /\ LoadIsAtomic

SavesIInv == TypeOK /\ OwnDocuments /\ AloneWrites /\ SavedRests /\ LoadFollows
FileIInv == SavesIInv /\ LoadKnows

USE BoundsAssumption DEF Documents

(* The initial states satisfy the part that is about the saves.            *)
LEMMA SavesInitInv == FileInit => SavesIInv
  <1> SUFFICES ASSUME FileInit PROVE SavesIInv
      OBVIOUS
  <1>1. /\ Whole(1) \in Seq(Documents) /\ Whole(1) \o <<0>> \in Seq(Documents)
        BY DEF Whole
  <1>2. file \in Seq(Documents)
    <2>1. CASE exists
          <3>1. file \in {Whole(1), Whole(1) \o <<0>>}
                BY <2>1 DEF FileInit
          <3> QED
              BY <1>1, <3>1
    <2>2. CASE ~exists
          <3>1. file = <<>>
                BY <2>2 DEF FileInit
          <3> QED
              BY <3>1
    <2> QED
        BY <2>1, <2>2
  <1>3. TypeOK
        BY <1>2 DEF FileInit, TypeOK, Idle, Resting
  <1>4. OwnDocuments
        BY DEF FileInit, OwnDocuments, Idle
  <1> QED
      BY <1>3, <1>4 DEF FileInit, SavesIInv, AloneWrites, SavedRests, LoadFollows

-----------------------------------------------------------------------------
(* The steps of a save that leave the file alone.                          *)
LEMMA SealInv == ASSUME SavesIInv, NEW p \in Savers, FileSeal(p) PROVE SavesIInv'
  <1> USE DEF SavesIInv
  <1>1. PICK at \in {"sealed", "idle"} :
            saver' = [saver EXCEPT ![p] =
                [at |-> at, doc |-> IF at = "idle" THEN 0 ELSE documents + 1, offset |-> 0]]
        BY DEF FileSeal
  <1>2. TypeOK'
    <2> DEFINE Saves == [at : {"idle", "sealed", "writing", "syncing"},
                         doc : 0 .. documents + 1, offset : 0 .. Blocks]
    <2>1. saver \in [Savers -> Saves]
          BY DEF TypeOK
    <2>2. [at |-> at, doc |-> IF at = "idle" THEN 0 ELSE documents + 1, offset |-> 0] \in Saves
          BY DEF TypeOK
    <2>3. saver' \in [Savers -> Saves]
          BY <1>1, <2>1, <2>2
    <2>4. documents' = documents + 1 /\ documents' \in 1 .. MaxDocuments
          BY DEF FileSeal, TypeOK
    <2> QED
        BY <2>3, <2>4, SMTT(30) DEF FileSeal, TypeOK, fileSystem, history
  <1>3. \A q \in Savers : saver[q].doc # documents + 1
        BY DEF TypeOK
  <1>4. OwnDocuments'
        BY <1>1, <1>3 DEF FileSeal, OwnDocuments, TypeOK
  <1>5. \A q \in Savers : Saving(q)' => Saving(q) /\ saver'[q] = saver[q]
        BY <1>1 DEF FileSeal, Saving, TypeOK
  <1>6. AloneWrites'
        BY <1>5 DEF FileSeal, AloneWrites, fileSystem, history
  <1>7. SavedRests'
        BY <1>5 DEF FileSeal, SavedRests, SavedSurvives, fileSystem, history
  <1> QED
      BY <1>2, <1>4, <1>6, <1>7
         DEF FileSeal, LoadFollows, fileSystem, history

LEMMA SaveFailsInv == ASSUME SavesIInv, NEW p \in Savers, SaveFails(p) PROVE SavesIInv'
  <1> USE DEF SavesIInv
  <1>1. TypeOK'
        BY DEF SaveFails, TypeOK, Idle, fileSystem, history, bounds
  <1>2. OwnDocuments'
        BY DEF SaveFails, OwnDocuments, Idle, TypeOK
  <1>3. \A q \in Savers : Saving(q)' => Saving(q) /\ saver'[q] = saver[q]
        BY DEF SaveFails, Saving, Idle, TypeOK
  <1>4. AloneWrites'
        BY <1>3 DEF SaveFails, AloneWrites, fileSystem, history
  <1>5. SavedRests'
        BY <1>3 DEF SaveFails, SavedRests, SavedSurvives, fileSystem, history
  <1> QED
      BY <1>1, <1>2, <1>4, <1>5
         DEF SaveFails, LoadFollows, fileSystem, history

(* Opening the file makes the opener its only writer, or nobody.           *)
LEMMA CreateInv == ASSUME SavesIInv, NEW p \in Savers, Create(p) PROVE SavesIInv'
  <1> USE DEF SavesIInv
  <1>1. TypeOK'
    <2>1. file' \in Seq(Documents)
          BY DEF Create
    <2>a. saver[p] \in [at : {"idle", "sealed", "writing", "syncing"},
                        doc : 0 .. documents, offset : 0 .. Blocks]
          BY DEF TypeOK
    <2>b. saver[p].doc \in 0 .. documents /\ documents \in Nat
          BY <2>a DEF TypeOK
    <2>2. alone' \in 0 .. documents
          BY <2>b DEF Create
    <2>3. saver' \in [Savers -> [at : {"idle", "sealed", "writing", "syncing"},
                                 doc : 0 .. documents, offset : 0 .. Blocks]]
          BY DEF Create, TypeOK
    <2> QED
        BY <2>1, <2>2, <2>3, SMTT(30) DEF Create, TypeOK, bounds
  <1>2. OwnDocuments'
    <2>1. /\ \A q \in Savers : /\ saver'[q].doc = saver[q].doc
                               /\ saver'[q].offset = saver[q].offset
          /\ saver[p].at = "sealed" /\ saver'[p].at = "writing"
          /\ \A q \in Savers : q # p => saver'[q] = saver[q]
          BY DEF Create, TypeOK
    <2>2. saver[p].offset = 0 /\ saver[p].doc # 0
          BY <2>1 DEF OwnDocuments
    <2> QED
        BY <2>1, <2>2 DEF OwnDocuments
  <1>3. AloneWrites'
    <2> SUFFICES ASSUME alone' # 0, NEW q \in Savers, Saving(q)'
                 PROVE  saver'[q].doc = alone' /\ saver'[q].offset = 0
        BY DEF Create, AloneWrites
    <2>1. alone' = saver[p].doc /\ \A r \in Savers : ~Saving(r)
          BY DEF Create
    <2>2. q = p
          BY <2>1 DEF Create, Saving, TypeOK
    <2> QED
        BY <2>1, <2>2 DEF Create, OwnDocuments, TypeOK
  <1> QED
      BY <1>1, <1>2, <1>3
         DEF Create, SavedRests, LoadFollows

(* A write goes to the end of the file of a save that is alone.            *)
LEMMA WriteInv == ASSUME SavesIInv, NEW p \in Savers, Write(p) PROVE SavesIInv'
  <1> USE DEF SavesIInv
  <1> DEFINE at == saver[p].offset + 1
             n == IF Len(file) < at THEN at ELSE Len(file)
  <1>0. /\ at \in 1 .. Blocks /\ saver[p].doc \in Documents
        /\ file \in Seq(Documents)
    <2>1. /\ saver[p].at = "writing" /\ saver[p].offset \in 0 .. Blocks
          /\ saver[p].doc \in 0 .. documents /\ documents \in 1 .. MaxDocuments
          /\ file \in Seq(Documents)
          BY DEF Write, TypeOK
    <2>2. saver[p].offset < Blocks
          BY <2>1 DEF OwnDocuments
    <2> QED
        BY <2>1, <2>2
  <1>1. file' \in Seq(Documents) /\ Len(file') = n
    <2>1. file' = [i \in 1 .. n |-> IF i = at THEN saver[p].doc
                                    ELSE IF i <= Len(file) THEN file[i] ELSE 0]
          BY DEF Write
    <2>2. n \in Nat
          BY <1>0
    <2>3. \A i \in 1 .. n : (IF i = at THEN saver[p].doc
                              ELSE IF i <= Len(file) THEN file[i] ELSE 0) \in Documents
          BY <1>0
    <2> HIDE DEF n, at
    <2> QED
        BY <2>1, <2>2, <2>3
  <1>2. saver' = [saver EXCEPT ![p].offset = at,
                               ![p].at = IF at = Blocks THEN "syncing" ELSE @]
        BY DEF Write
  <1>a. saver[p].at = "writing"
        BY DEF Write
  <1>b. /\ saver' \in [Savers -> [at : {"idle", "sealed", "writing", "syncing"},
                                  doc : 0 .. documents, offset : 0 .. Blocks]]
        /\ saver'[p].at = IF at = Blocks THEN "syncing" ELSE "writing"
        /\ saver'[p].doc = saver[p].doc /\ saver'[p].offset = at
        /\ \A q \in Savers \ {p} : saver'[q] = saver[q]
    <2> DEFINE Saves == [at : {"idle", "sealed", "writing", "syncing"},
                         doc : 0 .. documents, offset : 0 .. Blocks]
    <2>1. saver \in [Savers -> Saves] /\ saver[p] \in Saves
          BY DEF TypeOK
    <2>2. at \in 0 .. Blocks
          BY <1>0
    <2> HIDE DEF at
    <2>3. /\ saver'[p].at = IF at = Blocks THEN "syncing" ELSE "writing"
          /\ saver'[p].doc = saver[p].doc /\ saver'[p].offset = at
          /\ \A q \in Savers \ {p} : saver'[q] = saver[q]
          BY <1>2, <1>a, <2>1
    <2>4. saver' \in [Savers -> Saves]
          BY <1>2, <1>a, <2>1, <2>2
    <2> QED
        BY <2>3, <2>4
  <1>3. TypeOK'
    <2>1. unsynced' \subseteq 1 .. documents
      <3>1. saver[p].doc # 0 /\ saver[p].doc \in 0 .. documents
            BY <1>a DEF OwnDocuments, TypeOK
      <3> QED
          BY <3>1, SMTT(30) DEF Write, TypeOK
    <2> QED
        BY <1>1, <1>b, <2>1 DEF Write, TypeOK, bounds, history
  <1>4. OwnDocuments'
    <2>1. \A q \in Savers : saver'[q].doc = saver[q].doc
          BY <1>b
    <2>2. saver[p].doc # 0
          BY <1>a DEF OwnDocuments
    <2> HIDE DEF at
    <2>3. /\ saver'[p].at = "writing" => at < Blocks
          /\ saver'[p].at = "syncing" => at = Blocks
          /\ saver'[p].at \notin {"idle", "sealed"}
          BY <1>0, <1>b
    <2>4. ASSUME NEW q \in Savers
          PROVE  /\ saver'[q].at = "idle" <=> saver'[q].doc = 0
                 /\ saver'[q].at = "writing" => saver'[q].offset < Blocks
                 /\ saver'[q].at = "syncing" => saver'[q].offset = Blocks
                 /\ saver'[q].at = "sealed" => saver'[q].offset = 0
      <3>1. CASE q = p
            BY <1>b, <2>2, <2>3, <3>1
      <3>2. CASE q # p
            BY <1>b, <3>2 DEF OwnDocuments
      <3> QED
          BY <3>1, <3>2
    <2>5. \A q, r \in Savers : saver'[q].doc # 0 /\ saver'[q].doc = saver'[r].doc => q = r
          BY <2>1 DEF OwnDocuments
    <2> QED
        BY <2>4, <2>5 DEF OwnDocuments
  <1>5. AloneWrites'
    <2> SUFFICES ASSUME alone # 0, NEW q \in Savers, Saving(q)'
                 PROVE  /\ saver'[q].doc = alone
                        /\ Len(file') = saver'[q].offset
                        /\ \A i \in 1 .. Len(file') : file'[i] = alone
        BY DEF Write, AloneWrites, history
    <2>1. Saving(q) /\ Saving(p) /\ saver'[q].doc = saver[q].doc
          BY <1>a, <1>b DEF Saving
    <2>2. saver[q].doc = alone /\ saver[p].doc = alone
          BY <2>1 DEF AloneWrites
    <2>3. q = p
          BY <2>2 DEF OwnDocuments
    <2>4. Len(file) = saver[p].offset /\ \A i \in 1 .. Len(file) : file[i] = alone
          BY <2>1 DEF AloneWrites
    <2>5. n = at
          BY <2>4, <1>0
    <2>6. \A i \in 1 .. at : file'[i] = alone
          BY <2>2, <2>4, <2>5, <1>0 DEF Write
    <2> QED
        BY <1>1, <1>b, <2>1, <2>2, <2>3, <2>5, <2>6
  <1>6. latest = 0
        BY DEF SavedRests, Saving, Write
  <1> QED
      BY <1>3, <1>4, <1>5, <1>6
         DEF Write, SavedRests, LoadFollows, history, bounds

(* When a save that was alone returns, nobody else writes.                 *)
LEMMA SyncInv == ASSUME SavesIInv, NEW p \in Savers, Sync(p) PROVE SavesIInv'
  <1> USE DEF SavesIInv
  <1>1. TypeOK'
        BY DEF Sync, TypeOK, Idle, bounds
  <1>2. OwnDocuments'
        BY DEF Sync, OwnDocuments, Idle, TypeOK
  <1>3. \A q \in Savers : Saving(q)' => Saving(q) /\ saver'[q] = saver[q] /\ q # p
        BY DEF Sync, Saving, Idle, TypeOK
  <1>4. AloneWrites'
        BY <1>3 DEF Sync, AloneWrites
  <1>5. Saving(p) /\ latest = 0 /\ saver[p].offset = Blocks /\ saver[p].doc # 0
        BY DEF SavedRests, Saving, Sync, OwnDocuments
  <1>6. SavedRests'
    <2> SUFFICES ASSUME latest' # 0
                 PROVE  SavedSurvives' /\ \A q \in Savers : ~Saving(q)'
        BY DEF SavedRests
    <2>1. latest' = alone /\ alone = saver[p].doc /\ alone # 0
          BY <1>5 DEF Sync
    <2>2. Len(file) = Blocks /\ \A i \in 1 .. Blocks : file[i] = alone
          BY <1>5, <2>1 DEF AloneWrites
    <2>3. file = Whole(alone)
          BY <2>2 DEF Whole, TypeOK
    <2>4. SavedSurvives'
          BY <2>1, <2>3 DEF Sync, SavedSurvives
    <2>5. ASSUME NEW q \in Savers, Saving(q)' PROVE FALSE
          BY <1>3, <2>1, <2>5 DEF AloneWrites, OwnDocuments
    <2> QED
        BY <2>4, <2>5
  <1>7. expected = 0
        BY <1>5 DEF LoadFollows
  <1> QED
      BY <1>1, <1>2, <1>4, <1>6, <1>7
         DEF Sync, LoadFollows, bounds

-----------------------------------------------------------------------------
(* The steps of a load.                                                    *)
LEMMA LoadOpenInv == ASSUME SavesIInv, LoadOpen PROVE SavesIInv'
  <1> USE DEF SavesIInv, LoadOpen, fileSystem
  <1>1. TypeOK'
        BY SMTT(30) DEF TypeOK
  <1>2. SavedRests'
        BY DEF SavedRests, SavedSurvives, Saving
  <1>3. LoadFollows'
        BY DEF LoadFollows
  <1> QED
      BY <1>1, <1>2, <1>3 DEF OwnDocuments, AloneWrites, Saving

LEMMA LoadReadInv == ASSUME SavesIInv, LoadRead PROVE SavesIInv'
  <1> USE DEF SavesIInv
  <1> DEFINE at == Len(loader.blocks) + 1
  <1>1. /\ loader.at = "reading" /\ at \in 1 .. Blocks /\ at <= Len(file)
        /\ file \in Seq(Documents) /\ loader.blocks \in Seq(Documents)
        /\ loader' = [loader EXCEPT !.blocks = Append(@, file[at])]
        BY DEF LoadRead, TypeOK
  <1>2. /\ loader'.at = "reading" /\ loader'.blocks = Append(loader.blocks, file[at])
        /\ file[at] \in Documents
    <2>1. loader'.at = "reading" /\ loader'.blocks = Append(loader.blocks, file[at])
          BY <1>1 DEF TypeOK
    <2>2. file[at] \in Documents
          BY <1>1
    <2> QED
        BY <2>1, <2>2
  <1>3. /\ loader'.blocks \in Seq(Documents) /\ Len(loader'.blocks) = at
        BY <1>1, <1>2
  <1>4. TypeOK'
        BY <1>1, <1>2, <1>3 DEF LoadRead, TypeOK, fileSystem, bounds, history
  <1>5. SavedRests' /\ SavedRests
        BY DEF LoadRead, SavedRests, SavedSurvives, Saving, fileSystem, history
  <1>6. LoadFollows'
    <2> SUFFICES ASSUME expected # 0, NEW i \in 1 .. at
                 PROVE  loader'.blocks[i] = expected
        BY <1>2, <1>3 DEF LoadRead, LoadFollows, history
    <2>1. file = Whole(expected)
          BY DEF LoadFollows, SavedRests, SavedSurvives
    <2>2. file[at] = expected
          BY <2>1, <1>1 DEF Whole
    <2>3. CASE i = at
          BY <2>2, <2>3, <1>1, <1>2
    <2>4. CASE i # at
          BY <2>4, <1>1, <1>2 DEF LoadFollows
    <2> QED
        BY <2>3, <2>4
  <1> QED
      BY <1>4, <1>5, <1>6
         DEF LoadRead, OwnDocuments, AloneWrites, Saving, fileSystem, history, bounds

LEMMA LoadEndInv == ASSUME SavesIInv, LoadEnd PROVE SavesIInv'
  <1> USE DEF SavesIInv
  <1> DEFINE blocks == loader.blocks
             ok == Len(blocks) = Blocks /\ Len(file) <= Blocks /\ FileAuthentic(blocks)
  <1>1. /\ loader.at = "reading" /\ blocks \in Seq(Documents) /\ Len(blocks) \in Nat
        /\ Len(blocks) = Blocks \/ Len(blocks) >= Len(file)
        /\ loaded' = IF ok THEN blocks[1] ELSE 0
        /\ loader' = Resting
        BY DEF LoadEnd, TypeOK
  <1>2. /\ loaded' # 0 => ok /\ loaded' = blocks[1]
        /\ ok => blocks[1] \in Documents
        BY <1>1
  <1>3. loaded' \in Documents
        BY <1>1, <1>2
  <1>4. TypeOK'
        BY <1>1, <1>2, <1>3 DEF LoadEnd, TypeOK, Resting, fileSystem, bounds
  <1>5. SavedRests' /\ SavedRests
        BY DEF LoadEnd, SavedRests, SavedSurvives, Saving, fileSystem
  <1>6. LoadFollows'
    <2> SUFFICES ASSUME expected # 0 PROVE loaded' = expected
        BY <1>1 DEF LoadEnd, LoadFollows, Resting
    <2>1. file = Whole(expected) /\ expected \in Nat /\ expected = latest
          BY DEF LoadFollows, SavedRests, SavedSurvives, TypeOK
    <2>2. Len(file) = Blocks
          BY <2>1 DEF Whole
    <2>3. Len(blocks) = Blocks
          BY <1>1, <2>2 DEF TypeOK
    <2>4. \A i \in 1 .. Blocks : blocks[i] = expected
          BY <1>1, <2>3 DEF LoadFollows
    <2>5. blocks = Whole(expected) /\ blocks[1] = expected
          BY <1>1, <2>3, <2>4 DEF Whole
    <2> QED
        BY <1>1, <2>2, <2>3, <2>5 DEF FileAuthentic
  <1> QED
      BY <1>4, <1>5, <1>6
         DEF LoadEnd, OwnDocuments, AloneWrites, Saving, fileSystem, bounds

LEMMA LoadFailsInv == ASSUME SavesIInv, LoadFails PROVE SavesIInv'
  <1> USE DEF SavesIInv, LoadFails, fileSystem
  <1>1. TypeOK'
        BY SMTT(30) DEF TypeOK, Resting
  <1>2. SavedRests'
        BY DEF SavedRests, SavedSurvives, Saving
  <1> QED
      BY <1>1, <1>2 DEF OwnDocuments, AloneWrites, Saving, LoadFollows

-----------------------------------------------------------------------------
(* The file system and the machine.                                        *)
LEMMA LinkWrittenInv == ASSUME SavesIInv, LinkWritten PROVE SavesIInv'
  <1> USE DEF SavesIInv, LinkWritten, history, bounds
  <1>1. TypeOK'
        BY DEF TypeOK
  <1>2. SavedRests'
        BY DEF SavedRests, SavedSurvives, Saving
  <1> QED
      BY <1>1, <1>2 DEF OwnDocuments, AloneWrites, Saving, LoadFollows

(* A crash leaves a synced file as it is: only an unsynced one is in doubt.*)
LEMMA CrashInv == ASSUME SavesIInv, Crash PROVE SavesIInv'
  <1> USE DEF SavesIInv
  <1>1. AfterCrash \subseteq Seq(Documents)
    <2> SUFFICES ASSUME NEW f \in AfterCrash PROVE f \in Seq(Documents)
        OBVIOUS
    <2> DEFINE m == IF Len(file) < Len(disk) THEN Len(disk) ELSE Len(file)
    <2>1. CASE f = file
          BY <2>1 DEF TypeOK
    <2>2. CASE f # file
      <3>1. \E n \in {0} \cup 1 .. m : f \in [1 .. n -> {0} \cup 1 .. documents]
            BY <2>2 DEF AfterCrash
      <3>a. m \in Nat
            BY DEF TypeOK
      <3>2. PICK n \in Nat : f \in [1 .. n -> {0} \cup 1 .. documents]
        <4> HIDE DEF m
        <4> QED
            BY <3>1, <3>a
      <3>3. {0} \cup 1 .. documents \subseteq Documents
            BY DEF TypeOK
      <3> QED
          BY <3>2, <3>3
    <2> QED
        BY <2>1, <2>2
  <1>2. file' \in Seq(Documents) /\ disk' = file'
    <2>1. CASE linked
          BY <1>1, <2>1 DEF Crash
    <2>2. CASE ~linked
          BY <2>2 DEF Crash
    <2> QED
        BY <2>1, <2>2 DEF Crash
  <1>3. TypeOK'
        BY <1>2 DEF Crash, TypeOK, Idle, Resting
  <1>4. OwnDocuments' /\ \A p \in Savers : ~Saving(p)'
        BY DEF Crash, OwnDocuments, Saving, Idle
  <1>5. latest' # 0 => SavedSurvives'
    <2> SUFFICES ASSUME latest' # 0 PROVE SavedSurvives'
        OBVIOUS
    <2>1. linked /\ latest' = latest
          BY DEF Crash
    <2>2. file = Whole(latest) /\ disk = Whole(latest) /\ unsynced = {}
          BY <2>1 DEF SavedRests, SavedSurvives
    <2>3. AfterCrash = {file}
          BY <2>2 DEF AfterCrash
    <2>4. file' = file /\ disk' = file' /\ unsynced' = {}
          BY <2>1, <2>3 DEF Crash
    <2> QED
        BY <2>1, <2>2, <2>4 DEF SavedSurvives
  <1> QED
      BY <1>3, <1>4, <1>5
         DEF Crash, AloneWrites, SavedRests, LoadFollows

-----------------------------------------------------------------------------
(* The part that is about the load.                                        *)
LEMMA LoadKnowsInit == FileInit => LoadKnows
  <1> SUFFICES ASSUME FileInit PROVE LoadKnows
      OBVIOUS
  <1>1. \A i \in 1 .. Len(file) : file[i] <= 1
    <2>1. CASE exists
          BY <2>1 DEF FileInit, Whole
    <2>2. CASE ~exists
          BY <2>2 DEF FileInit
    <2> QED
        BY <2>1, <2>2
  <1>2. PiecesAreSealed
        BY <1>1 DEF FileInit, PiecesAreSealed, Idle, Resting
  <1> QED
      BY <1>2 DEF FileInit, LoadKnows, MomentsAreKept, ReadsOneMoment, LoadIsAtomic, Resting

(* A new document is neither in the file nor read from it.                 *)
LEMMA SealKnows ==
    ASSUME FileIInv, SavesIInv', NEW p \in Savers, FileSeal(p)
    PROVE  LoadKnows'
  <1> USE DEF FileIInv, SavesIInv, LoadKnows
  <1>1. PICK at \in {"sealed", "idle"} :
            saver' = [saver EXCEPT ![p] =
                [at |-> at, doc |-> IF at = "idle" THEN 0 ELSE documents + 1, offset |-> 0]]
        BY DEF FileSeal
  <1>2. /\ documents' = documents + 1 /\ documents \in Nat \ {0}
        /\ file' = file /\ loader' = loader /\ apart' = apart /\ wholes' = wholes
        /\ loaded' = loaded
        /\ file \in Seq(Nat) /\ loader.blocks \in Seq(Nat)
        BY SMTT(30) DEF FileSeal, TypeOK, fileSystem, history
  <1>3. /\ \A q \in Savers : Saving(q)' <=> Saving(q)
        /\ \A q \in Savers : Saving(q) => saver'[q] = saver[q]
        /\ \A q \in Savers \ {p} : saver'[q] = saver[q]
        /\ saver'[p].doc \in {0, documents + 1}
        BY <1>1 DEF FileSeal, Saving, TypeOK
  <1>4. PiecesAreSealed'
    <2>1. /\ \A i \in 1 .. Len(file) : file[i] <= documents /\ file[i] # documents + 1
          /\ \A i \in 1 .. Len(loader.blocks) : loader.blocks[i] <= documents
          BY <1>2 DEF PiecesAreSealed
    <2>2. ASSUME NEW q \in Savers, saver'[q].at = "sealed", NEW i \in 1 .. Len(file)
          PROVE  file[i] # saver'[q].doc
      <3>1. CASE q = p
            BY <1>1, <2>1, <2>2, <3>1 DEF TypeOK
      <3>2. CASE q # p
            BY <1>3, <2>2, <3>2 DEF PiecesAreSealed
      <3> QED
          BY <3>1, <3>2
    <2> QED
        BY <1>2, <2>1, <2>2 DEF PiecesAreSealed
  <1>5. MomentsAreKept'
    <2> SUFFICES ASSUME loader.at = "reading"
                 PROVE  /\ apart => \A q, t \in Savers : Saving(q)' /\ Saving(t)' => q = t
                        /\ \A d \in 1 .. documents + 1 : Holds(file, d) => d \in wholes
        BY <1>2 DEF MomentsAreKept, Holds
    <2>1. ~Holds(file, documents + 1)
          BY <1>2 DEF Holds, PiecesAreSealed
    <2> QED
        BY <1>2, <1>3, <2>1, SMTT(30) DEF MomentsAreKept
  <1>6. ReadsOneMoment'
    <2> SUFFICES ASSUME loader.at = "reading", apart,
                        NEW d \in 1 .. documents + 1, OnlyReads(d)
                 PROVE  d \in wholes \/ Coming(d)' \/ Lost(d)'
        BY <1>2 DEF ReadsOneMoment, OnlyReads
    <2>1. d \in 1 .. documents
          BY <1>2 DEF OnlyReads, PiecesAreSealed
    <2>2. d \in wholes \/ Coming(d) \/ Lost(d)
          BY <2>1 DEF ReadsOneMoment
    <2>3. Coming(d) => Coming(d)'
          BY <1>2, <1>3 DEF Coming
    <2>4. Lost(d) => Lost(d)'
          BY <1>2, <1>3, <2>1, SMTT(30) DEF Lost
    <2> QED
        BY <2>2, <2>3, <2>4
  <1> QED
      BY <1>2, <1>4, <1>5, <1>6 DEF LoadIsAtomic

(* A save that returns leaves its document whole in the file, or where the *)
(* load has not been there is a place without it.                          *)
LEMMA SaveEndKnows ==
    ASSUME FileIInv, SavesIInv', NEW p \in Savers, Sync(p) \/ SaveFails(p)
    PROVE  LoadKnows'
  <1> USE DEF FileIInv, SavesIInv, LoadKnows
  <1>1. /\ documents' = documents /\ file' = file /\ loader' = loader
        /\ apart' = apart /\ wholes' = wholes /\ loaded' = loaded
        /\ saver' = [saver EXCEPT ![p] = Idle]
        BY DEF Sync, SaveFails, fileSystem, history, bounds
  <1>2. /\ \A q \in Savers \ {p} : saver'[q] = saver[q]
        /\ saver'[p].doc = 0 /\ ~Saving(p)' /\ saver'[p].at = "idle"
        /\ \A q \in Savers \ {p} : Saving(q)' <=> Saving(q)
        BY <1>1 DEF Saving, Idle, TypeOK
  <1>3. PiecesAreSealed'
        BY <1>1, <1>2 DEF PiecesAreSealed
  <1>4. MomentsAreKept'
        BY <1>1, <1>2 DEF MomentsAreKept, Holds
  <1>5. ReadsOneMoment'
    <2> SUFFICES ASSUME loader.at = "reading", apart,
                        NEW d \in 1 .. documents, OnlyReads(d)
                 PROVE  d \in wholes \/ Coming(d)' \/ Lost(d)'
        BY <1>1 DEF ReadsOneMoment, OnlyReads
    <2>1. Lost(d) => Lost(d)'
          BY <1>1, <1>2 DEF Lost
    <2>2. ASSUME Coming(d), d \notin wholes PROVE Coming(d)' \/ Lost(d)'
      <3>1. PICK q \in Savers : Saving(q) /\ saver[q].doc = d
            BY <2>2 DEF Coming
      <3>2. CASE q # p
            BY <1>1, <1>2, <2>2, <3>1, <3>2 DEF Coming
      <3>3. CASE q = p
        <4>1. ~Holds(file, d)
              BY <2>2 DEF MomentsAreKept
        <4>0. file \in Seq(Documents) /\ loader.blocks \in Seq(Documents)
              BY DEF TypeOK
        <4>a. file \in Seq(Nat) /\ Len(loader.blocks) \in Nat
              BY <4>0
        <4>b. PICK i \in 1 .. Blocks : i > Len(file) \/ file[i] # d
              BY <4>1, <4>a DEF Holds
        <4>c. i > Len(loader.blocks)
              BY <2>2, <4>a, <4>b DEF Coming
        <4>2. \E j \in Len(loader.blocks) + 1 .. Blocks : j > Len(file) \/ file[j] # d
              BY <4>a, <4>b, <4>c
        <4>3. \A t \in Savers : saver'[t].doc # d
              BY <1>2, <3>1, <3>3 DEF OwnDocuments
        <4> QED
            BY <1>1, <4>2, <4>3 DEF Lost
      <3> QED
          BY <3>2, <3>3
    <2> QED
        BY <2>1, <2>2 DEF ReadsOneMoment
  <1> QED
      BY <1>1, <1>3, <1>4, <1>5 DEF LoadIsAtomic

(* Truncating the file takes away what was not yet read.                   *)
LEMMA CreateKnows ==
    ASSUME FileIInv, SavesIInv', NEW p \in Savers, Create(p)
    PROVE  LoadKnows'
  <1> USE DEF FileIInv, SavesIInv, LoadKnows
  <1>1. /\ documents' = documents /\ file' = <<>> /\ loader' = loader
        /\ wholes' = wholes /\ loaded' = loaded /\ (apart' => apart)
        /\ loader.at = "reading" /\ apart' => \A q \in Savers : ~Saving(q)
        BY DEF Create, bounds, TypeOK
  <1>2. /\ \A q \in Savers \ {p} : saver'[q] = saver[q] /\ (Saving(q)' <=> Saving(q))
        /\ \A q \in Savers : saver'[q].doc = saver[q].doc
        BY SMTT(30) DEF Create, Saving, TypeOK
  <1>3. PiecesAreSealed'
        BY <1>1 DEF PiecesAreSealed
  <1>4. MomentsAreKept'
        BY <1>1, <1>2 DEF MomentsAreKept, Holds
  <1>5. ReadsOneMoment'
    <2> SUFFICES ASSUME loader.at = "reading", apart',
                        NEW d \in 1 .. documents, OnlyReads(d)
                 PROVE  d \in wholes \/ Lost(d)'
        BY <1>1 DEF ReadsOneMoment, OnlyReads
    <2>1. d \in wholes \/ Lost(d)
          BY <1>1 DEF ReadsOneMoment, Coming
    <2>2. ASSUME Lost(d) PROVE Lost(d)'
      <3>1. PICK i \in Len(loader.blocks) + 1 .. Blocks : TRUE
            BY <2>2 DEF Lost
      <3>a. Len(loader.blocks) \in Nat
            BY DEF TypeOK
      <3>2. i > Len(<<>>)
            BY <3>1, <3>a
      <3> QED
          BY <1>1, <1>2, <2>2, <3>1, <3>2 DEF Lost
    <2> QED
        BY <2>1, <2>2
  <1> QED
      BY <1>1, <1>3, <1>4, <1>5 DEF LoadIsAtomic

(* A write leaves the pieces of its own document, and brings no other.     *)
LEMMA WriteKnows ==
    ASSUME FileIInv, SavesIInv', NEW p \in Savers, Write(p)
    PROVE  LoadKnows'
  <1> USE DEF FileIInv, SavesIInv, LoadKnows
  <1> DEFINE at == saver[p].offset + 1
  <1>1. /\ documents' = documents /\ loader' = loader
        /\ loaded' = loaded /\ apart' = apart /\ wholes \subseteq wholes'
        /\ loader.at = "reading" => wholes' = wholes \cup {d \in 1 .. documents : Holds(file', d)}
        BY DEF Write, bounds
  <1>2. /\ Saving(p) /\ at \in Nat \ {0} /\ saver[p].doc \in 1 .. documents
        /\ file \in Seq(Nat) /\ documents \in Nat
    <2>1. saver[p].doc # 0
          BY DEF Write, OwnDocuments
    <2>2. /\ saver[p].at = "writing" /\ saver[p].offset \in 0 .. Blocks
          /\ saver[p].doc \in 0 .. documents /\ documents \in 1 .. MaxDocuments
          /\ file \in Seq(Documents)
          BY DEF Write, TypeOK
    <2> QED
        BY <2>1, <2>2 DEF Saving
  <1>3. /\ Len(file') \in Nat /\ Len(file') >= Len(file)
        /\ \A i \in 1 .. Len(file') :
              file'[i] = IF i = at THEN saver[p].doc
                         ELSE IF i <= Len(file) THEN file[i] ELSE 0
    <2> DEFINE n == IF Len(file) < at THEN at ELSE Len(file)
    <2>1. file' = [i \in 1 .. n |-> IF i = at THEN saver[p].doc
                                    ELSE IF i <= Len(file) THEN file[i] ELSE 0]
          BY DEF Write
    <2>2. n \in Nat /\ n >= Len(file)
          BY <1>2
    <2> HIDE DEF n, at
    <2>3. Len(file') = n
          BY <2>1, <2>2
    <2> QED
        BY <2>1, <2>2, <2>3
  <1>4. /\ \A q \in Savers : Saving(q)' <=> Saving(q)
        /\ \A q \in Savers : saver'[q].doc = saver[q].doc
        /\ \A q \in Savers : saver'[q].at = "sealed" => saver[q].at = "sealed" /\ q # p
    <2>1. /\ saver' = [saver EXCEPT ![p].offset = at,
                                   ![p].at = IF at = Blocks THEN "syncing" ELSE @]
          /\ saver[p].at = "writing"
          BY DEF Write
    <2>2. /\ saver \in [Savers -> [at : {"idle", "sealed", "writing", "syncing"},
                                   doc : 0 .. documents, offset : 0 .. Blocks]]
          /\ saver[p] \in [at : {"idle", "sealed", "writing", "syncing"},
                           doc : 0 .. documents, offset : 0 .. Blocks]
          BY DEF TypeOK
    <2> HIDE DEF at
    <2>3. /\ saver'[p].at \in {"writing", "syncing"} /\ saver'[p].doc = saver[p].doc
          /\ \A q \in Savers \ {p} : saver'[q] = saver[q]
          BY <2>1, <2>2
    <2> QED
        BY <2>1, <2>3 DEF Saving
  <1> HIDE DEF at
  <1>5. PiecesAreSealed'
    <2>1. ASSUME NEW i \in 1 .. Len(file')
          PROVE  /\ file'[i] <= documents
                 /\ \A q \in Savers : saver'[q].at = "sealed" => file'[i] # saver'[q].doc
      <3>1. file'[i] \in {0, saver[p].doc} \/ (i \in 1 .. Len(file) /\ file'[i] = file[i])
            BY <1>2, <1>3
      <3>2. \A q \in Savers : saver[q].at = "sealed" /\ q # p =>
                saver[q].doc \notin {0, saver[p].doc}
            BY <1>2 DEF OwnDocuments
      <3> QED
          BY <1>2, <1>4, <3>1, <3>2 DEF PiecesAreSealed
    <2> QED
        BY <1>1, <2>1 DEF PiecesAreSealed
  <1>6. MomentsAreKept'
        BY <1>1, <1>4 DEF MomentsAreKept
  <1>7. ReadsOneMoment'
    <2> SUFFICES ASSUME loader.at = "reading", apart,
                        NEW d \in 1 .. documents, OnlyReads(d)
                 PROVE  d \in wholes' \/ Coming(d)' \/ Lost(d)'
        BY <1>1 DEF ReadsOneMoment, OnlyReads
    <2>1. ASSUME Coming(d) PROVE Coming(d)'
      <3>1. PICK q \in Savers : Saving(q) /\ saver[q].doc = d
            BY <2>1 DEF Coming
      <3>2. q = p /\ saver[p].doc = d
            BY <1>2, <3>1 DEF MomentsAreKept
      <3>a. /\ Len(loader.blocks) \in Nat /\ Len(loader.blocks) <= Len(file)
            /\ \A i \in 1 .. Len(loader.blocks) : file[i] = d
            BY <2>1 DEF Coming, TypeOK
      <3>3. \A i \in 1 .. Len(loader.blocks) : file'[i] = d
            BY <1>2, <1>3, <3>2, <3>a
      <3>4. Len(loader.blocks) <= Len(file')
            BY <1>2, <1>3, <3>a
      <3> QED
          BY <1>1, <1>4, <3>1, <3>3, <3>4 DEF Coming
    <2>2. ASSUME Lost(d) PROVE Lost(d)'
      <3>1. PICK i \in Len(loader.blocks) + 1 .. Blocks : i > Len(file) \/ file[i] # d
            BY <2>2 DEF Lost
      <3>2. saver[p].doc # d /\ d # 0
            BY <2>2 DEF Lost
      <3>3. i \in Nat \ {0}
            BY <3>1 DEF TypeOK
      <3>4. i > Len(file') \/ file'[i] # d
            BY <1>2, <1>3, <3>1, <3>2, <3>3
      <3> QED
          BY <1>1, <1>4, <2>2, <3>4 DEF Lost
    <2> QED
        BY <1>1, <2>1, <2>2 DEF ReadsOneMoment
  <1> QED
      BY <1>1, <1>5, <1>6, <1>7 DEF LoadIsAtomic

(* The histories of the load start with it.                                *)
LEMMA LoadOpenKnows ==
    ASSUME FileIInv, SavesIInv', LoadOpen
    PROVE  LoadKnows'
  <1> USE DEF FileIInv, SavesIInv, LoadKnows, LoadOpen, fileSystem
  <1>1. PiecesAreSealed'
        BY DEF PiecesAreSealed
  <1>2. MomentsAreKept'
        BY DEF MomentsAreKept, Saving, Holds
  <1> QED
      BY <1>1, <1>2 DEF ReadsOneMoment, OnlyReads, LoadIsAtomic

(* What the first read finds was sealed, and its save has opened the file; *)
(* another read finds the same document or ends the matter.                *)
LEMMA LoadReadKnows ==
    ASSUME FileIInv, SavesIInv', LoadRead
    PROVE  LoadKnows'
  <1> USE DEF FileIInv, SavesIInv, LoadKnows
  <1> DEFINE at == Len(loader.blocks) + 1
  <1>1. /\ loader.at = "reading" /\ at \in 1 .. Blocks /\ at <= Len(file)
        /\ file \in Seq(Documents) /\ loader.blocks \in Seq(Documents)
        /\ loader' = [loader EXCEPT !.blocks = Append(@, file[at])]
        BY DEF LoadRead, TypeOK
  <1>2. /\ loader'.at = "reading" /\ loader'.blocks = Append(loader.blocks, file[at])
        BY <1>1 DEF TypeOK
  <1>3. /\ Len(loader'.blocks) = at /\ loader'.blocks[at] = file[at]
        /\ \A i \in 1 .. at - 1 : loader'.blocks[i] = loader.blocks[i]
        BY <1>1, <1>2
  <1>4. /\ documents' = documents /\ file' = file /\ saver' = saver
        /\ apart' = apart /\ wholes' = wholes /\ loaded' = loaded
        /\ \A p \in Savers : Saving(p)' <=> Saving(p)
        BY DEF LoadRead, fileSystem, bounds, history, Saving
  <1>5. PiecesAreSealed'
    <2>1. ASSUME NEW i \in 1 .. at PROVE loader'.blocks[i] <= documents
      <3>1. CASE i = at
            BY <1>1, <1>3, <3>1 DEF PiecesAreSealed
      <3>2. CASE i # at
            BY <1>1, <1>3, <3>2 DEF PiecesAreSealed
      <3> QED
          BY <3>1, <3>2
    <2> QED
        BY <1>3, <1>4, <2>1 DEF PiecesAreSealed
  <1>6. MomentsAreKept'
        BY <1>1, <1>2, <1>4 DEF MomentsAreKept, Holds
  <1>7. ReadsOneMoment'
    <2> SUFFICES ASSUME apart, NEW d \in 1 .. documents,
                        \A i \in 1 .. at : loader'.blocks[i] = d
                 PROVE  d \in wholes \/ Coming(d)' \/ Lost(d)'
        BY <1>3, <1>4 DEF ReadsOneMoment, OnlyReads
    <2>a. at \in 1 .. at /\ \A i \in 1 .. at - 1 : i \in 1 .. at
          BY <1>1
    <2>1. file[at] = d /\ \A i \in 1 .. at - 1 : loader.blocks[i] = d
      <3> HIDE DEF at
      <3> QED
          BY <1>3, <2>a
    <2> HIDE DEF at
    <2>2. CASE at = 1
      <3>1. CASE \E p \in Savers : saver[p].doc = d
        <4>1. PICK p \in Savers : saver[p].doc = d
              BY <3>1
        <4>2. saver[p].at # "sealed"
              BY <1>1, <2>1, <4>1 DEF PiecesAreSealed
        <4>3. saver[p].at # "idle"
              BY <4>1 DEF OwnDocuments
        <4>4. Saving(p)
              BY <4>2, <4>3 DEF Saving, TypeOK
        <4> QED
            BY <1>1, <1>3, <1>4, <2>1, <2>2, <4>1, <4>4, SMTT(30) DEF Coming
      <3>2. CASE \A p \in Savers : saver[p].doc # d
        <4>1. CASE Holds(file, d)
              BY <1>1, <4>1 DEF MomentsAreKept
        <4>2. CASE ~Holds(file, d)
          <5>a. file \in Seq(Nat)
                BY <1>1
          <5>1. PICK i \in 1 .. Blocks : i > Len(file) \/ file[i] # d
                BY <4>2, <5>a DEF Holds
          <5>2. i # 1
                BY <1>1, <2>1, <2>2, <5>1
          <5>3. i \in at + 1 .. Blocks
                BY <2>2, <5>2
          <5> QED
              BY <1>3, <1>4, <3>2, <5>1, <5>3 DEF Lost
        <4> QED
            BY <4>1, <4>2
      <3> QED
          BY <3>1, <3>2
    <2>3. CASE at # 1
      <3>1. OnlyReads(d)
            BY <1>1, <2>1, <2>3 DEF OnlyReads, at
      <3>2. CASE Coming(d)
        <4>1. \A i \in 1 .. at : file[i] = d
              BY <1>1, <2>1, <3>2, SMTT(30) DEF Coming, at
        <4> QED
            BY <1>1, <1>3, <1>4, <3>2, <4>1 DEF Coming
      <3>3. CASE Lost(d)
        <4>1. PICK i \in Len(loader.blocks) + 1 .. Blocks : i > Len(file) \/ file[i] # d
              BY <3>3 DEF Lost
        <4>2. i # at
              BY <1>1, <2>1, <4>1
        <4>3. i \in at + 1 .. Blocks
              BY <1>1, <4>1, <4>2 DEF at
        <4> QED
            BY <1>3, <1>4, <3>3, <4>1, <4>3 DEF Lost
      <3> QED
          BY <1>1, <3>1, <3>2, <3>3 DEF ReadsOneMoment
    <2> QED
        BY <2>2, <2>3
  <1> QED
      BY <1>4, <1>5, <1>6, <1>7 DEF LoadIsAtomic

(* A load that read a whole document read it to the end, so that it was or *)
(* still is in the file.                                                   *)
LEMMA LoadEndKnows ==
    ASSUME FileIInv, SavesIInv', LoadEnd \/ LoadFails
    PROVE  LoadKnows'
  <1> USE DEF FileIInv, SavesIInv, LoadKnows
  <1>1. /\ documents' = documents /\ file' = file /\ saver' = saver
        /\ apart' = apart /\ wholes' = wholes /\ loader' = Resting
        BY DEF LoadEnd, LoadFails, fileSystem, bounds
  <1>2. PiecesAreSealed' /\ MomentsAreKept' /\ ReadsOneMoment'
        BY <1>1 DEF PiecesAreSealed, MomentsAreKept, ReadsOneMoment, Resting
  <1>3. LoadIsAtomic'
    <2> DEFINE blocks == loader.blocks
               d == blocks[1]
    <2> SUFFICES ASSUME loaded' # 0, apart PROVE loaded' \in wholes
        BY <1>1 DEF LoadIsAtomic
    <2>1. /\ loader.at = "reading" /\ Len(blocks) = Blocks /\ FileAuthentic(blocks)
          /\ loaded' = d
          BY DEF LoadEnd, LoadFails
    <2>2. blocks \in Seq(Documents) /\ 1 \in 1 .. Len(blocks)
          BY <2>1 DEF TypeOK
    <2>a. d \in Documents /\ d # 0 /\ d <= documents
          BY <2>1, <2>2 DEF FileAuthentic, PiecesAreSealed
    <2>3. d \in 1 .. documents
      <3>1. documents \in 1 .. MaxDocuments
            BY DEF TypeOK
      <3> HIDE DEF d
      <3> QED
          BY <2>a, <3>1
    <2>4. \A i \in 1 .. Blocks : blocks[i] = d
          BY <2>1 DEF FileAuthentic, Whole
    <2> HIDE DEF d
    <2>5. OnlyReads(d)
          BY <2>1, <2>2, <2>4 DEF OnlyReads
    <2>6. ~Lost(d)
          BY <2>1 DEF Lost
    <2>7. Coming(d) => Holds(file, d)
          BY <2>1 DEF Coming, Holds
    <2> QED
        BY <2>1, <2>3, <2>5, <2>6, <2>7 DEF ReadsOneMoment, MomentsAreKept
  <1> QED
      BY <1>2, <1>3

(* The file system touches nothing a load has seen, a crash ends it.       *)
LEMMA MachineKnows ==
    ASSUME FileIInv, SavesIInv', LinkWritten \/ Crash
    PROVE  LoadKnows'
  <1> USE DEF FileIInv, SavesIInv, LoadKnows
  <1>1. CASE LinkWritten
        BY <1>1 DEF LinkWritten, PiecesAreSealed, MomentsAreKept, ReadsOneMoment, LoadIsAtomic,
                    OnlyReads, Coming, Lost, Saving, Holds, history, bounds
  <1>2. CASE Crash
    <2>1. ASSUME NEW f \in AfterCrash, NEW i \in 1 .. Len(f) PROVE f[i] <= documents
      <3>1. CASE f = file
            BY <3>1 DEF PiecesAreSealed
      <3>2. CASE f # file
        <4> DEFINE m == IF Len(file) < Len(disk) THEN Len(disk) ELSE Len(file)
        <4>1. \E n \in {0} \cup 1 .. m : f \in [1 .. n -> {0} \cup 1 .. documents]
              BY <3>2 DEF AfterCrash
        <4>a. Len(file) \in Nat /\ Len(disk) \in Nat /\ documents \in 1 .. MaxDocuments
          <5>1. /\ file \in Seq(Documents) /\ disk \in Seq(Documents)
                /\ documents \in 1 .. MaxDocuments
                BY DEF TypeOK
          <5> QED
              BY <5>1
        <4>2. m \in Nat /\ documents \in Nat
              BY <4>a
        <4>3. PICK n \in Nat : f \in [1 .. n -> {0} \cup 1 .. documents]
          <5> HIDE DEF m
          <5> QED
              BY <4>1, <4>2
        <4> QED
            BY <4>2, <4>3
      <3> QED
          BY <3>1, <3>2
    <2>2. \A i \in 1 .. Len(file') : file'[i] <= documents
      <3>1. CASE linked
            BY <1>2, <2>1, <3>1 DEF Crash
      <3>2. CASE ~linked
            BY <1>2, <3>2 DEF Crash
      <3> QED
          BY <3>1, <3>2
    <2>3. PiecesAreSealed'
          BY <1>2, <2>2 DEF Crash, PiecesAreSealed, Idle, Resting
    <2>4. MomentsAreKept' /\ ReadsOneMoment' /\ LoadIsAtomic'
          BY <1>2 DEF Crash, MomentsAreKept, ReadsOneMoment, LoadIsAtomic, Resting
    <2> QED
        BY <2>3, <2>4
  <1> QED
      BY <1>1, <1>2

-----------------------------------------------------------------------------
(* The inductive invariant holds initially and every step keeps it.        *)
LEMMA FileInitInv == FileInit => FileIInv
  BY SavesInitInv, LoadKnowsInit DEF FileIInv

LEMMA NextInv == FileIInv /\ [FileNext]_fileVars => FileIInv'
  <1> SUFFICES ASSUME FileIInv, [FileNext]_fileVars PROVE FileIInv'
      OBVIOUS
  <1> USE DEF FileIInv
  <1>1. ASSUME NEW p \in Savers,
               FileSeal(p) \/ Create(p) \/ Write(p) \/ Sync(p) \/ SaveFails(p)
        PROVE  SavesIInv' /\ LoadKnows'
    <2>1. SavesIInv'
          BY <1>1, SealInv, CreateInv, WriteInv, SyncInv, SaveFailsInv
    <2> QED
        BY <1>1, <2>1, SealKnows, CreateKnows, WriteKnows, SaveEndKnows
  <1>2. CASE LoadOpen \/ LoadRead \/ LoadEnd \/ LoadFails
    <2>1. SavesIInv'
          BY <1>2, LoadOpenInv, LoadReadInv, LoadEndInv, LoadFailsInv
    <2> QED
        BY <1>2, <2>1, LoadOpenKnows, LoadReadKnows, LoadEndKnows
  <1>3. CASE LinkWritten \/ Crash
    <2>1. SavesIInv'
          BY <1>3, LinkWrittenInv, CrashInv
    <2> QED
        BY <1>3, <2>1, MachineKnows
  <1>4. CASE UNCHANGED fileVars
    <2> USE <1>4 DEF fileVars, fileSystem, bounds, history
    <2>1. TypeOK'
          BY DEF SavesIInv, TypeOK
    <2>2. (OwnDocuments /\ AloneWrites)'
          BY DEF SavesIInv, OwnDocuments, AloneWrites, Saving
    <2>3. (SavedRests /\ LoadFollows)'
          BY DEF SavesIInv, SavedRests, SavedSurvives, Saving, LoadFollows
    <2>4. LoadKnows'
          BY DEF LoadKnows, PiecesAreSealed, MomentsAreKept, ReadsOneMoment,
                 LoadIsAtomic, OnlyReads, Coming, Lost, Saving, Holds
    <2> QED
        BY <2>1, <2>2, <2>3, <2>4 DEF SavesIInv
  <1> QED
      BY <1>1, <1>2, <1>3, <1>4 DEF FileNext

LEMMA Invariance == FileSpec => []FileIInv
  <1> QED
      BY FileInitInv, NextInv, PTL DEF FileSpec

-----------------------------------------------------------------------------
(* The variables of the file and of session::file's calls keep their types.*)
THEOREM FileTypeCorrect == FileSpec => []TypeOK
  <1>1. FileIInv => TypeOK
        BY DEF FileIInv, SavesIInv
  <1> QED
      BY <1>1, Invariance, PTL

(* A document whose save returned Ok and met no other save stays in the    *)
(* file and on the disk until the next save opens the file, through any    *)
(* number of crashes, failed saves and loads.                              *)
THEOREM SavedDocumentSurvives == FileSpec => []SavedSurvives
  <1>1. FileIInv => SavedSurvives
        BY DEF FileIInv, SavesIInv, SavedRests, SavedSurvives
  <1> QED
      BY <1>1, Invariance, PTL

(* A load of several reads is atomic: as long as the saves that truncate   *)
(* and rewrite the file under it do not overlap one another, it returns a  *)
(* document the file held whole at one moment of the load.                 *)
THEOREM LoadsAreAtomic == FileSpec => []LoadIsAtomic
  <1>1. FileIInv => LoadIsAtomic
        BY DEF FileIInv, LoadKnows
  <1> QED
      BY <1>1, Invariance, PTL

(* A load during which no save opened the file succeeds with the document  *)
(* of the last save, if that had the file for itself.                      *)
THEOREM LoadReturnsSaved == FileSpec => []LoadsWhatWasSaved
  <1>1. FileIInv => LoadsWhatWasSaved
        BY DEF FileIInv, SavesIInv, LoadFollows, LoadsWhatWasSaved
  <1> QED
      BY <1>1, Invariance, PTL
===============================================================================
